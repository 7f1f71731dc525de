------------------------------ MODULE MCOwner ------------------------------
(* An instance of Owner for TLC: clusters with one owner of each kind, the   *)
(* two of a Service together.                                                *)
EXTENDS Owner, TLC

CONSTANTS configA, configB

Ask(on, ignore, want, pre) == [on |-> on, ignore |-> ignore, want |-> want, pre |-> pre]

Plain(on, w) == Ask(on, FALSE, w, "ok")

SpecsAll ==
  ("service" :> {Plain("type", 1), Plain("note", 1)}) @@
  ("ingress" :> {Plain("type", 1), Ask("type", TRUE, 1, "ok"), Plain("off", 1)}) @@
  ("serviceGlb" :> {Plain("note", 1)}) @@
  ("vglb" :> {Ask("type", FALSE, 1, pre) : pre \in {"missing", "follower", "ok"}})

Clusters == {{"service", "serviceGlb"}, {"ingress"}, {"vglb"}}

\* Two controllers at once: nothing fails, and the user makes one change.
Both(u) == Cardinality(u) = 2
EditsOf == [u \in Used |-> IF Both(u) \/ u = {"ingress"} THEN 1 ELSE 2]
LateOf == [u \in Used |-> IF Both(u) THEN 0 ELSE 1]
FaultsOf == [u \in Used |-> IF Both(u) THEN 0 ELSE 1]
=============================================================================
