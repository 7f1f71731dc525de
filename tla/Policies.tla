----------------------------- MODULE Policies ------------------------------
(***************************************************************************)
(* The policies of an Ingress: what buildPoolsAndListeners and its helpers *)
(* of ingress_uc make of the rules of the object, the order it asks for,   *)
(* and the comparisons of lbc_uc with the policies of a listener.  A path  *)
(* is the sequence of the characters after its first slash.                *)
(***************************************************************************)
EXTENDS Targets, TLC, SequencesExt

CONSTANTS
  Character,        \* what paths are made of
  Host, HostLen     \* host names and their lengths

Listener == {"http", "https"}
Weight ==
  [REGEX |-> 10, CONTAINS |-> 100, ENDS_WITH |-> 1000, STARTS_WITH |-> 10000,
   EQUAL_TO |-> 100000]

ASSUME PoliciesAssumption ==
  HostLen \in [Host -> Nat \ {0}] /\ None \notin Host

-----------------------------------------------------------------------------
(* Rules of policies. *)

L7Rule(on, compare, value) == [on |-> on, compare |-> compare, value |-> value]

\* A path with a path type of its own takes its rules and its action from the
\* annotation, and is an exact one if that does not mention it.
Configured(path) == path.type = "ImplementationSpecific" /\ path.conf # None

BuildPolicyByPath(host, path) ==
  IF Configured(path) THEN path.conf.rules
  ELSE {L7Rule("PATH", IF path.type = "Prefix" THEN "STARTS_WITH" ELSE "EQUAL_TO", path.path)}
         \cup {L7Rule("HOST_NAME", "EQUAL_TO", h) : h \in {host} \ {None}}

BuildPolicyAction(path) ==
  IF Configured(path) THEN [action |-> path.conf.action, url |-> path.conf.url]
  ELSE [action |-> "REDIRECT_TO_POOL", url |-> None]

Length(r) == IF r.on = "HOST_NAME" THEN HostLen[r.value] ELSE Len(r.value) + 1
GetRulePriority(r) == Weight[r.compare] * (IF r.on = "HOST_NAME" THEN 100 ELSE 1) * Length(r)
GetPolicyPriority(p) == MapThenSumSet(GetRulePriority, p.rules)

\* Mutant of AutoPosition: the least specific comes first.
LeastFirst(ps, i) ==
  LET pr(j) == GetPolicyPriority(ps[j])
  IN 1 + Cardinality({j \in DOMAIN ps : pr(j) < pr(i) \/ (pr(j) = pr(i) /\ j < i)})

\* Where the auto-reorder annotation wants the i-th policy: by weight, and as
\* in the object among equals (sort.Slice is stable up to twelve elements).
AutoPosition(ps, i) ==
  LET pr(j) == GetPolicyPriority(ps[j])
  IN 1 + Cardinality({j \in DOMAIN ps : pr(j) > pr(i) \/ (pr(j) = pr(i) /\ j < i)})

\* Where a policy without a wish goes: before all the others.
NoPosition == 0

-----------------------------------------------------------------------------
(* The Ingress: rules for hosts, with paths; the hosts of its TLS section,   *)
(* or None without one; a default backend.                                   *)

Backend(path) == [svc |-> path.svc, key |-> path.key]
Indexes(o) == UNION {{i} \X (DOMAIN o.rules[i].paths) : i \in DOMAIN o.rules}
PathAt(o, x) == o.rules[x[1]].paths[x[2]]
HostAt(o, x) == o.rules[x[1]].host

\* A host with TLS is served on the HTTPS listener only.
ListenerOf(o, host) == IF o.tls # None /\ host \in o.tls THEN "https" ELSE "http"
CheckNeedHTTPListener(o) ==
  o.default # None \/ \E i \in DOMAIN o.rules : ListenerOf(o, o.rules[i].host) = "http"
ListenersOf(o) ==
  {l \in Listener : IF l = "http" THEN CheckNeedHTTPListener(o) ELSE o.tls # None}

\* TLS needs a secret or the ids of certificates.
CannotServeTLS(o) == o.tls # None /\ ~o.certs

\* The pool of a backend is named after the Service and the port's number.
BackendPool(b) == <<b.svc, LookupPort(b.svc, b.key).num>>
Good(cl, b) == Resolvable(cl, b.svc, b.key)
ToPool(path) == BuildPolicyAction(path).action = "REDIRECT_TO_POOL"

\* A path whose backend cannot be resolved is left out.
Served(cl, o) == {x \in Indexes(o) : ToPool(PathAt(o, x)) => Good(cl, Backend(PathAt(o, x)))}

BuildPolicy(o, x) ==
  LET path == PathAt(o, x)
  IN [name |-> x, rules |-> BuildPolicyByPath(HostAt(o, x), path),
      action |-> BuildPolicyAction(path).action, url |-> BuildPolicyAction(path).url,
      pool |-> IF ToPool(path) THEN BackendPool(Backend(path)) ELSE None]

\* In the order of the object, which with less than ten rules and ten paths is
\* that of the names.
Before(x, y) == x[1] < y[1] \/ (x[1] = y[1] /\ x[2] < y[2])
BuildPolicies(cl, o, l) ==
  LET xs == SetToSortSeq({x \in Served(cl, o) : ListenerOf(o, HostAt(o, x)) = l}, Before)
      ps == [i \in DOMAIN xs |-> BuildPolicy(o, xs[i])]
  IN [i \in DOMAIN ps |-> ps[i] @@
        [pos |-> IF o.reorder THEN AutoPosition(ps, i) ELSE NoPosition]]

DefaultGood(cl, o) == o.default # None /\ Good(cl, o.default)
Default == <<"default", 0>>

BuildIngressListeners(cl, o) ==
  [l \in ListenersOf(o) |->
     [pool |-> IF DefaultGood(cl, o) THEN Default ELSE None, policies |-> BuildPolicies(cl, o, l)]]

\* The backends that pools are made for.
PathBackends(cl, o) ==
  {Backend(PathAt(o, x)) : x \in {y \in Served(cl, o) : ToPool(PathAt(o, y))}}
BuildIngressPools(cl, o) ==
  LET backends == PathBackends(cl, o)
      named == {BackendPool(b) : b \in backends}
  IN [n \in named |->
        BuildIngressPool(cl, o, CHOOSE b \in backends : BackendPool(b) = n)]
     @@ (IF DefaultGood(cl, o) THEN Default :> BuildIngressPool(cl, o, o.default) ELSE <<>>)

\* Rules are made for every backend that resolves, routed to or not.
RuleBackends(cl, o) ==
  {b \in {Backend(PathAt(o, x)) : x \in Indexes(o)} \cup ({o.default} \ {None}) : Good(cl, b)}
BuildIngressRules(cl, o, from) ==
  EnsureDefaultEgressSecgroupRule(EnsureSecgroupPING_UDP(UNION
    {BuildPoolSecgroupRule(cl, o, b.svc, b.key, "TCP", from) : b \in RuleBackends(cl, o)}))

CannotBuildIngress(cl, o) ==
  \/ CannotServeTLS(o)
  \/ \E b \in PathBackends(cl, o) : CannotBuildPool(cl, o, b.svc)
  \/ DefaultGood(cl, o) /\ CannotBuildPool(cl, o, o.default.svc)
  \/ \E x \in Indexes(o) : Configured(PathAt(o, x)) /\ ~PathAt(o, x).conf.valid
CannotBuildIngressRules(cl, o) ==
  \E b \in RuleBackends(cl, o) : CannotBuildRules(cl, o, b.svc)

-----------------------------------------------------------------------------
(* Policies on the cloud: a sequence, in the order they are tried. *)

\* What an update makes of a policy: of the redirections, only the one that
\* the action is about is looked at.
PolicyUpdate(want, cur) ==
  [cur EXCEPT !.action = want.action, !.rules = want.rules,
     !.pool = IF want.action = "REDIRECT_TO_POOL" THEN want.pool ELSE @,
     !.url = IF want.action = "REDIRECT_TO_URL" THEN want.url ELSE @]

\* The places, on the cloud, of the policies wanted, and where they are wanted.
Entries(want, cur) ==
  {j \in DOMAIN cur : \E i \in DOMAIN want : want[i].name = cur[j].name}
Expect(want, cur, j) ==
  want[CHOOSE i \in DOMAIN want : want[i].name = cur[j].name].pos

\* What the sort puts first, and what comes first on the cloud once the sorted
\* policies are listed: the others come after them, as they were.
SortsBefore(want, cur, j, k) ==
  LET e(i) == Expect(want, cur, i)
  IN e(j) < e(k) \/ (e(j) = e(k) /\ j < k)
ComesBefore(want, cur, j, k) ==
  LET listed == Entries(want, cur)
  IN IF {j, k} \subseteq listed THEN SortsBefore(want, cur, j, k)
     ELSE j \in listed \/ (k \notin listed /\ j < k)

\* That order, as a permutation of the places.
Sorted(want, cur) ==
  {q \in Bijection(DOMAIN cur, DOMAIN cur) :
     \A a, b \in DOMAIN cur : a < b => ComesBefore(want, cur, q[a], q[b])}

\* Only neighbours are compared: enough, since the first are sorted.
NeedReorder(want, cur, q) ==
  \E i \in 2..Cardinality(Entries(want, cur)) :
    Expect(want, cur, q[i - 1]) < Expect(want, cur, q[i]) /\ q[i - 1] > q[i]

ReorderPolicies(cur, q) == [i \in DOMAIN cur |-> cur[q[i]]]
=============================================================================
