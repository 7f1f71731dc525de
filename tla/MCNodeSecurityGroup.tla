------------------------- MODULE MCNodeSecurityGroup -------------------------
(* Instances of NodeSecurityGroup for TLC. *)
EXTENDS NodeSecurityGroup

CONSTANTS nsgA, nsgB, srv1, srv2, sgX, sgHand, m1, m2, m3, web

S(attach, managed, rs) == [attach |-> attach, managed |-> managed, rules |-> rs]

\* An existing group, or a managed one that has a rule.
Managing == {S({sgX}, FALSE, {}), S({}, TRUE, {web})}
\* Two NSGs on one server, or one on two.
Both == {[nsgs |-> {nsgA, nsgB}, servers |-> {srv1}],
         [nsgs |-> {nsgA}, servers |-> {srv1, srv2}]}
One == {[nsgs |-> {nsgA}, servers |-> {srv1}]}
Everywhere ==
  (PC \ {"idle", "next", "update", "note"}) \cup {"attach", "leave", "detach", "patch", "crash"}
=============================================================================
