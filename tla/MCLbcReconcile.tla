--------------------------- MODULE MCLbcReconcile ---------------------------
(* Instances of LbcReconcile for TLC: the constants its configurations share. *)
EXTENDS LbcReconcile

CONSTANTS lbcA, lbcB, usr1, usr2, usr3, own1, own2

Everywhere == PC
\* Anywhere but while a new load balancer is being made, and between the
\* clearing of the live record in a migration and the move of
\* status.loadBalancerId.
Outside == PC \ {"recordCreated", "recordLb", "waitActive", "forgetLb", "discardLb",
                 "ensureExist"}
NamedNone == [x \in UserLB |-> {}]
NamedA == [x \in UserLB |-> IF x = usr1 THEN {lbcA} ELSE {}]
=============================================================================
