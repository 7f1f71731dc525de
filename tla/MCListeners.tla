---------------------------- MODULE MCListeners -----------------------------
(* Instances of Listeners for TLC: two LBCs that may share a port.            *)
EXTENDS Listeners, TLC

CONSTANTS lbcA, lbcB, poolP, poolU, allowed, blocked, valX, valY

\* Allowed CIDRs and blocked CIDRs; the default action behaves as the latter.
AclOf(al, bl) == (allowed :> al) @@ (blocked :> bl)
WantOf(pool, acl, rules) == [on |-> TRUE, pool |-> pool, acl |-> acl, rules |-> rules]

Opened == AclOf(valX, valX)

\* lbcA asks for a shared pool, with and without an ACL, or for no listener; lbcB for
\* the same pool and policies, with an ACL that overlaps.
WantedShared ==
  (lbcA :> {WantOf(poolP, AclOf(None, valY), FALSE), WantOf(poolP, NoAcl, FALSE), NoWant}) @@
  (lbcB :> {WantOf(poolP, AclOf(valY, valY), TRUE)})

\* Both ask for policies on a listener without a default pool.
WantedBare == [l \in LBC |-> {WantOf(None, NoAcl, TRUE)}]

UsersListener == {[pool |-> poolU, acl |-> Opened, rules |-> {}], None}
=============================================================================
