------------------------------ MODULE MCGlobal ------------------------------
(* Instances of Global for TLC: two GLBCs of one name.                       *)
EXTENDS Global, TLC

CONSTANTS glbcA, glbcB, lbX, lbY, poolP, poolQ, nameN, memM, memH

WantOf(pin, port, pool, members) ==
  [pin |-> pin, port |-> port, pool |-> pool, members |-> members]

SameName == [g \in GLBC |-> nameN]

\* lbY is the user's, with a pool and a listener of the user's own.
UsersLb ==
  (lbX :> None) @@
  (lbY :> [name |-> User, state |-> "ACTIVE", lis |-> (1 :> poolQ) @@ (2 :> None),
         pools |-> (poolP :> None) @@ (poolQ :> GroupOf(User, {memM}))])

\* glbcA asks for a load balancer, or for the user's one, or for another port and
\* pool; glbcB for the load balancer of the same name.
WantedShared ==
  (glbcA :> {WantOf(None, 2, poolP, {memM}), WantOf(lbY, 2, poolP, {memM}),
            WantOf(None, 1, poolQ, {memM})}) @@
  (glbcB :> {WantOf(None, 2, poolP, {memM})})

\* What the theorems assume is true of this instance.
ASSUME SharedAssumption == PortsApart /\ OnePort /\ UsersOwn
=============================================================================
