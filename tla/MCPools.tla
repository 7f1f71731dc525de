------------------------------ MODULE MCPools -------------------------------
(* Instances of Pools for TLC: two LBCs that may share a pool and a member.   *)
EXTENDS Pools, TLC

CONSTANTS lbcA, lbcB, poolP, poolQ, memM, memN, memH

SpecsOf ==
  (lbcA :> {poolP :> {memM}, (poolP :> {memN}) @@ (poolQ :> {memN})}) @@
  (lbcB :> {poolP :> {memM, memN}})

BroughtPools == {NoPools, poolP :> {}}
=============================================================================
