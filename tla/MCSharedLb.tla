----------------------------- MODULE MCSharedLb -----------------------------
(* Instances of SharedLb for TLC: LBCs a1, a2 of cluster A, b1 of B, c1 of C. *)
EXTENDS SharedLb

CONSTANTS clusterA, clusterB, clusterC, a1, a2, b1, c1

Where ==
  [l \in LBC |-> IF l = b1 THEN clusterB ELSE IF l = c1 THEN clusterC ELSE clusterA]

\* Three clusters; or two, one of them with two LBCs.
Turns == {{b1, c1}, {a2, b1}}
\* Beside the maker one of another cluster, or one of its own.
Pairs == {{b1}, {a2}}
All == {LBC}
=============================================================================
