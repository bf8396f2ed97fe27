--------------------------- MODULE MCReviewQueue ---------------------------
(***************************************************************************)
(* Instances of ReviewQueue for TLC: two items, two decisions of the first *)
(* and one of the second, two processes.                                   *)
(***************************************************************************)
EXTENDS ReviewQueue, TLC

CONSTANTS p1, p2, i1, i2, d1, d2, d3

TwoAndOne == (d1 :> i1) @@ (d2 :> i1) @@ (d3 :> i2)

Symmetry == Permutations(Processes)

=============================================================================
