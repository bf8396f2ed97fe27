------------------------ MODULE MCConceptEvolution ------------------------
(***************************************************************************)
(* Instances of ConceptEvolution for TLC: four records of one fact, one of *)
(* another.                                                                *)
(***************************************************************************)
EXTENDS ConceptEvolution, TLC

CONSTANTS a, b, c, d, g, fact1, fact2, w1, w2

Facts == [r \in Records |-> IF r = g THEN fact2 ELSE fact1]

\* Each piece of new evidence arrives once: two rivals for a, a successor of one
\* of them, evidence a already cites, and a caller that confused two facts.
FreshTriggers ==
    {[old |-> a, new |-> b], [old |-> a, new |-> c], [old |-> b, new |-> d],
     [old |-> a, new |-> a], [old |-> a, new |-> g]}

\* The fact goes back to what it said first, on the evidence cited first.
ReturningTriggers == {[old |-> a, new |-> b], [old |-> b, new |-> a]}

Symmetry == Permutations(Workers)

=============================================================================
