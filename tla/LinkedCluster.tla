---------------------------- MODULE LinkedCluster ----------------------------
(***************************************************************************)
(* What identity resolution promises of a cluster, whoever resolves and in *)
(* whatever order: it grows by one entity at a time, nobody in it is known *)
(* to be somebody else, a client's identity is never merged, and its       *)
(* survivor is the best member, the first of them in a tie.                *)
(***************************************************************************)
EXTENDS Integers

CONSTANTS
    Entities,  \* numbered in the order of their keys
    Seed,      \* the entity the cluster starts from
    Apart,     \* the pairs {a, b} known to be two different things
    Owned,     \* the entities whose identity belongs to a client
    Above      \* the pairs <<a, b>> where a is the better survivor

VARIABLES members, survivor

Coherent(S) ==
    \A a \in S, b \in S : {a, b} \notin Apart /\ (a # b => a \notin Owned)

Survives(m, S) ==
    \A n \in S \ {m} : <<m, n>> \in Above \/ (<<n, m>> \notin Above /\ m < n)

Init == members = {Seed} /\ survivor = Seed

Join(e) ==
    /\ members' = members \cup {e}
    /\ Coherent(members')
    /\ survivor' \in {m \in members' : Survives(m, members')}

Next == \E e \in Entities \ members : Join(e)

Spec == Init /\ [][Next]_<<members, survivor>>

=============================================================================
