-------------------------- MODULE OntologyLifecycle --------------------------
(***************************************************************************)
(* OntologyLifecycle (recuration/ontology.py).  The service is pure: its   *)
(* callers hold frozen copies of terms and keep them where they like, and  *)
(* a promotion plan is handed back to them.  Its constructor only stores   *)
(* the versions it stamps on a plan, so they are left out, as is executing *)
(* the plan: PlanExecutor refuses PROMOTE_ONTOLOGY_TERM unless a           *)
(* deployment adds it.  The storage here is external and blind: nothing    *)
(* makes a caller read a term again before it acts on an old copy.         *)
(***************************************************************************)
EXTENDS Integers, Sequences

CONSTANTS
    Terms,     \* the terms
    Curators,  \* the callers
    NoTerm     \* no term

VARIABLES
    stored,   \* what the callers' storage holds of each term
    holding,  \* the copy each caller has, NoTerm if none
    plans     \* the promotion plans, as the copies they were made from

ontologyVars == <<stored, holding, plans>>

States == {"PROPOSED", "APPROVED", "OBSERVED", "DEPRECATED"}

AllowedTransitions ==
    [PROPOSED |-> {"APPROVED", "DEPRECATED"}, APPROVED |-> {"OBSERVED", "DEPRECATED"},
     OBSERVED |-> {"DEPRECATED"}, DEPRECATED |-> {}]

\* Faulty variant: forward is always legal.
IsLegalForward(frm, to) == frm # "DEPRECATED" /\ to # "PROPOSED"

IsLegalTransition(frm, to) == to \in AllowedTransitions[frm]

\* The validator of OntologyTerm, run when one is constructed and not by
\* model_copy.
Constructible(term) ==
    LET history == term.history
    IN  /\ history[1] = "PROPOSED"
        /\ history[Len(history)] = term.state
        /\ \A n \in 1..Len(history) - 1 : IsLegalTransition(history[n], history[n + 1])

\* What a file of terms may say, legal or not.
Histories == UNION {[1..n -> States] : n \in 1..4}

OntologyInit ==
    /\ stored = [t \in Terms |-> NoTerm]
    /\ holding = [c \in Curators |-> NoTerm]
    /\ plans = {}

\* propose, propose_from_candidate: a new copy, whatever storage says of the term.
Propose(c, t) ==
    /\ holding' = [holding EXCEPT ![c] =
          [term |-> t, state |-> "PROPOSED", history |-> <<"PROPOSED">>]]
    /\ UNCHANGED <<stored, plans>>

\* A term is made from JSON of another origin: it is a legal one or raises.
Construct(c, t) ==
    /\ \E history \in Histories, state \in States :
        LET term == [term |-> t, state |-> state, history |-> history]
        IN  /\ Constructible(term)
            /\ holding' = [holding EXCEPT ![c] = term]
    /\ UNCHANGED <<stored, plans>>

Read(c, t) ==
    /\ stored[t] # NoTerm
    /\ holding' = [holding EXCEPT ![c] = stored[t]]
    /\ UNCHANGED <<stored, plans>>

\* The copy that transition returns: model_copy, which nothing validates.
Moved(term, to) == [term EXCEPT !.state = to, !.history = Append(term.history, to)]

\* transition: approve, observe, deprecate.
Transition(c, to) ==
    /\ holding[c] # NoTerm
    /\ IsLegalTransition(holding[c].state, to)
    /\ holding' = [holding EXCEPT ![c] = Moved(holding[c], to)]
    /\ UNCHANGED <<stored, plans>>

\* Storing is blind: whoever stores last wins.
Store(c) ==
    /\ holding[c] # NoTerm
    /\ stored' = [stored EXCEPT ![holding[c].term] = holding[c]]
    /\ UNCHANGED <<holding, plans>>

\* plan_promotion: refused unless the caller's copy is APPROVED, stored or not.
PlanPromotion(c) ==
    /\ holding[c] # NoTerm
    /\ holding[c].state = "APPROVED"
    /\ plans' = plans \cup {holding[c]}
    /\ UNCHANGED <<stored, holding>>

OntologyNext ==
    \E c \in Curators :
        \/ \E t \in Terms : Propose(c, t) \/ Construct(c, t) \/ Read(c, t)
        \/ \E to \in States : Transition(c, to)
        \/ Store(c)
        \/ PlanPromotion(c)

OntologySpec == OntologyInit /\ [][OntologyNext]_ontologyVars

-----------------------------------------------------------------------------
(* Properties. *)

Governed(term) ==
    LET history == term.history
    IN  /\ history[1] = "PROPOSED"
        /\ history[Len(history)] = term.state
        /\ \A n \in DOMAIN history :
            /\ history[n] = "OBSERVED" => n > 1 /\ history[n - 1] = "APPROVED"
            /\ history[n] = "DEPRECATED" => n = Len(history)

\* "Ontology promotion cannot skip approval" (law 12): no term anywhere has a
\* past without the approval it needs, or came back from deprecation, though a
\* copy is never validated; and only an approved one has a promotion plan.
ApprovalNeverSkipped ==
    /\ \A c \in Curators : holding[c] # NoTerm => Governed(holding[c])
    /\ \A t \in Terms : stored[t] # NoTerm => Governed(stored[t])
    /\ \A copy \in plans :
        Governed(copy) /\ copy.history = <<"PROPOSED", "APPROVED">>

=============================================================================
