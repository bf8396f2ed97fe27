---------------------- MODULE OntologyLifecycleProofs ----------------------
(***************************************************************************)
(* For any terms and curators: no term passes OBSERVED without APPROVED or *)
(* comes back from DEPRECATED, and only an approved copy has a promotion   *)
(* plan.                                                                   *)
(***************************************************************************)
EXTENDS OntologyLifecycle, SequenceTheorems, TLAPS

-----------------------------------------------------------------------------
(* The inductive form of "cannot skip approval": a history is a walk along *)
(* legal transitions, though only Construct ever checks one.               *)

Walk(h) ==
    /\ h \in Seq(States)
    /\ Len(h) >= 1
    /\ h[1] = "PROPOSED"
    /\ \A n \in 1..Len(h) - 1 : IsLegalTransition(h[n], h[n + 1])

Lawful(term) ==
    /\ term \in [term : Terms, state : States, history : Seq(States)]
    /\ Walk(term.history)
    /\ term.history[Len(term.history)] = term.state

\* What a step of a walk may be.
LEMMA LegalSteps ==
    ASSUME NEW x \in States, NEW y \in States, IsLegalTransition(x, y)
    PROVE  /\ x # "DEPRECATED" /\ y # "PROPOSED"
           /\ y = "OBSERVED" => x = "APPROVED"
           /\ y = "APPROVED" => x = "PROPOSED"
  BY DEF IsLegalTransition, AllowedTransitions, States

\* The indices of a walk's steps.
LEMMA WalkIndices ==
    ASSUME NEW L \in Nat, NEW n \in 1..L
    PROVE  /\ n # L => n \in 1..L - 1 /\ n + 1 \in 1..L
           /\ n # 1 => n > 1 /\ n - 1 \in 1..L - 1 /\ n - 1 \in 1..L /\ (n - 1) + 1 = n
  OBVIOUS

\* A walk is the past of a governed term.
LEMMA LawfulIsGoverned ==
    ASSUME NEW term, Lawful(term)
    PROVE  Governed(term)
  <1> DEFINE h == term.history
             L == Len(h)
  <1>1. L \in Nat /\ DOMAIN h = 1..L /\ \A n \in 1..L : h[n] \in States
    BY DEF Lawful, Walk
  <1>2. h[1] = "PROPOSED" /\ h[L] = term.state
        /\ \A n \in 1..L - 1 : IsLegalTransition(h[n], h[n + 1])
    BY DEF Lawful, Walk
  <1> HIDE DEF h, L
  <1>3. ASSUME NEW n \in 1..L, h[n] = "OBSERVED" PROVE n > 1 /\ h[n - 1] = "APPROVED"
    <2>1. n # 1
      BY <1>2, <1>3
    <2>2. n > 1 /\ n - 1 \in 1..L - 1 /\ n - 1 \in 1..L /\ (n - 1) + 1 = n
      BY <1>1, <2>1, WalkIndices
    <2>3. IsLegalTransition(h[n - 1], h[n])
      BY <1>2, <2>2
    <2>4. h[n - 1] \in States /\ h[n] \in States
      BY <1>1, <2>2
    <2> QED BY <1>3, <2>2, <2>3, <2>4, LegalSteps
  <1>4. ASSUME NEW n \in 1..L, h[n] = "DEPRECATED" PROVE n = L
    <2> SUFFICES ASSUME n # L PROVE FALSE
      OBVIOUS
    <2>1. n \in 1..L - 1 /\ n + 1 \in 1..L
      BY <1>1, WalkIndices
    <2>2. IsLegalTransition(h[n], h[n + 1])
      BY <1>2, <2>1
    <2>3. h[n] \in States /\ h[n + 1] \in States
      BY <1>1, <2>1
    <2> QED BY <1>4, <2>2, <2>3, LegalSteps
  <1> QED BY <1>1, <1>2, <1>3, <1>4 DEF Governed, h, L

\* The past of an approved term is its proposal and its approval.
LEMMA ApprovedPast ==
    ASSUME NEW term, Lawful(term), term.state = "APPROVED"
    PROVE  term.history = <<"PROPOSED", "APPROVED">>
  <1> DEFINE h == term.history
             L == Len(h)
             g == <<"PROPOSED", "APPROVED">>
  <1>1. L \in Nat /\ L >= 1 /\ \A n \in 1..L : h[n] \in States
    BY DEF Lawful, Walk
  <1>2. h[1] = "PROPOSED" /\ h[L] = "APPROVED"
        /\ \A n \in 1..L - 1 : IsLegalTransition(h[n], h[n + 1])
    BY DEF Lawful, Walk
  <1>3. h \in Seq(States)
    BY DEF Lawful, Walk
  <1>4. g \in Seq(States) /\ Len(g) = 2 /\ g[1] = "PROPOSED" /\ g[2] = "APPROVED"
    BY DEF States
  <1> HIDE DEF h, L, g
  <1>5. L # 1
    BY <1>2
  <1>6. L \in 1..L /\ L - 1 \in 1..L - 1 /\ L - 1 \in 1..L /\ (L - 1) + 1 = L
    BY <1>1, <1>5
  <1>7. IsLegalTransition(h[L - 1], h[L])
    BY <1>2, <1>6
  <1>8. h[L - 1] = "PROPOSED"
    BY <1>1, <1>2, <1>6, <1>7, LegalSteps
  <1>9. L = 2
    <2> SUFFICES ASSUME L - 1 # 1 PROVE FALSE
      BY <1>1
    <2>1. L - 2 \in 1..L - 1 /\ L - 2 \in 1..L /\ (L - 2) + 1 = L - 1
      BY <1>1, <1>5
    <2>2. IsLegalTransition(h[L - 2], h[L - 1])
      BY <1>2, <2>1
    <2> QED BY <1>1, <1>6, <1>8, <2>1, <2>2, LegalSteps
  <1>10. \A n \in 1..2 : n = 1 \/ n = 2
    OBVIOUS
  <1>11. \A n \in 1..Len(h) : h[n] = g[n]
    BY <1>2, <1>4, <1>9, <1>10 DEF L
  <1>12. h = g
    BY <1>3, <1>4, <1>9, <1>11, SeqEqual DEF L
  <1> QED BY <1>12 DEF h, g

\* What EXCEPT does to a term's record.
LEMMA CopyOfTerm ==
    ASSUME NEW A, NEW B, NEW C, NEW term \in [term : A, state : B, history : C],
           NEW st \in B, NEW hs \in C
    PROVE  LET after == [term EXCEPT !.state = st, !.history = hs]
           IN  /\ after \in [term : A, state : B, history : C]
               /\ after.term = term.term /\ after.state = st /\ after.history = hs
  OBVIOUS

\* transition appends a legal step.
LEMMA TransitionIsLawful ==
    ASSUME NEW term, Lawful(term), NEW to \in States, IsLegalTransition(term.state, to)
    PROVE  Lawful(Moved(term, to))
  <1> DEFINE h == term.history
             L == Len(h)
             g == Append(h, to)
             after == Moved(term, to)
  <1>1. L \in Nat /\ L >= 1
    BY DEF Lawful, Walk
  <1>2. h[1] = "PROPOSED" /\ h[L] = term.state
        /\ \A n \in 1..L - 1 : IsLegalTransition(h[n], h[n + 1])
    BY DEF Lawful, Walk
  <1>3. h \in Seq(States)
    BY DEF Lawful, Walk
  <1>4. g \in Seq(States) /\ Len(g) = L + 1 /\ g[L + 1] = to /\ \A n \in 1..L : g[n] = h[n]
    BY <1>3, AppendProperties
  <1>5. term \in [term : Terms, state : States, history : Seq(States)]
    BY DEF Lawful
  <1> HIDE DEF L, g
  <1>6. after \in [term : Terms, state : States, history : Seq(States)]
        /\ after.state = to /\ after.history = g
    BY <1>4, <1>5, CopyOfTerm DEF Moved, g
  <1> HIDE DEF h, after
  <1>7. 1 \in 1..L /\ L + 1 >= 1 /\ (L + 1) - 1 = L
    BY <1>1
  <1>8. g[1] = "PROPOSED" /\ Len(g) >= 1 /\ g[Len(g)] = to
    BY <1>2, <1>4, <1>7
  <1>9. ASSUME NEW n \in 1..L PROVE IsLegalTransition(g[n], g[n + 1])
    <2>1. CASE n = L
      <3>1. g[n] = term.state /\ g[n + 1] = to
        BY <1>2, <1>4, <2>1
      <3> QED BY <3>1
    <2>2. CASE n # L
      <3>1. n \in 1..L - 1 /\ n + 1 \in 1..L
        BY <1>1, <2>2, WalkIndices
      <3> QED BY <1>2, <1>4, <3>1
    <2> QED BY <2>1, <2>2
  <1>10. Walk(g)
    BY <1>4, <1>7, <1>8, <1>9 DEF Walk
  <1>11. Lawful(after)
    BY <1>6, <1>8, <1>10 DEF Lawful
  <1> QED BY <1>11 DEF after

\* The validator of OntologyTerm accepts lawful terms only.
LEMMA ConstructIsLawful ==
    ASSUME NEW t \in Terms, NEW history \in Histories, NEW state \in States,
           Constructible([term |-> t, state |-> state, history |-> history])
    PROVE  Lawful([term |-> t, state |-> state, history |-> history])
  <1>1. PICK n \in 1..4 : history \in [1..n -> States]
    BY DEF Histories
  <1>2. history \in Seq(States) /\ Len(history) = n
    BY <1>1
  <1>3. Len(history) >= 1
    BY <1>2
  <1> DEFINE term == [term |-> t, state |-> state, history |-> history]
  <1>4. term \in [term : Terms, state : States, history : Seq(States)]
        /\ term.history = history /\ term.state = state
    BY <1>2
  <1>5. /\ history[1] = "PROPOSED" /\ history[Len(history)] = state
        /\ \A k \in 1..Len(history) - 1 : IsLegalTransition(history[k], history[k + 1])
    BY DEF Constructible
  <1>6. Walk(history)
    BY <1>2, <1>3, <1>5 DEF Walk
  <1> HIDE DEF term
  <1>7. Lawful(term)
    BY <1>4, <1>5, <1>6 DEF Lawful
  <1> QED BY <1>7 DEF term

\* propose makes a lawful term.
LEMMA ProposalIsLawful ==
    ASSUME NEW t \in Terms
    PROVE  Lawful([term |-> t, state |-> "PROPOSED", history |-> <<"PROPOSED">>])
  <1> DEFINE h == <<"PROPOSED">>
             term == [term |-> t, state |-> "PROPOSED", history |-> h]
  <1>1. "PROPOSED" \in States
    BY DEF States
  <1>2. h \in Seq(States) /\ Len(h) = 1 /\ h[1] = "PROPOSED"
    BY <1>1
  <1>3. term.history = h /\ term.state = "PROPOSED"
    OBVIOUS
  <1> HIDE DEF h
  <1>4. term \in [term : Terms, state : States, history : Seq(States)]
    BY <1>1, <1>2
  <1>5. 1..Len(h) - 1 = {}
    BY <1>2
  <1>6. Walk(h)
    BY <1>2, <1>5 DEF Walk
  <1> HIDE DEF term
  <1>7. Lawful(term)
    BY <1>2, <1>3, <1>4, <1>6 DEF Lawful
  <1> QED BY <1>7 DEF term, h

-----------------------------------------------------------------------------
(* Every copy there is, is lawful. *)

Copies == {NoTerm} \cup [term : Terms, state : States, history : Seq(States)]

LawfulCopies ==
    /\ stored \in [Terms -> Copies]
    /\ holding \in [Curators -> Copies]
    /\ \A c \in Curators : holding[c] # NoTerm => Lawful(holding[c])
    /\ \A t \in Terms : stored[t] # NoTerm => Lawful(stored[t]) /\ stored[t].term = t
    /\ \A copy \in plans : Lawful(copy) /\ copy.state = "APPROVED"

\* A copy that takes the place of another is enough to look at.
LEMMA NewCopy ==
    ASSUME LawfulCopies, NEW c \in Curators, NEW copy, Lawful(copy),
           holding' = [holding EXCEPT ![c] = copy], UNCHANGED <<stored, plans>>
    PROVE  LawfulCopies'
  <1>1. copy \in Copies
    BY DEF Lawful, Copies
  <1>2. holding' \in [Curators -> Copies]
    BY <1>1 DEF LawfulCopies
  <1>3. \A d \in Curators : holding'[d] # NoTerm => Lawful(holding'[d])
    BY DEF LawfulCopies
  <1> QED BY <1>2, <1>3 DEF LawfulCopies

LEMMA LawfulInit ==
    ASSUME OntologyInit
    PROVE  LawfulCopies
  BY DEF OntologyInit, LawfulCopies, Copies

\* No step makes an unlawful copy.
LEMMA LawfulNext ==
    ASSUME LawfulCopies, [OntologyNext]_ontologyVars
    PROVE  LawfulCopies'
  <1>1. CASE UNCHANGED ontologyVars
    BY <1>1 DEF ontologyVars, LawfulCopies
  <1>2. ASSUME NEW c \in Curators, NEW t \in Terms, Propose(c, t) PROVE LawfulCopies'
    BY <1>2, ProposalIsLawful, NewCopy DEF Propose
  <1>3. ASSUME NEW c \in Curators, NEW t \in Terms, Construct(c, t) PROVE LawfulCopies'
    <2>1. PICK history \in Histories, state \in States :
            /\ Constructible([term |-> t, state |-> state, history |-> history])
            /\ holding' = [holding EXCEPT ![c] =
                  [term |-> t, state |-> state, history |-> history]]
      BY <1>3 DEF Construct
    <2>2. UNCHANGED <<stored, plans>>
      BY <1>3 DEF Construct
    <2> QED BY <2>1, <2>2, ConstructIsLawful, NewCopy
  <1>4. ASSUME NEW c \in Curators, NEW t \in Terms, Read(c, t) PROVE LawfulCopies'
    <2>1. Lawful(stored[t])
      BY <1>4 DEF Read, LawfulCopies
    <2> QED BY <1>4, <2>1, NewCopy DEF Read
  <1>5. ASSUME NEW c \in Curators, NEW to \in States, Transition(c, to) PROVE LawfulCopies'
    <2> DEFINE after == Moved(holding[c], to)
    <2>1. Lawful(holding[c])
      BY <1>5 DEF Transition, LawfulCopies
    <2>2. Lawful(after)
      BY <1>5, <2>1, TransitionIsLawful DEF Transition
    <2>3. holding' = [holding EXCEPT ![c] = after] /\ UNCHANGED <<stored, plans>>
      BY <1>5 DEF Transition
    <2> HIDE DEF after
    <2> QED BY <2>2, <2>3, NewCopy
  <1>6. ASSUME NEW c \in Curators, Store(c) PROVE LawfulCopies'
    <2>1. Lawful(holding[c])
      BY <1>6 DEF Store, LawfulCopies
    <2>2. holding[c].term \in Terms /\ holding[c] \in Copies
      BY <2>1 DEF Lawful, Copies
    <2>3. stored' = [stored EXCEPT ![holding[c].term] = holding[c]]
          /\ UNCHANGED <<holding, plans>>
      BY <1>6 DEF Store
    <2>4. stored' \in [Terms -> Copies]
      BY <2>2, <2>3 DEF LawfulCopies
    <2>5. \A t \in Terms : stored'[t] # NoTerm => Lawful(stored'[t]) /\ stored'[t].term = t
      BY <2>1, <2>2, <2>3 DEF LawfulCopies
    <2> QED BY <2>3, <2>4, <2>5 DEF LawfulCopies
  <1>7. ASSUME NEW c \in Curators, PlanPromotion(c) PROVE LawfulCopies'
    <2>1. Lawful(holding[c])
      BY <1>7 DEF PlanPromotion, LawfulCopies
    <2>2. \A copy \in plans' : Lawful(copy) /\ copy.state = "APPROVED"
      BY <1>7, <2>1 DEF PlanPromotion, LawfulCopies
    <2> QED BY <1>7, <2>2 DEF PlanPromotion, LawfulCopies
  <1> QED
    BY <1>1, <1>2, <1>3, <1>4, <1>5, <1>6, <1>7 DEF OntologyNext

LEMMA SpecLawful == OntologySpec => []LawfulCopies
  <1>1. OntologyInit => LawfulCopies
    BY LawfulInit
  <1>2. LawfulCopies /\ [OntologyNext]_ontologyVars => LawfulCopies'
    BY LawfulNext
  <1> QED BY <1>1, <1>2, PTL DEF OntologySpec

\* Law 12, "ontology promotion cannot skip approval", for any terms and callers.
THEOREM SpecApprovalNeverSkipped == OntologySpec => []ApprovalNeverSkipped
  <1>1. LawfulCopies => ApprovalNeverSkipped
    BY LawfulIsGoverned, ApprovedPast DEF LawfulCopies, ApprovalNeverSkipped
  <1> QED BY <1>1, SpecLawful, PTL

=============================================================================
