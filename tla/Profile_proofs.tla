--------------------------- MODULE Profile_proofs ---------------------------
(***************************************************************************)
(* The profile card holds what the user said, for any number of turns,     *)
(* whatever the messages, the forms and the guesses of the classifier.     *)
(***************************************************************************)
EXTENDS Profile, TLAPS

\* Messages are made of phrases, and a form answers fields with values.
WellFormed(Words, Values) ==
    /\ Messages \subseteq SUBSET [field : Fields \cup {"stock_code"}, words : SUBSET Words,
                                  means : Values, explicit : BOOLEAN]
    /\ Forms \subseteq SUBSET (Fields \X Values)

IsCard(c) == c = [fields |-> c.fields, confirmed |-> c.confirmed, stock_codes |-> c.stock_codes]

IsTurn(r) == r \in [at : {r.at}, message : {r.message}, form : {r.form}, guesses : {r.guesses},
                    copy : {r.copy}]

\* A card of which every entry is in S, the set of what was said.
Founded(c, S) ==
    /\ IsCard(c)
    /\ \A f \in Fields : c.fields[f] # Unset => <<f, c.fields[f]>> \in S
    /\ \A v \in c.stock_codes : <<"stock_code", v>> \in S

\* Facts of which every one is in S.
AllSaid(facts, S) == \A x \in facts : x \in S /\ x = <<x[1], x[2]>>

\* What a turn holds: a founded copy, answers and phrases that count as said.
TurnInv(r, S) ==
    /\ IsTurn(r)
    /\ Founded(r.copy, S)
    /\ AllSaid(r.form, S)
    /\ \A q \in Quotes(r.message) : <<q.field, Stated(q)>> \in S
    /\ r.message \subseteq Quotes(r.message)

IInv ==
    /\ turn = [t \in Turns |-> turn[t]]
    /\ Founded(card, said)
    /\ \A t \in Turns : TurnInv(turn[t], said)

-----------------------------------------------------------------------------

LEMMA EmptyFounded == \A S : Founded(EmptyCard, S)
BY DEF Founded, IsCard, EmptyCard

\* A phrase is a quote of the message it stands in.
LEMMA PhraseIsQuote ==
    ASSUME NEW Words, NEW Values, WellFormed(Words, Values), NEW m \in Messages
    PROVE  m \subseteq Quotes(m)
<1>1. SUFFICES ASSUME NEW p \in m PROVE p \in Quotes(m)
  OBVIOUS
<1>2. p \in [field : Fields \cup {"stock_code"}, words : SUBSET Words, means : Values,
             explicit : BOOLEAN]
  BY DEF WellFormed
<1>3. p = [p EXCEPT !.words = p.words]
  BY <1>2
<1>4. p \in {[p EXCEPT !.words = w] : w \in SUBSET p.words}
  BY <1>3
<1>. QED BY <1>4 DEF Quotes

\* What is taken from a message, by the rules or from the classifier, was said.
LEMMA CandidatesSaid ==
    ASSUME NEW S, NEW m, NEW g, m \subseteq Quotes(m),
           \A q \in Quotes(m) : <<q.field, Stated(q)>> \in S
    PROVE  AllSaid(Candidates(m, g), S)
<1>1. \A p \in Confirmed(m) : <<p.field, Stated(p)>> \in S
  BY DEF Confirmed
<1>2. \A h \in g : Believed(h, m) => <<h.field, h.value>> \in S
  BY DEF Believed
<1>. QED BY <1>1, <1>2 DEF AllSaid, Candidates

LEMMA AppliedFounded ==
    ASSUME NEW S, NEW c, NEW facts, Founded(c, S), AllSaid(facts, S)
    PROVE  Founded(Applied(c, facts), S)
<1> DEFINE told(f) == {x[2] : x \in {y \in facts : y[1] = f}}
           a == Applied(c, facts)
<1>1. \A f : \A v \in told(f) : <<f, v>> \in S
  BY DEF AllSaid
<1>2. /\ IsCard(a)
      /\ \A f \in Fields : a.fields[f] = IF told(f) = {} THEN c.fields[f]
                                         ELSE CHOOSE v \in told(f) : TRUE
      /\ a.stock_codes = c.stock_codes \cup told("stock_code")
  BY DEF Applied, IsCard
<1>. HIDE DEF told, a
<1>3. ASSUME NEW f \in Fields, a.fields[f] # Unset PROVE <<f, a.fields[f]>> \in S
  <2>1. CASE told(f) = {}
    BY <1>2, <1>3, <2>1 DEF Founded
  <2>2. CASE told(f) # {}
    <3>1. (CHOOSE v \in told(f) : TRUE) \in told(f)
      BY <2>2
    <3>. QED BY <1>1, <1>2, <2>2, <3>1
  <2>. QED BY <2>1, <2>2
<1>4. \A v \in a.stock_codes : <<"stock_code", v>> \in S
  BY <1>1, <1>2 DEF Founded
<1>5. Founded(a, S)
  BY <1>2, <1>3, <1>4 DEF Founded
<1>. QED BY <1>5 DEF a

\* The card as the answers of a form leave it.
Filled(c, form) ==
    [c EXCEPT !.fields = [f \in Fields |->
        IF \E x \in form : x[1] = f THEN (CHOOSE x \in form : x[1] = f)[2] ELSE @[f]]]

LEMMA FilledFounded ==
    ASSUME NEW S, NEW c, NEW form, Founded(c, S), AllSaid(form, S)
    PROVE  Founded(Filled(c, form), S)
<1> DEFINE a == Filled(c, form)
<1>1. /\ IsCard(a) /\ a.stock_codes = c.stock_codes
      /\ \A f \in Fields : a.fields[f] = IF \E x \in form : x[1] = f
                                         THEN (CHOOSE x \in form : x[1] = f)[2]
                                         ELSE c.fields[f]
  BY DEF Filled, Founded, IsCard
<1>. HIDE DEF a
<1>2. ASSUME NEW f \in Fields, a.fields[f] # Unset PROVE <<f, a.fields[f]>> \in S
  <2>1. CASE \E x \in form : x[1] = f
    <3> DEFINE y == CHOOSE x \in form : x[1] = f
    <3>1. y \in form /\ y[1] = f
      BY <2>1
    <3>2. a.fields[f] = y[2]
      BY <1>1, <2>1
    <3>. HIDE DEF y
    <3>3. y \in S /\ y = <<f, y[2]>>
      BY <3>1 DEF AllSaid
    <3>. QED BY <3>2, <3>3
  <2>2. CASE ~ \E x \in form : x[1] = f
    BY <1>1, <1>2, <2>2 DEF Founded
  <2>. QED BY <2>1, <2>2
<1>3. Founded(a, S)
  BY <1>1, <1>2 DEF Founded
<1>. QED BY <1>3 DEF a

\* Where more has been said, what was founded stays founded.
LEMMA SaidStays ==
    ASSUME NEW S, NEW T, S \subseteq T
    PROVE  /\ \A c : Founded(c, S) => Founded(c, T)
           /\ \A r : TurnInv(r, S) => TurnInv(r, T)
<1>1. \A c : Founded(c, S) => Founded(c, T)
  BY DEF Founded
<1>2. \A r : TurnInv(r, S) => TurnInv(r, T)
  BY <1>1 DEF TurnInv, AllSaid
<1>. QED BY <1>1, <1>2

-----------------------------------------------------------------------------

LEMMA InitFounded == Init => IInv
<1>1. SUFFICES ASSUME Init PROVE IInv
  OBVIOUS
<1>2. TurnInv(Waiting, said)
  BY EmptyFounded DEF TurnInv, Waiting, IsTurn, AllSaid, Quotes
<1>. QED BY <1>1, <1>2, EmptyFounded DEF Init, IInv

\* A step of one turn that leaves it, and the card, founded on what was said.
LEMMA OneTurn ==
    ASSUME IInv, NEW t \in Turns, NEW r, turn' = [turn EXCEPT ![t] = r], TurnInv(r, said),
           Founded(card', said), said' = said
    PROVE  IInv'
<1>1. turn'[t] = r /\ \A u \in Turns \ {t} : turn'[u] = turn[u]
  BY DEF IInv
<1>2. \A u \in Turns : TurnInv(turn'[u], said')
  BY <1>1 DEF IInv
<1>3. Founded(card', said') /\ turn' = [u \in Turns |-> turn'[u]]
  BY DEF IInv
<1>. QED BY <1>2, <1>3 DEF IInv

LEMMA BeginKeeps ==
    ASSUME NEW Words, NEW Values, WellFormed(Words, Values), IInv, NEW t \in Turns, Begin(t)
    PROVE  IInv'
<1>1. PICK m \in Messages, f \in Forms :
         /\ turn' = [turn EXCEPT ![t] = [Waiting EXCEPT
                       !.at = IF Updates(f) = {} THEN "running" ELSE "form",
                       !.message = m, !.form = Updates(f)]]
         /\ said' = said \cup {<<q.field, Stated(q)>> : q \in Quotes(m)} \cup f
         /\ card' = card
  BY DEF Begin
<1>2. PICK p : p = IF Updates(f) = {} THEN "running" ELSE "form"
  OBVIOUS
<1>3. PICK r : r = [Waiting EXCEPT !.at = p, !.message = m, !.form = Updates(f)]
  OBVIOUS
<1>4. turn' = [turn EXCEPT ![t] = r]
  BY <1>1, <1>2, <1>3
<1>5. TurnInv(r, said')
  <2>1. AllSaid(Updates(f), said')
    <3>1. \A x \in f : x \in said' /\ x = <<x[1], x[2]>>
      BY <1>1 DEF WellFormed
    <3>. QED BY <3>1 DEF AllSaid, Updates
  <2>2. \A q \in Quotes(m) : <<q.field, Stated(q)>> \in said'
    BY <1>1
  <2>3. IsTurn(Waiting) /\ Waiting.copy = EmptyCard
    BY DEF Waiting, IsTurn
  <2>4. IsTurn(r) /\ r.message = m /\ r.form = Updates(f) /\ r.copy = EmptyCard
    BY <1>3, <2>3 DEF IsTurn
  <2>. QED BY <2>1, <2>2, <2>4, EmptyFounded, PhraseIsQuote DEF TurnInv
<1>6. said \subseteq said'
  BY <1>1
<1>7. turn'[t] = r /\ \A u \in Turns \ {t} : turn'[u] = turn[u]
  BY <1>4 DEF IInv
<1>8. \A u \in Turns : TurnInv(turn'[u], said')
  BY <1>5, <1>6, <1>7, SaidStays DEF IInv
<1>9. Founded(card', said') /\ turn' = [u \in Turns |-> turn'[u]]
  BY <1>1, <1>4, <1>6, SaidStays DEF IInv
<1>. QED BY <1>8, <1>9 DEF IInv

\* A turn goes on with the card it has read, or another.
LEMMA GoesOn ==
    ASSUME NEW S, NEW r, TurnInv(r, S), NEW p, NEW c, Founded(c, S), NEW g
    PROVE  /\ TurnInv([r EXCEPT !.at = p], S)
           /\ TurnInv([r EXCEPT !.at = p, !.copy = c], S)
           /\ TurnInv([r EXCEPT !.at = p, !.guesses = g], S)
<1>1. IsTurn(r)
  BY DEF TurnInv
<1>2. \A q : q = [r EXCEPT !.at = p] =>
             IsTurn(q) /\ q.message = r.message /\ q.form = r.form /\ q.copy = r.copy
  BY <1>1 DEF IsTurn
<1>3. \A q : q = [r EXCEPT !.at = p, !.copy = c] =>
             IsTurn(q) /\ q.message = r.message /\ q.form = r.form /\ q.copy = c
  BY <1>1 DEF IsTurn
<1>4. \A q : q = [r EXCEPT !.at = p, !.guesses = g] =>
             IsTurn(q) /\ q.message = r.message /\ q.form = r.form /\ q.copy = r.copy
  BY <1>1 DEF IsTurn
<1>5. ASSUME NEW q, IsTurn(q), q.message = r.message, q.form = r.form, q.copy \in {c, r.copy}
      PROVE  TurnInv(q, S)
  BY <1>5 DEF TurnInv
<1>. QED BY <1>2, <1>3, <1>4, <1>5

LEMMA StepKeeps ==
    ASSUME IInv, NEW t \in Turns, Step(t), ~Begin(t)
    PROVE  IInv'
<1>. USE DEF Goto, At
<1>1. TurnInv(turn[t], said) /\ turn = [u \in Turns |-> turn[u]]
  BY DEF IInv
<1>2. ASSUME NEW from, NEW to, Read(t, from, to) PROVE IInv'
  <2>1. PICK c \in {card, EmptyCard} : turn' = [turn EXCEPT ![t].at = to, ![t].copy = c]
    BY <1>2 DEF Read
  <2>2. Founded(c, said) /\ card' = card /\ said' = said
    BY <1>2, <2>1, EmptyFounded DEF IInv, Read
  <2>3. PICK r : r = [turn[t] EXCEPT !.at = to, !.copy = c]
    OBVIOUS
  <2>4. turn' = [turn EXCEPT ![t] = r]
    BY <2>1, <2>3
  <2>5. TurnInv(r, said)
    BY <1>1, <2>2, <2>3, GoesOn
  <2>6. Founded(card', said)
    BY <2>2 DEF IInv
  <2>. QED BY <2>2, <2>4, <2>5, <2>6, OneTurn
<1>3. ASSUME NEW p, turn' = [turn EXCEPT ![t].at = p], said' = said, Founded(card', said)
      PROVE  IInv'
  <2>1. TurnInv([turn[t] EXCEPT !.at = p], said)
    BY <1>1, <1>3, GoesOn
  <2>2. turn' = [turn EXCEPT ![t] = [turn[t] EXCEPT !.at = p]]
    BY <1>3
  <2>. QED BY <1>3, <2>1, <2>2, OneTurn
<1>4. CASE SaveForm(t)
  <2>1. turn' = [turn EXCEPT ![t].at = "running"] /\ said' = said
        /\ (card' = card \/ card' = Filled(turn[t].copy, turn[t].form))
    BY <1>4 DEF SaveForm, Filled
  <2>2. Founded(Filled(turn[t].copy, turn[t].form), said)
    BY <1>1, FilledFounded DEF TurnInv
  <2>. QED BY <1>3, <2>1, <2>2 DEF IInv
<1>5. CASE Run(t)
  <2>1. PICK g \in Guesses : turn' = [turn EXCEPT ![t].at = "remember", ![t].guesses = g]
    BY <1>5 DEF Run
  <2>2. PICK r : r = [turn[t] EXCEPT !.at = "remember", !.guesses = g]
    OBVIOUS
  <2>3. turn' = [turn EXCEPT ![t] = r]
    BY <2>1, <2>2
  <2>4. TurnInv(r, said)
    BY <1>1, <2>2, EmptyFounded, GoesOn
  <2>5. Founded(card', said) /\ said' = said
    BY <1>5 DEF Run, IInv
  <2>. QED BY <2>3, <2>4, <2>5, OneTurn
<1>6. CASE WindowFails(t)
  BY <1>3, <1>6 DEF WindowFails, IInv
<1>7. CASE SaveFacts(t)
  <2>1. PICK facts : facts = Candidates(turn[t].message, turn[t].guesses)
    OBVIOUS
  <2>2. turn' = [turn EXCEPT ![t].at = "done"] /\ said' = said
        /\ (card' = card \/ card' = Applied(turn[t].copy, facts))
    BY <1>7, <2>1 DEF SaveFacts
  <2>3. AllSaid(facts, said)
    BY <1>1, <2>1, CandidatesSaid DEF TurnInv
  <2>4. Founded(Applied(turn[t].copy, facts), said)
    BY <1>1, <2>3, AppliedFounded DEF TurnInv
  <2>. QED BY <1>3, <2>2, <2>4 DEF IInv
<1>. QED BY <1>2, <1>4, <1>5, <1>6, <1>7 DEF Step, ReadForForm, ReadForFacts

LEMMA NextFounded ==
    ASSUME NEW Words, NEW Values, WellFormed(Words, Values)
    PROVE  IInv /\ [Next]_profileVars => IInv'
<1>1. SUFFICES ASSUME IInv, [Next]_profileVars PROVE IInv'
  OBVIOUS
<1>2. ASSUME NEW t \in Turns, Step(t) PROVE IInv'
  BY <1>1, <1>2, BeginKeeps, StepKeeps
<1>3. CASE Clear
  BY <1>1, <1>3, EmptyFounded DEF Clear, IInv
<1>4. CASE UNCHANGED profileVars
  BY <1>1, <1>4 DEF profileVars, IInv
<1>. QED BY <1>1, <1>2, <1>3, <1>4 DEF Next

\* Nothing stands on the card that was not said, for any number of turns that
\* read and write it in any order and whatever the classifier believes.
THEOREM CardIsStated ==
    ASSUME NEW Words, NEW Values, WellFormed(Words, Values)
    PROVE  Spec => []OnlyStatedFacts
<1>1. IInv /\ [Next]_profileVars => IInv'
  BY NextFounded
<1>2. IInv => OnlyStatedFacts
  BY DEF IInv, Founded, OnlyStatedFacts
<1>. QED BY <1>1, <1>2, InitFounded, PTL DEF Spec
=============================================================================
