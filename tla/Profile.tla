------------------------------ MODULE Profile ------------------------------
(***************************************************************************)
(* The profile card of one customer: memory.py over business_store.py, as  *)
(* the turns of several conversations use it.  A turn may bring answers to *)
(* a form, and at its end writes what the user said of himself; each time  *)
(* it reads the whole card and writes the whole card back, and no lock     *)
(* covers the two.  A message is the set of its phrases: what a phrase is  *)
(* about, what it says, and whether it says so in the explicit form.       *)
(***************************************************************************)
EXTENDS Integers, Sequences, FiniteSets, SequencesExt

CONSTANTS Turns,         \* turns of the customer, in conversations of their own
          Messages,      \* what may be said in a turn
          Guesses,       \* the sets of profile facts the classifier may come up with
          Forms,         \* answers to a form of needs_input.py, empty when there are none
          Options,       \* the options of the two fields that forms have for the card
          Unset          \* an empty field of the card

VARIABLES card,          \* finance.user_profiles
          turn,          \* what each turn does, and the card it has read
          said           \* <<field, value>> pairs that the user's words, or a form, hold

profileVars == <<card, turn, said>>

Fields == {"risk_preference", "budget_amount", "holding_period", "investment_goal"}

EmptyCard == [fields |-> [f \in Fields |-> Unset], confirmed |-> [f \in Fields |-> Unset],
              stock_codes |-> {}]

Waiting == [at |-> "waiting", message |-> {}, form |-> {}, guesses |-> {}, copy |-> EmptyCard]

Init ==
    /\ card = EmptyCard
    /\ turn = [t \in Turns |-> Waiting]
    /\ said = {}

-----------------------------------------------------------------------------
(* What the user says. *)

\* RISK_KEYWORD_MAP: the narrow levels come first, for their words contain the wide ones.
RiskKeywords == <<<<"R4", "mid-high">>, <<"R2", "mid-low">>, <<"R5", "high">>, <<"R1", "low">>>>

FirstLevel(words) == SelectInSeq(RiskKeywords, LAMBDA l : l[2] \in words)

\* match_risk_preference, amount_from_text, horizon_from_text: what a phrase states.
Stated(p) ==
    CASE p.field # "risk_preference" -> p.means
      [] FirstLevel(p.words) = 0 -> Unset
      [] OTHER -> RiskKeywords[FirstLevel(p.words)][1]

\* A quote is any stretch of a message: it may cut a word down to a wider one.
Quotes(message) == UNION {{[p EXCEPT !.words = w] : w \in SUBSET p.words} : p \in message}

\* extract_profile_candidates: a risk level counts as confirmed in an explicit phrase
\* only, a goal is noticed in one only; the other patterns always count.
Confirmed(message) ==
    {p \in message : p.field \in {"risk_preference", "investment_goal"} => p.explicit}

\* Mutant: what the classifier quotes may come from anywhere.
BelievedModel(g, message) == g.field \in Fields /\ Stated(g.quote) = g.value

\* _validate_model_fact: a field of the white list, a quote out of this very
\* message, and the value that the rules read in the quote.
Believed(g, message) ==
    /\ g.field \in Fields
    /\ g.quote \in Quotes(message)
    /\ g.quote.field = g.field /\ Stated(g.quote) = g.value /\ g.value # Unset

\* update_profile_from_result: what the classifier adds comes last, and so prevails.
Candidates(message, guesses) ==
    LET rules == {<<p.field, Stated(p)>> : p \in {q \in Confirmed(message) : Stated(q) # Unset}}
        model == {<<g.field, g.value>> : g \in {h \in guesses : Believed(h, message)}}
    IN  model \cup {x \in rules : \A y \in model : y[1] # x[1]}

\* apply_confirmed_facts: a fact that the card does not have already is put down twice.
Applied(c, facts) ==
    LET told(f) == {x[2] : x \in {y \in facts : y[1] = f}}
        now == [f \in Fields |-> IF told(f) = {} THEN c.fields[f] ELSE CHOOSE v \in told(f) : TRUE]
    IN  [fields |-> now,
         confirmed |-> [f \in Fields |-> IF now[f] = c.fields[f] THEN c.confirmed[f] ELSE now[f]],
         stock_codes |-> c.stock_codes \cup told("stock_code")]

\* profile_updates: only the fields of the card, and only options of their lists.
Updates(form) == {x \in form : x[1] \in DOMAIN Options /\ x[2] \in Options[x[1]]}

-----------------------------------------------------------------------------
(* A turn. *)

At(t, place) == turn[t].at = place
Goto(t, place) == turn' = [turn EXCEPT ![t].at = place]

Begin(t) ==
    /\ At(t, "waiting")
    /\ \E m \in Messages, f \in Forms :
          /\ turn' = [turn EXCEPT ![t] = [Waiting EXCEPT
                         !.at = IF Updates(f) = {} THEN "running" ELSE "form",
                         !.message = m, !.form = Updates(f)]]
          /\ said' = said \cup {<<q.field, Stated(q)>> : q \in Quotes(m)} \cup f
    /\ UNCHANGED card

\* get_profile: the stored card, or an empty one when the read fails.
Read(t, from, to) ==
    /\ At(t, from)
    /\ \E c \in {card, EmptyCard} : turn' = [turn EXCEPT ![t].at = to, ![t].copy = c]
    /\ UNCHANGED <<card, said>>

ReadForForm(t) == Read(t, "form", "save form")

\* persist_param_profile: the answers go into the fields, not into confirmed_facts.
SaveForm(t) ==
    /\ At(t, "save form")
    /\ \/ card' = [turn[t].copy EXCEPT !.fields = [f \in Fields |->
                      IF \E x \in turn[t].form : x[1] = f
                      THEN (CHOOSE x \in turn[t].form : x[1] = f)[2] ELSE @[f]]]
       \/ UNCHANGED card                                   \* the write fails
    /\ Goto(t, "running")
    /\ UNCHANGED said

\* The graph ends, with what the classifier thinks the user said; a failed
\* graph brings none.
Run(t) ==
    /\ At(t, "running")
    /\ \E g \in Guesses :
          turn' = [turn EXCEPT ![t].at = "remember", ![t].guesses = g]
    /\ UNCHANGED <<card, said>>

\* Only when both messages of the turn are in the window the profile is updated.
WindowFails(t) ==
    /\ At(t, "remember")
    /\ Goto(t, "done")
    /\ UNCHANGED <<card, said>>

ReadForFacts(t) == Read(t, "remember", "save facts")

SaveFacts(t) ==
    /\ At(t, "save facts")
    /\ LET c == Applied(turn[t].copy, Candidates(turn[t].message, turn[t].guesses))
       IN  \/ card' = IF c = turn[t].copy THEN card ELSE c
           \/ UNCHANGED card                               \* the write fails
    /\ Goto(t, "done")
    /\ UNCHANGED said

\* clear_profile: the account is deleted or its records are.
Clear ==
    /\ card # EmptyCard
    /\ card' = EmptyCard
    /\ UNCHANGED <<turn, said>>

Step(t) ==
    \/ Begin(t) \/ ReadForForm(t) \/ SaveForm(t) \/ Run(t)
    \/ WindowFails(t) \/ ReadForFacts(t) \/ SaveFacts(t)

Next == Clear \/ \E t \in Turns : Step(t)

Spec == Init /\ [][Next]_profileVars

-----------------------------------------------------------------------------

\* Nothing stands on the card that the user has not said himself, in a stretch of
\* some message or in a form, whatever the classifier believes and in whatever order
\* turns read and write the card (memory.py:277, 339-350).
OnlyStatedFacts ==
    /\ \A f \in Fields : card.fields[f] # Unset => <<f, card.fields[f]>> \in said
    /\ \A c \in card.stock_codes : <<"stock_code", c>> \in said
=============================================================================
