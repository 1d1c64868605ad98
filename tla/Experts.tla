------------------------------ MODULE Experts ------------------------------
(***************************************************************************)
(* The domain experts of one turn from the inside: what the tools of the   *)
(* ReAct loop leave in the sink, what is made of it (experts/base.py), and *)
(* the dialog that asks the user for missing fields and runs the asking    *)
(* experts again with the answers (needs_input.py).  RootGraph has the     *)
(* same turn from the outside.  A text is the set of the figures in it.    *)
(***************************************************************************)
EXTENDS Integers, FiniteSets, SequencesExt

CONSTANTS Domains,        \* the domains of the turn
          Registered,     \* EXPERT_FIELDS: the fields a domain may ask for
          ChoiceFields,   \* fields with a list of options
          Wishes,         \* the sets of fields that a model may ask for
          Readings,       \* the figures that a tool call may record
          Asides,         \* what a model may write beside a tool call
          Texts,          \* what it may write in the end; {} is nothing
          Submissions,    \* what the user may send: <<domain or Bare, field, value>>
          Bare,           \* the key of an answer is the field's name alone
          Junk,           \* a value that is none of the options
          NoDialog,       \* there is no form, or no outcome
          Abandoned,      \* the form was given up
          MaxSteps,       \* max_steps: model calls of one run
          ClarifyRounds   \* forms shown in one turn

VARIABLES expert,         \* per domain: the loop, its sink and its outcome
          dialog,         \* the form that is shown
          reply,          \* what the user has sent to the last form
          shownForms      \* clarify_rounds

expertVars == <<expert, dialog, reply, shownForms>>

Fresh(answers) ==
    [at |-> "loop", answers |-> answers, rounds |-> 0, text |-> {}, traced |-> FALSE,
     got |-> FALSE, figures |-> {}, limits |-> {}, failed |-> FALSE, pending |-> NoDialog,
     asked |-> {}, hurt |-> {}, outcome |-> NoDialog]

Unasked == [Fresh({}) EXCEPT !.at = "unasked"]

Init ==
    /\ \E chosen \in (SUBSET Domains) \ {{}} :
          expert = [d \in Domains |-> IF d \in chosen THEN Fresh({}) ELSE Unasked]
    /\ dialog = NoDialog
    /\ reply = {}
    /\ shownForms = 0

-----------------------------------------------------------------------------
(* The sink and the outcome. *)

Size(n) == IF n < 0 THEN -n ELSE n

\* _close, in thousandths: a rounding of the model is the same figure.
Close(a, b) == 1000 * Size(a - b) <= IF Size(b) > 5000 THEN Size(b) ELSE 5000

\* _ungrounded_numbers: signs do not matter, and without any figure nothing is judged.
Ungrounded(text, figures) ==
    IF figures = {} THEN {}
    ELSE {n \in text : \A k \in figures : ~ Close(n, k) /\ ~ Close(n, Size(k)) /\ ~ Close(Size(n), Size(k))}

\* need_input: unknown fields are dropped, and a later request replaces an earlier one.
Missing(d, wish) == wish \cap Registered[d]

Status(e) ==
    CASE e.pending # NoDialog -> "needs_input"
      [] e.pending = NoDialog /\ e.failed -> "failed"
      [] e.pending = NoDialog /\ ~ e.failed /\ (e.limits # {} \/ ~ e.got) -> "partial"
      [] OTHER -> "success"

\* _fallback_summary stands in for a text.
Summary(e) ==
    CASE e.pending # NoDialog -> "question"
      [] e.pending = NoDialog /\ e.text # {} -> "analysis"
      [] OTHER -> IF e.traced THEN "no analysis" ELSE "no data"

\* default_assemble: the figures without a source are told after the status is settled.
Assembled(e) ==
    [status |-> Status(e), summary |-> Summary(e), missing |-> e.pending, limits |-> e.limits,
     unfounded |-> IF e.pending = NoDialog THEN Ungrounded(e.text, e.figures) ELSE {}]

Ended(e) == [e EXCEPT !.at = "done", !.outcome = Assembled(e)]

-----------------------------------------------------------------------------
(* The loop of one domain. *)

Looping(d) == expert[d].at = "loop"
Becomes(d, e) == expert' = [expert EXCEPT ![d] = e]

\* What one tool call may do to the sink.
Recorded(e) == {[e EXCEPT !.got = TRUE, !.figures = @ \cup f] : f \in Readings}
Limited(e) == {[e EXCEPT !.limits = @ \cup {"gap"}, !.hurt = @ \cup {"gap"}]}
Failed(e) == {[e EXCEPT !.limits = @ \cup {"tool"}, !.failed = TRUE, !.hurt = @ \cup {"tool"}]}
Asking(d, e) ==
    {IF Missing(d, wish) = {} THEN e
     ELSE [e EXCEPT !.pending = Missing(d, wish), !.asked = @ \cup Missing(d, wish)] : wish \in Wishes}

\* A model call that asks for a tool, perhaps with some words beside it.
CallTool(d) ==
    /\ Looping(d) /\ expert[d].rounds < MaxSteps
    /\ \E words \in Asides :
          LET e == [expert[d] EXCEPT !.rounds = @ + 1, !.traced = TRUE,
                                     !.text = IF words = {} THEN @ ELSE words]
          IN  \E after \in Recorded(e) \cup Limited(e) \cup Failed(e) \cup Asking(d, e) : Becomes(d, after)
    /\ UNCHANGED <<dialog, reply, shownForms>>

\* The last model call: without words, the latest words of the loop remain the text.
Write(d) ==
    /\ Looping(d) /\ expert[d].rounds < MaxSteps
    /\ \E words \in Texts :
          Becomes(d, Ended([expert[d] EXCEPT !.text = IF words = {} THEN @ ELSE words]))
    /\ UNCHANGED <<dialog, reply, shownForms>>

\* ModelCallLimitMiddleware: the calls are used up, each of them asked for a tool.
CutOff(d) ==
    /\ Looping(d) /\ expert[d].rounds = MaxSteps
    /\ Becomes(d, Ended([expert[d] EXCEPT !.limits = @ \cup {"limit"}, !.hurt = @ \cup {"limit"}]))
    /\ UNCHANGED <<dialog, reply, shownForms>>

\* CooperativeStopMiddleware: the host's mark, or the deadline, before a model call.
Stop(d) ==
    /\ Looping(d) /\ expert[d].rounds < MaxSteps
    /\ Becomes(d, Ended([expert[d] EXCEPT !.limits = @ \cup {"stop"}, !.hurt = @ \cup {"stop"}]))
    /\ UNCHANGED <<dialog, reply, shownForms>>

\* The model or the loop raises: what the sink holds, a request included, is dropped.
Raise(d) ==
    /\ Looping(d)
    /\ Becomes(d, [expert[d] EXCEPT !.at = "done", !.pending = NoDialog, !.hurt = @ \cup {"raised"},
                      !.outcome = [status |-> "failed", summary |-> "unavailable", missing |-> NoDialog,
                                   limits |-> {"raised"}, unfounded |-> {}]])
    /\ UNCHANGED <<dialog, reply, shownForms>>

-----------------------------------------------------------------------------
(* The form and its answers. *)

Settled == \A d \in Domains : expert[d].at \in {"unasked", "done"}
AskingDomains ==
    {d \in Domains : expert[d].at = "done" /\ expert[d].outcome.status = "needs_input"}

\* Mutant: the form shows just the fields that are missing.
FormOfMissing(ds) ==
    [missing |-> UNION {{<<d, f>> : f \in expert[d].outcome.missing} : d \in ds},
     fields |-> UNION {expert[d].outcome.missing : d \in ds}]

\* build_form over the requests of all domains: every field a domain may ask for,
\* each once, is on it.
FormOf(ds) ==
    [missing |-> UNION {{<<d, f>> : f \in expert[d].outcome.missing} : d \in ds},
     fields |-> UNION {Registered[d] : d \in ds}]

Shown == dialog \notin {NoDialog, Abandoned}

\* converge: the question is put while there are rounds left.
Ask ==
    /\ Settled /\ dialog = NoDialog
    /\ AskingDomains # {} /\ shownForms < ClarifyRounds
    /\ dialog' = FormOf(AskingDomains)
    /\ shownForms' = shownForms + 1
    /\ UNCHANGED <<expert, reply>>

\* clean_choice: one of the options, or nothing; any text will do elsewhere.
Clean(f, value) == f \notin ChoiceFields \/ value # Junk

\* apply_answers, one domain: the bare name goes before the name with the domain.
Given(sent, d, f) ==
    LET under(key) == {x[3] : x \in {y \in sent : y[1] = key /\ y[2] = f}}
        raw == IF under(Bare) # {} THEN under(Bare) ELSE under(d)
    IN  {v \in raw : Clean(f, v)}

\* apply_answers: of two domains with the same field the first one settles it.
Filled(sent, order) ==
    LET Settles(i, f) == /\ f \in Registered[order[i]] /\ Given(sent, order[i], f) # {}
                         /\ \A j \in 1..(i - 1) : f \notin Registered[order[j]] \/ Given(sent, order[j], f) = {}
    IN  UNION {{<<x[2], v>> : v \in Given(sent, order[x[1]], x[2])} :
                  x \in {y \in (1..Len(order)) \X UNION {Registered[d] : d \in Domains} : Settles(y[1], y[2])}}

\* _answers_for_domain
For(d, filled) == {x \in filled : x[1] \in Registered[d]}

\* The user gives up, or sends nothing of use: the form is not put again.
GiveUp ==
    /\ Shown
    /\ \E sent \in Submissions \cup {{}} : Filled(sent, SetToSeq(AskingDomains)) = {} /\ reply' = sent
    /\ dialog' = Abandoned
    /\ UNCHANGED <<expert, shownForms>>

\* ask and the router behind it: the asking experts, and no other, run again.
Resume ==
    /\ Shown
    /\ \E sent \in Submissions, order \in SetToSeqs(AskingDomains) :
          LET seen == {x \in sent : x[2] \in dialog.fields}
          IN  /\ Filled(seen, order) # {}
              /\ expert' = [d \in Domains |-> IF d \in AskingDomains
                                              THEN Fresh(For(d, Filled(seen, order))) ELSE expert[d]]
              /\ reply' = seen
    /\ dialog' = NoDialog
    /\ UNCHANGED shownForms

Next ==
    \/ \E d \in Domains : CallTool(d) \/ Write(d) \/ CutOff(d) \/ Stop(d) \/ Raise(d)
    \/ Ask \/ GiveUp \/ Resume

-----------------------------------------------------------------------------

\* What an expert asked for comes back: every field that it asked for in its run,
\* in whichever of its requests, is on the form, and what the user answers there
\* under the field's name reaches it, whatever the other domains ask for
\* (needs_input.py:12-16, supervisor.py:330).
AskedFieldsComeBack ==
    /\ Shown => \A d \in AskingDomains : expert[d].asked \subseteq dialog.fields
    /\ \A d \in Domains : expert[d].at = "loop" /\ shownForms > 0 =>
          \A x \in reply : x[1] = Bare /\ x[2] \in Registered[d] /\ Clean(x[2], x[3])
                              => <<x[2], x[3]>> \in expert[d].answers

\* A run that was cut, raised or lost a source says so and is no success, and a
\* figure that no tool has returned is named beside the text (base.py:16-24).
CutIsTold ==
    \A d \in Domains : expert[d].at = "done" =>
       LET o == expert[d].outcome
       IN  /\ o.status = "success" => expert[d].hurt = {} /\ expert[d].got
           /\ "raised" \notin expert[d].hurt => expert[d].hurt \subseteq o.limits
           /\ o.summary = "analysis" /\ expert[d].figures # {} =>
                 \A n \in expert[d].text : n \in o.unfounded \/ \E k \in expert[d].figures :
                                                                Close(Size(n), Size(k))

\* The two promises of an expert.
ExpertsKeepTheirWord == AskedFieldsComeBack /\ CutIsTold
=============================================================================
