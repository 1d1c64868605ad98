----------------------------- MODULE Compliance -----------------------------
(***************************************************************************)
(* The compliance exit of orchestration/graphs/compliance.py: a draft is   *)
(* cut into segments, segments that a reviewed source supports are left    *)
(* alone, the rest is checked, rewritten once and checked again.           *)
(*                                                                         *)
(* A text is a sequence of tokens: a sensitive word, a variant of one that *)
(* only normalisation finds, its two halves, a phrase only the model       *)
(* objects to, digits, sentence ends, newlines and anything else.          *)
(***************************************************************************)
EXTENDS Integers, Sequences, FiniteSets, SequencesExt

CONSTANTS Drafts,          \* sequences of segments, each a sequence of tokens
          Budgets,         \* compliance_rewrites
          MaxAttempts      \* RetryPolicy(max_attempts) of the node

VARIABLES
    draft,      \* the segments
    sourced,    \* whether the turn carries trusted sources
    auditOnly,  \* run.trusted_content
    budget,
    semantic,   \* whether the caller passes a semantic check
    trusted,    \* indices of the segments a source supports
    at, attempts, reasons, rewritten, result

inputs == <<draft, sourced, auditOnly, budget, semantic>>
vars == <<inputs, trusted, at, attempts, reasons, rewritten, result>>

-----------------------------------------------------------------------------
(* Texts. *)

Digits == {"1", "2"}

\* Where two halves stand side by side.
Halves(text) ==
    LET lefts == {i \in 1 .. Len(text) - 1 : text[i] = "left" /\ text[i + 1] = "right"}
    IN lefts \cup {i + 1 : i \in lefts}

\* What the word list finds, after normalisation.
SensitiveWords(text) ==
    (Range(text) \cap {"word", "variant"})
    \cup {w \in {"halves"} : Halves(text) # {}}

\* The model's check, asked for violation codes only.
SemanticCheck(text) == Range(text) \cap {"pitch"}

StripSpace(text) ==
    LET solid == {i \in DOMAIN text : text[i] # "newline"} IN
    IF solid = {} THEN <<>> ELSE SubSeq(text, Min(solid), Max(solid))

Without(text, indices) ==
    FoldLeftDomain(LAMBDA acc, i : IF i \in indices THEN acc ELSE Append(acc, text[i]), <<>>, text)

\* The words found are deleted as they are spelled in the list: a variant stays.
StripViolations(text) ==
    LET noWord == Without(text, {i \in DOMAIN text : text[i] = "word"})
    IN StripSpace(IF "halves" \in SensitiveWords(text) THEN Without(noWord, Halves(noWord)) ELSE noWord)

WithDisclaimer(text) ==
    IF text = <<>> \/ "disclaimer" \in Range(text) THEN text
    ELSE text \o <<"newline", "disclaimer">>

DefaultRewrite(text) == WithDisclaimer(StripViolations(text))

\* The numbers of a text: its longest runs of digits.
Numbers(text) ==
    LET Longest(p) ==
            /\ p[1] <= p[2] /\ \A k \in p[1] .. p[2] : text[k] \in Digits
            /\ p[1] > 1 => text[p[1] - 1] \notin Digits
            /\ p[2] < Len(text) => text[p[2] + 1] \notin Digits
    IN  {SubSeq(text, p[1], p[2]) : p \in {q \in (1 .. Len(text)) \X (1 .. Len(text)) : Longest(q)}}

PreservesFactsAnyway(before, after) == TRUE                             \* mutant
PreservesFacts(before, after) == Numbers(before) \subseteq Numbers(after)

Untrusted(segments) ==
    FlattenSeq(Without(segments, trusted))

-----------------------------------------------------------------------------
(* The pipeline. *)

NoResult == [action |-> "none", response |-> <<>>, count |-> 0]

Init ==
    /\ draft \in Drafts
    /\ sourced \in BOOLEAN /\ auditOnly \in BOOLEAN
    /\ budget \in Budgets /\ semantic \in BOOLEAN
    /\ trusted = {} /\ at = "mark" /\ attempts = 1
    /\ reasons = {} /\ rewritten = <<>>
    /\ result = NoResult

\* A segment is trusted if it is long enough and close enough to a source; without
\* embeddings or sources none is.
MarkTrusted ==
    /\ at = "mark"
    /\ trusted' \in IF sourced THEN SUBSET DOMAIN draft ELSE {{}}
    /\ at' = "check"
    /\ UNCHANGED <<inputs, attempts, reasons, rewritten, result>>

Reasons(text) == SensitiveWords(text) \cup IF semantic THEN SemanticCheck(text) ELSE {}

Conclude(action, response, count) ==
    /\ at' = "done"
    /\ result' = [action |-> action, response |-> response, count |-> count]

BlockedResponse == <<"blocked">>

\* The whole draft is trusted content without a source to compare with.
AuditOnly ==
    /\ at = "check" /\ auditOnly /\ ~sourced
    /\ reasons' = Reasons(FlattenSeq(draft))
    /\ Conclude(IF reasons' = {} THEN "passed" ELSE "audited", FlattenSeq(draft), 0)
    /\ UNCHANGED <<inputs, trusted, attempts, rewritten>>

\* The first check, over what no source supports.
Check ==
    /\ at = "check" /\ ~(auditOnly /\ ~sourced)
    /\ reasons' = Reasons(Untrusted(draft))
    /\ CASE reasons' = {} ->
              Conclude(IF trusted = {} THEN "passed" ELSE "audited", FlattenSeq(draft), 0)
         [] reasons' # {} /\ budget < 1 -> Conclude("blocked", BlockedResponse, 0)
         [] OTHER -> at' = "rewrite" /\ UNCHANGED result
    /\ UNCHANGED <<inputs, trusted, attempts, rewritten>>

\* No segment is trusted: the draft is rewritten as a whole.
RewriteWhole ==
    /\ at = "rewrite" /\ trusted = {}
    /\ rewritten' = <<DefaultRewrite(FlattenSeq(draft))>>
    /\ IF PreservesFacts(FlattenSeq(draft), rewritten'[1])
       THEN at' = "recheck" /\ UNCHANGED result
       ELSE Conclude("blocked", BlockedResponse, 1)
    /\ UNCHANGED <<inputs, trusted, attempts, reasons>>

RedactAll(segments) == [i \in DOMAIN segments |-> StripViolations(segments[i])] \* mutant

\* Segments no source supports are redacted one by one, the others stay as they are.
Redact(segments) ==
    [i \in DOMAIN segments |-> IF i \in trusted THEN segments[i] ELSE StripViolations(segments[i])]

RewriteSegments ==
    /\ at = "rewrite" /\ trusted # {}
    /\ rewritten' = Redact(draft)
    /\ IF PreservesFacts(Untrusted(draft), Untrusted(rewritten'))
       THEN at' = "recheck" /\ UNCHANGED result
       ELSE Conclude("blocked", BlockedResponse, 1)
    /\ UNCHANGED <<inputs, trusted, attempts, reasons>>

RecheckNothing == {}                                                    \* mutant

\* The recheck of a whole draft leaves out the caller's semantic check.
Recheck == IF trusted = {} THEN SensitiveWords(FlattenSeq(rewritten))
           ELSE Reasons(Untrusted(rewritten))

Rebuilt == IF trusted = {} THEN rewritten[1]
           ELSE IF "disclaimer" \in Range(FlattenSeq(rewritten)) THEN FlattenSeq(rewritten)
           ELSE WithDisclaimer(StripSpace(FlattenSeq(rewritten)))

Deliver ==
    /\ at = "recheck"
    /\ reasons' = Recheck
    /\ IF reasons' = {} THEN Conclude("rewritten", Rebuilt, 1)
       ELSE Conclude("blocked", BlockedResponse, 1)
    /\ UNCHANGED <<inputs, trusted, attempts, rewritten>>

\* The text a check is asked about; an empty one needs no model.
Judged == CASE at = "recheck" -> Untrusted(rewritten)
            [] auditOnly /\ ~sourced -> FlattenSeq(draft)
            [] OTHER -> Untrusted(draft)

\* The model of the semantic check fails: the node is run once more, then the error
\* handler blocks the draft.
Unavailable ==
    /\ semantic /\ at \in {"check", "recheck"} /\ StripSpace(Judged) # <<>>
    /\ at = "recheck" => trusted # {}
    /\ IF attempts < MaxAttempts
       THEN at' = "mark" /\ attempts' = attempts + 1 /\ UNCHANGED result
       ELSE Conclude("blocked", BlockedResponse, 0) /\ UNCHANGED attempts
    /\ trusted' = {} /\ reasons' = {} /\ rewritten' = <<>>
    /\ UNCHANGED inputs

Next == \/ MarkTrusted \/ AuditOnly \/ Check
        \/ RewriteWhole \/ RewriteSegments \/ Deliver
        \/ Unavailable

Spec == Init /\ [][Next]_vars

-----------------------------------------------------------------------------
(* What the exit promises. *)

Screened == at = "done" /\ result.action \in {"passed", "rewritten", "audited"}
                        /\ ~(auditOnly /\ ~sourced)

\* Parts of the delivered text that no source supports.
DeliveredUntrusted ==
    IF result.action = "rewritten" THEN Untrusted(rewritten) ELSE Untrusted(draft)

\* No sensitive word reaches the user outside the sentences a reviewed source
\* supports, whatever the rewrite removed or brought together (compliance.py:298-302).
UntrustedIsClean ==
    Screened => /\ SensitiveWords(DeliveredUntrusted) = {}
                /\ trusted # {} => Reasons(DeliveredUntrusted) = {}

\* A rewrite drops no number of what it rewrote, and no supported sentence: each is in
\* the answer word for word (compliance.py:10, 297-299).
RewriteKeepsFacts ==
    Screened /\ result.action = "rewritten" =>
        /\ Numbers(Untrusted(draft)) \subseteq Numbers(DeliveredUntrusted)
        /\ \A i \in trusted : StripSpace(draft[i]) \in SubSeqs(result.response)

=============================================================================
