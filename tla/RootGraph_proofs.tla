-------------------------- MODULE RootGraph_proofs --------------------------
(***************************************************************************)
(* Theorems about the root graph, for every number of domains and every    *)
(* budget.  IInv is the inductive invariant; there is one lemma for each   *)
(* of its parts, with one step per action.                                 *)
(***************************************************************************)
EXTENDS RootGraph, FiniteSetTheorems, WellFoundedInduction, TLAPS

\* Nodes of a turn that has not sent anything yet, and all up to converge.
Before == {"conversation", "clarify", "supervisor", "decide", "scope"}
Open == Before \cup {"workers", "converge"}
Asking == {"asking", "suspended"}
Closing == {"synthesize", "compliance", "end"}

\* A run-level limitation names a halt that is still there to be seen.
HaltKnown(h) == /\ h = "run_cancelled" => stopped
                /\ h = "turn_deadline" => late

\* Every question shown was counted by converge, and a turn with a question
\* has not been halted.
AskInv ==
    /\ asks <= run.clarify_rounds
    /\ pc = "asking" => asks < run.clarify_rounds
    /\ pc = "classify" => asks = 0
    /\ pc \in Asking => /\ run.param_missing # {} /\ ~run.halted
                        /\ run.degradations \cap Halts = {}
                        /\ \A d \in Domains : results[d].halt = "none"

\* Until converge nothing of a halt is noted that converge will not see.
HaltInv ==
    /\ pc \in Open => /\ ~run.halted /\ run.degradations \cap Halts = {}
                      /\ \A d \in Domains : HaltKnown(results[d].halt)
    /\ pc = "workers" => \A d \in Domains : HaltKnown(writes[d].halt)

\* Outcomes belong to the turn and to the domains sent, and a domain under
\* way has not concluded.
FreshInv ==
    /\ pc \in Before => /\ results = Nothing /\ run.expert_tasks = {}
                        /\ run.degradations = {}
    /\ pc \in {"conversation", "clarify"} => run.domains = {}
    /\ pc \in {"supervisor", "decide", "scope"} => run.domains # {}
    /\ pc \in {"workers", "converge", "synthesize"} \cup Asking =>
          \A d \in Present(results) : results[d].turn = turn /\ d \in run.expert_tasks
    /\ pc = "workers" =>
          /\ sent \subseteq run.expert_tasks
          /\ \A d \in Domains : writes[d] # NoOutcome => writes[d].turn = turn
          /\ \A d \in sent : results[d].status \in {"none", "needs_input"}

\* Every domain sent has an outcome or is under way.
CoverInv ==
    /\ pc = "workers" => /\ run.expert_tasks # {}
                         /\ \A d \in run.expert_tasks : d \in sent \/ results[d] # NoOutcome
    /\ pc \in Asking => /\ run.expert_tasks # {}
                        /\ \A d \in run.expert_tasks : results[d] # NoOutcome
    /\ pc = "converge" =>
          \/ Halt # "none"
          \/ /\ run.expert_tasks # {}
             /\ \A d \in run.expert_tasks : results[d] # NoOutcome
          \/ /\ run.expert_tasks = {} /\ run.domains = {} /\ run.run_status # "none"
             /\ run.run_status = "completed" => run.degradations = {}

\* What a status may claim, from the moment converge has set it.
Claim == run.run_status \in {"none", "completed"} /\ ~run.param_cancelled =>
            /\ run.degradations = {}
            /\ run.domains # {} => run.expert_tasks # {}
            /\ \A d \in run.expert_tasks : results[d].status = "success"

StopClaim == "run_cancelled" \in run.degradations
                => run.run_status = "cancelled" \/ run.final_response = "withheld"

TruthInv ==
    /\ pc \in Closing => Claim /\ StopClaim
    /\ pc \in {"synthesize", "compliance"} /\ "run_cancelled" \in run.degradations
          => run.run_status = "cancelled"

IInv == /\ TypeOK /\ AskInv /\ HaltInv /\ FreshInv /\ CoverInv /\ TruthInv
        /\ EveryReplyIsScreened

\* The halt of the turn's own thread is one of the known reasons, or none.
LEMMA HaltType == Halt \in Halts \cup {"none"}
BY DEF Halt, Halts

\* The first n of a set of domains are domains of the set.
LEMMA FirstOfSubset ==
  ASSUME NEW domains, NEW n
  PROVE  FirstOf(domains, n) \subseteq domains
BY DEF FirstOf

\* A Send is well typed and clears what was written before.
LEMMA SendToType ==
  ASSUME NEW domains \in SUBSET Domains, SendTo(domains)
  PROVE  /\ sent' = domains /\ sent' \subseteq Domains
         /\ writes' = Nothing /\ writes' \in [Domains -> Outcome \cup {NoOutcome}]
         /\ rounds' \in [Domains -> 0..Steps]
<1>1. 0 \in 0..Steps
  BY RootGraphAssumption
<1>. QED BY <1>1 DEF SendTo, Nothing

\* An outcome written by an expert is well formed.
LEMMA WriteType ==
  ASSUME TypeOK, NEW d \in Domains, NEW status \in Statuses,
         NEW halt \in Halts \cup {"none"}, Write(d, status, halt)
  PROVE  writes' \in [Domains -> Outcome \cup {NoOutcome}]
<1>1. [status |-> status, halt |-> halt, turn |-> turn] \in Outcome
  BY DEF TypeOK, Outcome
<1>. QED BY <1>1 DEF TypeOK, Write

\* What classification can decide.
LEMMA RouteFacts ==
  ASSUME NEW r \in Routes
  PROVE  /\ r.domains \subseteq Domains /\ r.error \in BOOLEAN
         /\ r.node \in {"conversation", "clarify", "supervisor", "scope"}
         /\ r.node \in {"conversation", "clarify"} => r.domains = {}
         /\ r.node \in {"supervisor", "scope"} => r.domains # {}
BY DEF Routes

\* The run classify writes is well formed.
LEMMA FreshType ==
  ASSUME NEW domains \in SUBSET Domains, NEW error \in BOOLEAN
  PROVE  Fresh(domains, error) \in Runs
<1>1. 0 \in 0..ClarifyLimit
  BY RootGraphAssumption
<1>. QED BY <1>1 DEF Fresh, Runs, Replies

\* collect_outcome_notes and the halt yield known degradations.
LEMMA NotedType ==
  ASSUME TypeOK, NEW halt \in Halts \cup {"none"}
  PROVE  Noted(halt) \subseteq Degradations
<1>1. \A d \in Domains : results[d].halt \in Halts \cup {"none"}
  BY DEF TypeOK, Outcome, NoOutcome
<1>2. run.degradations \subseteq Degradations
  BY DEF TypeOK, Runs
<1>. QED BY <1>1, <1>2 DEF Noted, Degradations

\* The run with the outcomes folded in is well formed.
LEMMA ConvergedType ==
  ASSUME TypeOK, NEW halt \in Halts \cup {"none"}
  PROVE  Converged(halt) \in Runs
<1>1. Noted(halt) \subseteq Degradations
  BY NotedType
<1>2. ASSUME NEW s PROVE Reduce(s, Noted(halt)) \in {"completed", "partial", "failed", "cancelled"}
  BY DEF Reduce
<1>3. run \in Runs /\ "draft" \in Replies /\ "notice" \in Replies
  BY DEF TypeOK, Replies
<1>. QED BY <1>1, <1>2, <1>3 DEF Converged, Runs

\* supervisor_node either notices a halt or sends a non-empty set of domains.
LEMMA DecideCases ==
  ASSUME TypeOK, Decide
  PROVE  \/ /\ Halt # "none" /\ pc' = "converge" /\ UNCHANGED <<run, sent, writes, rounds>>
         \/ \E chosen \in SUBSET Domains :
               /\ Halt = "none" /\ pc' = "workers" /\ chosen # {}
               /\ run' = [run EXCEPT !.expert_tasks = chosen] /\ SendTo(chosen)
<1>1. CASE Halt # "none"
  BY <1>1 DEF Decide, work
<1>2. CASE Halt = "none"
  <2>1. PICK chosen \in (SUBSET FirstOf(run.domains, MaxDomains)) \ {{}} :
           run' = [run EXCEPT !.expert_tasks = chosen] /\ SendTo(chosen)
    BY <1>2 DEF Decide
  <2>2. run.domains \subseteq Domains
    BY DEF TypeOK, Runs
  <2>3. chosen \in SUBSET Domains /\ chosen # {}
    BY <2>1, <2>2, FirstOfSubset
  <2>. QED BY <1>2, <2>1, <2>3 DEF Decide
<1>. QED BY <1>1, <1>2

\* A set of domains has a least one.
LEMMA LeastDomain ==
  ASSUME NEW S \in SUBSET Domains, S # {}
  PROVE  \E x \in S : \A y \in S : ~(y < x)
<1>. DEFINE R == OpToRel(<, Nat)
<1>1. IsWellFoundedOn(R, Nat)
  BY NatLessThanWellFounded
<1>2. S \subseteq Nat
  BY RootGraphAssumption DEF Domains
<1>3. \E x \in S : \A y \in S : ~(<<y, x>> \in R)
  <2>. HIDE DEF R
  <2>. QED BY <1>1, <1>2, WFMin
<1>. QED BY <1>2, <1>3 DEF OpToRel

\* At least one domain is within the limit.
LEMMA FirstOfSome ==
  ASSUME NEW S \in SUBSET Domains, S # {}
  PROVE  FirstOf(S, MaxDomains) # {}
<1>1. PICK x \in S : \A y \in S : ~(y < x)
  BY LeastDomain
<1>2. {e \in S : e < x} = {}
  BY <1>1
<1>3. Cardinality({e \in S : e < x}) < MaxDomains
  BY <1>2, FS_EmptySet, RootGraphAssumption
<1>. QED BY <1>3 DEF FirstOf

\* Every action keeps the types.  Where an action changes much, each group of
\* variables has a step of its own.
LEMMA TypeKept ==
  ASSUME TypeOK, AskInv, Next
  PROVE  TypeOK'
<1>1. CASE Begin
  <2>1. pc' \in Active \cup {"idle", "suspended", "end"} /\ mode' \in {"llm", "legacy"}
    BY <1>1 DEF Begin, Start, TypeOK, Active
  <2>2. run' \in Runs
    BY <1>1 DEF Begin, Start, TypeOK
  <2>3. results' \in [Domains -> Outcome \cup {NoOutcome}]
    BY <1>1 DEF Begin, Start, TypeOK
  <2>4. /\ sent' \subseteq Domains /\ rounds' \in [Domains -> 0..Steps]
        /\ writes' \in [Domains -> Outcome \cup {NoOutcome}]
    BY <1>1 DEF Begin, Start, TypeOK, work
  <2>5. stopped' \in BOOLEAN /\ late' \in BOOLEAN /\ queued' \in BOOLEAN
    BY <1>1 DEF Begin, Start, TypeOK
  <2>6. turn' \in 0..MaxTurns /\ asks' \in 0..ClarifyLimit
    BY <1>1, RootGraphAssumption DEF Begin, Start, TypeOK
  <2>. QED BY <2>1, <2>2, <2>3, <2>4, <2>5, <2>6 DEF TypeOK
<1>2. CASE Answer
  <2>1. pc' \in Active \cup {"idle", "suspended", "end"} /\ mode' \in {"llm", "legacy"}
    BY <1>2 DEF Answer, Rerun, SendTo, TypeOK, host, Active
  <2>2. run' \in Runs
    BY <1>2 DEF Answer, Rerun, SendTo, TypeOK, Runs
  <2>3. results' \in [Domains -> Outcome \cup {NoOutcome}]
    BY <1>2 DEF Answer, Rerun, SendTo, TypeOK
  <2>4. /\ sent' \subseteq Domains /\ rounds' \in [Domains -> 0..Steps]
        /\ writes' \in [Domains -> Outcome \cup {NoOutcome}]
    <3>1. Rerun(Pending(results)) \in SUBSET Domains
      BY DEF Rerun, Pending
    <3>. QED BY <1>2, <3>1, SendToType DEF Answer
  <2>5. stopped' \in BOOLEAN /\ late' \in BOOLEAN /\ queued' \in BOOLEAN
    BY <1>2 DEF Answer, Rerun, SendTo, TypeOK, host
  <2>6. turn' \in 0..MaxTurns /\ asks' \in 0..ClarifyLimit
    BY <1>2 DEF Answer, Rerun, SendTo, TypeOK, host
  <2>. QED BY <2>1, <2>2, <2>3, <2>4, <2>5, <2>6 DEF TypeOK
<1>3. CASE AnswerNothing
  BY <1>3 DEF AnswerNothing, TypeOK, Active, Runs, Replies, work, host
<1>4. CASE Decline
  BY <1>4 DEF Decline, CloseQuestion, TypeOK, Active, Runs, Replies, work, host
<1>5. CASE Abandon
  BY <1>5 DEF Abandon, CloseQuestion, TypeOK, Active, Runs, Replies, work
<1>6. CASE AbandonFails
  <2>1. pc' \in Active \cup {"idle", "suspended", "end"} /\ mode' \in {"llm", "legacy"}
    BY <1>6 DEF AbandonFails, Start, TypeOK, Active
  <2>2. run' \in Runs
    BY <1>6 DEF AbandonFails, Start, TypeOK
  <2>3. results' \in [Domains -> Outcome \cup {NoOutcome}]
    BY <1>6 DEF AbandonFails, Start, TypeOK
  <2>4. /\ sent' \subseteq Domains /\ rounds' \in [Domains -> 0..Steps]
        /\ writes' \in [Domains -> Outcome \cup {NoOutcome}]
    BY <1>6 DEF AbandonFails, Start, TypeOK, work
  <2>5. stopped' \in BOOLEAN /\ late' \in BOOLEAN /\ queued' \in BOOLEAN
    BY <1>6 DEF AbandonFails, Start, TypeOK
  <2>6. turn' \in 0..MaxTurns /\ asks' \in 0..ClarifyLimit
    BY <1>6, RootGraphAssumption DEF AbandonFails, Start, TypeOK
  <2>. QED BY <2>1, <2>2, <2>3, <2>4, <2>5, <2>6 DEF TypeOK
<1>7. CASE Classify
  <2>1. pc' \in Active \cup {"idle", "suspended", "end"} /\ mode' \in {"llm", "legacy"}
    BY <1>7 DEF Classify, Forget, Routes, TypeOK, host, Active
  <2>2. run' \in Runs
    <3>1. PICK r \in Routes : run' = Fresh(r.domains, r.error)
      BY <1>7 DEF Classify
    <3>. QED BY <3>1, RouteFacts, FreshType
  <2>3. results' \in [Domains -> Outcome \cup {NoOutcome}]
    BY <1>7 DEF Classify, Forget, Routes, TypeOK, Nothing
  <2>4. /\ sent' \subseteq Domains /\ rounds' \in [Domains -> 0..Steps]
        /\ writes' \in [Domains -> Outcome \cup {NoOutcome}]
    BY <1>7 DEF Classify, Forget, Routes, TypeOK, work
  <2>5. stopped' \in BOOLEAN /\ late' \in BOOLEAN /\ queued' \in BOOLEAN
    BY <1>7 DEF Classify, Forget, Routes, TypeOK, host
  <2>6. turn' \in 0..MaxTurns /\ asks' \in 0..ClarifyLimit
    BY <1>7 DEF Classify, Forget, Routes, TypeOK, host
  <2>. QED BY <2>1, <2>2, <2>3, <2>4, <2>5, <2>6 DEF TypeOK
<1>8. CASE ClassifyFails
  BY <1>8 DEF ClassifyFails, TypeOK, Active, Runs, Replies, Degradations, work, host
<1>9. CASE Conversation
  BY <1>9, RootGraphAssumption DEF Conversation, TypeOK, Active, Runs, Outcome, Statuses,
     Replies, Degradations, Halts, NoOutcome, Nothing, Halt, AskInv, work, host
<1>10. CASE ConversationFails
  BY <1>10 DEF ConversationFails, Degrade, TypeOK, Active, Runs, Replies, Degradations,
     work, host
<1>11. CASE Clarify
  BY <1>11 DEF Clarify, TypeOK, Active, Runs, Replies, Degradations, work, host
<1>12. CASE Supervise
  BY <1>12 DEF Supervise, TypeOK, Active, work, host
<1>13. CASE Decide
  <2>1. pc' \in Active \cup {"idle", "suspended", "end"} /\ mode' \in {"llm", "legacy"}
    BY <1>13 DEF Decide, SendTo, TypeOK, host, Active
  <2>2. run' \in Runs
    BY <1>13, RootGraphAssumption, ZenonT(30) DEF Decide, SendTo, TypeOK, work, host, Runs, FirstOf,
       Halt, Degradations, Replies, Halts, Pending, Present, Fresh, Outcome, NoOutcome,
       Statuses
  <2>3. results' \in [Domains -> Outcome \cup {NoOutcome}]
    BY <1>13 DEF Decide, SendTo, TypeOK
  <2>4. /\ sent' \subseteq Domains /\ rounds' \in [Domains -> 0..Steps]
        /\ writes' \in [Domains -> Outcome \cup {NoOutcome}]
    BY <1>13, DecideCases, SendToType DEF TypeOK
  <2>5. stopped' \in BOOLEAN /\ late' \in BOOLEAN /\ queued' \in BOOLEAN
    BY <1>13 DEF Decide, SendTo, TypeOK, host
  <2>6. turn' \in 0..MaxTurns /\ asks' \in 0..ClarifyLimit
    BY <1>13 DEF Decide, SendTo, TypeOK, host
  <2>. QED BY <2>1, <2>2, <2>3, <2>4, <2>5, <2>6 DEF TypeOK
<1>14. CASE DecideFails
  BY <1>14 DEF DecideFails, Degrade, TypeOK, Active, Runs, Replies, Degradations, work, host
<1>15. CASE Scope
  <2>1. pc' \in Active \cup {"idle", "suspended", "end"} /\ mode' \in {"llm", "legacy"}
    BY <1>15 DEF Scope, SendTo, TypeOK, host, Active
  <2>2. run' \in Runs
    BY <1>15 DEF Scope, SendTo, TypeOK, Runs, FirstOf, Degradations
  <2>3. results' \in [Domains -> Outcome \cup {NoOutcome}]
    BY <1>15 DEF Scope, SendTo, TypeOK
  <2>4. /\ sent' \subseteq Domains /\ rounds' \in [Domains -> 0..Steps]
        /\ writes' \in [Domains -> Outcome \cup {NoOutcome}]
    <3>1. FirstOf(run.domains, MaxDomains) \in SUBSET Domains
      BY FirstOfSubset DEF TypeOK, Runs
    <3>. QED BY <1>15, <3>1, SendToType DEF Scope, TypeOK, work
  <2>5. stopped' \in BOOLEAN /\ late' \in BOOLEAN /\ queued' \in BOOLEAN
    BY <1>15 DEF Scope, SendTo, TypeOK, host
  <2>6. turn' \in 0..MaxTurns /\ asks' \in 0..ClarifyLimit
    BY <1>15 DEF Scope, SendTo, TypeOK, host
  <2>. QED BY <2>1, <2>2, <2>3, <2>4, <2>5, <2>6 DEF TypeOK
<1>16. CASE Gather
  BY <1>16, RootGraphAssumption DEF Gather, SendTo, TypeOK, Active, Nothing, host
<1>17. CASE Conclude
  <2>1. pc' \in Active \cup {"idle", "suspended", "end"} /\ mode' \in {"llm", "legacy"}
    BY <1>17 DEF Conclude, Converged, TypeOK, host, Active
  <2>2. run' \in Runs
    BY <1>17, ConvergedType, HaltType DEF Conclude, Runs
  <2>3. results' \in [Domains -> Outcome \cup {NoOutcome}]
    BY <1>17 DEF Conclude, Converged, TypeOK
  <2>4. /\ sent' \subseteq Domains /\ rounds' \in [Domains -> 0..Steps]
        /\ writes' \in [Domains -> Outcome \cup {NoOutcome}]
    BY <1>17 DEF Conclude, Converged, TypeOK, work
  <2>5. stopped' \in BOOLEAN /\ late' \in BOOLEAN /\ queued' \in BOOLEAN
    BY <1>17 DEF Conclude, Converged, TypeOK, host
  <2>6. turn' \in 0..MaxTurns /\ asks' \in 0..ClarifyLimit
    BY <1>17 DEF Conclude, Converged, TypeOK, host
  <2>. QED BY <2>1, <2>2, <2>3, <2>4, <2>5, <2>6 DEF TypeOK
<1>18. CASE PlanQuestion
  <2>1. pc' \in Active \cup {"idle", "suspended", "end"} /\ mode' \in {"llm", "legacy"}
    BY <1>18 DEF PlanQuestion, Converged, MayAsk, TypeOK, host, Active
  <2>2. run' \in Runs
    <3>1. Converged(Halt) \in Runs /\ Pending(results) \subseteq Domains
      BY ConvergedType, HaltType DEF Pending
    <3>2. Converged(Halt).clarify_rounds = run.clarify_rounds
      BY DEF Converged, TypeOK, Runs
    <3>3. Converged(Halt).clarify_rounds + 1 \in 0..ClarifyLimit
      BY <1>18, <3>2, RootGraphAssumption DEF PlanQuestion, MayAsk, TypeOK, Runs
    <3>. QED BY <1>18, <3>1, <3>3 DEF PlanQuestion, Runs
  <2>3. results' \in [Domains -> Outcome \cup {NoOutcome}]
    BY <1>18 DEF PlanQuestion, Converged, MayAsk, TypeOK
  <2>4. /\ sent' \subseteq Domains /\ rounds' \in [Domains -> 0..Steps]
        /\ writes' \in [Domains -> Outcome \cup {NoOutcome}]
    BY <1>18 DEF PlanQuestion, Converged, MayAsk, TypeOK, work
  <2>5. stopped' \in BOOLEAN /\ late' \in BOOLEAN /\ queued' \in BOOLEAN
    BY <1>18 DEF PlanQuestion, Converged, MayAsk, TypeOK, host
  <2>6. turn' \in 0..MaxTurns /\ asks' \in 0..ClarifyLimit
    BY <1>18 DEF PlanQuestion, Converged, MayAsk, TypeOK, host
  <2>. QED BY <2>1, <2>2, <2>3, <2>4, <2>5, <2>6 DEF TypeOK
<1>19. CASE GiveUpAsking
  <2>1. pc' \in Active \cup {"idle", "suspended", "end"} /\ mode' \in {"llm", "legacy"}
    BY <1>19 DEF GiveUpAsking, Converged, MayAsk, TypeOK, host, Active
  <2>2. run' \in Runs
    <3>1. Converged(Halt) \in Runs /\ Pending(results) \subseteq Domains
      BY ConvergedType, HaltType DEF Pending
    <3>. QED BY <1>19, <3>1 DEF GiveUpAsking, Runs, Replies, Degradations
  <2>3. results' \in [Domains -> Outcome \cup {NoOutcome}]
    BY <1>19 DEF GiveUpAsking, Converged, MayAsk, TypeOK
  <2>4. /\ sent' \subseteq Domains /\ rounds' \in [Domains -> 0..Steps]
        /\ writes' \in [Domains -> Outcome \cup {NoOutcome}]
    BY <1>19 DEF GiveUpAsking, Converged, MayAsk, TypeOK, work
  <2>5. stopped' \in BOOLEAN /\ late' \in BOOLEAN /\ queued' \in BOOLEAN
    BY <1>19 DEF GiveUpAsking, Converged, MayAsk, TypeOK, host
  <2>6. turn' \in 0..MaxTurns /\ asks' \in 0..ClarifyLimit
    BY <1>19 DEF GiveUpAsking, Converged, MayAsk, TypeOK, host
  <2>. QED BY <2>1, <2>2, <2>3, <2>4, <2>5, <2>6 DEF TypeOK
<1>20. CASE Interrupt
  <2>1. pc' \in Active \cup {"idle", "suspended", "end"} /\ mode' \in {"llm", "legacy"}
    BY <1>20 DEF Interrupt, TypeOK, host
  <2>2. run' \in Runs
    BY <1>20 DEF Interrupt, TypeOK
  <2>3. results' \in [Domains -> Outcome \cup {NoOutcome}]
    BY <1>20 DEF Interrupt, TypeOK
  <2>4. /\ sent' \subseteq Domains /\ rounds' \in [Domains -> 0..Steps]
        /\ writes' \in [Domains -> Outcome \cup {NoOutcome}]
    BY <1>20 DEF Interrupt, TypeOK, work
  <2>5. stopped' \in BOOLEAN /\ late' \in BOOLEAN /\ queued' \in BOOLEAN
    BY <1>20 DEF Interrupt, TypeOK, host
  <2>6. turn' \in 0..MaxTurns /\ asks' \in 0..ClarifyLimit
    BY <1>20, RootGraphAssumption DEF Interrupt, TypeOK, host, AskInv, Runs
  <2>. QED BY <2>1, <2>2, <2>3, <2>4, <2>5, <2>6 DEF TypeOK
<1>21. CASE Synthesize
  BY <1>21 DEF Synthesize, TypeOK, Active, work, host
<1>22. CASE Screen
  BY <1>22 DEF Screen, TypeOK, Runs, Replies, work, host
<1>23. CASE Withhold
  BY <1>23 DEF Withhold, TypeOK, Runs, Replies, Degradations, work, host
<1>24. CASE ComplianceFails
  BY <1>24 DEF ComplianceFails, TypeOK, Runs, Replies, Degradations, work, host
<1>25. CASE PressStop
  BY <1>25 DEF PressStop, TypeOK, work, host
<1>26. CASE DeadlinePasses
  BY <1>26 DEF DeadlinePasses, TypeOK, work, host
<1>27. CASE Crash
  <2>1. pc' \in Active \cup {"idle", "suspended", "end"} /\ mode' \in {"llm", "legacy"}
    BY <1>27 DEF Crash, SendTo, TypeOK
  <2>2. run' \in Runs
    BY <1>27 DEF Crash, SendTo, TypeOK
  <2>3. results' \in [Domains -> Outcome \cup {NoOutcome}]
    BY <1>27 DEF Crash, SendTo, TypeOK
  <2>4. /\ sent' \subseteq Domains /\ rounds' \in [Domains -> 0..Steps]
        /\ writes' \in [Domains -> Outcome \cup {NoOutcome}]
    BY <1>27, RootGraphAssumption DEF Crash, SendTo, TypeOK, Nothing
  <2>5. stopped' \in BOOLEAN /\ late' \in BOOLEAN /\ queued' \in BOOLEAN
    BY <1>27 DEF Crash, SendTo, TypeOK
  <2>6. turn' \in 0..MaxTurns /\ asks' \in 0..ClarifyLimit
    BY <1>27 DEF Crash, SendTo, TypeOK
  <2>. QED BY <2>1, <2>2, <2>3, <2>4, <2>5, <2>6 DEF TypeOK
<1>28. ASSUME NEW d \in Domains, ModelRound(d) PROVE TypeOK'
  BY <1>28, RootGraphAssumption DEF ModelRound, Working, TypeOK, host
<1>29. ASSUME NEW d \in Domains, Finish(d) PROVE TypeOK'
  <2>1. pc' \in Active \cup {"idle", "suspended", "end"} /\ mode' \in {"llm", "legacy"}
    BY <1>29 DEF Finish, Working, Write, TypeOK, host
  <2>2. run' \in Runs
    BY <1>29 DEF Finish, Working, Write, TypeOK
  <2>3. results' \in [Domains -> Outcome \cup {NoOutcome}]
    BY <1>29 DEF Finish, Working, Write, TypeOK
  <2>4. /\ sent' \subseteq Domains /\ rounds' \in [Domains -> 0..Steps]
        /\ writes' \in [Domains -> Outcome \cup {NoOutcome}]
    <3>1. \E status \in Statuses, halt \in Halts \cup {"none"} : Write(d, status, halt)
      BY <1>29 DEF Finish
    <3>. QED BY <3>1, WriteType DEF Write, TypeOK
  <2>5. stopped' \in BOOLEAN /\ late' \in BOOLEAN /\ queued' \in BOOLEAN
    BY <1>29 DEF Finish, Working, Write, TypeOK, host
  <2>6. turn' \in 0..MaxTurns /\ asks' \in 0..ClarifyLimit
    BY <1>29 DEF Finish, Working, Write, TypeOK, host
  <2>. QED BY <2>1, <2>2, <2>3, <2>4, <2>5, <2>6 DEF TypeOK
<1>30. ASSUME NEW d \in Domains, CooperativeStop(d) PROVE TypeOK'
  <2>1. pc' \in Active \cup {"idle", "suspended", "end"} /\ mode' \in {"llm", "legacy"}
    BY <1>30 DEF CooperativeStop, Working, Write, TypeOK, host
  <2>2. run' \in Runs
    BY <1>30 DEF CooperativeStop, Working, Write, TypeOK
  <2>3. results' \in [Domains -> Outcome \cup {NoOutcome}]
    BY <1>30 DEF CooperativeStop, Working, Write, TypeOK
  <2>4. /\ sent' \subseteq Domains /\ rounds' \in [Domains -> 0..Steps]
        /\ writes' \in [Domains -> Outcome \cup {NoOutcome}]
    <3>1. \E status \in Statuses, halt \in Halts \cup {"none"} : Write(d, status, halt)
      BY <1>30 DEF CooperativeStop, ExpertHalt, Halts
    <3>. QED BY <3>1, WriteType DEF Write, TypeOK
  <2>5. stopped' \in BOOLEAN /\ late' \in BOOLEAN /\ queued' \in BOOLEAN
    BY <1>30 DEF CooperativeStop, Working, Write, TypeOK, host
  <2>6. turn' \in 0..MaxTurns /\ asks' \in 0..ClarifyLimit
    BY <1>30 DEF CooperativeStop, Working, Write, TypeOK, host
  <2>. QED BY <2>1, <2>2, <2>3, <2>4, <2>5, <2>6 DEF TypeOK
<1>31. ASSUME NEW d \in Domains, ExpertFails(d) PROVE TypeOK'
  <2>1. pc' \in Active \cup {"idle", "suspended", "end"} /\ mode' \in {"llm", "legacy"}
    BY <1>31 DEF ExpertFails, Working, Write, TypeOK, host
  <2>2. run' \in Runs
    BY <1>31 DEF ExpertFails, Working, Write, TypeOK
  <2>3. results' \in [Domains -> Outcome \cup {NoOutcome}]
    BY <1>31 DEF ExpertFails, Working, Write, TypeOK
  <2>4. /\ sent' \subseteq Domains /\ rounds' \in [Domains -> 0..Steps]
        /\ writes' \in [Domains -> Outcome \cup {NoOutcome}]
    <3>1. \E status \in Statuses, halt \in Halts \cup {"none"} : Write(d, status, halt)
      BY <1>31 DEF ExpertFails, Statuses
    <3>. QED BY <3>1, WriteType DEF Write, TypeOK
  <2>5. stopped' \in BOOLEAN /\ late' \in BOOLEAN /\ queued' \in BOOLEAN
    BY <1>31 DEF ExpertFails, Working, Write, TypeOK, host
  <2>6. turn' \in 0..MaxTurns /\ asks' \in 0..ClarifyLimit
    BY <1>31 DEF ExpertFails, Working, Write, TypeOK, host
  <2>. QED BY <2>1, <2>2, <2>3, <2>4, <2>5, <2>6 DEF TypeOK
<1>. QED BY <1>1, <1>2, <1>3, <1>4, <1>5, <1>6, <1>7, <1>8, <1>9, <1>10, <1>11, <1>12,
   <1>13, <1>14, <1>15, <1>16, <1>17, <1>18, <1>19, <1>20, <1>21, <1>22, <1>23, <1>24,
   <1>25, <1>26, <1>27, <1>28, <1>29, <1>30, <1>31 DEF Next, GraphStep, Expert

\* Every action keeps the count of the questions and what a question rests on.
LEMMA AskKept ==
  ASSUME TypeOK, AskInv, HaltInv, Next
  PROVE  AskInv'
<1>1. CASE Begin
  BY <1>1 DEF Begin, Start, AskInv, Asking, Halts, TypeOK, Runs
<1>2. CASE Answer
  BY <1>2 DEF Answer, Rerun, SendTo, AskInv, Asking, Halts
<1>3. CASE AnswerNothing
  BY <1>3 DEF AnswerNothing, AskInv, Asking, Halts
<1>4. CASE Decline
  BY <1>4 DEF Decline, CloseQuestion, AskInv, Asking, Halts
<1>5. CASE Abandon
  BY <1>5 DEF Abandon, CloseQuestion, AskInv, Asking, Halts
<1>6. CASE AbandonFails
  BY <1>6 DEF AbandonFails, Start, AskInv, Asking, Halts, TypeOK, Runs
<1>7. CASE Classify
  <2>1. PICK r \in Routes : run' = Fresh(r.domains, r.error) /\ pc' = r.node
    BY <1>7 DEF Classify
  <2>2. run'.clarify_rounds = 0
    BY <2>1 DEF Fresh
  <2>3. pc' \notin {"classify", "asking", "suspended"}
    BY <2>1, RouteFacts
  <2>. QED BY <1>7, <2>2, <2>3 DEF AskInv, Classify, Asking
<1>8. CASE ClassifyFails
  BY <1>8 DEF ClassifyFails, AskInv, Asking, Halts
<1>9. CASE Conversation
  BY <1>9 DEF Conversation, AskInv, Asking, Halts
<1>10. CASE ConversationFails
  BY <1>10 DEF ConversationFails, Degrade, AskInv, Asking, Halts
<1>11. CASE Clarify
  BY <1>11 DEF Clarify, AskInv, Asking, Halts
<1>12. CASE Supervise
  BY <1>12 DEF Supervise, AskInv, Asking, Halts
<1>13. CASE Decide
  BY <1>13 DEF Decide, SendTo, AskInv, Asking, Halts, TypeOK, Runs
<1>14. CASE DecideFails
  BY <1>14 DEF DecideFails, Degrade, AskInv, Asking, Halts
<1>15. CASE Scope
  BY <1>15 DEF Scope, SendTo, AskInv, Asking, Halts
<1>16. CASE Gather
  BY <1>16 DEF Gather, SendTo, AskInv, Asking, Halts
<1>17. CASE Conclude
  BY <1>17 DEF Conclude, Converged, AskInv, Asking, Halts
<1>18. CASE PlanQuestion
  BY <1>18 DEF PlanQuestion, Converged, MayAsk, AskInv, Asking, Halts, Noted, Halt,
     NoOutcome, TypeOK, Runs, Outcome, HaltInv, Open, HaltKnown
<1>19. CASE GiveUpAsking
  BY <1>19 DEF GiveUpAsking, Converged, MayAsk, AskInv, Asking, Halts
<1>20. CASE Interrupt
  BY <1>20 DEF Interrupt, AskInv, Asking, Halts, TypeOK, Runs
<1>21. CASE Synthesize
  BY <1>21 DEF Synthesize, AskInv, Asking, Halts
<1>22. CASE Screen
  BY <1>22 DEF Screen, AskInv, Asking, Halts
<1>23. CASE Withhold
  BY <1>23 DEF Withhold, AskInv, Asking, Halts
<1>24. CASE ComplianceFails
  BY <1>24 DEF ComplianceFails, AskInv, Asking, Halts
<1>25. CASE PressStop
  BY <1>25 DEF PressStop, Active, AskInv
<1>26. CASE DeadlinePasses
  BY <1>26 DEF DeadlinePasses, Active, AskInv
<1>27. CASE Crash
  BY <1>27 DEF Crash, SendTo, Active, AskInv, Asking, Halts
<1>28. ASSUME NEW d \in Domains, ModelRound(d) PROVE AskInv'
  BY <1>28 DEF ModelRound, Working, AskInv
<1>29. ASSUME NEW d \in Domains, Finish(d) PROVE AskInv'
  BY <1>29 DEF Finish, Working, Write, AskInv
<1>30. ASSUME NEW d \in Domains, CooperativeStop(d) PROVE AskInv'
  BY <1>30 DEF CooperativeStop, Working, Write, AskInv
<1>31. ASSUME NEW d \in Domains, ExpertFails(d) PROVE AskInv'
  BY <1>31 DEF ExpertFails, Working, Write, AskInv
<1>. QED BY <1>1, <1>2, <1>3, <1>4, <1>5, <1>6, <1>7, <1>8, <1>9, <1>10, <1>11, <1>12,
   <1>13, <1>14, <1>15, <1>16, <1>17, <1>18, <1>19, <1>20, <1>21, <1>22, <1>23, <1>24,
   <1>25, <1>26, <1>27, <1>28, <1>29, <1>30, <1>31 DEF Next, GraphStep, Expert

\* Until converge, a halt that an expert noted can still be seen.
LEMMA HaltKept ==
  ASSUME TypeOK, HaltInv, AskInv, FreshInv, Next
  PROVE  HaltInv'
<1>1. CASE Begin
  BY <1>1 DEF Begin, Start, HaltInv, Before, Open, Halts, HaltKnown
<1>2. CASE Answer
  BY <1>2 DEF Answer, Rerun, SendTo, HaltInv, Before, Open, Halts, HaltKnown, NoOutcome,
     Nothing, AskInv, Asking
<1>3. CASE AnswerNothing
  BY <1>3 DEF AnswerNothing, HaltInv, Before, Open, Halts, HaltKnown
<1>4. CASE Decline
  BY <1>4 DEF Decline, CloseQuestion, HaltInv, Before, Open, Halts, HaltKnown
<1>5. CASE Abandon
  BY <1>5 DEF Abandon, CloseQuestion, HaltInv, Before, Open, Halts, HaltKnown
<1>6. CASE AbandonFails
  BY <1>6 DEF AbandonFails, Start, HaltInv, Before, Open, Halts, HaltKnown
<1>7. CASE Classify
  <2>1. PICK r \in Routes : run' = Fresh(r.domains, r.error) /\ pc' = r.node
    BY <1>7 DEF Classify
  <2>2. ~run'.halted /\ run'.degradations = {}
    BY <2>1, Zenon DEF Fresh
  <2>3. pc' # "workers"
    BY <2>1, RouteFacts
  <2>4. \A d \in Domains : results'[d].halt = "none"
    BY <1>7 DEF Classify, Forget, Nothing, NoOutcome
  <2>. QED BY <2>2, <2>3, <2>4 DEF HaltInv, HaltKnown
<1>8. CASE ClassifyFails
  BY <1>8 DEF ClassifyFails, HaltInv, Before, Open, Halts, HaltKnown
<1>9. CASE Conversation
  BY <1>9 DEF Conversation, HaltInv, Before, Open, Halts, HaltKnown
<1>10. CASE ConversationFails
  BY <1>10 DEF ConversationFails, Degrade, HaltInv, Before, Open, Halts, HaltKnown
<1>11. CASE Clarify
  BY <1>11 DEF Clarify, HaltInv, Before, Open, Halts, HaltKnown
<1>12. CASE Supervise
  BY <1>12 DEF Supervise, HaltInv, Before, Open, Halts, HaltKnown
<1>13. CASE Decide
  BY <1>13 DEF Decide, SendTo, HaltInv, Before, Open, Halts, HaltKnown, TypeOK, Runs,
     FreshInv
<1>14. CASE DecideFails
  BY <1>14 DEF DecideFails, Degrade, HaltInv, Before, Open, Halts, HaltKnown
<1>15. CASE Scope
  BY <1>15 DEF Scope, SendTo, HaltInv, Before, Open, Halts, HaltKnown, NoOutcome, Nothing
<1>16. CASE Gather
  BY <1>16 DEF Gather, SendTo, HaltInv, Before, Open, Halts, HaltKnown
<1>17. CASE Conclude
  BY <1>17 DEF Conclude, Converged, HaltInv, Before, Open, Halts, HaltKnown
<1>18. CASE PlanQuestion
  BY <1>18 DEF PlanQuestion, Converged, MayAsk, HaltInv, Before, Open, Halts, HaltKnown
<1>19. CASE GiveUpAsking
  BY <1>19 DEF GiveUpAsking, Converged, MayAsk, HaltInv, Before, Open, Halts, HaltKnown
<1>20. CASE Interrupt
  BY <1>20 DEF Interrupt, HaltInv, Before, Open, Halts, HaltKnown
<1>21. CASE Synthesize
  BY <1>21 DEF Synthesize, HaltInv, Before, Open, Halts, HaltKnown
<1>22. CASE Screen
  BY <1>22 DEF Screen, HaltInv, Before, Open, Halts, HaltKnown
<1>23. CASE Withhold
  BY <1>23 DEF Withhold, HaltInv, Before, Open, Halts, HaltKnown
<1>24. CASE ComplianceFails
  BY <1>24 DEF ComplianceFails, HaltInv, Before, Open, Halts, HaltKnown
<1>25. CASE PressStop
  BY <1>25 DEF PressStop, Active, HaltInv, Before, Open, Halts, HaltKnown, work
<1>26. CASE DeadlinePasses
  BY <1>26 DEF DeadlinePasses, Active, HaltInv, Before, Open, Halts, HaltKnown, work
<1>27. CASE Crash
  BY <1>27 DEF Crash, SendTo, Active, HaltInv, Before, Open, Halts, HaltKnown
<1>28. ASSUME NEW d \in Domains, ModelRound(d) PROVE HaltInv'
  BY <1>28 DEF ModelRound, Working, HaltInv, Before, Open, Halts, HaltKnown
<1>29. ASSUME NEW d \in Domains, Finish(d) PROVE HaltInv'
  BY <1>29 DEF Finish, Working, Write, HaltInv, Before, Open, Halts, HaltKnown
<1>30. ASSUME NEW d \in Domains, CooperativeStop(d) PROVE HaltInv'
  BY <1>30 DEF CooperativeStop, Working, Write, HaltInv, Before, Open, Halts, HaltKnown,
     ExpertHalt
<1>31. ASSUME NEW d \in Domains, ExpertFails(d) PROVE HaltInv'
  BY <1>31 DEF ExpertFails, Working, Write, HaltInv, Before, Open, Halts, HaltKnown
<1>. QED BY <1>1, <1>2, <1>3, <1>4, <1>5, <1>6, <1>7, <1>8, <1>9, <1>10, <1>11, <1>12,
   <1>13, <1>14, <1>15, <1>16, <1>17, <1>18, <1>19, <1>20, <1>21, <1>22, <1>23, <1>24,
   <1>25, <1>26, <1>27, <1>28, <1>29, <1>30, <1>31 DEF Next, GraphStep, Expert

\* Outcomes stay those of the turn and of the domains sent.
LEMMA FreshKept ==
  ASSUME TypeOK, FreshInv, Next
  PROVE  FreshInv'
<1>1. CASE Begin
  BY <1>1 DEF Begin, Start, FreshInv, Before, Asking, Present
<1>2. CASE Answer
  BY <1>2 DEF Answer, Rerun, SendTo, FreshInv, Before, Asking, Present, Nothing, Pending,
     host
<1>3. CASE AnswerNothing
  BY <1>3 DEF AnswerNothing, FreshInv, Before, Asking, Present
<1>4. CASE Decline
  BY <1>4 DEF Decline, CloseQuestion, FreshInv, Before, Asking, Present
<1>5. CASE Abandon
  BY <1>5 DEF Abandon, CloseQuestion, FreshInv, Before, Asking, Present
<1>6. CASE AbandonFails
  BY <1>6 DEF AbandonFails, Start, FreshInv, Before, Asking, Present
<1>7. CASE Classify
  <2>1. PICK r \in Routes : run' = Fresh(r.domains, r.error) /\ pc' = r.node
    BY <1>7 DEF Classify
  <2>2. /\ run'.expert_tasks = {} /\ run'.degradations = {}
        /\ run'.domains = r.domains
    BY <2>1 DEF Fresh
  <2>3. /\ pc' \in {"conversation", "clarify", "supervisor", "scope"}
        /\ pc' \in {"conversation", "clarify"} => run'.domains = {}
        /\ pc' \in {"supervisor", "decide", "scope"} => run'.domains # {}
    BY <2>1, <2>2, RouteFacts
  <2>4. results' = Nothing
    BY <1>7 DEF Classify, Forget
  <2>. QED BY <2>2, <2>3, <2>4 DEF FreshInv, Before, Asking
<1>8. CASE ClassifyFails
  BY <1>8 DEF ClassifyFails, FreshInv, Before, Asking, Present
<1>9. CASE Conversation
  BY <1>9 DEF Conversation, FreshInv, Before, Asking, Present, Nothing
<1>10. CASE ConversationFails
  BY <1>10 DEF ConversationFails, Degrade, FreshInv, Before, Asking, Present
<1>11. CASE Clarify
  BY <1>11 DEF Clarify, FreshInv, Before, Asking, Present, Nothing
<1>12. CASE Supervise
  BY <1>12 DEF Supervise, FreshInv, Before, Asking, Present, Nothing
<1>13. CASE Decide
  <2>1. results' = Nothing
    BY <1>13 DEF FreshInv, Before, Decide
  <2>2. Present(results') = {} /\ \A d \in Domains : results'[d].status = "none"
    BY <2>1 DEF Present, Nothing, NoOutcome
  <2>3. CASE pc' = "converge"
    BY <2>2, <2>3 DEF FreshInv, Before, Asking
  <2>4. CASE pc' = "workers"
    <3>1. PICK chosen \in SUBSET Domains :
             run' = [run EXCEPT !.expert_tasks = chosen] /\ SendTo(chosen)
      BY <1>13, <2>4, DecideCases
    <3>2. run'.expert_tasks = chosen /\ sent' = chosen /\ writes' = Nothing
      BY <3>1, SendToType DEF TypeOK, Runs
    <3>3. \A d \in Domains : writes'[d] = NoOutcome
      BY <3>2 DEF Nothing
    <3>. QED BY <2>2, <2>4, <3>2, <3>3 DEF FreshInv, Before, Asking
  <2>. QED BY <1>13, <2>3, <2>4, DecideCases
<1>14. CASE DecideFails
  BY <1>14 DEF DecideFails, Degrade, FreshInv, Before, Asking, Present
<1>15. CASE Scope
  <2>1. results' = Nothing
    BY <1>15 DEF FreshInv, Before, Scope
  <2>2. Present(results') = {} /\ \A d \in Domains : results'[d].status = "none"
    BY <2>1 DEF Present, Nothing, NoOutcome
  <2>3. CASE Halt # "none"
    <3>1. pc' = "converge"
      BY <1>15, <2>3 DEF Scope
    <3>. QED BY <2>2, <3>1 DEF FreshInv, Before, Asking
  <2>4. CASE Halt = "none"
    <3>1. FirstOf(run.domains, MaxDomains) \in SUBSET Domains
      BY FirstOfSubset DEF TypeOK, Runs
    <3>2. /\ pc' = "workers" /\ SendTo(FirstOf(run.domains, MaxDomains))
          /\ run'.expert_tasks = FirstOf(run.domains, MaxDomains)
      BY <1>15, <2>4 DEF Scope, TypeOK, Runs
    <3>3. sent' = run'.expert_tasks /\ writes' = Nothing
      BY <3>1, <3>2, SendToType
    <3>4. sent' \subseteq Domains /\ \A d \in Domains : writes'[d] = NoOutcome
      BY <3>1, <3>2, <3>3 DEF Nothing
    <3>. QED BY <2>2, <3>2, <3>3, <3>4 DEF FreshInv, Before, Asking
  <2>. QED BY <2>3, <2>4
<1>16. CASE Gather
  BY <1>16 DEF Gather, SendTo, FreshInv, Before, Asking, Present, host
<1>17. CASE Conclude
  BY <1>17 DEF Conclude, Converged, FreshInv, Before, Asking, Present, host
<1>18. CASE PlanQuestion
  BY <1>18 DEF PlanQuestion, Converged, MayAsk, FreshInv, Before, Asking, Present, host
<1>19. CASE GiveUpAsking
  BY <1>19 DEF GiveUpAsking, Converged, MayAsk, FreshInv, Before, Asking, Present
<1>20. CASE Interrupt
  BY <1>20 DEF Interrupt, FreshInv, Before, Asking, Present, host
<1>21. CASE Synthesize
  BY <1>21 DEF Synthesize, FreshInv, Before, Asking, Present
<1>22. CASE Screen
  BY <1>22 DEF Screen, FreshInv, Before, Asking, Present
<1>23. CASE Withhold
  BY <1>23 DEF Withhold, FreshInv, Before, Asking, Present
<1>24. CASE ComplianceFails
  BY <1>24 DEF ComplianceFails, FreshInv, Before, Asking, Present
<1>25. CASE PressStop
  BY <1>25 DEF PressStop, Active, FreshInv, work, host
<1>26. CASE DeadlinePasses
  BY <1>26 DEF DeadlinePasses, Active, FreshInv, work, host
<1>27. CASE Crash
  BY <1>27 DEF Crash, SendTo, Active, FreshInv, Before, Asking, Present
<1>28. ASSUME NEW d \in Domains, ModelRound(d) PROVE FreshInv'
  BY <1>28 DEF ModelRound, Working, FreshInv, host
<1>29. ASSUME NEW d \in Domains, Finish(d) PROVE FreshInv'
  BY <1>29 DEF Finish, Working, Write, FreshInv, host
<1>30. ASSUME NEW d \in Domains, CooperativeStop(d) PROVE FreshInv'
  BY <1>30 DEF CooperativeStop, Working, Write, FreshInv, host
<1>31. ASSUME NEW d \in Domains, ExpertFails(d) PROVE FreshInv'
  BY <1>31 DEF ExpertFails, Working, Write, FreshInv, host
<1>. QED BY <1>1, <1>2, <1>3, <1>4, <1>5, <1>6, <1>7, <1>8, <1>9, <1>10, <1>11, <1>12,
   <1>13, <1>14, <1>15, <1>16, <1>17, <1>18, <1>19, <1>20, <1>21, <1>22, <1>23, <1>24,
   <1>25, <1>26, <1>27, <1>28, <1>29, <1>30, <1>31 DEF Next, GraphStep, Expert

\* No domain that was sent is forgotten.
LEMMA CoverKept ==
  ASSUME TypeOK, HaltInv, FreshInv, CoverInv, Next
  PROVE  CoverInv'
<1>1. CASE Begin
  BY <1>1 DEF Begin, Start, CoverInv, Before, Asking, Halt
<1>2. CASE Answer
  BY <1>2 DEF Answer, Rerun, SendTo, CoverInv, Before, Asking, Halt
<1>3. CASE AnswerNothing
  BY <1>3 DEF AnswerNothing, CoverInv, Before, Asking, Halt
<1>4. CASE Decline
  BY <1>4 DEF Decline, CloseQuestion, CoverInv, Before, Asking, Halt
<1>5. CASE Abandon
  BY <1>5 DEF Abandon, CloseQuestion, CoverInv, Before, Asking, Halt
<1>6. CASE AbandonFails
  BY <1>6 DEF AbandonFails, Start, CoverInv, Before, Asking, Halt
<1>7. CASE Classify
  BY <1>7 DEF Classify, Forget, Routes, CoverInv, Before, Asking, Halt
<1>8. CASE ClassifyFails
  BY <1>8 DEF ClassifyFails, CoverInv, Before, Asking, Halt
<1>9. CASE Conversation
  BY <1>9 DEF Conversation, CoverInv, Before, Asking, Halt, FreshInv
<1>10. CASE ConversationFails
  BY <1>10 DEF ConversationFails, Degrade, CoverInv, Before, Asking, Halt
<1>11. CASE Clarify
  BY <1>11 DEF Clarify, CoverInv, Before, Asking, Halt, FreshInv
<1>12. CASE Supervise
  BY <1>12 DEF Supervise, CoverInv, Before, Asking, Halt
<1>13. CASE Decide
  BY <1>13 DEF Decide, SendTo, CoverInv, Before, Asking, Halt, TypeOK, Runs
<1>14. CASE DecideFails
  BY <1>14 DEF DecideFails, Degrade, CoverInv, Before, Asking, Halt
<1>15. CASE Scope
  <2>1. CASE Halt # "none"
    <3>1. pc' = "converge" /\ Halt' # "none"
      BY <1>15, <2>1 DEF Scope, Halt
    <3>. QED BY <3>1 DEF CoverInv, Asking
  <2>2. CASE Halt = "none"
    <3>1. /\ run.domains \in SUBSET Domains /\ run.domains # {}
      BY <1>15 DEF FreshInv, Scope, TypeOK, Runs
    <3>2. /\ FirstOf(run.domains, MaxDomains) # {}
          /\ FirstOf(run.domains, MaxDomains) \in SUBSET Domains
      BY <3>1, FirstOfSubset, FirstOfSome
    <3>3. /\ pc' = "workers" /\ SendTo(FirstOf(run.domains, MaxDomains))
          /\ run'.expert_tasks = FirstOf(run.domains, MaxDomains)
      BY <1>15, <2>2 DEF Scope, TypeOK, Runs
    <3>4. sent' = run'.expert_tasks /\ run'.expert_tasks # {}
      BY <3>2, <3>3, SendToType
    <3>. QED BY <3>3, <3>4 DEF CoverInv, Asking
  <2>. QED BY <2>1, <2>2
<1>16. CASE Gather
  BY <1>16 DEF Gather, SendTo, CoverInv, TypeOK, Runs
<1>17. CASE Conclude
  BY <1>17 DEF Conclude, Converged, CoverInv, Before, Asking, Halt
<1>18. CASE PlanQuestion
  BY <1>18 DEF PlanQuestion, Converged, MayAsk, CoverInv, NoOutcome, Present, Pending,
     FreshInv
<1>19. CASE GiveUpAsking
  BY <1>19 DEF GiveUpAsking, Converged, MayAsk, CoverInv, Before, Asking, Halt
<1>20. CASE Interrupt
  BY <1>20 DEF Interrupt, CoverInv, Before, Asking, Halt
<1>21. CASE Synthesize
  BY <1>21 DEF Synthesize, CoverInv, Before, Asking, Halt
<1>22. CASE Screen
  BY <1>22 DEF Screen, CoverInv, Before, Asking, Halt
<1>23. CASE Withhold
  BY <1>23 DEF Withhold, CoverInv, Before, Asking, Halt
<1>24. CASE ComplianceFails
  BY <1>24 DEF ComplianceFails, CoverInv, Before, Asking, Halt
<1>25. CASE PressStop
  BY <1>25 DEF PressStop, Active, CoverInv, Before, Asking, Halt, work
<1>26. CASE DeadlinePasses
  BY <1>26 DEF DeadlinePasses, Active, CoverInv, Before, Asking, Halt, work
<1>27. CASE Crash
  BY <1>27 DEF Crash, SendTo, Active, CoverInv, Before, Asking, Halt
<1>28. ASSUME NEW d \in Domains, ModelRound(d) PROVE CoverInv'
  BY <1>28 DEF ModelRound, Working, CoverInv
<1>29. ASSUME NEW d \in Domains, Finish(d) PROVE CoverInv'
  BY <1>29 DEF Finish, Working, Write, CoverInv
<1>30. ASSUME NEW d \in Domains, CooperativeStop(d) PROVE CoverInv'
  BY <1>30 DEF CooperativeStop, Working, Write, CoverInv
<1>31. ASSUME NEW d \in Domains, ExpertFails(d) PROVE CoverInv'
  BY <1>31 DEF ExpertFails, Working, Write, CoverInv
<1>. QED BY <1>1, <1>2, <1>3, <1>4, <1>5, <1>6, <1>7, <1>8, <1>9, <1>10, <1>11, <1>12,
   <1>13, <1>14, <1>15, <1>16, <1>17, <1>18, <1>19, <1>20, <1>21, <1>22, <1>23, <1>24,
   <1>25, <1>26, <1>27, <1>28, <1>29, <1>30, <1>31 DEF Next, GraphStep, Expert

\* What the status claims from converge on stays true; Conclude is where it is
\* established.
LEMMA TruthKept ==
  ASSUME TypeOK, AskInv, HaltInv, FreshInv, CoverInv, TruthInv, Next
  PROVE  TruthInv'
<1>1. CASE Begin
  BY <1>1 DEF Begin, Start, TruthInv, Closing, Claim, StopClaim
<1>2. CASE Answer
  BY <1>2 DEF Answer, Rerun, SendTo, TruthInv, Closing, Claim, StopClaim
<1>3. CASE AnswerNothing
  BY <1>3 DEF AnswerNothing, TruthInv, Closing, Claim, StopClaim, Halts, AskInv, Asking
<1>4. CASE Decline
  BY <1>4 DEF Decline, CloseQuestion, TruthInv, Closing, Claim, StopClaim, Halts, AskInv,
     Asking
<1>5. CASE Abandon
  BY <1>5 DEF Abandon, CloseQuestion, TruthInv, Closing, Claim, StopClaim, Halts, AskInv,
     Asking
<1>6. CASE AbandonFails
  BY <1>6 DEF AbandonFails, Start, TruthInv, Closing, Claim, StopClaim
<1>7. CASE Classify
  BY <1>7 DEF Classify, Forget, Routes, TruthInv, Closing, Claim, StopClaim
<1>8. CASE ClassifyFails
  BY <1>8 DEF ClassifyFails, TruthInv, Closing, Claim, StopClaim
<1>9. CASE Conversation
  BY <1>9 DEF Conversation, TruthInv, Closing, Claim, StopClaim
<1>10. CASE ConversationFails
  BY <1>10 DEF ConversationFails, Degrade, TruthInv, Closing, Claim, StopClaim
<1>11. CASE Clarify
  BY <1>11 DEF Clarify, TruthInv, Closing, Claim, StopClaim
<1>12. CASE Supervise
  BY <1>12 DEF Supervise, TruthInv, Closing, Claim, StopClaim
<1>13. CASE Decide
  BY <1>13 DEF Decide, SendTo, TruthInv, Closing, Claim, StopClaim
<1>14. CASE DecideFails
  BY <1>14 DEF DecideFails, Degrade, TruthInv, Closing, Claim, StopClaim
<1>15. CASE Scope
  BY <1>15 DEF Scope, SendTo, TruthInv, Closing, Claim, StopClaim
<1>16. CASE Gather
  BY <1>16 DEF Gather, SendTo, TruthInv, Closing, Claim, StopClaim
<1>17. CASE Conclude
  <2>. DEFINE present == Present(results)
              statuses == {results[d].status : d \in present}
  <2>1. /\ run'.degradations = Noted(Halt)
        /\ run'.param_cancelled = run.param_cancelled
        /\ run'.domains = run.domains /\ run'.expert_tasks = run.expert_tasks
        /\ run'.run_status = IF present # {} \/ Halt # "none"
                             THEN Reduce(statuses, Noted(Halt)) ELSE run.run_status
        /\ results' = results /\ pc' \in {"synthesize", "compliance"}
    BY <1>17 DEF Conclude, Converged, TypeOK, Runs
  <2>2. CASE present # {} \/ Halt # "none"
    <3>1. run'.run_status = Reduce(statuses, Noted(Halt))
      BY <2>1, <2>2
    <3>2. "run_cancelled" \in Noted(Halt) => run'.run_status = "cancelled"
      BY <3>1 DEF Reduce
    <3>3. ASSUME run'.run_status \in {"none", "completed"}
          PROVE  /\ Noted(Halt) = {} /\ Halt = "none" /\ statuses = {"success"}
      <4>1. Noted(Halt) = {} /\ statuses = {"success"}
        BY <3>1, <3>3 DEF Reduce
      <4>2. Halt # "none" => Halt \in Noted(Halt)
        BY DEF Noted
      <4>. QED BY <4>1, <4>2
    <3>4. ASSUME run'.run_status \in {"none", "completed"}
          PROVE  /\ run.domains # {} => run.expert_tasks # {}
                 /\ \A d \in run.expert_tasks : results[d].status = "success"
      <4>1. \/ \A d \in run.expert_tasks : results[d] # NoOutcome
            \/ run.expert_tasks = {} /\ run.domains = {}
        BY <1>17, <3>3, <3>4 DEF CoverInv, Conclude
      <4>2. run.expert_tasks \subseteq Domains
        BY DEF TypeOK, Runs
      <4>3. \A d \in Domains : results[d] # NoOutcome => results[d].status \in statuses
        BY DEF Present
      <4>4. run.domains # {} => run.expert_tasks # {}
        BY <1>17, <3>3, <3>4 DEF CoverInv, Conclude
      <4>. QED BY <3>3, <3>4, <4>1, <4>2, <4>3, <4>4
    <3>. QED BY <2>1, <3>2, <3>3, <3>4 DEF TruthInv, Claim, StopClaim
  <2>3. CASE present = {} /\ Halt = "none"
    <3>1. \A d \in Domains : results[d].halt = "none"
      BY <2>3 DEF Present, NoOutcome
    <3>2. Noted(Halt) = run.degradations
      <4>1. "none" \notin run.degradations
        BY DEF TypeOK, Runs, Degradations, Halts
      <4>. QED BY <2>3, <3>1, <4>1 DEF Noted
    <3>3. run'.run_status = run.run_status /\ run'.degradations = run.degradations
      BY <2>1, <2>3, <3>2
    <3>4. "run_cancelled" \notin run.degradations
      BY <1>17 DEF HaltInv, Conclude, Open, Halts
    <3>5. \A d \in Domains : results[d] = NoOutcome
      BY <2>3 DEF Present
    <3>6. run.expert_tasks \subseteq Domains
      BY DEF TypeOK, Runs
    <3>7. /\ run.expert_tasks = {} /\ run.domains = {} /\ run.run_status # "none"
          /\ run.run_status = "completed" => run.degradations = {}
      BY <1>17, <2>3, <3>5, <3>6 DEF CoverInv, Conclude
    <3>. QED BY <2>1, <3>3, <3>4, <3>7 DEF TruthInv, Claim, StopClaim
  <2>. QED BY <2>2, <2>3
<1>18. CASE PlanQuestion
  BY <1>18 DEF PlanQuestion, Converged, MayAsk, TruthInv, Closing, Claim, StopClaim
<1>19. CASE GiveUpAsking
  BY <1>19 DEF GiveUpAsking, Converged, MayAsk, TruthInv, Closing, Claim, StopClaim, Reduce,
     NoOutcome, Present, Pending
<1>20. CASE Interrupt
  BY <1>20 DEF Interrupt, TruthInv, Closing, Claim, StopClaim
<1>21. CASE Synthesize
  BY <1>21 DEF Synthesize, TruthInv, Closing, Claim, StopClaim
<1>22. CASE Screen
  BY <1>22 DEF Screen, TruthInv, Closing, Claim, StopClaim
<1>23. CASE Withhold
  BY <1>23 DEF Withhold, TruthInv, Closing, Claim, StopClaim
<1>24. CASE ComplianceFails
  BY <1>24 DEF ComplianceFails, TruthInv, Closing, Claim, StopClaim
<1>25. CASE PressStop
  BY <1>25 DEF PressStop, Active, TruthInv, Closing, Claim, StopClaim
<1>26. CASE DeadlinePasses
  BY <1>26 DEF DeadlinePasses, Active, TruthInv, Closing, Claim, StopClaim
<1>27. CASE Crash
  BY <1>27 DEF Crash, SendTo, Active, TruthInv, Closing, Claim, StopClaim
<1>28. ASSUME NEW d \in Domains, ModelRound(d) PROVE TruthInv'
  BY <1>28 DEF ModelRound, Working, TruthInv, Closing, Claim, StopClaim
<1>29. ASSUME NEW d \in Domains, Finish(d) PROVE TruthInv'
  BY <1>29 DEF Finish, Working, Write, TruthInv, Closing, Claim, StopClaim
<1>30. ASSUME NEW d \in Domains, CooperativeStop(d) PROVE TruthInv'
  BY <1>30 DEF CooperativeStop, Working, Write, TruthInv, Closing, Claim, StopClaim
<1>31. ASSUME NEW d \in Domains, ExpertFails(d) PROVE TruthInv'
  BY <1>31 DEF ExpertFails, Working, Write, TruthInv, Closing, Claim, StopClaim
<1>. QED BY <1>1, <1>2, <1>3, <1>4, <1>5, <1>6, <1>7, <1>8, <1>9, <1>10, <1>11, <1>12,
   <1>13, <1>14, <1>15, <1>16, <1>17, <1>18, <1>19, <1>20, <1>21, <1>22, <1>23, <1>24,
   <1>25, <1>26, <1>27, <1>28, <1>29, <1>30, <1>31 DEF Next, GraphStep, Expert

\* Only Screen, Withhold and ComplianceFails reach the end.
LEMMA ScreenedKept ==
  ASSUME TypeOK, EveryReplyIsScreened, Next
  PROVE  EveryReplyIsScreened'
<1>1. CASE Begin
  BY <1>1 DEF Begin, Start, EveryReplyIsScreened
<1>2. CASE Answer
  BY <1>2 DEF Answer, Rerun, SendTo, EveryReplyIsScreened
<1>3. CASE AnswerNothing
  BY <1>3 DEF AnswerNothing, EveryReplyIsScreened
<1>4. CASE Decline
  BY <1>4 DEF Decline, CloseQuestion, EveryReplyIsScreened
<1>5. CASE Abandon
  BY <1>5 DEF Abandon, CloseQuestion, EveryReplyIsScreened
<1>6. CASE AbandonFails
  BY <1>6 DEF AbandonFails, Start, EveryReplyIsScreened
<1>7. CASE Classify
  BY <1>7 DEF Classify, Forget, Routes, EveryReplyIsScreened
<1>8. CASE ClassifyFails
  BY <1>8 DEF ClassifyFails, EveryReplyIsScreened
<1>9. CASE Conversation
  BY <1>9 DEF Conversation, EveryReplyIsScreened
<1>10. CASE ConversationFails
  BY <1>10 DEF ConversationFails, Degrade, EveryReplyIsScreened
<1>11. CASE Clarify
  BY <1>11 DEF Clarify, EveryReplyIsScreened
<1>12. CASE Supervise
  BY <1>12 DEF Supervise, EveryReplyIsScreened
<1>13. CASE Decide
  BY <1>13 DEF Decide, SendTo, EveryReplyIsScreened
<1>14. CASE DecideFails
  BY <1>14 DEF DecideFails, Degrade, EveryReplyIsScreened
<1>15. CASE Scope
  BY <1>15 DEF Scope, SendTo, EveryReplyIsScreened
<1>16. CASE Gather
  BY <1>16 DEF Gather, SendTo, EveryReplyIsScreened
<1>17. CASE Conclude
  BY <1>17 DEF Conclude, Converged, EveryReplyIsScreened
<1>18. CASE PlanQuestion
  BY <1>18 DEF PlanQuestion, Converged, MayAsk, EveryReplyIsScreened
<1>19. CASE GiveUpAsking
  BY <1>19 DEF GiveUpAsking, Converged, MayAsk, EveryReplyIsScreened
<1>20. CASE Interrupt
  BY <1>20 DEF Interrupt, EveryReplyIsScreened
<1>21. CASE Synthesize
  BY <1>21 DEF Synthesize, EveryReplyIsScreened
<1>22. CASE Screen
  BY <1>22 DEF Screen, EveryReplyIsScreened
<1>23. CASE Withhold
  BY <1>23 DEF Withhold, EveryReplyIsScreened
<1>24. CASE ComplianceFails
  BY <1>24 DEF ComplianceFails, EveryReplyIsScreened
<1>25. CASE PressStop
  BY <1>25 DEF PressStop, Active, EveryReplyIsScreened
<1>26. CASE DeadlinePasses
  BY <1>26 DEF DeadlinePasses, Active, EveryReplyIsScreened
<1>27. CASE Crash
  BY <1>27 DEF Crash, SendTo, Active, EveryReplyIsScreened
<1>28. ASSUME NEW d \in Domains, ModelRound(d) PROVE EveryReplyIsScreened'
  BY <1>28 DEF ModelRound, Working, EveryReplyIsScreened
<1>29. ASSUME NEW d \in Domains, Finish(d) PROVE EveryReplyIsScreened'
  BY <1>29 DEF Finish, Working, Write, EveryReplyIsScreened
<1>30. ASSUME NEW d \in Domains, CooperativeStop(d) PROVE EveryReplyIsScreened'
  BY <1>30 DEF CooperativeStop, Working, Write, EveryReplyIsScreened
<1>31. ASSUME NEW d \in Domains, ExpertFails(d) PROVE EveryReplyIsScreened'
  BY <1>31 DEF ExpertFails, Working, Write, EveryReplyIsScreened
<1>. QED BY <1>1, <1>2, <1>3, <1>4, <1>5, <1>6, <1>7, <1>8, <1>9, <1>10, <1>11, <1>12,
   <1>13, <1>14, <1>15, <1>16, <1>17, <1>18, <1>19, <1>20, <1>21, <1>22, <1>23, <1>24,
   <1>25, <1>26, <1>27, <1>28, <1>29, <1>30, <1>31 DEF Next, GraphStep, Expert

\* The inductive invariant holds initially.
LEMMA InitIInv == Init => IInv
<1>. SUFFICES ASSUME Init PROVE IInv
  OBVIOUS
<1>1. run \in Runs
  BY FreshType DEF Init
<1>2. 0 \in 0..Steps /\ 0 \in 0..MaxTurns /\ 0 \in 0..ClarifyLimit
  BY RootGraphAssumption
<1>3. /\ results \in [Domains -> Outcome \cup {NoOutcome}]
      /\ writes \in [Domains -> Outcome \cup {NoOutcome}]
      /\ rounds \in [Domains -> 0..Steps]
  BY <1>2 DEF Init, Nothing
<1>4. TypeOK
  BY <1>1, <1>2, <1>3 DEF Init, TypeOK
<1>5. AskInv
  BY DEF Init, AskInv, Asking, Fresh
<1>6. HaltInv /\ FreshInv /\ CoverInv /\ TruthInv /\ EveryReplyIsScreened
  BY DEF Init, HaltInv, FreshInv, CoverInv, TruthInv, EveryReplyIsScreened,
         Open, Before, Asking, Closing
<1>. QED BY <1>4, <1>5, <1>6 DEF IInv

\* Every step keeps it.
LEMMA NextIInv == IInv /\ [Next]_vars => IInv'
<1>1. ASSUME IInv, Next PROVE IInv'
  BY <1>1, TypeKept, AskKept, HaltKept, FreshKept, CoverKept, TruthKept, ScreenedKept
     DEF IInv
<1>2. ASSUME IInv, UNCHANGED vars PROVE IInv'
  BY <1>2 DEF vars, host, work, IInv, TypeOK, AskInv, HaltInv, FreshInv, CoverInv, TruthInv,
     EveryReplyIsScreened, Claim, StopClaim, HaltKnown, Halt, Present
<1>. QED BY <1>1, <1>2

\* The inductive invariant holds in every reachable state.
THEOREM Invariant == Spec => []IInv
<1>. QED BY InitIInv, NextIInv, PTL DEF Spec

\* Every variable keeps its type, whatever the number of domains and the
\* budgets: the run that classify, converge, compliance and the error
\* handlers write is always a well-formed RunState.
THEOREM TypeCorrect == Spec => []TypeOK
<1>1. IInv => TypeOK
  BY DEF IInv
<1>. QED BY <1>1, Invariant, PTL

\* No reply leaves the graph without having been through compliance, whichever
\* node or error handler ended the turn.
THEOREM RepliesAreScreened == Spec => []EveryReplyIsScreened
<1>1. IInv => EveryReplyIsScreened
  BY DEF IInv
<1>. QED BY <1>1, Invariant, PTL

\* run_status (reduce_run_status, and project_supervisor_state where it is
\* empty) calls a turn completed only if every domain sent succeeded and
\* nothing degraded it, and cancelled if a stop was noticed.
THEOREM StatusIsHonest == Spec => []HonestStatus
<1>1. IInv => HonestStatus
  <2>1. ASSUME IInv, pc = "end" PROVE Claim /\ StopClaim
    BY <2>1 DEF IInv, TruthInv, Closing
  <2>2. IInv => CompletedIsTrue
    BY <2>1 DEF CompletedIsTrue, Claim, Reported
  <2>3. IInv => StopIsReported
    BY <2>1 DEF StopIsReported, StopClaim
  <2>. QED BY <2>2, <2>3 DEF HonestStatus
<1>. QED BY <1>1, Invariant, PTL

\* A turn interrupts for the user at most clarify_rounds times, and never once
\* converge has noted a halt.
THEOREM AsksBounded == Spec => []AsksAreBounded
<1>1. IInv => AsksAreBounded
  BY DEF IInv, AskInv, TypeOK, AsksAreBounded, Asking
<1>. QED BY <1>1, Invariant, PTL

\* converge and synthesize only read outcomes of the turn under way, from
\* domains the turn was sent to.
THEOREM OutcomesAreFresh == Spec => []FreshOutcomes
<1>1. IInv => FreshOutcomes
  BY DEF IInv, FreshInv, FreshOutcomes, Asking
<1>. QED BY <1>1, Invariant, PTL

\* When an answer re-runs domains (Rerun), the outcomes of the others are kept:
\* within a turn only an outcome that asked for input is ever replaced.
THEOREM ConcludedStay == Spec => ConcludedDomainsStay
<1>. DEFINE Stay == \A d \in Domains :
                       results[d].status \notin {"none", "needs_input"} /\ pc # "classify"
                           => results'[d] = results[d]
<1>1. ASSUME IInv, Next PROVE Stay
  <2>1. CASE Gather
    <3>1. \A d \in sent : results[d].status \in {"none", "needs_input"}
      BY <1>1, <2>1 DEF IInv, FreshInv, Gather
    <3>. QED BY <2>1, <3>1 DEF Gather
  <2>2. CASE Classify
    BY <2>2 DEF Classify
  <2>3. ASSUME ~Gather, ~Classify PROVE results' = results
    BY <1>1, <2>3 DEF Next, GraphStep, Expert, Begin, Start, Answer, AnswerNothing, Decline,
       Abandon, AbandonFails, ClassifyFails, Conversation, ConversationFails, Clarify, Supervise,
       Decide, DecideFails, Scope, Conclude, PlanQuestion, GiveUpAsking, Interrupt, Synthesize,
       Screen, Withhold, ComplianceFails, PressStop, DeadlinePasses, Crash, ModelRound, Finish,
       CooperativeStop, ExpertFails, Write
  <2>. QED BY <2>1, <2>2, <2>3
<1>2. ASSUME UNCHANGED vars PROVE Stay
  BY <1>2 DEF vars
<1>3. IInv /\ [Next]_vars => [Stay]_vars
  BY <1>1, <1>2
<1>. QED BY <1>3, Invariant, PTL DEF Spec, ConcludedDomainsStay
---------------------------------------------------------------------------
(* The work a turn has left.  Liveness itself is for the runs; what is     *)
(* proved here is that a turn has no endless path: the number below falls  *)
(* with every step of a turn, so a turn in which somebody always takes the *)
(* next step ends, whatever the models answer.                             *)

\* The nodes in the order a turn goes through them between two questions; an
\* answer re-enters after "suspended".
Stage == CASE pc = "classify" -> 8
           [] pc \in {"conversation", "clarify", "supervisor", "scope"} -> 7
           [] pc = "decide" -> 6
           [] pc = "suspended" -> 5
           [] pc = "workers" -> 4
           [] pc = "converge" -> 3
           [] pc \in {"asking", "synthesize"} -> 2
           [] pc = "compliance" -> 1
           [] OTHER -> 0

\* The questions still allowed, then the nodes ahead.
Height == 9 * (ClarifyLimit - asks) + Stage

\* One pair for every model round an expert under way may still take, and one
\* for its outcome.
Owed == {p \in Domains \X (0..Steps) :
            p[1] \in sent /\ writes[p[1]] = NoOutcome /\ rounds[p[1]] <= p[2]}

\* What may still happen without leaving the node: the experts' steps, the
\* press of the stop button, the deadline.
AtNode == Cardinality(Owed) + (IF stopped THEN 0 ELSE 1) + (IF late THEN 0 ELSE 1)
AtNodeLimit == NDomains * (Steps + 1) + 2

Effort == Height * (AtNodeLimit + 1) + AtNode
EffortLimit == (9 * ClarifyLimit + 9) * (AtNodeLimit + 1)

\* The pairs an expert can owe are as many as domains times rounds.
LEMMA OwedFinite ==
  ASSUME NEW S \in SUBSET (Domains \X (0..Steps))
  PROVE  /\ IsFiniteSet(S) /\ Cardinality(S) \in 0..(NDomains * (Steps + 1))
<1>1. NDomains \in Nat /\ Steps \in Nat /\ NDomains \in Int /\ Steps \in Int
  BY RootGraphAssumption
<1>2. IsFiniteSet(1..NDomains) /\ Cardinality(1..NDomains) = NDomains
  BY <1>1, FS_Interval
<1>3. IsFiniteSet(0..Steps) /\ Cardinality(0..Steps) = Steps + 1
  BY <1>1, FS_Interval
<1>4. /\ IsFiniteSet(Domains \X (0..Steps))
      /\ Cardinality(Domains \X (0..Steps)) = NDomains * (Steps + 1)
  BY <1>2, <1>3, FS_Product DEF Domains
<1>5. IsFiniteSet(S) /\ Cardinality(S) <= NDomains * (Steps + 1)
  BY <1>4, FS_Subset
<1>6. Cardinality(S) \in Nat /\ NDomains * (Steps + 1) \in Nat
  BY <1>1, <1>4, <1>5, FS_CardinalityType
<1>. QED BY <1>5, <1>6

\* An expert that loses a pair it owed owes less.
LEMMA OwedShrinks ==
  ASSUME Owed' \subseteq Owed, NEW p \in Owed, p \notin Owed'
  PROVE  Cardinality(Owed') < Cardinality(Owed)
<1>. DEFINE S == Owed
            R == Owed'
<1>1. S \in SUBSET (Domains \X (0..Steps))
  BY DEF Owed
<1>2. IsFiniteSet(S) /\ Cardinality(S) \in Nat
  BY <1>1, OwedFinite
<1>3. R \in SUBSET S /\ R # S
  OBVIOUS
<1>. HIDE DEF S, R
<1>4. IsFiniteSet(R) /\ Cardinality(R) <= Cardinality(S) /\ Cardinality(S) # Cardinality(R)
  BY <1>2, <1>3, FS_Subset
<1>5. Cardinality(R) < Cardinality(S)
  BY <1>2, <1>4, FS_CardinalityType
<1>. QED BY <1>5 DEF R, S

\* Each part of the effort is bounded, before a step and after it.
LEMMA AtNodeType == AtNode \in 0..AtNodeLimit /\ AtNode' \in 0..AtNodeLimit
<1>1. NDomains * (Steps + 1) \in Nat
  BY RootGraphAssumption
<1>2. Cardinality(Owed) \in 0..(NDomains * (Steps + 1))
  <2>1. Owed \in SUBSET (Domains \X (0..Steps))
    BY DEF Owed
  <2>. QED BY <2>1, OwedFinite
<1>3. Cardinality(Owed') \in 0..(NDomains * (Steps + 1))
  <2>1. Owed' \in SUBSET (Domains \X (0..Steps))
    BY DEF Owed
  <2>. QED BY <2>1, OwedFinite
<1>. QED BY <1>1, <1>2, <1>3 DEF AtNode, AtNodeLimit

LEMMA HeightType ==
  /\ TypeOK => Height \in 0..(9 * ClarifyLimit + 8)
  /\ TypeOK' => Height' \in 0..(9 * ClarifyLimit + 8)
<1>1. Stage \in 0..8
  BY DEF Stage
<1>2. Stage' \in 0..8
  BY DEF Stage
<1>3. TypeOK => asks \in 0..ClarifyLimit
  BY DEF TypeOK
<1>4. TypeOK' => asks' \in 0..ClarifyLimit
  BY DEF TypeOK
<1>. QED BY <1>1, <1>2, <1>3, <1>4, RootGraphAssumption DEF Height

\* The node counts more than all that can happen at it.
LEMMA HeightCounts ==
  ASSUME NEW h \in Nat, NEW g \in Nat, h < g, NEW limit \in Nat,
         NEW a \in 0..limit, NEW b \in 0..limit
  PROVE  h * (limit + 1) + a < g * (limit + 1) + b
<1>1. g * (limit + 1) = (h + 1) * (limit + 1) + (g - h - 1) * (limit + 1)
  OBVIOUS
<1>2. (g - h - 1) \in Nat /\ (g - h - 1) * (limit + 1) >= 0
  OBVIOUS
<1>3. (h + 1) * (limit + 1) = h * (limit + 1) + limit + 1
  OBVIOUS
<1>4. h * (limit + 1) \in Int /\ g * (limit + 1) \in Int
  OBVIOUS
<1>5. g * (limit + 1) >= h * (limit + 1) + limit + 1
  <2>. DEFINE x == h * (limit + 1)
              y == (g - h - 1) * (limit + 1)
              z == g * (limit + 1)
              w == (h + 1) * (limit + 1)
  <2>1. z = w + y /\ y >= 0 /\ w = x + limit + 1 /\ x \in Int /\ y \in Int /\ w \in Int
    BY <1>1, <1>2, <1>3
  <2>. HIDE DEF x, y, z, w
  <2>2. z >= x + limit + 1
    BY <2>1
  <2>. QED BY <2>2 DEF x, z
<1>. DEFINE x == h * (limit + 1)
            z == g * (limit + 1)
<1>6. x \in Int /\ z \in Int /\ z >= x + limit + 1
  BY <1>4, <1>5
<1>. HIDE DEF x, z
<1>7. x + a < z + b
  BY <1>6
<1>. QED BY <1>7 DEF x, z

\* A step that leads to a later node, or does one thing less at its node,
\* lowers the effort.
LEMMA EffortFalls ==
  ASSUME TypeOK, TypeOK',
         Height' < Height \/ (Height' = Height /\ AtNode' < AtNode)
  PROVE  Effort' < Effort
<1>1. AtNodeLimit \in Nat /\ AtNodeLimit' = AtNodeLimit
  <2>1. NDomains * (Steps + 1) \in Nat
    BY RootGraphAssumption
  <2>. QED BY <2>1 DEF AtNodeLimit
<1>2. AtNode \in 0..AtNodeLimit /\ AtNode' \in 0..AtNodeLimit
  BY AtNodeType
<1>3. Height \in Nat /\ Height' \in Nat
  BY HeightType, RootGraphAssumption
<1>4. /\ Effort = Height * (AtNodeLimit + 1) + AtNode
      /\ Effort' = Height' * (AtNodeLimit + 1) + AtNode'
  BY <1>1 DEF Effort
<1>5. CASE Height' < Height
  BY <1>1, <1>2, <1>3, <1>4, <1>5, HeightCounts
<1>6. CASE Height' = Height /\ AtNode' < AtNode
  <2>1. \A x, y \in Int, z \in Int : x < y => z + x < z + y
    OBVIOUS
  <2>2. /\ AtNode \in Int /\ AtNode' \in Int /\ AtNode' < AtNode
        /\ Height * (AtNodeLimit + 1) \in Int
    BY <1>1, <1>2, <1>3, <1>6
  <2>. QED BY <1>4, <1>6, <2>1, <2>2, Zenon
<1>. QED BY <1>5, <1>6

\* Every step but those of the experts, the stop button and the clock leads to
\* a later node of the turn, or to the next turn.
LEMMA NodeLeft ==
  ASSUME IInv, Next, ~PressStop, ~DeadlinePasses, \A d \in Domains : ~Expert(d)
  PROVE  turn' > turn \/ Height' < Height
<1>. USE RootGraphAssumption DEF IInv, TypeOK, Height, Stage
<1>1. CASE Begin \/ AbandonFails
  BY <1>1 DEF Begin, AbandonFails, Start
<1>2. CASE Answer \/ AnswerNothing \/ Decline \/ Abandon
  BY <1>2 DEF Answer, AnswerNothing, Decline, Abandon
<1>3. CASE Classify
  <2>1. PICK r \in Routes : pc' = r.node
    BY <1>3 DEF Classify
  <2>2. pc' \in {"conversation", "clarify", "supervisor", "scope"}
    BY <2>1, RouteFacts
  <2>. QED BY <1>3, <2>2 DEF Classify
<1>4. CASE ClassifyFails \/ Conversation \/ ConversationFails \/ Clarify
  BY <1>4 DEF ClassifyFails, Conversation, ConversationFails, Degrade, Clarify
<1>5. CASE Supervise \/ DecideFails
  BY <1>5 DEF Supervise, DecideFails, Degrade
<1>6. CASE Decide
  <2>1. pc = "decide" /\ pc' \in {"converge", "workers"} /\ asks' = asks
    BY <1>6 DEF Decide
  <2>. QED BY <2>1
<1>7. CASE Scope
  <2>1. pc = "scope" /\ pc' \in {"converge", "workers"} /\ asks' = asks
    BY <1>7 DEF Scope
  <2>. QED BY <2>1
<1>8. CASE Gather \/ Conclude \/ PlanQuestion \/ GiveUpAsking
  <2>1. pc \in {"workers", "converge"} /\ asks' = asks
    BY <1>8 DEF Gather, Conclude, PlanQuestion, GiveUpAsking
  <2>2. pc = "workers" => pc' = "converge"
    BY <1>8 DEF Gather, Conclude, PlanQuestion, GiveUpAsking
  <2>3. pc = "converge" => pc' \in {"synthesize", "compliance", "asking"}
    BY <1>8 DEF Gather, Conclude, PlanQuestion, GiveUpAsking
  <2>. QED BY <2>1, <2>2, <2>3
<1>9. CASE Interrupt
  <2>1. asks < ClarifyLimit
    BY <1>9 DEF Interrupt, AskInv, Runs
  <2>. QED BY <1>9, <2>1 DEF Interrupt
<1>10. CASE Synthesize \/ Screen \/ Withhold \/ ComplianceFails
  BY <1>10 DEF Synthesize, Screen, Withhold, ComplianceFails
<1>11. CASE Crash
  BY <1>11 DEF Crash, Active
<1>. QED BY <1>1, <1>2, <1>3, <1>4, <1>5, <1>6, <1>7, <1>8, <1>9, <1>10, <1>11
   DEF Next, GraphStep

\* An expert's model round uses up one of those it had left, and an outcome
\* leaves it nothing to do.
LEMMA ExpertOwesLess ==
  ASSUME TypeOK, NEW d \in Domains, Expert(d)
  PROVE  Height' = Height /\ AtNode' < AtNode
<1>1. pc' = pc /\ asks' = asks /\ stopped' = stopped /\ late' = late /\ sent' = sent
  BY DEF Expert, ModelRound, Finish, CooperativeStop, ExpertFails, Write
<1>2. d \in sent /\ writes[d] = NoOutcome /\ rounds[d] \in 0..Steps
  BY DEF Expert, ModelRound, Finish, CooperativeStop, ExpertFails, Working, TypeOK
<1>5. /\ Height' = Height /\ Cardinality(Owed) \in Int /\ Cardinality(Owed') \in Int
      /\ AtNode - Cardinality(Owed) = AtNode' - Cardinality(Owed')
  <2>1. Owed \in SUBSET (Domains \X (0..Steps)) /\ Owed' \in SUBSET (Domains \X (0..Steps))
    BY DEF Owed
  <2>2. Cardinality(Owed) \in Int /\ Cardinality(Owed') \in Int
    BY <2>1, OwedFinite
  <2>. QED BY <1>1, <2>2 DEF Height, Stage, AtNode
<1>3. CASE ModelRound(d)
  <2>1. rounds[d] < Steps /\ rounds' = [rounds EXCEPT ![d] = (@ % Steps) + 1] /\ writes' = writes
    BY <1>3 DEF ModelRound, RoundLeft
  <2>2. rounds'[d] = rounds[d] + 1
    BY <1>2, <2>1, RootGraphAssumption DEF TypeOK
  <2>3. \A e \in Domains : e # d => rounds'[e] = rounds[e]
    BY <2>1 DEF TypeOK
  <2>4. <<d, rounds[d]>> \in Owed /\ <<d, rounds[d]>> \notin Owed'
    BY <1>1, <1>2, <2>1, <2>2, RootGraphAssumption DEF Owed
  <2>5. Owed' \subseteq Owed
    BY <1>1, <1>2, <2>1, <2>2, <2>3, RootGraphAssumption DEF Owed, TypeOK
  <2>. QED BY <1>1, <1>5, <2>4, <2>5, OwedShrinks DEF AtNode
<1>4. CASE ~ModelRound(d)
  <2>1. PICK status \in Statuses : \E halt : Write(d, status, halt)
    BY <1>4 DEF Expert, Finish, CooperativeStop, ExpertFails, Statuses
  <2>2. PICK outcome : outcome # NoOutcome /\ writes' = [writes EXCEPT ![d] = outcome]
    BY <2>1 DEF Write, NoOutcome, Statuses
  <2>3. rounds' = rounds
    BY <2>1 DEF Write
  <2>4. writes'[d] # NoOutcome /\ \A e \in Domains : e # d => writes'[e] = writes[e]
    BY <2>2 DEF TypeOK
  <2>5. <<d, Steps>> \in Owed /\ <<d, Steps>> \notin Owed'
    BY <1>1, <1>2, <2>3, <2>4, RootGraphAssumption DEF Owed
  <2>6. Owed' \subseteq Owed
    BY <1>1, <1>2, <2>3, <2>4 DEF Owed
  <2>. QED BY <1>5, <2>5, <2>6, OwedShrinks DEF AtNode
<1>. QED BY <1>3, <1>4

\* The stop button and the clock act once at a node.
LEMMA SurroundingsActOnce ==
  ASSUME TypeOK, PressStop \/ DeadlinePasses
  PROVE  Height' = Height /\ AtNode' < AtNode
<1>1. Owed' = Owed /\ Height' = Height
  BY DEF PressStop, DeadlinePasses, Owed, Height, Stage, work
<1>2. Cardinality(Owed) \in Int
  <2>1. Owed \in SUBSET (Domains \X (0..Steps))
    BY DEF Owed
  <2>. QED BY <2>1, OwedFinite
<1>3. CASE PressStop
  BY <1>1, <1>2, <1>3 DEF PressStop, AtNode
<1>4. CASE DeadlinePasses
  BY <1>1, <1>2, <1>4 DEF DeadlinePasses, AtNode
<1>. QED BY <1>1, <1>3, <1>4

\* No turn goes on for ever: every step of a turn - a node, an expert's model
\* round, a question, the user's answer, a stop, the deadline, a crash - lowers
\* a natural number that the budgets bound (clarify_rounds, react_steps, the
\* number of domains).  Only a step that begins the next turn raises it.
THEOREM TurnsWindDown ==
  Spec => /\ [](Effort \in 0..EffortLimit)
          /\ [][turn' > turn \/ Effort' < Effort]_vars
<1>1. IInv => Effort \in 0..EffortLimit
  <2>. SUFFICES ASSUME IInv PROVE Effort \in 0..EffortLimit
    OBVIOUS
  <2>1. AtNodeLimit \in Nat
    <3>1. NDomains * (Steps + 1) \in Nat
      BY RootGraphAssumption
    <3>. QED BY <3>1 DEF AtNodeLimit
  <2>2. Height \in Nat /\ Height < 9 * ClarifyLimit + 9 /\ 9 * ClarifyLimit + 9 \in Nat
    BY HeightType, RootGraphAssumption DEF IInv
  <2>3. AtNode \in 0..AtNodeLimit /\ 0 \in 0..AtNodeLimit
    BY <2>1, AtNodeType
  <2>4. Height * (AtNodeLimit + 1) + AtNode
            < (9 * ClarifyLimit + 9) * (AtNodeLimit + 1) + 0
    BY <2>1, <2>2, <2>3, HeightCounts
  <2>. DEFINE x == Height * (AtNodeLimit + 1)
              z == (9 * ClarifyLimit + 9) * (AtNodeLimit + 1)
  <2>5. x \in Nat /\ z \in Nat
    BY <2>1, <2>2
  <2>6. Effort = x + AtNode /\ EffortLimit = z /\ x + AtNode < z + 0
    BY <2>4 DEF Effort, EffortLimit
  <2>7. AtNode \in Nat
    BY <2>1, <2>3
  <2>. HIDE DEF x, z
  <2>. QED BY <2>5, <2>6, <2>7
<1>2. ASSUME IInv, IInv', Next PROVE turn' > turn \/ Effort' < Effort
  <2>1. CASE PressStop \/ DeadlinePasses
    BY <1>2, <2>1, SurroundingsActOnce, EffortFalls DEF IInv
  <2>2. CASE \E d \in Domains : Expert(d)
    BY <1>2, <2>2, ExpertOwesLess, EffortFalls DEF IInv
  <2>3. CASE ~PressStop /\ ~DeadlinePasses /\ \A d \in Domains : ~Expert(d)
    <3>1. turn' > turn \/ Height' < Height
      BY <1>2, <2>3, NodeLeft
    <3>. QED BY <1>2, <3>1, EffortFalls DEF IInv
  <2>. QED BY <2>1, <2>2, <2>3
<1>3. IInv /\ IInv' /\ [Next]_vars => [turn' > turn \/ Effort' < Effort]_vars
  BY <1>2
<1>. QED BY <1>1, <1>3, Invariant, PTL DEF Spec

=============================================================================
