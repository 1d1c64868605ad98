--------------------------- MODULE Reviews_proofs ---------------------------
(***************************************************************************)
(* Theorems about the parts that MCReviews instantiates.  A behaviour is   *)
(* of one subject, whose module takes every step that changes anything     *)
(* (StepOfSubject); so an invariant of the module, carried over, is one of *)
(* the suite.  Market, Profile and Accounts have their lemmas in proof     *)
(* modules of their own; the others are proved about here.                 *)
(***************************************************************************)
EXTENDS MCReviews, FiniteSetTheorems, SequenceTheorems, WellFoundedInduction, TLAPS

-----------------------------------------------------------------------------
(* A step of the suite is a step of its subject.                           *)

LEMMA StepOfSubject ==
  ASSUME [Next]_vars
  PROVE  /\ subject' = subject
         /\ subject = "flat" => [Flat!Next]_(Flat!vars)
         /\ subject = "allocation" => [Review]_reviewVars
         /\ subject = "exit" => [Exit!Next]_(Exit!vars)
         /\ subject = "research" => [Kernel!Next]_(Kernel!vars)
         /\ subject = "market" => [Market!Next]_(Market!marketVars)
         /\ subject = "boards" => [Boards!Next]_(Boards!boardVars)
         /\ subject = "shelf" => [Shelf!Next]_(Shelf!shelfVars)
         /\ subject = "profile" => [Profile!Next]_(Profile!profileVars)
         /\ subject = "experts" => [Experts!Next]_(Experts!expertVars)
         /\ subject = "accounts" => [Accounts!Next]_(Accounts!accountVars)
<1>1. CASE Next
  BY <1>1 DEF Next, FlatStep, ReviewStep, ExitStep, ResearchStep, MarketStep, BoardsStep,
     ShelfStep, ProfileStep, ExpertsStep, AccountsStep
<1>2. CASE UNCHANGED vars
  BY <1>2 DEF vars, flatVars, reviewVars, exitVars, researchVars, marketVars, boardVars,
     shelfVars, profileVars, expertVars, accountVars,
     Flat!vars, Flat!quote, Exit!vars, Exit!inputs, Kernel!vars, Market!marketVars,
     Boards!boardVars, Shelf!shelfVars, Profile!profileVars, Experts!expertVars,
     Accounts!accountVars
<1>. QED BY <1>1, <1>2

-----------------------------------------------------------------------------
(* Market, Profile and Accounts: the invariants of their proof modules.    *)

\* A payload names the source that answered, and says when a better one failed
\* (infrastructure/market_data/provider_manager.py): the suite's form of PayloadsAreHonest.
THEOREM SuitePayloadsAreHonest == Spec => []HonestPayloads
<1> DEFINE J == subject = "market" => Market!IInv
<1>1. Init => J
  BY Market!InitHonest DEF Init
<1>2. J /\ [Next]_vars => J'
  BY StepOfSubject, Market!NextHonest
<1>3. J => HonestPayloads
  BY Market!InvIsHonest DEF HonestPayloads
<1>. QED BY <1>1, <1>2, <1>3, PTL DEF Spec

\* A breaker opens on Threshold errors in a row only (provider_manager.py).
THEOREM SuiteBreakersOpenOnFailures ==
  Spec => []OpensOnFailuresOnly
<1>0. Threshold \in Nat
  BY ThresholdAssumption
<1>. USE <1>0
<1> DEFINE J == subject = "market" => Market!BreakerInv
<1>1. Init => J
  BY DEF Init, Market!Init, Market!BreakerInv, Market!OpensOnFailuresOnly
<1>2. J /\ [Next]_vars => J'
  BY StepOfSubject, Market!StepBreakers
<1>3. J => OpensOnFailuresOnly
  BY DEF Market!BreakerInv, OpensOnFailuresOnly
<1>. QED BY <1>1, <1>2, <1>3, PTL DEF Spec

\* Nothing stands on the card that the user has not said (orchestration/memory.py).
THEOREM SuiteCardIsStated ==
  Spec => []OnlyStatedFacts
<1>0. Profile!WellFormed(SpokenWords, MeantValues)
  BY MessagesAssumption
<1>. USE <1>0
<1> DEFINE J == subject = "profile" => Profile!IInv
<1>1. Init => J
  BY Profile!InitFounded DEF Init
<1>2. J /\ [Next]_vars => J'
  BY StepOfSubject, Profile!NextFounded
<1>3. J => OnlyStatedFacts
  BY DEF OnlyStatedFacts, Profile!IInv, Profile!Founded, Profile!OnlyStatedFacts
<1>. QED BY <1>1, <1>2, <1>3, PTL DEF Spec

\* A closed account leaves no session, no row and no research behind, and no checkpoint or
\* window but those that were written or left beside its closing.
THEOREM SuiteClosedIsGone ==
  Spec => []ClosingLeavesNothing
<1>0. Accounts!Sizes
  BY AccountsAssumption DEF Accounts!Sizes
<1>. USE <1>0
<1> DEFINE J == subject = "accounts" => Accounts!IInv /\ Accounts!IdsOnly
<1>1. Init => J
  BY Accounts!InitAccounts DEF Init, Accounts!Init, Accounts!IdsOnly
<1>2. J /\ [Next]_vars => J'
  BY StepOfSubject, Accounts!NextKeeps, Accounts!IdsStep
<1>3. J => ClosingLeavesNothing
  BY DEF ClosingLeavesNothing, Accounts!IInv, Accounts!GoneInv, Accounts!KeptInv,
     Accounts!ClosingLeavesNothing
<1>. QED BY <1>1, <1>2, <1>3, PTL DEF Spec

-----------------------------------------------------------------------------
(* Shelf: an append writes what was read under what was sent.              *)

\* The newest rows are a row for each product.
ShelfInv == latest = [c \in ShelfCodes |-> latest[c]]

\* Only an append touches the newest rows; it may leave a product without a NAV
\* only where it was read without one.
LEMMA ShelfStepLosesNav ==
  ASSUME "nav" \in Figures, ShelfInv, [Shelf!Next]_(Shelf!shelfVars)
  PROVE  ShelfInv' /\ Shelf!LosesNavToOverlapOnly
<1>1. ASSUME latest' = latest PROVE ShelfInv' /\ Shelf!LosesNavToOverlapOnly
  BY <1>1 DEF ShelfInv, Shelf!LosesNavToOverlapOnly
<1>2. ASSUME NEW a \in Admins, Shelf!AppendPerformance(a)
      PROVE  ShelfInv' /\ Shelf!LosesNavToOverlapOnly
  <2> DEFINE code == Shelf!Code(a)
             row == Shelf!Merged(Shelf!Request(a), edits[a].seen)
  <2>1. Shelf!At(a, "append") /\ latest' = [latest EXCEPT ![code] = row]
    BY <1>2 DEF Shelf!AppendPerformance
  <2>2. row.figures["nav"] = Null => edits[a].seen.figures["nav"] = Null
    BY DEF Shelf!Merged
  <2>3. ShelfInv'
    BY <2>1 DEF ShelfInv
  <2>4. ASSUME NEW c \in ShelfCodes, latest[c].figures["nav"] # Null, latest'[c].figures["nav"] = Null
        PROVE  code = c /\ edits[a].seen # latest[c]
    <3>. HIDE DEF code, row
    <3>1. code = c
      BY <2>1, <2>4 DEF ShelfInv
    <3>2. latest'[c] = row
      BY <2>1, <3>1 DEF ShelfInv
    <3>. QED BY <2>2, <2>4, <3>1, <3>2
  <2>. QED BY <2>1, <2>3, <2>4 DEF Shelf!LosesNavToOverlapOnly
<1>3. ASSUME NEW a \in Admins, Shelf!Step(a), ~ Shelf!AppendPerformance(a)
      PROVE  latest' = latest
  BY <1>3 DEF Shelf!Step, Shelf!Begin, Shelf!RefuseBlank, Shelf!Save, Shelf!SkipPerformance,
     Shelf!ReadPerformance, Shelf!SwitchUnknown, Shelf!Switch, Shelf!ReadMissing, Shelf!ReadOne,
     Shelf!List, Shelf!ReadProduct, Shelf!ReadNav, Shelf!Shown
<1>4. CASE UNCHANGED Shelf!shelfVars
  BY <1>1, <1>4 DEF Shelf!shelfVars
<1>. QED BY <1>1, <1>2, <1>3, <1>4 DEF Shelf!Next

\* A product that can be priced loses its NAV only to an edit that overlapped another
\* one (admin_service.py:145), for any number of administrators and calls.
THEOREM NavIsLostToOverlapOnly ==
  Spec => NavLostOnlyToOverlap
<1>0. "nav" \in Figures
  BY FiguresAssumption
<1>. USE <1>0
<1> DEFINE J == subject = "shelf" => ShelfInv
<1>1. Init => J
  BY DEF Init, Shelf!Init, ShelfInv
<1>2. J /\ [Next]_vars => J' /\ (subject = "shelf" => Shelf!LosesNavToOverlapOnly)
  BY StepOfSubject, ShelfStepLosesNav
<1>. QED BY <1>1, <1>2, PTL DEF Spec, NavLostOnlyToOverlap

-----------------------------------------------------------------------------
(* Boards: what the tool counts as unavailable is what it could not fetch. *)

BoardKinds == {"concept", "industry"}

IsFetch(f) ==
  /\ f \in [page : {f.page}, host : {f.host}, round : {f.round}, got : {f.got}, total : {f.total},
            left : {f.left}, emptySeen : {f.emptySeen}, emptyTotal : {f.emptyTotal},
            capped : {f.capped}, at : {f.at}, end : {f.end}]
  /\ f.got \in Nat

IsListing(l) ==
  l \in [status : {l.status}, degraded : {l.degraded}, fetched : {l.fetched},
         unavailable : {l.unavailable}]

BoardTable == [kind : BoardKinds, got : Nat, end : {"whole", "failed", "capped", "ended"}]

BoardShape ==
  /\ kinds \in Seq(BoardKinds) /\ IsFetch(fetch)
  /\ tables \in Seq(BoardTable) /\ IsListing(listing)

\* A lost page leaves no rows, neither in the table being fetched nor in one that
\* was; a table without rows counts as unavailable, and the answer says so.
BoardInv ==
  /\ BoardShape
  /\ fetch.at = "table" /\ fetch.end = "failed" => fetch.got = 0
  /\ \A i \in 1..Len(tables) : /\ tables[i].end = "failed" => tables[i].got = 0
                               /\ tables[i].got = 0 => listing.unavailable # {}
  /\ fetch.at # "idle" => kinds # <<>>
  /\ kinds # <<>> => listing.status = "none"
  /\ listing.status = "not_found" /\ ~listing.degraded => listing.unavailable = {}

LEMMA NewFetchIs ==
  ASSUME NEW n
  PROVE  /\ IsFetch(Boards!NewFetch(n))
         /\ Boards!NewFetch(n).at = "asking" /\ Boards!NewFetch(n).end = "none"
         /\ IsFetch(Boards!NoFetch) /\ Boards!NoFetch.at = "idle"
BY DEF Boards!NoFetch, Boards!NewFetch, IsFetch

LEMMA BoardInit == Boards!Init => BoardInv
<1>1. SUFFICES ASSUME Boards!Init PROVE BoardInv
  OBVIOUS
<1>2. kinds \in Seq(BoardKinds)
  <2>1. PICK type \in {"both", "concept", "other"} : kinds = Boards!BoardTypes(type)
    BY <1>1 DEF Boards!Init
  <2>2. kinds \in {<<"concept", "industry">>, <<"concept">>, <<>>}
    BY <2>1 DEF Boards!BoardTypes, Boards!Kinds
  <2>3. {<<"concept", "industry">>, <<"concept">>, <<>>} \subseteq Seq(BoardKinds)
    BY DEF BoardKinds
  <2>. QED BY <2>2, <2>3
<1>3. IsFetch(fetch) /\ fetch.at = "idle"
  BY <1>1, NewFetchIs DEF Boards!Init
<1>4. IsListing(listing) /\ (kinds # <<>> => listing.status = "none") /\ listing.status # "not_found"
  BY <1>1 DEF Boards!Init, Boards!NoListing, IsListing
<1>5. tables = <<>>
  BY <1>1 DEF Boards!Init
<1>. QED BY <1>2, <1>3, <1>4, <1>5 DEF BoardInv, BoardShape

\* The steps that fetch leave the tables and the answer alone.
LEMMA FetchingKeeps ==
  ASSUME BoardInv, IsFetch(fetch'), UNCHANGED <<kinds, tables, listing>>, kinds # <<>>,
         fetch'.at = "table" /\ fetch'.end = "failed" => fetch'.got = 0
  PROVE  BoardInv'
BY DEF BoardInv, BoardShape

LEMMA NextHostIs ==
  ASSUME NEW f, IsFetch(f)
  PROVE  IsFetch(Boards!NextHost(f)) /\ Boards!NextHost(f).at = f.at
<1>1. CASE f.host < Len(Hosts)
  <2>1. PICK g : g = [f EXCEPT !.host = @ + 1]
    OBVIOUS
  <2>2. IsFetch(g) /\ g.at = f.at
    BY <2>1 DEF IsFetch
  <2>. QED BY <1>1, <2>1, <2>2 DEF Boards!NextHost
<1>2. CASE ~ (f.host < Len(Hosts))
  <2>1. PICK g : g = [f EXCEPT !.host = 1, !.round = @ + 1]
    OBVIOUS
  <2>2. IsFetch(g) /\ g.at = f.at
    BY <2>1 DEF IsFetch
  <2>. QED BY <1>2, <2>1, <2>2 DEF Boards!NextHost
<1>. QED BY <1>1, <1>2

LEMMA AskHostIs ==
  ASSUME IsFetch(fetch), Boards!AskHost
  PROVE  IsFetch(fetch') /\ fetch'.at \in {"asking", "page"}
<1>1. PICK answer \in {"rows", "empty", "fails", "malformed"}, total \in 0 .. MaxTotal :
           LET asked == [fetch EXCEPT !.left = @ - 1]
           IN fetch' =
                CASE answer = "rows" -> [asked EXCEPT !.at = "page", !.end = "rows",
                                                      !.emptyTotal = total]
                  [] answer = "empty" /\ ~fetch.emptySeen ->
                       Boards!NextHost([asked EXCEPT !.emptySeen = TRUE, !.emptyTotal = total])
                  [] OTHER -> Boards!NextHost(asked)
  BY DEF Boards!AskHost
<1> DEFINE left == [fetch EXCEPT !.left = @ - 1]
           rows(f) == [f EXCEPT !.at = "page", !.end = "rows", !.emptyTotal = total]
           empty(f) == [f EXCEPT !.emptySeen = TRUE, !.emptyTotal = total]
<1>2. PICK asked : asked = left
  OBVIOUS
<1>3. \/ fetch' = rows(asked)
      \/ fetch' = Boards!NextHost(empty(asked))
      \/ fetch' = Boards!NextHost(asked)
  <2>1. /\ answer = "rows" => fetch' = rows(asked)
        /\ answer # "rows" => \/ fetch' = Boards!NextHost(empty(asked))
                              \/ fetch' = Boards!NextHost(asked)
    BY <1>1, <1>2
  <2>. QED BY <2>1
<1>4. IsFetch(asked) /\ asked.at = "asking"
  BY <1>2 DEF Boards!AskHost, IsFetch
<1>5. PICK f : f = rows(asked)
  OBVIOUS
<1>6. PICK g : g = empty(asked)
  OBVIOUS
<1>7. IsFetch(f) /\ f.at = "page" /\ IsFetch(g) /\ g.at = "asking"
  BY <1>4, <1>5, <1>6 DEF IsFetch
<1>8. /\ IsFetch(Boards!NextHost(asked)) /\ Boards!NextHost(asked).at = "asking"
      /\ IsFetch(Boards!NextHost(g)) /\ Boards!NextHost(g).at = "asking"
  BY <1>4, <1>7, NextHostIs
<1>. QED BY <1>3, <1>5, <1>6, <1>7, <1>8

LEMMA TakePageIs ==
  ASSUME IsFetch(fetch), Boards!TakePage
  PROVE  IsFetch(fetch') /\ (fetch'.at = "table" /\ fetch'.end = "failed" => fetch'.got = 0)
<1> DEFINE got == IF fetch.end = "rows" THEN fetch.got + 1 ELSE fetch.got
           total == Boards!FirstOf(fetch.page, fetch.emptyTotal, fetch.total)
           last == fetch.end = "empty" \/ (total > 0 /\ got >= total)
<1>1. CASE fetch.end = "failed"
  <2>1. fetch' = [fetch EXCEPT !.at = "table", !.got = 0]
    BY <1>1 DEF Boards!TakePage, Boards!Salvage
  <2>. QED BY <2>1 DEF IsFetch
<1>2. CASE fetch.end # "failed" /\ (last \/ fetch.page >= MaxPages)
  <2>1. fetch' = [fetch EXCEPT !.at = "table", !.got = got, !.total = total, !.capped = ~last]
    BY <1>2 DEF Boards!TakePage
  <2>2. got \in Nat
    BY DEF IsFetch
  <2>. HIDE DEF got, total, last
  <2>3. IsFetch(fetch') /\ fetch'.end = fetch.end
    BY <2>1, <2>2 DEF IsFetch
  <2>. QED BY <1>2, <2>3
<1>3. CASE fetch.end # "failed" /\ ~ (last \/ fetch.page >= MaxPages)
  <2>1. fetch' = [Boards!NewFetch(fetch.left) EXCEPT !.page = fetch.page + 1, !.got = got, !.total = total]
    BY <1>3 DEF Boards!TakePage
  <2>2. got \in Nat
    BY DEF IsFetch
  <2>. HIDE DEF got, total, last
  <2>3. PICK f : f = Boards!NewFetch(fetch.left)
    OBVIOUS
  <2>4. IsFetch(f) /\ f.at = "asking"
    BY <2>3, NewFetchIs
  <2>5. fetch' = [f EXCEPT !.page = fetch.page + 1, !.got = got, !.total = total]
    BY <2>1, <2>3
  <2>6. IsFetch(fetch') /\ fetch'.at = f.at
    BY <2>2, <2>4, <2>5 DEF IsFetch
  <2>. QED BY <2>4, <2>6
<1>. QED BY <1>1, <1>2, <1>3

LEMMA BoardStep == BoardInv /\ [Boards!Next]_(Boards!boardVars) => BoardInv'
<1>1. SUFFICES ASSUME BoardInv, [Boards!Next]_(Boards!boardVars) PROVE BoardInv'
  OBVIOUS
<1>2. BoardShape
  BY <1>1 DEF BoardInv
<1>3. CASE Boards!StartFetch
  <2>1. IsFetch(fetch') /\ fetch'.at = "asking"
    BY <1>3, NewFetchIs DEF Boards!StartFetch
  <2>. QED BY <1>1, <1>3, <2>1, FetchingKeeps DEF Boards!StartFetch
<1>4. CASE Boards!AskHost
  <2>1. IsFetch(fetch') /\ fetch'.at # "table"
    BY <1>2, <1>4, AskHostIs DEF BoardShape
  <2>. QED BY <1>1, <1>4, <2>1, FetchingKeeps DEF Boards!AskHost, BoardInv
<1>5. CASE Boards!PageIsOver
  <2>1. IsFetch(fetch') /\ fetch'.at = "page"
    BY <1>2, <1>5 DEF Boards!PageIsOver, BoardShape, IsFetch
  <2>. QED BY <1>1, <1>5, <2>1, FetchingKeeps DEF Boards!PageIsOver, BoardInv
<1>6. CASE Boards!TakePage
  <2>1. IsFetch(fetch') /\ (fetch'.at = "table" /\ fetch'.end = "failed" => fetch'.got = 0)
    BY <1>2, <1>6, TakePageIs DEF BoardShape
  <2>. QED BY <1>1, <1>6, <2>1, FetchingKeeps DEF Boards!TakePage, BoardInv
<1>7. CASE Boards!TakeTable
  <2> DEFINE kind == Head(kinds)
             ending(got) == IF got # fetch.got THEN "whole"
                            ELSE IF fetch.end = "failed" THEN "failed"
                            ELSE IF fetch.capped THEN "capped" ELSE "ended"
             table(got) == [kind |-> kind, got |-> got, end |-> ending(got)]
  <2>1. PICK got \in Boards!FallsBack(kind, fetch.got) :
           /\ tables' = Append(tables, table(got))
           /\ listing' = IF got > 0 THEN [listing EXCEPT !.fetched = @ \cup {kind}]
                         ELSE [listing EXCEPT !.unavailable = @ \cup {kind}]
    BY <1>7 DEF Boards!TakeTable
  <2>2. kinds # <<>> /\ kinds' = Tail(kinds) /\ fetch' = Boards!NoFetch /\ fetch.at = "table"
    BY <1>1, <1>7 DEF Boards!TakeTable, BoardInv
  <2>3. kind \in BoardKinds /\ kinds' \in Seq(BoardKinds)
    BY <1>2, <2>2 DEF BoardShape
  <2>4. got \in Nat /\ listing.status = "none"
    BY <1>1, <1>2, <2>1, <2>2 DEF BoardInv, BoardShape, IsFetch, Boards!FallsBack
  <2>5. table(got) \in BoardTable
    BY <2>3, <2>4 DEF BoardTable
  <2>6. table(got).got = got /\ (table(got).end = "failed" => got = 0)
    BY <1>1, <2>2 DEF BoardInv
  <2>7. /\ IsListing(listing') /\ listing'.status = "none"
        /\ listing.unavailable \subseteq listing'.unavailable
        /\ got = 0 => listing'.unavailable # {}
    <3>1. CASE got > 0
      <4>1. PICK x : x = listing.fetched \cup {kind}
        OBVIOUS
      <4>2. listing' = [listing EXCEPT !.fetched = x]
        BY <2>1, <3>1, <4>1
      <4>. QED BY <1>2, <2>4, <3>1, <4>2 DEF BoardShape, IsListing
    <3>2. CASE ~ (got > 0)
      <4>1. PICK x : x = listing.unavailable \cup {kind}
        OBVIOUS
      <4>2. listing' = [listing EXCEPT !.unavailable = x]
        BY <2>1, <3>2, <4>1
      <4>. QED BY <1>2, <2>4, <3>2, <4>1, <4>2 DEF BoardShape, IsListing
    <3>. QED BY <3>1, <3>2
  <2>8. PICK t : t = table(got)
    OBVIOUS
  <2>9. /\ tables' \in Seq(BoardTable)
        /\ \A i \in 1..Len(tables') : \/ i \in 1..Len(tables) /\ tables'[i] = tables[i]
                                      \/ tables'[i] = t
    <3>1. tables' = Append(tables, t) /\ t \in BoardTable /\ tables \in Seq(BoardTable)
      BY <1>2, <2>1, <2>5, <2>8 DEF BoardShape
    <3>. QED BY <3>1
  <2>10. t.got = got /\ (t.end = "failed" => got = 0)
    BY <2>6, <2>8
  <2>11. \A i \in 1..Len(tables') : /\ tables'[i].end = "failed" => tables'[i].got = 0
                                    /\ tables'[i].got = 0 => listing'.unavailable # {}
    BY <1>1, <2>7, <2>9, <2>10 DEF BoardInv
  <2>12. IsFetch(fetch') /\ fetch'.at = "idle"
    BY <2>2, NewFetchIs
  <2>. QED BY <2>3, <2>7, <2>9, <2>11, <2>12 DEF BoardInv, BoardShape
<1>8. CASE Boards!Answer
  <2>1. PICK matched \in BOOLEAN :
           listing' = [listing EXCEPT !.status = Boards!Status(listing.fetched, matched),
                                      !.degraded = listing.unavailable # {}]
    BY <1>8 DEF Boards!Answer
  <2>2. PICK s, b : s = Boards!Status(listing.fetched, matched) /\ b = (listing.unavailable # {})
    OBVIOUS
  <2>3. listing' = [listing EXCEPT !.status = s, !.degraded = b]
    BY <2>1, <2>2
  <2>4. IsListing(listing') /\ listing'.unavailable = listing.unavailable /\ listing'.degraded = b
    BY <1>2, <2>3 DEF BoardShape, IsListing
  <2>5. ~listing'.degraded => listing'.unavailable = {}
    BY <2>2, <2>4, Zenon
  <2>. QED BY <1>1, <1>8, <2>4, <2>5 DEF Boards!Answer, BoardInv, BoardShape
<1>9. CASE Boards!AskMembers
  <2>1. PICK s : s # "not_found" /\ listing' = [listing EXCEPT !.status = s]
    BY <1>9 DEF Boards!AskMembers
  <2>2. /\ IsListing(listing') /\ listing'.unavailable = listing.unavailable
        /\ listing'.status # "not_found"
    BY <1>2, <2>1 DEF BoardShape, IsListing
  <2>. QED BY <1>1, <1>9, <2>2 DEF Boards!AskMembers, BoardInv, BoardShape
<1>10. CASE UNCHANGED Boards!boardVars
  BY <1>1, <1>10 DEF Boards!boardVars, BoardInv, BoardShape
<1>. QED BY <1>1, <1>3, <1>4, <1>5, <1>6, <1>7, <1>8, <1>9, <1>10 DEF Boards!Next

\* "Nothing matches" is never said of a table that lost a page (screening.py:149),
\* for any number of hosts, pages, rounds and requests.
THEOREM NoOutageIsNotFound == Spec => []NotFoundIsNoOutage
<1> DEFINE J == subject = "boards" => BoardInv
<1>1. Init => J
  BY BoardInit DEF Init
<1>2. J /\ [Next]_vars => J'
  BY StepOfSubject, BoardStep
<1>3. J => NotFoundIsNoOutage
  <2>1. SUFFICES ASSUME BoardInv, listing.status = "not_found", ~listing.degraded,
                        NEW i \in DOMAIN tables
                 PROVE  tables[i].got > 0 /\ tables[i].end # "failed"
    BY DEF NotFoundIsNoOutage, Boards!NotFoundIsNoOutage
  <2>2. i \in 1..Len(tables) /\ tables[i] \in BoardTable
    BY <2>1 DEF BoardInv, BoardShape
  <2>. QED BY <2>1, <2>2 DEF BoardInv, BoardTable
<1>. QED BY <1>1, <1>2, <1>3, PTL DEF Spec

-----------------------------------------------------------------------------
(* Experts: what a run owes to its form and to its outcome.                *)

\* Domains are finite, what models and tools name are figures.
ExpertInputs ==
  /\ IsFiniteSet(Domains)
  /\ \A words \in Asides \cup Texts \cup Readings : words \subseteq Int

IsRun(e) ==
  e \in [at : {e.at}, answers : {e.answers}, rounds : {e.rounds}, text : {e.text},
         traced : {e.traced}, got : {e.got}, figures : {e.figures}, limits : {e.limits},
         failed : {e.failed}, pending : {e.pending}, asked : {e.asked}, hurt : {e.hurt},
         outcome : {e.outcome}]

\* The outcome of a run that is over tells what cut it and which figures have no source.
Told(e) ==
  /\ e.outcome.status = "success" => e.hurt = {} /\ e.got
  /\ "raised" \notin e.hurt => e.hurt \subseteq e.outcome.limits
  /\ e.outcome.summary = "analysis" /\ e.figures # {} =>
        \A n \in e.text : n \in e.outcome.unfounded
                          \/ \E k \in e.figures : Experts!Close(Experts!Size(n), Experts!Size(k))

\* A run keeps to the fields of its domain, and until it is over every mishap is a limit.
Going(d, e) ==
  /\ IsRun(e)
  /\ e.asked \subseteq Registered[d] /\ e.text \subseteq Int /\ e.figures \subseteq Int
  /\ e.hurt \subseteq e.limits

RunInv(d, e) ==
  /\ IsRun(e)
  /\ e.asked \subseteq Registered[d] /\ e.text \subseteq Int /\ e.figures \subseteq Int
  /\ e.at # "done" => e.hurt \subseteq e.limits
  /\ e.at = "done" => Told(e)

\* What the user sent under the bare name of a field has reached the domain.
Reached(d, e, sent) ==
  \A x \in sent : x[1] = Bare /\ x[2] \in Registered[d] /\ Experts!Clean(x[2], x[3])
                      => <<x[2], x[3]>> \in e.answers

FormInv ==
  dialog # NoDialog =>
     /\ Experts!Settled
     /\ dialog # Abandoned => \A d \in Experts!AskingDomains : Registered[d] \subseteq dialog.fields

ExpertInv ==
  /\ expert = [d \in Domains |-> expert[d]]
  /\ \A d \in Domains : RunInv(d, expert[d])
  /\ FormInv
  /\ \A d \in Domains : expert[d].at = "loop" /\ shownForms > 0 => Reached(d, expert[d], reply)

LEMMA FreshGoes ==
  ASSUME NEW d, NEW answers
  PROVE  /\ Going(d, Experts!Fresh(answers)) /\ Experts!Fresh(answers).at = "loop"
         /\ Experts!Fresh(answers).answers = answers
BY DEF Going, IsRun, Experts!Fresh

LEMMA UnaskedGoes ==
  ASSUME NEW d
  PROVE  Going(d, Experts!Unasked) /\ Experts!Unasked.at = "unasked"
<1>1. PICK e : e = Experts!Fresh({})
  OBVIOUS
<1>2. Going(d, e)
  BY <1>1, FreshGoes
<1>3. Experts!Unasked = [e EXCEPT !.at = "unasked"]
  BY <1>1 DEF Experts!Unasked
<1>. QED BY <1>2, <1>3 DEF Going, IsRun

\* Figures that are close stay so without their signs.
LEMMA CloseWithoutSigns ==
  ASSUME NEW n \in Int, NEW k \in Int,
         \/ Experts!Close(n, k) \/ Experts!Close(n, Experts!Size(k))
         \/ Experts!Close(Experts!Size(n), Experts!Size(k))
  PROVE  Experts!Close(Experts!Size(n), Experts!Size(k))
BY DEF Experts!Close, Experts!Size

LEMMA UngroundedAreNamed ==
  ASSUME NEW text \in SUBSET Int, NEW figures \in SUBSET Int, figures # {}, NEW n \in text,
         n \notin Experts!Ungrounded(text, figures)
  PROVE  \E k \in figures : Experts!Close(Experts!Size(n), Experts!Size(k))
<1>1. PICK k \in figures : \/ Experts!Close(n, k) \/ Experts!Close(n, Experts!Size(k))
                           \/ Experts!Close(Experts!Size(n), Experts!Size(k))
  BY DEF Experts!Ungrounded
<1>2. n \in Int /\ k \in Int
  OBVIOUS
<1>. QED BY <1>1, <1>2, CloseWithoutSigns

LEMMA EndedIsTold ==
  ASSUME NEW d, NEW e, Going(d, e)
  PROVE  RunInv(d, Experts!Ended(e)) /\ Experts!Ended(e).at = "done"
<1>1. PICK o : o = Experts!Assembled(e)
  OBVIOUS
<1>2. PICK f : f = [e EXCEPT !.at = "done", !.outcome = o]
  OBVIOUS
<1>3. Experts!Ended(e) = f
  BY <1>1, <1>2 DEF Experts!Ended
<1>4. /\ IsRun(f) /\ f.at = "done" /\ f.outcome = o /\ f.asked = e.asked /\ f.text = e.text
      /\ f.figures = e.figures /\ f.hurt = e.hurt /\ f.got = e.got
  BY <1>2 DEF Going, IsRun
<1>5. /\ o.status = Experts!Status(e) /\ o.limits = e.limits /\ o.summary = Experts!Summary(e)
      /\ o.unfounded = IF e.pending = NoDialog THEN Experts!Ungrounded(e.text, e.figures) ELSE {}
  BY <1>1 DEF Experts!Assembled
<1>6. o.status = "success" => e.limits = {} /\ e.got
  BY <1>5 DEF Experts!Status
<1>7. o.summary = "analysis" => e.pending = NoDialog
  BY <1>5 DEF Experts!Summary
<1>8. Told(f)
  <2>1. ASSUME o.summary = "analysis", e.figures # {}, NEW n \in e.text, n \notin o.unfounded
        PROVE  \E k \in e.figures : Experts!Close(Experts!Size(n), Experts!Size(k))
    <3>1. n \notin Experts!Ungrounded(e.text, e.figures)
      BY <1>5, <1>7, <2>1
    <3>. QED BY <2>1, <3>1, UngroundedAreNamed DEF Going
  <2>2. /\ f.outcome.status = "success" => f.hurt = {} /\ f.got
        /\ f.hurt \subseteq f.outcome.limits
    BY <1>4, <1>5, <1>6 DEF Going
  <2>. QED BY <1>4, <2>1, <2>2 DEF Told
<1>. QED BY <1>3, <1>4, <1>8 DEF RunInv, Going

\* A run after the model has written, without or with a tool call.
Wrote(e, words) == [e EXCEPT !.text = IF words = {} THEN @ ELSE words]
Called(e, words) ==
  [e EXCEPT !.rounds = @ + 1, !.traced = TRUE, !.text = IF words = {} THEN @ ELSE words]

LEMMA WordsGo ==
  ASSUME NEW d, NEW e, Going(d, e), NEW words \in SUBSET Int,
         NEW f \in {Wrote(e, words), Called(e, words)}
  PROVE  Going(d, f) /\ f.at = e.at /\ f.answers = e.answers
<1> DEFINE text == IF words = {} THEN e.text ELSE words
<1>1. text \in SUBSET Int
  BY DEF Going
<1>2. f = [e EXCEPT !.text = text] \/ f = [e EXCEPT !.rounds = e.rounds + 1, !.traced = TRUE, !.text = text]
  BY DEF Wrote, Called
<1>. HIDE DEF text
<1>. QED BY <1>1, <1>2 DEF Going, IsRun

\* What the tool calls of an expert may make of its run.
AfterTool(d, e) ==
  Experts!Recorded(e) \cup Experts!Limited(e) \cup Experts!Failed(e) \cup Experts!Asking(d, e)

LEMMA ToolsGo ==
  ASSUME ExpertInputs, NEW d, NEW e, Going(d, e),
         NEW f \in AfterTool(d, e)
  PROVE  Going(d, f) /\ f.at = e.at /\ f.answers = e.answers
<1>1. CASE f \in Experts!Recorded(e)
  <2>1. PICK read \in Readings : f = [e EXCEPT !.got = TRUE, !.figures = @ \cup read]
    BY <1>1 DEF Experts!Recorded
  <2>2. read \subseteq Int
    BY DEF ExpertInputs
  <2>. QED BY <2>1, <2>2 DEF Going, IsRun
<1>2. CASE f \in Experts!Limited(e)
  <2>1. f = [e EXCEPT !.limits = @ \cup {"gap"}, !.hurt = @ \cup {"gap"}]
    BY <1>2 DEF Experts!Limited
  <2>. QED BY <2>1 DEF Going, IsRun
<1>3. CASE f \in Experts!Failed(e)
  <2>1. f = [e EXCEPT !.limits = @ \cup {"tool"}, !.failed = TRUE, !.hurt = @ \cup {"tool"}]
    BY <1>3 DEF Experts!Failed
  <2>. QED BY <2>1 DEF Going, IsRun
<1>4. CASE f \in Experts!Asking(d, e)
  <2>1. PICK wish \in Wishes :
           f = IF Experts!Missing(d, wish) = {} THEN e
               ELSE [e EXCEPT !.pending = Experts!Missing(d, wish), !.asked = @ \cup Experts!Missing(d, wish)]
    BY <1>4 DEF Experts!Asking
  <2>2. PICK m : m = Experts!Missing(d, wish) /\ m \subseteq Registered[d]
    BY DEF Experts!Missing
  <2>3. f = e \/ f = [e EXCEPT !.pending = m, !.asked = @ \cup m]
    BY <2>1, <2>2
  <2>. QED BY <2>2, <2>3 DEF Going, IsRun
<1>. QED BY <1>1, <1>2, <1>3, <1>4 DEF AfterTool

LEMMA LimitGoes ==
  ASSUME NEW d, NEW e, Going(d, e), NEW mark
  PROVE  Going(d, [e EXCEPT !.limits = @ \cup {mark}, !.hurt = @ \cup {mark}])
<1>1. PICK f : f = [e EXCEPT !.limits = @ \cup {mark}, !.hurt = @ \cup {mark}]
  OBVIOUS
<1>2. Going(d, f)
  BY <1>1 DEF Going, IsRun
<1>. QED BY <1>1, <1>2

\* While a run goes on no form is shown, so a step of one run is no matter of the dialog.
LEMMA OneRun ==
  ASSUME ExpertInv, NEW d \in Domains, expert[d].at = "loop", NEW e, Experts!Becomes(d, e),
         RunInv(d, e), e.at = "loop" => e.answers = expert[d].answers,
         UNCHANGED <<dialog, reply, shownForms>>
  PROVE  ExpertInv'
<1>1. expert' = [expert EXCEPT ![d] = e] /\ expert = [c \in Domains |-> expert[c]]
  BY DEF Experts!Becomes, ExpertInv
<1>2. /\ expert' = [c \in Domains |-> expert'[c]] /\ expert'[d] = e
      /\ \A c \in Domains : c # d => expert'[c] = expert[c]
  BY <1>1
<1>3. dialog' = NoDialog
  BY DEF ExpertInv, FormInv, Experts!Settled
<1>4. \A c \in Domains : RunInv(c, expert'[c])
  BY <1>2 DEF ExpertInv
<1>5. ASSUME NEW c \in Domains, expert'[c].at = "loop", shownForms' > 0
      PROVE  Reached(c, expert'[c], reply')
  <2>1. Reached(c, expert[c], reply) /\ expert'[c].answers = expert[c].answers
    BY <1>2, <1>5 DEF ExpertInv
  <2>. QED BY <2>1 DEF Reached
<1>. QED BY <1>2, <1>3, <1>4, <1>5 DEF ExpertInv, FormInv, RunInv, Told, IsRun

LEMMA RunSteps ==
  ASSUME ExpertInputs, ExpertInv, NEW d \in Domains,
         \/ Experts!CallTool(d) \/ Experts!Write(d) \/ Experts!CutOff(d)
         \/ Experts!Stop(d) \/ Experts!Raise(d)
  PROVE  ExpertInv'
<1>1. /\ expert[d].at = "loop" /\ UNCHANGED <<dialog, reply, shownForms>>
  BY DEF Experts!CallTool, Experts!Write, Experts!CutOff, Experts!Stop, Experts!Raise, Experts!Looping
<1>2. Going(d, expert[d])
  BY <1>1 DEF ExpertInv, RunInv, Going
<1>3. ASSUME NEW e, Experts!Becomes(d, Experts!Ended(e)), Going(d, e)
      PROVE  ExpertInv'
  BY <1>1, <1>3, EndedIsTold, OneRun
<1>4. CASE Experts!CallTool(d)
  <2>1. PICK words \in Asides : \E after : /\ after \in AfterTool(d, Called(expert[d], words))
                                           /\ Experts!Becomes(d, after)
    BY <1>4 DEF Experts!CallTool, AfterTool, Called
  <2>2. PICK after : after \in AfterTool(d, Called(expert[d], words)) /\ Experts!Becomes(d, after)
    BY <2>1
  <2>3. words \in SUBSET Int
    BY DEF ExpertInputs
  <2>4. Going(d, after) /\ after.at = "loop" /\ after.answers = expert[d].answers
    <3>1. PICK e : e = Called(expert[d], words)
      OBVIOUS
    <3>2. Going(d, e) /\ e.at = "loop" /\ e.answers = expert[d].answers
      BY <1>1, <1>2, <2>3, <3>1, WordsGo
    <3>. QED BY <2>2, <3>1, <3>2, ToolsGo
  <2>5. RunInv(d, after)
    BY <2>4 DEF Going, RunInv
  <2>. QED BY <1>1, <2>2, <2>4, <2>5, OneRun
<1>5. CASE Experts!Write(d)
  <2>1. PICK words \in Texts : Experts!Becomes(d, Experts!Ended(Wrote(expert[d], words)))
    BY <1>5 DEF Experts!Write, Wrote
  <2>2. words \in SUBSET Int
    BY DEF ExpertInputs
  <2>3. Going(d, Wrote(expert[d], words))
    BY <1>2, <2>2, WordsGo
  <2>. QED BY <1>3, <2>1, <2>3
<1>6. CASE Experts!CutOff(d) \/ Experts!Stop(d)
  <2>1. PICK mark, e : /\ e = [expert[d] EXCEPT !.limits = @ \cup {mark}, !.hurt = @ \cup {mark}]
                       /\ Experts!Becomes(d, Experts!Ended(e))
    BY <1>6 DEF Experts!CutOff, Experts!Stop
  <2>2. Going(d, e)
    BY <1>2, <2>1, LimitGoes
  <2>. QED BY <1>3, <2>1, <2>2
<1>7. CASE Experts!Raise(d)
  <2>1. PICK o, e : /\ o = [status |-> "failed", summary |-> "unavailable", missing |-> NoDialog,
                            limits |-> {"raised"}, unfounded |-> {}]
                    /\ e = [expert[d] EXCEPT !.at = "done", !.pending = NoDialog,
                               !.hurt = @ \cup {"raised"}, !.outcome = o]
                    /\ Experts!Becomes(d, e)
    BY <1>7 DEF Experts!Raise
  <2>2. o.status = "failed" /\ o.summary = "unavailable"
    BY <2>1
  <2>3. RunInv(d, e) /\ e.at = "done"
    BY <1>2, <2>1, <2>2 DEF Going, RunInv, IsRun, Told
  <2>. QED BY <1>1, <2>1, <2>3, OneRun
<1>. QED BY <1>4, <1>5, <1>6, <1>7

Smaller == {ss \in Nat \X Nat : ss[1] < ss[2]}

LEMMA SmallestNumber ==
  ASSUME NEW S \in SUBSET Nat, S # {}
  PROVE  \E n \in S : \A m \in S : n <= m
<1>1. IsWellFoundedOn(Smaller, Nat)
  BY NatLessThanWellFounded DEF OpToRel, Smaller
<1>2. PICK n \in S : \A m \in S : ~ (<<m, n>> \in Smaller)
  BY <1>1, WFMin
<1>3. \A m, k \in Nat : m < k => <<m, k>> \in Smaller
  BY DEF Smaller
<1>4. ASSUME NEW m \in S, m < n PROVE FALSE
  <2>1. <<m, n>> \in Smaller
    BY <1>3, <1>4
  <2>. QED BY <1>2, <2>1
<1>5. \A m \in S : m \in Nat /\ n \in Nat
  OBVIOUS
<1>. QED BY <1>4, <1>5

\* Every asking domain has its place in the order that the answers are applied in.
LEMMA OrderCovers ==
  ASSUME NEW S, IsFiniteSet(S), NEW order \in Experts!SetToSeqs(S), NEW d \in S
  PROVE  /\ Len(order) = Cardinality(S) /\ \A i \in 1..Len(order) : order[i] \in S
         /\ \E i \in 1..Len(order) : order[i] = d
<1> DEFINE D == 1..Cardinality(S)
<1>1. Cardinality(S) \in Nat /\ IsFiniteSet(D) /\ Cardinality(D) = Cardinality(S)
  BY FS_CardinalityType, FS_Interval
<1>2. order \in [D -> S] /\ \A i, j \in D : i # j => order[i] # order[j]
  <2>1. Experts!Cardinality(S) = Cardinality(S)
    BY Zenon DEF Experts!Cardinality, Cardinality
  <2>. QED BY <2>1 DEF Experts!SetToSeqs
<1>3. order \in Injection(D, S)
  BY <1>2 DEF Injection, IsInjective
<1>4. order \in Surjection(D, S)
  BY <1>1, <1>3, FS_Injection
<1>5. \E i \in D : order[i] = d
  BY <1>4 DEF Surjection
<1>6. Len(order) = Cardinality(S)
  BY <1>1, <1>2
<1>. QED BY <1>2, <1>5, <1>6

\* An answer under the bare name of a field reaches every asking domain that has the field.
LEMMA BareAnswersReach ==
  ASSUME NEW S \in SUBSET Domains, IsFiniteSet(S), NEW order \in Experts!SetToSeqs(S), NEW d \in S,
         NEW sent, NEW x \in sent, x[1] = Bare, x[2] \in Registered[d], Experts!Clean(x[2], x[3])
  PROVE  <<x[2], x[3]>> \in Experts!For(d, Experts!Filled(sent, order))
<1> DEFINE f == x[2]
           v == x[3]
           bare == {y[3] : y \in {z \in sent : z[1] = Bare /\ z[2] = f}}
           Has(i) == f \in Registered[order[i]]
<1>1. \A c : v \in Experts!Given(sent, c, f)
  <2>1. v \in bare
    OBVIOUS
  <2>2. \A c : Experts!Given(sent, c, f) = {w \in bare : Experts!Clean(f, w)}
    BY <2>1 DEF Experts!Given
  <2>. QED BY <2>1, <2>2
<1>2. /\ Len(order) \in Nat /\ \A i \in 1..Len(order) : order[i] \in S
      /\ \E i \in 1..Len(order) : order[i] = d
  BY OrderCovers, FS_CardinalityType
<1>3. PICK i \in 1..Len(order) : Has(i) /\ \A j \in 1..Len(order) : Has(j) => i <= j
  <2> DEFINE Holders == {j \in 1..Len(order) : Has(j)}
  <2>1. Holders \in SUBSET Nat /\ Holders # {}
    BY <1>2
  <2>2. PICK i \in Holders : \A j \in Holders : i <= j
    BY <2>1, SmallestNumber
  <2>. QED BY <2>2
<1>4. \A j \in 1..(i - 1) : f \notin Registered[order[j]]
  BY <1>2, <1>3
<1>5. <<i, f>> \in (1..Len(order)) \X UNION {Registered[c] : c \in Domains}
  BY <1>2, <1>3
<1>6. <<f, v>> \in Experts!Filled(sent, order)
  <2> DEFINE Settles(k, g) ==
                /\ g \in Registered[order[k]] /\ Experts!Given(sent, order[k], g) # {}
                /\ \A j \in 1..(k - 1) : g \notin Registered[order[j]] \/ Experts!Given(sent, order[j], g) = {}
             Places == {y \in (1..Len(order)) \X UNION {Registered[c] : c \in Domains} : Settles(y[1], y[2])}
             Values(y) == {<<y[2], w>> : w \in Experts!Given(sent, order[y[1]], y[2])}
  <2>1. <<i, f>> \in Places
    BY <1>1, <1>3, <1>4, <1>5
  <2>2. <<f, v>> \in Values(<<i, f>>)
    BY <1>1
  <2>3. Experts!Filled(sent, order) = UNION {Values(y) : y \in Places}
    BY DEF Experts!Filled
  <2>. HIDE DEF Values, Places
  <2>. QED BY <2>1, <2>2, <2>3
<1>. QED BY <1>6 DEF Experts!For

LEMMA DialogSteps ==
  ASSUME ExpertInputs, ExpertInv, Experts!Ask \/ Experts!GiveUp \/ Experts!Resume
  PROVE  ExpertInv'
<1>1. CASE Experts!Ask
  <2>1. /\ Experts!Settled /\ expert' = expert /\ reply' = reply
        /\ dialog'.fields = UNION {Registered[d] : d \in Experts!AskingDomains}
    BY <1>1 DEF Experts!Ask, Experts!FormOf
  <2>2. FormInv'
    BY <2>1 DEF FormInv, Experts!Settled, Experts!AskingDomains
  <2>3. \A d \in Domains : expert'[d].at # "loop"
    BY <2>1 DEF Experts!Settled
  <2>. QED BY <2>1, <2>2, <2>3 DEF ExpertInv
<1>2. CASE Experts!GiveUp
  <2>1. Experts!Settled /\ expert' = expert /\ dialog' = Abandoned
    BY <1>2 DEF Experts!GiveUp, Experts!Shown, ExpertInv, FormInv
  <2>2. FormInv'
    BY <2>1 DEF FormInv, Experts!Settled
  <2>3. \A d \in Domains : expert'[d].at # "loop"
    BY <2>1 DEF Experts!Settled
  <2>. QED BY <2>1, <2>2, <2>3 DEF ExpertInv
<1>3. CASE Experts!Resume
  <2> DEFINE S == Experts!AskingDomains
  <2>1. PICK sent \in Submissions, order \in Experts!SetToSeqs(S) :
           LET seen == {x \in sent : x[2] \in dialog.fields}
           IN  /\ expert' = [d \in Domains |-> IF d \in S
                                THEN Experts!Fresh(Experts!For(d, Experts!Filled(seen, order))) ELSE expert[d]]
               /\ reply' = seen
    BY <1>3 DEF Experts!Resume
  <2>2. PICK seen : seen = {x \in sent : x[2] \in dialog.fields}
    OBVIOUS
  <2>3. /\ expert' = [d \in Domains |-> expert'[d]] /\ dialog' = NoDialog /\ reply' = seen
        /\ \A d \in S : expert'[d] = Experts!Fresh(Experts!For(d, Experts!Filled(seen, order)))
        /\ \A d \in Domains \ S : expert'[d] = expert[d]
    BY <1>3, <2>1, <2>2 DEF Experts!Resume, Experts!AskingDomains
  <2>4. S \in SUBSET Domains /\ IsFiniteSet(S)
    BY FS_Subset DEF ExpertInputs, Experts!AskingDomains
  <2>. HIDE DEF S
  <2>5. ASSUME NEW d \in S
        PROVE  RunInv(d, expert'[d]) /\ Reached(d, expert'[d], reply')
    <3>1. PICK answers : answers = Experts!For(d, Experts!Filled(seen, order))
      OBVIOUS
    <3>2. /\ Going(d, expert'[d]) /\ expert'[d].at = "loop"
          /\ expert'[d].answers = answers
      BY <2>3, <3>1, FreshGoes
    <3>3. \A x \in seen : x[1] = Bare /\ x[2] \in Registered[d] /\ Experts!Clean(x[2], x[3])
                            => <<x[2], x[3]>> \in answers
      BY <2>4, <3>1, BareAnswersReach
    <3>. QED BY <2>3, <3>2, <3>3 DEF Going, RunInv, Reached
  <2>6. Experts!Settled
    BY <1>3 DEF Experts!Resume, Experts!Shown, ExpertInv, FormInv
  <2>7. \A d \in Domains \ S : RunInv(d, expert'[d]) /\ expert'[d].at # "loop"
    BY <2>3, <2>6 DEF ExpertInv, Experts!Settled
  <2>8. FormInv'
    BY <2>3 DEF FormInv
  <2>. QED BY <2>3, <2>4, <2>5, <2>7, <2>8 DEF ExpertInv
<1>. QED BY <1>1, <1>2, <1>3

LEMMA ExpertStep ==
  ASSUME ExpertInputs
  PROVE  ExpertInv /\ [Experts!Next]_(Experts!expertVars) => ExpertInv'
<1>1. SUFFICES ASSUME ExpertInv, [Experts!Next]_(Experts!expertVars) PROVE ExpertInv'
  OBVIOUS
<1>2. CASE UNCHANGED Experts!expertVars
  BY <1>1, <1>2 DEF Experts!expertVars, ExpertInv, FormInv, Experts!Settled, Experts!AskingDomains
<1>. QED BY <1>1, <1>2, RunSteps, DialogSteps DEF Experts!Next

LEMMA ExpertInit == Experts!Init => ExpertInv
<1>1. SUFFICES ASSUME Experts!Init PROVE ExpertInv
  OBVIOUS
<1>2. PICK chosen \in (SUBSET Domains) \ {{}} :
         expert = [d \in Domains |-> IF d \in chosen THEN Experts!Fresh({}) ELSE Experts!Unasked]
  BY <1>1 DEF Experts!Init
<1>3. PICK fresh, unasked : fresh = Experts!Fresh({}) /\ unasked = Experts!Unasked
  OBVIOUS
<1>4. \A d \in Domains : Going(d, fresh) /\ Going(d, unasked) /\ fresh.at = "loop" /\ unasked.at = "unasked"
  BY <1>3, FreshGoes, UnaskedGoes
<1>5. expert = [d \in Domains |-> IF d \in chosen THEN fresh ELSE unasked]
  BY <1>2, <1>3
<1>6. /\ expert = [d \in Domains |-> expert[d]]
      /\ \A d \in Domains : RunInv(d, expert[d])
  BY <1>4, <1>5 DEF Going, RunInv
<1>7. dialog = NoDialog /\ shownForms = 0
  BY <1>1 DEF Experts!Init
<1>. QED BY <1>6, <1>7 DEF ExpertInv, FormInv

\* What an expert asks for comes back to it, and what it lacks is told (base.py:16-24,
\* needs_input.py:12-16), for any number of domains, fields, tool calls and forms.
THEOREM ExpertsAreAsGoodAsTheirWord ==
  Spec => []ExpertsKeepTheirWord
<1>0. ExpertInputs
  BY FiguresNamedAssumption DEF ExpertInputs
<1>. USE <1>0
<1> DEFINE J == subject = "experts" => ExpertInv
<1>1. Init => J
  BY ExpertInit DEF Init
<1>2. J /\ [Next]_vars => J'
  BY StepOfSubject, ExpertStep
<1>3. J => ExpertsKeepTheirWord
  <2>1. SUFFICES ASSUME ExpertInv PROVE Experts!AskedFieldsComeBack /\ Experts!CutIsTold
    BY DEF ExpertsKeepTheirWord, Experts!ExpertsKeepTheirWord
  <2>2. Experts!Shown => \A d \in Experts!AskingDomains : expert[d].asked \subseteq dialog.fields
    BY <2>1 DEF ExpertInv, FormInv, RunInv, Experts!Shown, Experts!AskingDomains
  <2>3. Experts!AskedFieldsComeBack
    BY <2>1, <2>2 DEF Experts!AskedFieldsComeBack, ExpertInv, Reached
  <2>4. \A d \in Domains : expert[d].at = "done" => Told(expert[d])
    BY <2>1 DEF ExpertInv, RunInv
  <2>5. Experts!CutIsTold
    BY <2>4 DEF Experts!CutIsTold, Told
  <2>. QED BY <2>3, <2>5
<1>. QED BY <1>1, <1>2, <1>3, PTL DEF Spec

-----------------------------------------------------------------------------
(* FlatPosition: what rounding may give while the value stands still.      *)

\* Values, rates and amounts are natural numbers of their units.
FlatInputs ==
  /\ NavScale \in Nat \ {0} /\ RateScale \in Nat \ {0}
  /\ Navs \subseteq Nat \ {0} /\ SubscriptionRates \subseteq Nat /\ RedemptionRates \subseteq Nat
  /\ Amounts \subseteq Nat /\ Lots \subseteq Nat

\* What the customer has received beyond what was paid, with the value of the shares
\* still held, is at most half a cent for each order.
FlatInv ==
  /\ nav \in Navs /\ subscriptionRate \in SubscriptionRates /\ redemptionRate \in RedemptionRates
  /\ shares \in Nat /\ paid \in Int /\ received \in Int /\ orders \in Nat
  /\ 2 * ((received - paid) * NavScale) + 2 * (shares * nav) <= orders * NavScale

\* Rounded money is off by half a unit at most.
LEMMA RoundedIsNear ==
  ASSUME NEW p \in Nat, NEW q \in Nat \ {0}, NEW m \in Flat!RoundMoney(p, q)
  PROVE  m \in Nat /\ 2 * (m * q) <= 2 * p + q /\ 2 * (m * q) >= 2 * p - q
<1>1. p \div q \in Nat
  OBVIOUS
<1>2. m \in Nat /\ 2 * (m * q - p) \in -q .. q
  BY <1>1 DEF Flat!RoundMoney
<1>3. m * q \in Nat
  BY <1>2
<1>. QED BY <1>2, <1>3

\* What a subscription takes: the value of the shares, less half a cent at most.
LEMMA SubscriptionPays ==
  ASSUME FlatInputs, NEW price \in Navs, NEW rate \in SubscriptionRates, NEW a \in Nat,
         NEW b \in Flat!SubscriptionByAmount(a, price, rate) \cup Flat!SubscriptionByShares(a, price, rate)
  PROVE  /\ b.shares \in Nat /\ b.cashOut \in Nat
         /\ 2 * (b.cashOut * NavScale) >= 2 * (b.shares * price) - NavScale
<1>1. ASSUME NEW n \in Nat, NEW g \in Flat!Gross(n, price), NEW f \in Nat
      PROVE  g \in Nat /\ g + f \in Nat /\ 2 * ((g + f) * NavScale) >= 2 * (n * price) - NavScale
  <2>1. n * price \in Nat /\ NavScale \in Nat \ {0}
    BY DEF FlatInputs
  <2>2. g \in Nat /\ 2 * (g * NavScale) >= 2 * (n * price) - NavScale
    BY <2>1, RoundedIsNear DEF Flat!Gross
  <2>3. /\ (g + f) * NavScale = g * NavScale + f * NavScale
        /\ g * NavScale \in Nat /\ f * NavScale \in Nat
    BY <2>1, <2>2
  <2>4. (g + f) * NavScale \in Nat
    BY <2>3
  <2>. QED BY <2>1, <2>2, <2>3, <2>4
<1>2. price \in Nat \ {0} /\ rate \in Nat /\ NavScale \in Nat \ {0} /\ RateScale \in Nat \ {0}
  BY DEF FlatInputs
<1>3. CASE b \in Flat!SubscriptionByAmount(a, price, rate)
  <2> DEFINE n == Flat!SharesFor(a, price, rate)
  <2>1. PICK f \in Flat!RoundMoney(a * rate, RateScale + rate), g \in Flat!Gross(n, price) :
             b = [shares |-> n, fee |-> f, invested |-> g, cashOut |-> g + f]
    BY <1>3 DEF Flat!SubscriptionByAmount
  <2>2. a * RateScale * NavScale \in Nat /\ (RateScale + rate) * price \in Nat \ {0}
    BY <1>2
  <2>3. n \in Nat
    BY <2>2 DEF Flat!SharesFor, Flat!RoundShares
  <2>4. a * rate \in Nat /\ RateScale + rate \in Nat \ {0}
    BY <1>2
  <2>5. f \in Nat
    BY <2>4, RoundedIsNear
  <2>6. b.shares = n /\ b.cashOut = g + f
    BY <2>1
  <2>. HIDE DEF n
  <2>. QED BY <1>1, <2>1, <2>3, <2>5, <2>6
<1>4. CASE b \in Flat!SubscriptionByShares(a, price, rate)
  <2>1. PICK g \in Flat!Gross(a, price) : \E f \in Flat!FeeOn(g, rate) :
             b = [shares |-> a, fee |-> f, invested |-> g, cashOut |-> g + f]
    BY <1>4 DEF Flat!SubscriptionByShares
  <2>2. PICK f \in Flat!FeeOn(g, rate) :
             b = [shares |-> a, fee |-> f, invested |-> g, cashOut |-> g + f]
    BY <2>1
  <2>3. a * price \in Nat
    BY <1>2
  <2>4. g \in Nat
    BY <1>2, <2>3, RoundedIsNear DEF Flat!Gross
  <2>5. g * rate \in Nat
    BY <1>2, <2>4
  <2>6. f \in Nat
    BY <1>2, <2>5, RoundedIsNear DEF Flat!FeeOn
  <2>7. b.shares = a /\ b.cashOut = g + f
    BY <2>2
  <2>. QED BY <1>1, <2>6, <2>7
<1>. QED BY <1>3, <1>4

\* What a redemption pays: the value of the shares, and half a cent at most.
LEMMA RedemptionPays ==
  ASSUME FlatInputs, NEW price \in Navs, NEW rate \in RedemptionRates, NEW n \in Nat,
         NEW b \in Flat!Redemption(n, price, rate)
  PROVE  /\ b.cashIn \in Int
         /\ 2 * (b.cashIn * NavScale) <= 2 * (n * price) + NavScale
<1>1. price \in Nat \ {0} /\ rate \in Nat /\ NavScale \in Nat \ {0} /\ RateScale \in Nat \ {0}
  BY DEF FlatInputs
<1>2. PICK g \in Flat!Gross(n, price) : \E f \in Flat!FeeOn(g, rate) :
           b = [shares |-> n, fee |-> f, gross |-> g, cashIn |-> g - f]
  BY DEF Flat!Redemption
<1>3. PICK f \in Flat!FeeOn(g, rate) :
           b = [shares |-> n, fee |-> f, gross |-> g, cashIn |-> g - f]
  BY <1>2
<1>4. n * price \in Nat
  BY <1>1
<1>5. g \in Nat /\ 2 * (g * NavScale) <= 2 * (n * price) + NavScale
  BY <1>1, <1>4, RoundedIsNear DEF Flat!Gross
<1>6. g * rate \in Nat
  BY <1>1, <1>5
<1>7. f \in Nat
  BY <1>1, <1>6, RoundedIsNear DEF Flat!FeeOn
<1>8. /\ (g - f) * NavScale = g * NavScale - f * NavScale
      /\ g * NavScale \in Nat /\ f * NavScale \in Nat
  BY <1>1, <1>5, <1>7
<1>9. b.cashIn = g - f
  BY <1>3
<1>. QED BY <1>1, <1>4, <1>5, <1>7, <1>8, <1>9

LEMMA AcquireKeeps ==
  ASSUME FlatInputs, FlatInv, NEW a \in Nat,
         NEW b \in Flat!SubscriptionByAmount(a, nav, subscriptionRate)
                   \cup Flat!SubscriptionByShares(a, nav, subscriptionRate),
         Flat!Acquire(b)
  PROVE  FlatInv'
<1>1. /\ b.shares \in Nat /\ b.cashOut \in Nat
      /\ 2 * (b.cashOut * NavScale) >= 2 * (b.shares * nav) - NavScale
  BY SubscriptionPays DEF FlatInv
<1>2. /\ shares' = shares + b.shares /\ paid' = paid + b.cashOut /\ orders' = orders + 1
      /\ received' = received /\ nav' = nav
      /\ subscriptionRate' = subscriptionRate /\ redemptionRate' = redemptionRate
  BY DEF Flat!Acquire, Flat!quote
<1>3. nav \in Nat /\ NavScale \in Nat
  BY DEF FlatInputs, FlatInv
<1>4. PICK n, k : n = b.shares /\ k = b.cashOut
  OBVIOUS
<1>5. /\ (received - (paid + k)) * NavScale = (received - paid) * NavScale - k * NavScale
      /\ (shares + n) * nav = shares * nav + n * nav
      /\ (orders + 1) * NavScale = orders * NavScale + NavScale
      /\ (received - paid) * NavScale \in Int /\ k * NavScale \in Int /\ shares * nav \in Int
      /\ n * nav \in Int /\ orders * NavScale \in Int
  BY <1>1, <1>3, <1>4 DEF FlatInv
<1>6. 2 * ((received - (paid + k)) * NavScale) + 2 * ((shares + n) * nav) <= (orders + 1) * NavScale
  BY <1>1, <1>3, <1>4, <1>5 DEF FlatInv
<1>. QED BY <1>1, <1>2, <1>4, <1>6 DEF FlatInv

LEMMA SellKeeps ==
  ASSUME FlatInputs, FlatInv, NEW wanted, Flat!Sell(wanted)
  PROVE  FlatInv'
<1>1. wanted \in Nat /\ wanted <= shares
  BY DEF Flat!Sell, FlatInv
<1>2. PICK b \in Flat!Redemption(wanted, nav, redemptionRate) : received' = received + b.cashIn
  BY DEF Flat!Sell
<1>3. b.cashIn \in Int /\ 2 * (b.cashIn * NavScale) <= 2 * (wanted * nav) + NavScale
  BY <1>1, RedemptionPays DEF FlatInv
<1>4. /\ shares' = shares - wanted /\ paid' = paid /\ orders' = orders + 1
      /\ nav' = nav /\ subscriptionRate' = subscriptionRate /\ redemptionRate' = redemptionRate
  BY DEF Flat!Sell, Flat!quote
<1>5. nav \in Nat /\ NavScale \in Nat
  BY DEF FlatInputs, FlatInv
<1>6. PICK k : k = b.cashIn
  OBVIOUS
<1>7. /\ ((received + k) - paid) * NavScale = (received - paid) * NavScale + k * NavScale
      /\ (shares - wanted) * nav = shares * nav - wanted * nav
      /\ (orders + 1) * NavScale = orders * NavScale + NavScale
      /\ (received - paid) * NavScale \in Int /\ k * NavScale \in Int /\ shares * nav \in Int
      /\ wanted * nav \in Int /\ orders * NavScale \in Int
  BY <1>1, <1>3, <1>5, <1>6 DEF FlatInv
<1>8. 2 * (((received + k) - paid) * NavScale) + 2 * ((shares - wanted) * nav) <= (orders + 1) * NavScale
  BY <1>3, <1>5, <1>6, <1>7 DEF FlatInv
<1>. QED BY <1>1, <1>2, <1>3, <1>4, <1>6, <1>8 DEF FlatInv

LEMMA FlatKeeps ==
  ASSUME FlatInputs
  PROVE  FlatInv /\ [Flat!Next]_(Flat!vars) => FlatInv'
<1>1. SUFFICES ASSUME FlatInv, [Flat!Next]_(Flat!vars) PROVE FlatInv'
  OBVIOUS
<1>2. ASSUME NEW amount \in Amounts, Flat!BuyAmount(amount) PROVE FlatInv'
  BY <1>1, <1>2, AcquireKeeps DEF Flat!BuyAmount, FlatInputs
<1>3. ASSUME NEW n \in Lots, Flat!BuyShares(n) PROVE FlatInv'
  BY <1>1, <1>3, AcquireKeeps DEF Flat!BuyShares, FlatInputs
<1>4. ASSUME NEW wanted, Flat!Sell(wanted) PROVE FlatInv'
  BY <1>1, <1>4, SellKeeps
<1>5. CASE UNCHANGED Flat!vars
  BY <1>1, <1>5 DEF Flat!vars, Flat!quote, FlatInv
<1>. QED BY <1>1, <1>2, <1>3, <1>4, <1>5 DEF Flat!Next

\* While the value stands still, buying and redeeming everything again pays at most half
\* a cent for each order (domains/portfolio/fees.py), at any value, any disclosed rates
\* and in any lots.
THEOREM NoRoundTripPays ==
  Spec => []RoundTripNeverPays
<1>0. FlatInputs
  BY FlatAssumption DEF FlatInputs
<1>. USE <1>0
<1> DEFINE J == subject = "flat" => FlatInv
<1>1. Init => J
  <2>1. SUFFICES ASSUME Flat!Init PROVE FlatInv
    BY DEF Init
  <2>2. nav \in Nat /\ NavScale \in Nat
    BY <2>1 DEF Flat!Init, FlatInputs
  <2>3. 2 * ((0 - 0) * NavScale) + 2 * (0 * nav) <= 0 * NavScale
    BY <2>2
  <2>. QED BY <2>1, <2>2, <2>3 DEF Flat!Init, FlatInv
<1>2. J /\ [Next]_vars => J'
  BY StepOfSubject, FlatKeeps
<1>3. J => RoundTripNeverPays
  <2>1. SUFFICES ASSUME FlatInv, shares = 0 PROVE 2 * (received - paid) <= orders
    BY DEF RoundTripNeverPays, Flat!RoundTripNeverPays
  <2>2. /\ NavScale \in Nat \ {0} /\ nav \in Nat /\ shares * nav = 0 /\ received - paid \in Int
        /\ orders \in Nat
    BY <2>1 DEF FlatInputs, FlatInv
  <2>3. PICK gain \in Int : gain = received - paid
    BY <2>2
  <2>4. 2 * (gain * NavScale) <= orders * NavScale
    BY <2>1, <2>2, <2>3 DEF FlatInv
  <2>5. ASSUME orders < 2 * gain PROVE FALSE
    <3>1. orders * NavScale < (2 * gain) * NavScale
      BY <2>2, <2>3, <2>5
    <3>2. (2 * gain) * NavScale = 2 * (gain * NavScale)
      BY <2>2, <2>3
    <3>3. gain * NavScale \in Int /\ orders * NavScale \in Int
      BY <2>2, <2>3
    <3>. QED BY <2>4, <3>1, <3>2, <3>3
  <2>. QED BY <2>2, <2>3, <2>5
<1>. QED BY <1>1, <1>2, <1>3, PTL DEF Spec

-----------------------------------------------------------------------------
(* Research: what a run concludes, and what its replay finds.              *)

\* Dates are numbers of days, flags are flags, and what is missing is no date.
KernelInputs ==
  /\ IsFiniteSet(Codes) /\ NoValue \notin Int /\ Today \in Int
  /\ \A ask \in Asks : Kernel!ToSet(ask.codes) \subseteq Codes
  /\ \A raw \in Raws : /\ {raw.fetched, raw.quote, raw.lastBar} \subseteq Int \cup {NoValue}
                       /\ raw.error \in BOOLEAN /\ raw.adjusted \in BOOLEAN

\* The evaluation that the results and the facts of the turn come from.
RequestOf(C, dimension) == [codes |-> C, dimension |-> dimension, profiled |-> profiled]
DataOf(C) == [c \in C |-> raws[c]]
BuiltOf(C, dimension) == Kernel!Build(RequestOf(C, dimension), DataOf(C), NoValue)

Evaluated(C, dimension) ==
  /\ results = Kernel!Evaluate(RequestOf(C, dimension), DataOf(C)).results
  /\ facts = Kernel!Evaluate(RequestOf(C, dimension), DataOf(C)).facts

AuditOf == [results |-> {results[c] : c \in DOMAIN results},
            manifest |-> [snapshots |-> Kernel!Cited(results, facts)]]

KernelInv ==
  /\ raws \in [Codes -> Raws]
  /\ \/ results = Kernel!Empty
     \/ \E C \in SUBSET Codes : \E dimension : Evaluated(C, dimension)
  /\ stage \in {"stored", "replayed", "replayed_by_cli"} => DOMAIN results # {} /\ record = AuditOf
  /\ stage = "replayed" => verdict = Kernel!Replay(record.results, record.manifest.snapshots)

LEMMA KernelInit == Kernel!Init => KernelInv
BY DEF Kernel!Init, KernelInv

LEMMA KernelKeeps ==
  ASSUME KernelInputs
  PROVE  KernelInv /\ [Kernel!Next]_(Kernel!vars) => KernelInv'
<1>1. SUFFICES ASSUME KernelInv, [Kernel!Next]_(Kernel!vars) PROVE KernelInv'
  OBVIOUS
<1>2. CASE Kernel!EvaluateResearch
  <2>1. PICK ask \in Asks : \E C \in SUBSET Codes : \E dimension :
           /\ C = Kernel!ToSet(ask.codes) /\ dimension = ask.dimension
           /\ \/ Kernel!Raise
              \/ /\ results' = Kernel!Evaluate(RequestOf(C, dimension), DataOf(C)).results
                 /\ facts' = Kernel!Evaluate(RequestOf(C, dimension), DataOf(C)).facts
                 /\ stage' = stage
    BY <1>2 DEF Kernel!EvaluateResearch, RequestOf, DataOf, KernelInputs
  <2>2. raws' = raws /\ profiled' = profiled /\ stage = "tools"
    BY <1>2 DEF Kernel!EvaluateResearch
  <2>3. CASE Kernel!Raise
    BY <1>1, <2>2, <2>3 DEF KernelInv, Kernel!Raise
  <2>4. CASE \E C \in SUBSET Codes : \E dimension :
               /\ results' = Kernel!Evaluate(RequestOf(C, dimension), DataOf(C)).results
               /\ facts' = Kernel!Evaluate(RequestOf(C, dimension), DataOf(C)).facts
               /\ stage' = stage
    <3>1. \E C \in SUBSET Codes : \E dimension : Evaluated(C, dimension)'
      BY <2>2, <2>4 DEF Evaluated, RequestOf, DataOf
    <3>. QED BY <1>1, <2>2, <2>4, <3>1 DEF KernelInv
  <2>. QED BY <2>1, <2>3, <2>4
<1>3. CASE Kernel!ScreenBoard
  <2>1. /\ raws' = raws /\ profiled' = profiled /\ stage = "tools"
        /\ Kernel!Raise \/ UNCHANGED <<stage, results, facts>>
    BY <1>3 DEF Kernel!ScreenBoard
  <2>. QED BY <1>1, <2>1 DEF KernelInv, Kernel!Raise, Evaluated, RequestOf, DataOf
<1>4. CASE Kernel!Audit
  BY <1>1, <1>4 DEF Kernel!Audit, KernelInv, AuditOf, Evaluated, RequestOf, DataOf
<1>5. CASE Kernel!ReplayFacts
  BY <1>1, <1>5 DEF Kernel!ReplayFacts, KernelInv, AuditOf, Evaluated, RequestOf, DataOf
<1>6. CASE Kernel!ReplayStoredRun
  BY <1>1, <1>6 DEF Kernel!ReplayStoredRun, KernelInv, AuditOf, Evaluated, RequestOf, DataOf
<1>7. CASE UNCHANGED Kernel!vars
  BY <1>1, <1>7 DEF Kernel!vars, KernelInv, AuditOf, Evaluated, RequestOf, DataOf
<1>. QED BY <1>1, <1>2, <1>3, <1>4, <1>5, <1>6, <1>7 DEF Kernel!Next

\* The values of a function over a finite set are finitely many.
LEMMA FiniteImage ==
  ASSUME NEW C, IsFiniteSet(C), NEW T, NEW f \in [C -> T], \A t \in T : \E c \in C : f[c] = t
  PROVE  IsFiniteSet(T)
<1>1. f \in Surjection(C, T)
  BY DEF Surjection
<1>. QED BY <1>1, FS_Surjection

LEMMA SmallestOfSets ==
  ASSUME NEW S, IsFiniteSet(S), NEW Bad \in SUBSET (SUBSET S), Bad # {}
  PROVE  \E s \in Bad : \A t \in Bad : t \subseteq s => t = s
<1>1. IsWellFoundedOn(StrictSubsetOrdering(S), SUBSET S)
  BY FS_StrictSubsetOrderingWellFounded, FS_FiniteSubsetsOfFinite
<1>2. PICK s \in Bad : \A t \in Bad : ~ (<<t, s>> \in StrictSubsetOrdering(S))
  BY <1>1, WFMin
<1>3. \A t \in Bad : t \subseteq s /\ t # s => <<t, s>> \in StrictSubsetOrdering(S)
  BY DEF StrictSubsetOrdering
<1>4. \A t \in Bad : t \subseteq s => t = s
  BY <1>2, <1>3
<1>. QED BY <1>4

HasLargest(s) == \E m \in s : \A k \in s : m >= k

LEMMA LargestNumber ==
  ASSUME NEW S, \A x \in S : x \in Int, IsFiniteSet(S), S # {}
  PROVE  HasLargest(S)
<1> DEFINE Bad == {s \in SUBSET S : s # {} /\ ~ HasLargest(s)}
<1>1. SUFFICES ASSUME Bad # {} PROVE FALSE
  OBVIOUS
<1>a. Bad \in SUBSET (SUBSET S)
  OBVIOUS
<1>b. \A s \in Bad : s \in SUBSET S /\ s # {} /\ ~ HasLargest(s)
  OBVIOUS
<1>c. \A s \in SUBSET S : s # {} /\ s \notin Bad => HasLargest(s)
  OBVIOUS
<1>. HIDE DEF Bad
<1>2. PICK s \in Bad : \A t \in Bad : t \subseteq s => t = s
  <2>1. \E s \in Bad : \A t \in Bad : t \subseteq s => t = s
    BY <1>1, <1>a, SmallestOfSets
  <2>. QED BY <2>1
<1>3. PICK x \in s : TRUE
  BY <1>2, <1>b
<1>4. CASE s \ {x} = {}
  <2>1. \A k \in s : k = x /\ x >= k
    BY <1>2, <1>3, <1>4, <1>b
  <2>. QED BY <1>2, <1>3, <1>b, <2>1 DEF HasLargest
<1>5. CASE s \ {x} # {}
  <2>1. PICK m \in s \ {x} : \A k \in s \ {x} : m >= k
    <3>1. s \ {x} \in SUBSET S /\ s \ {x} \subseteq s /\ s \ {x} # s
      BY <1>2, <1>3, <1>b
    <3>2. HasLargest(s \ {x})
      BY Zenon, <1>2, <1>5, <1>c, <3>1
    <3>. QED BY <3>2 DEF HasLargest
  <2>2. \A k \in s : k \in Int
    BY <1>2, <1>b
  <2>3. CASE m >= x
    BY <1>2, <1>b, <2>1, <2>3 DEF HasLargest
  <2>4. CASE ~ (m >= x)
    <3>1. \A k \in s : x >= k
      BY <1>3, <2>1, <2>2, <2>4
    <3>. QED BY <1>2, <1>3, <1>b, <3>1 DEF HasLargest
  <2>. QED BY <2>3, <2>4
<1>. QED BY <1>4, <1>5

LEMMA MaxIsMember ==
  ASSUME NEW S, \A x \in S : x \in Int, IsFiniteSet(S), S # {}
  PROVE  Kernel!Max(S) \in S
BY LargestNumber DEF HasLargest, Kernel!Max

-----------------------------------------------------------------------------

Fetched(data) == {data[c].fetched : c \in DOMAIN data} \ {NoValue}

LEMMA DataAreRaws ==
  ASSUME raws \in [Codes -> Raws], NEW C \in SUBSET Codes
  PROVE  DOMAIN DataOf(C) = C /\ \A c \in C : DataOf(C)[c] = raws[c] /\ raws[c] \in Raws
BY DEF DataOf

\* The evaluation has a moment, and takes it from the data where they tell one.
LEMMA MomentOfData ==
  ASSUME KernelInputs, raws \in [Codes -> Raws], NEW C \in SUBSET Codes
  PROVE  /\ Kernel!EvaluatedAt(DataOf(C), NoValue).moment \in Int
         /\ Kernel!EvaluatedAt(DataOf(C), NoValue).source \in {"fetch", "wallclock"}
         /\ (\E c \in C : raws[c].fetched # NoValue)
               => Kernel!EvaluatedAt(DataOf(C), NoValue).source = "fetch"
<1> DEFINE data == DataOf(C)
           times == [c \in C |-> raws[c].fetched]
           some == {times[c] : c \in C}
<1>1. Fetched(data) = some \ {NoValue}
  BY DataAreRaws DEF Fetched
<1>2. IsFiniteSet(some)
  <2>1. IsFiniteSet(C)
    BY FS_Subset DEF KernelInputs
  <2>. HIDE DEF times
  <2>2. times \in [C -> some] /\ \A t \in some : \E c \in C : times[c] = t
    BY DEF times
  <2>. QED BY <2>1, <2>2, FiniteImage
<1>3. \A c \in C : times[c] \in Int \cup {NoValue}
  BY DataAreRaws DEF KernelInputs
<1>4. IsFiniteSet(Fetched(data)) /\ \A x \in Fetched(data) : x \in Int
  BY <1>1, <1>2, <1>3, FS_Subset
<1>5. Kernel!EvaluatedAt(data, NoValue) =
        IF Fetched(data) # {} THEN [moment |-> Kernel!Max(Fetched(data)), source |-> "fetch"]
        ELSE [moment |-> Today, source |-> "wallclock"]
  BY DEF Kernel!EvaluatedAt, Fetched
<1>6. Fetched(data) # {} => Kernel!Max(Fetched(data)) \in Int
  BY <1>4, MaxIsMember
<1>7. (\E c \in C : raws[c].fetched # NoValue) => Fetched(data) # {}
  BY <1>1
<1>. HIDE DEF data
<1>8. /\ Kernel!EvaluatedAt(data, NoValue).moment \in Int
      /\ Kernel!EvaluatedAt(data, NoValue).source \in {"fetch", "wallclock"}
      /\ Fetched(data) # {} => Kernel!EvaluatedAt(data, NoValue).source = "fetch"
  BY <1>5, <1>6 DEF KernelInputs
<1>. QED BY <1>7, <1>8 DEF data


-----------------------------------------------------------------------------

\* What is built depends on the moment and on whether it is the clock's.
BuiltAt(request, data, evaluated) ==
  LET moment == evaluated.moment
      cross == Kernel!MixedReportPeriods(data)
      missing == cross \cup UNION {Kernel!Missing(data[c], moment) : c \in DOMAIN data}
      warnings == UNION {Kernel!Warnings(data[c], moment) : c \in DOMAIN data}
                  \cup (IF evaluated.source = "wallclock" THEN {"evaluated_at_unavailable"} ELSE {})
      status == Kernel!Status(missing, warnings)
  IN [missing |-> missing, warnings |-> warnings, status |-> status,
      facts |-> [c \in DOMAIN data |->
          [id |-> <<c, moment, request, cross, data[c]>>,
           code |-> c, evaluatedAt |-> moment, request |-> request, inputs |-> data[c],
           status |-> status, missing |-> Kernel!Missing(data[c], moment),
           warnings |-> Kernel!Warnings(data[c], moment)]]]

LEMMA BuildIsBuiltAt ==
  ASSUME NEW request, NEW data, NEW injected
  PROVE  Kernel!Build(request, data, injected)
           = BuiltAt(request, data, Kernel!EvaluatedAt(data, injected))
BY DEF Kernel!Build, BuiltAt

LEMMA MomentDecides ==
  ASSUME NEW request, NEW data, NEW a, NEW b, a.moment = b.moment,
         a.source # "wallclock", b.source # "wallclock"
  PROVE  BuiltAt(request, data, a) = BuiltAt(request, data, b)
BY DEF BuiltAt

MomentOf(C) == Kernel!EvaluatedAt(DataOf(C), NoValue).moment

\* The facts of an evaluation: one per security, with its data and the request.
LEMMA FactsOf ==
  ASSUME NEW C, NEW dimension, NEW c \in C
  PROVE  LET built == BuiltOf(C, dimension)
             fact == built.facts[c]
         IN /\ DOMAIN built.facts = C
            /\ fact.id = <<c, MomentOf(C), RequestOf(C, dimension),
                           Kernel!MixedReportPeriods(DataOf(C)), raws[c]>>
            /\ fact.code = c /\ fact.evaluatedAt = MomentOf(C)
            /\ fact.request = RequestOf(C, dimension) /\ fact.inputs = raws[c]
            /\ fact.status = built.status
            /\ fact.missing = Kernel!Missing(raws[c], MomentOf(C))
            /\ fact.warnings = Kernel!Warnings(raws[c], MomentOf(C))
<1>1. DOMAIN DataOf(C) = C /\ DataOf(C)[c] = raws[c]
  BY DEF DataOf
<1>2. BuiltOf(C, dimension)
        = BuiltAt(RequestOf(C, dimension), DataOf(C), Kernel!EvaluatedAt(DataOf(C), NoValue))
  BY BuildIsBuiltAt DEF BuiltOf
<1>. QED BY <1>1, <1>2 DEF BuiltAt, MomentOf

\* The conclusions of an evaluation: one per security, citing the fact of that security.
LEMMA ResultsOf ==
  ASSUME NEW C, NEW dimension, Evaluated(C, dimension)
  PROVE  /\ DOMAIN results = C /\ facts = BuiltOf(C, dimension).facts
         /\ \A c \in C : /\ results[c].code = c /\ results[c].dimension = dimension
                         /\ results[c].factIds = {facts[c].id}
                         /\ results[c].assessment
                              = Kernel!Assess(BuiltOf(C, dimension), c, dimension)
<1>1. DOMAIN DataOf(C) = C
  BY DEF DataOf
<1>. QED BY <1>1 DEF Evaluated, Kernel!Evaluate, BuiltOf, RequestOf

\* A fact that carries the moment is rebuilt to what it was.
LEMMA RebuildsTheSame ==
  ASSUME KernelInputs, raws \in [Codes -> Raws], NEW C \in SUBSET Codes, NEW dimension,
         \E c \in C : raws[c].fetched # NoValue,
         NEW E, E = {BuiltOf(C, dimension).facts[c] : c \in C}
  PROVE  Kernel!Rebuilt(E) = BuiltOf(C, dimension)
<1> DEFINE built == BuiltOf(C, dimension)
           inputs == [c \in C |-> IF \E e \in E : e.code = c
                                  THEN (CHOOSE e \in E : e.code = c).inputs
                                  ELSE Kernel!Nothing(FALSE)]
<1>1. \A c \in C : /\ built.facts[c].code = c /\ built.facts[c].inputs = raws[c]
                   /\ built.facts[c].request = RequestOf(C, dimension)
                   /\ built.facts[c].evaluatedAt = MomentOf(C)
  BY FactsOf
<1>2. (CHOOSE e \in E : TRUE).request = RequestOf(C, dimension)
  <2>1. (CHOOSE e \in E : TRUE) \in E
    OBVIOUS
  <2>. HIDE DEF built
  <2>. QED BY <1>1, <2>1 DEF built
<1>3. inputs = DataOf(C)
  <2>1. ASSUME NEW c \in C PROVE inputs[c] = raws[c]
    <3>1. built.facts[c] \in E
      OBVIOUS
    <3>2. (CHOOSE e \in E : e.code = c) \in E /\ (CHOOSE e \in E : e.code = c).code = c
      BY <1>1, <3>1
    <3>3. (CHOOSE e \in E : e.code = c).inputs = raws[c]
      BY <1>1, <3>2
    <3>. QED BY <1>1, <3>1, <3>3
  <2>. QED BY <2>1 DEF DataOf
<1>4. {e.evaluatedAt : e \in E} = {MomentOf(C)}
  BY <1>1
<1>5. /\ MomentOf(C) \in Int /\ MomentOf(C) # NoValue
      /\ Kernel!EvaluatedAt(DataOf(C), NoValue).source = "fetch"
  BY MomentOfData DEF MomentOf, KernelInputs
<1>6. Kernel!Max({MomentOf(C)}) = MomentOf(C)
  <2>1. IsFiniteSet({MomentOf(C)})
    BY FS_Singleton
  <2>. QED BY <1>5, <2>1, MaxIsMember
<1>7. /\ Kernel!EvaluatedAt(DataOf(C), MomentOf(C)).moment = MomentOf(C)
      /\ Kernel!EvaluatedAt(DataOf(C), MomentOf(C)).source = "injected"
  BY <1>5 DEF Kernel!EvaluatedAt
<1>8. Kernel!Rebuilt(E) = Kernel!Build(RequestOf(C, dimension), inputs, MomentOf(C))
  <2>1. RequestOf(C, dimension).codes = C
    BY DEF RequestOf
  <2>. QED BY <1>2, <1>4, <1>6, <2>1 DEF Kernel!Rebuilt
<1>9. BuiltAt(RequestOf(C, dimension), DataOf(C), Kernel!EvaluatedAt(DataOf(C), MomentOf(C)))
        = BuiltAt(RequestOf(C, dimension), DataOf(C), Kernel!EvaluatedAt(DataOf(C), NoValue))
  BY <1>5, <1>7, MomentDecides DEF MomentOf
<1>. QED BY <1>3, <1>8, <1>9, BuildIsBuiltAt DEF BuiltOf


LEMMA NoDifference ==
  ASSUME NEW told, NEW entry, NEW built,
         Kernel!Assess(built, told.code, entry.request.dimension) = told.assessment,
         built.facts[told.code] = entry, entry.id \in told.factIds, entry.status = built.status
  PROVE  Kernel!Differences(told, entry, built) = {}
BY DEF Kernel!Differences

\* A conclusion compared with what its own evaluation gives again differs in nothing.
LEMMA NothingDiffers ==
  ASSUME NEW C, NEW dimension, Evaluated(C, dimension), NEW c \in C
  PROVE  Kernel!Differences(results[c], facts[c], BuiltOf(C, dimension)) = {}
<1> DEFINE built == BuiltOf(C, dimension)
<1>1. /\ results[c].code = c /\ results[c].factIds = {facts[c].id} /\ facts[c] = built.facts[c]
      /\ results[c].assessment = Kernel!Assess(built, c, dimension)
  BY ResultsOf
<1>2. facts[c].request.dimension = dimension /\ facts[c].status = built.status
  <2>1. /\ BuiltOf(C, dimension).facts[c].request = RequestOf(C, dimension)
        /\ BuiltOf(C, dimension).facts[c].status = BuiltOf(C, dimension).status
    BY FactsOf
  <2>2. RequestOf(C, dimension).dimension = dimension
    BY DEF RequestOf
  <2>. QED BY <1>1, <2>1, <2>2
<1>. HIDE DEF built
<1>3. Kernel!Assess(built, results[c].code, facts[c].request.dimension) = results[c].assessment
  BY <1>1, <1>2
<1>4. built.facts[results[c].code] = facts[c]
  BY <1>1
<1>5. facts[c].id \in results[c].factIds
  BY <1>1
<1>. QED BY Zenon, <1>2, <1>3, <1>4, <1>5, NoDifference DEF built

LEMMA ReplayOfEvaluation ==
  ASSUME KernelInputs, raws \in [Codes -> Raws], NEW C \in SUBSET Codes, NEW dimension,
         Evaluated(C, dimension), NEW E, E = Kernel!Cited(results, facts), Kernel!Timed(E)
  PROVE  Kernel!Replay({results[c] : c \in C}, E)
           = {<<c, "evidence_incomplete">> : c \in {d \in C : raws[d] = Kernel!Nothing(FALSE)}}
<1>1. /\ DOMAIN results = C /\ DOMAIN facts = C
      /\ \A c \in C : facts[c] = BuiltOf(C, dimension).facts[c]
      /\ \A c \in C : results[c].code = c /\ results[c].factIds = {facts[c].id}
  <2>1. /\ DOMAIN results = C /\ facts = BuiltOf(C, dimension).facts
        /\ \A c \in C : results[c].code = c /\ results[c].factIds = {facts[c].id}
    BY ResultsOf
  <2>2. DOMAIN BuiltOf(C, dimension).facts = C
    BY DEF BuiltOf, Kernel!Build, DataOf
  <2>. QED BY <2>1, <2>2
<1>2. \A c \in C : /\ facts[c].code = c /\ facts[c].inputs = raws[c]
                   /\ facts[c].request = RequestOf(C, dimension)
                   /\ facts[c].id = <<c, MomentOf(C), RequestOf(C, dimension),
                                      Kernel!MixedReportPeriods(DataOf(C)), raws[c]>>
  BY <1>1, FactsOf
<1>3. E = {facts[c] : c \in C}
  BY <1>1 DEF Kernel!Cited
<1>4. \E c \in C : raws[c].fetched # NoValue
  BY <1>2, <1>3 DEF Kernel!Timed
<1>5. Kernel!Rebuilt(E) = BuiltOf(C, dimension)
  <2>1. E = {BuiltOf(C, dimension).facts[c] : c \in C}
    BY <1>1, <1>3
  <2>. QED BY <1>4, <2>1, RebuildsTheSame
<1>6. Kernel!Groups(E) = {E}
  <2>1. {e.request : e \in E} = {RequestOf(C, dimension)}
    BY <1>2, <1>3, <1>4
  <2>2. {e \in E : e.request = RequestOf(C, dimension)} = E
    BY <1>2, <1>3
  <2>. QED BY <2>1, <2>2 DEF Kernel!Groups
<1>7. \A c \in C : Kernel!EntryFor(results[c], E) = {facts[c]}
  <2>1. SUFFICES ASSUME NEW c \in C PROVE Kernel!EntryFor(results[c], E) = {facts[c]}
    OBVIOUS
  <2>2. \A d \in C : facts[d].id = facts[c].id => d = c
    BY <1>2
  <2>3. {e \in E : e.id \in results[c].factIds} = {facts[c]}
    BY <1>1, <1>3, <2>2
  <2>. QED BY <2>3 DEF Kernel!EntryFor
<1> DEFINE Verdict(r) ==
      IF {e \in Kernel!EntryFor(r, E) : e.inputs # Kernel!Nothing(FALSE)} = {}
      THEN {<<r.code, "evidence_incomplete">>}
      ELSE UNION {UNION {Kernel!Differences(r, e, Kernel!Rebuilt(g)) :
                           g \in {h \in Kernel!Groups(E) : e \in h}} :
                    e \in Kernel!EntryFor(r, E)}
<1>8. \A c \in C : Verdict(results[c])
                     = IF raws[c] = Kernel!Nothing(FALSE) THEN {<<c, "evidence_incomplete">>} ELSE {}
  <2>1. SUFFICES ASSUME NEW c \in C
                 PROVE Verdict(results[c]) = IF raws[c] = Kernel!Nothing(FALSE)
                                             THEN {<<c, "evidence_incomplete">>} ELSE {}
    BY Zenon
  <2>2. {e \in Kernel!EntryFor(results[c], E) : e.inputs # Kernel!Nothing(FALSE)}
          = IF raws[c] = Kernel!Nothing(FALSE) THEN {} ELSE {facts[c]}
    <3>1. facts[c].inputs = raws[c] /\ Kernel!EntryFor(results[c], E) = {facts[c]}
      BY <1>2, <1>7
    <3>. QED BY Zenon, <3>1
  <2>3. {h \in Kernel!Groups(E) : facts[c] \in h} = {E}
    BY <1>3, <1>6
  <2>4. Kernel!Differences(results[c], facts[c], Kernel!Rebuilt(E)) = {}
    BY <1>5, NothingDiffers
  <2>5. UNION {Kernel!Differences(results[c], facts[c], Kernel!Rebuilt(g)) :
                 g \in {h \in Kernel!Groups(E) : facts[c] \in h}} = {}
    BY <2>3, <2>4
  <2>6. UNION {UNION {Kernel!Differences(results[c], e, Kernel!Rebuilt(g)) :
                        g \in {h \in Kernel!Groups(E) : e \in h}} :
                 e \in Kernel!EntryFor(results[c], E)} = {}
    BY <1>7, <2>5
  <2>. QED BY <1>1, <2>2, <2>6
<1>9. Kernel!Replay({results[c] : c \in C}, E) = UNION {Verdict(r) : r \in {results[c] : c \in C}}
  BY DEF Kernel!Replay
<1>. HIDE DEF Verdict
<1>10. UNION {Verdict(r) : r \in {results[c] : c \in C}} = UNION {Verdict(results[c]) : c \in C}
  BY Zenon
<1>11. \A c \in C : Verdict(results[c]) = {x \in {<<c, "evidence_incomplete">>} :
                                              raws[c] = Kernel!Nothing(FALSE)}
  BY <1>8
<1>12. UNION {Verdict(results[c]) : c \in C}
         = {<<c, "evidence_incomplete">> : c \in {d \in C : raws[d] = Kernel!Nothing(FALSE)}}
  <2>1. ASSUME NEW x
        PROVE  (\E c \in C : x \in Verdict(results[c]))
                 <=> \E c \in C : raws[c] = Kernel!Nothing(FALSE) /\ x = <<c, "evidence_incomplete">>
    BY Zenon, <1>11
  <2>. QED BY <2>1
<1>. QED BY <1>9, <1>10, <1>12

\* A run whose facts carry a moment is reproduced by its replay, whatever was asked and
\* whatever the gateway delivered: at most the securities of which nothing was
\* delivered are reported (domains/research/replay.py:1-12, 188-319).
THEOREM ReplayGivesTheRun ==
  Spec => []ReplayReproduces
<1>0. KernelInputs
  BY ResearchAssumption DEF KernelInputs
<1>. USE <1>0
<1> DEFINE J == subject = "research" => KernelInv
<1>1. Init => J
  BY KernelInit DEF Init
<1>2. J /\ [Next]_vars => J'
  BY StepOfSubject, KernelKeeps
<1>3. J => ReplayReproduces
  <2>1. SUFFICES ASSUME KernelInv, stage = "replayed", Kernel!Timed(record.manifest.snapshots)
                 PROVE  Kernel!ReplayReproduces
    BY DEF ReplayReproduces, Kernel!ReplayReproduces
  <2>2. /\ verdict = Kernel!Replay({results[c] : c \in DOMAIN results}, Kernel!Cited(results, facts))
        /\ Kernel!Timed(Kernel!Cited(results, facts)) /\ DOMAIN results # {}
    BY <2>1 DEF KernelInv, AuditOf
  <2>3. PICK C \in SUBSET Codes : \E dimension : Evaluated(C, dimension)
    BY <2>1, <2>2 DEF KernelInv, Kernel!Empty
  <2>4. PICK dimension : Evaluated(C, dimension)
    BY <2>3
  <2>5. DOMAIN results = C
    BY <2>4, ResultsOf
  <2>. QED BY <2>1, <2>2, <2>4, <2>5, ReplayOfEvaluation DEF KernelInv, Kernel!ReplayReproduces
<1>. QED BY <1>1, <1>2, <1>3, PTL DEF Spec


-----------------------------------------------------------------------------

\* The cardinality the module was instantiated with is the one the library speaks of.
LEMMA KernelCardinality == ASSUME NEW S PROVE Kernel!Cardinality(S) = Cardinality(S)
BY Zenon DEF Kernel!Cardinality, Cardinality

Weekdays(first, last) == {x \in first .. last : x % 7 < 5}

\* With the day itself there is at most one weekday more than after it.
LEMMA OneMoreDay ==
  ASSUME NEW day \in Int, NEW moment \in Int, ~ (Kernel!TradingDays(day, moment) > 1)
  PROVE  Kernel!Cardinality(Weekdays(day, moment)) <= 2
<1> DEFINE After == Weekdays(day + 1, moment)
<1>1. IsFiniteSet(After) /\ Cardinality(After) \in Nat
  <2>1. IsFiniteSet(day + 1 .. moment)
    BY FS_Interval
  <2>2. After \subseteq day + 1 .. moment
    BY DEF Weekdays
  <2>. QED BY <2>1, <2>2, FS_Subset, FS_CardinalityType
<1>2. Cardinality(After) <= 1
  BY <1>1, KernelCardinality DEF Kernel!TradingDays, Weekdays
<1>3. Weekdays(day, moment) \subseteq After \cup {day}
  BY DEF Weekdays
<1>. HIDE DEF After
<1>4. IsFiniteSet(After \cup {day}) /\ Cardinality(After \cup {day}) \in Nat
      /\ Cardinality(After \cup {day}) <= Cardinality(After) + 1
  <2>1. /\ IsFiniteSet(After \cup {day})
        /\ Cardinality(After \cup {day})
             = IF day \in After THEN Cardinality(After) ELSE Cardinality(After) + 1
    BY <1>1, FS_AddElement
  <2>2. Cardinality(After \cup {day}) \in Nat
    BY <2>1, FS_CardinalityType
  <2>. QED BY <1>1, <2>1, <2>2
<1>5. Cardinality(Weekdays(day, moment)) <= Cardinality(After \cup {day})
      /\ Cardinality(Weekdays(day, moment)) \in Nat
  BY <1>3, <1>4, FS_Subset, FS_CardinalityType
<1>6. Cardinality(Weekdays(day, moment)) <= 2
  BY <1>1, <1>2, <1>4, <1>5
<1>. QED BY <1>6, KernelCardinality

LEMMA FreshIsRecent ==
  ASSUME NoValue \notin Int, NEW day \in Int \cup {NoValue}, NEW moment \in Int,
         NEW missing, NEW stale, Kernel!Freshness(day, moment, missing, stale) = {}
  PROVE  day \in Int /\ Kernel!Cardinality(Weekdays(day, moment)) <= 2
<1>1. day # NoValue /\ ~ (Kernel!TradingDays(day, moment) > 1)
  BY DEF Kernel!Freshness
<1>. QED BY <1>1, OneMoreDay

\* Two different periods would be a mix.
LEMMA OnePeriod ==
  ASSUME NEW C, IsFiniteSet(C), Kernel!MixedReportPeriods(DataOf(C)) = {},
         NEW c \in C, NEW d \in C, raws[c].end # NoValue, raws[d].end # NoValue
  PROVE  raws[c].end = raws[d].end
<1> DEFINE ends == [k \in C |-> raws[k].end]
           all == {ends[k] : k \in C}
           some == all \ {NoValue}
<1>1. {DataOf(C)[k].end : k \in DOMAIN DataOf(C)} \ {NoValue} = some
  BY DEF DataOf
<1>2. ~ (Cardinality(some) > 1)
  BY <1>1, KernelCardinality DEF Kernel!MixedReportPeriods
<1>3. IsFiniteSet(some)
  <2>. HIDE DEF ends
  <2>1. ends \in [C -> all] /\ \A t \in all : \E k \in C : ends[k] = t
    BY DEF ends
  <2>2. IsFiniteSet(all)
    BY <2>1, FiniteImage
  <2>. QED BY <2>2, FS_Subset
<1>4. {raws[c].end, raws[d].end} \subseteq some
  OBVIOUS
<1>. HIDE DEF some
<1>5. SUFFICES ASSUME raws[c].end # raws[d].end PROVE FALSE
  OBVIOUS
<1>6. Cardinality({raws[c].end, raws[d].end}) = 2
  <2>1. PICK one : one = {raws[c].end}
    OBVIOUS
  <2>2. IsFiniteSet(one) /\ Cardinality(one) = 1
    BY <2>1, FS_Singleton
  <2>3. Cardinality(one \cup {raws[d].end})
          = IF raws[d].end \in one THEN Cardinality(one) ELSE Cardinality(one) + 1
    BY <2>2, FS_AddElement
  <2>4. Cardinality(one \cup {raws[d].end}) = 2
    BY <1>5, <2>1, <2>2, <2>3
  <2>5. one \cup {raws[d].end} = {raws[c].end, raws[d].end}
    BY <2>1
  <2>. QED BY <2>4, <2>5
<1>7. Cardinality(some) \in Nat /\ 2 <= Cardinality(some)
  BY <1>3, <1>4, <1>6, FS_Subset, FS_CardinalityType
<1>. QED BY <1>2, <1>7

\* A conclusion that says something rests on a batch whose gates were all open.
LEMMA GatesAreOpen ==
  ASSUME NEW C, NEW dimension, NEW c \in C,
         Kernel!Assess(BuiltOf(C, dimension), c, dimension).action # "insufficient_data"
  PROVE  /\ Kernel!MixedReportPeriods(DataOf(C)) = {}
         /\ \A d \in C : Kernel!Missing(raws[d], MomentOf(C)) = {}
<1> DEFINE built == BuiltOf(C, dimension)
<1>1. built.status # "critical_missing"
  <2>. HIDE DEF built
  <2>. QED BY DEF built, Kernel!Assess, Kernel!BatchQuality
<1>2. /\ built.status = Kernel!Status(built.missing, built.warnings)
      /\ built.missing = Kernel!MixedReportPeriods(DataOf(C))
           \cup UNION {Kernel!Missing(raws[d], MomentOf(C)) : d \in C}
  <2>1. DOMAIN DataOf(C) = C /\ \A d \in C : DataOf(C)[d] = raws[d]
    BY DEF DataOf
  <2>2. built = BuiltAt(RequestOf(C, dimension), DataOf(C), Kernel!EvaluatedAt(DataOf(C), NoValue))
    BY BuildIsBuiltAt DEF BuiltOf
  <2>. HIDE DEF built
  <2>. QED BY <2>1, <2>2 DEF BuiltAt, MomentOf
<1>. HIDE DEF built
<1>3. built.missing = {}
  BY <1>1, <1>2 DEF Kernel!Status
<1>. QED BY <1>2, <1>3

LEMMA OpenGatesMean ==
  ASSUME NoValue \notin Int, NEW raw, NEW moment \in Int, raw.error \in BOOLEAN,
         raw.adjusted \in BOOLEAN, {raw.quote, raw.lastBar} \subseteq Int \cup {NoValue},
         Kernel!Missing(raw, moment) = {}
  PROVE  /\ raw.adjusted /\ ~ raw.error
         /\ \A day \in {raw.quote, raw.lastBar} :
              day \in Int /\ Kernel!Cardinality(Weekdays(day, moment)) <= 2
<1>1. /\ (IF raw.error THEN {"stock_data"} ELSE {}) = {}
      /\ (IF raw.adjusted THEN {} ELSE {"adjusted_history"}) = {}
      /\ Kernel!Freshness(raw.quote, moment, "quote_as_of_missing", "stale_quote") = {}
      /\ Kernel!Freshness(raw.lastBar, moment, "history_as_of_missing", "stale_history") = {}
  BY Zenon DEF Kernel!Missing
<1>2. raw.adjusted /\ ~ raw.error
  BY <1>1
<1>. QED BY <1>1, <1>2, FreshIsRecent

\* What such a conclusion rests on in the security's own data.
LEMMA OwnDataMean ==
  ASSUME NEW C, NEW dimension, NEW c \in C,
         NEW a, a = Kernel!Assess(BuiltOf(C, dimension), c, dimension),
         a.action # "insufficient_data"
  PROVE  /\ raws[c].closes >= 60
         /\ dimension # "technical" =>
              \A f \in Kernel!ToSet(Kernel!FundamentalInputs) : raws[c][f] = NoValue =>
                {<<"fundamental", f>>, <<"fundamental", "metrics">>} \cap a.gaps # {}
<1> DEFINE selected == Kernel!Selected(dimension)
           scores == Kernel!BuildScores(raws[c])
           shown == [d \in {"fundamental", "technical", "risk"} |->
                       IF d \in selected THEN scores[d] ELSE NoValue]
<1>1. a.action = Kernel!DecideAction(shown, selected)
      /\ a.gaps = Kernel!Visible(scores.gaps, selected)
  <2>1. BuiltOf(C, dimension).facts[c].inputs = raws[c]
    BY FactsOf
  <2>. QED BY <2>1 DEF Kernel!Assess
<1>2. shown.risk # NoValue
  <2>. HIDE DEF shown, selected
  <2>. QED BY <1>1 DEF Kernel!DecideAction
<1>3. scores.risk # NoValue
  BY <1>2
<1>4. raws[c].closes >= 60
  <2>. QED BY <1>3 DEF Kernel!BuildScores
<1>5. ASSUME dimension # "technical", NEW f \in Kernel!ToSet(Kernel!FundamentalInputs),
             raws[c][f] = NoValue
      PROVE  {<<"fundamental", f>>, <<"fundamental", "metrics">>} \cap a.gaps # {}
  <2>1. "fundamental" \in selected
    BY <1>5 DEF Kernel!Selected
  <2>2. <<"fundamental", f>> \in scores.gaps \/ <<"fundamental", "metrics">> \in scores.gaps
    BY <1>5 DEF Kernel!BuildScores
  <2>. HIDE DEF scores, selected
  <2>. QED BY <1>1, <2>1, <2>2 DEF Kernel!Visible
<1>. QED BY <1>4, <1>5


\* No conclusion rests on data that a gate should have stopped, whatever was asked and
\* whatever the gateway delivered (rule_engine.py:134-207, scoring.py:168-175).
THEOREM ConclusionsRestOnGoodData ==
  Spec => []ConclusionsAreFounded
<1>0. KernelInputs
  BY ResearchAssumption DEF KernelInputs
<1>. USE <1>0
<1> DEFINE J == subject = "research" => KernelInv
<1>1. Init => J
  BY KernelInit DEF Init
<1>2. J /\ [Next]_vars => J'
  BY StepOfSubject, KernelKeeps
<1>3. J => ConclusionsAreFounded
  <2>1. SUFFICES ASSUME KernelInv, NEW c \in DOMAIN results, Kernel!Conclusive(results[c])
                 PROVE  LET moment == facts[c].evaluatedAt IN
                        /\ \A d \in DOMAIN results :
                             /\ raws[d].adjusted /\ ~raws[d].error
                             /\ {raws[d].quote, raws[d].lastBar} \cap {NoValue} = {}
                             /\ \A day \in {raws[d].quote, raws[d].lastBar} :
                                  Kernel!Cardinality({x \in day .. moment : x % 7 < 5}) <= 2
                             /\ {raws[c].end, raws[d].end} \cap {NoValue} = {}
                                  => raws[c].end = raws[d].end
                        /\ raws[c].closes >= 60
                        /\ results[c].dimension # "technical" =>
                             \A f \in Kernel!ToSet(Kernel!FundamentalInputs) :
                               raws[c][f] = NoValue =>
                                 {<<"fundamental", f>>, <<"fundamental", "metrics">>}
                                     \cap results[c].assessment.gaps # {}
    BY Zenon DEF ConclusionsAreFounded, Kernel!ConclusionsAreFounded
  <2>2. PICK C \in SUBSET Codes : \E dimension : Evaluated(C, dimension)
    BY <2>1 DEF KernelInv, Kernel!Empty
  <2>3. PICK dimension : Evaluated(C, dimension)
    BY <2>2
  <2>4. /\ DOMAIN results = C /\ c \in C /\ results[c].dimension = dimension
        /\ facts[c] = BuiltOf(C, dimension).facts[c]
        /\ results[c].assessment = Kernel!Assess(BuiltOf(C, dimension), c, dimension)
    BY <2>1, <2>3, ResultsOf
  <2>5. results[c].assessment.action # "insufficient_data"
    BY <2>1 DEF Kernel!Conclusive
  <2>6. facts[c].evaluatedAt = MomentOf(C) /\ MomentOf(C) \in Int
    <3>1. raws \in [Codes -> Raws]
      BY <2>1 DEF KernelInv
    <3>2. BuiltOf(C, dimension).facts[c].evaluatedAt = MomentOf(C)
      BY <2>4, FactsOf
    <3>3. MomentOf(C) \in Int
      BY <3>1, MomentOfData DEF MomentOf
    <3>. QED BY <2>4, <3>2, <3>3
  <2>7. /\ Kernel!MixedReportPeriods(DataOf(C)) = {}
        /\ \A d \in C : Kernel!Missing(raws[d], MomentOf(C)) = {}
    BY <2>4, <2>5, GatesAreOpen
  <2>8. ASSUME NEW d \in C
        PROVE  /\ raws[d].adjusted /\ ~raws[d].error
               /\ \A day \in {raws[d].quote, raws[d].lastBar} :
                    day \in Int /\ Kernel!Cardinality(Weekdays(day, MomentOf(C))) <= 2
               /\ {raws[c].end, raws[d].end} \cap {NoValue} = {} => raws[c].end = raws[d].end
    <3>1. raws[d] \in Raws /\ IsFiniteSet(C)
      BY <2>1, FS_Subset DEF KernelInv, KernelInputs
    <3>2. /\ {raws[d].quote, raws[d].lastBar} \subseteq Int \cup {NoValue}
          /\ raws[d].error \in BOOLEAN /\ raws[d].adjusted \in BOOLEAN /\ NoValue \notin Int
      BY <3>1 DEF KernelInputs
    <3>3. Kernel!Missing(raws[d], MomentOf(C)) = {}
      BY <2>7
    <3>4. PICK raw : raw = raws[d]
      OBVIOUS
    <3>5. /\ raw.adjusted /\ ~raw.error
          /\ \A day \in {raw.quote, raw.lastBar} :
               day \in Int /\ Kernel!Cardinality(Weekdays(day, MomentOf(C))) <= 2
      BY <2>6, <3>2, <3>3, <3>4, OpenGatesMean
    <3>6. {raws[c].end, raws[d].end} \cap {NoValue} = {} => raws[c].end = raws[d].end
      BY <2>4, <2>7, <3>1, OnePeriod
    <3>. QED BY <3>4, <3>5, <3>6
  <2>9. /\ raws[c].closes >= 60
        /\ dimension # "technical" =>
             \A f \in Kernel!ToSet(Kernel!FundamentalInputs) : raws[c][f] = NoValue =>
               {<<"fundamental", f>>, <<"fundamental", "metrics">>}
                   \cap results[c].assessment.gaps # {}
    BY <2>4, <2>5, OwnDataMean
  <2>10. ASSUME NEW d \in C
         PROVE  /\ {raws[d].quote, raws[d].lastBar} \cap {NoValue} = {}
                /\ \A day \in {raws[d].quote, raws[d].lastBar} :
                     Kernel!Cardinality({x \in day .. MomentOf(C) : x % 7 < 5}) <= 2
    BY <2>8 DEF KernelInputs, Weekdays
  <2>. QED BY <2>4, <2>6, <2>8, <2>9, <2>10
<1>. QED BY <1>1, <1>2, <1>3, PTL DEF Spec


-----------------------------------------------------------------------------
(* Compliance: texts as sequences, cut, put together and looked through.   *)

\* Induction on the natural numbers, for a set of them.
LEMMA NaturalsBySteps ==
  ASSUME NEW S \in SUBSET Nat, 0 \in S, \A n \in S : n + 1 \in S
  PROVE  S = Nat
<1>1. SUFFICES ASSUME Nat \ S # {} PROVE FALSE
  OBVIOUS
<1>2. PICK x \in Nat \ S : \A y \in Nat \ S : x <= y
  <2>1. Nat \ S \subseteq Nat
    OBVIOUS
  <2>. QED BY <1>1, <2>1, SmallestNumber
<1>3. x - 1 \in Nat \ S
  BY <1>2
<1>. QED BY <1>2, <1>3

\* The fold that drops the elements at some indices, from the highest index down.
Ids(text) == [i \in DOMAIN text |-> i]

Unfolded(text, indices, it, s) ==
  IF s = {} THEN <<>>
  ELSE IF Ids(text)[Exit!Max(s)] \in indices THEN it[s \ {Exit!Max(s)}]
  ELSE Append(it[s \ {Exit!Max(s)}], text[Ids(text)[Exit!Max(s)]])

Kept(text, indices) ==
  CHOOSE it : it = [s \in SUBSET DOMAIN Ids(text) |-> Unfolded(text, indices, it, s)]

LEMMA WithoutIsKept ==
  ASSUME NEW text, NEW indices
  PROVE  Exit!Without(text, indices) = Kept(text, indices)[DOMAIN Ids(text)]
BY Zenon DEF Exit!Without, Exit!FoldLeftDomain, Exit!FoldLeft, Exit!MapThenFoldSet,
             Kept, Unfolded, Ids

LEMMA LargestIsMember ==
  ASSUME NEW S, \A x \in S : x \in Int, IsFiniteSet(S), S # {}
  PROVE  Exit!Max(S) \in S /\ \A x \in S : x <= Exit!Max(S)
<1>1. HasLargest(S)
  BY LargestNumber
<1>. QED BY <1>1 DEF HasLargest, Exit!Max

LEMMA KeptAt ==
  ASSUME NEW text, NEW indices, NEW D, D = DOMAIN text, IsFiniteSet(D),
         \A x \in D : x \in Int
  PROVE  \A s \in SUBSET D :
           Kept(text, indices)[s] = Unfolded(text, indices, Kept(text, indices), s)
<1> DEFINE Few(k) == {s \in SUBSET D : Cardinality(s) <= k}
           Solves(it, k) == it = [s \in Few(k) |-> Unfolded(text, indices, it, s)]
           N == {k \in Nat : \E it : Solves(it, k)}
<1>1. IsFiniteSet(D) /\ Cardinality(D) \in Nat
  BY FS_CardinalityType
<1>2. \A s \in SUBSET D : IsFiniteSet(s) /\ Cardinality(s) \in Nat
  BY <1>1, FS_Subset, FS_CardinalityType
<1>3. \A s \in SUBSET D : s # {} => Exit!Max(s) \in s
  <2>1. ASSUME NEW s, s \subseteq D, s # {} PROVE Exit!Max(s) \in s
    <3>1. IsFiniteSet(s) /\ \A x \in s : x \in Int
      BY <1>2, <2>1
    <3>. QED BY <2>1, <3>1, LargestIsMember
  <2>. QED BY <2>1
<1>4. 0 \in N
  <2> DEFINE it == [s \in Few(0) |-> <<>>]
  <2>1. \A s \in Few(0) : s = {}
    BY <1>2, FS_EmptySet
  <2>2. \A s \in Few(0) : Unfolded(text, indices, it, s) = <<>>
    BY <2>1 DEF Unfolded
  <2>3. Solves(it, 0)
    BY <2>2
  <2>. QED BY <2>3
<1>5. ASSUME NEW k \in N PROVE k + 1 \in N
  <2>1. PICK it : Solves(it, k)
    OBVIOUS
  <2>. HIDE DEF Solves
  <2> DEFINE jt == [s \in Few(k + 1) |-> Unfolded(text, indices, it, s)]
  <2>2. ASSUME NEW s \in Few(k + 1)
        PROVE  Unfolded(text, indices, jt, s) = Unfolded(text, indices, it, s)
    <3>1. CASE s = {}
      BY <3>1 DEF Unfolded
    <3>2. CASE s # {}
      <4> DEFINE r == s \ {Exit!Max(s)}
      <4>1. Exit!Max(s) \in s /\ IsFiniteSet(s)
        BY <3>2, <1>2, <1>3
      <4>2. Cardinality(r) = Cardinality(s) - 1
        BY <4>1, FS_RemoveElement
      <4>3. r \in Few(k) /\ r \in Few(k + 1)
        <5>1. s \in SUBSET D /\ Cardinality(s) <= k + 1 /\ k \in Nat /\ Cardinality(s) \in Nat
          BY <1>2
        <5>2. r \in SUBSET D
          BY <5>1
        <5>. HIDE DEF r
        <5>3. Cardinality(r) <= k /\ Cardinality(r) <= k + 1
          BY <4>2, <5>1
        <5>. QED BY <5>2, <5>3
      <4>4. it[r] = Unfolded(text, indices, it, r)
        BY <2>1, <4>3 DEF Solves
      <4>5. jt[r] = it[r]
        BY <4>3, <4>4
      <4>. QED BY <3>2, <4>5 DEF Unfolded
    <3>. QED BY <3>1, <3>2
  <2>3. jt = [s \in Few(k + 1) |-> Unfolded(text, indices, jt, s)]
    BY <2>2
  <2>4. Solves(jt, k + 1)
    BY <2>3 DEF Solves
  <2>. QED BY <2>4
<1>6. N = Nat
  BY <1>4, <1>5, NaturalsBySteps
<1>7. PICK it : Solves(it, Cardinality(D))
  BY <1>6, <1>1
<1>8. Few(Cardinality(D)) = SUBSET D
  BY <1>1, <1>2, FS_Subset
<1>9. it = [s \in SUBSET D |-> Unfolded(text, indices, it, s)]
  BY <1>7, <1>8
<1>10. DOMAIN Ids(text) = D
  BY DEF Ids
<1> DEFINE P == Kept(text, indices)
<1>11. P = [s \in SUBSET D |-> Unfolded(text, indices, P, s)]
  BY <1>9, <1>10 DEF Kept
<1>. HIDE DEF P
<1>12. \A s \in SUBSET D : P[s] = Unfolded(text, indices, P, s)
  BY <1>11, Zenon
<1>. QED BY <1>12 DEF P

\* What is left of a sequence is a sequence of the same.
LEMMA WithoutIsText ==
  ASSUME NEW T, NEW text \in Seq(T), NEW indices
  PROVE  Exit!Without(text, indices) \in Seq(T)
<1>1. PICK D : D = DOMAIN text
  OBVIOUS
<1>2. IsFiniteSet(D) /\ (\A x \in D : x \in Int) /\ \A x \in D : text[x] \in T
  <2>1. Len(text) \in Nat /\ D = 1 .. Len(text)
    BY <1>1, LenProperties
  <2>2. IsFiniteSet(D)
    BY <2>1, FS_Interval
  <2>. QED BY <2>1, <2>2
<1> DEFINE K == Kept(text, indices)
           Bad == {s \in SUBSET D : K[s] \notin Seq(T)}
<1>3. \A s \in SUBSET D : K[s] = Unfolded(text, indices, K, s)
  BY <1>1, <1>2, KeptAt
<1>4. Bad = {}
  <2>1. SUFFICES ASSUME Bad # {} PROVE FALSE
    OBVIOUS
  <2>2. PICK b \in Bad : \A t \in Bad : t \subseteq b => t = b
    <3>1. Bad \in SUBSET (SUBSET D)
      OBVIOUS
    <3>. HIDE DEF Bad
    <3>2. \E b \in Bad : \A t \in Bad : t \subseteq b => t = b
      BY <1>2, <2>1, <3>1, SmallestOfSets
    <3>. QED BY <3>2
  <2>3. K[b] = Unfolded(text, indices, K, b) /\ K[b] \notin Seq(T) /\ b \subseteq D
    BY <1>3
  <2>4. b # {}
    BY <2>3, EmptySeq DEF Unfolded
  <2>5. Exit!Max(b) \in b /\ Exit!Max(b) \in D
    <3>1. IsFiniteSet(b) /\ \A x \in b : x \in Int
      BY <1>2, <2>3, FS_Subset
    <3>. QED BY <2>3, <2>4, <3>1, LargestIsMember
  <2>6. K[b \ {Exit!Max(b)}] \in Seq(T)
    BY <2>2, <2>5
  <2>7. Ids(text)[Exit!Max(b)] = Exit!Max(b) /\ text[Exit!Max(b)] \in T
    BY <1>1, <1>2, <2>5 DEF Ids
  <2>. HIDE DEF K, Bad
  <2>8. Append(K[b \ {Exit!Max(b)}], text[Exit!Max(b)]) \in Seq(T)
    BY <2>6, <2>7, AppendProperties
  <2>. QED BY <2>3, <2>4, <2>6, <2>7, <2>8 DEF Unfolded
<1>5. K[D] \in Seq(T)
  BY <1>4
<1>6. DOMAIN Ids(text) = D
  BY <1>1 DEF Ids
<1>. QED BY <1>5, <1>6, WithoutIsKept

\* Nothing is left out where nothing is named.
LEMMA WithoutNothing ==
  ASSUME NEW T, NEW text \in Seq(T)
  PROVE  Exit!Without(text, {}) = text
<1> DEFINE n == Len(text)
           K == Kept(text, {})
           N == {k \in Nat : k <= n => K[1 .. k] = SubSeq(text, 1, k)}
<1>1. n \in Nat /\ DOMAIN text = 1 .. n
  BY LenProperties
<1>2. \A s \in SUBSET (1 .. n) : K[s] = Unfolded(text, {}, K, s)
  <2>1. IsFiniteSet(1 .. n)
    BY <1>1, FS_Interval
  <2>2. \A x \in 1 .. n : x \in Int
    BY <1>1
  <2>. QED BY <1>1, <2>1, <2>2, KeptAt
<1>3. 0 \in N
  <2>1. 1 .. 0 = {} /\ SubSeq(text, 1, 0) = <<>>
    BY SubSeqEmpty
  <2>2. K[{}] = <<>>
    BY <1>2 DEF Unfolded
  <2>. HIDE DEF K
  <2>. QED BY <2>1, <2>2
<1>4. ASSUME NEW k \in N PROVE k + 1 \in N
  <2>1. SUFFICES ASSUME k + 1 <= n PROVE K[1 .. k + 1] = SubSeq(text, 1, k + 1)
    OBVIOUS
  <2>2. k \in Nat /\ k <= n /\ K[1 .. k] = SubSeq(text, 1, k)
    BY <1>1, <2>1
  <2>3. Exit!Max(1 .. k + 1) = k + 1
    <3>1. IsFiniteSet(1 .. k + 1) /\ 1 .. k + 1 # {} /\ \A x \in 1 .. k + 1 : x \in Int
      <4>1. 1 \in Int /\ k + 1 \in Int /\ 1 \in 1 .. k + 1
        BY <2>2
      <4>2. IsFiniteSet(1 .. k + 1)
        BY <4>1, FS_Interval
      <4>3. 1 .. k + 1 # {}
        BY <4>1
      <4>4. \A x \in 1 .. k + 1 : x \in Int
        OBVIOUS
      <4>. QED BY <4>2, <4>3, <4>4
    <3>2. Exit!Max(1 .. k + 1) \in 1 .. k + 1 /\ \A x \in 1 .. k + 1 : x <= Exit!Max(1 .. k + 1)
      BY <3>1, LargestIsMember
    <3>. QED BY <2>2, <3>2
  <2>4. (1 .. k + 1) \ {k + 1} = 1 .. k
    BY <2>2
  <2>5. Ids(text)[k + 1] = k + 1
    BY <1>1, <2>1, <2>2 DEF Ids
  <2>6. 1 .. k + 1 \in SUBSET (1 .. n) /\ 1 .. k + 1 # {}
    BY <1>1, <2>1, <2>2
  <2>7. K[1 .. k + 1] = Unfolded(text, {}, K, 1 .. k + 1)
    BY <1>2, <2>6
  <2>. HIDE DEF K, n
  <2>8. K[1 .. k + 1] = Append(SubSeq(text, 1, k), text[k + 1])
    BY <2>2, <2>3, <2>4, <2>5, <2>6, <2>7 DEF Unfolded
  <2>9. SubSeq(text, 1, k + 1) = Append(SubSeq(text, 1, k), text[k + 1])
    BY <1>1, <2>1, <2>2 DEF n
  <2>. QED BY <2>8, <2>9
<1>5. N = Nat
  <2>. HIDE DEF N
  <2>1. N \in SUBSET Nat
    BY DEF N
  <2>. QED BY <1>3, <1>4, <2>1, NaturalsBySteps
<1>6. K[1 .. n] = SubSeq(text, 1, n)
  BY <1>1, <1>5
<1>7. DOMAIN Ids(text) = 1 .. n
  BY <1>1 DEF Ids
<1>8. SubSeq(text, 1, n) = text
  BY SubSeqFull
<1>. QED BY <1>6, <1>7, <1>8, WithoutIsKept


\* Putting a sequence of texts together, from the first on.
Join(texts, f, i) == IF i = 1 THEN texts[i] ELSE f[i - 1] \o texts[i]

Joined(texts) == CHOOSE f : f = [i \in 1 .. Len(texts) |-> Join(texts, f, i)]

LEMMA FlattenIsJoined ==
  ASSUME NEW texts, Len(texts) # 0
  PROVE  Exit!FlattenSeq(texts) = Joined(texts)[Len(texts)]
BY Zenon DEF Exit!FlattenSeq, Joined, Join

LEMMA JoinedAt ==
  ASSUME NEW texts, NEW n \in Nat, Len(texts) = n
  PROVE  \A i \in 1 .. n : Joined(texts)[i] = Join(texts, Joined(texts), i)
<1> DEFINE Solves(f, k) == f = [i \in 1 .. k |-> Join(texts, f, i)]
           N == {k \in Nat : \E f : Solves(f, k)}
<1>1. 0 \in N
  <2> DEFINE f == [i \in 1 .. 0 |-> <<>>]
  <2>1. Solves(f, 0)
    OBVIOUS
  <2>. QED BY <2>1
<1>2. ASSUME NEW k \in N PROVE k + 1 \in N
  <2>1. PICK f : Solves(f, k)
    OBVIOUS
  <2> DEFINE g == [i \in 1 .. k + 1 |-> Join(texts, f, i)]
  <2>2. ASSUME NEW i \in 1 .. k + 1 PROVE Join(texts, g, i) = Join(texts, f, i)
    <3>1. CASE i = 1
      BY <3>1 DEF Join
    <3>2. CASE i # 1
      <4>1. i - 1 \in 1 .. k /\ i - 1 \in 1 .. k + 1
        BY <3>2
      <4>2. f[i - 1] = Join(texts, f, i - 1)
        BY <2>1, <4>1
      <4>3. g[i - 1] = f[i - 1]
        BY <4>1, <4>2
      <4>. HIDE DEF g
      <4>. QED BY <3>2, <4>3 DEF Join
    <3>. QED BY <3>1, <3>2
  <2>3. Solves(g, k + 1)
    BY <2>2
  <2>. HIDE DEF Solves, g
  <2>. QED BY <2>3
<1>3. N = Nat
  <2>. HIDE DEF N
  <2>1. N \in SUBSET Nat
    BY DEF N
  <2>. QED BY <1>1, <1>2, <2>1, NaturalsBySteps
<1>4. PICK f : Solves(f, n)
  <2>. HIDE DEF Solves
  <2>. QED BY <1>3
<1> DEFINE J == Joined(texts)
<1>5. J = [i \in 1 .. n |-> Join(texts, J, i)]
  BY <1>4 DEF Joined
<1>. HIDE DEF J
<1>6. \A i \in 1 .. n : J[i] = Join(texts, J, i)
  BY <1>5, Zenon
<1>. QED BY <1>6 DEF J

\* The part of a text from lo to hi stands in another text, word for word.
Stands(x, lo, hi, y) ==
  \E b \in Nat : b + hi - lo + 1 <= Len(y) /\ \A k \in 0 .. hi - lo : y[b + 1 + k] = x[lo + k]

LEMMA StandsIsSubSeq ==
  ASSUME NEW T, NEW x \in Seq(T), NEW y \in Seq(T), NEW lo \in 1 .. Len(x), NEW hi \in lo .. Len(x),
         Stands(x, lo, hi, y)
  PROVE  SubSeq(x, lo, hi) \in Exit!SubSeqs(y)
<1>1. PICK b \in Nat : b + hi - lo + 1 <= Len(y) /\ \A k \in 0 .. hi - lo : y[b + 1 + k] = x[lo + k]
  BY DEF Stands
<1>2. Len(x) \in Nat /\ Len(y) \in Nat /\ lo \in Nat /\ hi \in Nat
  BY LenProperties
<1> DEFINE j == b + hi - lo + 1
<1>3. b \in 0 .. Len(y) /\ j \in 0 .. Len(y)
  BY <1>1, <1>2
<1>4. SubSeq(x, lo, hi) = SubSeq(y, b + 1, j)
  <2>1. \A i \in lo .. hi : x[i] \in T
    BY <1>2, ElementOfSeq
  <2>2. \A i \in b + 1 .. j : y[i] \in T
    BY <1>1, <1>2, ElementOfSeq
  <2>3. /\ SubSeq(x, lo, hi) \in Seq(T) /\ Len(SubSeq(x, lo, hi)) = hi - lo + 1
        /\ \A i \in 1 .. hi - lo + 1 : SubSeq(x, lo, hi)[i] = x[lo + i - 1]
    BY <1>2, <2>1, SubSeqProperties
  <2>4. /\ SubSeq(y, b + 1, j) \in Seq(T) /\ Len(SubSeq(y, b + 1, j)) = hi - lo + 1
        /\ \A i \in 1 .. hi - lo + 1 : SubSeq(y, b + 1, j)[i] = y[b + 1 + i - 1]
    <3>1. b + 1 \in Nat /\ j \in Nat /\ b + 1 <= j + 1 /\ j - (b + 1) + 1 = hi - lo + 1
      BY <1>2
    <3>. HIDE DEF j
    <3>. QED BY <2>2, <3>1, SubSeqProperties
  <2>5. ASSUME NEW i \in 1 .. hi - lo + 1 PROVE SubSeq(x, lo, hi)[i] = SubSeq(y, b + 1, j)[i]
    <3>1. i - 1 \in 0 .. hi - lo
      BY <1>2
    <3>2. y[b + 1 + (i - 1)] = x[lo + (i - 1)]
      BY <1>1, <3>1
    <3>3. b + 1 + (i - 1) = b + 1 + i - 1 /\ lo + (i - 1) = lo + i - 1
      BY <1>2
    <3>. QED BY <2>3, <2>4, <3>2, <3>3
  <2>. HIDE DEF j
  <2>. QED BY <2>3, <2>4, <2>5, SeqEqual
<1>5. \E m, k \in 0 .. Len(y) : SubSeq(x, lo, hi) = SubSeq(y, m + 1, k)
  <2>. HIDE DEF j
  <2>. QED BY <1>3, <1>4
<1>6. PICK m \in 0 .. Len(y), k \in 0 .. Len(y) : SubSeq(x, lo, hi) = SubSeq(y, m + 1, k)
  BY <1>5
<1>7. SubSeq(y, m + 1, k) \in Exit!SubSeqs(y)
  BY DEF Exit!SubSeqs
<1>. QED BY <1>6, <1>7

\* A text stands in everything it is joined into.
LEMMA PartsStand ==
  ASSUME NEW T, NEW texts \in Seq(Seq(T)), NEW i \in 1 .. Len(texts),
         NEW lo \in 1 .. Len(texts[i]), NEW hi \in lo .. Len(texts[i])
  PROVE  Exit!FlattenSeq(texts) \in Seq(T) /\ Stands(texts[i], lo, hi, Exit!FlattenSeq(texts))
<1> DEFINE n == Len(texts)
           J == Joined(texts)
           N == {k \in Nat : k + 1 <= n => /\ J[k + 1] \in Seq(T)
                                           /\ i <= k + 1 => Stands(texts[i], lo, hi, J[k + 1])}
<1>1. /\ n \in Nat /\ n # 0 /\ i \in Nat /\ texts[i] \in Seq(T) /\ Len(texts[i]) \in Nat
      /\ \A k \in 1 .. n : texts[k] \in Seq(T)
  BY LenProperties, ElementOfSeq
<1>2. \A k \in 1 .. n : J[k] = IF k = 1 THEN texts[k] ELSE J[k - 1] \o texts[k]
  BY <1>1, JoinedAt DEF Join
<1>3. lo \in Nat /\ hi \in Nat /\ 1 <= lo /\ lo <= hi /\ hi <= Len(texts[i])
  BY <1>1
<1>. HIDE DEF J, n
<1>4. ASSUME NEW k \in 1 .. n, J[k] = texts[k] \/ \E y \in Seq(T) : J[k] = y \o texts[k]
      PROVE  J[k] \in Seq(T) /\ (i = k => Stands(texts[i], lo, hi, J[k]))
  <2>1. CASE J[k] = texts[k]
    <3>1. ASSUME i = k PROVE Stands(texts[i], lo, hi, J[k])
      <4>1. /\ 0 \in Nat /\ lo - 1 \in Nat /\ lo - 1 + hi - lo + 1 <= Len(J[k])
            /\ \A m \in 0 .. hi - lo : J[k][lo - 1 + 1 + m] = texts[i][lo + m]
        BY <1>1, <1>3, <2>1, <3>1
      <4>. QED BY <4>1 DEF Stands
    <3>. QED BY <1>1, <2>1, <3>1
  <2>2. CASE \E y \in Seq(T) : J[k] = y \o texts[k]
    <3>1. PICK y \in Seq(T) : J[k] = y \o texts[k]
      BY <2>2
    <3>2. /\ J[k] \in Seq(T) /\ Len(J[k]) = Len(y) + Len(texts[k]) /\ Len(y) \in Nat
          /\ \A m \in 1 .. Len(y) + Len(texts[k]) :
               J[k][m] = IF m <= Len(y) THEN y[m] ELSE texts[k][m - Len(y)]
      BY <1>1, <3>1, ConcatProperties, LenProperties
    <3>3. ASSUME i = k PROVE Stands(texts[i], lo, hi, J[k])
      <4>1. Len(y) + lo - 1 \in Nat /\ Len(y) + lo - 1 + hi - lo + 1 <= Len(J[k])
        BY <1>1, <1>3, <3>2, <3>3
      <4>2. ASSUME NEW m \in 0 .. hi - lo
            PROVE  J[k][Len(y) + lo - 1 + 1 + m] = texts[i][lo + m]
        <5>1. /\ Len(y) + lo - 1 + 1 + m \in 1 .. Len(y) + Len(texts[k])
              /\ ~ (Len(y) + lo - 1 + 1 + m <= Len(y))
              /\ Len(y) + lo - 1 + 1 + m - Len(y) = lo + m
          BY <1>1, <1>3, <3>2, <3>3
        <5>. QED BY <3>2, <3>3, <5>1
      <4>. QED BY <4>1, <4>2 DEF Stands
    <3>. QED BY <3>2, <3>3
  <2>. QED BY <1>4, <2>1, <2>2
<1>5. ASSUME NEW y \in Seq(T), NEW z \in Seq(T), Stands(texts[i], lo, hi, y)
      PROVE  Stands(texts[i], lo, hi, y \o z)
  <2>1. PICK b \in Nat : /\ b + hi - lo + 1 <= Len(y)
                         /\ \A k \in 0 .. hi - lo : y[b + 1 + k] = texts[i][lo + k]
    BY <1>5 DEF Stands
  <2>2. /\ Len(y \o z) = Len(y) + Len(z) /\ Len(y) \in Nat /\ Len(z) \in Nat
        /\ \A m \in 1 .. Len(y) + Len(z) : (y \o z)[m] = IF m <= Len(y) THEN y[m] ELSE z[m - Len(y)]
    BY ConcatProperties, LenProperties
  <2>3. ASSUME NEW k \in 0 .. hi - lo PROVE (y \o z)[b + 1 + k] = texts[i][lo + k]
    <3>1. b + 1 + k \in 1 .. Len(y) + Len(z) /\ b + 1 + k <= Len(y)
      BY <1>3, <2>1, <2>2
    <3>. QED BY <2>1, <2>2, <3>1
  <2>4. b + hi - lo + 1 <= Len(y \o z)
    BY <1>3, <2>1, <2>2
  <2>. QED BY <2>3, <2>4 DEF Stands
<1>6. 0 \in N
  <2>1. 1 \in 1 .. n /\ J[1] = texts[1]
    BY <1>1, <1>2
  <2>2. J[1] \in Seq(T) /\ (i = 1 => Stands(texts[i], lo, hi, J[1]))
    BY <1>4, <2>1
  <2>3. i <= 1 => i = 1
    BY <1>1
  <2>. QED BY <2>2, <2>3
<1>7. ASSUME NEW k \in N PROVE k + 1 \in N
  <2>1. SUFFICES ASSUME k + 1 + 1 <= n
                 PROVE  /\ J[k + 1 + 1] \in Seq(T)
                        /\ i <= k + 1 + 1 => Stands(texts[i], lo, hi, J[k + 1 + 1])
    OBVIOUS
  <2>2. k \in Nat /\ J[k + 1] \in Seq(T) /\ (i <= k + 1 => Stands(texts[i], lo, hi, J[k + 1]))
    BY <1>1, <2>1
  <2>3. k + 1 + 1 \in 1 .. n /\ J[k + 1 + 1] = J[k + 1] \o texts[k + 1 + 1]
        /\ texts[k + 1 + 1] \in Seq(T)
    <3>1. PICK m : m = k + 1 + 1
      OBVIOUS
    <3>2. m \in 1 .. n /\ m # 1 /\ m - 1 = k + 1
      BY <1>1, <2>1, <2>2, <3>1
    <3>3. J[m] = J[m - 1] \o texts[m] /\ texts[m] \in Seq(T)
      BY <1>1, <1>2, <3>2
    <3>. QED BY <3>1, <3>2, <3>3
  <2>4. J[k + 1 + 1] \in Seq(T) /\ (i = k + 1 + 1 => Stands(texts[i], lo, hi, J[k + 1 + 1]))
    BY <1>4, <2>2, <2>3
  <2>5. i <= k + 1 => Stands(texts[i], lo, hi, J[k + 1 + 1])
    BY <1>5, <2>2, <2>3
  <2>6. i <= k + 1 + 1 => i <= k + 1 \/ i = k + 1 + 1
    BY <1>1, <2>2
  <2>. QED BY <2>4, <2>5, <2>6
<1>8. N = Nat
  <2>. HIDE DEF N
  <2>1. N \in SUBSET Nat
    BY DEF N
  <2>. QED BY <1>6, <1>7, <2>1, NaturalsBySteps
<1>9. J[n] \in Seq(T) /\ Stands(texts[i], lo, hi, J[n])
  <2>1. i <= n
    BY <1>1 DEF n
  <2>2. n - 1 \in Nat /\ n - 1 + 1 = n
    BY <1>1
  <2>3. n - 1 \in N
    BY <1>8, <2>2
  <2>. QED BY <2>1, <2>2, <2>3
<1>10. Exit!FlattenSeq(texts) = J[n]
  BY <1>1, FlattenIsJoined DEF J, n
<1>. QED BY <1>9, <1>10


SolidOf(text) == {i \in DOMAIN text : text[i] # "newline"}

LEMMA SolidEnds ==
  ASSUME NEW T, NEW text \in Seq(T), SolidOf(text) # {}
  PROVE  LET lo == Exit!Min(SolidOf(text))
             hi == Exit!Max(SolidOf(text))
         IN /\ lo \in 1 .. Len(text) /\ hi \in lo .. Len(text)
            /\ text[lo] # "newline" /\ text[hi] # "newline"
            /\ \A i \in SolidOf(text) : lo <= i /\ i <= hi
<1>1. PICK S : S = SolidOf(text)
  OBVIOUS
<1>2. Len(text) \in Nat /\ DOMAIN text = 1 .. Len(text)
  BY LenProperties
<1>3. \A i \in S : i \in 1 .. Len(text) /\ text[i] # "newline" /\ i \in Int
  BY <1>1, <1>2 DEF SolidOf
<1>4. IsFiniteSet(S)
  <2>1. IsFiniteSet(1 .. Len(text))
    BY <1>2, FS_Interval
  <2>. QED BY <1>3, <2>1, FS_Subset
<1>5. Exit!Max(S) \in S /\ \A x \in S : x <= Exit!Max(S)
  BY <1>1, <1>3, <1>4, LargestIsMember
<1>6. Exit!Min(S) \in S /\ \A x \in S : Exit!Min(S) <= x
  <2>1. S \in SUBSET Nat
    BY <1>2, <1>3
  <2>2. \E n \in S : \A m \in S : n <= m
    BY <1>1, <2>1, SmallestNumber
  <2>. QED BY <2>2 DEF Exit!Min
<1>7. Exit!Min(S) \in 1 .. Len(text) /\ Exit!Max(S) \in Exit!Min(S) .. Len(text)
  BY <1>2, <1>3, <1>5, <1>6
<1>. QED BY <1>1, <1>3, <1>5, <1>6, <1>7

LEMMA StripIs ==
  ASSUME NEW text
  PROVE  Exit!StripSpace(text)
           = IF SolidOf(text) = {} THEN <<>>
             ELSE SubSeq(text, Exit!Min(SolidOf(text)), Exit!Max(SolidOf(text)))
BY Zenon DEF Exit!StripSpace, SolidOf

\* Stripping leaves a text, and leaves in it what begins and ends with something solid.
LEMMA StripIsText ==
  ASSUME NEW T, NEW y \in Seq(T)
  PROVE  Exit!StripSpace(y) \in Seq(T)
<1>1. CASE SolidOf(y) = {}
  BY <1>1, StripIs, EmptySeq
<1>2. CASE SolidOf(y) # {}
  <2>1. PICK lo, hi : lo = Exit!Min(SolidOf(y)) /\ hi = Exit!Max(SolidOf(y))
    OBVIOUS
  <2>2. lo \in 1 .. Len(y) /\ hi \in lo .. Len(y) /\ Len(y) \in Nat
    BY <1>2, <2>1, SolidEnds, LenProperties
  <2>3. \A i \in lo .. hi : y[i] \in T
    BY <2>2, ElementOfSeq
  <2>4. SubSeq(y, lo, hi) \in Seq(T)
    BY <2>2, <2>3, SubSeqProperties
  <2>. QED BY <1>2, <2>1, <2>4, StripIs
<1>. QED BY <1>1, <1>2

LEMMA StripKeeps ==
  ASSUME NEW T, NEW x \in Seq(T), NEW y \in Seq(T), NEW lo \in 1 .. Len(x), NEW hi \in lo .. Len(x),
         x[lo] # "newline", x[hi] # "newline", Stands(x, lo, hi, y)
  PROVE  Stands(x, lo, hi, Exit!StripSpace(y))
<1>1. PICK b \in Nat : b + hi - lo + 1 <= Len(y) /\ \A k \in 0 .. hi - lo : y[b + 1 + k] = x[lo + k]
  BY DEF Stands
<1>2. Len(x) \in Nat /\ Len(y) \in Nat /\ lo \in Nat /\ hi \in Nat /\ lo <= hi
      /\ DOMAIN y = 1 .. Len(y)
  BY LenProperties
<1>3. b + 1 \in SolidOf(y) /\ b + 1 + (hi - lo) \in SolidOf(y)
  <2>1. 0 \in 0 .. hi - lo /\ hi - lo \in 0 .. hi - lo
    BY <1>2
  <2>2. y[b + 1 + 0] = x[lo + 0] /\ y[b + 1 + (hi - lo)] = x[lo + (hi - lo)]
    BY <1>1, <2>1
  <2>3. b + 1 + 0 = b + 1 /\ lo + 0 = lo /\ lo + (hi - lo) = hi
    BY <1>2
  <2>4. b + 1 \in 1 .. Len(y) /\ b + 1 + (hi - lo) \in 1 .. Len(y)
    BY <1>1, <1>2
  <2>. QED BY <1>2, <2>2, <2>3, <2>4 DEF SolidOf
<1>4. PICK first, last : first = Exit!Min(SolidOf(y)) /\ last = Exit!Max(SolidOf(y))
  OBVIOUS
<1>5. /\ first \in 1 .. Len(y) /\ last \in first .. Len(y)
      /\ first <= b + 1 /\ b + 1 + (hi - lo) <= last
  BY <1>3, <1>4, SolidEnds
<1> DEFINE z == SubSeq(y, first, last)
<1>6. Exit!StripSpace(y) = z
  BY <1>3, <1>4, StripIs
<1>7. Len(z) = last - first + 1 /\ \A i \in 1 .. last - first + 1 : z[i] = y[first + i - 1]
  <2>1. \A i \in first .. last : y[i] \in T
    BY <1>2, <1>5, ElementOfSeq
  <2>. QED BY <1>2, <1>5, <2>1, SubSeqProperties
<1>. HIDE DEF z
<1>8. b + 1 - first \in Nat /\ b + 1 - first + hi - lo + 1 <= Len(z)
  <2>1. first \in Nat /\ last \in Nat
    BY <1>2, <1>5
  <2>. QED BY <1>2, <1>5, <1>7, <2>1
<1>9. ASSUME NEW k \in 0 .. hi - lo PROVE z[b + 1 - first + 1 + k] = x[lo + k]
  <2>1. /\ b + 1 - first + 1 + k \in 1 .. last - first + 1
        /\ first + (b + 1 - first + 1 + k) - 1 = b + 1 + k
    BY <1>2, <1>5
  <2>2. z[b + 1 - first + 1 + k] = y[first + (b + 1 - first + 1 + k) - 1]
    BY <1>7, <2>1
  <2>. QED BY <1>1, <2>1, <2>2
<1>10. Stands(x, lo, hi, z)
  BY <1>8, <1>9 DEF Stands
<1>. QED BY <1>6, <1>10

LEMMA DisclaimerKeeps ==
  ASSUME NEW T, {"newline", "disclaimer"} \subseteq T, NEW x \in Seq(T), NEW y \in Seq(T),
         NEW lo \in 1 .. Len(x), NEW hi \in lo .. Len(x), Stands(x, lo, hi, y)
  PROVE  Exit!WithDisclaimer(y) \in Seq(T) /\ Stands(x, lo, hi, Exit!WithDisclaimer(y))
<1> DEFINE tail == <<"newline", "disclaimer">>
<1>1. Exit!WithDisclaimer(y) = y \/ Exit!WithDisclaimer(y) = y \o tail
  BY DEF Exit!WithDisclaimer
<1>2. CASE Exit!WithDisclaimer(y) = y
  BY <1>2
<1>3. CASE Exit!WithDisclaimer(y) = y \o tail
  <2>1. tail \in Seq(T) /\ Len(tail) = 2
    OBVIOUS
  <2>. HIDE DEF tail
  <2>2. /\ y \o tail \in Seq(T) /\ Len(y \o tail) = Len(y) + 2 /\ Len(y) \in Nat
        /\ \A i \in 1 .. Len(y) + 2 : (y \o tail)[i] = IF i <= Len(y) THEN y[i] ELSE tail[i - Len(y)]
    <3>1. Len(y) \in Nat
      BY LenProperties
    <3>2. /\ y \o tail \in Seq(T) /\ Len(y \o tail) = Len(y) + Len(tail)
          /\ \A i \in 1 .. Len(y) + Len(tail) :
               (y \o tail)[i] = IF i <= Len(y) THEN y[i] ELSE tail[i - Len(y)]
      BY <2>1, ConcatProperties
    <3>. QED BY <2>1, <3>1, <3>2
  <2>3. PICK b \in Nat : b + hi - lo + 1 <= Len(y) /\ \A k \in 0 .. hi - lo : y[b + 1 + k] = x[lo + k]
    BY DEF Stands
  <2>4. Len(x) \in Nat /\ lo \in Nat /\ hi \in Nat /\ lo <= hi
    BY LenProperties
  <2>5. ASSUME NEW k \in 0 .. hi - lo PROVE (y \o tail)[b + 1 + k] = x[lo + k]
    <3>1. b + 1 + k \in 1 .. Len(y) + 2 /\ b + 1 + k <= Len(y)
      BY <2>2, <2>3, <2>4
    <3>. QED BY <2>2, <2>3, <3>1
  <2>6. b + hi - lo + 1 <= Len(y \o tail)
    BY <2>2, <2>3, <2>4
  <2>7. Stands(x, lo, hi, y \o tail)
    BY <2>5, <2>6 DEF Stands
  <2>. QED BY <1>3, <2>2, <2>7
<1>. QED BY <1>1, <1>2, <1>3

\* What a text is stripped to stands in another, if all that begins and ends solid does.
LEMMA StrippedStands ==
  ASSUME NEW T, NEW x \in Seq(T), NEW y \in Seq(T),
         \A lo \in 1 .. Len(x) : \A hi \in lo .. Len(x) :
           x[lo] # "newline" /\ x[hi] # "newline" => Stands(x, lo, hi, y)
  PROVE  Exit!StripSpace(x) \in Exit!SubSeqs(y)
<1>1. CASE SolidOf(x) = {}
  <2>1. Len(y) \in Nat /\ 0 \in 0 .. Len(y)
    BY LenProperties
  <2>2. SubSeq(y, 0 + 1, 0) \in Exit!SubSeqs(y)
    BY <2>1 DEF Exit!SubSeqs
  <2>3. SubSeq(y, 0 + 1, 0) = <<>>
    BY SubSeqEmpty
  <2>. QED BY <1>1, <2>2, <2>3, StripIs
<1>2. CASE SolidOf(x) # {}
  <2>1. PICK lo, hi : lo = Exit!Min(SolidOf(x)) /\ hi = Exit!Max(SolidOf(x))
    OBVIOUS
  <2>2. /\ lo \in 1 .. Len(x) /\ hi \in lo .. Len(x)
        /\ x[lo] # "newline" /\ x[hi] # "newline"
    BY <1>2, <2>1, SolidEnds
  <2>3. SubSeq(x, lo, hi) \in Exit!SubSeqs(y)
    BY <2>2, StandsIsSubSeq
  <2>. QED BY <1>2, <2>1, <2>3, StripIs
<1>. QED BY <1>1, <1>2


-----------------------------------------------------------------------------
(* Compliance: what leaves the exit.                                       *)

\* A reading of texts as sequences of tokens, whatever the tokens are.
Tokens == STRING \cup {"newline", "disclaimer"}
ExitTexts(T) == {"newline", "disclaimer"} \subseteq T /\ Drafts \subseteq Seq(Seq(T))

Rewriting ==
  \/ /\ trusted = {} /\ rewritten = <<Exit!DefaultRewrite(Exit!FlattenSeq(draft))>>
     /\ Exit!PreservesFacts(Exit!FlattenSeq(draft), rewritten[1])
  \/ /\ trusted # {} /\ rewritten = Exit!Redact(draft)
     /\ Exit!PreservesFacts(Exit!Untrusted(draft), Exit!Untrusted(rewritten))

ExitInv ==
  /\ draft \in Drafts /\ trusted \subseteq DOMAIN draft
  /\ at \in {"mark", "check", "rewrite", "recheck", "done"}
  /\ at = "recheck" => Rewriting
  /\ at = "done" /\ result.action \in {"passed", "audited"} =>
       (auditOnly /\ ~sourced) \/ Exit!Reasons(Exit!Untrusted(draft)) = {}
  /\ at = "done" /\ result.action = "rewritten" =>
       Rewriting /\ Exit!Recheck = {} /\ result.response = Exit!Rebuilt

LEMMA ExitKeeps == ExitInv /\ [Exit!Next]_(Exit!vars) => ExitInv'
<1>1. SUFFICES ASSUME ExitInv, [Exit!Next]_(Exit!vars) PROVE ExitInv'
  OBVIOUS
<1>2. CASE Exit!MarkTrusted
  BY <1>1, <1>2 DEF Exit!MarkTrusted, Exit!inputs, ExitInv
<1>3. CASE Exit!AuditOnly
  BY <1>1, <1>3 DEF Exit!AuditOnly, Exit!Conclude, Exit!inputs, ExitInv
<1>4. CASE Exit!Check
  <2>1. /\ UNCHANGED <<draft, sourced, auditOnly, semantic, trusted>>
        /\ \/ /\ at' = "done" /\ result'.action \in {"passed", "audited"}
              /\ Exit!Reasons(Exit!Untrusted(draft)) = {}
           \/ at' = "done" /\ result'.action = "blocked"
           \/ at' = "rewrite"
    BY <1>4 DEF Exit!Check, Exit!Conclude, Exit!inputs
  <2>2. Exit!Reasons(Exit!Untrusted(draft))' = Exit!Reasons(Exit!Untrusted(draft))
    BY <2>1 DEF Exit!Reasons, Exit!Untrusted
  <2>. QED BY <1>1, <2>1, <2>2 DEF ExitInv
<1>5. CASE Exit!RewriteWhole
  <2>1. /\ UNCHANGED <<draft, trusted>> /\ trusted = {}
        /\ rewritten' = <<Exit!DefaultRewrite(Exit!FlattenSeq(draft))>>
        /\ \/ at' = "recheck" /\ Exit!PreservesFacts(Exit!FlattenSeq(draft), rewritten'[1])
           \/ at' = "done" /\ result'.action = "blocked"
    BY <1>5 DEF Exit!RewriteWhole, Exit!Conclude, Exit!inputs
  <2>. QED BY <1>1, <2>1 DEF ExitInv, Rewriting
<1>6. CASE Exit!RewriteSegments
  <2>1. /\ UNCHANGED <<draft, trusted>> /\ trusted # {} /\ rewritten' = Exit!Redact(draft)
        /\ \/ /\ at' = "recheck"
              /\ Exit!PreservesFacts(Exit!Untrusted(draft), Exit!Untrusted(rewritten'))
           \/ at' = "done" /\ result'.action = "blocked"
    BY <1>6 DEF Exit!RewriteSegments, Exit!Conclude, Exit!inputs
  <2>. QED BY <1>1, <2>1 DEF ExitInv, Rewriting, Exit!Redact, Exit!Untrusted
<1>7. CASE Exit!Deliver
  <2>1. /\ UNCHANGED <<draft, sourced, auditOnly, semantic, trusted, rewritten>> /\ Rewriting
        /\ \/ /\ at' = "done" /\ result'.action = "rewritten" /\ result'.response = Exit!Rebuilt
              /\ Exit!Recheck = {}
           \/ at' = "done" /\ result'.action = "blocked"
    BY <1>1, <1>7 DEF Exit!Deliver, Exit!Conclude, Exit!inputs, ExitInv
  <2>2. Rewriting' /\ Exit!Recheck' = Exit!Recheck /\ Exit!Rebuilt' = Exit!Rebuilt
    BY <2>1 DEF Rewriting, Exit!Recheck, Exit!Rebuilt, Exit!Reasons, Exit!Redact, Exit!Untrusted
  <2>. QED BY <1>1, <2>1, <2>2 DEF ExitInv
<1>8. CASE Exit!Unavailable
  <2>1. /\ UNCHANGED <<draft, sourced, auditOnly, semantic>> /\ trusted' = {}
        /\ at' = "mark" \/ (at' = "done" /\ result'.action = "blocked")
    BY <1>8 DEF Exit!Unavailable, Exit!Conclude, Exit!inputs
  <2>. QED BY <1>1, <2>1 DEF ExitInv
<1>9. CASE UNCHANGED Exit!vars
  <2>1. UNCHANGED <<draft, sourced, auditOnly, semantic, trusted, at, rewritten, result>>
    BY <1>9 DEF Exit!vars, Exit!inputs
  <2>2. /\ Rewriting' = Rewriting /\ Exit!Recheck' = Exit!Recheck /\ Exit!Rebuilt' = Exit!Rebuilt
        /\ Exit!Reasons(Exit!Untrusted(draft))' = Exit!Reasons(Exit!Untrusted(draft))
    BY <2>1 DEF Rewriting, Exit!Recheck, Exit!Rebuilt, Exit!Reasons, Exit!Redact, Exit!Untrusted
  <2>. QED BY <1>1, <2>1, <2>2 DEF ExitInv
<1>. QED BY <1>1, <1>2, <1>3, <1>4, <1>5, <1>6, <1>7, <1>8, <1>9 DEF Exit!Next

\* One text alone is untrusted as a whole, and is what it is flattened to.
LEMMA OneText ==
  ASSUME NEW x
  PROVE  Exit!Without(<<x>>, {}) = <<x>> /\ Exit!FlattenSeq(<<x>>) = x
<1>1. PICK text : text = <<x>>
  OBVIOUS
<1>2. text \in Seq({x}) /\ Len(text) = 1 /\ text[1] = x
  BY <1>1
<1>3. Exit!Without(text, {}) = text
  BY <1>2, WithoutNothing
<1>4. Exit!FlattenSeq(text) = x
  <2>1. Joined(text)[1] = Join(text, Joined(text), 1)
    BY <1>2, JoinedAt
  <2>2. Exit!FlattenSeq(text) = Joined(text)[Len(text)]
    <3>1. Len(text) # 0
      BY <1>2
    <3>. QED BY <3>1, FlattenIsJoined
  <2>3. Join(text, Joined(text), 1) = text[1]
    BY DEF Join
  <2>. QED BY <1>2, <2>1, <2>2, <2>3
<1>. QED BY <1>1, <1>3, <1>4

\* No sensitive word reaches the user outside the segments a source supports, whatever
\* the drafts are (compliance.py:298-302).
THEOREM NoSensitiveWordLeaves ==
  Spec => []UntrustedIsClean
<1> DEFINE J == subject = "exit" => ExitInv
<1>1. Init => J
  BY DEF Init, Exit!Init, ExitInv
<1>2. J /\ [Next]_vars => J'
  BY StepOfSubject, ExitKeeps
<1>3. J => UntrustedIsClean
  <2>1. SUFFICES ASSUME ExitInv, Exit!Screened
                 PROVE  /\ Exit!SensitiveWords(Exit!DeliveredUntrusted) = {}
                        /\ trusted # {} => Exit!Reasons(Exit!DeliveredUntrusted) = {}
    BY Zenon DEF UntrustedIsClean, Exit!UntrustedIsClean
  <2>2. CASE result.action \in {"passed", "audited"}
    <3>1. Exit!Reasons(Exit!Untrusted(draft)) = {} /\ Exit!DeliveredUntrusted = Exit!Untrusted(draft)
      BY <2>1, <2>2 DEF ExitInv, Exit!Screened, Exit!DeliveredUntrusted
    <3>2. Exit!SensitiveWords(Exit!Untrusted(draft)) = {}
      BY <3>1 DEF Exit!Reasons
    <3>. QED BY <3>1, <3>2
  <2>3. CASE result.action = "rewritten"
    <3>1. Rewriting /\ Exit!Recheck = {} /\ Exit!DeliveredUntrusted = Exit!Untrusted(rewritten)
      BY <2>1, <2>3 DEF ExitInv, Exit!Screened, Exit!DeliveredUntrusted
    <3>2. CASE trusted = {}
      <4>1. PICK x : rewritten = <<x>>
        BY <3>1, <3>2 DEF Rewriting
      <4>2. Exit!Untrusted(rewritten) = Exit!FlattenSeq(rewritten)
        BY <3>2, <4>1, OneText DEF Exit!Untrusted
      <4>3. Exit!SensitiveWords(Exit!FlattenSeq(rewritten)) = {}
        BY <3>1, <3>2 DEF Exit!Recheck
      <4>. QED BY <3>1, <3>2, <4>2, <4>3
    <3>3. CASE trusted # {}
      <4>1. Exit!Reasons(Exit!Untrusted(rewritten)) = {}
        BY <3>1, <3>3 DEF Exit!Recheck
      <4>2. Exit!SensitiveWords(Exit!Untrusted(rewritten)) = {}
        BY <4>1 DEF Exit!Reasons
      <4>. QED BY <3>1, <4>1, <4>2
    <3>. QED BY <3>2, <3>3
  <2>. QED BY <2>1, <2>2, <2>3 DEF Exit!Screened
<1>. QED BY <1>1, <1>2, <1>3, PTL DEF Spec


LEMMA RedactedIsText ==
  ASSUME NEW T, NEW segments \in Seq(Seq(T))
  PROVE  /\ Exit!Redact(segments) \in Seq(Seq(T)) /\ Len(Exit!Redact(segments)) = Len(segments)
         /\ \A i \in trusted \cap DOMAIN segments : Exit!Redact(segments)[i] = segments[i]
<1>1. ASSUME NEW text \in Seq(T) PROVE Exit!StripViolations(text) \in Seq(T)
  <2>1. PICK noWord \in Seq(T) :
           noWord = Exit!Without(text, {i \in DOMAIN text : text[i] = "word"})
    BY WithoutIsText
  <2>2. Exit!Without(noWord, Exit!Halves(noWord)) \in Seq(T)
    BY WithoutIsText
  <2>3. \/ Exit!StripViolations(text) = Exit!StripSpace(noWord)
        \/ Exit!StripViolations(text)
             = Exit!StripSpace(Exit!Without(noWord, Exit!Halves(noWord)))
    BY <2>1 DEF Exit!StripViolations
  <2>. QED BY <2>2, <2>3, StripIsText
<1> DEFINE n == Len(segments)
           new == [i \in 1 .. n |-> IF i \in trusted THEN segments[i]
                                    ELSE Exit!StripViolations(segments[i])]
<1>2. n \in Nat /\ DOMAIN segments = 1 .. n /\ \A i \in 1 .. n : segments[i] \in Seq(T)
  BY LenProperties, ElementOfSeq
<1>3. Exit!Redact(segments) = new
  BY <1>2 DEF Exit!Redact
<1>4. \A i \in 1 .. n : new[i] \in Seq(T)
  BY <1>1, <1>2
<1>5. new \in [1 .. n -> Seq(T)]
  <2>1. new = [i \in 1 .. n |-> new[i]]
    OBVIOUS
  <2>. HIDE DEF new
  <2>. QED BY <1>4, <2>1
<1>6. \A i \in trusted \cap 1 .. n : new[i] = segments[i]
  OBVIOUS
<1>. HIDE DEF new
<1>7. new \in Seq(Seq(T)) /\ Len(new) = n
  <2>. HIDE DEF n
  <2>1. new \in Seq(Seq(T))
    BY <1>2, <1>5, SeqDef
  <2>2. Len(new) \in Nat /\ 1 .. Len(new) = 1 .. n
    BY <1>5, <2>1, LenProperties
  <2>3. Len(new) = n
    BY <1>2, <2>2
  <2>. QED BY <2>1, <2>3
<1>. QED BY <1>2, <1>3, <1>6, <1>7

LEMMA FlattenIsText ==
  ASSUME NEW T, NEW texts \in Seq(Seq(T)), Len(texts) # 0
  PROVE  Exit!FlattenSeq(texts) \in Seq(T)
<1> DEFINE n == Len(texts)
           J == Joined(texts)
           N == {k \in Nat : k + 1 <= n => J[k + 1] \in Seq(T)}
<1>1. n \in Nat /\ n # 0 /\ \A k \in 1 .. n : texts[k] \in Seq(T)
  BY LenProperties, ElementOfSeq
<1>2. \A k \in 1 .. n : J[k] = IF k = 1 THEN texts[k] ELSE J[k - 1] \o texts[k]
  BY <1>1, JoinedAt DEF Join
<1>3. Exit!FlattenSeq(texts) = J[n]
  BY <1>1, FlattenIsJoined
<1>. HIDE DEF J, n
<1>4. 0 \in N
  <2>1. 1 \in 1 .. n /\ J[1] = texts[1]
    BY <1>1, <1>2
  <2>. QED BY <1>1, <2>1
<1>5. ASSUME NEW k \in N PROVE k + 1 \in N
  <2>1. SUFFICES ASSUME k + 1 + 1 <= n PROVE J[k + 1 + 1] \in Seq(T)
    OBVIOUS
  <2>2. PICK m : m = k + 1 + 1
    OBVIOUS
  <2>3. m \in 1 .. n /\ m # 1 /\ m - 1 = k + 1 /\ J[k + 1] \in Seq(T)
    BY <1>1, <2>1, <2>2
  <2>4. J[m] = J[m - 1] \o texts[m] /\ texts[m] \in Seq(T)
    BY <1>1, <1>2, <2>3
  <2>5. J[k + 1] \o texts[m] \in Seq(T)
    BY <2>3, <2>4, ConcatProperties
  <2>. QED BY <2>2, <2>3, <2>4, <2>5
<1>6. N = Nat
  <2>. HIDE DEF N
  <2>1. N \in SUBSET Nat
    BY DEF N
  <2>. QED BY <1>4, <1>5, <2>1, NaturalsBySteps
<1>7. n - 1 \in Nat /\ n - 1 + 1 = n
  BY <1>1
<1>8. n - 1 \in N
  BY <1>6, <1>7
<1>. QED BY <1>1, <1>3, <1>7, <1>8

LEMMA DisclaimerIsText ==
  ASSUME NEW T, {"newline", "disclaimer"} \subseteq T, NEW y \in Seq(T)
  PROVE  Exit!WithDisclaimer(y) \in Seq(T)
<1>1. <<"newline", "disclaimer">> \in Seq(T)
  OBVIOUS
<1>2. y \o <<"newline", "disclaimer">> \in Seq(T)
  BY <1>1, ConcatProperties
<1>. QED BY <1>2 DEF Exit!WithDisclaimer

\* What a supported segment is stripped to stands in the answer that was put together.
LEMMA SupportedStand ==
  ASSUME NEW T, {"newline", "disclaimer"} \subseteq T, draft \in Seq(Seq(T)),
         rewritten = Exit!Redact(draft), NEW i \in trusted, i \in DOMAIN draft
  PROVE  Exit!StripSpace(draft[i]) \in Exit!SubSeqs(Exit!Rebuilt)
<1>1. /\ rewritten \in Seq(Seq(T)) /\ i \in 1 .. Len(rewritten) /\ rewritten[i] = draft[i]
      /\ draft[i] \in Seq(T)
  <2>1. Len(draft) \in Nat /\ DOMAIN draft = 1 .. Len(draft) /\ draft[i] \in Seq(T)
    BY LenProperties, ElementOfSeq
  <2>. QED BY <2>1, RedactedIsText
<1>2. PICK x : x = draft[i]
  OBVIOUS
<1>3. PICK flat : flat = Exit!FlattenSeq(rewritten)
  OBVIOUS
<1> DEFINE stripped == Exit!StripSpace(flat)
           shown == Exit!WithDisclaimer(stripped)
<1>4. trusted # {} /\ (Exit!Rebuilt = flat \/ Exit!Rebuilt = shown)
  BY <1>3 DEF Exit!Rebuilt
<1>5. flat \in Seq(T) /\ stripped \in Seq(T) /\ shown \in Seq(T)
  <2>1. Len(rewritten) # 0
    BY <1>1
  <2>2. flat \in Seq(T)
    BY <1>1, <1>3, <2>1, FlattenIsText
  <2>3. stripped \in Seq(T)
    BY <2>2, StripIsText
  <2>. HIDE DEF stripped
  <2>. QED BY <2>2, <2>3, DisclaimerIsText
<1>. HIDE DEF stripped, shown
<1>6. ASSUME NEW lo \in 1 .. Len(x), NEW hi \in lo .. Len(x), x[lo] # "newline", x[hi] # "newline"
      PROVE  Stands(x, lo, hi, flat) /\ Stands(x, lo, hi, shown)
  <2>1. Stands(x, lo, hi, flat)
    BY <1>1, <1>2, <1>3, PartsStand
  <2>2. Stands(x, lo, hi, stripped)
    BY <1>1, <1>2, <1>5, <1>6, <2>1, StripKeeps DEF stripped
  <2>3. Stands(x, lo, hi, shown)
    BY <1>1, <1>2, <1>5, <2>2, DisclaimerKeeps DEF shown
  <2>. QED BY <2>1, <2>3
<1>7. Exit!StripSpace(x) \in Exit!SubSeqs(flat) /\ Exit!StripSpace(x) \in Exit!SubSeqs(shown)
  BY <1>1, <1>2, <1>5, <1>6, StrippedStands
<1>. QED BY <1>2, <1>4, <1>7

\* A rewrite drops no number of what it rewrote, and what a source supports stands in the
\* answer word for word, whatever the drafts are (compliance.py:10, 297-299).
THEOREM RewriteDropsNoFact ==
  Spec => []RewriteKeepsFacts
<1>0. ExitTexts(Tokens)
  <2>1. ASSUME NEW d \in Seq(Seq(STRING)) PROVE d \in Seq(Seq(Tokens))
    <3>1. \A text \in Seq(STRING) : text \in Seq(Tokens)
      BY SeqMonotonic DEF Tokens
    <3>2. Seq(STRING) \subseteq Seq(Tokens)
      BY <3>1
    <3>. QED BY <3>2, SeqMonotonic
  <2>. QED BY <2>1, DraftsAssumption DEF ExitTexts, Tokens
<1>. USE <1>0
<1> DEFINE J == subject = "exit" => ExitInv
<1>1. Init => J
  BY DEF Init, Exit!Init, ExitInv
<1>2. J /\ [Next]_vars => J'
  BY StepOfSubject, ExitKeeps
<1>3. J => RewriteKeepsFacts
  <2>1. SUFFICES ASSUME ExitInv, Exit!Screened, result.action = "rewritten"
                 PROVE  /\ Exit!Numbers(Exit!Untrusted(draft)) \subseteq
                             Exit!Numbers(Exit!DeliveredUntrusted)
                        /\ \A i \in trusted :
                             Exit!StripSpace(draft[i]) \in Exit!SubSeqs(result.response)
    BY Zenon DEF RewriteKeepsFacts, Exit!RewriteKeepsFacts
  <2>2. /\ Rewriting /\ result.response = Exit!Rebuilt
        /\ Exit!DeliveredUntrusted = Exit!Untrusted(rewritten)
    BY <2>1 DEF ExitInv, Exit!Screened, Exit!DeliveredUntrusted
  <2>3. draft \in Seq(Seq(Tokens)) /\ {"newline", "disclaimer"} \subseteq Tokens /\ trusted \subseteq DOMAIN draft
    BY <2>1 DEF ExitInv, ExitTexts
  <2>4. CASE trusted = {}
    <3>1. PICK x : rewritten = <<x>> /\ Exit!PreservesFacts(Exit!FlattenSeq(draft), x)
      BY <2>2, <2>4 DEF Rewriting
    <3>2. Exit!Untrusted(draft) = Exit!FlattenSeq(draft)
      BY <2>3, <2>4, WithoutNothing DEF Exit!Untrusted
    <3>3. Exit!Untrusted(rewritten) = x
      BY <2>4, <3>1, OneText DEF Exit!Untrusted
    <3>. QED BY <2>2, <2>4, <3>1, <3>2, <3>3 DEF Exit!PreservesFacts
  <2>5. CASE trusted # {}
    <3>1. /\ rewritten = Exit!Redact(draft)
          /\ Exit!PreservesFacts(Exit!Untrusted(draft), Exit!Untrusted(rewritten))
      BY <2>2, <2>5 DEF Rewriting
    <3>2. Exit!Numbers(Exit!Untrusted(draft)) \subseteq Exit!Numbers(Exit!DeliveredUntrusted)
      BY <2>2, <3>1 DEF Exit!PreservesFacts
    <3>3. \A i \in trusted : Exit!StripSpace(draft[i]) \in Exit!SubSeqs(Exit!Rebuilt)
      BY <2>3, <3>1, SupportedStand
    <3>. QED BY <2>2, <3>2, <3>3
  <2>. QED BY <2>4, <2>5
<1>. QED BY <1>1, <1>2, <1>3, PTL DEF Spec
=============================================================================
