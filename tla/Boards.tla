------------------------------- MODULE Boards -------------------------------
(***************************************************************************)
(* Looking for a board by keyword: list_boards of the screening tools, the *)
(* board lists of the AKShare adapter, and the paging                      *)
(* client of em_board.py, which tries its hosts in turn within a deadline. *)
(* Rows are counted in pages; what a host answers is chosen at each        *)
(* request, a match of the keyword is chosen once a table was read.        *)
(***************************************************************************)
EXTENDS Integers, Sequences, FiniteSets

CONSTANTS Hosts,        \* EM_BOARD_BASE_URLS
          MaxRounds,    \* _MAX_ROUNDS
          MaxPages,     \* EM_BOARD_MAX_PAGES
          MaxTotal,     \* bound: the pages a table may have
          MaxRequests   \* bound: the requests that fit into EM_BOARD_DEADLINE at most

VARIABLES kinds,        \* the board types still to be fetched
          fetch,        \* the paging of the table being fetched
          tables,       \* the tables fetched in this call: pages, and why they end
          listing       \* the answer of the tool, or what it needs

boardVars == <<kinds, fetch, tables, listing>>

Kinds == <<"concept", "industry">>

\* board_type: both types, one of them, or one the code does not know.
BoardTypes(type) ==
    CASE type = "both" -> Kinds
      [] type \in {"concept", "industry"} -> <<type>>
      [] OTHER -> <<>>

\* A fetch starts with its own deadline: some number of requests fits.
NewFetch(requests) ==
    [page |-> 1, host |-> 1, round |-> 1, got |-> 0, total |-> 0, left |-> requests,
     emptySeen |-> FALSE, emptyTotal |-> 0, capped |-> FALSE, at |-> "asking", end |-> "none"]

NoFetch == [NewFetch(0) EXCEPT !.at = "idle"]

NoListing == [status |-> "none", degraded |-> FALSE, fetched |-> {}, unavailable |-> {}]

Init ==
    /\ kinds \in {BoardTypes(type) : type \in {"both", "concept", "other"}}
    /\ fetch = NoFetch
    /\ tables = <<>>
    /\ listing = IF kinds = <<>> THEN [NoListing EXCEPT !.status = "error"] ELSE NoListing

-----------------------------------------------------------------------------
(* _fetch_page: the hosts in turn, all of them twice for the first page.    *)

StartFetch ==
    /\ kinds # <<>> /\ fetch.at = "idle"
    /\ \E requests \in 0 .. MaxRequests : fetch' = NewFetch(requests)
    /\ UNCHANGED <<kinds, tables, listing>>

RoundsAllowed == IF fetch.page = 1 THEN MaxRounds ELSE 1

\* Hosts and rounds are used up, or no further request fits the deadline.
NoMoreHosts == Hosts = <<>> \/ fetch.round > RoundsAllowed \/ fetch.left = 0

\* The next host, or the first one again in the next round.
NextHost(f) ==
    IF f.host < Len(Hosts) THEN [f EXCEPT !.host = @ + 1]
    ELSE [f EXCEPT !.host = 1, !.round = @ + 1]

\* A page with rows is taken at once; a first empty one is remembered; a
\* failure or a malformed answer leaves the page to the next host.
AskHost ==
    /\ fetch.at = "asking" /\ ~NoMoreHosts
    /\ \E answer \in {"rows", "empty", "fails", "malformed"}, total \in 0 .. MaxTotal :
         LET asked == [fetch EXCEPT !.left = @ - 1]
         IN fetch' =
              CASE answer = "rows" -> [asked EXCEPT !.at = "page", !.end = "rows",
                                                    !.emptyTotal = total]
                [] answer = "empty" /\ ~fetch.emptySeen ->
                     NextHost([asked EXCEPT !.emptySeen = TRUE, !.emptyTotal = total])
                [] OTHER -> NextHost(asked)
    /\ UNCHANGED <<kinds, tables, listing>>

PageIsOver ==
    /\ fetch.at = "asking" /\ NoMoreHosts
    /\ fetch' = [fetch EXCEPT !.at = "page", !.end = IF fetch.emptySeen THEN "empty" ELSE "failed"]
    /\ UNCHANGED <<kinds, tables, listing>>

-----------------------------------------------------------------------------
(* _paginated_rows: one page that cannot be had loses the whole table.      *)

FirstOf(page, now, later) == IF page = 1 THEN now ELSE later

SalvageRows(f) == f.got                                              \* mutant

\* What is left of the table when a page failed: nothing.
Salvage(f) == 0

TakePage ==
    /\ fetch.at = "page"
    /\ LET f == fetch
           got == IF f.end = "rows" THEN f.got + 1 ELSE f.got
           total == FirstOf(f.page, f.emptyTotal, f.total)
           last == f.end = "empty" \/ (total > 0 /\ got >= total)
       IN fetch' =
            IF f.end = "failed" THEN [f EXCEPT !.at = "table", !.got = Salvage(f)]
            ELSE IF last \/ f.page >= MaxPages
            THEN [f EXCEPT !.at = "table", !.got = got, !.total = total, !.capped = ~last]
            ELSE [NewFetch(f.left) EXCEPT !.page = f.page + 1, !.got = got, !.total = total]
    /\ UNCHANGED <<kinds, tables, listing>>

-----------------------------------------------------------------------------
(* The adapter: industries have a list of AKShare to fall back on.          *)

FallsBack(kind, got) == IF kind = "industry" /\ got = 0 THEN {0, 1} ELSE {got}

\* get_board_list answers an empty list to the manager, which then has no
\* source left: the tool takes the type for unavailable.
TakeTable ==
    /\ fetch.at = "table"
    /\ LET kind == Head(kinds)
       IN \E got \in FallsBack(kind, fetch.got) :
            /\ tables' = Append(tables,
                  [kind |-> kind, got |-> got,
                   end |-> IF got # fetch.got THEN "whole"
                           ELSE IF fetch.end = "failed" THEN "failed"
                           ELSE IF fetch.capped THEN "capped" ELSE "ended"])
            /\ listing' = IF got > 0 THEN [listing EXCEPT !.fetched = @ \cup {kind}]
                          ELSE [listing EXCEPT !.unavailable = @ \cup {kind}]
    /\ kinds' = Tail(kinds)
    /\ fetch' = NoFetch

-----------------------------------------------------------------------------
(* list_boards, and the members of a board it named.                        *)

\* Which outcome the tool reports: an outage is never taken for "no match".
Status(fetched, matched) ==
    IF matched THEN "ok" ELSE IF fetched # {} THEN "not_found" ELSE "unavailable"

Answer ==
    /\ kinds = <<>> /\ listing.status = "none"
    /\ \E matched \in {m \in BOOLEAN : m => listing.fetched # {}} :
         listing' = [listing EXCEPT !.status = Status(listing.fetched, matched),
                                    !.degraded = listing.unavailable # {}]
    /\ UNCHANGED <<kinds, fetch, tables>>

\* get_board_constituents: the code comes from the index of the last table,
\* which is fetched again when it is older than _BOARD_INDEX_TTL; no members are
\* had without a code, nor when their own fetch fails.
AskMembers ==
    /\ listing.status = "ok"
    /\ \E fresh, listed, fetched \in BOOLEAN :
         listing' = [listing EXCEPT !.status =
                        IF (fresh \/ listed) /\ fetched THEN "members" ELSE "membersUnavailable"]
    /\ UNCHANGED <<kinds, fetch, tables>>

Next == StartFetch \/ AskHost \/ PageIsOver \/ TakePage \/ TakeTable \/ Answer \/ AskMembers

-----------------------------------------------------------------------------

\* "Nothing matches" without a word about degraded data is said only when the
\* table of every type was read until a host ended it or the page limit was
\* reached: never when a page was lost (screening.py:149, em_board.py:213).
NotFoundIsNoOutage ==
    listing.status = "not_found" /\ ~listing.degraded =>
        \A i \in DOMAIN tables : tables[i].got > 0 /\ tables[i].end # "failed"
=============================================================================
