------------------------------ MODULE Accounts ------------------------------
(***************************************************************************)
(* Accounts and their sessions: auth_store.py behind api/routers/auth.py   *)
(* and api/rate_limit.py, the closing of an account, and the script that   *)
(* makes an administrator (cli/bootstrap_admin.py).  The handlers run one  *)
(* at a time on the event loop and give it up nowhere; turns run beside    *)
(* them in threads, the script is a process of its own.                    *)
(***************************************************************************)
EXTENDS Integers, Sequences, FiniteSets, SequencesExt

CONSTANTS Names,          \* user names as they are written
          Folded,         \* LOWER of each name
          Conversations,  \* conversations of one account
          Nobody,         \* no row, or no account
          MaxAccounts,    \* rows of finance.users ever made, a bound of the model
          AuthAttempts,   \* AUTH_RATE_LIMIT_ATTEMPTS
          AuthWindow,     \* AUTH_RATE_LIMIT_WINDOW_SECONDS
          TokenTtl,       \* TOKEN_TTL_SECONDS
          MaxClock        \* a bound of the model

VARIABLES users,          \* finance.users: the name, and is_admin, under each id
          serial,         \* ids given out
          sessions,       \* finance.sessions: <<id, expires_at>>
          ownRows,        \* what cascades with a user row: <<id, conversation>>, profile included
          studied,        \* ids with research_runs, which do not cascade
          kept,           \* <<id, conversation>> with a checkpoint and a window
          turnsOn,        \* turns in progress: <<id, conversation, "begun" | "on">>
          closing,        \* the handler of DELETE /api/account
          closed,         \* ids whose closing was answered with success
          beside,         \* what a turn wrote without a row of its conversation, what a
                          \* removal failed on, and rows the closing had not listed
          hits,           \* attempts of one address, of login and registration
          clock,
          boot            \* the script, run once

accountVars == <<users, serial, sessions, ownRows, studied, kept, turnsOn, closing, closed,
                 beside, hits, clock, boot>>

Ids == 1..MaxAccounts
Exists(id) == users[id] # Nobody
Idle == closing = Nobody        \* the event loop is free

Init ==
    /\ users = [id \in Ids |-> Nobody] /\ serial = 0
    /\ sessions = {} /\ ownRows = {} /\ studied = {} /\ kept = {} /\ turnsOn = {}
    /\ closing = Nobody /\ closed = {} /\ beside = {}
    /\ hits = <<>> /\ clock = 0
    /\ boot = [at |-> "idle", target |-> Nobody, todo |-> {}]

-----------------------------------------------------------------------------
(* Coming in. *)

\* allow: the attempts that have left the window are forgotten first.
Recent == SelectSeq(hits, LAMBDA t : t > clock - AuthWindow)
Allowed == Idle /\ Len(Recent) < AuthAttempts /\ hits' = Append(Recent, clock)

\* 429, before the handler is reached.
Refuse ==
    /\ Idle /\ Len(Recent) >= AuthAttempts
    /\ hits' = Recent /\ hits' # hits
    /\ UNCHANGED <<users, serial, sessions, ownRows, studied, kept, turnsOn, closing, closed, beside,
                   clock, boot>>

Insert(name, admin) ==
    /\ serial < MaxAccounts
    /\ serial' = serial + 1
    /\ users' = [users EXCEPT ![serial + 1] = [name |-> name, admin |-> admin]]

\* register: the unique column tells the letters' case, unlike the look-ups.
Taken(name) == \E id \in Ids : Exists(id) /\ users[id].name = name

Register(name) ==
    /\ Allowed
    /\ \/ ~ Taken(name) /\ Insert(name, FALSE)
       \/ Taken(name) /\ UNCHANGED <<users, serial>>
    /\ UNCHANGED <<sessions, ownRows, studied, kept, turnsOn, closing, closed, beside, clock, boot>>

\* LOWER(username) = LOWER(name): whichever row comes first.
Matches(name) == {id \in Ids : Exists(id) /\ Folded[users[id].name] = Folded[name]}

\* login: expired sessions of everyone go, one of this account comes.
Login(name) ==
    /\ Allowed
    /\ \/ \E id \in Matches(name) :
             sessions' = {s \in sessions : s[2] > clock} \cup {<<id, clock + TokenTtl>>}
       \/ UNCHANGED sessions                             \* no such row, or not its password
    /\ UNCHANGED <<users, serial, ownRows, studied, kept, turnsOn, closing, closed, beside, clock, boot>>

\* verify_token: a session that has expired does not count.
Verified(s) == s \in sessions /\ s[2] > clock

VerifyExpired(s) ==
    /\ s[2] <= clock
    /\ sessions' = sessions \ {s}
    /\ UNCHANGED <<users, serial, ownRows, studied, kept, turnsOn, closing, closed, beside, hits, clock, boot>>

Logout(s) ==
    /\ Idle
    /\ sessions' = sessions \ {s}
    /\ UNCHANGED <<users, serial, ownRows, studied, kept, turnsOn, closing, closed, beside, hits, clock, boot>>

Tick ==
    /\ clock < MaxClock /\ clock' = clock + 1
    /\ UNCHANGED <<users, serial, sessions, ownRows, studied, kept, turnsOn, closing, closed, beside, hits, boot>>

-----------------------------------------------------------------------------
(* Turns: the handler looks at the token, everything else is done by a      *)
(* thread beside the event loop.  A turn leaves rows that cascade, research *)
(* that does not, and a checkpoint and a window outside of the tables.      *)

\* The id of a new conversation is drawn: nothing was ever left under it.
New(x) == x \notin ownRows \cup kept \cup beside

\* A token that counts, and a conversation of the account or none yet.
StartTurn(s, c) ==
    LET x == <<s[1], c>> IN
    /\ Idle /\ Verified(s)
    /\ x \in ownRows \/ New(x)
    /\ \A at \in {"begun", "on"} : <<s[1], c, at>> \notin turnsOn
    /\ turnsOn' = turnsOn \cup {<<s[1], c, "begun">>}
    /\ UNCHANGED <<users, serial, sessions, ownRows, studied, kept, closing, closed, beside, hits,
                   clock, boot>>

\* create_run, before the graph: the conversation gets its row unless it has one.  The
\* foreign key refuses the row of a user that is gone, and no error stops the turn.
InsertRow(id, c) ==
    /\ <<id, c, "begun">> \in turnsOn
    /\ turnsOn' = (turnsOn \ {<<id, c, "begun">>}) \cup {<<id, c, "on">>}
    /\ \/ /\ Exists(id) /\ <<id, c>> \notin ownRows
          /\ ownRows' = ownRows \cup {<<id, c>>}
          /\ closing' = IF closing # Nobody /\ closing.id = id
                        THEN [closing EXCEPT !.late = @ \cup {<<id, c>>}] ELSE closing
       \/ UNCHANGED <<ownRows, closing>>
    /\ UNCHANGED <<users, serial, sessions, studied, kept, closed, beside, hits, clock, boot>>

\* What a turn writes outside of the tables asks for no row.
Leaves(x) ==
    /\ kept' = kept \cup {x}
    /\ beside' = IF x \in ownRows THEN beside ELSE beside \cup {x}

\* The graph saves a checkpoint after each of its steps.
SaveCheckpoint(id, c) ==
    /\ <<id, c, "on">> \in turnsOn
    /\ Leaves(<<id, c>>)
    /\ UNCHANGED <<users, serial, sessions, ownRows, studied, turnsOn, closing, closed, hits,
                   clock, boot>>

\* persist: the rows of a user that is gone are refused by their foreign keys.
EndTurn(id, c) ==
    /\ <<id, c, "on">> \in turnsOn
    /\ turnsOn' = turnsOn \ {<<id, c, "on">>}
    /\ Leaves(<<id, c>>)
    /\ studied' \in {studied, IF Exists(id) THEN studied \cup {id} ELSE studied}
    /\ UNCHANGED <<users, serial, sessions, ownRows, closing, closed, hits, clock, boot>>

-----------------------------------------------------------------------------
(* Closing an account. *)

\* delete_account: the keys of the old form, and the list of conversations.
Close(s) ==
    /\ Idle /\ Verified(s) /\ Exists(s[1])
    /\ closing' = [id |-> s[1], todo |-> {x \in ownRows : x[1] = s[1]}, late |-> {}]
    /\ UNCHANGED <<users, serial, sessions, ownRows, studied, kept, turnsOn, closed, beside, hits, clock, boot>>

\* delete_checkpoint_conversation: the row, then the checkpoint and the window; an
\* error after the row is logged and the closing goes on.
CloseConversation ==
    /\ ~ Idle
    /\ \E x \in closing.todo :
          /\ closing' = [closing EXCEPT !.todo = @ \ {x}]
          /\ ownRows' = ownRows \ {x}
          /\ \/ kept' = kept \ {x} /\ UNCHANGED beside
             \/ beside' = beside \cup {x} /\ UNCHANGED kept
    /\ UNCHANGED <<users, serial, sessions, studied, turnsOn, closed, hits, clock, boot>>

\* Mutant: the user goes first, and the list of the conversations with him.
DeleteUserFirst ==
    /\ ~ Idle
    /\ closing' = Nobody
    /\ users' = [users EXCEPT ![closing.id] = Nobody]
    /\ sessions' = {s \in sessions : s[1] # closing.id}
    /\ ownRows' = {x \in ownRows : x[1] # closing.id}
    /\ studied' = studied \ {closing.id}
    /\ closed' = closed \cup {closing.id}
    /\ beside' = beside \cup closing.late
    /\ UNCHANGED <<serial, kept, turnsOn, hits, clock, boot>>

\* delete_user: research first, then the row, with which the others cascade: the rows of
\* conversations too that came after the list was made.
DeleteUser ==
    /\ ~ Idle /\ closing.todo = {}
    /\ closing' = Nobody
    /\ users' = [users EXCEPT ![closing.id] = Nobody]
    /\ sessions' = {s \in sessions : s[1] # closing.id}
    /\ ownRows' = {x \in ownRows : x[1] # closing.id}
    /\ studied' = studied \ {closing.id}
    /\ closed' = closed \cup {closing.id}
    /\ beside' = beside \cup closing.late
    /\ UNCHANGED <<serial, kept, turnsOn, hits, clock, boot>>

\* 500: the store is out of reach, or a turn has added research between the
\* statements; or the process dies.  The account goes on with what it has left.
CloseFails ==
    /\ ~ Idle
    /\ closing' = Nobody
    /\ UNCHANGED <<users, serial, sessions, ownRows, studied, kept, turnsOn, closed, beside, hits, clock, boot>>

-----------------------------------------------------------------------------
(* The script. *)

BootFind(name) ==
    /\ boot.at = "idle"
    /\ \/ \E id \in Matches(name) :
             /\ boot' = [boot EXCEPT !.at = "promote", !.target = id]
             /\ UNCHANGED <<users, serial>>
       \/ /\ Matches(name) = {}
          /\ Insert(name, TRUE)
          /\ boot' = [boot EXCEPT !.at = "list", !.target = serial + 1]
    /\ UNCHANGED <<sessions, ownRows, studied, kept, turnsOn, closing, closed, beside, hits, clock>>

\* set_password and set_admin: nothing happens to a row that is gone.
SetAdmin(id, admin) ==
    users' = IF Exists(id) THEN [users EXCEPT ![id].admin = admin] ELSE users

BootPromote ==
    /\ boot.at = "promote"
    /\ SetAdmin(boot.target, TRUE)
    /\ boot' = [boot EXCEPT !.at = "list"]
    /\ UNCHANGED <<serial, sessions, ownRows, studied, kept, turnsOn, closing, closed, beside, hits, clock>>

BootList ==
    /\ boot.at = "list"
    /\ boot' = [boot EXCEPT !.at = "demote",
                   !.todo = {id \in Ids : Exists(id) /\ id # boot.target /\ users[id].admin}]
    /\ UNCHANGED <<users, serial, sessions, ownRows, studied, kept, turnsOn, closing, closed, beside, hits, clock>>

BootDemote ==
    /\ boot.at = "demote"
    /\ IF boot.todo = {}
       THEN boot' = [boot EXCEPT !.at = "done"] /\ UNCHANGED users
       ELSE \E id \in boot.todo : SetAdmin(id, FALSE) /\ boot' = [boot EXCEPT !.todo = @ \ {id}]
    /\ UNCHANGED <<serial, sessions, ownRows, studied, kept, turnsOn, closing, closed, beside, hits, clock>>

Next ==
    \/ Refuse \/ Tick
    \/ \E name \in Names : Register(name) \/ Login(name) \/ BootFind(name)
    \/ \E s \in sessions : VerifyExpired(s) \/ Logout(s) \/ Close(s)
                           \/ \E c \in Conversations : StartTurn(s, c)
    \/ \E x \in turnsOn : InsertRow(x[1], x[2]) \/ SaveCheckpoint(x[1], x[2]) \/ EndTurn(x[1], x[2])
    \/ CloseConversation \/ DeleteUser \/ CloseFails
    \/ BootPromote \/ BootList \/ BootDemote

Spec == Init /\ [][Next]_accountVars

-----------------------------------------------------------------------------

\* What is left of an account after its closing was answered with success: no session, no
\* row, no research, and of checkpoints and windows only those that a turn wrote while its
\* conversation had no row, those whose removal had failed, in this closing or in one that
\* broke off before, and those of a conversation whose row a turn inserted after the closing
\* had listed the conversations (auth.py:62-82, turn_coordinator.py:148-161).
ClosingLeavesNothing ==
    \A id \in closed :
       /\ \A s \in sessions : s[1] # id
       /\ \A x \in ownRows : x[1] # id
       /\ id \notin studied
       /\ \A x \in kept : x[1] = id => x \in beside
=============================================================================
