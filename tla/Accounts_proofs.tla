-------------------------- MODULE Accounts_proofs --------------------------
(***************************************************************************)
(* The closing of an account, for any number of names, conversations,      *)
(* accounts and turns.  The invariant says what each table knows of the    *)
(* ids given out: a closed one has no row and gets none again, so nobody   *)
(* logs in, and every checkpoint and window is either of a conversation    *)
(* that still has its row or known to have been left beside.               *)
(***************************************************************************)
EXTENDS Accounts, TLAPS

Sizes == MaxAccounts \in Nat

\* Rows are of ids given out, a closed id has none, and no later row takes it.
RowInv ==
    /\ serial \in 0 .. MaxAccounts
    /\ users = [id \in Ids |-> users[id]]
    /\ \A id \in Ids : Exists(id) => id <= serial
    /\ closed \subseteq 1 .. serial
    /\ \A id \in closed : ~Exists(id)

\* What a closed account cannot do any more, or has lost.
GoneInv ==
    \A id \in closed :
       /\ \A s \in sessions : s[1] # id
       /\ \A x \in ownRows : x[1] # id
       /\ id \notin studied

\* A conversation of the account being closed is on the handler's list, or its row came
\* after the list was made.
ClosingInv ==
    closing # Nobody =>
       /\ closing = [id |-> closing.id, todo |-> closing.todo, late |-> closing.late]
       /\ closing.id \in 1 .. serial
       /\ \A x \in ownRows : x[1] = closing.id => x \in closing.todo \cup closing.late

\* A checkpoint or a window is of a conversation with a row, or was left beside.
KeptInv == kept \subseteq ownRows \cup beside

IInv == RowInv /\ GoneInv /\ ClosingInv /\ KeptInv

LEMMA InitAccounts == Sizes /\ Init => IInv
BY DEF Sizes, Init, IInv, RowInv, GoneInv, ClosingInv, KeptInv, Exists, Ids

-----------------------------------------------------------------------------
(* The table of users.                                                      *)

\* A step that gives rows to new ids only, and closes none.
NewRowsOnly ==
    /\ closed' = closed /\ serial' >= serial /\ serial' \in 0 .. MaxAccounts
    /\ users' = [id \in Ids |-> users'[id]]
    /\ \A id \in Ids : Exists(id)' => Exists(id) \/ (id > serial /\ id <= serial')

LEMMA RowsOfNewIds ==
    ASSUME Sizes, RowInv, NewRowsOnly
    PROVE  RowInv'
BY DEF Sizes, RowInv, NewRowsOnly, Ids

LEMMA InsertIsNew ==
    ASSUME Sizes, RowInv, NEW name, NEW admin, Insert(name, admin), closed' = closed
    PROVE  NewRowsOnly
<1>1. /\ serial \in Nat /\ MaxAccounts \in Nat /\ serial < MaxAccounts /\ serial' = serial + 1
      /\ users' = [users EXCEPT ![serial + 1] = [name |-> name, admin |-> admin]]
  BY DEF Sizes, RowInv, Insert
<1>2. users' = [id \in Ids |-> users'[id]] /\ \A id \in Ids \ {serial + 1} : users'[id] = users[id]
  BY <1>1 DEF RowInv
<1>3. \A id \in Ids : Exists(id)' => Exists(id) \/ id = serial + 1
  BY <1>2 DEF Exists
<1>. QED BY <1>1, <1>2, <1>3 DEF NewRowsOnly

LEMMA SetAdminAddsNone ==
    ASSUME Sizes, RowInv, NEW id, NEW admin, SetAdmin(id, admin), serial' = serial, closed' = closed
    PROVE  NewRowsOnly
<1>1. users' = [k \in Ids |-> users'[k]]
  BY DEF RowInv, SetAdmin
<1>2. \A k \in Ids : Exists(k)' => Exists(k)
  <2>1. SUFFICES ASSUME NEW k \in Ids, ~Exists(k) PROVE users'[k] = users[k]
    BY DEF Exists
  <2>. QED BY <2>1 DEF SetAdmin, RowInv, Exists
<1>. QED BY <1>1, <1>2 DEF NewRowsOnly, RowInv, Sizes

-----------------------------------------------------------------------------
(* The steps.                                                               *)

\* Where rows come to new ids only, and nothing else is touched, all stays.
LEMMA RowStep ==
    ASSUME Sizes, IInv, NewRowsOnly,
           UNCHANGED <<sessions, ownRows, studied, kept, closing, beside>>
    PROVE  IInv'
<1>1. RowInv'
  BY RowsOfNewIds DEF IInv
<1>2. GoneInv' /\ KeptInv'
  BY DEF IInv, GoneInv, KeptInv, NewRowsOnly
<1>3. ClosingInv'
  BY DEF IInv, ClosingInv, NewRowsOnly, RowInv, Sizes
<1>. QED BY <1>1, <1>2, <1>3 DEF IInv

LEMMA NoRow ==
    ASSUME Sizes, RowInv, UNCHANGED <<users, serial, closed>>
    PROVE  NewRowsOnly
BY DEF Sizes, RowInv, NewRowsOnly, Exists

\* A session more for an account that exists, or fewer.
LEMMA SessionStep ==
    ASSUME Sizes, IInv, UNCHANGED <<users, serial, closed, ownRows, studied, kept, closing, beside>>,
           \A s \in sessions' : s \in sessions \/ (s[1] \in Ids /\ Exists(s[1]))
    PROVE  IInv'
<1>1. RowInv'
  BY NoRow, RowsOfNewIds DEF IInv
<1>2. GoneInv'
  BY DEF IInv, GoneInv, RowInv
<1>3. ClosingInv' /\ KeptInv'
  BY DEF IInv, ClosingInv, KeptInv
<1>. QED BY <1>1, <1>2, <1>3 DEF IInv

\* A turn that begins touches no table; the row of its conversation is the worker's.
LEMMA StartTurnKeeps ==
    ASSUME Sizes, IInv, NEW s \in sessions, NEW c \in Conversations, StartTurn(s, c)
    PROVE  IInv'
<1>1. UNCHANGED <<users, serial, sessions, ownRows, studied, kept, closing, closed, beside>>
  BY DEF StartTurn
<1>. QED BY <1>1, NoRow, RowStep DEF IInv

\* A row that comes during the closing of its account is one the handler has not listed.
LEMMA InsertRowKeeps ==
    ASSUME Sizes, IInv, NEW id \in Ids, NEW c, InsertRow(id, c)
    PROVE  IInv'
<1> DEFINE x == <<id, c>>
<1>1. UNCHANGED <<users, serial, sessions, studied, kept, closed, beside>>
  BY DEF InsertRow
<1>2. CASE UNCHANGED <<ownRows, closing>>
  BY <1>1, <1>2, NoRow, RowStep DEF IInv
<1>3. CASE /\ Exists(id) /\ ownRows' = ownRows \cup {x}
           /\ closing' = IF closing # Nobody /\ closing.id = id
                         THEN [closing EXCEPT !.late = @ \cup {x}] ELSE closing
  <2>1. RowInv'
    BY <1>1, NoRow, RowsOfNewIds DEF IInv
  <2>2. GoneInv'
    BY <1>1, <1>3 DEF IInv, GoneInv, RowInv
  <2>3. KeptInv'
    BY <1>1, <1>3 DEF IInv, KeptInv
  <2>4. ASSUME closing' # Nobody PROVE closing # Nobody /\ closing'.id = closing.id
    BY <1>3, <2>4 DEF IInv, ClosingInv
  <2>5. ASSUME closing # Nobody
        PROVE  /\ closing' = [id |-> closing'.id, todo |-> closing'.todo, late |-> closing'.late]
               /\ closing'.todo = closing.todo /\ closing.late \subseteq closing'.late
               /\ closing.id = id => x \in closing'.late
    BY <1>3, <2>5 DEF IInv, ClosingInv
  <2>6. ClosingInv'
    BY <1>1, <1>3, <2>4, <2>5 DEF IInv, ClosingInv
  <2>. QED BY <2>1, <2>2, <2>3, <2>6 DEF IInv
<1>. QED BY <1>2, <1>3 DEF InsertRow

\* What a turn writes while its conversation has no row is left beside.
LEMMA LeavesKeeps ==
    ASSUME Sizes, IInv, NEW x, Leaves(x),
           UNCHANGED <<users, serial, sessions, ownRows, closing, closed>>,
           \A id \in studied' : id \in studied \/ Exists(id)
    PROVE  IInv'
<1>1. RowInv'
  BY NoRow, RowsOfNewIds DEF IInv
<1>2. GoneInv'
  BY DEF IInv, GoneInv, RowInv
<1>3. ClosingInv'
  BY DEF IInv, ClosingInv
<1>4. KeptInv'
  BY DEF IInv, KeptInv, Leaves
<1>. QED BY <1>1, <1>2, <1>3, <1>4 DEF IInv

LEMMA TurnKeeps ==
    ASSUME Sizes, IInv, NEW id, NEW c, SaveCheckpoint(id, c) \/ EndTurn(id, c)
    PROVE  IInv'
BY LeavesKeeps DEF SaveCheckpoint, EndTurn

LEMMA CloseKeeps ==
    ASSUME Sizes, IInv, NEW s \in sessions, s[1] \in Ids, Close(s)
    PROVE  IInv'
<1>1. RowInv'
  BY NoRow, RowsOfNewIds DEF IInv, Close
<1>2. GoneInv' /\ KeptInv'
  BY DEF IInv, GoneInv, KeptInv, Close
<1>3. ClosingInv'
  <2>1. s[1] \in 1 .. serial
    BY DEF IInv, RowInv, Close, Ids, Sizes
  <2>. QED BY <2>1 DEF ClosingInv, Close
<1>. QED BY <1>1, <1>2, <1>3 DEF IInv

LEMMA CloseConversationKeeps ==
    ASSUME Sizes, IInv, CloseConversation
    PROVE  IInv'
<1>1. RowInv'
  BY NoRow, RowsOfNewIds DEF IInv, CloseConversation
<1>2. PICK x \in closing.todo :
         /\ closing' = [closing EXCEPT !.todo = @ \ {x}]
         /\ ownRows' = ownRows \ {x}
         /\ \/ kept' = kept \ {x} /\ beside' = beside
            \/ beside' = beside \cup {x} /\ kept' = kept
  BY DEF CloseConversation
<1>3. UNCHANGED <<users, serial, sessions, studied, closed>> /\ closing # Nobody
  BY DEF CloseConversation, Idle
<1>4. GoneInv'
  BY <1>2, <1>3 DEF IInv, GoneInv
<1>5. KeptInv'
  BY <1>2 DEF IInv, KeptInv
<1>6. ClosingInv'
  BY <1>2, <1>3 DEF IInv, ClosingInv
<1>. QED BY <1>1, <1>4, <1>5, <1>6 DEF IInv

\* The rows that go with the user are those the handler had not listed.
LEMMA DeleteUserKeeps ==
    ASSUME Sizes, IInv, DeleteUser
    PROVE  IInv'
<1>1. /\ closing # Nobody /\ closing' = Nobody /\ closing.todo = {}
      /\ closing.id \in 1 .. serial
      /\ \A x \in ownRows : x[1] = closing.id => x \in closing.late
  BY DEF DeleteUser, Idle, IInv, ClosingInv
<1>2. /\ ownRows' = {x \in ownRows : x[1] # closing.id}
      /\ kept' = kept /\ beside' = beside \cup closing.late
  BY DEF DeleteUser
<1>3. RowInv'
  <2>1. /\ users' = [users EXCEPT ![closing.id] = Nobody] /\ serial' = serial
        /\ closed' = closed \cup {closing.id}
    BY DEF DeleteUser
  <2>2. closing.id \in Ids
    BY <1>1 DEF IInv, RowInv, Ids, Sizes
  <2>3. /\ users' = [id \in Ids |-> users'[id]] /\ users'[closing.id] = Nobody
        /\ \A id \in Ids \ {closing.id} : users'[id] = users[id]
    BY <2>1, <2>2 DEF IInv, RowInv
  <2>4. closed \subseteq Ids
    BY DEF IInv, RowInv, Ids, Sizes
  <2>5. \A id \in closed' : ~Exists(id)'
    BY <2>1, <2>3, <2>4 DEF IInv, RowInv, Exists
  <2>6. \A id \in Ids : Exists(id)' => id <= serial'
    BY <2>1, <2>3 DEF IInv, RowInv, Exists
  <2>. QED BY <1>1, <2>1, <2>3, <2>5, <2>6 DEF IInv, RowInv
<1>4. GoneInv'
  BY <1>1, <1>2 DEF IInv, GoneInv, DeleteUser
<1>5. ClosingInv' /\ KeptInv'
  BY <1>1, <1>2 DEF IInv, ClosingInv, KeptInv
<1>. QED BY <1>3, <1>4, <1>5 DEF IInv

\* Sessions and turns are of ids.
IdsOnly == (\A s \in sessions : s[1] \in Ids) /\ (\A x \in turnsOn : x[1] \in Ids)

LEMMA NextKeeps ==
    ASSUME Sizes, IInv, IdsOnly, [Next]_accountVars
    PROVE  IInv'
<1>1. ASSUME NEW name, Register(name) \/ BootFind(name) PROVE IInv'
  <2>1. UNCHANGED <<sessions, ownRows, studied, kept, closing, beside, closed>>
    BY <1>1 DEF Register, BootFind
  <2>2. (\E n, b : Insert(n, b)) \/ UNCHANGED <<users, serial>>
    BY <1>1 DEF Register, BootFind
  <2>. QED BY <2>1, <2>2, InsertIsNew, NoRow, RowStep DEF IInv
<1>2. ASSUME NEW name, Login(name) PROVE IInv'
  BY <1>2, SessionStep DEF Login, Matches
<1>3. ASSUME NEW s \in sessions, VerifyExpired(s) \/ Logout(s) PROVE IInv'
  BY <1>3, SessionStep DEF VerifyExpired, Logout
<1>4. CASE BootPromote \/ BootDemote
  <2>1. UNCHANGED <<serial, sessions, ownRows, studied, kept, closing, beside, closed>>
    BY <1>4 DEF BootPromote, BootDemote
  <2>2. (\E id, b : SetAdmin(id, b)) \/ users' = users
    BY <1>4 DEF BootPromote, BootDemote
  <2>. QED BY <2>1, <2>2, SetAdminAddsNone, NoRow, RowStep DEF IInv
<1>5. CASE Refuse \/ Tick \/ BootList \/ UNCHANGED accountVars
  BY <1>5, NoRow, RowStep DEF Refuse, Tick, BootList, accountVars, IInv
<1>6. CASE CloseFails
  <2>1. RowInv'
    BY <1>6, NoRow, RowsOfNewIds DEF IInv, CloseFails
  <2>. QED BY <1>6, <2>1 DEF CloseFails, IInv, GoneInv, ClosingInv, KeptInv
<1>. QED
  BY <1>1, <1>2, <1>3, <1>4, <1>5, <1>6, StartTurnKeeps, InsertRowKeeps, TurnKeeps, CloseKeeps,
     CloseConversationKeeps, DeleteUserKeeps
     DEF Next, IdsOnly

LEMMA IdsStep ==
    ASSUME IdsOnly, [Next]_accountVars
    PROVE  IdsOnly'
<1>1. ASSUME NEW name, Login(name) PROVE IdsOnly'
  BY <1>1 DEF IdsOnly, Login, Matches, Ids
<1>2. ASSUME sessions' \subseteq sessions, turnsOn' \subseteq turnsOn PROVE IdsOnly'
  BY <1>2 DEF IdsOnly, Ids
<1>3. CASE Refuse \/ Tick \/ CloseConversation \/ CloseFails \/ BootPromote \/ BootList \/ BootDemote
  BY <1>2, <1>3 DEF Refuse, Tick, CloseConversation, CloseFails, BootPromote, BootList, BootDemote
<1>4. ASSUME NEW name, Register(name) \/ BootFind(name) PROVE IdsOnly'
  BY <1>2, <1>4 DEF Register, BootFind
<1>5. ASSUME NEW s, VerifyExpired(s) \/ Logout(s) \/ Close(s) PROVE IdsOnly'
  BY <1>2, <1>5 DEF VerifyExpired, Logout, Close
<1>6. ASSUME NEW s \in sessions, NEW c, StartTurn(s, c) PROVE IdsOnly'
  <2>1. sessions' = sessions /\ turnsOn' = turnsOn \cup {<<s[1], c, "begun">>} /\ s[1] \in Ids
    BY <1>6 DEF StartTurn, IdsOnly
  <2>. QED BY <2>1 DEF IdsOnly, Ids
<1>7. ASSUME NEW x \in turnsOn, InsertRow(x[1], x[2]) PROVE IdsOnly'
  <2>1. /\ sessions' = sessions /\ x[1] \in Ids
        /\ \A y \in turnsOn' : y \in turnsOn \/ y[1] = x[1]
    BY <1>7 DEF InsertRow, IdsOnly
  <2>. QED BY <2>1 DEF IdsOnly, Ids
<1>8. ASSUME NEW id, NEW c, SaveCheckpoint(id, c) \/ EndTurn(id, c) PROVE IdsOnly'
  BY <1>2, <1>8 DEF SaveCheckpoint, EndTurn
<1>9. CASE DeleteUser
  BY <1>2, <1>9 DEF DeleteUser
<1>10. CASE UNCHANGED accountVars
  BY <1>2, <1>10 DEF accountVars
<1>. QED BY <1>1, <1>3, <1>4, <1>5, <1>6, <1>7, <1>8, <1>9, <1>10 DEF Next

\* When a closing was answered with success the account has no session, no row and no
\* research left, and gets none later, whatever turns run beside it; every checkpoint and
\* window of it that is left was written while its conversation had no row, could not be
\* removed, or is of a conversation whose row came after the closing had made its list.
THEOREM ClosedIsGone ==
    ASSUME Sizes
    PROVE  Spec => []ClosingLeavesNothing
<1> DEFINE J == IInv /\ IdsOnly
<1>1. Init => J
  BY InitAccounts DEF Init, IdsOnly
<1>2. J /\ [Next]_accountVars => J'
  BY NextKeeps, IdsStep
<1>3. J => ClosingLeavesNothing
  BY DEF IInv, GoneInv, KeptInv, ClosingLeavesNothing
<1>. QED BY <1>1, <1>2, <1>3, PTL DEF Spec
=============================================================================
