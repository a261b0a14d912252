--------------------------- MODULE AccountsProofs ---------------------------
(***************************************************************************)
(* Proofs about Accounts, for any number of users, names, invites, tokens  *)
(* and concurrent calls: a registration is a login to RefreshTokens, names *)
(* are unique and invites are used within their bound.                     *)
(***************************************************************************)
EXTENDS Accounts, FiniteSetTheorems, TLAPS

-----------------------------------------------------------------------------
\* Transactions: what a record of txn says of itself and of the rows.
TxnOK(x) ==
    /\ x.step = "idle" => x = Sessions!Idle
    /\ x.step = "insert" => x.op \in {"login", "refresh"}
    /\ x.step # "commit" => x.fresh = NoToken
    /\ x.held \subseteq deleted
    /\ \A t \in x.matched \cup x.locked : status[t] # "absent"

TxnInv ==
    /\ txn \in [Requests -> Sessions!Txn]
    /\ status \in [Tokens -> Sessions!Status]
    /\ owner \in [Tokens -> Users \cup {NoUser}]
    /\ deleted \subseteq Users
    /\ \A r \in Requests : TxnOK(txn[r])

LEMMA IdleOK ==
  /\ Sessions!Idle \in Sessions!Txn
  /\ Sessions!Idle.step = "idle" /\ Sessions!Idle.op = "none" /\ Sessions!Idle.fresh = NoToken
  /\ Sessions!Idle.matched = {} /\ Sessions!Idle.locked = {}
  /\ Sessions!Idle.held = {} /\ Sessions!Idle.left = {}
  BY DEF Sessions!Idle, Sessions!Txn, Sessions!Step, Sessions!Op

LEMMA InitTxn == Sessions!Init => TxnInv
  BY IdleOK DEF Sessions!Init, TxnInv, TxnOK, Sessions!Status

\* One transaction goes on; rows are never absent again, users deleted for good.
LEMMA OneTxn ==
  ASSUME TxnInv, NEW r \in Requests, NEW x \in Sessions!Txn, Sessions!Enter(r, x), TxnOK(x)',
         status' \in [Tokens -> Sessions!Status], owner' \in [Tokens -> Users \cup {NoUser}],
         deleted' = deleted, \A t \in Tokens : status'[t] = "absent" => status[t] = "absent"
  PROVE  TxnInv'
<1>1. /\ txn' \in [Requests -> Sessions!Txn] /\ txn'[r] = x
      /\ \A q \in Requests \ {r} : txn'[q] = txn[q]
  BY DEF TxnInv, Sessions!Enter
<1>2. TxnOK(txn[r])'
  BY <1>1 DEF TxnOK
<1>3. ASSUME NEW q \in Requests \ {r} PROVE TxnOK(txn[q])'
  <2>1. TxnOK(txn[q]) /\ txn[q].matched \cup txn[q].locked \subseteq Tokens /\ txn'[q] = txn[q]
    BY <1>1 DEF TxnInv, Sessions!Txn
  <2> QED BY <2>1 DEF TxnOK
<1> QED BY <1>1, <1>2, <1>3 DEF TxnInv

\* A call begins.
LEMMA Begin ==
  ASSUME TxnInv, NEW r \in Requests, NEW x \in Sessions!Txn, Sessions!Enter(r, x), UNCHANGED Sessions!db,
         x.fresh = NoToken, x.matched = {}, x.locked = {}, x.step \in {"insert", "update"},
         x.step = "insert" => x.op = "login", x.held \subseteq deleted
  PROVE  TxnInv'
<1>1. TxnOK(x)'
  BY DEF TxnOK, Sessions!db
<1> QED BY <1>1, OneTxn DEF TxnInv, Sessions!db

LEMMA BeginTxn ==
  ASSUME TxnInv, NEW r \in Requests,
         \/ \E u \in Users : Sessions!Login(r, u) \/ Sessions!Logout(r, u)
         \/ \E B \in SUBSET Users : Sessions!Erase(r, B)
         \/ \E t \in Tokens : Sessions!Refresh(r, t) \/ Sessions!RefreshReused(r, t)
  PROVE  TxnInv'
<1>1. ASSUME NEW u \in Users, Sessions!Login(r, u) PROVE TxnInv'
  <2> DEFINE x == [Sessions!Idle EXCEPT !.step = "insert", !.op = "login", !.user = u]
  <2>1. /\ x \in Sessions!Txn /\ x.fresh = NoToken /\ x.matched = {} /\ x.locked = {}
        /\ x.step = "insert" /\ x.op = "login" /\ x.held = {}
    BY DEF Sessions!Idle, Sessions!Txn, Sessions!Step, Sessions!Op
  <2>2. Sessions!Enter(r, x) /\ UNCHANGED Sessions!db
    BY <1>1 DEF Sessions!Login
  <2> HIDE DEF x
  <2> QED BY <2>1, <2>2, Begin
<1>2. ASSUME NEW u \in Users, Sessions!Logout(r, u) PROVE TxnInv'
  <2> DEFINE x == [Sessions!Idle EXCEPT !.step = "update", !.op = "logout", !.user = u]
  <2>1. /\ x \in Sessions!Txn /\ x.fresh = NoToken /\ x.matched = {} /\ x.locked = {}
        /\ x.step = "update" /\ x.op = "logout" /\ x.held = {}
    BY DEF Sessions!Idle, Sessions!Txn, Sessions!Step, Sessions!Op
  <2>2. Sessions!Enter(r, x) /\ UNCHANGED Sessions!db
    BY <1>2 DEF Sessions!Logout
  <2> HIDE DEF x
  <2> QED BY <2>1, <2>2, Begin
<1>3. ASSUME NEW B \in SUBSET Users, Sessions!Erase(r, B) PROVE TxnInv'
  <2>1. PICK u \in B : Sessions!Enter(r, [Sessions!Idle EXCEPT !.step = "update", !.op = "erase",
                                              !.user = u, !.held = B, !.left = B \ {u}])
    BY <1>3 DEF Sessions!Erase
  <2> DEFINE x == [Sessions!Idle EXCEPT !.step = "update", !.op = "erase", !.user = u,
                                        !.held = B, !.left = B \ {u}]
  <2>2. /\ x \in Sessions!Txn /\ x.fresh = NoToken /\ x.matched = {} /\ x.locked = {}
        /\ x.step = "update" /\ x.held = B
    BY DEF Sessions!Idle, Sessions!Txn, Sessions!Step, Sessions!Op
  <2>3. Sessions!Enter(r, x) /\ UNCHANGED Sessions!db /\ B \subseteq deleted
    BY <1>3, <2>1 DEF Sessions!Erase
  <2> HIDE DEF x
  <2> QED BY <2>2, <2>3, Begin
<1>4. ASSUME NEW t \in Tokens, NEW op \in {"refresh", "reuse"},
             Sessions!Enter(r, [Sessions!Idle EXCEPT !.step = "update", !.op = op,
                                                     !.user = owner[t], !.stored = t]),
             UNCHANGED Sessions!db
      PROVE  TxnInv'
  <2> DEFINE x == [Sessions!Idle EXCEPT !.step = "update", !.op = op, !.user = owner[t], !.stored = t]
  <2>0. owner[t] \in Users \cup {NoUser}
    BY DEF TxnInv
  <2>1. /\ x \in Sessions!Txn /\ x.fresh = NoToken /\ x.matched = {} /\ x.locked = {}
        /\ x.step = "update" /\ x.op = op /\ x.held = {}
    BY <2>0 DEF Sessions!Idle, Sessions!Txn, Sessions!Step, Sessions!Op
  <2> HIDE DEF x
  <2> QED BY <1>4, <2>1, Begin DEF x
<1> QED BY <1>1, <1>2, <1>3, <1>4 DEF Sessions!Refresh, Sessions!RefreshReused

\* A statement of it.
LEMMA StatementTxn ==
  ASSUME TxnInv, NEW r \in Requests,
         \/ Sessions!UpdateStart(r) \/ Sessions!UpdateEnd(r)
         \/ \E t \in Tokens : Sessions!UpdateRow(r, t) \/ Sessions!Insert(r, t)
  PROVE  TxnInv'
<1>1. txn[r] \in Sessions!Txn /\ TxnOK(txn[r]) /\ UNCHANGED Sessions!db
  BY DEF TxnInv, Sessions!UpdateStart, Sessions!UpdateEnd, Sessions!UpdateRow, Sessions!Insert
<1>2. ASSUME NEW x \in Sessions!Txn, Sessions!Enter(r, x), TxnOK(x) PROVE TxnInv'
  <2>1. TxnOK(x)'
    BY <1>1, <1>2 DEF TxnOK, Sessions!db
  <2> QED BY <1>1, <1>2, <2>1, OneTxn DEF TxnInv, Sessions!db
<1>3. ASSUME Sessions!UpdateStart(r) PROVE TxnInv'
  <2> DEFINE m == {t \in Tokens : status[t] \in Sessions!Unrevoked /\ Sessions!InScope(txn[r], t)}
             x == [txn[r] EXCEPT !.step = "visiting", !.matched = txn[r].matched \cup m]
  <2>1. Sessions!Enter(r, x) /\ txn[r].step = "update"
    BY <1>3 DEF Sessions!UpdateStart
  <2>2. m \in SUBSET Tokens /\ \A t \in m : status[t] # "absent"
    BY DEF Sessions!Unrevoked
  <2> HIDE DEF m
  <2>3. x \in Sessions!Txn /\ TxnOK(x)
    BY <2>1, <2>2, <1>1 DEF TxnOK, Sessions!Txn, Sessions!Step
  <2> QED BY <2>1, <2>3, <1>2
<1>4. ASSUME NEW t \in Tokens, Sessions!UpdateRow(r, t) PROVE TxnInv'
  <2> DEFINE x == [txn[r] EXCEPT !.locked = txn[r].locked \cup {t}]
  <2>1. Sessions!Enter(r, x) /\ txn[r].step = "visiting" /\ status[t] # "absent"
    BY <1>4 DEF Sessions!UpdateRow, Sessions!Pending, Sessions!Unrevoked
  <2>2. x \in Sessions!Txn /\ TxnOK(x)
    BY <2>1, <1>1 DEF TxnOK, Sessions!Txn
  <2> QED BY <2>1, <2>2, <1>2
<1>5. ASSUME Sessions!UpdateEnd(r) PROVE TxnInv'
  <2>0. txn[r].step = "visiting" /\ Sessions!AfterUpdate(r)
    BY <1>5 DEF Sessions!UpdateEnd
  <2>1. CASE Sessions!Enter(r, [txn[r] EXCEPT !.step = "insert"]) /\ txn[r].op = "refresh"
    <3>1. [txn[r] EXCEPT !.step = "insert"] \in Sessions!Txn /\ TxnOK([txn[r] EXCEPT !.step = "insert"])
      BY <2>0, <2>1, <1>1 DEF TxnOK, Sessions!Txn, Sessions!Step
    <3> QED BY <2>1, <3>1, <1>2
  <2>2. CASE Sessions!Enter(r, [txn[r] EXCEPT !.step = "commit"])
    <3>1. [txn[r] EXCEPT !.step = "commit"] \in Sessions!Txn /\ TxnOK([txn[r] EXCEPT !.step = "commit"])
      BY <2>0, <2>2, <1>1 DEF TxnOK, Sessions!Txn, Sessions!Step
    <3> QED BY <2>2, <3>1, <1>2
  <2>3. ASSUME NEW u \in txn[r].left,
               Sessions!Enter(r, [txn[r] EXCEPT !.step = "update", !.user = u,
                                                !.left = txn[r].left \ {u}])
        PROVE  TxnInv'
    <3> DEFINE x == [txn[r] EXCEPT !.step = "update", !.user = u, !.left = txn[r].left \ {u}]
    <3>1. u \in Users /\ txn[r].left \subseteq Users
      BY <1>1 DEF Sessions!Txn
    <3>2. x \in Sessions!Txn /\ TxnOK(x)
      BY <2>0, <3>1, <1>1 DEF TxnOK, Sessions!Txn, Sessions!Step
    <3> QED BY <2>3, <3>2, <1>2
  <2>4. CASE Sessions!Enter(r, Sessions!Idle)
    BY <2>4, <1>2, IdleOK DEF TxnOK
  <2> QED BY <2>0, <2>1, <2>2, <2>3, <2>4 DEF Sessions!AfterUpdate, Sessions!Rollback
<1>6. ASSUME NEW t \in Tokens, Sessions!Insert(r, t) PROVE TxnInv'
  <2> DEFINE x == [txn[r] EXCEPT !.step = "commit", !.fresh = t]
  <2>1. Sessions!Enter(r, x) /\ txn[r].step = "insert"
    BY <1>6 DEF Sessions!Insert
  <2>2. x \in Sessions!Txn /\ TxnOK(x)
    BY <2>1, <1>1 DEF TxnOK, Sessions!Txn, Sessions!Step
  <2> QED BY <2>1, <2>2, <1>2
<1> QED BY <1>3, <1>4, <1>5, <1>6

\* It ends.
LEMMA EndTxn ==
  ASSUME TxnInv, NEW r \in Requests,
         Sessions!Commit(r) \/ (Sessions!Enter(r, Sessions!Idle) /\ UNCHANGED Sessions!db)
  PROVE  TxnInv'
<1>1. /\ Sessions!Enter(r, Sessions!Idle) /\ TxnOK(Sessions!Idle)' /\ deleted' = deleted
      /\ txn[r] \in Sessions!Txn
  BY IdleOK DEF TxnInv, TxnOK, Sessions!Commit, Sessions!Rollback, Sessions!db
<1>2. CASE Sessions!Commit(r)
  <2>1. status' \in [Tokens -> Sessions!Status] /\ owner' \in [Tokens -> Users \cup {NoUser}]
    BY <1>1, <1>2 DEF TxnInv, Sessions!Commit, Sessions!Status, Sessions!Txn
  <2>2. \A t \in Tokens : status'[t] = "absent" => status[t] = "absent"
    BY <1>2 DEF Sessions!Commit
  <2> QED BY <1>1, <2>1, <2>2, IdleOK, OneTxn
<1>3. CASE UNCHANGED Sessions!db
  BY <1>1, <1>3, IdleOK, OneTxn DEF TxnInv, Sessions!db
<1> QED BY <1>2, <1>3

\* Nobody's transaction moves.
LEMMA RowsTxn ==
  ASSUME TxnInv, UNCHANGED <<txn, owner>>, deleted \subseteq deleted', deleted' \subseteq Users,
         status' \in [Tokens -> Sessions!Status],
         \A t \in Tokens : status'[t] = "absent" => status[t] = "absent"
  PROVE  TxnInv'
<1>1. ASSUME NEW q \in Requests PROVE TxnOK(txn[q])'
  <2>1. TxnOK(txn[q]) /\ txn[q].matched \cup txn[q].locked \subseteq Tokens
    BY DEF TxnInv, Sessions!Txn
  <2> QED BY <2>1 DEF TxnOK
<1> QED BY <1>1 DEF TxnInv

LEMMA NextTxn == TxnInv /\ [Sessions!Next]_sessions => TxnInv'
<1> SUFFICES ASSUME TxnInv, [Sessions!Next]_sessions PROVE TxnInv'
  OBVIOUS
<1>1. ASSUME NEW u \in Users, Sessions!DeleteAccount(u) PROVE TxnInv'
  BY <1>1, RowsTxn DEF Sessions!DeleteAccount, TxnInv
<1>2. ASSUME NEW t \in Tokens, Sessions!Expire(t) PROVE TxnInv'
  <2>1. status' \in [Tokens -> Sessions!Status]
        /\ \A s \in Tokens : status'[s] = "absent" => status[s] = "absent"
    BY <1>2 DEF TxnInv, Sessions!Expire, Sessions!Status
  <2> QED BY <1>2, <2>1, RowsTxn DEF Sessions!Expire, TxnInv
<1>3. ASSUME Sessions!Retention PROVE TxnInv'
  <2>1. status' \in [Tokens -> Sessions!Status]
        /\ \A s \in Tokens : status'[s] = "absent" => status[s] = "absent"
    BY <1>3 DEF TxnInv, Sessions!Retention, Sessions!Status
  <2> QED BY <1>3, <2>1, RowsTxn DEF Sessions!Retention, TxnInv
<1>4. ASSUME NEW r \in Requests, Sessions!Progress(r) PROVE TxnInv'
  <2>1. CASE \/ Sessions!UpdateStart(r) \/ Sessions!UpdateEnd(r)
             \/ \E t \in Tokens : Sessions!UpdateRow(r, t) \/ Sessions!Insert(r, t)
    BY <2>1, StatementTxn, Zenon
  <2>2. CASE Sessions!Commit(r)
    BY <2>2, EndTxn, Zenon
  <2> QED BY <1>4, <2>1, <2>2, Zenon DEF Sessions!Progress
<1>6. ASSUME NEW r \in Requests, Sessions!Abort(r) \/ Sessions!DeadlockVictim(r) PROVE TxnInv'
  <2>1. Sessions!Enter(r, Sessions!Idle) /\ UNCHANGED Sessions!db
    BY <1>6 DEF Sessions!Abort, Sessions!DeadlockVictim, Sessions!Rollback
  <2> QED BY <2>1, EndTxn
<1>5. ASSUME UNCHANGED sessions PROVE TxnInv'
  BY <1>5, RowsTxn DEF sessions, TxnInv
<1> QED BY <1>1, <1>2, <1>3, <1>4, <1>5, <1>6, BeginTxn DEF Sessions!Next

-----------------------------------------------------------------------------
\* Registrations: each is about a user there is not, and a name that, once it is
\* in the index, is nobody's.
RegTxnOK(r) ==
    /\ reg[r].step \in {"increment", "insert"} => txn[r].step = "idle"
    /\ reg[r].step = "session" =>
          txn[r].op = "login" /\ txn[r].user = reg[r].user /\ txn[r].step \in {"insert", "commit"}

RegRowsOK(r) ==
    /\ reg[r].step # "none" =>
          /\ reg[r].user \in Users /\ reg[r].name \in Names /\ reg[r].invite \in Invites
          /\ ~Exists(reg[r].user) /\ invitedBy[reg[r].user] = NoInvite
    /\ reg[r].step = "session" => ~Taken(reg[r].name)

Apart(q, r) ==
    reg[q].step # "none" /\ reg[r].step # "none" =>
        /\ reg[q].user # reg[r].user
        /\ reg[q].step = "session" /\ reg[r].step = "session" => reg[q].name # reg[r].name

RegShape ==
    /\ reg \in [Requests -> Reg]
    /\ username \in [Users -> Names \cup {NoName, Anonymous}]
    /\ uses \in [Invites -> Nat]
    /\ invitedBy \in [Users -> Invites \cup {NoInvite}]

RegInv ==
    /\ RegShape
    /\ \A r \in Requests : RegTxnOK(r) /\ RegRowsOK(r)
    /\ \A q, r \in Requests : q # r => Apart(q, r)
    /\ \A u \in deleted : Exists(u)
    /\ UsernamesAreUnique

LEMMA NotRegisteringOK ==
  NotRegistering \in Reg /\ NotRegistering.step = "none" /\ NotRegistering.user = NoUser
  BY DEF NotRegistering, Reg

LEMMA InitReg == Init => RegInv
<1> SUFFICES ASSUME Init PROVE RegInv
  OBVIOUS
<1>1. RegShape
  BY NotRegisteringOK DEF Init, RegShape
<1>2. \A r \in Requests : RegTxnOK(r) /\ RegRowsOK(r)
  BY NotRegisteringOK DEF Init, RegTxnOK, RegRowsOK
<1>3. \A q, r \in Requests : Apart(q, r)
  BY NotRegisteringOK DEF Init, Apart
<1>4. \A u \in Users : ~Exists(u)
  BY DEF Init, Exists
<1>5. deleted = {}
  BY DEF Init, Sessions!Init
<1> QED BY <1>1, <1>2, <1>3, <1>4, <1>5 DEF RegInv, UsernamesAreUnique

\* Steps of sessions alone.
LEMMA SessionReg ==
  ASSUME RegInv, UNCHANGED <<username, uses, invitedBy, reg>>, deleted \subseteq deleted',
         \A u \in deleted' : Exists(u),
         \A r \in Requests : RegTxnOK(r)'
  PROVE  RegInv'
<1>1. RegShape'
  BY DEF RegInv, RegShape
<1>2. \A r \in Requests : RegRowsOK(r)'
  BY DEF RegInv, RegRowsOK, Exists, Taken
<1>3. \A q, r \in Requests : q # r => Apart(q, r)'
  BY DEF RegInv, Apart
<1>4. \A u \in deleted' : Exists(u)'
  BY DEF Exists
<1>5. UsernamesAreUnique'
  BY DEF RegInv, UsernamesAreUnique, Exists
<1> QED BY <1>1, <1>2, <1>3, <1>4, <1>5 DEF RegInv

\* A step of a transaction that is no registration's.
LEMMA CallReg ==
  ASSUME TxnInv, RegInv, NEW r \in Requests, NEW x, Sessions!Enter(r, x), reg[r].step = "none",
         UNCHANGED <<username, uses, invitedBy, reg, deleted>>
  PROVE  RegInv'
<1>1. \A q \in Requests : q # r => txn'[q] = txn[q]
  BY DEF TxnInv, Sessions!Enter
<1>2. \A q \in Requests : RegTxnOK(q)'
  BY <1>1 DEF RegInv, RegTxnOK
<1> QED BY <1>2, SessionReg DEF RegInv

\* No circle of waiting transactions has a registration in it.
LEMMA VictimReg ==
  ASSUME TxnInv, RegInv, NEW r \in Requests, Sessions!Deadlocked(r)
  PROVE  reg[r].step = "none"
<1> SUFFICES ASSUME reg[r].step # "none" PROVE FALSE
  OBVIOUS
<1>1. PICK S \in SUBSET Requests : r \in S /\ Sessions!WaitsFor(r, S)
  BY DEF Sessions!Deadlocked
<1>2. reg[r].step = "session" /\ txn[r].step = "insert" /\ txn[r].user = reg[r].user
  <2>1. reg[r].step \in {"increment", "insert", "session"}
    BY DEF RegInv, RegShape, Reg
  <2> QED BY <1>1, <2>1 DEF RegInv, RegTxnOK, Sessions!WaitsFor
<1>3. PICK p \in Requests : txn[r].user \in txn[p].held
  BY <1>1, <1>2 DEF Sessions!WaitsFor
<1>4. Exists(reg[r].user)
  BY <1>2, <1>3 DEF TxnInv, TxnOK, RegInv
<1> QED BY <1>4 DEF RegInv, RegRowsOK

LEMMA StatementReg ==
  ASSUME TxnInv, RegInv, NEW r \in Requests, Statement(r)
  PROVE  RegInv'
<1>1. txn[r] \in Sessions!Txn
  BY DEF TxnInv
<1>2. ASSUME \/ Sessions!UpdateStart(r) \/ Sessions!UpdateEnd(r)
             \/ \E t \in Tokens : Sessions!UpdateRow(r, t)
      PROVE  RegInv'
  <2>1. reg[r].step = "none"
    <3>1. txn[r].step \in {"update", "visiting"}
      BY <1>2 DEF Sessions!UpdateStart, Sessions!UpdateEnd, Sessions!UpdateRow
    <3> QED BY <3>1 DEF RegInv, RegTxnOK, RegShape, Reg
  <2>2. \E x : Sessions!Enter(r, x)
    BY <1>2, Zenon
    DEF Sessions!UpdateStart, Sessions!UpdateEnd, Sessions!AfterUpdate, Sessions!UpdateRow, Sessions!Rollback
  <2>3. UNCHANGED <<username, uses, invitedBy, reg, deleted>>
    BY <1>2 DEF Statement, Sessions!UpdateStart, Sessions!UpdateEnd, Sessions!UpdateRow, Sessions!db, rows
  <2> QED BY <2>1, <2>2, <2>3, CallReg
<1>3. ASSUME NEW t \in Tokens, Sessions!Insert(r, t) PROVE RegInv'
  <2>1. /\ txn'[r].op = txn[r].op /\ txn'[r].user = txn[r].user /\ txn'[r].step = "commit"
        /\ txn[r].step = "insert"
        /\ \A q \in Requests : q # r => txn'[q] = txn[q]
        /\ UNCHANGED <<username, uses, invitedBy, reg, deleted>>
    BY <1>1, <1>3 DEF TxnInv, Sessions!Txn, Sessions!Insert, Sessions!Enter, Sessions!db, Statement, rows
  <2>2. \A q \in Requests : RegTxnOK(q)'
    BY <2>1 DEF RegInv, RegTxnOK
  <2> QED BY <2>1, <2>2, SessionReg DEF RegInv
<1> QED BY <1>2, <1>3 DEF Statement

LEMMA RegisterReg ==
  ASSUME TxnInv, RegInv, NEW r \in Requests, NEW u \in Users, NEW n \in Names, NEW i \in Invites,
         Register(r, u, n, i), invitedBy[u] = NoInvite
  PROVE  RegInv'
<1> DEFINE x == [step |-> "increment", user |-> u, name |-> n, invite |-> i]
<1>1. /\ reg' = [reg EXCEPT ![r] = x] /\ UNCHANGED <<username, uses, invitedBy, txn, deleted>>
      /\ txn[r].step = "idle"
      /\ ~Exists(u) /\ \A q \in Requests : reg[q].user # u
  BY DEF Register, Free, sessions
<1>2. reg'[r] = x /\ (\A q \in Requests : q # r => reg'[q] = reg[q]) /\ x \in Reg
  BY <1>1 DEF RegInv, RegShape, Reg
<1>3. RegShape'
  BY <1>1, <1>2 DEF RegInv, RegShape
<1>4. RegTxnOK(r)' /\ RegRowsOK(r)'
  BY <1>1, <1>2 DEF RegTxnOK, RegRowsOK, Exists
<1>5. \A q \in Requests : q # r => RegTxnOK(q)' /\ RegRowsOK(q)'
  BY <1>1, <1>2 DEF RegInv, RegTxnOK, RegRowsOK, Exists, Taken
<1>6. \A q, p \in Requests : q # p => Apart(q, p)'
  BY <1>1, <1>2 DEF RegInv, Apart
<1>7. (\A v \in deleted : Exists(v))' /\ UsernamesAreUnique'
  BY <1>1 DEF RegInv, UsernamesAreUnique, Exists
<1> QED BY <1>3, <1>4, <1>5, <1>6, <1>7 DEF RegInv

LEMMA IncrementUseCountReg ==
  ASSUME TxnInv, RegInv, NEW r \in Requests, IncrementUseCount(r)
  PROVE  RegInv'
<1>1. /\ reg[r].step = "increment" /\ reg' = [reg EXCEPT ![r].step = "insert"]
      /\ UNCHANGED <<rows, txn, deleted>>
  BY DEF IncrementUseCount, sessions
<1>2. /\ reg'[r].step = "insert" /\ reg'[r].user = reg[r].user /\ reg'[r].name = reg[r].name
      /\ reg'[r].invite = reg[r].invite
      /\ \A q \in Requests : q # r => reg'[q] = reg[q]
      /\ reg' \in [Requests -> Reg]
  BY <1>1 DEF RegInv, RegShape, Reg
<1>3. RegShape'
  BY <1>1, <1>2 DEF RegInv, RegShape, rows
<1>4. \A q \in Requests : RegTxnOK(q)' /\ RegRowsOK(q)'
  BY <1>1, <1>2 DEF RegInv, RegTxnOK, RegRowsOK, Exists, Taken, rows
<1>5. \A q, p \in Requests : q # p => Apart(q, p)'
  BY <1>1, <1>2 DEF RegInv, Apart
<1>6. (\A v \in deleted : Exists(v))' /\ UsernamesAreUnique'
  BY <1>1 DEF RegInv, UsernamesAreUnique, Exists, rows
<1> QED BY <1>3, <1>4, <1>5, <1>6 DEF RegInv

LEMMA CreateUserReg ==
  ASSUME TxnInv, RegInv, NEW r \in Requests, CreateUser(r)
  PROVE  RegInv'
<1>1. /\ reg[r].step = "insert" /\ reg' = [reg EXCEPT ![r].step = "session"]
      /\ UNCHANGED <<rows, deleted>>
      /\ ~Taken(reg[r].name) /\ \A q \in Requests : ~HoldsName(q, reg[r].name)
  BY DEF CreateUser, Unique
<1>2. /\ reg'[r].step = "session" /\ reg'[r].user = reg[r].user /\ reg'[r].name = reg[r].name
      /\ reg'[r].invite = reg[r].invite
      /\ \A q \in Requests : q # r => reg'[q] = reg[q]
      /\ reg' \in [Requests -> Reg]
  BY <1>1 DEF RegInv, RegShape, Reg
<1>3. /\ txn'[r].op = "login" /\ txn'[r].user = reg[r].user /\ txn'[r].step = "insert"
      /\ \A q \in Requests : q # r => txn'[q] = txn[q]
  <2>1. txn' = [txn EXCEPT ![r] = [Sessions!Idle EXCEPT !.step = "insert", !.op = "login",
                                                        !.user = reg[r].user]]
    BY DEF CreateUser, Sessions!Enter
  <2> QED BY <2>1 DEF TxnInv, Sessions!Idle
<1>4. RegShape'
  BY <1>1, <1>2 DEF RegInv, RegShape, rows
<1>5. \A q \in Requests : RegTxnOK(q)' /\ RegRowsOK(q)'
  BY <1>1, <1>2, <1>3 DEF RegInv, RegTxnOK, RegRowsOK, Exists, Taken, rows
<1>6. \A q, p \in Requests : q # p => Apart(q, p)'
  BY <1>1, <1>2 DEF RegInv, Apart, HoldsName
<1>7. (\A v \in deleted : Exists(v))' /\ UsernamesAreUnique'
  BY <1>1 DEF RegInv, UsernamesAreUnique, Exists, rows
<1> QED BY <1>4, <1>5, <1>6, <1>7 DEF RegInv

\* The registration ends without a user.
LEMMA GiveUpReg ==
  ASSUME TxnInv, RegInv, NEW r \in Requests, reg' = [reg EXCEPT ![r] = NotRegistering],
         UNCHANGED <<rows, deleted>>, \A q \in Requests : q # r => txn'[q] = txn[q]
  PROVE  RegInv'
<1>1. /\ reg'[r].step = "none" /\ (\A q \in Requests : q # r => reg'[q] = reg[q])
      /\ reg' \in [Requests -> Reg]
  BY NotRegisteringOK DEF RegInv, RegShape
<1>2. RegShape'
  BY <1>1 DEF RegInv, RegShape, rows
<1>3. \A q \in Requests : RegTxnOK(q)' /\ RegRowsOK(q)'
  BY <1>1 DEF RegInv, RegTxnOK, RegRowsOK, Exists, Taken, rows
<1>4. \A q, p \in Requests : q # p => Apart(q, p)'
  BY <1>1 DEF RegInv, Apart
<1>5. (\A v \in deleted : Exists(v))' /\ UsernamesAreUnique'
  BY DEF RegInv, UsernamesAreUnique, Exists, rows
<1> QED BY <1>2, <1>3, <1>4, <1>5 DEF RegInv

LEMMA CommitRegistrationReg ==
  ASSUME TxnInv, RegInv, NEW r \in Requests, CommitRegistration(r)
  PROVE  RegInv'
<1> DEFINE u == reg[r].user
           n == reg[r].name
           i == reg[r].invite
<1>1. /\ u \in Users /\ n \in Names /\ i \in Invites /\ ~Exists(u) /\ ~Taken(n)
      /\ invitedBy[u] = NoInvite /\ u \notin deleted
  BY DEF RegInv, RegRowsOK, CommitRegistration
<1>2. /\ username' = [username EXCEPT ![u] = n] /\ uses' = [uses EXCEPT ![i] = uses[i] + 1]
      /\ invitedBy' = [invitedBy EXCEPT ![u] = i] /\ deleted' = deleted
      /\ reg' = [reg EXCEPT ![r] = NotRegistering] /\ reg[r].step = "session"
      /\ \A q \in Requests : q # r => txn'[q] = txn[q]
  BY DEF CommitRegistration, Sessions!Commit, Sessions!Rollback, Sessions!Enter, TxnInv
<1>3. /\ \A q \in Requests \ {r} : reg[q].step # "none" => reg[q].user # u
      /\ \A q \in Requests \ {r} : reg[q].step = "session" => reg[q].name # n
  BY <1>2 DEF RegInv, Apart
<1> HIDE DEF u, n, i
<1>4. /\ username'[u] = n /\ \A v \in Users : v # u => username'[v] = username[v]
      /\ \A v \in Users : v # u => invitedBy'[v] = invitedBy[v]
      /\ n # NoName
  BY <1>1, <1>2, ConstantsAssumption DEF RegInv, RegShape
<1>5. RegShape'
  BY <1>1, <1>2, NotRegisteringOK DEF RegInv, RegShape
<1>6. /\ reg'[r].step = "none" /\ (\A q \in Requests : q # r => reg'[q] = reg[q])
  BY <1>2, NotRegisteringOK DEF RegInv, RegShape
<1>7. ASSUME NEW q \in Requests PROVE RegTxnOK(q)' /\ RegRowsOK(q)'
  <2>1. CASE q = r
    BY <2>1, <1>6 DEF RegTxnOK, RegRowsOK
  <2>2. CASE q # r
    <3>1. RegTxnOK(q)'
      BY <2>2, <1>2, <1>6 DEF RegInv, RegTxnOK
    <3>2. ASSUME reg[q].step = "session" PROVE ~Taken(reg[q].name)'
      BY <2>2, <3>2, <1>2, <1>3, <1>4, <1>6 DEF RegInv, RegRowsOK, Taken
    <3> QED BY <2>2, <3>1, <3>2, <1>2, <1>3, <1>4, <1>6 DEF RegInv, RegRowsOK, Exists, Taken
  <2> QED BY <2>1, <2>2
<1>8. \A q, p \in Requests : q # p => Apart(q, p)'
  BY <1>6 DEF RegInv, Apart
<1>9. \A v \in deleted' : Exists(v)'
  BY <1>1, <1>2, <1>4 DEF RegInv, Exists, TxnInv
<1>10. UsernamesAreUnique'
  <2> SUFFICES ASSUME NEW v \in Users \ deleted, NEW w \in Users \ deleted,
                      username'[v] # NoName, username'[v] = username'[w]
               PROVE  v = w
    BY <1>2 DEF UsernamesAreUnique, Exists
  <2>1. CASE v # u /\ w # u
    BY <2>1, <1>4 DEF RegInv, UsernamesAreUnique, Exists
  <2>2. CASE v = u \/ w = u
    BY <2>2, <1>1, <1>4 DEF Taken
  <2> QED BY <2>1, <2>2
<1> QED BY <1>5, <1>7, <1>8, <1>9, <1>10 DEF RegInv

\* What the deletion job has claimed is deleted, so its softDelete changes no row.
LEMMA ErasureKeepsNames ==
  ASSUME RegShape, NEW B, B \subseteq deleted
  PROVE  SoftDelete(B) = username
<1>1. B \ deleted = {}
  OBVIOUS
<1> QED BY <1>1 DEF SoftDelete, RegShape

LEMMA CommitErasureReg ==
  ASSUME TxnInv, RegInv, NEW r \in Requests, CommitErasure(r)
  PROVE  RegInv'
<1>1. txn[r].held \subseteq deleted /\ reg[r].step = "none"
  <2>1. TxnOK(txn[r]) /\ RegTxnOK(r) /\ txn[r].op = "erase" /\ txn[r].step = "commit"
    BY DEF TxnInv, RegInv, CommitErasure, Sessions!Commit
  <2> QED BY <2>1 DEF TxnOK, RegTxnOK, RegInv, RegShape, Reg
<1>2. username' = username
  BY <1>1, ErasureKeepsNames DEF CommitErasure, RegInv
<1>3. Sessions!Enter(r, Sessions!Idle) /\ UNCHANGED <<uses, invitedBy, reg, deleted>>
  BY DEF CommitErasure, Sessions!Commit, Sessions!Rollback
<1> QED BY <1>1, <1>2, <1>3, CallReg

\* Calls about accounts, and what happens to accounts and tokens.
LEMMA CallsReg ==
  ASSUME TxnInv, RegInv, NEW r \in Requests,
         \/ \E u \in Users : Login(r, u) \/ Logout(r, u)
         \/ \E B \in SUBSET Users : Claim(r, B)
         \/ \E t \in Tokens : Refresh(r, t)
         \/ CommitCall(r)
  PROVE  RegInv'
<1>1. reg[r].step = "none"
  BY DEF Login, Logout, Claim, Refresh, CommitCall, Free
<1>2. \E x : Sessions!Enter(r, x)
  BY Zenon DEF Login, Logout, Claim, Refresh, CommitCall, Sessions!Login, Sessions!Logout, Sessions!Erase,
               Sessions!Refresh, Sessions!RefreshReused, Sessions!Commit, Sessions!Rollback
<1>3. UNCHANGED <<username, uses, invitedBy, reg, deleted>>
  BY DEF Login, Logout, Claim, Refresh, CommitCall, Sessions!Login, Sessions!Logout, Sessions!Erase,
         Sessions!Refresh, Sessions!RefreshReused, Sessions!Commit, Sessions!db, rows
<1> QED BY <1>1, <1>2, <1>3, CallReg

LEMMA DeadlockVictimReg ==
  ASSUME TxnInv, RegInv, NEW r \in Requests, DeadlockVictim(r)
  PROVE  RegInv'
<1>1. /\ reg[r].step = "none" /\ Sessions!Enter(r, Sessions!Idle)
      /\ UNCHANGED <<username, uses, invitedBy, reg, deleted>>
  BY VictimReg DEF DeadlockVictim, Sessions!DeadlockVictim, Sessions!Rollback, Sessions!db, rows
<1> QED BY <1>1, CallReg

LEMMA OutsideReg ==
  ASSUME TxnInv, RegInv,
         \/ \E u \in Users : DeleteAccount(u)
         \/ \E t \in Tokens : Expire(t)
         \/ UNCHANGED vars
  PROVE  RegInv'
<1>1. /\ UNCHANGED <<username, uses, invitedBy, reg, txn>> /\ deleted \subseteq deleted'
      /\ \A u \in deleted' : Exists(u)
  BY DEF RegInv, DeleteAccount, Expire, Sessions!DeleteAccount, Sessions!Expire, rows, vars, sessions
<1>2. \A r \in Requests : RegTxnOK(r)'
  BY <1>1 DEF RegInv, RegTxnOK
<1> QED BY <1>1, <1>2, SessionReg

-----------------------------------------------------------------------------
\* Invites: who has passed the check of use_count and may yet count.
Joined(i) == {u \in Users : invitedBy[u] = i}

InviteOK(i) ==
    /\ uses[i] = Cardinality(Joined(i))
    /\ uses[i] + Cardinality(Joining(i)) <= MaxUses - 1 + crowd[i]

InviteInv ==
    /\ \A u \in Users : ~Exists(u) => invitedBy[u] = NoInvite
    /\ crowd \in [Invites -> Nat]
    /\ \A i \in Invites : InviteOK(i)

LEMMA Finite ==
  /\ MaxUses \in Nat \ {0}
  /\ \A i : /\ IsFiniteSet(Joined(i)) /\ Cardinality(Joined(i)) \in Nat
            /\ IsFiniteSet(Joining(i)) /\ Cardinality(Joining(i)) \in Nat
<1>1. ASSUME NEW i
      PROVE  /\ IsFiniteSet(Joined(i)) /\ Cardinality(Joined(i)) \in Nat
             /\ IsFiniteSet(Joining(i)) /\ Cardinality(Joining(i)) \in Nat
  <2>1. Joined(i) \subseteq Users /\ Joining(i) \subseteq Requests
    BY DEF Joined, Joining
  <2> QED BY <2>1, ConstantsAssumption, FS_Subset, FS_CardinalityType
<1> QED BY <1>1, ConstantsAssumption

LEMMA InitInvite == Init => InviteInv
<1> SUFFICES ASSUME Init PROVE InviteInv
  OBVIOUS
<1>1. \A u \in Users : ~Exists(u) => invitedBy[u] = NoInvite
  BY DEF Init
<1>2. ASSUME NEW i \in Invites PROVE InviteOK(i)
  <2>1. Joined(i) = {} /\ Joining(i) = {}
    BY NotRegisteringOK, ConstantsAssumption DEF Init, Joined, Joining
  <2>2. uses[i] = 0 /\ crowd[i] = 0 /\ Cardinality(Joined(i)) = 0 /\ Cardinality(Joining(i)) = 0
    BY <2>1, FS_EmptySet DEF Init
  <2> QED BY <2>2, Finite DEF InviteOK
<1> QED BY <1>1, <1>2 DEF Init, InviteInv

\* Steps that use no invite and begin no registration.
LEMMA QuietInvite ==
  ASSUME RegInv, InviteInv, UNCHANGED rows,
         \A r \in Requests : reg'[r].step # "none" =>
             reg[r].step # "none" /\ reg'[r].invite = reg[r].invite
  PROVE  InviteInv'
<1>1. \A u \in Users : ~Exists(u)' => invitedBy'[u] = NoInvite
  BY DEF InviteInv, Exists, rows
<1>2. ASSUME NEW i \in Invites PROVE InviteOK(i)'
  <2>1. Joined(i)' = Joined(i) /\ Joining(i)' \subseteq Joining(i)
    BY DEF Joined, Joining, rows
  <2>2. Cardinality(Joining(i)') <= Cardinality(Joining(i)) /\ Cardinality(Joining(i)') \in Nat
    BY <2>1, Finite, FS_Subset, FS_CardinalityType
  <2>3. InviteOK(i) /\ uses[i] \in Nat /\ uses'[i] = uses[i] /\ crowd[i] \in Nat /\ crowd'[i] = crowd[i]
    BY DEF InviteInv, RegInv, RegShape, rows
  <2> QED BY <2>1, <2>2, <2>3, Finite DEF InviteOK
<1> QED BY <1>1, <1>2 DEF InviteInv, rows

LEMMA RegisterInvite ==
  ASSUME RegInv, InviteInv, NEW r \in Requests, NEW u \in Users, NEW n \in Names, NEW i \in Invites,
         Register(r, u, n, i)
  PROVE  InviteInv'
<1> DEFINE x == [step |-> "increment", user |-> u, name |-> n, invite |-> i]
<1>1. /\ reg' = [reg EXCEPT ![r] = x] /\ UNCHANGED <<username, uses, invitedBy>>
      /\ crowd' = [crowd EXCEPT ![i] = Grown(i)] /\ uses[i] < MaxUses /\ reg[r].step = "none"
  BY DEF Register, Free, InviteIsValid
<1>2. reg'[r] = x /\ \A q \in Requests : q # r => reg'[q] = reg[q]
  BY <1>1 DEF RegInv, RegShape
<1>3. \A v \in Users : ~Exists(v)' => invitedBy'[v] = NoInvite
  BY <1>1 DEF InviteInv, Exists
<1>5. Grown(i) \in Nat /\ Cardinality(Joining(i)) + 1 <= Grown(i)
  BY Finite DEF InviteInv, Grown
<1>6. /\ crowd' \in [Invites -> Nat] /\ crowd'[i] = Grown(i)
      /\ \A j \in Invites : j # i => crowd'[j] = crowd[j]
  BY <1>1, <1>5 DEF InviteInv
<1>4. ASSUME NEW j \in Invites PROVE InviteOK(j)'
  <2>1. /\ Joined(j)' = Joined(j) /\ uses'[j] = uses[j] /\ uses[j] \in Nat
        /\ crowd[j] \in Nat /\ InviteOK(j)
    BY <1>1 DEF Joined, InviteInv, RegInv, RegShape
  <2>2. CASE j = i
    <3>1. Joining(i)' = Joining(i) \cup {r} /\ r \notin Joining(i)
      BY <1>1, <1>2 DEF Joining
    <3>2. Cardinality(Joining(i)') = Cardinality(Joining(i)) + 1
      BY <3>1, Finite, FS_AddElement
    <3> QED BY <2>1, <2>2, <3>2, <1>1, <1>5, <1>6, Finite DEF InviteOK
  <2>3. CASE j # i
    <3>1. Joining(j)' \subseteq Joining(j)
      BY <1>2, <2>3 DEF Joining
    <3>2. Cardinality(Joining(j)') <= Cardinality(Joining(j)) /\ Cardinality(Joining(j)') \in Nat
      BY <3>1, Finite, FS_Subset, FS_CardinalityType
    <3> QED BY <2>1, <2>3, <3>2, <1>6, Finite DEF InviteOK
  <2> QED BY <2>2, <2>3
<1> QED BY <1>3, <1>4, <1>6 DEF InviteInv

LEMMA CommitRegistrationInvite ==
  ASSUME RegInv, InviteInv, NEW r \in Requests, CommitRegistration(r)
  PROVE  InviteInv'
<1>0. PICK u \in Users, n \in Names, i \in Invites :
             u = reg[r].user /\ n = reg[r].name /\ i = reg[r].invite
  BY DEF RegInv, RegRowsOK, CommitRegistration
<1>1. u \in Users /\ n \in Names /\ i \in Invites /\ invitedBy[u] = NoInvite /\ i # NoInvite
  BY <1>0, ConstantsAssumption DEF RegInv, RegRowsOK, CommitRegistration
<1>2. /\ username' = [username EXCEPT ![u] = n] /\ uses' = [uses EXCEPT ![i] = uses[i] + 1]
      /\ invitedBy' = [invitedBy EXCEPT ![u] = i]
      /\ reg' = [reg EXCEPT ![r] = NotRegistering] /\ reg[r].step = "session" /\ crowd' = crowd
  BY <1>0 DEF CommitRegistration
<1>3. r \in Joining(i)
  BY <1>0, <1>2 DEF Joining
<1>4. /\ username'[u] = n /\ (\A v \in Users : v # u => username'[v] = username[v])
      /\ invitedBy'[u] = i /\ (\A v \in Users : v # u => invitedBy'[v] = invitedBy[v])
      /\ uses'[i] = uses[i] + 1 /\ (\A j \in Invites : j # i => uses'[j] = uses[j])
      /\ reg'[r].step = "none" /\ (\A q \in Requests : q # r => reg'[q] = reg[q])
      /\ n # NoName
  BY <1>1, <1>2, NotRegisteringOK, ConstantsAssumption DEF RegInv, RegShape
<1>5. \A v \in Users : ~Exists(v)' => invitedBy'[v] = NoInvite
  BY <1>4 DEF InviteInv, Exists
<1>6. ASSUME NEW j \in Invites PROVE InviteOK(j)'
  <2>1. InviteOK(j) /\ uses[j] \in Nat /\ crowd[j] \in Nat /\ crowd'[j] = crowd[j]
    BY <1>2 DEF InviteInv, RegInv, RegShape
  <2>2. CASE j = i
    <3>1. Joined(i)' = Joined(i) \cup {u} /\ u \notin Joined(i)
      BY <1>1, <1>4 DEF Joined
    <3>2. Joining(i)' = Joining(i) \ {r}
      BY <1>4 DEF Joining
    <3>3. Cardinality(Joined(i)') = Cardinality(Joined(i)) + 1
      BY <3>1, Finite, FS_AddElement
    <3>4. Cardinality(Joining(i)') = Cardinality(Joining(i)) - 1
      <4>1. IsFiniteSet(Joining(i))
        BY Finite
      <4>2. Cardinality(Joining(i) \ {r}) = Cardinality(Joining(i)) - 1
        BY <4>1, <1>3, FS_RemoveElement
      <4> QED BY <4>2, <3>2
    <3>5. Cardinality(Joined(i)) \in Nat /\ Cardinality(Joining(i)) \in Nat
      BY Finite
    <3>6. /\ uses[i] = Cardinality(Joined(i))
          /\ uses[i] + Cardinality(Joining(i)) <= MaxUses - 1 + crowd[i]
      BY <2>1, <2>2 DEF InviteOK
    <3>7. uses'[i] = Cardinality(Joined(i)')
      BY <3>3, <3>6, <1>4
    <3>8. uses'[i] + Cardinality(Joining(i)') <= MaxUses - 1 + crowd'[i]
      <4>1. crowd'[i] = crowd[i] /\ uses'[i] = uses[i] + 1
        BY <2>1, <2>2, <1>4
      <4>2. uses[i] \in Nat /\ crowd[i] \in Nat /\ MaxUses \in Nat
        BY <2>1, <2>2, Finite
      <4> QED BY <4>1, <4>2, <3>4, <3>5, <3>6
    <3> QED BY <3>7, <3>8, <2>2 DEF InviteOK
  <2>3. CASE j # i
    <3>1. Joined(j)' = Joined(j)
      <4>1. invitedBy[u] # j /\ invitedBy'[u] # j
        BY <1>1, <1>4, <2>3, ConstantsAssumption
      <4> QED BY <1>4, <4>1 DEF Joined
    <3>2. Joining(j)' \subseteq Joining(j)
      BY <1>4 DEF Joining
    <3>3. Cardinality(Joining(j)') <= Cardinality(Joining(j)) /\ Cardinality(Joining(j)') \in Nat
      BY <3>2, Finite, FS_Subset, FS_CardinalityType
    <3> QED BY <2>1, <2>3, <3>1, <3>3, <1>4, Finite DEF InviteOK
  <2> QED BY <2>2, <2>3
<1> QED BY <1>2, <1>5, <1>6 DEF InviteInv

LEMMA InviteInvBounds == RegInv /\ InviteInv => InviteUseIsBounded
<1> SUFFICES ASSUME RegInv, InviteInv, NEW i \in Invites
             PROVE  uses[i] = Cardinality(Joined(i)) /\ Cardinality(Joined(i)) <= MaxUses - 1 + crowd[i]
  BY DEF InviteUseIsBounded, Joined
<1>1. InviteOK(i) /\ uses[i] \in Nat /\ crowd[i] \in Nat
  BY DEF InviteInv, RegInv, RegShape
<1> QED BY <1>1, Finite DEF InviteOK

-----------------------------------------------------------------------------
\* Tokens: there is an unused row for every call that is yet to insert one.
Will == {r \in Requests : WillInsert(r)}

RowsLeft == Cardinality(Will) <= Cardinality(Sessions!Unused)

LEMMA FiniteRows ==
  /\ IsFiniteSet(Will) /\ Cardinality(Will) \in Nat
  /\ IsFiniteSet(Sessions!Unused) /\ Cardinality(Sessions!Unused) \in Nat
<1>1. Will \subseteq Requests /\ Sessions!Unused \subseteq Tokens
  BY DEF Will, Sessions!Unused
<1> QED BY <1>1, ConstantsAssumption, FS_Subset, FS_CardinalityType

LEMMA FiniteRowsNext ==
  /\ IsFiniteSet(Will') /\ Cardinality(Will') \in Nat
  /\ IsFiniteSet(Sessions!Unused') /\ Cardinality(Sessions!Unused') \in Nat
<1>1. Will' \subseteq Requests /\ Sessions!Unused' \subseteq Tokens
  BY DEF Will, Sessions!Unused
<1> QED BY <1>1, ConstantsAssumption, FS_Subset, FS_CardinalityType

LEMMA InitRows == Init => RowsLeft
<1> SUFFICES ASSUME Init PROVE RowsLeft
  OBVIOUS
<1>1. Will = {}
  BY NotRegisteringOK, IdleOK DEF Init, Sessions!Init, Will, WillInsert
<1> QED BY <1>1, FS_EmptySet, FiniteRows DEF RowsLeft

\* Nobody new will insert.
LEMMA QuietRows ==
  ASSUME RowsLeft, Will' \subseteq Will, Sessions!Unused \subseteq Sessions!Unused'
  PROVE  RowsLeft'
<1>1. Cardinality(Will') <= Cardinality(Will)
      /\ Cardinality(Sessions!Unused) <= Cardinality(Sessions!Unused')
  BY FiniteRows, FiniteRowsNext, FS_Subset
<1> QED BY <1>1, FiniteRows, FiniteRowsNext DEF RowsLeft

\* A call begins for which a row is left.
LEMMA BeginRows ==
  ASSUME RowLeft, NEW r \in Requests, Will' \subseteq Will \cup {r},
         Sessions!Unused \subseteq Sessions!Unused'
  PROVE  RowsLeft'
<1>1. /\ IsFiniteSet(Will \cup {r}) /\ Cardinality(Will \cup {r}) \in Nat
      /\ Cardinality(Will \cup {r}) <= Cardinality(Will) + 1
  <2>1. CASE r \in Will
    <3>1. Will \cup {r} = Will
      BY <2>1
    <3>2. IsFiniteSet(Will \cup {r}) /\ Cardinality(Will \cup {r}) = Cardinality(Will)
      BY <3>1, FiniteRows, Zenon
    <3> QED BY <3>2, FiniteRows
  <2>2. CASE r \notin Will
    <3>1. IsFiniteSet(Will \cup {r}) /\ Cardinality(Will \cup {r}) = Cardinality(Will) + 1
      BY <2>2, FiniteRows, FS_AddElement
    <3> QED BY <3>1, FiniteRows
  <2> QED BY <2>1, <2>2
<1>2. Cardinality(Will') <= Cardinality(Will \cup {r})
      /\ Cardinality(Sessions!Unused) <= Cardinality(Sessions!Unused')
  BY <1>1, FiniteRows, FiniteRowsNext, FS_Subset
<1> QED BY <1>1, <1>2, FiniteRows, FiniteRowsNext DEF RowsLeft, RowLeft, Will

\* A transaction that inserts nothing uses no row.
LEMMA UnusedStays ==
  ASSUME TxnInv, NEW r \in Requests, NEW x, Sessions!Enter(r, x), x.fresh = NoToken,
         \A t \in Sessions!Unused : status'[t] = "absent"
  PROVE  Sessions!Unused \subseteq Sessions!Unused'
<1>1. txn'[r] = x /\ \A q \in Requests : q # r => txn'[q] = txn[q]
  BY DEF TxnInv, Sessions!Enter
<1> QED BY <1>1, ConstantsAssumption DEF Sessions!Unused

\* What a transaction does to Will, when it is not a registration that begins.
LEMMA WillOf ==
  ASSUME TxnInv, NEW r \in Requests, NEW x, Sessions!Enter(r, x), reg' = reg
  PROVE  /\ Will' \subseteq Will \cup {r}
         /\ (x.op \in {"login", "refresh"} /\ x.fresh = NoToken => WillInsert(r)) => Will' \subseteq Will
<1>1. txn'[r] = x /\ \A q \in Requests : q # r => txn'[q] = txn[q]
  BY DEF TxnInv, Sessions!Enter
<1> QED BY <1>1 DEF Will, WillInsert

LEMMA StatementRows ==
  ASSUME TxnInv, RegInv, RowsLeft, NEW r \in Requests, Statement(r)
  PROVE  RowsLeft'
<1>1. txn[r] \in Sessions!Txn /\ TxnOK(txn[r]) /\ UNCHANGED <<Sessions!db, reg>>
  BY DEF TxnInv, Statement, Sessions!UpdateStart, Sessions!UpdateEnd, Sessions!UpdateRow, Sessions!Insert
<1>2. ASSUME NEW x, Sessions!Enter(r, x), x.fresh = NoToken, x.op \in {txn[r].op, "none"},
             txn[r].fresh = NoToken
      PROVE  RowsLeft'
  <2>1. Sessions!Unused \subseteq Sessions!Unused'
    BY <1>1, <1>2, UnusedStays DEF Sessions!db, Sessions!Unused
  <2>2. Will' \subseteq Will
    BY <1>1, <1>2, WillOf DEF WillInsert
  <2> QED BY <2>1, <2>2, QuietRows
<1>3. ASSUME \/ Sessions!UpdateStart(r) \/ Sessions!UpdateEnd(r)
             \/ \E t \in Tokens : Sessions!UpdateRow(r, t)
      PROVE  RowsLeft'
  <2>1. txn[r].fresh = NoToken
    BY <1>1, <1>3 DEF TxnOK, Sessions!UpdateStart, Sessions!UpdateEnd, Sessions!UpdateRow
  <2>2. \E x : Sessions!Enter(r, x) /\ x.fresh = txn[r].fresh /\ x.op \in {txn[r].op, "none"}
    <3>1. CASE \/ Sessions!Enter(r, [txn[r] EXCEPT !.step = "insert"])
               \/ Sessions!Enter(r, [txn[r] EXCEPT !.step = "commit"])
      <4>1. ASSUME NEW s PROVE [txn[r] EXCEPT !.step = s].fresh = txn[r].fresh
                               /\ [txn[r] EXCEPT !.step = s].op = txn[r].op
        BY <1>1 DEF Sessions!Txn
      <4> QED BY <3>1, <4>1
    <3>5. ASSUME NEW u \in txn[r].left,
                 Sessions!Enter(r, [txn[r] EXCEPT !.step = "update", !.user = u,
                                                  !.left = txn[r].left \ {u}])
          PROVE  \E x : Sessions!Enter(r, x) /\ x.fresh = txn[r].fresh /\ x.op \in {txn[r].op, "none"}
      <4>1. ASSUME NEW m
            PROVE  /\ [txn[r] EXCEPT !.step = "update", !.user = u, !.left = m].fresh = txn[r].fresh
                   /\ [txn[r] EXCEPT !.step = "update", !.user = u, !.left = m].op = txn[r].op
        BY <1>1 DEF Sessions!Txn
      <4> QED BY <3>5, <4>1
    <3>2. CASE Sessions!Enter(r, Sessions!Idle)
      BY <3>2, <2>1, IdleOK
    <3>3. ASSUME Sessions!UpdateStart(r)
          PROVE  \E x : Sessions!Enter(r, x) /\ x.fresh = txn[r].fresh /\ x.op \in {txn[r].op, "none"}
      <4>1. ASSUME NEW m PROVE [txn[r] EXCEPT !.step = "visiting", !.matched = m].fresh = txn[r].fresh
                               /\ [txn[r] EXCEPT !.step = "visiting", !.matched = m].op = txn[r].op
        BY <1>1 DEF Sessions!Txn
      <4> QED BY <3>3, <4>1 DEF Sessions!UpdateStart
    <3>4. ASSUME NEW t \in Tokens, Sessions!UpdateRow(r, t)
          PROVE  \E x : Sessions!Enter(r, x) /\ x.fresh = txn[r].fresh /\ x.op \in {txn[r].op, "none"}
      <4>1. ASSUME NEW m PROVE [txn[r] EXCEPT !.locked = m].fresh = txn[r].fresh
                               /\ [txn[r] EXCEPT !.locked = m].op = txn[r].op
        BY <1>1 DEF Sessions!Txn
      <4> QED BY <3>4, <4>1 DEF Sessions!UpdateRow
    <3>6. CASE Sessions!UpdateEnd(r)
      BY <3>6, <3>1, <3>2, <3>5, Zenon DEF Sessions!UpdateEnd, Sessions!AfterUpdate, Sessions!Rollback
    <3> QED BY <1>3, <3>3, <3>4, <3>6, Zenon
  <2> QED BY <2>1, <2>2, <1>2
<1>4. ASSUME NEW t \in Tokens, Sessions!Insert(r, t) PROVE RowsLeft'
  <2>1. /\ txn'[r].op = txn[r].op /\ txn'[r].fresh = t /\ txn[r].step = "insert"
        /\ \A q \in Requests : q # r => txn'[q] = txn[q]
        /\ t \in Sessions!Unused /\ status' = status
    BY <1>1, <1>4 DEF TxnInv, Sessions!Txn, Sessions!Insert, Sessions!Enter, Sessions!db
  <2>2. r \in Will /\ reg[r].step \notin {"increment", "insert"}
    BY <1>1, <2>1 DEF TxnOK, RegInv, RegTxnOK, Will, WillInsert
  <2>3. Will' = Will \ {r}
    BY <1>1, <2>1, <2>2, ConstantsAssumption DEF Will, WillInsert
  <2>4. Sessions!Unused' = Sessions!Unused \ {t}
    BY <1>1, <2>1, <2>2, ConstantsAssumption DEF TxnOK, Sessions!Unused
  <2>5. /\ Cardinality(Will') = Cardinality(Will) - 1
        /\ Cardinality(Sessions!Unused') = Cardinality(Sessions!Unused) - 1
    BY <2>1, <2>2, <2>3, <2>4, FiniteRows, FS_RemoveElement
  <2> QED BY <2>5, FiniteRows DEF RowsLeft
<1> QED BY <1>3, <1>4 DEF Statement

\* It ends, by COMMIT, ROLLBACK or the detector.
LEMMA EndRows ==
  ASSUME TxnInv, RowsLeft, NEW r \in Requests,
         Sessions!Commit(r) \/ (Sessions!Enter(r, Sessions!Idle) /\ UNCHANGED Sessions!db),
         reg' = reg \/ reg' = [reg EXCEPT ![r] = NotRegistering], RegShape
  PROVE  RowsLeft'
<1>1. Sessions!Enter(r, Sessions!Idle) /\ TxnOK(txn[r])
  BY DEF TxnInv, Sessions!Commit, Sessions!Rollback
<1>2. Will' \subseteq Will
  <2>1. txn'[r] = Sessions!Idle /\ \A q \in Requests : q # r => txn'[q] = txn[q]
    BY <1>1 DEF TxnInv, Sessions!Enter
  <2>2. \A q \in Requests : reg'[q].step \in {"increment", "insert"} => reg'[q].step = reg[q].step
    BY NotRegisteringOK DEF RegShape
  <2> QED BY <2>1, <2>2, IdleOK DEF Will, WillInsert
<1>3. \A t \in Sessions!Unused : status'[t] = "absent"
  BY <1>1 DEF TxnOK, Sessions!Unused, Sessions!Commit, Sessions!db
<1>4. Sessions!Unused \subseteq Sessions!Unused'
  BY <1>1, <1>3, IdleOK, UnusedStays
<1> QED BY <1>2, <1>4, QuietRows

\* Calls about an account, and registrations until they are logins.
LEMMA CallsRows ==
  ASSUME TxnInv, RegInv, RowsLeft, NEW r \in Requests,
         \/ \E u \in Users : Login(r, u) \/ Logout(r, u)
         \/ \E B \in SUBSET Users : Claim(r, B)
         \/ \E t \in Tokens : Refresh(r, t)
  PROVE  RowsLeft'
<1>1. ASSUME NEW x, Sessions!Enter(r, x), x.fresh = NoToken, UNCHANGED <<Sessions!db, reg>>,
             RowLeft \/ x.op \notin {"login", "refresh"}
      PROVE  RowsLeft'
  <2>1. Sessions!Unused \subseteq Sessions!Unused'
    BY <1>1, UnusedStays DEF Sessions!db, Sessions!Unused
  <2>2. CASE RowLeft
    BY <1>1, <2>1, <2>2, WillOf, BeginRows
  <2>3. CASE x.op \notin {"login", "refresh"}
    BY <1>1, <2>1, <2>3, WillOf, QuietRows
  <2> QED BY <1>1, <2>2, <2>3
<1>2. ASSUME NEW u \in Users, Login(r, u) PROVE RowsLeft'
  <2> DEFINE x == [Sessions!Idle EXCEPT !.step = "insert", !.op = "login", !.user = u]
  <2>1. x.fresh = NoToken
    BY DEF Sessions!Idle
  <2>2. Sessions!Enter(r, x) /\ UNCHANGED <<Sessions!db, reg>> /\ RowLeft
    BY <1>2 DEF Login, Sessions!Login
  <2> HIDE DEF x
  <2> QED BY <1>1, <2>1, <2>2
<1>3. ASSUME NEW u \in Users, Logout(r, u) PROVE RowsLeft'
  <2> DEFINE x == [Sessions!Idle EXCEPT !.step = "update", !.op = "logout", !.user = u]
  <2>1. x.fresh = NoToken /\ x.op = "logout"
    BY DEF Sessions!Idle
  <2>2. Sessions!Enter(r, x) /\ UNCHANGED <<Sessions!db, reg>>
    BY <1>3 DEF Logout, Sessions!Logout
  <2> HIDE DEF x
  <2> QED BY <1>1, <2>1, <2>2
<1>4. ASSUME NEW B \in SUBSET Users, Claim(r, B) PROVE RowsLeft'
  <2>1. PICK u \in B : Sessions!Enter(r, [Sessions!Idle EXCEPT !.step = "update", !.op = "erase",
                                              !.user = u, !.held = B, !.left = B \ {u}])
    BY <1>4 DEF Claim, Sessions!Erase
  <2> DEFINE x == [Sessions!Idle EXCEPT !.step = "update", !.op = "erase", !.user = u,
                                        !.held = B, !.left = B \ {u}]
  <2>2. x.fresh = NoToken /\ x.op = "erase"
    BY DEF Sessions!Idle
  <2>3. Sessions!Enter(r, x) /\ UNCHANGED <<Sessions!db, reg>>
    BY <1>4, <2>1 DEF Claim, Sessions!Erase
  <2> HIDE DEF x
  <2> QED BY <1>1, <2>2, <2>3
<1>5. ASSUME NEW t \in Tokens, RowLeft, Sessions!Refresh(r, t), reg' = reg PROVE RowsLeft'
  <2> DEFINE x == [Sessions!Idle EXCEPT !.step = "update", !.op = "refresh",
                                        !.user = owner[t], !.stored = t]
  <2>1. x.fresh = NoToken
    BY DEF Sessions!Idle
  <2>2. Sessions!Enter(r, x) /\ UNCHANGED <<Sessions!db, reg>>
    BY <1>5 DEF Sessions!Refresh
  <2> HIDE DEF x
  <2> QED BY <1>1, <1>5, <2>1, <2>2
<1>6. ASSUME NEW t \in Tokens, Sessions!RefreshReused(r, t), reg' = reg PROVE RowsLeft'
  <2> DEFINE x == [Sessions!Idle EXCEPT !.step = "update", !.op = "reuse",
                                        !.user = owner[t], !.stored = t]
  <2>1. x.fresh = NoToken /\ x.op = "reuse"
    BY DEF Sessions!Idle
  <2>2. Sessions!Enter(r, x) /\ UNCHANGED <<Sessions!db, reg>>
    BY <1>6 DEF Sessions!RefreshReused
  <2> HIDE DEF x
  <2> QED BY <1>1, <2>1, <2>2
<1> QED BY <1>2, <1>3, <1>4, <1>5, <1>6 DEF Refresh

LEMMA RegistrationRows ==
  ASSUME TxnInv, RegInv, RowsLeft, NEW r \in Requests,
         \/ \E u \in Users, n \in Names, i \in Invites : Register(r, u, n, i)
         \/ IncrementUseCount(r) \/ CreateUser(r) \/ CreateUserRefused(r)
  PROVE  RowsLeft'
<1>1. ASSUME NEW u \in Users, NEW n \in Names, NEW i \in Invites, Register(r, u, n, i)
      PROVE  RowsLeft'
  <2>1. UNCHANGED <<txn, status>> /\ RowLeft /\ \A q \in Requests : q # r => reg'[q] = reg[q]
    BY <1>1 DEF Register, sessions, RegInv, RegShape
  <2>2. Will' \subseteq Will \cup {r} /\ Sessions!Unused \subseteq Sessions!Unused'
    BY <2>1 DEF Will, WillInsert, Sessions!Unused
  <2> QED BY <2>1, <2>2, BeginRows
<1>2. ASSUME IncrementUseCount(r) \/ CreateUserRefused(r) PROVE RowsLeft'
  <2>1. UNCHANGED <<txn, status>>
    BY <1>2 DEF IncrementUseCount, CreateUserRefused, sessions
  <2>2. \A q \in Requests : reg'[q].step \in {"increment", "insert"} =>
            reg[q].step \in {"increment", "insert"}
    BY <1>2, NotRegisteringOK DEF IncrementUseCount, CreateUserRefused, RegInv, RegShape
  <2>3. Will' \subseteq Will /\ Sessions!Unused \subseteq Sessions!Unused'
    BY <2>1, <2>2 DEF Will, WillInsert, Sessions!Unused
  <2> QED BY <2>3, QuietRows
<1>3. ASSUME CreateUser(r) PROVE RowsLeft'
  <2> DEFINE x == [Sessions!Idle EXCEPT !.step = "insert", !.op = "login", !.user = reg[r].user]
  <2>1. x.fresh = NoToken
    BY DEF Sessions!Idle
  <2>2. Sessions!Enter(r, x) /\ status' = status /\ r \in Will
    BY <1>3 DEF CreateUser, Will, WillInsert
  <2> HIDE DEF x
  <2>3. Sessions!Unused \subseteq Sessions!Unused'
    BY <2>1, <2>2, UnusedStays DEF Sessions!Unused
  <2>4. \A q \in Requests : q # r => reg'[q] = reg[q] /\ txn'[q] = txn[q]
    BY <1>3, <2>2 DEF CreateUser, Sessions!Enter, RegInv, RegShape, TxnInv
  <2>5. Will' \subseteq Will
    BY <2>2, <2>4 DEF Will, WillInsert
  <2> QED BY <2>3, <2>5, QuietRows
<1> QED BY <1>1, <1>2, <1>3

LEMMA OutsideRows ==
  ASSUME RowsLeft, UNCHANGED <<reg, txn>>,
         \A t \in Tokens : status[t] = "absent" => status'[t] = "absent"
  PROVE  RowsLeft'
<1>1. Will' \subseteq Will /\ Sessions!Unused \subseteq Sessions!Unused'
  BY DEF Will, WillInsert, Sessions!Unused
<1> QED BY <1>1, QuietRows

-----------------------------------------------------------------------------
\* Every step is one of RefreshTokens, or changes nothing of it.  RefreshTokens
\* has a FiniteSets of its own.
LEMMA SameCardinality == \A S : Sessions!Cardinality(S) = Cardinality(S)
  BY Zenon DEF Sessions!Cardinality, Cardinality

LEMMA CreateUserLogsIn ==
  ASSUME TxnInv, RegInv, RowsLeft, NEW r \in Requests, CreateUser(r)
  PROVE  \E u \in Users : Sessions!Login(r, u)
<1>1. /\ reg[r].step = "insert" /\ txn[r].step = "idle" /\ txn[r].op = "none"
      /\ reg[r].user \in Users \ deleted
  BY IdleOK DEF CreateUser, RegInv, RegTxnOK, RegRowsOK, TxnInv, TxnOK
<1>2. Sessions!RowLeft
  <2> DEFINE S == {q \in Requests : txn[q].op \in {"login", "refresh"} /\ txn[q].fresh = NoToken}
  <2>1. S \subseteq Will \ {r} /\ r \in Will
    BY <1>1 DEF Will, WillInsert
  <2>2. Cardinality(S) <= Cardinality(Will \ {r}) /\ Cardinality(S) \in Nat
    BY <2>1, FiniteRows, FS_RemoveElement, FS_Subset, FS_CardinalityType
  <2>3. Cardinality(Will \ {r}) = Cardinality(Will) - 1
    BY <2>1, FiniteRows, FS_RemoveElement
  <2> HIDE DEF S
  <2>4. Cardinality(S) < Cardinality(Sessions!Unused)
    BY <2>2, <2>3, FiniteRows DEF RowsLeft
  <2>5. Sessions!Cardinality(S) < Sessions!Cardinality(Sessions!Unused)
    BY <2>4, SameCardinality
  <2> QED BY <2>5, Zenon DEF S, Sessions!RowLeft
<1> QED BY <1>1, <1>2 DEF Sessions!Login, Sessions!db, CreateUser

LEMMA StepOfSessions ==
  ASSUME TxnInv, RegInv, RowsLeft, [Next]_vars
  PROVE  [Sessions!Next]_sessions
<1>1. ASSUME NEW r \in Requests, NEW u \in Users, NEW n \in Names, NEW i \in Invites,
             Register(r, u, n, i)
      PROVE  UNCHANGED sessions
  BY <1>1 DEF Register
<1>2. ASSUME NEW r \in Requests, NEW u \in Users, Login(r, u) \/ Logout(r, u)
      PROVE  Sessions!Next
  <2>1. Sessions!Login(r, u) \/ Sessions!Logout(r, u)
    BY <1>2, Zenon DEF Login, Logout
  <2> QED BY <2>1, Zenon DEF Sessions!Next
<1>10. ASSUME NEW r \in Requests, NEW B \in SUBSET Users, Claim(r, B) PROVE Sessions!Next
  <2>1. Sessions!Erase(r, B)
    BY <1>10, Zenon DEF Claim
  <2> QED BY <2>1, Zenon DEF Sessions!Next
<1>3. ASSUME NEW r \in Requests, NEW t \in Tokens, Refresh(r, t) PROVE Sessions!Next
  <2>1. Sessions!Refresh(r, t) \/ Sessions!RefreshReused(r, t)
    BY <1>3, Zenon DEF Refresh
  <2> QED BY <2>1, Zenon DEF Sessions!Next
<1>4. ASSUME NEW r \in Requests, Progress(r) PROVE [Sessions!Next]_sessions
  <2>1. CASE IncrementUseCount(r) \/ CreateUserRefused(r)
    BY <2>1 DEF IncrementUseCount, CreateUserRefused
  <2>2. CASE CreateUser(r)
    BY <2>2, CreateUserLogsIn, Zenon DEF Sessions!Next
  <2>3. CASE Statement(r)
    <3>1. Sessions!Progress(r)
      BY <2>3, Zenon DEF Statement, Sessions!Progress
    <3> QED BY <3>1, Zenon DEF Sessions!Next
  <2>4. CASE CommitRegistration(r) \/ CommitErasure(r) \/ CommitCall(r)
    <3>1. Sessions!Commit(r)
      BY <2>4, Zenon DEF CommitRegistration, CommitErasure, CommitCall
    <3> QED BY <3>1, Zenon DEF Sessions!Next, Sessions!Progress
  <2> QED BY <1>4, <2>1, <2>2, <2>3, <2>4, Zenon DEF Progress
<1>5. ASSUME NEW r \in Requests, Abort(r) PROVE [Sessions!Next]_sessions
  <2>1. Sessions!Rollback(r) /\ UNCHANGED Sessions!db
    BY <1>5 DEF Abort, Sessions!Rollback, Sessions!Enter, Sessions!db
  <2>2. CASE txn[r].step # "idle"
    BY <2>1, <2>2, Zenon DEF Sessions!Abort, Sessions!Next
  <2>3. CASE txn[r].step = "idle"
    <3>1. txn[r] = Sessions!Idle
      BY <2>3 DEF TxnInv, TxnOK
    <3>2. txn' = txn
      BY <1>5, <3>1 DEF Abort, TxnInv
    <3> QED BY <1>5, <3>2 DEF Abort, sessions
  <2> QED BY <2>2, <2>3
<1>6. ASSUME NEW r \in Requests, DeadlockVictim(r) PROVE Sessions!Next
  BY <1>6, Zenon DEF DeadlockVictim, Sessions!Next
<1>7. ASSUME NEW u \in Users, DeleteAccount(u) PROVE Sessions!Next
  BY <1>7, Zenon DEF DeleteAccount, Sessions!Next
<1>8. ASSUME NEW t \in Tokens, Expire(t) PROVE Sessions!Next
  BY <1>8, Zenon DEF Expire, Sessions!Next
<1>9. ASSUME UNCHANGED vars PROVE UNCHANGED sessions
  BY <1>9 DEF vars
<1> QED BY <1>1, <1>2, <1>3, <1>4, <1>5, <1>6, <1>7, <1>8, <1>9, <1>10, Zenon DEF Next

-----------------------------------------------------------------------------
IInv == TxnInv /\ RegInv /\ InviteInv /\ RowsLeft

LEMMA NextReg ==
  ASSUME IInv, [Next]_vars
  PROVE  RegInv'
<1> USE DEF IInv
<1>1. ASSUME NEW r \in Requests, NEW u \in Users, NEW n \in Names, NEW i \in Invites,
             Register(r, u, n, i)
      PROVE  RegInv'
  <2>1. invitedBy[u] = NoInvite
    BY <1>1 DEF Register, InviteInv
  <2> QED BY <1>1, <2>1, RegisterReg
<1>2. ASSUME NEW r \in Requests, NEW u \in Users, Login(r, u) \/ Logout(r, u)
      PROVE  RegInv'
  BY <1>2, CallsReg, Zenon
<1>8. ASSUME NEW r \in Requests, NEW B \in SUBSET Users, Claim(r, B) PROVE RegInv'
  BY <1>8, CallsReg, Zenon
<1>3. ASSUME NEW r \in Requests, NEW t \in Tokens, Refresh(r, t) PROVE RegInv'
  BY <1>3, CallsReg, Zenon
<1>4. ASSUME NEW r \in Requests, Progress(r) PROVE RegInv'
  <2>1. CASE IncrementUseCount(r)
    BY <2>1, IncrementUseCountReg, Zenon
  <2>2. CASE CreateUser(r)
    BY <2>2, CreateUserReg, Zenon
  <2>3. CASE CreateUserRefused(r)
    BY <2>3, GiveUpReg DEF CreateUserRefused, sessions
  <2>4. CASE Statement(r)
    BY <2>4, StatementReg, Zenon
  <2>5. CASE CommitRegistration(r)
    BY <2>5, CommitRegistrationReg, Zenon
  <2>6. CASE CommitErasure(r)
    BY <2>6, CommitErasureReg, Zenon
  <2>7. CASE CommitCall(r)
    BY <2>7, CallsReg, Zenon
  <2> QED BY <1>4, <2>1, <2>2, <2>3, <2>4, <2>5, <2>6, <2>7, Zenon DEF Progress
<1>5. ASSUME NEW r \in Requests, Abort(r) PROVE RegInv'
  <2>1. \A q \in Requests : q # r => txn'[q] = txn[q]
    BY <1>5 DEF Abort, TxnInv
  <2> QED BY <1>5, <2>1, GiveUpReg DEF Abort
<1>6. ASSUME NEW r \in Requests, DeadlockVictim(r) PROVE RegInv'
  BY <1>6, DeadlockVictimReg, Zenon
<1>7. ASSUME \/ \E u \in Users : DeleteAccount(u)
             \/ \E t \in Tokens : Expire(t)
             \/ UNCHANGED vars
      PROVE  RegInv'
  BY <1>7, OutsideReg, Zenon
<1> QED BY <1>1, <1>2, <1>3, <1>4, <1>5, <1>6, <1>7, <1>8, Zenon DEF Next

LEMMA NextInvite ==
  ASSUME IInv, [Next]_vars
  PROVE  InviteInv'
<1> USE DEF IInv
<1>1. ASSUME UNCHANGED rows,
             \A q \in Requests : reg'[q].step # "none" =>
                 reg[q].step # "none" /\ reg'[q].invite = reg[q].invite
      PROVE  InviteInv'
  BY <1>1, QuietInvite
<1>2. ASSUME UNCHANGED <<rows, reg>> PROVE InviteInv'
  BY <1>1, <1>2
<1>3. ASSUME NEW r \in Requests, UNCHANGED rows,
             \/ reg' = [reg EXCEPT ![r] = NotRegistering]
             \/ reg[r].step # "none" /\ \E s : reg' = [reg EXCEPT ![r].step = s]
      PROVE  InviteInv'
  <2>1. \A q \in Requests : reg'[q].step # "none" =>
            reg[q].step # "none" /\ reg'[q].invite = reg[q].invite
    BY <1>3, NotRegisteringOK DEF RegInv, RegShape, Reg
  <2> QED BY <1>1, <1>3, <2>1
<1>4. ASSUME NEW r \in Requests, NEW u \in Users, NEW n \in Names, NEW i \in Invites,
             Register(r, u, n, i)
      PROVE  InviteInv'
  BY <1>4, RegisterInvite
<1>5. ASSUME NEW r \in Requests,
             \/ \E u \in Users : Login(r, u) \/ Logout(r, u)
             \/ \E B \in SUBSET Users : Claim(r, B)
      PROVE  InviteInv'
  BY <1>5, <1>2 DEF Login, Logout, Claim
<1>6. ASSUME NEW r \in Requests, NEW t \in Tokens, Refresh(r, t) PROVE InviteInv'
  BY <1>6, <1>2 DEF Refresh
<1>7. ASSUME NEW r \in Requests, Progress(r) PROVE InviteInv'
  <2>1. CASE IncrementUseCount(r)
    BY <2>1, <1>3 DEF IncrementUseCount
  <2>2. CASE CreateUser(r)
    BY <2>2, <1>3 DEF CreateUser
  <2>3. CASE CreateUserRefused(r)
    BY <2>3, <1>3 DEF CreateUserRefused
  <2>4. CASE Statement(r) \/ CommitCall(r)
    BY <2>4, <1>2 DEF Statement, CommitCall
  <2>5. CASE CommitRegistration(r)
    BY <2>5, CommitRegistrationInvite, Zenon
  <2>6. CASE CommitErasure(r)
    <3>1. txn[r].held \subseteq deleted
      BY DEF TxnInv, TxnOK
    <3>2. username' = username
      BY <2>6, <3>1, ErasureKeepsNames DEF CommitErasure, RegInv
    <3> QED BY <2>6, <3>2, <1>2 DEF CommitErasure, rows
  <2> QED BY <1>7, <2>1, <2>2, <2>3, <2>4, <2>5, <2>6, Zenon DEF Progress
<1>8. ASSUME NEW r \in Requests, Abort(r) PROVE InviteInv'
  BY <1>8, <1>3 DEF Abort
<1>9. ASSUME \/ \E r \in Requests : DeadlockVictim(r)
             \/ \E u \in Users : DeleteAccount(u)
             \/ \E t \in Tokens : Expire(t)
             \/ UNCHANGED vars
      PROVE  InviteInv'
  BY <1>9, <1>2 DEF DeadlockVictim, DeleteAccount, Expire, vars
<1> QED BY <1>4, <1>5, <1>6, <1>7, <1>8, <1>9, Zenon DEF Next

LEMMA NextRows ==
  ASSUME IInv, [Next]_vars
  PROVE  RowsLeft'
<1> USE DEF IInv
<1>1. ASSUME NEW r \in Requests, NEW u \in Users, NEW n \in Names, NEW i \in Invites,
             Register(r, u, n, i)
      PROVE  RowsLeft'
  BY <1>1, RegistrationRows, Zenon
<1>2. ASSUME NEW r \in Requests,
             \/ \E u \in Users : Login(r, u) \/ Logout(r, u)
             \/ \E B \in SUBSET Users : Claim(r, B)
      PROVE  RowsLeft'
  BY <1>2, CallsRows, Zenon
<1>3. ASSUME NEW r \in Requests, NEW t \in Tokens, Refresh(r, t) PROVE RowsLeft'
  BY <1>3, CallsRows, Zenon
<1>4. ASSUME NEW r \in Requests,
             \/ Sessions!Commit(r)
             \/ Sessions!Enter(r, Sessions!Idle) /\ UNCHANGED Sessions!db,
             reg' = reg \/ reg' = [reg EXCEPT ![r] = NotRegistering]
      PROVE  RowsLeft'
  BY <1>4, EndRows DEF RegInv
<1>5. ASSUME NEW r \in Requests, Progress(r) PROVE RowsLeft'
  <2>1. CASE IncrementUseCount(r) \/ CreateUser(r) \/ CreateUserRefused(r)
    BY <2>1, RegistrationRows, Zenon
  <2>2. CASE Statement(r)
    BY <2>2, StatementRows, Zenon
  <2>3. CASE CommitRegistration(r) \/ CommitErasure(r) \/ CommitCall(r)
    <3>1. Sessions!Commit(r) /\ (reg' = reg \/ reg' = [reg EXCEPT ![r] = NotRegistering])
      BY <2>3 DEF CommitRegistration, CommitErasure, CommitCall
    <3> QED BY <3>1, <1>4
  <2> QED BY <1>5, <2>1, <2>2, <2>3, Zenon DEF Progress
<1>6. ASSUME NEW r \in Requests, Abort(r) \/ DeadlockVictim(r) PROVE RowsLeft'
  <2>1. Sessions!Enter(r, Sessions!Idle) /\ UNCHANGED Sessions!db
        /\ (reg' = reg \/ reg' = [reg EXCEPT ![r] = NotRegistering])
    BY <1>6 DEF Abort, DeadlockVictim, Sessions!DeadlockVictim, Sessions!Rollback,
                Sessions!Enter, Sessions!db
  <2> QED BY <2>1, <1>4
<1>7. ASSUME \/ \E u \in Users : DeleteAccount(u)
             \/ \E t \in Tokens : Expire(t)
             \/ UNCHANGED vars
      PROVE  RowsLeft'
  <2>1. UNCHANGED <<reg, txn>> /\ \A t \in Tokens : status[t] = "absent" => status'[t] = "absent"
    BY <1>7 DEF DeleteAccount, Expire, Sessions!DeleteAccount, Sessions!Expire, TxnInv, vars, sessions
  <2> QED BY <2>1, OutsideRows
<1> QED BY <1>1, <1>2, <1>3, <1>5, <1>6, <1>7, Zenon DEF Next

LEMMA InitInv == Init => IInv
  BY InitTxn, InitReg, InitInvite, InitRows DEF Init, IInv

LEMMA NextInv == IInv /\ [Next]_vars => IInv'
<1> SUFFICES ASSUME IInv, [Next]_vars PROVE IInv'
  OBVIOUS
<1>1. TxnInv'
  BY StepOfSessions, NextTxn DEF IInv
<1> QED BY <1>1, NextReg, NextInvite, NextRows DEF IInv

-----------------------------------------------------------------------------
\* Whatever registrations, logins, refreshes, logouts and runs of the deletion
\* job interleave, and whichever of them fail: the transactions, registrations,
\* invites and tokens agree with each other in every state (AuthService and
\* withTransaction).
THEOREM Invariance == Spec => []IInv
<1>1. IInv /\ UNCHANGED vars => IInv'
  BY NextInv
<1> QED BY <1>1, InitInv, NextInv, PTL DEF Spec

\* register ends as a login does: what the tokens of an account go through here
\* is what RefreshTokens describes, so its invariants hold here too.
THEOREM ImplementsSessions == Spec => Sessions!Spec
<1>1. Init => Sessions!Init
  BY DEF Init
<1>2. IInv /\ [Next]_vars => [Sessions!Next]_(Sessions!vars)
  BY StepOfSessions DEF IInv, sessions, Sessions!vars
<1> QED BY <1>1, <1>2, Invariance, PTL DEF Spec, Sessions!Spec

\* The unique index of users keeps the names of accounts apart, though register
\* checks a name long before it inserts it (auth-service.ts, 001_users.sql).
THEOREM NamesAreUnique == Spec => []UsernamesAreUnique
<1>1. IInv => UsernamesAreUnique
  BY DEF IInv, RegInv
<1> QED BY <1>1, Invariance, PTL

\* An invite is used more often than max_uses only by users who were registering
\* with it while others were, and its counter counts each one (the check of
\* use_count in register, and incrementUseCount).
THEOREM InvitesAreBounded == Spec => []InviteUseIsBounded
<1>1. IInv => InviteUseIsBounded
  BY InviteInvBounds DEF IInv
<1> QED BY <1>1, Invariance, PTL

-----------------------------------------------------------------------------
\* What is proved of RefreshTokens holds of these accounts.  The module of those
\* proofs has operators of its own, which are the ones of Sessions.
Rotation == INSTANCE RefreshTokensProofs

LEMMA SameInit == Rotation!Init <=> Sessions!Init
  BY DEF Rotation!Init, Sessions!Init, Rotation!Idle, Sessions!Idle

LEMMA SameNext == [Sessions!Next]_(Sessions!vars) <=> [Rotation!Next]_(Rotation!vars)
<1>1. /\ Rotation!db = Sessions!db /\ Rotation!vars = Sessions!vars /\ Rotation!vars' = Sessions!vars'
      /\ Rotation!Unrevoked = Sessions!Unrevoked /\ Rotation!Idle = Sessions!Idle
      /\ Rotation!db' = Sessions!db'
  BY
  DEF Rotation!db, Sessions!db, Rotation!vars, Sessions!vars, Rotation!Unrevoked, Sessions!Unrevoked, Rotation!Idle, Sessions!Idle
<1>2. \A r, x : Rotation!Enter(r, x) <=> Sessions!Enter(r, x)
  BY DEF Rotation!Enter, Sessions!Enter
<1>3. \A r : Rotation!Rollback(r) <=> Sessions!Rollback(r)
  BY <1>1, <1>2 DEF Rotation!Rollback, Sessions!Rollback
<1>4. Rotation!Unused = Sessions!Unused
  BY DEF Rotation!Unused, Sessions!Unused
<1>5. Rotation!RowLeft <=> Sessions!RowLeft
  <2>1. \A S : Rotation!Cardinality(S) = Sessions!Cardinality(S)
    BY Zenon DEF Rotation!Cardinality, Sessions!Cardinality
  <2> QED BY <1>4, <2>1, Zenon DEF Rotation!RowLeft, Sessions!RowLeft
<1>6. \A t : Rotation!ClientMayRefresh(t) <=> Sessions!ClientMayRefresh(t)
  BY
  DEF Rotation!ClientMayRefresh, Sessions!ClientMayRefresh, Rotation!Refreshing, Sessions!Refreshing
<1>7. \A x, t : Rotation!InScope(x, t) <=> Sessions!InScope(x, t)
  BY DEF Rotation!InScope, Sessions!InScope
<1>8. \A u : Rotation!Erasing(u) <=> Sessions!Erasing(u)
  BY DEF Rotation!Erasing, Sessions!Erasing
<1>29. \A u : Rotation!Inserting(u) <=> Sessions!Inserting(u)
  BY DEF Rotation!Inserting, Sessions!Inserting
<1>9. \A t : Rotation!Unlocked(t) <=> Sessions!Unlocked(t)
  BY DEF Rotation!Unlocked, Sessions!Unlocked
<1>10. \A x : Rotation!Pending(x) = Sessions!Pending(x)
  BY <1>1 DEF Rotation!Pending, Sessions!Pending
<1>11. \A r, u : Rotation!Login(r, u) <=> Sessions!Login(r, u)
  BY <1>1, <1>2, <1>5 DEF Rotation!Login, Sessions!Login, Rotation!db, Sessions!db
<1>12. \A r, t : Rotation!Refresh(r, t) <=> Sessions!Refresh(r, t)
  BY <1>1, <1>2, <1>5, <1>6 DEF Rotation!Refresh, Sessions!Refresh, Rotation!db, Sessions!db
<1>13. \A r, t : Rotation!RefreshReused(r, t) <=> Sessions!RefreshReused(r, t)
  BY <1>1, <1>2 DEF Rotation!RefreshReused, Sessions!RefreshReused, Rotation!db, Sessions!db
<1>14. \A r, u : Rotation!Logout(r, u) <=> Sessions!Logout(r, u)
  BY <1>1, <1>2 DEF Rotation!Logout, Sessions!Logout, Rotation!db, Sessions!db
<1>15. \A r, B : Rotation!Erase(r, B) <=> Sessions!Erase(r, B)
  <2>1. ASSUME NEW r, NEW B
        PROVE  (\E u \in B : Rotation!Enter(r, [Rotation!Idle EXCEPT
                   !.step = "update", !.op = "erase", !.user = u, !.held = B, !.left = B \ {u}])) <=>
               (\E u \in B : Sessions!Enter(r, [Sessions!Idle EXCEPT
                   !.step = "update", !.op = "erase", !.user = u, !.held = B, !.left = B \ {u}]))
    BY <1>1, <1>2, Zenon
  <2>2. \A B : (\A u \in B : ~Rotation!Erasing(u) /\ ~Rotation!Inserting(u)) <=>
               (\A u \in B : ~Sessions!Erasing(u) /\ ~Sessions!Inserting(u))
    BY <1>8, <1>29, Zenon
  <2>3. UNCHANGED Rotation!db <=> UNCHANGED Sessions!db
    BY DEF Rotation!db, Sessions!db
  <2> QED BY <2>1, <2>2, <2>3, Zenon DEF Rotation!Erase, Sessions!Erase
<1>16. \A r : Rotation!UpdateStart(r) <=> Sessions!UpdateStart(r)
  BY <1>1, <1>2, <1>7 DEF Rotation!UpdateStart, Sessions!UpdateStart, Rotation!db, Sessions!db
<1>17. \A r, t : Rotation!UpdateRow(r, t) <=> Sessions!UpdateRow(r, t)
  BY <1>1, <1>2, <1>9, <1>10 DEF Rotation!UpdateRow, Sessions!UpdateRow, Rotation!db, Sessions!db
<1>18. \A r : Rotation!UpdateEnd(r) <=> Sessions!UpdateEnd(r)
  <2>1. \A r : Rotation!AfterUpdate(r) <=> Sessions!AfterUpdate(r)
    BY <1>2, <1>3 DEF Rotation!AfterUpdate, Sessions!AfterUpdate
  <2> QED BY <1>1, <1>10, <2>1 DEF Rotation!UpdateEnd, Sessions!UpdateEnd, Rotation!db, Sessions!db
<1>19. \A r, t : Rotation!Insert(r, t) <=> Sessions!Insert(r, t)
  BY <1>1, <1>2, <1>4, <1>8 DEF Rotation!Insert, Sessions!Insert, Rotation!db, Sessions!db
<1>20. \A r : Rotation!Commit(r) <=> Sessions!Commit(r)
  BY <1>3 DEF Rotation!Commit, Sessions!Commit
<1>21. \A r : Rotation!Abort(r) <=> Sessions!Abort(r)
  BY <1>3 DEF Rotation!Abort, Sessions!Abort, Rotation!db, Sessions!db
<1>22. \A q, S : Rotation!WaitsFor(q, S) <=> Sessions!WaitsFor(q, S)
  BY <1>10 DEF Rotation!WaitsFor, Sessions!WaitsFor
<1>23. \A r : Rotation!DeadlockVictim(r) <=> Sessions!DeadlockVictim(r)
  BY <1>3, <1>22
  DEF Rotation!DeadlockVictim, Sessions!DeadlockVictim, Rotation!Deadlocked, Sessions!Deadlocked, Rotation!db, Sessions!db
<1>24. \A u : Rotation!DeleteAccount(u) <=> Sessions!DeleteAccount(u)
  BY DEF Rotation!DeleteAccount, Sessions!DeleteAccount
<1>25. \A t : Rotation!Expire(t) <=> Sessions!Expire(t)
  BY DEF Rotation!Expire, Sessions!Expire
<1>26. Rotation!Retention <=> Sessions!Retention
  BY <1>9 DEF Rotation!Retention, Sessions!Retention
<1>27. \A r : Rotation!Progress(r) <=> Sessions!Progress(r)
  BY <1>16, <1>17, <1>18, <1>19, <1>20 DEF Rotation!Progress, Sessions!Progress
<1>28. Rotation!Next <=> Sessions!Next
  BY <1>11, <1>12, <1>13, <1>14, <1>15, <1>21, <1>23, <1>24, <1>25, <1>26, <1>27
  DEF Rotation!Next, Sessions!Next
<1> QED BY <1>1, <1>28

LEMMA RotationSpec == Spec => Rotation!Spec
  BY ImplementsSessions, SameInit, SameNext, PTL DEF Rotation!Spec, Sessions!Spec

\* Registrations that end as logins, the deletion job and its deadlocks leave
\* rotation correct: a superseded token is unusable, a session is one user's,
\* and it has one live token if its client serialises refreshes (refresh,
\* revokeFamily, revokeAllForUser and register together).
THEOREM SessionsAreSafe ==
  Spec => [](/\ Sessions!SupersededIsRevoked
             /\ Sessions!OneUserPerFamily
             /\ Sessions!OneTokenPerSerialSession)
<1>1. Rotation!Spec => [](/\ Rotation!SupersededIsRevoked
                          /\ Rotation!OneUserPerFamily
                          /\ Rotation!OneTokenPerSerialSession)
  BY Rotation!SupersededRevoked, Rotation!FamilyHasOneUser, Rotation!SerialSessionHasOneToken,
     ConstantsAssumption, PTL DEF Rotation!ConstantsAssumption
<1>2. /\ Rotation!SupersededIsRevoked => Sessions!SupersededIsRevoked
      /\ Rotation!OneUserPerFamily => Sessions!OneUserPerFamily
      /\ Rotation!OneTokenPerSerialSession => Sessions!OneTokenPerSerialSession
  BY DEF Rotation!SupersededIsRevoked, Sessions!SupersededIsRevoked,
         Rotation!OneUserPerFamily, Sessions!OneUserPerFamily,
         Rotation!OneTokenPerSerialSession, Sessions!OneTokenPerSerialSession,
         Rotation!Unrevoked, Sessions!Unrevoked
<1> QED BY <1>1, <1>2, RotationSpec, PTL

\* No registration, erasure, failure or deadlock brings a revoked token back
\* (withTransaction, retention.ts).
THEOREM RevokedForGood == Spec => Sessions!RevocationIsFinal
<1>1. Rotation!Spec => Rotation!RevocationIsFinal
  BY Rotation!RevokedForGood, ConstantsAssumption DEF Rotation!ConstantsAssumption
<1>2. [\A t \in Tokens : status[t] \in {"revoked", "deleted"} =>
          status'[t] \in {"revoked", "deleted"}]_(Rotation!vars)
      => [\A t \in Tokens : status[t] \in {"revoked", "deleted"} =>
             status'[t] \in {"revoked", "deleted"}]_(Sessions!vars)
  BY DEF Rotation!vars, Sessions!vars
<1> QED BY <1>1, <1>2, RotationSpec, PTL DEF Rotation!RevocationIsFinal, Sessions!RevocationIsFinal

-----------------------------------------------------------------------------
\* What is left of the types: the count of failures.
FaultsOK == faults \in Nat

LEMMA NextFaults == FaultsOK /\ [Next]_vars => FaultsOK'
<1> SUFFICES ASSUME FaultsOK, [Next]_vars PROVE FaultsOK'
  OBVIOUS
<1>1. ASSUME NEW r \in Requests, Abort(r) \/ DeadlockVictim(r) PROVE FaultsOK'
  <2>1. faults' = faults \/ faults' = faults + 1
    BY <1>1 DEF Abort, DeadlockVictim
  <2> QED BY <2>1 DEF FaultsOK
<1>2. ASSUME NEW r \in Requests, Progress(r) PROVE faults' = faults
  BY <1>2
  DEF Progress, IncrementUseCount, CreateUser, CreateUserRefused, Statement, CommitRegistration,
      CommitErasure, CommitCall
<1>3. CASE faults' = faults
  BY <1>3 DEF FaultsOK
<1> QED
  BY <1>1, <1>2, <1>3
  DEF Next, vars, Register, Login, Logout, Claim, Refresh, DeleteAccount, Expire

\* Type correctness of Accounts' state, RefreshTokens' part of it included.
THEOREM TypeCorrect == Spec => []TypeOK
<1>1. Init => FaultsOK
  BY DEF Init, FaultsOK
<1>2. Rotation!Spec => []Rotation!TypeOK
  BY Rotation!TypeCorrect, ConstantsAssumption DEF Rotation!ConstantsAssumption
<1>3. Rotation!TypeOK => Sessions!TypeOK
  BY DEF Rotation!TypeOK, Sessions!TypeOK, Rotation!Status, Sessions!Status, Rotation!Txn,
         Sessions!Txn, Rotation!Step, Sessions!Step, Rotation!Op, Sessions!Op
<1>4. IInv /\ FaultsOK /\ Sessions!TypeOK => TypeOK
  BY DEF FaultsOK, IInv, RegInv, RegShape, InviteInv, TypeOK
<1> QED BY <1>1, <1>2, <1>3, <1>4, NextFaults, Invariance, RotationSpec, PTL DEF Spec
=============================================================================
