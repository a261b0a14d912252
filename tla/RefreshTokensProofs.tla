------------------------ MODULE RefreshTokensProofs ------------------------
(***************************************************************************)
(* The safety properties of RefreshTokens hold for every set of users,     *)
(* rows and open transactions.  They follow from one inductive invariant,  *)
(* IInv, whose parts say what an open transaction knows about the rows.    *)
(***************************************************************************)
EXTENDS RefreshTokens, TLAPS

\* Committed rows: what a row that exists has, and what its family root is.
RowsOK ==
    \A t \in Tokens :
        IF status[t] = "absent"
        THEN parent[t] = NoToken /\ family[t] = NoToken /\ owner[t] = NoUser
        ELSE /\ owner[t] \in Users
             /\ family[t] \in Tokens
             /\ status[family[t]] # "absent"
             /\ owner[family[t]] = owner[t]

\* A superseded token is gone for good.
ParentsOK ==
    \A t \in Tokens : parent[t] # NoToken => status[parent[t]] \in {"revoked", "deleted"}

\* An open transaction: what each of its fields can be at each step.
TxnShape(r) ==
    LET x == txn[r]
    IN  /\ x.step = "idle" <=> x.op = "none"
        /\ x.op \in {"none", "login"} => x.matched = {} /\ x.locked = {} /\ x.stored = NoToken
        /\ x.op # "erase" => x.held = {} /\ x.left = {}
        /\ x.op = "erase" => x.user \in x.held /\ x.left \subseteq x.held
        /\ x.op \in {"login", "refresh"} => x.user \in Users
        /\ x.op \in {"refresh", "reuse"} =>
              x.stored \in Tokens /\ status[x.stored] # "absent" /\ x.user = owner[x.stored]
        /\ x.op \in {"logout", "erase"} => x.stored = NoToken /\ x.user \in Users
        /\ x.op = "login" => x.step \in {"insert", "commit"}
        /\ x.op = "reuse" => x.step \in {"update", "visiting"}
        /\ x.op \in {"logout", "erase"} => x.step # "insert"
        /\ x.fresh # NoToken => /\ x.step = "commit"
                                /\ x.op \in {"login", "refresh"}
                                /\ status[x.fresh] = "absent"
        /\ x.step = "commit" /\ x.op \in {"login", "refresh"} => x.fresh # NoToken
        /\ x.matched \subseteq {t \in Tokens : status[t] # "absent"}
        /\ x.locked \subseteq x.matched
        /\ \A t \in x.locked : status[t] \in Unrevoked

\* Row locks are exclusive, and so are the ids of uncommitted rows.
Exclusive ==
    \A q, r \in Requests :
        q # r => /\ txn[q].locked \cap txn[r].locked = {}
                 /\ txn[q].fresh # NoToken => txn[q].fresh # txn[r].fresh

\* Once its UPDATE has started a refresh has matched the token it was given,
\* or somebody has revoked it.
StoredMatched ==
    \A r \in Requests :
        txn[r].op = "refresh" /\ txn[r].step # "update" =>
            \/ txn[r].stored \in txn[r].matched
            \/ status[txn[r].stored] \notin Unrevoked

\* Once its UPDATE has returned, nothing it matched is left unrevoked.
NothingPending ==
    \A r \in Requests :
        txn[r].step \in {"insert", "commit"} => Pending(txn[r]) = {}

\* A serial user's session has one refresh at a time, whose UPDATE matches
\* every unrevoked row there is.
SerialRefresh ==
    \A r \in Requests :
        txn[r].op = "refresh" /\ txn[r].user \in SerialUsers =>
            /\ \A q \in Requests \ {r} :
                  txn[q].op = "refresh" => family[txn[q].stored] # family[txn[r].stored]
            /\ txn[r].step # "update" =>
                  \A t \in Tokens :
                      status[t] \in Unrevoked /\ family[t] = family[txn[r].stored]
                          => t \in txn[r].matched

IInv ==
    /\ TypeOK
    /\ RowsOK
    /\ ParentsOK
    /\ \A r \in Requests : TxnShape(r)
    /\ Exclusive
    /\ StoredMatched
    /\ NothingPending
    /\ SerialRefresh
    /\ OneTokenPerSerialSession

-----------------------------------------------------------------------------
LEMMA IdleType == Idle \in Txn
BY DEF Idle, Txn, Step, Op

\* What Enter does to the transactions.
LEMMA EnterTxn ==
    ASSUME TypeOK, NEW r \in Requests, NEW x \in Txn, Enter(r, x)
    PROVE  /\ txn' \in [Requests -> Txn]
           /\ txn'[r] = x
           /\ \A q \in Requests : q # r => txn'[q] = txn[q]
BY DEF TypeOK, Enter

\* A call that begins: it holds no row, and has matched none.
LEMMA BeginInv ==
    ASSUME IInv, NEW r \in Requests, NEW x \in Txn,
           txn[r].step = "idle", Enter(r, x), UNCHANGED db,
           x.matched = {}, x.locked = {}, x.fresh = NoToken,
           x.op = "erase" => x.user \in x.held /\ x.left \subseteq x.held,
           x.op # "erase" => x.held = {} /\ x.left = {},
           \/ x.op = "login" /\ x.step = "insert" /\ x.stored = NoToken /\ x.user \in Users
           \/ x.op \in {"logout", "erase"} /\ x.step = "update" /\ x.stored = NoToken /\ x.user \in Users
           \/ /\ x.op \in {"refresh", "reuse"} /\ x.step = "update" /\ x.stored \in Tokens
              /\ status[x.stored] # "absent" /\ x.user = owner[x.stored]
              /\ x.op = "refresh" => ClientMayRefresh(x.stored)
    PROVE  IInv'
<1> TypeOK
  BY DEF IInv
<1>0. /\ txn' \in [Requests -> Txn]
      /\ txn'[r] = x
      /\ \A q \in Requests : q # r => txn'[q] = txn[q]
  BY EnterTxn
<1> USE ConstantsAssumption
<1>1. TypeOK' /\ RowsOK' /\ ParentsOK' /\ OneTokenPerSerialSession'
  BY <1>0 DEF IInv, TypeOK, RowsOK, ParentsOK, OneTokenPerSerialSession, db
<1>2. ASSUME NEW q \in Requests PROVE TxnShape(q)'
  <2>1. CASE q = r
    BY <1>0, <2>1 DEF IInv, TypeOK, Txn, TxnShape, RowsOK, db
  <2>2. CASE q # r
    BY <1>0, <2>2 DEF IInv, TxnShape, db
  <2> QED BY <2>1, <2>2
<1>3. Exclusive'
  BY <1>0 DEF IInv, Exclusive
<1>4. StoredMatched'
  BY <1>0 DEF IInv, StoredMatched, db
<1>5. NothingPending'
  BY <1>0 DEF IInv, NothingPending, Pending, db
<1>6. SerialRefresh'
  <2>1. ASSUME NEW p \in Requests, NEW q \in Requests, p # q,
               txn'[p].op = "refresh", txn'[q].op = "refresh", txn'[p].user \in SerialUsers
        PROVE  family[txn'[p].stored] # family[txn'[q].stored]
    <3>1. \A o \in {p, q} : /\ txn'[o].stored \in Tokens
                            /\ status[txn'[o].stored] # "absent"
                            /\ txn'[o].user = owner[txn'[o].stored]
      BY <1>0, <2>1 DEF IInv, TxnShape
    <3>2. family[txn'[p].stored] = family[txn'[q].stored] => txn'[q].user = txn'[p].user
      BY <3>1 DEF IInv, RowsOK
    <3>3. CASE p # r /\ q # r
      BY <1>0, <2>1, <3>3 DEF IInv, SerialRefresh
    <3>4. CASE p = r
      BY <1>0, <2>1, <3>4 DEF ClientMayRefresh, Refreshing
    <3>5. CASE q = r
      BY <1>0, <2>1, <3>2, <3>5 DEF ClientMayRefresh, Refreshing
    <3> QED BY <2>1, <3>3, <3>4, <3>5
  <2>2. ASSUME NEW p \in Requests, txn'[p].op = "refresh", txn'[p].user \in SerialUsers,
               txn'[p].step # "update"
        PROVE  p # r /\ txn'[p] = txn[p]
    BY <1>0, <2>2
  <2> QED BY <2>1, <2>2 DEF IInv, SerialRefresh, db
<1> QED BY <1>1, <1>2, <1>3, <1>4, <1>5, <1>6 DEF IInv

\* A call whose transaction ends with nothing committed.
LEMMA RollbackInv ==
    ASSUME IInv, NEW r \in Requests, Rollback(r), UNCHANGED db
    PROVE  IInv'
<1> TypeOK
  BY DEF IInv
<1>0. /\ txn' \in [Requests -> Txn]
      /\ txn'[r] = Idle
      /\ \A q \in Requests : q # r => txn'[q] = txn[q]
  BY EnterTxn, IdleType DEF Rollback
<1> USE ConstantsAssumption
<1>1. TypeOK' /\ RowsOK' /\ ParentsOK' /\ OneTokenPerSerialSession'
  BY <1>0 DEF IInv, TypeOK, RowsOK, ParentsOK, OneTokenPerSerialSession, db
<1>2. ASSUME NEW q \in Requests PROVE TxnShape(q)'
  BY <1>0 DEF IInv, TxnShape, db, Idle
<1>3. Exclusive'
  BY <1>0 DEF IInv, Exclusive, Idle
<1>4. StoredMatched'
  BY <1>0 DEF IInv, StoredMatched, db, Idle
<1>5. NothingPending'
  BY <1>0 DEF IInv, NothingPending, Pending, db, Idle
<1>6. SerialRefresh'
  BY <1>0 DEF IInv, SerialRefresh, db, Idle
<1> QED BY <1>1, <1>2, <1>3, <1>4, <1>5, <1>6 DEF IInv

-----------------------------------------------------------------------------
\* The steps of the UPDATE and the INSERT, one by one.

LEMMA UpdateStartInv ==
    ASSUME IInv, NEW r \in Requests, UpdateStart(r)
    PROVE  IInv'
<1> DEFINE rows == txn[r].matched \cup {t \in Tokens : status[t] \in Unrevoked /\ InScope(txn[r], t)}
           x == [txn[r] EXCEPT !.step = "visiting", !.matched = rows]
<1> TypeOK
  BY DEF IInv
<1>1. Enter(r, x) /\ UNCHANGED db /\ txn[r].step = "update" /\ x \in Txn
  <2>1. txn[r] \in Txn /\ rows \in SUBSET Tokens
    BY DEF TypeOK, Txn
  <2>2. ASSUME NEW y \in Txn, NEW m \in SUBSET Tokens
        PROVE  [y EXCEPT !.step = "visiting", !.matched = m] \in Txn
    BY <2>2 DEF Txn, Step
  <2>3. x \in Txn
    BY <2>1, <2>2
  <2> QED BY <2>3 DEF UpdateStart
<1>2. /\ txn' \in [Requests -> Txn]
      /\ txn'[r] = x
      /\ \A q \in Requests : q # r => txn'[q] = txn[q]
  BY <1>1, EnterTxn
<1>3. /\ x.op = txn[r].op /\ x.user = txn[r].user /\ x.stored = txn[r].stored
      /\ x.locked = txn[r].locked /\ x.fresh = txn[r].fresh
      /\ x.step = "visiting" /\ x.matched = rows
      /\ x.held = txn[r].held /\ x.left = txn[r].left
  BY DEF TypeOK, Txn
<1> HIDE DEF x
<1> USE ConstantsAssumption
<1>4. TypeOK' /\ RowsOK' /\ ParentsOK' /\ OneTokenPerSerialSession'
  BY <1>1, <1>2 DEF IInv, TypeOK, RowsOK, ParentsOK, OneTokenPerSerialSession, db
<1>5. ASSUME NEW q \in Requests PROVE TxnShape(q)'
  BY <1>1, <1>2, <1>3 DEF IInv, TxnShape, db, Unrevoked
<1>6. Exclusive'
  BY <1>1, <1>2, <1>3 DEF IInv, Exclusive
<1>7. StoredMatched'
  BY <1>1, <1>2, <1>3 DEF IInv, StoredMatched, db, InScope, TxnShape
<1>8. NothingPending'
  BY <1>1, <1>2, <1>3 DEF IInv, NothingPending, Pending, db
<1>9. SerialRefresh'
  BY <1>1, <1>2, <1>3 DEF IInv, SerialRefresh, db, InScope
<1> QED BY <1>4, <1>5, <1>6, <1>7, <1>8, <1>9 DEF IInv

LEMMA UpdateRowInv ==
    ASSUME IInv, NEW r \in Requests, NEW t \in Tokens, UpdateRow(r, t)
    PROVE  IInv'
<1> DEFINE x == [txn[r] EXCEPT !.locked = @ \cup {t}]
<1> TypeOK
  BY DEF IInv
<1>1. /\ Enter(r, x) /\ UNCHANGED db /\ txn[r].step = "visiting" /\ x \in Txn
      /\ t \in txn[r].matched /\ status[t] \in Unrevoked
      /\ \A q \in Requests : t \notin txn[q].locked
  BY DEF UpdateRow, Pending, Unlocked, TypeOK, Txn
<1>2. /\ txn' \in [Requests -> Txn]
      /\ txn'[r] = x
      /\ \A q \in Requests : q # r => txn'[q] = txn[q]
  BY <1>1, EnterTxn
<1>3. /\ x.op = txn[r].op /\ x.user = txn[r].user /\ x.stored = txn[r].stored
      /\ x.matched = txn[r].matched /\ x.fresh = txn[r].fresh
      /\ x.step = "visiting" /\ x.locked = txn[r].locked \cup {t}
      /\ x.held = txn[r].held /\ x.left = txn[r].left
  BY <1>1 DEF TypeOK, Txn
<1> HIDE DEF x
<1>4. TypeOK' /\ RowsOK' /\ ParentsOK' /\ OneTokenPerSerialSession'
  BY <1>1, <1>2 DEF IInv, TypeOK, RowsOK, ParentsOK, OneTokenPerSerialSession, db
<1>5. ASSUME NEW q \in Requests PROVE TxnShape(q)'
  BY <1>1, <1>2, <1>3 DEF IInv, TxnShape, db
<1>6. Exclusive'
  BY <1>1, <1>2, <1>3 DEF IInv, Exclusive
<1>7. StoredMatched'
  BY <1>1, <1>2, <1>3 DEF IInv, StoredMatched, db
<1>8. NothingPending'
  BY <1>1, <1>2, <1>3 DEF IInv, NothingPending, Pending, db
<1>9. SerialRefresh'
  BY <1>1, <1>2, <1>3 DEF IInv, SerialRefresh, db
<1> QED BY <1>4, <1>5, <1>6, <1>7, <1>8, <1>9 DEF IInv

LEMMA UpdateEndInv ==
    ASSUME IInv, NEW r \in Requests, UpdateEnd(r)
    PROVE  IInv'
<1> TypeOK
  BY DEF IInv
<1>1. CASE txn[r].op = "reuse"
  <2>1. txn[r].left = {}
    BY <1>1 DEF IInv, TxnShape
  <2> QED BY <1>1, <2>1, RollbackInv DEF UpdateEnd, AfterUpdate
<1>2. ASSUME NEW s \in {"insert", "commit", "update"}, NEW u \in Users, NEW left \in SUBSET Users,
             txn[r].op \in {"refresh", "logout", "erase"},
             s = "insert" <=> txn[r].op = "refresh",
             \/ u = txn[r].user /\ left = txn[r].left /\ s # "update"
             \/ txn[r].op = "erase" /\ u \in txn[r].left /\ left \subseteq txn[r].left /\ s = "update",
             Enter(r, [txn[r] EXCEPT !.step = s, !.user = u, !.left = left]), UNCHANGED db,
             txn[r].step = "visiting", Pending(txn[r]) = {}
      PROVE  IInv'
  <2> DEFINE x == [txn[r] EXCEPT !.step = s, !.user = u, !.left = left]
  <2>1. x \in Txn
    <3>1. txn[r] \in Txn
      BY DEF TypeOK
    <3>2. s \in Step /\ u \in Users \cup {NoUser} /\ left \in SUBSET Users
      BY <1>2 DEF Step
    <3>3. ASSUME NEW y \in Txn
          PROVE  [y EXCEPT !.step = s, !.user = u, !.left = left] \in Txn
      BY <3>2, <3>3 DEF Txn
    <3> QED BY <3>1, <3>3
  <2>2. /\ txn' \in [Requests -> Txn]
        /\ txn'[r] = x
        /\ \A q \in Requests : q # r => txn'[q] = txn[q]
    BY <1>2, <2>1, EnterTxn
  <2>3. /\ x.op = txn[r].op /\ x.user = u /\ x.stored = txn[r].stored
        /\ x.matched = txn[r].matched /\ x.fresh = txn[r].fresh
        /\ x.step = s /\ x.locked = txn[r].locked /\ x.held = txn[r].held /\ x.left = left
        /\ x.op \in {"refresh", "logout"} => u = txn[r].user
    BY <1>2 DEF TypeOK, Txn
  <2> HIDE DEF x
  <2>4. TypeOK' /\ RowsOK' /\ ParentsOK' /\ OneTokenPerSerialSession'
    BY <1>2, <2>2 DEF IInv, TypeOK, RowsOK, ParentsOK, OneTokenPerSerialSession, db
  <2>5. ASSUME NEW q \in Requests PROVE TxnShape(q)'
    BY <1>2, <2>2, <2>3 DEF IInv, TxnShape, db
  <2>6. Exclusive'
    BY <1>2, <2>2, <2>3 DEF IInv, Exclusive
  <2>7. StoredMatched'
    BY <1>2, <2>2, <2>3 DEF IInv, StoredMatched, db
  <2>8. NothingPending'
    BY <1>2, <2>2, <2>3 DEF IInv, NothingPending, Pending, db
  <2>9. SerialRefresh'
    BY <1>2, <2>2, <2>3 DEF IInv, SerialRefresh, db
  <2> QED BY <2>4, <2>5, <2>6, <2>7, <2>8, <2>9 DEF IInv
<1>3. CASE txn[r].op # "reuse"
  <2> DEFINE y == txn[r]
  <2>1. /\ y.step = "visiting" /\ Pending(y) = {} /\ UNCHANGED db /\ y \in Txn
        /\ y.op # "erase" => y.left = {}
        /\ y.op \in {"refresh", "logout", "erase"} => y.user \in Users
    BY DEF UpdateEnd, IInv, TypeOK, TxnShape
  <2>2. CASE \E u \in y.left : Enter(r, [y EXCEPT !.step = "update", !.user = u, !.left = @ \ {u}])
    <3>1. PICK u \in y.left : Enter(r, [y EXCEPT !.step = "update", !.user = u, !.left = y.left \ {u}])
      BY <2>2
    <3>2. u \in Users /\ y.left \ {u} \in SUBSET Users /\ y.op = "erase"
      BY <2>1 DEF Txn
    <3> QED BY <3>1, <3>2, <2>1, <1>2
  <2>3. CASE y.op = "refresh" /\ Enter(r, [y EXCEPT !.step = "insert"])
    <3>1. [y EXCEPT !.step = "insert"] = [y EXCEPT !.step = "insert", !.user = y.user, !.left = y.left]
      BY <2>1 DEF Txn
    <3> QED BY <3>1, <2>1, <2>3, <1>2 DEF Txn
  <2>4. CASE y.op \in {"logout", "erase"} /\ Enter(r, [y EXCEPT !.step = "commit"])
    <3>1. [y EXCEPT !.step = "commit"] = [y EXCEPT !.step = "commit", !.user = y.user, !.left = y.left]
      BY <2>1 DEF Txn
    <3> QED BY <3>1, <2>1, <2>4, <1>2 DEF Txn
  <2> QED BY <1>3, <2>2, <2>3, <2>4 DEF UpdateEnd, AfterUpdate
<1> QED BY <1>1, <1>3

LEMMA InsertInv ==
    ASSUME IInv, NEW r \in Requests, NEW t \in Tokens, Insert(r, t)
    PROVE  IInv'
<1> DEFINE x == [txn[r] EXCEPT !.step = "commit", !.fresh = t]
<1> TypeOK
  BY DEF IInv
<1>1. /\ Enter(r, x) /\ UNCHANGED db /\ txn[r].step = "insert" /\ x \in Txn
      /\ status[t] = "absent" /\ \A q \in Requests : txn[q].fresh # t
  <2>1. txn[r] \in Txn
    BY DEF TypeOK
  <2>2. ASSUME NEW y \in Txn
        PROVE  [y EXCEPT !.step = "commit", !.fresh = t] \in Txn
    BY <2>2 DEF Txn, Step
  <2>3. x \in Txn
    BY <2>1, <2>2
  <2> QED BY <2>3 DEF Insert, Unused
<1>2. /\ txn' \in [Requests -> Txn]
      /\ txn'[r] = x
      /\ \A q \in Requests : q # r => txn'[q] = txn[q]
  BY <1>1, EnterTxn
<1>3. /\ x.op = txn[r].op /\ x.user = txn[r].user /\ x.stored = txn[r].stored
      /\ x.matched = txn[r].matched /\ x.fresh = t
      /\ x.step = "commit" /\ x.locked = txn[r].locked
      /\ x.held = txn[r].held /\ x.left = txn[r].left
  BY DEF TypeOK, Txn
<1> HIDE DEF x
<1> USE ConstantsAssumption
<1>4. TypeOK' /\ RowsOK' /\ ParentsOK' /\ OneTokenPerSerialSession'
  BY <1>1, <1>2 DEF IInv, TypeOK, RowsOK, ParentsOK, OneTokenPerSerialSession, db
<1>5. ASSUME NEW q \in Requests PROVE TxnShape(q)'
  BY <1>1, <1>2, <1>3 DEF IInv, TxnShape, db, TypeOK, Txn, Op
<1>6. Exclusive'
  BY <1>1, <1>2, <1>3 DEF IInv, Exclusive
<1>7. StoredMatched'
  BY <1>1, <1>2, <1>3 DEF IInv, StoredMatched, db
<1>8. NothingPending'
  BY <1>1, <1>2, <1>3 DEF IInv, NothingPending, Pending, db
<1>9. SerialRefresh'
  BY <1>1, <1>2, <1>3 DEF IInv, SerialRefresh, db
<1> QED BY <1>4, <1>5, <1>6, <1>7, <1>8, <1>9 DEF IInv

\* The COMMIT.  Rows it revokes are held by nobody else, the row it adds was
\* absent, so the other open transactions know of the rows what they did.
LEMMA CommitInv ==
    ASSUME IInv, NEW r \in Requests, Commit(r)
    PROVE  IInv'
<1> DEFINE x == txn[r]
<1> TypeOK /\ TxnShape(r) /\ x \in Txn
  BY DEF IInv, TypeOK
<1> USE ConstantsAssumption
<1>1. /\ txn' \in [Requests -> Txn]
      /\ txn'[r] = Idle
      /\ \A q \in Requests : q # r => txn'[q] = txn[q]
  BY EnterTxn, IdleType DEF Commit, Rollback
<1>2. /\ x.step = "commit" /\ x.op \in {"login", "refresh", "logout", "erase"}
      /\ x.locked \subseteq Tokens
      /\ x.op \in {"login", "refresh"} => /\ x.fresh \in Tokens
                                         /\ status[x.fresh] = "absent"
                                         /\ x.user \in Users
      /\ x.op \in {"logout", "erase"} => x.fresh = NoToken
      /\ x.op = "refresh" => /\ x.stored \in Tokens
                             /\ status[x.stored] # "absent"
                             /\ x.user = owner[x.stored]
      /\ x.op = "login" => x.stored = NoToken /\ x.locked = {}
  BY DEF Commit, TxnShape, Txn, Op
<1> DEFINE root == IF x.op = "login" THEN x.fresh ELSE family[x.stored]
<1>3. /\ status' = [t \in Tokens |-> IF t \in x.locked THEN "revoked"
                                     ELSE IF t = x.fresh THEN "active" ELSE status[t]]
      /\ owner' = [t \in Tokens |-> IF t = x.fresh THEN x.user ELSE owner[t]]
      /\ family' = [t \in Tokens |-> IF t = x.fresh THEN root ELSE family[t]]
      /\ parent' = [t \in Tokens |-> IF t = x.fresh THEN x.stored ELSE parent[t]]
      /\ deleted' = deleted
  BY DEF Commit
<1>4. \A t \in x.locked : t \in Tokens /\ status[t] \in Unrevoked /\ t # x.fresh
  BY <1>2 DEF TxnShape, Unrevoked
<1>5. \A t \in Tokens : t # x.fresh =>
          /\ status[t] = "absent" <=> status'[t] = "absent"
          /\ status'[t] \in Unrevoked => status[t] \in Unrevoked /\ t \notin x.locked
          /\ owner'[t] = owner[t] /\ family'[t] = family[t] /\ parent'[t] = parent[t]
          /\ t \notin x.locked => status'[t] = status[t]
  BY <1>3, <1>4 DEF Unrevoked
<1>6. x.fresh \in Tokens => /\ status'[x.fresh] = "active" /\ owner'[x.fresh] = x.user
                            /\ family'[x.fresh] = root /\ parent'[x.fresh] = x.stored
  BY <1>3, <1>4
<1>7. x.op = "refresh" => root \in Tokens /\ status[root] # "absent" /\ owner[root] = x.user
                          /\ root # x.fresh
  BY <1>2 DEF IInv, RowsOK
<1> HIDE DEF x, root
<1>8. TypeOK'
  <2>1. root \in Tokens \/ x.fresh \notin Tokens
    BY <1>2, <1>7 DEF root
  <2> QED BY <1>1, <1>2, <1>3, <2>1 DEF TypeOK, Status, Txn, x
<1>9. RowsOK'
  <2> SUFFICES ASSUME NEW t \in Tokens
               PROVE  IF status'[t] = "absent"
                      THEN parent'[t] = NoToken /\ family'[t] = NoToken /\ owner'[t] = NoUser
                      ELSE /\ owner'[t] \in Users
                           /\ family'[t] \in Tokens
                           /\ status'[family'[t]] # "absent"
                           /\ owner'[family'[t]] = owner'[t]
    BY DEF RowsOK
  <2>1. CASE t # x.fresh
    BY <1>2, <1>5, <1>6, <2>1 DEF IInv, RowsOK
  <2>2. CASE t = x.fresh /\ x.op = "refresh"
    BY <1>2, <1>5, <1>6, <1>7, <2>2
  <2>3. CASE t = x.fresh /\ x.op = "login"
    BY <1>2, <1>6, <2>3 DEF root
  <2> QED BY <1>2, <2>1, <2>2, <2>3
<1>10. x.op = "refresh" => status'[x.stored] \in {"revoked", "deleted"}
  <2> SUFFICES ASSUME x.op = "refresh" PROVE status'[x.stored] \in {"revoked", "deleted"}
    OBVIOUS
  <2>1. x.stored # x.fresh /\ x.stored \in Tokens
    BY <1>2
  <2>2. x.stored \in x.locked \/ status[x.stored] \notin Unrevoked
    BY <1>2 DEF IInv, StoredMatched, NothingPending, Pending, x
  <2>3. status[x.stored] \in Status
    BY <2>1 DEF TypeOK
  <2> QED BY <1>2, <1>3, <2>1, <2>2, <2>3 DEF Status, Unrevoked
<1>11. ParentsOK'
  <2> SUFFICES ASSUME NEW t \in Tokens, parent'[t] # NoToken
               PROVE  status'[parent'[t]] \in {"revoked", "deleted"}
    BY DEF ParentsOK
  <2>1. CASE t # x.fresh
    <3>1. parent[t] \in Tokens /\ status[parent[t]] \in {"revoked", "deleted"} /\ parent'[t] = parent[t]
      BY <1>5, <2>1 DEF IInv, ParentsOK, TypeOK
    <3>2. parent[t] \notin x.locked /\ parent[t] # x.fresh
      BY <1>2, <1>4, <3>1 DEF Unrevoked
    <3> QED BY <1>5, <3>1, <3>2
  <2>2. CASE t = x.fresh
    BY <1>2, <1>6, <1>10, <2>2
  <2> QED BY <2>1, <2>2
<1>12. ASSUME NEW q \in Requests, q # r
       PROVE  /\ txn'[q] = txn[q] /\ txn[q].matched \subseteq Tokens \ {x.fresh}
              /\ txn[q].locked \cap x.locked = {}
              /\ txn[q].fresh # NoToken => txn[q].fresh # x.fresh
  BY <1>1, <1>2, <1>12 DEF IInv, TxnShape, Exclusive, x
<1>13. ASSUME NEW q \in Requests PROVE TxnShape(q)'
  <2>1. CASE q = r
    BY <1>1, <2>1 DEF TxnShape, Idle
  <2>2. CASE q # r
    <3> TxnShape(q) /\ txn[q] \in Txn
      BY DEF IInv, TypeOK
    <3>1. txn[q].op \in {"refresh", "reuse"} =>
             txn[q].stored \in Tokens /\ txn[q].stored # x.fresh
      BY <1>2 DEF TxnShape
    <3>2. txn[q].fresh # NoToken => /\ txn[q].fresh \in Tokens /\ status'[txn[q].fresh] = "absent"
      BY <1>5, <1>12, <2>2 DEF TxnShape, Txn
    <3>3. \A t \in txn[q].locked : status'[t] \in Unrevoked
      BY <1>5, <1>12, <2>2 DEF TxnShape
    <3>4. txn[q].matched \subseteq {t \in Tokens : status'[t] # "absent"}
      BY <1>5, <1>12, <2>2 DEF TxnShape
    <3> QED BY <1>5, <1>12, <2>2, <3>1, <3>2, <3>3, <3>4 DEF TxnShape
  <2> QED BY <2>1, <2>2
<1>14. Exclusive'
  BY <1>1 DEF IInv, Exclusive, Idle
<1>15. StoredMatched'
  <2> SUFFICES ASSUME NEW q \in Requests, q # r, txn[q].op = "refresh", txn[q].step # "update"
               PROVE  \/ txn[q].stored \in txn[q].matched
                      \/ status'[txn[q].stored] \notin Unrevoked
    BY <1>1 DEF StoredMatched, Idle
  <2>1. txn[q].stored \in Tokens /\ txn[q].stored # x.fresh
    BY <1>2 DEF IInv, TxnShape
  <2> QED BY <1>5, <2>1 DEF IInv, StoredMatched
<1>16. NothingPending'
  <2> SUFFICES ASSUME NEW q \in Requests, q # r, txn[q].step \in {"insert", "commit"},
                      NEW t \in txn[q].matched \ txn[q].locked
               PROVE  status'[t] \notin Unrevoked
    BY <1>1 DEF NothingPending, Pending, Idle
  <2> QED BY <1>5, <1>12 DEF IInv, NothingPending, Pending
<1>17. SerialRefresh'
  <2> SUFFICES ASSUME NEW p \in Requests, p # r,
                      txn[p].op = "refresh", txn[p].user \in SerialUsers
               PROVE  /\ \A q \in Requests \ {p, r} : txn[q].op = "refresh" =>
                            family'[txn[q].stored] # family'[txn[p].stored]
                      /\ txn[p].step # "update" =>
                            \A t \in Tokens :
                                status'[t] \in Unrevoked /\ family'[t] = family'[txn[p].stored]
                                    => t \in txn[p].matched
    BY <1>1 DEF SerialRefresh, Idle
  <2>1. ASSUME NEW q \in Requests, q # r, txn[q].op = "refresh"
        PROVE  /\ txn[q].stored \in Tokens /\ status[txn[q].stored] # "absent"
               /\ family'[txn[q].stored] = family[txn[q].stored]
    BY <1>2, <1>5, <2>1 DEF IInv, TxnShape
  <2>2. \A q \in Requests \ {p} : txn[q].op = "refresh" =>
            family[txn[q].stored] # family[txn[p].stored]
    BY DEF IInv, SerialRefresh
  <2>3. x.fresh \in Tokens => root # family[txn[p].stored]
    <3>1. CASE x.op = "refresh"
      BY <2>2, <3>1 DEF x, root
    <3>2. CASE x.op = "login"
      BY <1>2, <2>1, <3>2 DEF IInv, RowsOK, root
    <3> QED BY <1>2, <3>1, <3>2
  <2>4. ASSUME NEW t \in Tokens, txn[p].step # "update", status'[t] \in Unrevoked,
               family'[t] = family'[txn[p].stored]
        PROVE  t \in txn[p].matched
    BY <1>5, <1>6, <2>1, <2>3, <2>4 DEF IInv, SerialRefresh
  <2> QED BY <2>1, <2>2, <2>4
<1>18. OneTokenPerSerialSession'
  <2>1. ASSUME NEW t \in Tokens, t # x.fresh, status'[t] \in Unrevoked,
               x.fresh \in Tokens, family[t] = root
        PROVE  x.user \notin SerialUsers
    <3>1. status[t] \in Unrevoked /\ t \notin x.locked
      BY <1>5, <2>1
    <3>2. CASE x.op = "login"
      BY <1>2, <2>1, <3>1, <3>2 DEF IInv, RowsOK, root, Unrevoked
    <3>3. CASE x.op = "refresh"
      <4>1. t \notin x.matched
        BY <1>2, <3>1 DEF IInv, NothingPending, Pending, x
      <4> QED BY <1>2, <2>1, <3>1, <3>3, <4>1 DEF IInv, SerialRefresh, x, root
    <3> QED BY <1>2, <2>1, <3>2, <3>3
  <2> SUFFICES ASSUME NEW s \in Tokens, NEW t \in Tokens, s # t,
                      owner'[s] \in SerialUsers, family'[s] = family'[t],
                      status'[s] \in Unrevoked, status'[t] \in Unrevoked
               PROVE  FALSE
    BY DEF OneTokenPerSerialSession
  <2>2. CASE s # x.fresh /\ t # x.fresh
    BY <1>5, <2>2 DEF IInv, OneTokenPerSerialSession
  <2>3. CASE s = x.fresh
    BY <1>5, <1>6, <2>1, <2>3
  <2>4. CASE t = x.fresh
    <3>1. status'[s] # "absent" /\ owner'[s] = owner'[family'[s]]
      BY <1>9 DEF RowsOK, Unrevoked
    <3>2. owner'[t] = owner'[family'[t]]
      BY <1>9 DEF RowsOK, Unrevoked
    <3> QED BY <1>5, <1>6, <2>1, <2>4, <3>1, <3>2
  <2> QED BY <2>2, <2>3, <2>4
<1> QED
  BY <1>8, <1>9, <1>11, <1>13, <1>14, <1>15, <1>16, <1>17, <1>18 DEF IInv

-----------------------------------------------------------------------------
\* The steps of the environment.

\* Rows expire and are swept; only rows nobody holds are swept.
LEMMA RowsAgeInv ==
    ASSUME IInv, UNCHANGED <<owner, family, deleted, txn, parent>>,
           status' \in [Tokens -> Status],
           \A t \in Tokens :
              \/ status'[t] = status[t]
              \/ status[t] = "active" /\ status'[t] = "expired"
              \/ /\ status[t] \in {"revoked", "expired"} /\ status'[t] = "deleted"
                 /\ Unlocked(t)
    PROVE  IInv'
<1>1. \A t \in Tokens : /\ status[t] = "absent" <=> status'[t] = "absent"
                        /\ status'[t] \in Unrevoked => status[t] \in Unrevoked
                        /\ status[t] \in {"revoked", "deleted"} => status'[t] \in {"revoked", "deleted"}
  BY DEF Unrevoked
<1>2. TypeOK' /\ RowsOK' /\ ParentsOK' /\ Exclusive' /\ OneTokenPerSerialSession'
  BY <1>1 DEF IInv, TypeOK, RowsOK, ParentsOK, Exclusive, OneTokenPerSerialSession
<1>3. ASSUME NEW q \in Requests PROVE TxnShape(q)'
  <2>1. \A t \in txn[q].locked : t \in Tokens /\ status'[t] \in Unrevoked
    BY DEF IInv, TxnShape, Unlocked, Unrevoked
  <2> TxnShape(q) /\ txn[q] \in Txn
    BY DEF IInv, TypeOK
  <2>2. txn[q].fresh # NoToken => status'[txn[q].fresh] = "absent"
    BY <1>1 DEF TxnShape, Txn
  <2>3. txn[q].matched \subseteq {t \in Tokens : status'[t] # "absent"}
    BY <1>1 DEF TxnShape
  <2> QED BY <1>1, <2>1, <2>2, <2>3 DEF TxnShape
<1>4. StoredMatched' /\ NothingPending' /\ SerialRefresh'
  <2>1. \A q \in Requests : txn[q].op = "refresh" => txn[q].stored \in Tokens
    BY DEF IInv, TxnShape
  <2>2. \A q \in Requests : txn[q].matched \subseteq Tokens
    BY DEF IInv, TypeOK, Txn
  <2> QED BY <1>1, <2>1, <2>2 DEF IInv, StoredMatched, NothingPending, Pending, SerialRefresh
<1> QED BY <1>2, <1>3, <1>4 DEF IInv

LEMMA DeleteAccountInv ==
    ASSUME IInv, UNCHANGED <<status, owner, family, txn, parent>>, deleted' \subseteq Users
    PROVE  IInv'
<1>1. TypeOK' /\ RowsOK' /\ ParentsOK' /\ Exclusive' /\ OneTokenPerSerialSession'
  BY DEF IInv, TypeOK, RowsOK, ParentsOK, Exclusive, OneTokenPerSerialSession
<1>2. \A q \in Requests : TxnShape(q)'
  BY DEF IInv, TxnShape
<1>3. StoredMatched' /\ NothingPending' /\ SerialRefresh'
  BY DEF IInv, StoredMatched, NothingPending, Pending, SerialRefresh
<1> QED BY <1>1, <1>2, <1>3 DEF IInv

-----------------------------------------------------------------------------
LEMMA InitInv == Init => IInv
<1> SUFFICES ASSUME Init PROVE IInv
  OBVIOUS
<1> USE ConstantsAssumption
<1>1. TypeOK
  BY IdleType DEF Init, TypeOK, Status
<1>2. RowsOK /\ ParentsOK /\ Exclusive /\ OneTokenPerSerialSession
  BY DEF Init, RowsOK, ParentsOK, Exclusive, OneTokenPerSerialSession, Idle, Unrevoked
<1>3. \A r \in Requests : TxnShape(r)
  BY DEF Init, TxnShape, Idle
<1>4. StoredMatched /\ NothingPending /\ SerialRefresh
  BY DEF Init, StoredMatched, NothingPending, SerialRefresh, Idle
<1> QED BY <1>1, <1>2, <1>3, <1>4 DEF IInv

LEMMA NextInv == IInv /\ [Next]_vars => IInv'
<1> SUFFICES ASSUME IInv, [Next]_vars PROVE IInv'
  OBVIOUS
<1> USE ConstantsAssumption
<1>1. ASSUME NEW r \in Requests, NEW u \in Users, Login(r, u) PROVE IInv'
  <2> DEFINE x == [Idle EXCEPT !.step = "insert", !.op = "login", !.user = u]
  <2>1. /\ x \in Txn /\ x.matched = {} /\ x.locked = {} /\ x.fresh = NoToken
        /\ x.op = "login" /\ x.step = "insert" /\ x.stored = NoToken /\ x.user = u
        /\ x.held = {} /\ x.left = {}
    BY DEF Idle, Txn, Step, Op
  <2>2. txn[r].step = "idle" /\ Enter(r, x) /\ UNCHANGED db
    BY <1>1 DEF Login
  <2> QED BY <2>1, <2>2, BeginInv
<1>2. ASSUME NEW r \in Requests, NEW u \in Users, Logout(r, u) PROVE IInv'
  <2> DEFINE x == [Idle EXCEPT !.step = "update", !.op = "logout", !.user = u]
  <2>1. /\ x \in Txn /\ x.matched = {} /\ x.locked = {} /\ x.fresh = NoToken
        /\ x.op = "logout" /\ x.step = "update" /\ x.stored = NoToken /\ x.user = u
        /\ x.held = {} /\ x.left = {}
    BY DEF Idle, Txn, Step, Op
  <2>2. txn[r].step = "idle" /\ Enter(r, x) /\ UNCHANGED db
    BY <1>2 DEF Logout
  <2> QED BY <2>1, <2>2, BeginInv
<1>10. ASSUME NEW r \in Requests, NEW B \in SUBSET Users, Erase(r, B) PROVE IInv'
  <2>1. PICK u \in B : Enter(r, [Idle EXCEPT !.step = "update", !.op = "erase", !.user = u,
                                            !.held = B, !.left = B \ {u}])
    BY <1>10 DEF Erase
  <2> DEFINE x == [Idle EXCEPT !.step = "update", !.op = "erase", !.user = u,
                               !.held = B, !.left = B \ {u}]
  <2>2. /\ x \in Txn /\ x.matched = {} /\ x.locked = {} /\ x.fresh = NoToken
        /\ x.op = "erase" /\ x.step = "update" /\ x.stored = NoToken /\ x.user \in Users
        /\ x.user \in x.held /\ x.left \subseteq x.held
    BY DEF Idle, Txn, Step, Op
  <2>3. txn[r].step = "idle" /\ Enter(r, x) /\ UNCHANGED db
    BY <1>10, <2>1 DEF Erase
  <2> QED BY <2>2, <2>3, BeginInv
<1>3. ASSUME NEW r \in Requests, NEW t \in Tokens, Refresh(r, t) \/ RefreshReused(r, t)
      PROVE  IInv'
  <2>1. PICK o \in {"refresh", "reuse"} :
            /\ txn[r].step = "idle" /\ UNCHANGED db /\ status[t] # "absent"
            /\ o = "refresh" => ClientMayRefresh(t)
            /\ Enter(r, [Idle EXCEPT !.step = "update", !.op = o,
                                     !.user = owner[t], !.stored = t])
    BY <1>3 DEF Refresh, RefreshReused
  <2> DEFINE x == [Idle EXCEPT !.step = "update", !.op = o, !.user = owner[t], !.stored = t]
  <2>2. /\ x \in Txn /\ x.matched = {} /\ x.locked = {} /\ x.fresh = NoToken
        /\ x.op = o /\ x.step = "update" /\ x.stored = t /\ x.user = owner[t]
        /\ x.held = {} /\ x.left = {}
    BY DEF Idle, Txn, Step, Op, IInv, TypeOK
  <2> HIDE DEF x
  <2> QED BY <2>1, <2>2, BeginInv DEF x
<1>4. ASSUME NEW r \in Requests, Progress(r) PROVE IInv'
  BY <1>4, UpdateStartInv, UpdateRowInv, UpdateEndInv, InsertInv, CommitInv DEF Progress
<1>5. ASSUME NEW r \in Requests, Abort(r) \/ DeadlockVictim(r) PROVE IInv'
  BY <1>5, RollbackInv DEF Abort, DeadlockVictim
<1>6. ASSUME NEW u \in Users, DeleteAccount(u) PROVE IInv'
  BY <1>6, DeleteAccountInv DEF DeleteAccount, IInv, TypeOK
<1>7. ASSUME NEW t \in Tokens, Expire(t) PROVE IInv'
  BY <1>7, RowsAgeInv DEF Expire, IInv, TypeOK, Status
<1>8. CASE Retention
  BY <1>8, RowsAgeInv DEF Retention, IInv, TypeOK, Status
<1>9. CASE UNCHANGED vars
  BY <1>9, RowsAgeInv DEF vars, IInv, TypeOK
<1> QED
  BY <1>1, <1>2, <1>3, <1>4, <1>5, <1>6, <1>7, <1>8, <1>9, <1>10 DEF Next

THEOREM Invariance == Spec => []IInv
BY InitInv, NextInv, PTL DEF Spec

-----------------------------------------------------------------------------
\* The variables stay well typed.
THEOREM TypeCorrect == Spec => []TypeOK
<1>1. IInv => TypeOK
  BY DEF IInv
<1> QED BY <1>1, Invariance, PTL

\* A committed refresh leaves the token it was given unusable.
THEOREM SupersededRevoked == Spec => []SupersededIsRevoked
<1>1. IInv => SupersededIsRevoked
  BY DEF IInv, ParentsOK, SupersededIsRevoked, Unrevoked
<1> QED BY <1>1, Invariance, PTL

\* A family never mixes the tokens of two users.
THEOREM FamilyHasOneUser == Spec => []OneUserPerFamily
<1>1. IInv => OneUserPerFamily
  BY DEF IInv, RowsOK, OneUserPerFamily
<1> QED BY <1>1, Invariance, PTL

\* Rotation keeps one live token per session, for clients that serialise
\* their refreshes.
THEOREM SerialSessionHasOneToken == Spec => []OneTokenPerSerialSession
<1>1. IInv => OneTokenPerSerialSession
  BY DEF IInv
<1> QED BY <1>1, Invariance, PTL

\* A commit revokes every token its UPDATE matched.
THEOREM RevocationIsComplete == Spec => CommitRevokesMatched
<1>1. ASSUME IInv, NEW r \in Requests, Commit(r), NEW t \in txn[r].matched
      PROVE  status'[t] \notin Unrevoked
  <2>1. txn[r].step = "commit" /\ t \in Tokens /\ status[t] # "absent"
    BY <1>1 DEF Commit, IInv, TxnShape
  <2>2. t \in txn[r].locked \/ status[t] \notin Unrevoked
    BY <1>1, <2>1 DEF IInv, NothingPending, Pending
  <2>3. t # txn[r].fresh
    BY <1>1, <2>1, ConstantsAssumption DEF IInv, TxnShape
  <2> QED BY <1>1, <2>1, <2>2, <2>3 DEF Commit, Unrevoked
<1>2. IInv /\ [Next]_vars =>
        [\A r \in Requests : Commit(r) =>
           \A t \in txn[r].matched : status'[t] \notin Unrevoked]_vars
  BY <1>1
<1> QED BY <1>2, Invariance, PTL DEF Spec, CommitRevokesMatched

\* No step makes a revoked or swept token usable again.
THEOREM RevokedForGood == Spec => RevocationIsFinal
<1>1. ASSUME IInv, Next, NEW t \in Tokens, status[t] \in {"revoked", "deleted"}
      PROVE  status'[t] \in {"revoked", "deleted"}
  <2>1. ASSUME NEW r \in Requests, Commit(r) PROVE status'[t] \in {"revoked", "deleted"}
    BY <1>1, <2>1, ConstantsAssumption DEF Commit, IInv, TxnShape, TypeOK, Txn
  <2>2. CASE UNCHANGED status
    BY <1>1, <2>2
  <2>3. CASE Retention \/ \E s \in Tokens : Expire(s)
    BY <1>1, <2>3 DEF Retention, Expire, IInv, TypeOK
  <2> QED
    BY <1>1, <2>1, <2>2, <2>3
    DEF Next, Progress, Login, Logout, Erase, Refresh, RefreshReused, UpdateStart, UpdateRow,
        UpdateEnd, Insert, Abort, DeadlockVictim, DeleteAccount, db
<1>2. IInv /\ [Next]_vars =>
        [\A t \in Tokens : status[t] \in {"revoked", "deleted"} =>
           status'[t] \in {"revoked", "deleted"}]_vars
  BY <1>1
<1> QED BY <1>2, Invariance, PTL DEF Spec, RevocationIsFinal
=============================================================================
