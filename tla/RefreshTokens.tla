--------------------------- MODULE RefreshTokens ---------------------------
(***************************************************************************)
(* Refresh-token rotation: AuthService.login, refresh and logout, the      *)
(* revocation made by the account-deletion job and the retention sweep, as *)
(* the SQL statements they send to a READ COMMITTED PostgreSQL.            *)
(*                                                                         *)
(* A service call is one transaction (withTransaction).  Between two of    *)
(* its statements every other transaction may run.  The only statement     *)
(* that is not one atomic step is UPDATE ... WHERE ... AND revoked_at IS   *)
(* NULL: it matches rows in the snapshot taken when it starts, then visits *)
(* them one by one, waiting for a row another transaction has updated and  *)
(* testing the WHERE clause again on the version it finds.                 *)
(*                                                                         *)
(* The deletion job revokes the tokens of one account after another in a   *)
(* single transaction.  Which accounts it claims is left to Accounts; here *)
(* it may be any that are deleted and not locked.                          *)
(*                                                                         *)
(* A token is named by its row.  A family is named by the token the login  *)
(* created it with, which stands for the fresh id of generateId().         *)
(***************************************************************************)
EXTENDS Naturals, FiniteSets

CONSTANTS
    Users,          \* accounts
    Tokens,         \* rows refresh_tokens will ever hold
    Requests,       \* transactions that can be open at the same time
    SerialUsers,    \* users whose client never has two refreshes in flight
    NoUser, NoToken

ASSUME ConstantsAssumption ==
    /\ SerialUsers \subseteq Users
    /\ NoUser \notin Users
    /\ NoToken \notin Tokens

VARIABLES
    \* The committed database.
    status,     \* of each row, see Status
    owner,      \* its user_id
    family,     \* its family_id
    deleted,    \* users with deleted_at set
    \* The open transactions.
    txn,
    \* History: the token a row was issued in exchange for.
    parent

db == <<status, owner, family, deleted, parent>>
vars == <<status, owner, family, deleted, txn, parent>>

\* A row is revoked when revoked_at is set; until then it is expired once
\* expires_at is in the past, and active before.
Status == {"absent", "active", "expired", "revoked", "deleted"}
Unrevoked == {"active", "expired"}
Step == {"idle", "update", "visiting", "insert", "commit"}
Op == {"none", "login", "refresh", "reuse", "logout", "erase"}

Txn == [step    : Step,
        op      : Op,
        user    : Users \cup {NoUser},      \* whom the call is about
        stored  : Tokens \cup {NoToken},    \* row read by findByTokenHash
        matched : SUBSET Tokens,            \* rows in the snapshots of its UPDATEs
        locked  : SUBSET Tokens,            \* rows they have updated, uncommitted
        fresh   : Tokens \cup {NoToken},    \* uncommitted row of the INSERT
        held    : SUBSET Users,             \* accounts the deletion job has claimed
        left    : SUBSET Users]             \* those of them it has yet to come to

Idle == [step |-> "idle", op |-> "none", user |-> NoUser, stored |-> NoToken,
         matched |-> {}, locked |-> {}, fresh |-> NoToken, held |-> {}, left |-> {}]

TypeOK ==
    /\ status \in [Tokens -> Status]
    /\ owner \in [Tokens -> Users \cup {NoUser}]
    /\ family \in [Tokens -> Tokens \cup {NoToken}]
    /\ deleted \subseteq Users
    /\ txn \in [Requests -> Txn]
    /\ parent \in [Tokens -> Tokens \cup {NoToken}]

Init ==
    /\ status = [t \in Tokens |-> "absent"]
    /\ owner = [t \in Tokens |-> NoUser]
    /\ family = [t \in Tokens |-> NoToken]
    /\ deleted = {}
    /\ txn = [r \in Requests |-> Idle]
    /\ parent = [t \in Tokens |-> NoToken]

-----------------------------------------------------------------------------
\* What the statements see.

\* Nobody else has an uncommitted update of row t.
Unlocked(t) == \A q \in Requests : t \notin txn[q].locked

\* Mutant: an id is free until its row is committed.
UnusedCommitted == {t \in Tokens : status[t] = "absent"}

\* Row ids nobody has used: generateId() never repeats one.
Unused == {t \in Tokens : /\ status[t] = "absent"
                          /\ \A q \in Requests : txn[q].fresh # t}

\* The bound of the model: a call that will insert starts only when a row id is
\* left for it.
RowLeft ==
    Cardinality({q \in Requests : txn[q].op \in {"login", "refresh"} /\ txn[q].fresh = NoToken})
        < Cardinality(Unused)

Refreshing(f) == \E q \in Requests : /\ txn[q].op = "refresh"
                                     /\ family[txn[q].stored] = f

\* A client that serialises its refreshes waits for the answer to the last one.
ClientMayRefresh(t) == owner[t] \in SerialUsers => ~Refreshing(family[t])

\* The rows a revocation is about: a family's, or all of a user's.
InScope(x, t) == IF x.op \in {"refresh", "reuse"}
                 THEN family[t] = family[x.stored]
                 ELSE owner[t] = x.user

\* The deletion job has the user's row.
Erasing(u) == \E q \in Requests : u \in txn[q].held

\* A token inserted and not committed holds the user's row, by its foreign key.
Inserting(u) == \E q \in Requests : txn[q].fresh # NoToken /\ txn[q].user = u

Enter(r, x) == txn' = [txn EXCEPT ![r] = x]
Rollback(r) == Enter(r, Idle)

-----------------------------------------------------------------------------
\* login: the user is found and not deleted, the password verified.
Login(r, u) ==
    /\ txn[r].step = "idle"
    /\ u \notin deleted
    /\ RowLeft
    /\ Enter(r, [Idle EXCEPT !.step = "insert", !.op = "login", !.user = u])
    /\ UNCHANGED db

\* refresh of a live token: it will revoke the family, then insert.  A token
\* that is unknown, deleted or expired is refused with nothing changed.
Refresh(r, t) ==
    /\ txn[r].step = "idle"
    /\ status[t] = "active"
    /\ ClientMayRefresh(t)
    /\ RowLeft
    /\ Enter(r, [Idle EXCEPT !.step = "update", !.op = "refresh",
                             !.user = owner[t], !.stored = t])
    /\ UNCHANGED db

\* refresh of a revoked token: reuse is detected.
RefreshReused(r, t) ==
    /\ txn[r].step = "idle"
    /\ status[t] = "revoked"
    /\ Enter(r, [Idle EXCEPT !.step = "update", !.op = "reuse",
                             !.user = owner[t], !.stored = t])
    /\ UNCHANGED db

Logout(r, u) ==
    /\ txn[r].step = "idle"
    /\ Enter(r, [Idle EXCEPT !.step = "update", !.op = "logout", !.user = u])
    /\ UNCHANGED db

\* The deletion job claims deleted users FOR UPDATE SKIP LOCKED, and takes them
\* one by one.
Erase(r, B) ==
    /\ txn[r].step = "idle"
    /\ B \subseteq deleted
    /\ \A u \in B : ~Erasing(u) /\ ~Inserting(u)
    /\ \E u \in B : Enter(r, [Idle EXCEPT !.step = "update", !.op = "erase", !.user = u,
                                          !.held = B, !.left = B \ {u}])
    /\ UNCHANGED db

\* Mutant: the revocation leaves out tokens that expired.
UpdateStartUnexpired(r) ==
    LET x == txn[r]
    IN  /\ x.step = "update"
        /\ Enter(r, [x EXCEPT !.step = "visiting",
                              !.matched = @ \cup {t \in Tokens : /\ status[t] = "active"
                                                                 /\ InScope(x, t)}])
        /\ UNCHANGED db

\* revokeFamily, revokeAllForUser: the statement's snapshot.
UpdateStart(r) ==
    LET x == txn[r]
    IN  /\ x.step = "update"
        /\ Enter(r, [x EXCEPT !.step = "visiting",
                              !.matched = @ \cup {t \in Tokens : /\ status[t] \in Unrevoked
                                                                 /\ InScope(x, t)}])
        /\ UNCHANGED db

\* Rows the UPDATE still has to update.  A row that was revoked or deleted
\* since the snapshot no longer satisfies the WHERE clause.
Pending(x) == {t \in x.matched \ x.locked : status[t] \in Unrevoked}

UpdateRow(r, t) ==
    /\ txn[r].step = "visiting"
    /\ t \in Pending(txn[r])
    /\ Unlocked(t)
    /\ Enter(r, [txn[r] EXCEPT !.locked = @ \cup {t}])
    /\ UNCHANGED db

\* What an UPDATE is followed by: the INSERT of a refresh, the next account of the
\* deletion job, the COMMIT, or the AuthError of a reuse.
AfterUpdate(r) ==
    LET x == txn[r]
    IN  \/ x.op = "refresh" /\ Enter(r, [x EXCEPT !.step = "insert"])
        \/ \E u \in x.left : Enter(r, [x EXCEPT !.step = "update", !.user = u, !.left = @ \ {u}])
        \/ x.op \in {"logout", "erase"} /\ x.left = {} /\ Enter(r, [x EXCEPT !.step = "commit"])
        \/ x.op = "reuse" /\ Rollback(r)

\* Mutant: rows held by others are skipped.
UpdateEndSkipLocked(r) ==
    /\ txn[r].step = "visiting"
    /\ \A t \in Pending(txn[r]) : ~Unlocked(t)
    /\ AfterUpdate(r)
    /\ UNCHANGED db

\* The UPDATE returns.
UpdateEnd(r) ==
    /\ txn[r].step = "visiting"
    /\ Pending(txn[r]) = {}
    /\ AfterUpdate(r)
    /\ UNCHANGED db

\* The foreign key to users waits for the deletion job's lock.
Insert(r, t) ==
    /\ txn[r].step = "insert"
    /\ ~Erasing(txn[r].user)
    /\ t \in Unused
    /\ Enter(r, [txn[r] EXCEPT !.step = "commit", !.fresh = t])
    /\ UNCHANGED db

\* Mutant: the INSERT's columns are swapped.
CommitSwapped(r) ==
    LET x == txn[r]
        put(f, v) == [t \in Tokens |-> IF t = x.fresh THEN v ELSE f[t]]
    IN  /\ x.step = "commit"
        /\ status' = put(status, "active")
        /\ owner' = put(owner, x.fresh)
        /\ family' = put(family, x.user)
        /\ Rollback(r)
        /\ UNCHANGED <<deleted, parent>>

Commit(r) ==
    LET x == txn[r]
        put(f, v) == [t \in Tokens |-> IF t = x.fresh THEN v ELSE f[t]]
    IN  /\ x.step = "commit"
        /\ status' = [t \in Tokens |-> IF t \in x.locked THEN "revoked"
                                       ELSE IF t = x.fresh THEN "active"
                                       ELSE status[t]]
        /\ owner' = put(owner, x.user)
        /\ family' = put(family, IF x.op = "login" THEN x.fresh ELSE family[x.stored])
        /\ parent' = put(parent, x.stored)
        /\ Rollback(r)      \* the connection is released
        /\ UNCHANGED deleted

\* Mutant: the statements are undone by hand, from what the UPDATE had matched.
AbortCompensates(r) ==
    /\ txn[r].step # "idle"
    /\ status' = [t \in Tokens |-> IF t \in txn[r].matched THEN "active" ELSE status[t]]
    /\ Rollback(r)
    /\ UNCHANGED <<owner, family, deleted, parent>>

\* Any statement may fail (connection lost, statement timeout, deadlock victim).
Abort(r) ==
    /\ txn[r].step # "idle"
    /\ Rollback(r)
    /\ UNCHANGED db

-----------------------------------------------------------------------------
\* A call that can only go on when one of S has ended.
WaitsFor(q, S) ==
    \/ /\ txn[q].step = "visiting"
       /\ Pending(txn[q]) # {}
       /\ \A t \in Pending(txn[q]) : \E p \in S : t \in txn[p].locked
    \/ /\ txn[q].step = "insert"
       /\ \E p \in S : txn[q].user \in txn[p].held

\* PostgreSQL's deadlock detector aborts one of a set of transactions that
\* wait for each other.
Deadlocked(r) == \E S \in SUBSET Requests : r \in S /\ \A q \in S : WaitsFor(q, S)

DeadlockVictim(r) ==
    /\ Deadlocked(r)
    /\ Rollback(r)
    /\ UNCHANGED db

-----------------------------------------------------------------------------
\* The account is marked deleted (no route of the API does it yet).
DeleteAccount(u) ==
    /\ u \notin deleted
    /\ deleted' = deleted \cup {u}
    /\ UNCHANGED <<status, owner, family, txn, parent>>

\* expires_at passes.  Only an unrevoked token is affected: refresh looks at
\* revoked_at first, and both make a row old enough to be swept one day.
Expire(t) ==
    /\ status[t] = "active"
    /\ status' = [status EXCEPT ![t] = "expired"]
    /\ UNCHANGED <<owner, family, deleted, txn, parent>>

\* deleteExpired in the retention job, a transaction of one statement.  The
\* thirty days are abstracted: any revoked or expired rows may be old enough.
Retention ==
    \E rows \in SUBSET {t \in Tokens : status[t] \in {"revoked", "expired"}} \ {{}} :
        /\ \A t \in rows : Unlocked(t)
        /\ status' = [t \in Tokens |-> IF t \in rows THEN "deleted" ELSE status[t]]
        /\ UNCHANGED <<owner, family, deleted, txn, parent>>

-----------------------------------------------------------------------------
Progress(r) ==
    \/ UpdateStart(r)
    \/ \E t \in Tokens : UpdateRow(r, t)
    \/ UpdateEnd(r)
    \/ \E t \in Tokens : Insert(r, t)
    \/ Commit(r)

Next ==
    \/ \E r \in Requests, u \in Users : Login(r, u) \/ Logout(r, u)
    \/ \E r \in Requests, B \in SUBSET Users : Erase(r, B)
    \/ \E r \in Requests, t \in Tokens : Refresh(r, t) \/ RefreshReused(r, t)
    \/ \E r \in Requests : Progress(r) \/ Abort(r) \/ DeadlockVictim(r)
    \/ \E u \in Users : DeleteAccount(u)
    \/ \E t \in Tokens : Expire(t)
    \/ Retention

Spec == Init /\ [][Next]_vars

-----------------------------------------------------------------------------
\* A refresh supersedes the token it was given: once the new token is
\* committed the old one is not usable, however refreshes, logouts, failures
\* and the retention sweep interleaved.
SupersededIsRevoked ==
    \A t \in Tokens :
        parent[t] # NoToken => status[parent[t]] \notin Unrevoked

\* A session (a family and the refreshes on it) belongs to one user, so a
\* refresh never hands out another user's token.
OneUserPerFamily ==
    \A s, t \in Tokens :
        /\ family[s] = family[t]
        /\ family[s] # NoToken
        => owner[s] = owner[t]

\* If a user's client waits for the answer of a refresh before it sends the
\* next one, each of the user's sessions has at most one unrevoked token.
OneTokenPerSerialSession ==
    \A s, t \in Tokens :
        /\ owner[s] \in SerialUsers
        /\ family[s] = family[t]
        /\ {status[s], status[t]} \subseteq Unrevoked
        => s = t

\* When a refresh, a logout or an erasure commits, every token its UPDATEs saw
\* is revoked (or already swept): waiting for the rows of others skips none.
CommitRevokesMatched ==
    [][\A r \in Requests : Commit(r) =>
          \A t \in txn[r].matched : status'[t] \notin Unrevoked]_vars

\* No call brings a revoked token back, in particular no rollback or late
\* commit of a transaction that had read it unrevoked.
RevocationIsFinal ==
    [][\A t \in Tokens : status[t] \in {"revoked", "deleted"} =>
          status'[t] \in {"revoked", "deleted"}]_vars

-----------------------------------------------------------------------------
\* What the documentation promises and the code does not do.

\* "Family revocation: quickly revoke all tokens in a family on reuse detection"
\* (migrations/004_refresh_tokens.sql:28): when the reuse call answers, no token
\* of the family is usable.
ReuseRevokesFamily ==
    [][\A r \in Requests : UpdateEnd(r) /\ txn[r].op = "reuse" =>
          \A t \in Tokens : family[t] = family[txn[r].stored] =>
              status'[t] \notin Unrevoked]_vars
=============================================================================
