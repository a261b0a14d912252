------------------------------ MODULE Accounts ------------------------------
(***************************************************************************)
(* Accounts over their sessions: AuthService.register with its invite and  *)
(* its username, login, refresh and logout as RefreshTokens has them, and  *)
(* the deletion job, all in one PostgreSQL.                                *)
(*                                                                         *)
(* register is one transaction.  It reads the username and the invite      *)
(* without a lock, increments the invite's counter, inserts the user and   *)
(* ends with the statements a login ends with: from there on it is a       *)
(* transaction of RefreshTokens, and they commit together.                 *)
(*                                                                         *)
(* A run of the deletion job is one transaction too, over as many of the   *)
(* accounts that match as its LIMIT lets it have.                          *)
(*                                                                         *)
(* USER_REGISTERED and USER_DELETED go to the outbox with these COMMITs;   *)
(* nothing here reads them again, and OutboxPublisher has their way.  An   *)
(* invite that has expired is one nobody registers with any more.  The     *)
(* retention sweep, which takes only tokens that are of no use, is left to *)
(* RefreshTokens.                                                          *)
(***************************************************************************)
EXTENDS Naturals, FiniteSets

CONSTANTS
    Users, Tokens, Requests, SerialUsers, NoUser, NoToken,   \* RefreshTokens
    Invites,        \* rows of invite_codes
    Names,          \* usernames that are well-formed and not reserved
    Anonymous,      \* the username "deleted_<id>"
    LikeDeleted,    \* usernames LIKE 'deleted_%'
    MaxUses,        \* max_uses of every invite
    DeletionLimit,  \* the LIMIT of the deletion job
    MaxFaults,      \* the bound on statements that fail and jobs that are deadlock victims
    NoInvite, NoName

ASSUME ConstantsAssumption ==
    /\ SerialUsers \subseteq Users /\ NoUser \notin Users /\ NoToken \notin Tokens
    /\ NoInvite \notin Invites /\ NoName \notin Names \cup {Anonymous}
    /\ Anonymous \in LikeDeleted
    /\ IsFiniteSet(Requests) /\ Requests # {} /\ IsFiniteSet(Users) /\ IsFiniteSet(Tokens)
    /\ MaxUses \in Nat \ {0} /\ DeletionLimit \in Nat \ {0} /\ MaxFaults \in Nat

VARIABLES
    status, owner, family, deleted, txn, parent,     \* RefreshTokens
    \* The committed rows: of users, and of invite_codes.
    username, uses,
    \* Registrations that have yet to reach, or are in, their session part.
    reg,
    \* Failures so far.
    faults,
    \* History: the invite a user registered with; the most registrations with an
    \* invite that were open at a time.
    invitedBy, crowd

Sessions == INSTANCE RefreshTokens

sessions == <<status, owner, family, deleted, txn, parent>>
rows == <<username, uses, invitedBy, crowd>>
vars == <<sessions, rows, reg, faults>>

Reg == [step : {"none", "increment", "insert", "session"},
        user : Users \cup {NoUser},
        name : Names \cup {NoName},
        invite : Invites \cup {NoInvite}]

NotRegistering == [step |-> "none", user |-> NoUser, name |-> NoName, invite |-> NoInvite]

TypeOK ==
    /\ Sessions!TypeOK
    /\ username \in [Users -> Names \cup {NoName, Anonymous}]
    /\ uses \in [Invites -> Nat]
    /\ reg \in [Requests -> Reg]
    /\ faults \in Nat
    /\ invitedBy \in [Users -> Invites \cup {NoInvite}]
    /\ crowd \in [Invites -> Nat]

Init ==
    /\ Sessions!Init
    /\ username = [u \in Users |-> NoName]
    /\ uses = [i \in Invites |-> 0]
    /\ reg = [r \in Requests |-> NotRegistering]
    /\ faults = 0
    /\ invitedBy = [u \in Users |-> NoInvite]
    /\ crowd = [i \in Invites |-> 0]

-----------------------------------------------------------------------------
Exists(u) == username[u] # NoName

\* idx_users_username_active: the committed users that are not deleted.
Taken(n) == \E u \in Users : username[u] = n /\ u \notin deleted

\* A connection of the pool nobody uses.
Free(r) == txn[r].step = "idle" /\ reg[r].step = "none"

\* Rows of invite_codes and index entries of users that r has written and not
\* committed.
HoldsInvite(r, i) == reg[r].step \in {"insert", "session"} /\ reg[r].invite = i
HoldsName(r, n) == reg[r].step = "session" /\ reg[r].name = n

\* The bound of the model: a call starts only when a token row is left for it.
WillInsert(r) == \/ reg[r].step \in {"increment", "insert"}
                 \/ txn[r].op \in {"login", "refresh"} /\ txn[r].fresh = NoToken
RowLeft == Cardinality({r \in Requests : WillInsert(r)}) < Cardinality(Sessions!Unused)

-----------------------------------------------------------------------------
\* Mutant: one use too many.
InviteIsValidAtLimit(i) == uses[i] <= MaxUses

\* findByCodeHash and the check of use_count: no lock, committed rows only.
InviteIsValid(i) == uses[i] < MaxUses

\* Registrations with an invite that are open.
Joining(i) == {r \in Requests : reg[r].step # "none" /\ reg[r].invite = i}
Grown(i) == IF Cardinality(Joining(i)) < crowd[i] THEN crowd[i] ELSE Cardinality(Joining(i)) + 1

\* register reads: the username is free, the invite is valid.
Register(r, u, n, i) ==
    /\ Free(r)
    /\ ~Exists(u)
    /\ \A q \in Requests : reg[q].user # u
    /\ ~Taken(n)
    /\ InviteIsValid(i)
    /\ RowLeft
    /\ reg' = [reg EXCEPT ![r] = [step |-> "increment", user |-> u, name |-> n, invite |-> i]]
    /\ crowd' = [crowd EXCEPT ![i] = Grown(i)]
    /\ UNCHANGED <<sessions, username, uses, invitedBy, faults>>

\* incrementUseCount waits for the row, then adds to what it finds.
IncrementUseCount(r) ==
    /\ reg[r].step = "increment"
    /\ \A q \in Requests \ {r} : ~HoldsInvite(q, reg[r].invite)
    /\ reg' = [reg EXCEPT ![r].step = "insert"]
    /\ UNCHANGED <<sessions, rows, faults>>

\* Mutant: the table has no unique index.
MayInsert(n) == TRUE

\* The unique index: an entry somebody has yet to commit is waited for.
Unique(n) == ~Taken(n) /\ \A q \in Requests : ~HoldsName(q, n)

\* userRepo.create; what is left is what login does after its checks.
CreateUser(r) ==
    /\ reg[r].step = "insert"
    /\ Unique(reg[r].name)
    /\ reg' = [reg EXCEPT ![r].step = "session"]
    /\ Sessions!Enter(r, [Sessions!Idle EXCEPT !.step = "insert", !.op = "login",
                                               !.user = reg[r].user])
    /\ UNCHANGED <<status, owner, family, deleted, parent, rows, faults>>

\* The index has the name by now: the INSERT throws, the rest is undone.
CreateUserRefused(r) ==
    /\ reg[r].step = "insert"
    /\ Taken(reg[r].name)
    /\ reg' = [reg EXCEPT ![r] = NotRegistering]
    /\ UNCHANGED <<sessions, rows, faults>>

-----------------------------------------------------------------------------
\* Calls about an account that exists.
Login(r, u) ==
    /\ Free(r) /\ Exists(u) /\ RowLeft
    /\ Sessions!Login(r, u)
    /\ UNCHANGED <<rows, reg, faults>>

Logout(r, u) ==
    /\ Free(r) /\ Exists(u)
    /\ Sessions!Logout(r, u)
    /\ UNCHANGED <<rows, reg, faults>>

Refresh(r, t) ==
    /\ Free(r)
    /\ \/ RowLeft /\ Sessions!Refresh(r, t)
       \/ Sessions!RefreshReused(r, t)
    /\ UNCHANGED <<rows, reg, faults>>

\* The job's WHERE clause: deleted, and not anonymised.
Matching == {u \in deleted : username[u] \notin LikeDeleted}

\* SKIP LOCKED.
Claimable == {u \in Matching : ~Sessions!Erasing(u) /\ ~Sessions!Inserting(u)}

\* LIMIT without ORDER BY: when there are more, any of them.
Claim(r, B) ==
    /\ Free(r)
    /\ B \subseteq Claimable
    /\ Cardinality(B) <= DeletionLimit
    /\ B = Claimable \/ Cardinality(B) = DeletionLimit
    /\ Sessions!Erase(r, B)
    /\ UNCHANGED <<rows, reg, faults>>

\* Mutant: without AND deleted_at IS NULL.
SoftDeleteAlways(B) == [u \in Users |-> IF u \in B THEN Anonymous ELSE username[u]]

\* softDelete: UPDATE users ... WHERE id = $1 AND deleted_at IS NULL.
SoftDelete(B) == [u \in Users |-> IF u \in B \ deleted THEN Anonymous ELSE username[u]]

\* The statements between a call's first and its COMMIT.
Statement(r) ==
    /\ \/ Sessions!UpdateStart(r)
       \/ \E t \in Tokens : Sessions!UpdateRow(r, t)
       \/ Sessions!UpdateEnd(r)
       \/ \E t \in Tokens : Sessions!Insert(r, t)
    /\ UNCHANGED <<rows, reg, faults>>

\* COMMIT of a registration, with its user, its use of the invite and its tokens.
CommitRegistration(r) ==
    LET x == reg[r]
    IN  /\ x.step = "session"
        /\ Sessions!Commit(r)
        /\ username' = [username EXCEPT ![x.user] = x.name]
        /\ uses' = [uses EXCEPT ![x.invite] = @ + 1]
        /\ invitedBy' = [invitedBy EXCEPT ![x.user] = x.invite]
        /\ reg' = [reg EXCEPT ![r] = NotRegistering]
        /\ UNCHANGED <<crowd, faults>>

\* COMMIT of the deletion job, for all it has claimed.
CommitErasure(r) ==
    /\ txn[r].op = "erase"
    /\ Sessions!Commit(r)
    /\ username' = SoftDelete(txn[r].held)
    /\ UNCHANGED <<uses, invitedBy, crowd, reg, faults>>

CommitCall(r) ==
    /\ reg[r].step = "none" /\ txn[r].op # "erase"
    /\ Sessions!Commit(r)
    /\ UNCHANGED <<rows, reg, faults>>

\* Mutant: the name stays in the index of a transaction that is gone.
AbortKeepsName(r) ==
    /\ ~Free(r) /\ faults < MaxFaults
    /\ faults' = faults + 1
    /\ txn' = [txn EXCEPT ![r] = Sessions!Idle]
    /\ reg' = [reg EXCEPT ![r].step = IF @ = "session" THEN @ ELSE "none"]
    /\ UNCHANGED <<status, owner, family, deleted, parent, rows>>

\* A statement fails: ROLLBACK.
Abort(r) ==
    /\ ~Free(r) /\ faults < MaxFaults
    /\ faults' = faults + 1
    /\ txn' = [txn EXCEPT ![r] = Sessions!Idle]
    /\ reg' = [reg EXCEPT ![r] = NotRegistering]
    /\ UNCHANGED <<status, owner, family, deleted, parent, rows>>

\* PostgreSQL breaks up transactions that wait for each other.  It may pick the
\* deletion job, which is a failure, or else another: no circle is all jobs.
\* A registration waits only for one that waits for nothing.
DeadlockVictim(r) ==
    /\ Sessions!DeadlockVictim(r)
    /\ faults' = IF txn[r].op = "erase" THEN faults + 1 ELSE faults
    /\ faults' <= MaxFaults
    /\ UNCHANGED <<rows, reg>>

-----------------------------------------------------------------------------
\* deleted_at is set; the clock goes on.
DeleteAccount(u) == Exists(u) /\ Sessions!DeleteAccount(u) /\ UNCHANGED <<rows, reg, faults>>

Expire(t) == Sessions!Expire(t) /\ UNCHANGED <<rows, reg, faults>>

\* The next statement of an open transaction.
Progress(r) ==
    \/ IncrementUseCount(r) \/ CreateUser(r) \/ CreateUserRefused(r)
    \/ Statement(r)
    \/ CommitRegistration(r) \/ CommitErasure(r) \/ CommitCall(r)

Next ==
    \/ \E r \in Requests, u \in Users, n \in Names, i \in Invites : Register(r, u, n, i)
    \/ \E r \in Requests, u \in Users : Login(r, u) \/ Logout(r, u)
    \/ \E r \in Requests, B \in SUBSET Users : Claim(r, B)
    \/ \E r \in Requests, t \in Tokens : Refresh(r, t)
    \/ \E r \in Requests : Progress(r) \/ Abort(r) \/ DeadlockVictim(r)
    \/ \E u \in Users : DeleteAccount(u)
    \/ \E t \in Tokens : Expire(t)

Spec == Init /\ [][Next]_vars

(***************************************************************************)
(* The event loop runs an open transaction on, and PostgreSQL queues those *)
(* who wait for a row: a statement that can go on again and again does.    *)
(* The worker runs the deletion job every minute.  Which accounts a run    *)
(* claims is nobody's choice but PostgreSQL's: those that match and are    *)
(* free, or any DeletionLimit of them.  Clients and the clock owe nothing. *)
(***************************************************************************)
Fairness ==
    /\ \A r \in Requests : SF_vars(Progress(r)) /\ WF_vars(DeadlockVictim(r))
    /\ SF_vars(\E r \in Requests, B \in SUBSET Users : Claim(r, B))

FairSpec == Spec /\ Fairness

-----------------------------------------------------------------------------
\* use_count is read long before it is incremented and the increment checks
\* nothing, so more users than max_uses may register with an invite: but only as
\* many more as were registering with it while another was, and its counter
\* counts every one.
InviteUseIsBounded ==
    \A i \in Invites :
        LET joined == Cardinality({u \in Users : invitedBy[u] = i})
        IN  uses[i] = joined /\ joined <= MaxUses - 1 + crowd[i]

\* Two accounts that are not deleted never have the same username, though
\* register checks the name long before it inserts it.
UsernamesAreUnique ==
    \A u, v \in Users \ deleted : Exists(u) /\ username[u] = username[v] => u = v

\* No call waits for ever: neither for a row of an invite, nor for a name a
\* registration has inserted, nor for tokens.
CallsReturn == \A r \in Requests : ~Free(r) ~> Free(r)

\* A deleted account is signed out for good in the end, whatever logins and
\* refreshes were open when it was deleted or while the job revoked its tokens or
\* those of others in its batch.  It takes that the job finds the account again, run
\* after run: as no account ever stops matching, that there are no more of them than
\* the LIMIT has room for.
DeletedIsSignedOut ==
    [](Cardinality(Matching) <= DeletionLimit) =>
        \A u \in Users :
            u \in Matching
                ~> [](\A t \in Tokens : owner[t] = u => status[t] \notin Sessions!Unrevoked)

-----------------------------------------------------------------------------
\* What the documentation promises and the code does not do.

\* "The deletion worker job processes users with `deleted_at IS NOT NULL` and
\* non-anonymized username", "`username -> deleted_<id>`"
\* (docs/compliance.md:34,36): such an account ends up anonymised.
DeletedIsAnonymised ==
    \A u \in Users : u \in deleted ~> username[u] = Anonymous
=============================================================================
