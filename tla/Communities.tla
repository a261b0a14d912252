---------------------------- MODULE Communities ----------------------------
(***************************************************************************)
(* Servers, their members, invites and channels: ServerService and         *)
(* ChannelService over READ COMMITTED PostgreSQL.                          *)
(*                                                                         *)
(* A call reads and checks rows, takes no lock on them, and writes later   *)
(* in the same transaction; in between any other transaction may commit.   *)
(* What it writes nobody sees before the COMMIT, its outbox event included.*)
(* A join and a leave may write nothing, and then lock no member row, so   *)
(* they have a step for the write and one for the COMMIT.  Of the others   *)
(* the first write locks a row that decides their outcome, or finds a row  *)
(* that is deleted and stays so: from there to COMMIT they are one step.   *)
(* Reads in a row are one step where all a commit between them can do is   *)
(* make a check stale, as one before the write does.                       *)
(* A refusal is an Abort, as is a violation of a unique index.             *)
(*                                                                         *)
(* Nothing makes a member an ADMIN, so the roles are OWNER and MEMBER.     *)
(***************************************************************************)
EXTENDS Naturals, FiniteSets

CONSTANTS
    Users, Servers, Channels, Invites,      \* Rows there will ever be
    Names, General,                         \* channel names; "general"
    Requests,       \* transactions that can be open at the same time
    MaxUses,        \* max_uses of every invite
    MaxChannels,    \* MAX_CHANNELS_PER_SERVER
    NoUser, NoServer, NoChannel, NoInvite, NoName

ASSUME ConstantsAssumption ==
    /\ General \in Names
    /\ NoUser \notin Users /\ NoServer \notin Servers /\ NoChannel \notin Channels
    /\ NoInvite \notin Invites /\ NoName \notin Names
    /\ IsFiniteSet(Requests) /\ Requests # {} /\ IsFiniteSet(Channels)
    /\ MaxUses \in Nat \ {0} /\ MaxChannels \in Nat \ {0}

VARIABLES
    \* The committed database.
    server,         \* of each server: "none", "live" or "deleted"
    ownerId,        \* its owner_id
    role,           \* role[s][u] in members, "none" without a row
    home, uses,     \* server_id and uses of an invite
    channel,        \* rows of channels
    \* The open transactions.
    txn,
    \* History: members and channel names a client knows from the events, in
    \* the order of the commits; servers where a member was leaving while the
    \* owner was replaced; members whose row was inserted or deleted before a
    \* call that had found nothing to write was committed.
    knownMembers, knownName,
    disputed, contested

db == <<server, ownerId, role, home, uses, channel>>
known == <<knownMembers, knownName>>
vars == <<db, txn, known, disputed, contested>>

Op == {"none", "join", "joinWrite", "joinCommit", "leave", "leaveCommit", "delete",
       "transfer", "invite", "create", "createWrite", "rename", "remove"}

Txn == [op : Op, user : Users \cup {NoUser}, server : Servers \cup {NoServer},
        invite : Invites \cup {NoInvite}, channel : Channels \cup {NoChannel},
        name : Names \cup {NoName},
        wrote : BOOLEAN]        \* it inserted or deleted the member row

Idle == [op |-> "none", user |-> NoUser, server |-> NoServer, invite |-> NoInvite,
         channel |-> NoChannel, name |-> NoName, wrote |-> FALSE]

Row == [status : {"none", "live", "deleted"}, server : Servers \cup {NoServer},
        name : Names \cup {NoName}]

TypeOK ==
    /\ server \in [Servers -> {"none", "live", "deleted"}]
    /\ ownerId \in [Servers -> Users \cup {NoUser}]
    /\ role \in [Servers -> [Users -> {"none", "MEMBER", "OWNER"}]]
    /\ home \in [Invites -> Servers \cup {NoServer}]
    /\ uses \in [Invites -> Nat]
    /\ channel \in [Channels -> Row]
    /\ txn \in [Requests -> Txn]
    /\ knownMembers \in [Servers -> SUBSET Users]
    /\ knownName \in [Channels -> Names \cup {NoName}]
    /\ disputed \subseteq Servers
    /\ contested \subseteq Servers \X Users

Init ==
    /\ server = [s \in Servers |-> "none"]
    /\ ownerId = [s \in Servers |-> NoUser]
    /\ role = [s \in Servers |-> [u \in Users |-> "none"]]
    /\ home = [i \in Invites |-> NoServer]
    /\ uses = [i \in Invites |-> 0]
    /\ channel = [c \in Channels |-> [status |-> "none", server |-> NoServer, name |-> NoName]]
    /\ txn = [r \in Requests |-> Idle]
    /\ knownMembers = [s \in Servers |-> {}]
    /\ knownName = [c \in Channels |-> NoName]
    /\ disputed = {}
    /\ contested = {}

-----------------------------------------------------------------------------
Members(s) == {u \in Users : role[s][u] # "none"}
LiveChannels(s) == {c \in Channels : channel[c].status = "live" /\ channel[c].server = s}

\* No other live channel of the server has the name.
NameIsFree(s, n, c) == \A d \in LiveChannels(s) \ {c} : channel[d].name # n

\* permissions.ts: who manages channels and the server.
MayManage(u, s) == role[s][u] = "OWNER"

Begin(r, x) ==
    /\ txn[r].op = "none"
    /\ txn' = [txn EXCEPT ![r] = x]

Goto(r, op) == txn' = [txn EXCEPT ![r].op = op]
End(r) == txn' = [txn EXCEPT ![r] = Idle]

\* A read, which changes nothing but the transaction's own state.
ReadOnly == UNCHANGED <<db, known, disputed, contested>>

Leaving(s) == \E q \in Requests : txn[q].op \in {"leave", "leaveCommit"} /\ txn[q].server = s
Transferring(s) == \E q \in Requests : txn[q].op = "transfer" /\ txn[q].server = s

\* The transactions between the write and the COMMIT of a join, or leave.
Inserting(s, u) == {q \in Requests : /\ txn[q].op = "joinCommit"
                                     /\ txn[q].server = s /\ txn[q].user = u}
Deleting(s, u) == {q \in Requests : /\ txn[q].op = "leaveCommit"
                                    /\ txn[q].server = s /\ txn[q].user = u}

\* Of these, one that wrote holds the lock of the row.
Wrote(Q) == \E q \in Q : txn[q].wrote

\* The COMMIT of a join or leave settles what there is to know of a member,
\* unless another call has found nothing to write and has yet to be committed.
Settle(r, s, u) ==
    contested' = IF ~txn[r].wrote THEN contested
                 ELSE IF \E q \in Inserting(s, u) \cup Deleting(s, u) : ~txn[q].wrote
                      THEN contested \cup {<<s, u>>}
                      ELSE contested \ {<<s, u>>}

\* What clients make of the events.
TellJoin(s, u) == knownMembers' = [knownMembers EXCEPT ![s] = @ \cup {u}]
TellLeave(s, u) == knownMembers' = [knownMembers EXCEPT ![s] = @ \ {u}]
TellName(c, n) == knownName' = [knownName EXCEPT ![c] = n]

-----------------------------------------------------------------------------
\* ServerService.

\* createServer: the server, its owner, the channel #general and two events.
\* Nobody sees these rows before the COMMIT, so no other call interferes.
CreateServer(s, u, c) ==
    /\ server[s] = "none"
    /\ channel[c].status = "none"
    /\ server' = [server EXCEPT ![s] = "live"]
    /\ ownerId' = [ownerId EXCEPT ![s] = u]
    /\ role' = [role EXCEPT ![s][u] = "OWNER"]
    /\ channel' = [channel EXCEPT ![c] = [status |-> "live", server |-> s, name |-> General]]
    /\ TellJoin(s, u)
    /\ TellName(c, General)
    /\ UNCHANGED <<home, uses, txn, disputed, contested>>

\* Mutant: off by one.
MayUseOnce(i) == home[i] # NoServer /\ uses[i] <= MaxUses

\* An invite that may be used.  One that is expired is one nobody uses.
MayUse(i) == home[i] # NoServer /\ uses[i] < MaxUses

\* joinServer reads the invite ...
JoinRead(r, u, i) ==
    /\ MayUse(i)
    /\ Begin(r, [Idle EXCEPT !.op = "join", !.user = u, !.invite = i, !.server = home[i]])
    /\ ReadOnly

\* ... then the server and the membership ...
JoinCheck(r) ==
    /\ txn[r].op = "join"
    /\ server[txn[r].server] = "live"
    /\ role[txn[r].server][txn[r].user] = "none"
    /\ Goto(r, "joinWrite")
    /\ ReadOnly

\* ... and counts the use and inserts the member ON CONFLICT DO NOTHING.  The
\* rows of the invite and of the member may be locked by others; a member row
\* that is there and not locked is left alone and not locked either ...
JoinWrite(r) ==
    LET s == txn[r].server
        u == txn[r].user
    IN  /\ txn[r].op = "joinWrite"
        /\ \A q \in Requests : txn[q].op = "joinCommit" => txn[q].invite # txn[r].invite
        /\ ~Wrote(Inserting(s, u)) /\ ~Wrote(Deleting(s, u))
        /\ txn' = [txn EXCEPT ![r].op = "joinCommit", ![r].wrote = role[s][u] = "none"]
        /\ ReadOnly

\* ... and tells, whatever it wrote.
JoinCommit(r) ==
    LET s == txn[r].server
        u == txn[r].user
    IN  /\ txn[r].op = "joinCommit"
        /\ uses' = [uses EXCEPT ![txn[r].invite] = @ + 1]
        /\ role' = [role EXCEPT ![s][u] = IF txn[r].wrote THEN "MEMBER" ELSE @]
        /\ TellJoin(s, u)
        /\ Settle(r, s, u)
        /\ End(r)
        /\ UNCHANGED <<server, ownerId, home, channel, knownName, disputed>>

\* Mutant: the owner may leave.
MayLeaveAny(u, s) == role[s][u] # "none"

MayLeave(u, s) == role[s][u] = "MEMBER"

LeaveRead(r, u, s) ==
    /\ MayLeave(u, s)
    /\ Begin(r, [Idle EXCEPT !.op = "leave", !.user = u, !.server = s])
    /\ disputed' = IF Transferring(s) THEN disputed \cup {s} ELSE disputed
    /\ UNCHANGED <<db, known, contested>>

\* DELETE waits for the lock of a row it sees; without one it does nothing.
LeaveWrite(r) ==
    LET s == txn[r].server
        u == txn[r].user
    IN  /\ txn[r].op = "leave"
        /\ ~Wrote(Deleting(s, u))
        /\ txn' = [txn EXCEPT ![r].op = "leaveCommit", ![r].wrote = role[s][u] # "none"]
        /\ ReadOnly

\* Mutant: the row is marked instead of deleted.
LeaveCommitMarked(r) ==
    LET s == txn[r].server
        u == txn[r].user
    IN  /\ txn[r].op = "leaveCommit"
        /\ role' = [role EXCEPT ![s][u] = IF txn[r].wrote THEN "LEFT" ELSE @]
        /\ TellLeave(s, u)
        /\ Settle(r, s, u)
        /\ End(r)
        /\ UNCHANGED <<server, ownerId, home, uses, channel, knownName, disputed>>

LeaveCommit(r) ==
    LET s == txn[r].server
        u == txn[r].user
    IN  /\ txn[r].op = "leaveCommit"
        /\ role' = [role EXCEPT ![s][u] = IF txn[r].wrote THEN "none" ELSE @]
        /\ TellLeave(s, u)
        /\ Settle(r, s, u)
        /\ End(r)
        /\ UNCHANGED <<server, ownerId, home, uses, channel, knownName, disputed>>

\* deleteServer.  A membership outlives its server, so this can be repeated.
DeleteRead(r, u, s) ==
    /\ MayManage(u, s)
    /\ Begin(r, [Idle EXCEPT !.op = "delete", !.user = u, !.server = s])
    /\ ReadOnly

DeleteWrite(r) ==
    /\ txn[r].op = "delete"
    /\ server' = [server EXCEPT ![txn[r].server] = "deleted"]
    /\ End(r)
    /\ UNCHANGED <<ownerId, role, home, uses, channel, known, disputed, contested>>

\* resolveOwnerTransfer: the oldest other member.  Who that is is left open, for
\* the model has no created_at.
Heirs(s) ==
    LET others == {u \in Users \ {ownerId[s]} : role[s][u] = "MEMBER"}
    IN  IF others = {} THEN {NoUser} ELSE others

\* handleOwnerDeletion, which the deletion of the owner's account asks for.
TransferRead(r, s) ==
    /\ server[s] # "none"
    /\ \E heir \in Heirs(s) :
          Begin(r, [Idle EXCEPT !.op = "transfer", !.user = heir, !.server = s])
    /\ disputed' = IF Leaving(s) THEN disputed \cup {s} ELSE disputed
    /\ UNCHANGED <<db, known, contested>>

\* updateOwner and updateRole; the latter waits for a leave that has deleted the
\* heir's row, and finds none when the heir has left.
\* Without an heir the server is deleted.
TransferWrite(r) ==
    LET s == txn[r].server
        heir == txn[r].user
    IN  /\ txn[r].op = "transfer"
        /\ ~Wrote(Deleting(s, heir))
        /\ IF heir = NoUser
           THEN server' = [server EXCEPT ![s] = "deleted"] /\ UNCHANGED <<ownerId, role>>
           ELSE /\ ownerId' = [ownerId EXCEPT ![s] = heir]
                /\ role' = [role EXCEPT ![s][heir] = IF @ = "none" THEN @ ELSE "OWNER"]
                /\ UNCHANGED server
        /\ End(r)
        /\ UNCHANGED <<home, uses, channel, known, disputed, contested>>

\* createInvite: any member may.
InviteRead(r, u, s) ==
    /\ u \in Members(s)
    /\ Begin(r, [Idle EXCEPT !.op = "invite", !.user = u, !.server = s])
    /\ ReadOnly

InviteWrite(r, i) ==
    /\ txn[r].op = "invite"
    /\ home[i] = NoServer
    /\ home' = [home EXCEPT ![i] = txn[r].server]
    /\ End(r)
    /\ UNCHANGED <<server, ownerId, role, uses, channel, known, disputed, contested>>

-----------------------------------------------------------------------------
\* ChannelService.

\* Mutant: off by one.
MayAddOneMore(s) == Cardinality(LiveChannels(s)) <= MaxChannels

MayAdd(s) == Cardinality(LiveChannels(s)) < MaxChannels

\* createChannel reads the member and counts the channels ...
CreateRead(r, u, s, n) ==
    /\ MayManage(u, s)
    /\ MayAdd(s)
    /\ Begin(r, [Idle EXCEPT !.op = "create", !.user = u, !.server = s, !.name = n])
    /\ ReadOnly

\* ... then looks for the name ...
CreateCheck(r) ==
    /\ txn[r].op = "create"
    /\ NameIsFree(txn[r].server, txn[r].name, NoChannel)
    /\ Goto(r, "createWrite")
    /\ ReadOnly

\* Mutant: nothing but the check above keeps names apart.
MayHold(s, n, c) == TRUE

\* The unique index on live channels.
Unique(s, n, c) == NameIsFree(s, n, c)

\* ... and inserts the row, if the unique index admits it.
CreateWrite(r, c) ==
    LET s == txn[r].server
        n == txn[r].name
    IN  /\ txn[r].op = "createWrite"
        /\ channel[c].status = "none"
        /\ Unique(s, n, c)
        /\ channel' = [channel EXCEPT ![c] = [status |-> "live", server |-> s, name |-> n]]
        /\ TellName(c, n)
        /\ End(r)
        /\ UNCHANGED <<server, ownerId, role, home, uses, knownMembers, disputed, contested>>

RenameRead(r, u, c, n) ==
    /\ channel[c].status = "live"
    /\ MayManage(u, channel[c].server)
    /\ NameIsFree(channel[c].server, n, c)
    /\ Begin(r, [Idle EXCEPT !.op = "rename", !.user = u, !.channel = c, !.name = n,
                             !.server = channel[c].server])
    /\ ReadOnly

\* Mutant: the UPDATE does not ask for live channels.
RenameWriteAny(r) ==
    LET c == txn[r].channel
        n == txn[r].name
    IN  /\ txn[r].op = "rename"
        /\ channel[c].status = "live" => Unique(txn[r].server, n, c)
        /\ channel' = [channel EXCEPT ![c].name = n]
        /\ IF knownName[c] # NoName THEN TellName(c, n) ELSE UNCHANGED knownName
        /\ End(r)
        /\ UNCHANGED <<server, ownerId, role, home, uses, knownMembers, disputed, contested>>

\* A channel deleted in the meantime keeps its name; the event is sent all the
\* same, about a channel clients do not know any more.
RenameWrite(r) ==
    LET c == txn[r].channel
        n == txn[r].name
    IN  /\ txn[r].op = "rename"
        /\ IF channel[c].status = "live"
           THEN /\ Unique(txn[r].server, n, c)
                /\ channel' = [channel EXCEPT ![c].name = n]
           ELSE UNCHANGED channel
        /\ IF knownName[c] # NoName THEN TellName(c, n) ELSE UNCHANGED knownName
        /\ End(r)
        /\ UNCHANGED <<server, ownerId, role, home, uses, knownMembers, disputed, contested>>

RemoveRead(r, u, c) ==
    /\ channel[c].status = "live"
    /\ MayManage(u, channel[c].server)
    /\ Begin(r, [Idle EXCEPT !.op = "remove", !.user = u, !.channel = c,
                             !.server = channel[c].server])
    /\ ReadOnly

RemoveWrite(r) ==
    /\ txn[r].op = "remove"
    /\ channel' = [channel EXCEPT ![txn[r].channel].status = "deleted"]
    /\ TellName(txn[r].channel, NoName)
    /\ End(r)
    /\ UNCHANGED <<server, ownerId, role, home, uses, knownMembers, disputed, contested>>

\* Mutant: a leave is announced before its transaction is committed.
AbortTold(r) ==
    /\ txn[r].op # "none"
    /\ IF txn[r].op = "leaveCommit" THEN TellLeave(txn[r].server, txn[r].user)
                              ELSE UNCHANGED knownMembers
    /\ End(r)
    /\ UNCHANGED <<db, knownName, disputed, contested>>

\* A check refuses, a unique index is violated, or a statement fails: ROLLBACK.
Abort(r) ==
    /\ txn[r].op # "none"
    /\ End(r)
    /\ ReadOnly

-----------------------------------------------------------------------------
Next ==
    \/ \E s \in Servers, u \in Users, c \in Channels : CreateServer(s, u, c)
    \/ \E r \in Requests :
        \/ \E u \in Users, i \in Invites : JoinRead(r, u, i)
        \/ \E u \in Users, s \in Servers : \/ LeaveRead(r, u, s) \/ DeleteRead(r, u, s)
                                           \/ InviteRead(r, u, s)
        \/ \E s \in Servers : TransferRead(r, s)
        \/ \E u \in Users, s \in Servers, n \in Names : CreateRead(r, u, s, n)
        \/ \E u \in Users, c \in Channels : \/ RemoveRead(r, u, c)
                                            \/ \E n \in Names : RenameRead(r, u, c, n)
        \/ JoinCheck(r) \/ JoinWrite(r) \/ JoinCommit(r)
        \/ LeaveWrite(r) \/ LeaveCommit(r) \/ DeleteWrite(r) \/ TransferWrite(r)
        \/ \E i \in Invites : InviteWrite(r, i)
        \/ CreateCheck(r) \/ \E c \in Channels : CreateWrite(r, c)
        \/ RenameWrite(r) \/ RemoveWrite(r)
        \/ Abort(r)

Spec == Init /\ [][Next]_vars

-----------------------------------------------------------------------------
\* Joins that race past the unlocked check overuse an invite by no more than
\* the transactions open at once less one; one at a time, by none.
OveruseIsBounded == \A i \in Invites : uses[i] <= MaxUses + Cardinality(Requests) - 1

\* The same for the channel limit.
ChannelsAreBounded ==
    \A s \in Servers : Cardinality(LiveChannels(s)) <= MaxChannels + Cardinality(Requests) - 1

\* Two live channels of a server never have the same name, though the services
\* check this on rows they do not lock.
NamesAreUnique == \A c \in Channels : channel[c].status = "live" =>
                        NameIsFree(channel[c].server, channel[c].name, c)

\* The owner of a live server is a member with the role OWNER, unless a member
\* was leaving while the ownership was transferred: the heir may then be gone.
OwnerIsMember ==
    \A s \in Servers \ disputed : server[s] = "live" => role[s][ownerId[s]] = "OWNER"

\* A client that has all events knows the channels there are, also when calls
\* change what another has just deleted.  It knows the members there are, also
\* when calls do the same, up to one race: a join or leave that found the row as
\* it wants it, and so locked nothing, announces it though another call undid
\* it before the COMMIT.  The next call that writes the row sets this right.
EventsTellAll ==
    /\ \A s \in Servers, u \in Users :
          <<s, u>> \notin contested => (u \in knownMembers[s] <=> role[s][u] # "none")
    /\ \A c \in Channels :
          knownName[c] = IF channel[c].status = "live" THEN channel[c].name ELSE NoName

\* What is deleted stays deleted, whatever was about to be done to it.
DeletionIsFinal ==
    [][/\ \A s \in Servers : server[s] = "deleted" => server'[s] = "deleted"
       /\ \A c \in Channels : channel[c].status = "deleted" => channel'[c] = channel[c]]_vars
=============================================================================
