------------------------- MODULE CommunitiesProofs -------------------------
(***************************************************************************)
(* The properties of Communities hold for any users, servers, channels and *)
(* invites, any limits and any finite number of concurrent transactions.   *)
(* The counting ones rest on counting the transactions that have passed    *)
(* the check and not yet written.                                          *)
(***************************************************************************)
EXTENDS Communities, FiniteSetTheorems, TLAPS

\* What a transaction is about exists.
TxnShape ==
    \A q \in Requests :
        LET x == txn[q]
        IN  /\ x.op # "none" => x.server \in Servers /\ server[x.server] # "none"
            /\ x.op \in {"join", "joinWrite", "joinCommit"} => x.user \in Users /\ x.invite \in Invites
            /\ x.op \in {"leave", "leaveCommit"} => x.user \in Users
            /\ x.op \in {"create", "createWrite", "rename"} => x.name \in Names
            /\ x.op \in {"rename", "remove"} => /\ x.channel \in Channels
                                                /\ channel[x.channel].status # "none"
                                                /\ channel[x.channel].server = x.server

\* Foreign keys: rows refer to servers there are.
RowsOK ==
    /\ \A s \in Servers : server[s] = "none" => \A u \in Users : role[s][u] = "none"
    /\ \A i \in Invites : home[i] # NoServer => server[home[i]] # "none"
    /\ \A c \in Channels : channel[c].status # "none" =>
          /\ channel[c].server \in Servers /\ server[channel[c].server] # "none"
          /\ channel[c].name \in Names

Shape == TypeOK /\ TxnShape /\ RowsOK

\* The transactions that will use an invite, or add a channel to a server.
Joining(i) == {q \in Requests : txn[q].op \in {"join", "joinWrite", "joinCommit"} /\ txn[q].invite = i}
Creating(s) == {q \in Requests : txn[q].op \in {"create", "createWrite"} /\ txn[q].server = s}

UsesCounted ==
    \A i \in Invites : uses[i] + Cardinality(Joining(i)) <= MaxUses + Cardinality(Requests) - 1

ChannelsCounted ==
    \A s \in Servers :
        Cardinality(LiveChannels(s)) + Cardinality(Creating(s))
            <= MaxChannels + Cardinality(Requests) - 1

\* Where nobody disputes it, the owner does not leave and the heir does not
\* leave.
OwnersOK ==
    /\ OwnerIsMember
    /\ \A s \in Servers \ disputed :
          /\ ~(Leaving(s) /\ Transferring(s))
          /\ \A q \in Requests : txn[q].server = s =>
                /\ txn[q].op \in {"leave", "leaveCommit"} => role[s][txn[q].user] # "OWNER"
                /\ txn[q].op = "transfer" /\ txn[q].user # NoUser
                      => role[s][txn[q].user] # "none"

\* A transaction that wrote a member row found it as it had to be, and holds its
\* lock alone until it commits.
LocksOK ==
    /\ \A q \in Requests : txn[q].wrote =>
          /\ txn[q].op \in {"joinCommit", "leaveCommit"}
          /\ role[txn[q].server][txn[q].user] = "none" <=> txn[q].op = "joinCommit"
    /\ \A p, q \in Requests :
          txn[p].wrote /\ txn[q].wrote /\ p # q =>
                txn[p].server # txn[q].server \/ txn[p].user # txn[q].user

\* Clients know the members, and a call that found nothing to write is about to
\* tell them what they know.
MembersOK ==
    /\ \A s \in Servers, u \in Users :
          <<s, u>> \notin contested => (u \in knownMembers[s] <=> role[s][u] # "none")
    /\ \A q \in Requests :
          /\ txn[q].op \in {"joinCommit", "leaveCommit"} /\ ~txn[q].wrote
          /\ <<txn[q].server, txn[q].user>> \notin contested
          => (role[txn[q].server][txn[q].user] = "none" <=> txn[q].op = "leaveCommit")

ChannelsKnown ==
    \A c \in Channels :
        knownName[c] = IF channel[c].status = "live" THEN channel[c].name ELSE NoName

IInv == /\ Shape /\ UsesCounted /\ ChannelsCounted /\ NamesAreUnique
        /\ LocksOK /\ OwnersOK /\ MembersOK /\ ChannelsKnown

-----------------------------------------------------------------------------
USE ConstantsAssumption DEF db, known

LEMMA InitShape == Init => Shape
  BY DEF Init, Shape, TypeOK, TxnShape, RowsOK, Txn, Idle, Row, Op

\* One transaction goes from one state to another.
LEMMA Step ==
  ASSUME TypeOK, NEW r \in Requests, NEW x \in Txn, txn' = [txn EXCEPT ![r] = x]
  PROVE  /\ txn' \in [Requests -> Txn]
         /\ txn'[r] = x
         /\ \A q \in Requests \ {r} : txn'[q] = txn[q]
  BY DEF TypeOK

\* The write of a join or a leave.
LEMMA Writes ==
  ASSUME TypeOK, NEW r \in Requests, JoinWrite(r) \/ LeaveWrite(r)
  PROVE  /\ ReadOnly
         /\ \E x \in Txn :
              /\ txn' = [txn EXCEPT ![r] = x]
              /\ x.op = IF JoinWrite(r) THEN "joinCommit" ELSE "leaveCommit"
              /\ x.wrote <=> (role[txn[r].server][txn[r].user] = "none" <=> JoinWrite(r))
              /\ x.user = txn[r].user /\ x.server = txn[r].server
              /\ x.invite = txn[r].invite /\ x.channel = txn[r].channel /\ x.name = txn[r].name
<1>t. txn[r] \in Txn /\ txn \in [Requests -> Txn]
  BY DEF TypeOK
<1>0. ReadOnly /\ (JoinWrite(r) => ~LeaveWrite(r))
  BY DEF JoinWrite, LeaveWrite
<1>1. CASE JoinWrite(r)
  <2> DEFINE x == [txn[r] EXCEPT !.op = "joinCommit",
                                 !.wrote = role[txn[r].server][txn[r].user] = "none"]
  <2>1. txn' = [txn EXCEPT ![r] = x]
    BY <1>t, <1>1 DEF JoinWrite
  <2>2. /\ x \in Txn /\ x.op = "joinCommit"
        /\ x.wrote <=> role[txn[r].server][txn[r].user] = "none"
        /\ x.user = txn[r].user /\ x.server = txn[r].server
        /\ x.invite = txn[r].invite /\ x.channel = txn[r].channel /\ x.name = txn[r].name
    BY <1>t DEF Txn, Op
  <2> HIDE DEF x
  <2> QED BY <1>0, <1>1, <2>1, <2>2
<1>2. CASE LeaveWrite(r)
  <2> DEFINE x == [txn[r] EXCEPT !.op = "leaveCommit",
                                 !.wrote = role[txn[r].server][txn[r].user] # "none"]
  <2>1. txn' = [txn EXCEPT ![r] = x]
    BY <1>t, <1>2 DEF LeaveWrite
  <2>2. /\ x \in Txn /\ x.op = "leaveCommit"
        /\ x.wrote <=> role[txn[r].server][txn[r].user] # "none"
        /\ x.user = txn[r].user /\ x.server = txn[r].server
        /\ x.invite = txn[r].invite /\ x.channel = txn[r].channel /\ x.name = txn[r].name
    BY <1>t DEF Txn, Op
  <2> HIDE DEF x
  <2> QED BY <1>0, <1>2, <2>1, <2>2
<1> QED BY <1>1, <1>2

LEMMA IdleFacts ==
  /\ Idle \in Txn
  /\ Idle.op = "none" /\ Idle.user = NoUser /\ Idle.server = NoServer
  /\ Idle.invite = NoInvite /\ Idle.channel = NoChannel /\ Idle.name = NoName
  /\ Idle.wrote = FALSE
  BY DEF Idle, Txn, Op

\* A step that only reads keeps the shape, if what it goes on with exists.
LEMMA ReadShape ==
  ASSUME Shape, NEW r \in Requests, NEW x \in Txn, txn' = [txn EXCEPT ![r] = x],
         UNCHANGED <<db, known, contested>>, disputed' \subseteq Servers,
         x.op # "none" => x.server \in Servers /\ server[x.server] # "none",
         x.op \in {"join", "joinWrite", "joinCommit"} => x.user \in Users /\ x.invite \in Invites,
         x.op \in {"leave", "leaveCommit"} => x.user \in Users,
         x.op \in {"create", "createWrite", "rename"} => x.name \in Names,
         x.op \in {"rename", "remove"} => /\ x.channel \in Channels
                                          /\ channel[x.channel].status # "none"
                                          /\ channel[x.channel].server = x.server
  PROVE  Shape'
<1>1. /\ txn' \in [Requests -> Txn]
      /\ txn'[r] = x
      /\ \A q \in Requests \ {r} : txn'[q] = txn[q]
  BY Step DEF Shape
<1>2. TypeOK'
  BY <1>1 DEF Shape, TypeOK
<1>3. TxnShape'
  BY <1>1 DEF Shape, TxnShape
<1>4. RowsOK'
  BY DEF Shape, RowsOK
<1> QED BY <1>2, <1>3, <1>4 DEF Shape

\* A step that writes and ends keeps it, if its rows are well formed and rows
\* that exist go on existing.
LEMMA WriteShape ==
  ASSUME Shape, NEW r \in Requests, End(r), RowsOK', UNCHANGED disputed,
         contested' \subseteq Servers \X Users,
         server' \in [Servers -> {"none", "live", "deleted"}],
         ownerId' \in [Servers -> Users \cup {NoUser}],
         role' \in [Servers -> [Users -> {"none", "MEMBER", "OWNER"}]],
         home' \in [Invites -> Servers \cup {NoServer}],
         uses' \in [Invites -> Nat],
         channel' \in [Channels -> Row],
         knownMembers' \in [Servers -> SUBSET Users],
         knownName' \in [Channels -> Names \cup {NoName}],
         \A s \in Servers : server[s] # "none" => server'[s] # "none",
         \A c \in Channels : channel[c].status # "none" =>
            channel'[c].status # "none" /\ channel'[c].server = channel[c].server
  PROVE  Shape'
<1>1. /\ txn' \in [Requests -> Txn]
      /\ txn'[r] = Idle
      /\ \A q \in Requests \ {r} : txn'[q] = txn[q]
  BY Step, IdleFacts DEF Shape, End
<1>2. TypeOK'
  BY <1>1 DEF Shape, TypeOK
<1>3. TxnShape'
  BY <1>1, IdleFacts DEF Shape, TxnShape
<1> QED BY <1>2, <1>3 DEF Shape

LEMMA NextShape == Shape /\ [Next]_vars => Shape'
<1> SUFFICES ASSUME Shape, [Next]_vars PROVE Shape'
  OBVIOUS
<1>1. ASSUME NEW s \in Servers, NEW u \in Users, NEW c \in Channels, CreateServer(s, u, c)
      PROVE  Shape'
  <2>1. TypeOK'
    BY <1>1 DEF CreateServer, Shape, TypeOK, Row, TellJoin, TellName
  <2>2. TxnShape'
    BY <1>1 DEF CreateServer, Shape, TypeOK, Row, TxnShape
  <2>3. RowsOK'
    BY <1>1 DEF CreateServer, Shape, TypeOK, Row, RowsOK
  <2> QED BY <2>1, <2>2, <2>3 DEF Shape
<1>2. ASSUME NEW r \in Requests, NEW u \in Users, NEW i \in Invites, JoinRead(r, u, i)
      PROVE  Shape'
  <2> DEFINE x == [Idle EXCEPT !.op = "join", !.user = u, !.invite = i, !.server = home[i]]
  <2>0. home[i] \in Servers /\ server[home[i]] # "none"
    BY <1>2 DEF JoinRead, MayUse, Shape, TypeOK, RowsOK
  <2>1. x \in Txn /\ x.op = "join" /\ x.user = u /\ x.invite = i /\ x.server = home[i]
    BY <2>0 DEF Idle, Txn, Op
  <2>2. txn' = [txn EXCEPT ![r] = x] /\ UNCHANGED <<db, known, contested>> /\ disputed' \subseteq Servers
    BY <1>2 DEF JoinRead, MayUse, Shape, TypeOK, Begin, ReadOnly
  <2> HIDE DEF x
  <2> QED BY <2>0, <2>1, <2>2, ReadShape
<1>3. ASSUME NEW r \in Requests, JoinCheck(r) \/ CreateCheck(r)
      PROVE  Shape'
  <2> PICK op \in {"joinWrite", "createWrite"} :
            txn[r].op \in {"join", "create"} /\ Goto(r, op) /\ ReadOnly
                /\ (op = "joinWrite" <=> txn[r].op = "join")
    BY <1>3 DEF JoinCheck, CreateCheck
  <2> DEFINE x == [txn[r] EXCEPT !.op = op]
  <2>1. /\ x \in Txn /\ x.op = op /\ x.user = txn[r].user /\ x.server = txn[r].server
        /\ x.invite = txn[r].invite /\ x.name = txn[r].name
    <3>1. txn[r] \in Txn
      BY DEF Shape, TypeOK
    <3> QED BY <3>1 DEF Txn, Op
  <2>2. txn' = [txn EXCEPT ![r] = x] /\ UNCHANGED <<db, known, contested>> /\ disputed' \subseteq Servers
    BY DEF Shape, TypeOK, Goto, ReadOnly
  <2> HIDE DEF x
  <2> QED BY <2>1, <2>2, ReadShape DEF Shape, TxnShape
<1>4. ASSUME NEW r \in Requests, NEW u \in Users, NEW s \in Servers, LeaveRead(r, u, s)
      PROVE  Shape'
  <2> DEFINE x == [Idle EXCEPT !.op = "leave", !.user = u, !.server = s]
  <2>1. x \in Txn /\ x.op = "leave" /\ x.user = u /\ x.server = s /\ server[s] # "none"
    BY <1>4 DEF LeaveRead, MayLeave, Idle, Txn, Op, Shape, TypeOK, RowsOK
  <2>2. txn' = [txn EXCEPT ![r] = x] /\ UNCHANGED <<db, known, contested>> /\ disputed' \subseteq Servers
    BY <1>4 DEF LeaveRead, MayLeave, Shape, TypeOK, Begin, ReadOnly
  <2> HIDE DEF x
  <2> QED BY <2>1, <2>2, ReadShape DEF Shape
<1>5. ASSUME NEW r \in Requests, NEW u \in Users, NEW s \in Servers, DeleteRead(r, u, s)
      PROVE  Shape'
  <2> DEFINE x == [Idle EXCEPT !.op = "delete", !.user = u, !.server = s]
  <2>1. x \in Txn /\ x.op = "delete" /\ x.server = s /\ server[s] # "none"
    BY <1>5 DEF DeleteRead, MayManage, Idle, Txn, Op, Shape, TypeOK, RowsOK
  <2>2. txn' = [txn EXCEPT ![r] = x] /\ UNCHANGED <<db, known, contested>> /\ disputed' \subseteq Servers
    BY <1>5 DEF DeleteRead, MayManage, Shape, TypeOK, Begin, ReadOnly
  <2> HIDE DEF x
  <2> QED BY <2>1, <2>2, ReadShape DEF Shape
<1>6. ASSUME NEW r \in Requests, NEW s \in Servers, TransferRead(r, s)
      PROVE  Shape'
  <2> PICK heir \in Heirs(s) :
            Begin(r, [Idle EXCEPT !.op = "transfer", !.user = heir, !.server = s])
    BY <1>6 DEF TransferRead
  <2> DEFINE x == [Idle EXCEPT !.op = "transfer", !.user = heir, !.server = s]
  <2>1. x \in Txn /\ x.op = "transfer" /\ x.server = s /\ server[s] # "none"
    BY <1>6 DEF TransferRead, Heirs, Idle, Txn, Op
  <2>2. txn' = [txn EXCEPT ![r] = x] /\ UNCHANGED <<db, known, contested>> /\ disputed' \subseteq Servers
    BY <1>6 DEF TransferRead, Begin, Shape, TypeOK
  <2> HIDE DEF x
  <2> QED BY <2>1, <2>2, ReadShape DEF Shape
<1>7. ASSUME NEW r \in Requests, NEW u \in Users, NEW s \in Servers, InviteRead(r, u, s)
      PROVE  Shape'
  <2> DEFINE x == [Idle EXCEPT !.op = "invite", !.user = u, !.server = s]
  <2>1. x \in Txn /\ x.op = "invite" /\ x.server = s /\ server[s] # "none"
    BY <1>7 DEF InviteRead, Members, Idle, Txn, Op, Shape, TypeOK, RowsOK
  <2>2. txn' = [txn EXCEPT ![r] = x] /\ UNCHANGED <<db, known, contested>> /\ disputed' \subseteq Servers
    BY <1>7 DEF InviteRead, Members, Shape, TypeOK, Begin, ReadOnly
  <2> HIDE DEF x
  <2> QED BY <2>1, <2>2, ReadShape DEF Shape
<1>8. ASSUME NEW r \in Requests, NEW u \in Users, NEW s \in Servers, NEW n \in Names, CreateRead(r, u, s, n)
      PROVE  Shape'
  <2> DEFINE x == [Idle EXCEPT !.op = "create", !.user = u, !.server = s, !.name = n]
  <2>1. x \in Txn /\ x.op = "create" /\ x.server = s /\ x.name = n /\ server[s] # "none"
    BY <1>8 DEF CreateRead, MayManage, Idle, Txn, Op, Shape, TypeOK, RowsOK
  <2>2. txn' = [txn EXCEPT ![r] = x] /\ UNCHANGED <<db, known, contested>> /\ disputed' \subseteq Servers
    BY <1>8 DEF CreateRead, MayManage, Shape, TypeOK, Begin, ReadOnly
  <2> HIDE DEF x
  <2> QED BY <2>1, <2>2, ReadShape DEF Shape
<1>9. ASSUME NEW r \in Requests, NEW u \in Users, NEW c \in Channels, NEW n \in Names, RenameRead(r, u, c, n)
      PROVE  Shape'
  <2> DEFINE x == [Idle EXCEPT !.op = "rename", !.user = u, !.channel = c, !.name = n,
                             !.server = channel[c].server]
  <2>0. /\ channel[c].server \in Servers /\ server[channel[c].server] # "none"
        /\ channel[c].status # "none"
    BY <1>9 DEF RenameRead, Shape, TypeOK, RowsOK
  <2>1. x \in Txn /\ x.op = "rename" /\ x.server = channel[c].server /\ x.channel = c /\ x.name = n
    BY <2>0 DEF Idle, Txn, Op
  <2>2. txn' = [txn EXCEPT ![r] = x] /\ UNCHANGED <<db, known, contested>> /\ disputed' \subseteq Servers
    BY <1>9 DEF RenameRead, Shape, TypeOK, Begin, ReadOnly
  <2> HIDE DEF x
  <2> QED BY <2>0, <2>1, <2>2, ReadShape
<1>10. ASSUME NEW r \in Requests, NEW u \in Users, NEW c \in Channels, RemoveRead(r, u, c)
      PROVE  Shape'
  <2> DEFINE x == [Idle EXCEPT !.op = "remove", !.user = u, !.channel = c,
                             !.server = channel[c].server]
  <2>0. /\ channel[c].server \in Servers /\ server[channel[c].server] # "none"
        /\ channel[c].status # "none"
    BY <1>10 DEF RemoveRead, Shape, TypeOK, RowsOK
  <2>1. x \in Txn /\ x.op = "remove" /\ x.server = channel[c].server /\ x.channel = c
    BY <2>0 DEF Idle, Txn, Op
  <2>2. txn' = [txn EXCEPT ![r] = x] /\ UNCHANGED <<db, known, contested>> /\ disputed' \subseteq Servers
    BY <1>10 DEF RemoveRead, Shape, TypeOK, Begin, ReadOnly
  <2> HIDE DEF x
  <2> QED BY <2>0, <2>1, <2>2, ReadShape
<1>11. ASSUME NEW r \in Requests, JoinCommit(r) PROVE Shape'
  <2>1. /\ End(r) /\ UNCHANGED disputed
        /\ server' \in [Servers -> {"none", "live", "deleted"}]
        /\ ownerId' \in [Servers -> Users \cup {NoUser}]
        /\ role' \in [Servers -> [Users -> {"none", "MEMBER", "OWNER"}]]
        /\ home' \in [Invites -> Servers \cup {NoServer}]
        /\ uses' \in [Invites -> Nat]
    BY <1>11 DEF JoinCommit, TellJoin, Shape, TypeOK, TxnShape, Txn
  <2>c. contested' \subseteq Servers \X Users
    BY <1>11 DEF JoinCommit, Settle, Shape, TypeOK, TxnShape
  <2>2. /\ channel' \in [Channels -> Row]
        /\ knownMembers' \in [Servers -> SUBSET Users]
        /\ knownName' \in [Channels -> Names \cup {NoName}]
    BY <1>11 DEF JoinCommit, TellJoin, Shape, TypeOK, TxnShape, Row
  <2>3. /\ \A s \in Servers : server[s] # "none" => server'[s] # "none"
        /\ \A c \in Channels : channel[c].status # "none" =>
              channel'[c].status # "none" /\ channel'[c].server = channel[c].server
    BY <1>11 DEF JoinCommit, TellJoin, Shape, TypeOK, TxnShape, Row
  <2>4. RowsOK'
    BY <1>11 DEF JoinCommit, TellJoin, Shape, TypeOK, TxnShape, RowsOK, Row
  <2> QED BY <2>1, <2>c, <2>2, <2>3, <2>4, WriteShape
<1>12. ASSUME NEW r \in Requests, LeaveCommit(r) PROVE Shape'
  <2>1. /\ End(r) /\ UNCHANGED disputed
        /\ server' \in [Servers -> {"none", "live", "deleted"}]
        /\ ownerId' \in [Servers -> Users \cup {NoUser}]
        /\ role' \in [Servers -> [Users -> {"none", "MEMBER", "OWNER"}]]
        /\ home' \in [Invites -> Servers \cup {NoServer}]
        /\ uses' \in [Invites -> Nat]
    BY <1>12 DEF LeaveCommit, TellLeave, Shape, TypeOK, TxnShape, Txn
  <2>c. contested' \subseteq Servers \X Users
    BY <1>12 DEF LeaveCommit, Settle, Shape, TypeOK, TxnShape
  <2>2. /\ channel' \in [Channels -> Row]
        /\ knownMembers' \in [Servers -> SUBSET Users]
        /\ knownName' \in [Channels -> Names \cup {NoName}]
    BY <1>12 DEF LeaveCommit, TellLeave, Shape, TypeOK, TxnShape, Row
  <2>3. /\ \A s \in Servers : server[s] # "none" => server'[s] # "none"
        /\ \A c \in Channels : channel[c].status # "none" =>
              channel'[c].status # "none" /\ channel'[c].server = channel[c].server
    BY <1>12 DEF LeaveCommit, TellLeave, Shape, TypeOK, TxnShape, Row
  <2>4. RowsOK'
    BY <1>12 DEF LeaveCommit, TellLeave, Shape, TypeOK, TxnShape, RowsOK, Row
  <2> QED BY <2>1, <2>c, <2>2, <2>3, <2>4, WriteShape
<1>13. ASSUME NEW r \in Requests, DeleteWrite(r) PROVE Shape'
  <2>1. /\ End(r) /\ UNCHANGED disputed
        /\ server' \in [Servers -> {"none", "live", "deleted"}]
        /\ ownerId' \in [Servers -> Users \cup {NoUser}]
        /\ role' \in [Servers -> [Users -> {"none", "MEMBER", "OWNER"}]]
        /\ home' \in [Invites -> Servers \cup {NoServer}]
        /\ uses' \in [Invites -> Nat]
    BY <1>13 DEF DeleteWrite, Shape, TypeOK, TxnShape, Txn
  <2>c. contested' \subseteq Servers \X Users
    BY <1>13 DEF DeleteWrite, Shape, TypeOK
  <2>2. /\ channel' \in [Channels -> Row]
        /\ knownMembers' \in [Servers -> SUBSET Users]
        /\ knownName' \in [Channels -> Names \cup {NoName}]
    BY <1>13 DEF DeleteWrite, Shape, TypeOK, TxnShape, Row
  <2>3. /\ \A s \in Servers : server[s] # "none" => server'[s] # "none"
        /\ \A c \in Channels : channel[c].status # "none" =>
              channel'[c].status # "none" /\ channel'[c].server = channel[c].server
    BY <1>13 DEF DeleteWrite, Shape, TypeOK, TxnShape, Row
  <2>4. RowsOK'
    BY <1>13 DEF DeleteWrite, Shape, TypeOK, TxnShape, RowsOK, Row
  <2> QED BY <2>1, <2>c, <2>2, <2>3, <2>4, WriteShape
<1>14. ASSUME NEW r \in Requests, TransferWrite(r) PROVE Shape'
  <2> DEFINE s == txn[r].server
             heir == txn[r].user
  <2>0. s \in Servers /\ server[s] # "none" /\ heir \in Users \cup {NoUser}
    BY <1>14 DEF TransferWrite, Shape, TypeOK, TxnShape, Txn
  <2>1. /\ End(r)
        /\ UNCHANGED <<home, uses, channel, known, disputed, contested>>
        /\ \/ server' = [server EXCEPT ![s] = "deleted"] /\ UNCHANGED <<ownerId, role>>
           \/ /\ UNCHANGED server
              /\ ownerId' = [ownerId EXCEPT ![s] = heir]
              /\ heir \in Users
              /\ role' = [role EXCEPT ![s][heir] = IF @ = "none" THEN @ ELSE "OWNER"]
    BY <1>14, <2>0 DEF TransferWrite
  <2> HIDE DEF s, heir
  <2>2. /\ server' \in [Servers -> {"none", "live", "deleted"}]
        /\ ownerId' \in [Servers -> Users \cup {NoUser}]
        /\ \A t \in Servers : server[t] # "none" <=> server'[t] # "none"
    <3>0. server \in [Servers -> {"none", "live", "deleted"}] /\ ownerId \in [Servers -> Users \cup {NoUser}]
      BY DEF Shape, TypeOK
    <3>1. CASE server' = [server EXCEPT ![s] = "deleted"] /\ UNCHANGED <<ownerId, role>>
      BY <2>0, <3>0, <3>1
    <3>2. CASE ownerId' = [ownerId EXCEPT ![s] = heir] /\ heir \in Users /\ UNCHANGED server
      BY <2>0, <3>0, <3>2
    <3> QED BY <2>1, <3>1, <3>2
  <2>3. /\ role' \in [Servers -> [Users -> {"none", "MEMBER", "OWNER"}]]
        /\ \A t \in Servers, u \in Users : role[t][u] = "none" => role'[t][u] = "none"
    <3>0. role \in [Servers -> [Users -> {"none", "MEMBER", "OWNER"}]]
      BY DEF Shape, TypeOK
    <3>1. CASE UNCHANGED role
      BY <3>0, <3>1
    <3>2. CASE /\ heir \in Users
               /\ role' = [role EXCEPT ![s][heir] = IF @ = "none" THEN @ ELSE "OWNER"]
      BY <2>0, <3>0, <3>2
    <3> QED BY <2>1, <3>1, <3>2
  <2>4. RowsOK'
    BY <2>1, <2>2, <2>3 DEF Shape, RowsOK, TypeOK
  <2> QED BY <2>1, <2>2, <2>3, <2>4, WriteShape DEF Shape, TypeOK
<1>15. ASSUME NEW r \in Requests, NEW i \in Invites, InviteWrite(r, i) PROVE Shape'
  BY <1>15, WriteShape DEF InviteWrite, Shape, TypeOK, TxnShape, RowsOK, Row, Txn
<1>16. ASSUME NEW r \in Requests, NEW c \in Channels, CreateWrite(r, c) PROVE Shape'
  <2> DEFINE s == txn[r].server
             n == txn[r].name
  <2>0. s \in Servers /\ n \in Names /\ server[s] # "none"
    BY <1>16 DEF CreateWrite, Shape, TypeOK, TxnShape, Txn
  <2>1. /\ End(r) /\ channel[c].status = "none"
        /\ UNCHANGED <<server, ownerId, role, home, uses, knownMembers, disputed, contested>>
        /\ channel' = [channel EXCEPT ![c] = [status |-> "live", server |-> s, name |-> n]]
        /\ knownName' = [knownName EXCEPT ![c] = n]
    BY <1>16 DEF CreateWrite, TellName
  <2> HIDE DEF s, n
  <2>2. channel' \in [Channels -> Row]
    BY <2>0, <2>1 DEF Shape, TypeOK, Row
  <2>3. knownName' \in [Channels -> Names \cup {NoName}]
    BY <2>0, <2>1 DEF Shape, TypeOK
  <2>4. /\ channel'[c].status = "live" /\ channel'[c].server = s /\ channel'[c].name = n
        /\ \A d \in Channels : d # c => channel'[d] = channel[d]
    BY <2>1 DEF Shape, TypeOK
  <2>5. RowsOK'
    BY <2>0, <2>1, <2>4 DEF Shape, RowsOK
  <2> QED BY <2>1, <2>2, <2>3, <2>4, <2>5, WriteShape DEF Shape, TypeOK
<1>17. ASSUME NEW r \in Requests, RenameWrite(r) PROVE Shape'
  <2> DEFINE c == txn[r].channel
             n == txn[r].name
  <2>0. c \in Channels /\ n \in Names
    BY <1>17 DEF RenameWrite, Shape, TypeOK, TxnShape, Txn
  <2>1. /\ End(r)
        /\ UNCHANGED <<server, ownerId, role, home, uses, knownMembers, disputed, contested>>
        /\ channel' = [channel EXCEPT ![c].name = n] \/ UNCHANGED channel
        /\ knownName' = [knownName EXCEPT ![c] = n] \/ UNCHANGED knownName
    BY <1>17 DEF RenameWrite, TellName
  <2> HIDE DEF c, n
  <2>2. channel' \in [Channels -> Row] /\ knownName' \in [Channels -> Names \cup {NoName}]
    <3>0. channel \in [Channels -> Row] /\ knownName \in [Channels -> Names \cup {NoName}]
      BY DEF Shape, TypeOK
    <3>1. channel[c] \in Row /\ [channel[c] EXCEPT !.name = n] \in Row
      BY <2>0, <3>0 DEF Row
    <3>2. channel' \in [Channels -> Row]
      BY <2>0, <2>1, <3>0, <3>1
    <3> QED BY <2>0, <2>1, <3>0, <3>2
  <2>3. \A d \in Channels : /\ channel'[d].status = channel[d].status
                           /\ channel'[d].server = channel[d].server
                           /\ channel'[d].name \in {channel[d].name, n}
    BY <2>0, <2>1 DEF Shape, TypeOK, Row
  <2>4. RowsOK'
    BY <2>0, <2>1, <2>3 DEF Shape, RowsOK
  <2> QED BY <2>1, <2>2, <2>3, <2>4, WriteShape DEF Shape, TypeOK
<1>18. ASSUME NEW r \in Requests, RemoveWrite(r) PROVE Shape'
  <2> DEFINE c == txn[r].channel
  <2>0. c \in Channels /\ channel[c].status # "none"
    BY <1>18 DEF RemoveWrite, Shape, TypeOK, TxnShape, Txn
  <2>1. /\ End(r)
        /\ UNCHANGED <<server, ownerId, role, home, uses, knownMembers, disputed, contested>>
        /\ channel' = [channel EXCEPT ![c].status = "deleted"]
        /\ knownName' = [knownName EXCEPT ![c] = NoName]
    BY <1>18 DEF RemoveWrite, TellName
  <2> HIDE DEF c
  <2>2. channel' \in [Channels -> Row] /\ knownName' \in [Channels -> Names \cup {NoName}]
    <3>0. channel \in [Channels -> Row] /\ knownName \in [Channels -> Names \cup {NoName}]
      BY DEF Shape, TypeOK
    <3>1. channel[c] \in Row /\ [channel[c] EXCEPT !.status = "deleted"] \in Row
      BY <2>0, <3>0 DEF Row
    <3>2. channel' \in [Channels -> Row]
      BY <2>0, <2>1, <3>0, <3>1
    <3>3. knownName' \in [Channels -> Names \cup {NoName}]
      BY <2>0, <2>1, <3>0
    <3> QED BY <3>2, <3>3
  <2>3. \A d \in Channels : /\ channel'[d].status # "none" <=> channel[d].status # "none"
                           /\ channel'[d].server = channel[d].server
                           /\ channel'[d].name = channel[d].name
    BY <2>0, <2>1 DEF Shape, TypeOK, Row
  <2>4. RowsOK'
    BY <2>1, <2>3 DEF Shape, RowsOK
  <2> QED BY <2>1, <2>2, <2>3, <2>4, WriteShape DEF Shape, TypeOK
<1>19. ASSUME NEW r \in Requests, Abort(r) PROVE Shape'
  BY <1>19, WriteShape DEF Abort, ReadOnly, Shape, TypeOK, TxnShape, RowsOK, Row, Txn
<1>20. ASSUME NEW r \in Requests, JoinWrite(r) \/ LeaveWrite(r) PROVE Shape'
  <2>1. PICK x \in Txn :
            /\ txn' = [txn EXCEPT ![r] = x]
            /\ x.op = IF JoinWrite(r) THEN "joinCommit" ELSE "leaveCommit"
            /\ x.user = txn[r].user /\ x.server = txn[r].server /\ x.invite = txn[r].invite
    BY <1>20, Writes DEF Shape
  <2>2. UNCHANGED <<db, known, contested>> /\ disputed' \subseteq Servers
    BY <1>20, Writes DEF Shape, TypeOK, ReadOnly
  <2>3. /\ txn[r].op = IF JoinWrite(r) THEN "joinWrite" ELSE "leave"
        /\ txn[r].user \in Users /\ txn[r].server \in Servers /\ server[txn[r].server] # "none"
        /\ JoinWrite(r) => txn[r].invite \in Invites
    BY <1>20 DEF JoinWrite, LeaveWrite, Shape, TxnShape
  <2> QED BY <2>1, <2>2, <2>3, ReadShape
<1>21. CASE UNCHANGED vars
  BY <1>21 DEF vars, Shape, TypeOK, TxnShape, RowsOK
<1> QED
  BY <1>1, <1>2, <1>3, <1>4, <1>5, <1>6, <1>7, <1>8, <1>9, <1>10, <1>11, <1>12, <1>13, <1>14,
     <1>15, <1>16, <1>17, <1>18, <1>19, <1>20, <1>21 DEF Next

-----------------------------------------------------------------------------
\* Counting transactions.

LEMMA Counting ==
  /\ Cardinality(Requests) \in Nat \ {0}
  /\ \A S \in SUBSET Requests : /\ IsFiniteSet(S) /\ Cardinality(S) \in Nat
                                /\ Cardinality(S) <= Cardinality(Requests)
                                /\ \A T \in SUBSET S : Cardinality(T) <= Cardinality(S)
                                /\ \A r \in S : Cardinality(S \ {r}) = Cardinality(S) - 1
<1>1. IsFiniteSet(Requests) /\ Requests # {}
  OBVIOUS
<1>2. Cardinality(Requests) \in Nat \ {0}
  BY <1>1, FS_CardinalityType, FS_EmptySet
<1>3. ASSUME NEW S \in SUBSET Requests
      PROVE  /\ IsFiniteSet(S) /\ Cardinality(S) \in Nat
             /\ Cardinality(S) <= Cardinality(Requests)
  BY <1>1, FS_Subset, FS_CardinalityType
<1>4. ASSUME NEW S \in SUBSET Requests, NEW T \in SUBSET S
      PROVE  Cardinality(T) <= Cardinality(S)
  BY <1>3, FS_Subset
<1>5. ASSUME NEW S \in SUBSET Requests, NEW r \in S
      PROVE  Cardinality(S \ {r}) = Cardinality(S) - 1
  BY <1>3, FS_RemoveElement
<1> QED BY <1>2, <1>3, <1>4, <1>5

\* A transaction that goes to x joins, or creates, only if x does.
LEMMA Moves ==
  ASSUME TypeOK, NEW r \in Requests, NEW x \in Txn, txn' = [txn EXCEPT ![r] = x]
  PROVE  /\ x.op \notin {"join", "joinWrite", "joinCommit"} => \A i \in Invites : Joining(i)' \subseteq Joining(i)
         /\ x.op \notin {"create", "createWrite"} =>
                \A s \in Servers : Creating(s)' \subseteq Creating(s)
  BY Step DEF Joining, Creating

\* The steps of the calls other than joins and creations.
Other(r) ==
    \/ \E u \in Users, s \in Servers : LeaveRead(r, u, s) \/ DeleteRead(r, u, s) \/ InviteRead(r, u, s)
    \/ \E s \in Servers : TransferRead(r, s)
    \/ \E u \in Users, c \in Channels : RemoveRead(r, u, c) \/ \E n \in Names : RenameRead(r, u, c, n)
    \/ LeaveCommit(r) \/ DeleteWrite(r) \/ TransferWrite(r) \/ \E i \in Invites : InviteWrite(r, i)
    \/ RenameWrite(r) \/ RemoveWrite(r) \/ Abort(r)

\* What a transaction is that neither joins nor creates, and wrote no member row.
Quiescent == {x \in Txn : /\ x.op \notin {"join", "joinWrite", "joinCommit", "create", "createWrite"}
                          /\ x.op # "leaveCommit" /\ ~x.wrote}

LEMMA Others ==
  ASSUME Shape, NEW r \in Requests, Other(r)
  PROVE  /\ UNCHANGED uses
         /\ \E x \in Quiescent : txn' = [txn EXCEPT ![r] = x]
<1> DEFINE P == \E x \in Quiescent : txn' = [txn EXCEPT ![r] = x]
<1>0. UNCHANGED uses
  BY DEF Other, ReadOnly, LeaveRead, DeleteRead, InviteRead, TransferRead, RemoveRead, RenameRead,
         LeaveCommit, DeleteWrite, TransferWrite, InviteWrite, RenameWrite, RemoveWrite, Abort
<1>1. ASSUME NEW u \in Users, NEW s \in Servers, LeaveRead(r, u, s) PROVE P
  <2> DEFINE x == [Idle EXCEPT !.op = "leave", !.user = u, !.server = s]
  <2>1. x \in Quiescent
    BY DEF Quiescent, Idle, Txn, Op
  <2> QED BY <1>1, <2>1 DEF LeaveRead, Begin
<1>2. ASSUME NEW u \in Users, NEW s \in Servers, DeleteRead(r, u, s) PROVE P
  <2> DEFINE x == [Idle EXCEPT !.op = "delete", !.user = u, !.server = s]
  <2>1. x \in Quiescent
    BY DEF Quiescent, Idle, Txn, Op
  <2> QED BY <1>2, <2>1 DEF DeleteRead, Begin
<1>3. ASSUME NEW u \in Users, NEW s \in Servers, InviteRead(r, u, s) PROVE P
  <2> DEFINE x == [Idle EXCEPT !.op = "invite", !.user = u, !.server = s]
  <2>1. x \in Quiescent
    BY DEF Quiescent, Idle, Txn, Op
  <2> QED BY <1>3, <2>1 DEF InviteRead, Begin
<1>4. ASSUME NEW s \in Servers, TransferRead(r, s) PROVE P
  <2> PICK heir \in Heirs(s) :
            Begin(r, [Idle EXCEPT !.op = "transfer", !.user = heir, !.server = s])
    BY <1>4 DEF TransferRead
  <2> DEFINE x == [Idle EXCEPT !.op = "transfer", !.user = heir, !.server = s]
  <2>1. x \in Quiescent
    BY DEF Heirs, Quiescent, Idle, Txn, Op
  <2> QED BY <2>1 DEF Begin
<1>5. ASSUME NEW u \in Users, NEW c \in Channels, RemoveRead(r, u, c) PROVE P
  <2> DEFINE x == [Idle EXCEPT !.op = "remove", !.user = u, !.channel = c,
                             !.server = channel[c].server]
  <2>1. x \in Quiescent
    BY <1>5 DEF RemoveRead, Quiescent, Idle, Txn, Op, Shape, RowsOK
  <2> QED BY <1>5, <2>1 DEF RemoveRead, Begin
<1>6. ASSUME NEW u \in Users, NEW c \in Channels, NEW n \in Names, RenameRead(r, u, c, n) PROVE P
  <2> DEFINE x == [Idle EXCEPT !.op = "rename", !.user = u, !.channel = c, !.name = n,
                             !.server = channel[c].server]
  <2>1. x \in Quiescent
    BY <1>6 DEF RenameRead, Quiescent, Idle, Txn, Op, Shape, RowsOK
  <2> QED BY <1>6, <2>1 DEF RenameRead, Begin
<1>7. ASSUME End(r) PROVE P
  BY <1>7, IdleFacts DEF End, Quiescent
<1>8. \/ \E u \in Users, s \in Servers : LeaveRead(r, u, s) \/ DeleteRead(r, u, s) \/ InviteRead(r, u, s)
      \/ \E s \in Servers : TransferRead(r, s)
      \/ \E u \in Users, c \in Channels : RemoveRead(r, u, c) \/ \E n \in Names : RenameRead(r, u, c, n)
      \/ End(r)
  BY DEF Other, LeaveCommit, DeleteWrite, TransferWrite, InviteWrite, RenameWrite, RemoveWrite, Abort
<1> HIDE DEF P
<1>9. P
  BY <1>1, <1>2, <1>3, <1>4, <1>5, <1>6, <1>7, <1>8
<1> QED BY <1>0, <1>9 DEF P

\* What a step can be, as far as counting goes.
LEMMA Steps ==
  ASSUME [Next]_vars
  PROVE  \/ \E s \in Servers, u \in Users, c \in Channels : CreateServer(s, u, c)
         \/ \E r \in Requests :
              \/ \E u \in Users, i \in Invites : JoinRead(r, u, i)
              \/ \E u \in Users, s \in Servers, n \in Names : CreateRead(r, u, s, n)
              \/ JoinCheck(r) \/ JoinWrite(r) \/ JoinCommit(r) \/ CreateCheck(r) \/ LeaveWrite(r)
              \/ \E c \in Channels : CreateWrite(r, c)
              \/ Other(r)
         \/ UNCHANGED vars
  BY DEF Next, Other
\* JoinRead looks at the uses when it starts to count; from then on the
\* transactions at work are its equals, and no more of them than can be open.
LEMMA NextUses == Shape /\ UsesCounted /\ [Next]_vars => UsesCounted'
<1> SUFFICES ASSUME Shape, UsesCounted, [Next]_vars PROVE UsesCounted'
  OBVIOUS
<1>0. \A i \in Invites : Joining(i) \subseteq Requests /\ Joining(i)' \subseteq Requests
  BY DEF Joining
<1>t. uses \in [Invites -> Nat] /\ Cardinality(Requests) \in Nat
  BY Counting DEF Shape, TypeOK
<1>a. ASSUME UNCHANGED uses, \A i \in Invites : Joining(i)' \subseteq Joining(i)
      PROVE  UsesCounted'
  <2> SUFFICES ASSUME NEW i \in Invites
               PROVE  uses[i] + Cardinality(Joining(i)') <= MaxUses + Cardinality(Requests) - 1
    BY <1>a DEF UsesCounted
  <2>1. /\ Cardinality(Joining(i)') <= Cardinality(Joining(i))
        /\ Cardinality(Joining(i)') \in Nat /\ Cardinality(Joining(i)) \in Nat
    BY <1>0, <1>a, Counting
  <2>2. uses[i] + Cardinality(Joining(i)) <= MaxUses + Cardinality(Requests) - 1
    BY DEF UsesCounted
  <2> QED BY <1>t, <2>1, <2>2
<1>1. ASSUME NEW r \in Requests, NEW u \in Users, NEW i \in Invites, JoinRead(r, u, i)
      PROVE  UsesCounted'
  <2>1. UNCHANGED uses /\ uses[i] < MaxUses
    BY <1>1 DEF JoinRead, MayUse, ReadOnly
  <2>2. ASSUME NEW j \in Invites, j # i PROVE Joining(j)' \subseteq Joining(j)
    BY <1>1, <2>2 DEF JoinRead, Begin, Joining, Shape, TypeOK, Idle
  <2> SUFFICES ASSUME NEW j \in Invites
               PROVE  uses[j] + Cardinality(Joining(j)') <= MaxUses + Cardinality(Requests) - 1
    BY <2>1 DEF UsesCounted
  <2>3. CASE j = i
    <3>1. Cardinality(Joining(i)') <= Cardinality(Requests) /\ Cardinality(Joining(i)') \in Nat
      BY <1>0, Counting
    <3> QED BY <1>t, <2>1, <2>3, <3>1
  <2>4. CASE j # i
    <3>1. /\ Cardinality(Joining(j)') <= Cardinality(Joining(j))
          /\ Cardinality(Joining(j)') \in Nat /\ Cardinality(Joining(j)) \in Nat
      BY <1>0, <2>2, <2>4, Counting
    <3>2. uses[j] + Cardinality(Joining(j)) <= MaxUses + Cardinality(Requests) - 1
      BY DEF UsesCounted
    <3> QED BY <1>t, <3>1, <3>2
  <2> QED BY <2>3, <2>4
<1>2. ASSUME NEW r \in Requests, JoinCheck(r) PROVE UsesCounted'
  <2>1. \A i \in Invites : Joining(i)' \subseteq Joining(i)
    BY <1>2 DEF JoinCheck, Goto, Joining, Shape, TypeOK, Txn
  <2> QED BY <1>2, <1>a, <2>1 DEF JoinCheck, ReadOnly
<1>3. ASSUME NEW r \in Requests, JoinCommit(r) PROVE UsesCounted'
  <2> DEFINE i == txn[r].invite
  <2>1. i \in Invites /\ r \in Joining(i) /\ uses' = [uses EXCEPT ![i] = @ + 1]
    BY <1>3 DEF JoinCommit, Shape, TxnShape, Joining
  <2>2. \A j \in Invites : Joining(j)' \subseteq Joining(j) \ {r}
    BY <1>3, IdleFacts DEF JoinCommit, End, Joining, Shape, TypeOK
  <2> HIDE DEF i
  <2> SUFFICES ASSUME NEW j \in Invites
               PROVE  uses'[j] + Cardinality(Joining(j)') <= MaxUses + Cardinality(Requests) - 1
    BY DEF UsesCounted
  <2>3. Joining(j) \ {r} \subseteq Requests /\ Joining(j)' \subseteq Joining(j) \ {r}
    BY <1>0, <2>2
  <2>4. /\ Cardinality(Joining(j)') <= Cardinality(Joining(j) \ {r})
        /\ Cardinality(Joining(j)') \in Nat /\ Cardinality(Joining(j)) \in Nat
        /\ Cardinality(Joining(j) \ {r}) <= Cardinality(Joining(j))
        /\ Cardinality(Joining(j) \ {r}) \in Nat
    BY <1>0, <2>3, Counting
  <2>5. j = i => Cardinality(Joining(j) \ {r}) = Cardinality(Joining(j)) - 1
    BY <1>0, <2>1, Counting
  <2>6. uses[j] + Cardinality(Joining(j)) <= MaxUses + Cardinality(Requests) - 1
    BY DEF UsesCounted
  <2>7. uses'[j] = IF j = i THEN uses[j] + 1 ELSE uses[j]
    BY <1>t, <2>1
  <2> QED BY <1>t, <2>4, <2>5, <2>6, <2>7
<1>4. ASSUME NEW r \in Requests, NEW u \in Users, NEW s \in Servers, NEW n \in Names, CreateRead(r, u, s, n)
      PROVE  UsesCounted'
  <2>1. \A i \in Invites : Joining(i)' \subseteq Joining(i)
    BY <1>4, IdleFacts DEF CreateRead, Begin, Idle, Joining, Shape, TypeOK
  <2> QED BY <1>4, <1>a, <2>1 DEF CreateRead, ReadOnly
<1>5. ASSUME NEW r \in Requests, CreateCheck(r) PROVE UsesCounted'
  <2>1. \A i \in Invites : Joining(i)' \subseteq Joining(i)
    BY <1>5 DEF CreateCheck, Goto, Joining, Shape, TypeOK, Txn
  <2> QED BY <1>5, <1>a, <2>1 DEF CreateCheck, ReadOnly
<1>6. ASSUME NEW s \in Servers, NEW u \in Users, NEW c \in Channels, CreateServer(s, u, c)
      PROVE  UsesCounted'
  BY <1>6, <1>a DEF CreateServer, Joining
<1>7. CASE UNCHANGED vars
  BY <1>7, <1>a DEF vars, Joining
<1>8. ASSUME NEW r \in Requests, Other(r) PROVE UsesCounted'
  BY <1>8, <1>a, Others, Moves DEF Shape, Quiescent
<1>9. ASSUME NEW r \in Requests, NEW c \in Channels, CreateWrite(r, c) PROVE UsesCounted'
  BY <1>9, <1>a, Moves, IdleFacts DEF CreateWrite, End, Shape
<1>10. ASSUME NEW r \in Requests, JoinWrite(r) \/ LeaveWrite(r) PROVE UsesCounted'
  <2>1. PICK x \in Txn :
            /\ txn' = [txn EXCEPT ![r] = x] /\ x.invite = txn[r].invite
            /\ x.op = IF JoinWrite(r) THEN "joinCommit" ELSE "leaveCommit"
    BY <1>10, Writes DEF Shape
  <2>2. JoinWrite(r) => txn[r].op = "joinWrite"
    BY DEF JoinWrite
  <2>3. \A i \in Invites : Joining(i)' \subseteq Joining(i)
    BY <2>1, <2>2 DEF Joining, Shape, TypeOK
  <2> QED BY <1>10, <1>a, <2>3, Writes DEF Shape, ReadOnly
<1> QED
  BY <1>1, <1>2, <1>3, <1>4, <1>5, <1>6, <1>7, <1>8, <1>9, <1>10, Steps

-----------------------------------------------------------------------------
\* Counting channels.

LEMMA LiveFinite ==
  \A S \in SUBSET Channels : /\ IsFiniteSet(S) /\ Cardinality(S) \in Nat
                             /\ \A T \in SUBSET S : Cardinality(T) <= Cardinality(S)
                             /\ \A c \in Channels :
                                    Cardinality(S \cup {c}) <= Cardinality(S) + 1
<1>1. ASSUME NEW S \in SUBSET Channels PROVE IsFiniteSet(S) /\ Cardinality(S) \in Nat
  BY FS_Subset, FS_CardinalityType
<1>2. ASSUME NEW S \in SUBSET Channels, NEW T \in SUBSET S
      PROVE  Cardinality(T) <= Cardinality(S)
  BY <1>1, FS_Subset
<1>3. ASSUME NEW S \in SUBSET Channels, NEW c \in Channels
      PROVE  Cardinality(S \cup {c}) <= Cardinality(S) + 1
  BY <1>1, FS_AddElement
<1> QED BY <1>1, <1>2, <1>3

\* Channels come to life only by a creation.
LEMMA OthersChannels ==
  ASSUME Shape, NEW r \in Requests, Other(r)
  PROVE  \A s \in Servers : LiveChannels(s)' \subseteq LiveChannels(s)
<1>1. CASE UNCHANGED channel
  BY <1>1 DEF LiveChannels
<1>2. CASE RenameWrite(r)
  <2>1. \A d \in Channels : /\ channel'[d].status = channel[d].status
                           /\ channel'[d].server = channel[d].server
    <3>1. \/ UNCHANGED channel
          \/ /\ txn[r].channel \in Channels
             /\ channel' = [channel EXCEPT ![txn[r].channel].name = txn[r].name]
      BY <1>2 DEF RenameWrite, Shape, TxnShape
    <3>2. channel \in [Channels -> Row]
      BY DEF Shape, TypeOK
    <3>3. CASE UNCHANGED channel
      BY <3>3
    <3>4. CASE /\ txn[r].channel \in Channels
               /\ channel' = [channel EXCEPT ![txn[r].channel].name = txn[r].name]
      BY <3>2, <3>4 DEF Row
    <3> QED BY <3>1, <3>3, <3>4
  <2> QED BY <2>1 DEF LiveChannels
<1>3. CASE RemoveWrite(r)
  <2>1. \A d \in Channels : /\ channel'[d].status = "live" => channel[d].status = "live"
                           /\ channel'[d].server = channel[d].server
    <3>1. /\ txn[r].channel \in Channels
          /\ channel' = [channel EXCEPT ![txn[r].channel].status = "deleted"]
      BY <1>3 DEF RemoveWrite, Shape, TxnShape
    <3> QED BY <3>1 DEF Shape, TypeOK, Row
  <2> QED BY <2>1 DEF LiveChannels
<1> QED
  BY <1>1, <1>2, <1>3
     DEF Other, ReadOnly, LeaveRead, DeleteRead, InviteRead, TransferRead, RemoveRead, RenameRead,
         LeaveCommit, DeleteWrite, TransferWrite, InviteWrite, Abort

\* CreateRead counts the channels when it starts to count itself.
LEMMA NextChannels == Shape /\ ChannelsCounted /\ [Next]_vars => ChannelsCounted'
<1> SUFFICES ASSUME Shape, ChannelsCounted, [Next]_vars PROVE ChannelsCounted'
  OBVIOUS
<1> DEFINE Bound == MaxChannels + Cardinality(Requests) - 1
           Live(s) == Cardinality(LiveChannels(s))
           Open(s) == Cardinality(Creating(s))
<1>0. \A s \in Servers : /\ Creating(s) \subseteq Requests /\ Creating(s)' \subseteq Requests
                         /\ LiveChannels(s) \subseteq Channels /\ LiveChannels(s)' \subseteq Channels
  BY DEF Creating, LiveChannels
<1>t. /\ Cardinality(Requests) \in Nat \ {0} /\ Bound \in Nat /\ Bound >= MaxChannels
      /\ Bound >= Cardinality(Requests)
      /\ \A s \in Servers : Live(s) \in Nat /\ Live(s)' \in Nat /\ Open(s) \in Nat /\ Open(s)' \in Nat
  BY <1>0, Counting, LiveFinite
<1>h. \A s \in Servers : Live(s) + Open(s) <= Bound
  BY DEF ChannelsCounted
<1>g. SUFFICES ASSUME NEW s \in Servers PROVE Live(s)' + Open(s)' <= Bound
  BY DEF ChannelsCounted
<1>i. LiveChannels(s)' \subseteq LiveChannels(s) => Live(s)' <= Live(s)
  BY <1>0, LiveFinite
<1>j. Creating(s)' \subseteq Creating(s) => Open(s)' <= Open(s)
  BY <1>0, Counting
<1> HIDE DEF Bound, Live, Open
<1>a. ASSUME LiveChannels(s)' \subseteq LiveChannels(s), Creating(s)' \subseteq Creating(s)
      PROVE  Live(s)' + Open(s)' <= Bound
  BY <1>a, <1>i, <1>j, <1>h, <1>t
<1>1. ASSUME NEW t \in Servers, NEW u \in Users, NEW c \in Channels, CreateServer(t, u, c)
      PROVE  Live(s)' + Open(s)' <= Bound
  <2>1. Creating(s)' = Creating(s)
    BY <1>1 DEF CreateServer, Creating
  <2>2. CASE s # t
    <3>1. LiveChannels(s)' \subseteq LiveChannels(s)
      BY <1>1, <2>2 DEF CreateServer, LiveChannels, Shape, TypeOK
    <3> QED BY <1>a, <2>1, <3>1
  <2>3. CASE s = t
    <3>1. Creating(s) = {} /\ LiveChannels(s) = {}
      BY <1>1, <2>3 DEF CreateServer, Creating, LiveChannels, Shape, TxnShape, RowsOK
    <3>2. LiveChannels(s)' \subseteq {c}
      BY <1>1, <2>3, <3>1 DEF CreateServer, LiveChannels, Shape, TypeOK
    <3>3. Live(s)' <= 1
      <4>1. IsFiniteSet({c}) /\ Cardinality({c}) = 1
        BY FS_Singleton
      <4>2. Cardinality(LiveChannels(s)') <= Cardinality({c})
        BY <3>2, <4>1, FS_Subset
      <4> QED BY <4>1, <4>2 DEF Live
    <3>4. Open(s)' = 0
      BY <2>1, <3>1, FS_EmptySet DEF Open
    <3> QED BY <3>3, <3>4, <1>t
  <2> QED BY <2>2, <2>3
<1>2. ASSUME NEW r \in Requests, NEW u \in Users, NEW t \in Servers, NEW n \in Names, CreateRead(r, u, t, n)
      PROVE  Live(s)' + Open(s)' <= Bound
  <2>1. LiveChannels(s)' = LiveChannels(s) /\ Live(s)' = Live(s)
    BY <1>2 DEF CreateRead, ReadOnly, LiveChannels, Live
  <2>2. CASE s # t
    <3> DEFINE x == [Idle EXCEPT !.op = "create", !.user = u, !.server = t, !.name = n]
    <3>1. x.server = t /\ txn' = [txn EXCEPT ![r] = x]
      BY <1>2 DEF CreateRead, Begin, Idle
    <3> HIDE DEF x
    <3>2. Creating(s)' \subseteq Creating(s)
      BY <2>2, <3>1 DEF Creating, Shape, TypeOK
    <3> QED BY <1>a, <2>1, <3>2
  <2>3. CASE s = t
    <3>1. Live(s) <= MaxChannels - 1
      BY <1>2, <2>3, <1>t DEF CreateRead, MayAdd, Live
    <3>2. Open(s)' <= Cardinality(Requests)
      BY <1>0, Counting DEF Open
    <3> QED BY <2>1, <3>1, <3>2, <1>t DEF Bound
  <2> QED BY <2>2, <2>3
<1>3. ASSUME NEW r \in Requests, CreateCheck(r) PROVE Live(s)' + Open(s)' <= Bound
  <2>1. Creating(s)' \subseteq Creating(s)
    <3>1. txn[r].op = "create" /\ txn' = [txn EXCEPT ![r].op = "createWrite"]
      BY <1>3 DEF CreateCheck, Goto
    <3> QED BY <3>1 DEF Creating, Shape, TypeOK, Txn
  <2> QED BY <1>3, <1>a, <2>1 DEF CreateCheck, ReadOnly, LiveChannels
<1>4. ASSUME NEW r \in Requests, NEW c \in Channels, CreateWrite(r, c)
      PROVE  Live(s)' + Open(s)' <= Bound
  <2>1. Creating(s)' \subseteq Creating(s) \ {r}
    BY <1>4, IdleFacts DEF CreateWrite, End, Creating, Shape, TypeOK
  <2>2. /\ LiveChannels(s)' \subseteq LiveChannels(s) \cup {c}
        /\ s # txn[r].server => LiveChannels(s)' \subseteq LiveChannels(s)
    BY <1>4 DEF CreateWrite, LiveChannels, Shape, TypeOK
  <2>3. CASE s # txn[r].server
    BY <1>a, <2>1, <2>2, <2>3
  <2>4. CASE s = txn[r].server
    <3>1. r \in Creating(s)
      BY <1>4, <2>4 DEF CreateWrite, Creating
    <3>2. Open(s)' <= Open(s) - 1
      <4>1. Cardinality(Creating(s) \ {r}) = Open(s) - 1
        BY <1>0, <3>1, Counting DEF Open
      <4>2. Creating(s) \ {r} \subseteq Requests
        BY <1>0
      <4>3. Open(s)' <= Cardinality(Creating(s) \ {r})
        BY <2>1, <4>2, Counting DEF Open
      <4> QED BY <4>1, <4>3
    <3>3. Live(s)' <= Live(s) + 1
      <4>1. LiveChannels(s) \cup {c} \subseteq Channels
        BY <1>0
      <4>2. Cardinality(LiveChannels(s) \cup {c}) <= Live(s) + 1
        BY <1>0, LiveFinite DEF Live
      <4>3. Live(s)' <= Cardinality(LiveChannels(s) \cup {c}) /\ Cardinality(LiveChannels(s) \cup {c}) \in Nat
        BY <2>2, <4>1, LiveFinite DEF Live
      <4> QED BY <4>2, <4>3, <1>t
    <3> QED BY <3>2, <3>3, <1>h, <1>t
  <2> QED BY <2>3, <2>4
<1>5. ASSUME NEW r \in Requests, Other(r) PROVE Live(s)' + Open(s)' <= Bound
  <2>1. Creating(s)' \subseteq Creating(s)
    BY <1>5, Others, Moves DEF Shape, Quiescent
  <2> QED BY <1>5, <1>a, <2>1, OthersChannels
<1>6. ASSUME NEW r \in Requests, NEW u \in Users, NEW i \in Invites, JoinRead(r, u, i)
      PROVE  Live(s)' + Open(s)' <= Bound
  <2> DEFINE x == [Idle EXCEPT !.op = "join", !.user = u, !.invite = i, !.server = home[i]]
  <2>1. x.op = "join" /\ txn' = [txn EXCEPT ![r] = x]
    BY <1>6 DEF JoinRead, Begin, Idle
  <2> HIDE DEF x
  <2>2. Creating(s)' \subseteq Creating(s)
    BY <2>1 DEF Creating, Shape, TypeOK
  <2> QED BY <1>6, <1>a, <2>2 DEF JoinRead, ReadOnly, LiveChannels
<1>7. ASSUME NEW r \in Requests, JoinCheck(r) PROVE Live(s)' + Open(s)' <= Bound
  <2>1. Creating(s)' \subseteq Creating(s)
    <3>1. txn[r].op = "join" /\ txn' = [txn EXCEPT ![r].op = "joinWrite"]
      BY <1>7 DEF JoinCheck, Goto
    <3> QED BY <3>1 DEF Creating, Shape, TypeOK, Txn
  <2> QED BY <1>7, <1>a, <2>1 DEF JoinCheck, ReadOnly, LiveChannels
<1>8. ASSUME NEW r \in Requests, JoinCommit(r) PROVE Live(s)' + Open(s)' <= Bound
  <2>1. Creating(s)' \subseteq Creating(s)
    BY <1>8, Moves, IdleFacts DEF JoinCommit, End, Shape
  <2> QED BY <1>8, <1>a, <2>1 DEF JoinCommit, LiveChannels
<1>9. CASE UNCHANGED vars
  BY <1>9, <1>a DEF vars, Creating, LiveChannels
<1>10. ASSUME NEW r \in Requests, JoinWrite(r) \/ LeaveWrite(r)
       PROVE  Live(s)' + Open(s)' <= Bound
  <2>1. PICK x \in Txn :
            /\ txn' = [txn EXCEPT ![r] = x]
            /\ x.op = IF JoinWrite(r) THEN "joinCommit" ELSE "leaveCommit"
    BY <1>10, Writes DEF Shape
  <2>2. Creating(s)' \subseteq Creating(s)
    BY <2>1 DEF Creating, Shape, TypeOK
  <2> QED BY <1>10, <1>a, <2>2, Writes DEF Shape, ReadOnly, LiveChannels
<1> QED
  BY <1>1, <1>2, <1>3, <1>4, <1>5, <1>6, <1>7, <1>8, <1>9, <1>10, Steps

-----------------------------------------------------------------------------
\* Few steps write roles or channels, and these are the ones told about.
LEMMA Effects ==
  ASSUME [Next]_vars
  PROVE  \/ \E s \in Servers, u \in Users, c \in Channels : CreateServer(s, u, c)
         \/ \E r \in Requests : \/ JoinCommit(r) \/ LeaveCommit(r) \/ TransferWrite(r)
                                \/ \E c \in Channels : CreateWrite(r, c)
                                \/ RenameWrite(r) \/ RemoveWrite(r)
         \/ UNCHANGED <<role, knownMembers, contested, channel, knownName>>
<1>1. ASSUME NEW r \in Requests, ReadOnly
      PROVE  UNCHANGED <<role, knownMembers, contested, channel, knownName>>
  BY <1>1 DEF ReadOnly
<1>2. ASSUME NEW r \in Requests, Other(r)
      PROVE  \/ LeaveCommit(r) \/ TransferWrite(r) \/ RenameWrite(r) \/ RemoveWrite(r)
             \/ UNCHANGED <<role, knownMembers, contested, channel, knownName>>
  BY <1>2 DEF Other, ReadOnly, LeaveRead, DeleteRead, InviteRead, TransferRead, RemoveRead,
              RenameRead, DeleteWrite, InviteWrite, Abort
<1>3. ASSUME NEW r \in Requests,
             \/ \E u \in Users, i \in Invites : JoinRead(r, u, i)
             \/ \E u \in Users, s \in Servers, n \in Names : CreateRead(r, u, s, n)
             \/ JoinCheck(r) \/ CreateCheck(r) \/ JoinWrite(r) \/ LeaveWrite(r)
      PROVE  UNCHANGED <<role, knownMembers, contested, channel, knownName>>
  BY <1>1, <1>3 DEF JoinRead, CreateRead, JoinCheck, CreateCheck, JoinWrite, LeaveWrite
<1>4. UNCHANGED vars => UNCHANGED <<role, knownMembers, contested, channel, knownName>>
  BY DEF vars
<1> QED BY Steps, <1>2, <1>3, <1>4


LEMMA NextChannelsKnown == Shape /\ ChannelsKnown /\ [Next]_vars => ChannelsKnown'
<1> SUFFICES ASSUME Shape, ChannelsKnown, [Next]_vars PROVE ChannelsKnown'
  OBVIOUS
<1>t. channel \in [Channels -> Row] /\ knownName \in [Channels -> Names \cup {NoName}]
  BY DEF Shape, TypeOK
<1>n. UNCHANGED <<channel, knownName>> => ChannelsKnown'
  BY DEF ChannelsKnown
<1>1. ASSUME NEW s \in Servers, NEW u \in Users, NEW c \in Channels, CreateServer(s, u, c)
      PROVE  ChannelsKnown'
  BY <1>t, <1>1 DEF CreateServer, TellName, Row, ChannelsKnown
<1>2. ASSUME NEW r \in Requests, JoinCommit(r) \/ LeaveCommit(r) \/ TransferWrite(r)
      PROVE  ChannelsKnown'
  BY <1>2, <1>n DEF JoinCommit, LeaveCommit, TransferWrite
<1>3. ASSUME NEW r \in Requests, NEW c \in Channels, CreateWrite(r, c) PROVE ChannelsKnown'
  BY <1>t, <1>3 DEF CreateWrite, TellName, Row, ChannelsKnown
<1>4. ASSUME NEW r \in Requests, RenameWrite(r) PROVE ChannelsKnown'
  <2> DEFINE c == txn[r].channel
             n == txn[r].name
  <2>1. c \in Channels /\ n \in Names /\ (channel[c].status = "live" => channel[c].name \in Names)
    BY <1>4 DEF RenameWrite, Shape, TxnShape, RowsOK
  <2>2. knownName[c] # NoName <=> channel[c].status = "live"
    BY <2>1 DEF ChannelsKnown
  <2>3. CASE channel[c].status # "live"
    <3>1. UNCHANGED <<channel, knownName>>
      BY <1>4, <2>2, <2>3 DEF RenameWrite
    <3> QED BY <1>n, <3>1
  <2>4. CASE channel[c].status = "live"
    <3>1. /\ channel' = [channel EXCEPT ![c].name = n]
          /\ knownName' = [knownName EXCEPT ![c] = n]
      BY <1>4, <2>2, <2>4 DEF RenameWrite, TellName
    <3> HIDE DEF c, n
    <3> SUFFICES ASSUME NEW d \in Channels
                 PROVE  knownName'[d] = IF channel'[d].status = "live" THEN channel'[d].name ELSE NoName
      BY DEF ChannelsKnown
    <3>2. CASE d = c
      BY <1>t, <2>1, <2>4, <3>1, <3>2 DEF Row
    <3>3. CASE d # c
      BY <1>t, <2>1, <3>1, <3>3 DEF ChannelsKnown
    <3> QED BY <3>2, <3>3
  <2> QED BY <2>3, <2>4
<1>5. ASSUME NEW r \in Requests, RemoveWrite(r) PROVE ChannelsKnown'
  <2> DEFINE c == txn[r].channel
  <2>1. /\ c \in Channels
        /\ channel' = [channel EXCEPT ![c].status = "deleted"]
        /\ knownName' = [knownName EXCEPT ![c] = NoName]
    BY <1>5 DEF RemoveWrite, TellName, Shape, TxnShape
  <2> HIDE DEF c
  <2> SUFFICES ASSUME NEW d \in Channels
               PROVE  knownName'[d] = IF channel'[d].status = "live" THEN channel'[d].name ELSE NoName
    BY DEF ChannelsKnown
  <2>2. CASE d = c
    BY <1>t, <2>1, <2>2 DEF Row
  <2>3. CASE d # c
    BY <1>t, <2>1, <2>3 DEF ChannelsKnown
  <2> QED BY <2>2, <2>3
<1> QED
  BY <1>n, <1>1, <1>2, <1>3, <1>4, <1>5, Effects

-----------------------------------------------------------------------------
\* Members, and the locks of their rows.

\* Nothing is a member that was none, or the reverse.
SameMembers == \A s \in Servers, u \in Users : role'[s][u] = "none" <=> role[s][u] = "none"

LEMMA TransferMembers == ASSUME Shape, NEW r \in Requests, TransferWrite(r) PROVE SameMembers
<1> DEFINE s == txn[r].server
           heir == txn[r].user
<1>t. role \in [Servers -> [Users -> {"none", "MEMBER", "OWNER"}]]
  BY DEF Shape, TypeOK
<1>1. /\ s \in Servers
      /\ \/ UNCHANGED role
         \/ heir \in Users /\ role' = [role EXCEPT ![s][heir] = IF @ = "none" THEN @ ELSE "OWNER"]
  BY DEF TransferWrite, Shape, TypeOK, TxnShape, Txn
<1> HIDE DEF s, heir
<1>2. CASE UNCHANGED role
  BY <1>2 DEF SameMembers
<1>3. CASE heir \in Users /\ role' = [role EXCEPT ![s][heir] = IF @ = "none" THEN @ ELSE "OWNER"]
  BY <1>t, <1>1, <1>3 DEF SameMembers
<1> QED BY <1>1, <1>2, <1>3

\* The steps are of four kinds: new servers, writes and commits of joins and
\* leaves, and the rest, after which the transaction is not between the two.
LEMMA Kinds ==
  ASSUME Shape, LocksOK, [Next]_vars
  PROVE  \/ \E s \in Servers, u \in Users, c \in Channels : CreateServer(s, u, c)
         \/ \E r \in Requests : JoinWrite(r) \/ LeaveWrite(r) \/ JoinCommit(r) \/ LeaveCommit(r)
         \/ /\ SameMembers /\ UNCHANGED <<knownMembers, contested>>
            /\ \E r \in Requests, x \in Txn : /\ txn' = [txn EXCEPT ![r] = x] /\ ~x.wrote
                                             /\ x.op \notin {"joinCommit", "leaveCommit"}
         \/ UNCHANGED vars
<1> DEFINE Rest == /\ SameMembers /\ UNCHANGED <<knownMembers, contested>>
                   /\ \E r \in Requests, x \in Txn :
                         /\ txn' = [txn EXCEPT ![r] = x] /\ ~x.wrote
                         /\ x.op \notin {"joinCommit", "leaveCommit"}
<1>s. UNCHANGED role => SameMembers
  BY DEF SameMembers
<1>r. ASSUME NEW r \in Requests, ReadOnly, NEW x \in Txn, txn' = [txn EXCEPT ![r] = x], ~x.wrote,
             x.op \notin {"joinCommit", "leaveCommit"}
      PROVE  Rest
  BY <1>r, <1>s DEF ReadOnly
<1>1. ASSUME NEW r \in Requests, NEW u \in Users, NEW i \in Invites, JoinRead(r, u, i) PROVE Rest
  <2> DEFINE x == [Idle EXCEPT !.op = "join", !.user = u, !.invite = i, !.server = home[i]]
  <2>1. x \in Txn /\ ~x.wrote /\ x.op \notin {"joinCommit", "leaveCommit"}
    BY <1>1 DEF JoinRead, MayUse, Shape, TypeOK, Idle, Txn, Op
  <2>2. ReadOnly /\ txn' = [txn EXCEPT ![r] = x]
    BY <1>1 DEF JoinRead, Begin
  <2> HIDE DEF x, Rest
  <2> QED BY <1>r, <2>1, <2>2
<1>2. ASSUME NEW r \in Requests, NEW u \in Users, NEW s \in Servers, NEW n \in Names, CreateRead(r, u, s, n)
      PROVE  Rest
  <2> DEFINE x == [Idle EXCEPT !.op = "create", !.user = u, !.server = s, !.name = n]
  <2>1. x \in Txn /\ ~x.wrote /\ x.op \notin {"joinCommit", "leaveCommit"}
    BY DEF Idle, Txn, Op
  <2>2. ReadOnly /\ txn' = [txn EXCEPT ![r] = x]
    BY <1>2 DEF CreateRead, Begin
  <2> HIDE DEF x, Rest
  <2> QED BY <1>r, <2>1, <2>2
<1>3. ASSUME NEW r \in Requests, JoinCheck(r) \/ CreateCheck(r) PROVE Rest
  <2> PICK op \in {"joinWrite", "createWrite"} :
            txn[r].op \in {"join", "create"} /\ Goto(r, op) /\ ReadOnly
    BY <1>3 DEF JoinCheck, CreateCheck
  <2> DEFINE x == [txn[r] EXCEPT !.op = op]
  <2>1. x \in Txn /\ x.op = op /\ x.wrote = txn[r].wrote
    <3>1. txn[r] \in Txn
      BY DEF Shape, TypeOK
    <3> QED BY <3>1 DEF Txn, Op
  <2>2. ~txn[r].wrote
    BY DEF LocksOK
  <2>3. txn' = [txn EXCEPT ![r] = x]
    BY DEF Shape, TypeOK, Goto
  <2> HIDE DEF x, Rest
  <2> QED BY <1>r, <2>1, <2>2, <2>3
<1>4. ASSUME NEW r \in Requests, NEW c \in Channels, CreateWrite(r, c) PROVE Rest
  <2>1. Idle \in Txn /\ ~Idle.wrote /\ Idle.op \notin {"joinCommit", "leaveCommit"}
    BY IdleFacts
  <2>2. txn' = [txn EXCEPT ![r] = Idle] /\ UNCHANGED <<role, knownMembers, contested>>
    BY <1>4 DEF CreateWrite, End
  <2> QED BY <1>s, <2>1, <2>2
<1>5. ASSUME NEW r \in Requests, Other(r), ~LeaveCommit(r) PROVE Rest
  <2>1. PICK x \in Quiescent : txn' = [txn EXCEPT ![r] = x]
    BY <1>5, Others
  <2>2. x \in Txn /\ ~x.wrote /\ x.op \notin {"joinCommit", "leaveCommit"}
    BY DEF Quiescent
  <2>3. SameMembers /\ UNCHANGED <<knownMembers, contested>>
    <3>1. CASE TransferWrite(r)
      BY <3>1, TransferMembers DEF TransferWrite
    <3>2. CASE ~TransferWrite(r)
      <4>1. UNCHANGED <<role, knownMembers, contested>>
        BY <1>5, <3>2 DEF Other, ReadOnly, LeaveRead, DeleteRead, InviteRead, TransferRead, RemoveRead,
                          RenameRead, DeleteWrite, InviteWrite, RenameWrite, RemoveWrite, Abort
      <4> QED BY <1>s, <4>1
    <3> QED BY <3>1, <3>2
  <2> QED BY <2>1, <2>2, <2>3
<1> HIDE DEF Rest
<1>6. \/ Rest
      \/ \E s \in Servers, u \in Users, c \in Channels : CreateServer(s, u, c)
      \/ \E r \in Requests : JoinWrite(r) \/ LeaveWrite(r) \/ JoinCommit(r) \/ LeaveCommit(r)
      \/ UNCHANGED vars
  BY Steps, <1>1, <1>2, <1>3, <1>4, <1>5
<1> QED BY <1>6 DEF Rest

\* Whoever waits for the lock of a member row finds it free or as it left it.
LEMMA NextLocks == Shape /\ LocksOK /\ [Next]_vars => LocksOK'
<1> SUFFICES ASSUME Shape, LocksOK, [Next]_vars PROVE LocksOK'
  OBVIOUS
<1>t. /\ txn \in [Requests -> Txn]
      /\ role \in [Servers -> [Users -> {"none", "MEMBER", "OWNER"}]]
  BY DEF Shape, TypeOK
<1>p. \A q \in Requests : txn[q].wrote => txn[q].server \in Servers /\ txn[q].user \in Users
  BY DEF LocksOK, Shape, TxnShape
<1>1. ASSUME NEW s \in Servers, NEW u \in Users, NEW c \in Channels, CreateServer(s, u, c)
      PROVE  LocksOK'
  <2>1. UNCHANGED txn /\ \A t \in Servers : t # s => role'[t] = role[t]
    BY <1>t, <1>1 DEF CreateServer
  <2>2. \A q \in Requests : txn[q].wrote => txn[q].server # s
    BY <1>1 DEF CreateServer, LocksOK, Shape, TxnShape
  <2> QED BY <1>p, <2>1, <2>2 DEF LocksOK
<1>2. ASSUME NEW r \in Requests, JoinWrite(r) \/ LeaveWrite(r) PROVE LocksOK'
  <2> DEFINE s == txn[r].server
             u == txn[r].user
  <2>1. PICK x \in Txn :
            /\ txn' = [txn EXCEPT ![r] = x]
            /\ x.op = IF JoinWrite(r) THEN "joinCommit" ELSE "leaveCommit"
            /\ x.wrote <=> (role[s][u] = "none" <=> JoinWrite(r))
            /\ x.user = u /\ x.server = s
    BY <1>2, Writes DEF Shape
  <2>2. UNCHANGED role /\ txn'[r] = x /\ \A q \in Requests \ {r} : txn'[q] = txn[q]
    BY <1>2, <2>1, Step, Writes DEF Shape, ReadOnly
  <2>3. ASSUME NEW q \in Requests \ {r}, txn[q].wrote, x.wrote
        PROVE  txn[q].server # s \/ txn[q].user # u
    <3> SUFFICES ASSUME txn[q].server = s, txn[q].user = u PROVE FALSE
      OBVIOUS
    <3>1. txn[q].op \in {"joinCommit", "leaveCommit"} /\ (role[s][u] = "none" <=> txn[q].op = "joinCommit")
      BY <2>3 DEF LocksOK
    <3>2. /\ txn[q].op = "joinCommit" => q \in Inserting(s, u)
          /\ txn[q].op = "leaveCommit" => q \in Deleting(s, u)
      BY <2>3 DEF Inserting, Deleting
    <3>3. CASE JoinWrite(r)
      BY <2>3, <3>1, <3>2, <3>3 DEF JoinWrite, Wrote
    <3>4. CASE ~JoinWrite(r)
      <4>1. ~Wrote(Deleting(s, u)) /\ role[s][u] # "none"
        BY <1>2, <2>1, <2>3, <3>4 DEF LeaveWrite
      <4> QED BY <2>3, <3>1, <3>2, <4>1 DEF Wrote
    <3> QED BY <3>3, <3>4
  <2>4. x.wrote => (role[s][u] = "none" <=> x.op = "joinCommit")
    BY <2>1
  <2> HIDE DEF s, u
  <2>5. x.op \in {"joinCommit", "leaveCommit"}
    BY <2>1
  <2>6. ASSUME NEW q \in Requests, txn'[q].wrote
        PROVE  /\ txn'[q].op \in {"joinCommit", "leaveCommit"}
               /\ role'[txn'[q].server][txn'[q].user] = "none" <=> txn'[q].op = "joinCommit"
    BY <2>1, <2>2, <2>4, <2>5, <2>6 DEF LocksOK
  <2>7. ASSUME NEW p \in Requests, NEW q \in Requests, txn'[p].wrote, txn'[q].wrote, p # q
        PROVE  txn'[p].server # txn'[q].server \/ txn'[p].user # txn'[q].user
    <3>1. CASE p # r /\ q # r
      BY <2>2, <2>7, <3>1 DEF LocksOK
    <3>2. CASE p = r \/ q = r
      BY <2>1, <2>2, <2>3, <2>7, <3>2
    <3> QED BY <3>1, <3>2
  <2> QED BY <2>6, <2>7 DEF LocksOK
<1>3. ASSUME NEW r \in Requests, JoinCommit(r) \/ LeaveCommit(r) PROVE LocksOK'
  <2> DEFINE s == txn[r].server
             u == txn[r].user
  <2>1. /\ End(r) /\ s \in Servers /\ u \in Users
        /\ \E z \in {"MEMBER", "none"} :
              role' = [role EXCEPT ![s][u] = IF txn[r].wrote THEN z ELSE @]
    BY <1>3 DEF JoinCommit, LeaveCommit, Shape, TxnShape
  <2>2. txn'[r] = Idle /\ \A q \in Requests \ {r} : txn'[q] = txn[q]
    BY <1>t, <2>1 DEF End
  <2>3. ASSUME NEW q \in Requests \ {r}, txn[q].wrote
        PROVE  role'[txn[q].server][txn[q].user] = role[txn[q].server][txn[q].user]
    <3>1. txn[r].wrote => txn[q].server # s \/ txn[q].user # u
      BY <2>3 DEF LocksOK
    <3> HIDE DEF s, u
    <3> QED BY <1>t, <1>p, <2>1, <2>3, <3>1
  <2> QED BY <2>2, <2>3, IdleFacts DEF LocksOK
<1>4. ASSUME SameMembers, NEW r \in Requests, NEW x \in Txn, txn' = [txn EXCEPT ![r] = x], ~x.wrote
      PROVE  LocksOK'
  <2>1. txn'[r] = x /\ \A q \in Requests \ {r} : txn'[q] = txn[q]
    BY <1>4, Step DEF Shape
  <2> QED BY <1>4, <1>p, <2>1 DEF LocksOK, SameMembers
<1>5. CASE UNCHANGED vars
  BY <1>5 DEF vars, db, LocksOK
<1> QED BY <1>1, <1>2, <1>3, <1>4, <1>5, Kinds

\* What a call that found nothing to write tells is known already, for as long
\* as nobody writes the row; a call that writes it tells what it wrote.
LEMMA NextMembers == Shape /\ LocksOK /\ MembersOK /\ [Next]_vars => MembersOK'
<1> SUFFICES ASSUME Shape, LocksOK, MembersOK, [Next]_vars PROVE MembersOK'
  OBVIOUS
<1>t. /\ txn \in [Requests -> Txn]
      /\ role \in [Servers -> [Users -> {"none", "MEMBER", "OWNER"}]]
      /\ knownMembers \in [Servers -> SUBSET Users]
  BY DEF Shape, TypeOK
<1>p. \A q \in Requests : txn[q].op \in {"joinCommit", "leaveCommit"} =>
            txn[q].server \in Servers /\ txn[q].user \in Users
  BY DEF Shape, TxnShape
<1>1. ASSUME NEW s \in Servers, NEW u \in Users, NEW c \in Channels, CreateServer(s, u, c)
      PROVE  MembersOK'
  <2>1. /\ UNCHANGED <<txn, contested>>
        /\ role' = [role EXCEPT ![s][u] = "OWNER"]
        /\ knownMembers' = [knownMembers EXCEPT ![s] = @ \cup {u}]
    BY <1>1 DEF CreateServer, TellJoin
  <2>2. \A q \in Requests : txn[q].op \in {"joinCommit", "leaveCommit"} => txn[q].server # s
    BY <1>1 DEF CreateServer, Shape, TxnShape
  <2>3. \A q \in Requests : txn[q].op \in {"joinCommit", "leaveCommit"} =>
            role'[txn[q].server] = role[txn[q].server]
    BY <1>t, <1>p, <2>1, <2>2
  <2>4. \A t \in Servers, v \in Users :
            /\ v \in knownMembers'[t] <=> v \in knownMembers[t] \/ (t = s /\ v = u)
            /\ role'[t][v] # "none" <=> role[t][v] # "none" \/ (t = s /\ v = u)
    BY <1>t, <2>1
  <2> QED BY <2>1, <2>3, <2>4 DEF MembersOK
<1>2. ASSUME NEW r \in Requests, JoinWrite(r) \/ LeaveWrite(r) PROVE MembersOK'
  <2> DEFINE s == txn[r].server
             u == txn[r].user
  <2>1. PICK x \in Txn :
            /\ txn' = [txn EXCEPT ![r] = x]
            /\ x.op = IF JoinWrite(r) THEN "joinCommit" ELSE "leaveCommit"
            /\ x.wrote <=> (role[s][u] = "none" <=> JoinWrite(r))
            /\ x.user = u /\ x.server = s
    BY <1>2, Writes DEF Shape
  <2> HIDE DEF s, u
  <2>2. /\ UNCHANGED <<role, knownMembers, contested>>
        /\ txn'[r] = x /\ \A q \in Requests \ {r} : txn'[q] = txn[q]
    BY <1>2, <2>1, Step, Writes DEF Shape, ReadOnly
  <2>3. ~x.wrote => (role[s][u] = "none" <=> x.op = "leaveCommit")
    BY <2>1
  <2> QED BY <2>1, <2>2, <2>3 DEF MembersOK
<1>3. ASSUME NEW r \in Requests, JoinCommit(r) \/ LeaveCommit(r) PROVE MembersOK'
  <2> DEFINE s == txn[r].server
             u == txn[r].user
             joins == JoinCommit(r)
  <2>1. /\ End(r) /\ Settle(r, s, u) /\ s \in Servers /\ u \in Users
        /\ role' = [role EXCEPT ![s][u] = IF txn[r].wrote THEN (IF joins THEN "MEMBER" ELSE "none") ELSE @]
        /\ knownMembers' = [knownMembers EXCEPT ![s] = IF joins THEN @ \cup {u} ELSE @ \ {u}]
        /\ txn[r].op = IF joins THEN "joinCommit" ELSE "leaveCommit"
    <3>1. CASE JoinCommit(r)
      BY <3>1 DEF JoinCommit, TellJoin, Shape, TxnShape
    <3>2. CASE LeaveCommit(r) /\ ~JoinCommit(r)
      BY <3>2 DEF LeaveCommit, TellLeave, Shape, TxnShape
    <3> QED BY <1>3, <3>1, <3>2
  <2>2. txn'[r] = Idle /\ \A q \in Requests \ {r} : txn'[q] = txn[q]
    BY <1>t, <2>1 DEF End
  <2> HIDE DEF joins
  <2>3. \A t \in Servers, v \in Users : t # s \/ v # u =>
            /\ role'[t][v] = role[t][v]
            /\ v \in knownMembers'[t] <=> v \in knownMembers[t]
            /\ <<t, v>> \in contested' <=> <<t, v>> \in contested
    <3> HIDE DEF s, u
    <3> QED BY <1>t, <2>1 DEF Settle
  <2>4. /\ u \in knownMembers'[s] <=> joins
        /\ role'[s][u] = IF txn[r].wrote THEN (IF joins THEN "MEMBER" ELSE "none") ELSE role[s][u]
    <3> HIDE DEF s, u
    <3> QED BY <1>t, <2>1
  <2>5. \A q \in Requests : txn[q].op \in {"joinCommit", "leaveCommit"} /\ txn[q].server = s
                             /\ txn[q].user = u => q \in Inserting(s, u) \cup Deleting(s, u)
    BY DEF Inserting, Deleting
  <2>6. CASE txn[r].wrote
    <3>1. <<s, u>> \notin contested' => \A q \in Inserting(s, u) \cup Deleting(s, u) : txn[q].wrote
      BY <2>1, <2>6 DEF Settle
    <3>2. ASSUME NEW t \in Servers, NEW v \in Users, <<t, v>> \notin contested'
          PROVE  v \in knownMembers'[t] <=> role'[t][v] # "none"
      <4>1. CASE t = s /\ v = u
        BY <2>4, <2>6, <4>1
      <4>2. CASE t # s \/ v # u
        BY <2>3, <3>2, <4>2 DEF MembersOK
      <4> QED BY <4>1, <4>2
    <3>3. ASSUME NEW q \in Requests, txn'[q].op \in {"joinCommit", "leaveCommit"}, ~txn'[q].wrote,
                 <<txn'[q].server, txn'[q].user>> \notin contested'
          PROVE  role'[txn'[q].server][txn'[q].user] = "none" <=> txn'[q].op = "leaveCommit"
      <4>1. q # r /\ txn'[q] = txn[q]
        BY <2>2, <3>3, IdleFacts
      <4>2. ~(txn[q].server = s /\ txn[q].user = u)
        BY <2>5, <3>1, <3>3, <4>1
      <4> QED BY <1>p, <2>3, <3>3, <4>1, <4>2 DEF MembersOK
    <3> QED BY <3>2, <3>3 DEF MembersOK
  <2>7. CASE ~txn[r].wrote
    <3>1. UNCHANGED contested /\ \A t \in Servers, v \in Users : role'[t][v] = role[t][v]
      BY <2>1, <2>3, <2>4, <2>7 DEF Settle
    <3>2. <<s, u>> \notin contested => (role[s][u] = "none" <=> ~joins)
      BY <2>1, <2>7 DEF MembersOK
    <3>3. ASSUME NEW t \in Servers, NEW v \in Users, <<t, v>> \notin contested'
          PROVE  v \in knownMembers'[t] <=> role'[t][v] # "none"
      <4>1. CASE t = s /\ v = u
        BY <2>4, <2>7, <3>1, <3>2, <3>3, <4>1
      <4>2. CASE t # s \/ v # u
        BY <2>3, <3>3, <4>2 DEF MembersOK
      <4> QED BY <4>1, <4>2
    <3>4. ASSUME NEW q \in Requests, txn'[q].op \in {"joinCommit", "leaveCommit"}, ~txn'[q].wrote,
                 <<txn'[q].server, txn'[q].user>> \notin contested'
          PROVE  role'[txn'[q].server][txn'[q].user] = "none" <=> txn'[q].op = "leaveCommit"
      <4>1. q # r /\ txn'[q] = txn[q]
        BY <2>2, <3>4, IdleFacts
      <4> QED BY <1>p, <3>1, <3>4, <4>1 DEF MembersOK
    <3> QED BY <3>3, <3>4 DEF MembersOK
  <2> QED BY <2>6, <2>7
<1>4. ASSUME SameMembers, UNCHANGED <<knownMembers, contested>>,
             NEW r \in Requests, NEW x \in Txn, txn' = [txn EXCEPT ![r] = x],
             x.op \notin {"joinCommit", "leaveCommit"}
      PROVE  MembersOK'
  <2>1. txn'[r] = x /\ \A q \in Requests \ {r} : txn'[q] = txn[q]
    BY <1>4, Step DEF Shape
  <2> QED BY <1>4, <1>p, <2>1 DEF MembersOK, SameMembers
<1>5. CASE UNCHANGED vars
  BY <1>5 DEF vars, db, known, MembersOK
<1> QED BY <1>1, <1>2, <1>3, <1>4, <1>5, Kinds

\* The unique index, and nothing else, keeps names apart: also when a name is
\* taken between the check and the write.
LEMMA NextNames == Shape /\ NamesAreUnique /\ [Next]_vars => NamesAreUnique'
<1> SUFFICES ASSUME Shape, NamesAreUnique, [Next]_vars PROVE NamesAreUnique'
  OBVIOUS
<1> DEFINE Apart(c, d) == ~ /\ channel[c].status = "live" /\ channel[d].status = "live"
                            /\ channel[c].server = channel[d].server
                            /\ channel[c].name = channel[d].name
<1>t. channel \in [Channels -> Row]
  BY DEF Shape, TypeOK
<1>0. NamesAreUnique <=> \A c, d \in Channels : c # d => Apart(c, d)
  BY DEF NamesAreUnique, NameIsFree, LiveChannels
<1>p. NamesAreUnique' <=> \A c, d \in Channels : c # d => Apart(c, d)'
  BY DEF NamesAreUnique, NameIsFree, LiveChannels
\* One channel changes.
<1>a. ASSUME NEW c \in Channels, NEW row,
             channel' = [channel EXCEPT ![c] = row],
             row.status = "live" => NameIsFree(row.server, row.name, c)
      PROVE  NamesAreUnique'
  <2>1. \A d \in Channels : channel'[d] = IF d = c THEN row ELSE channel[d]
    BY <1>t, <1>a
  <2>2. \A d \in Channels \ {c} :
            ~ /\ row.status = "live" /\ channel[d].status = "live"
              /\ row.server = channel[d].server /\ row.name = channel[d].name
    BY <1>a DEF NameIsFree, LiveChannels
  <2>3. ASSUME NEW d \in Channels, NEW e \in Channels, d # e PROVE Apart(d, e)'
    BY <1>0, <2>1, <2>2, <2>3
  <2> QED BY <1>p, <2>3
<1>1. ASSUME NEW s \in Servers, NEW u \in Users, NEW c \in Channels, CreateServer(s, u, c)
      PROVE  NamesAreUnique'
  <2>1. NameIsFree(s, General, c)
    BY <1>1 DEF CreateServer, NameIsFree, LiveChannels, Shape, RowsOK
  <2> QED BY <1>1, <1>a, <2>1 DEF CreateServer
<1>2. ASSUME NEW r \in Requests, NEW c \in Channels, CreateWrite(r, c) PROVE NamesAreUnique'
  BY <1>2, <1>a DEF CreateWrite, Unique
<1>3. ASSUME NEW r \in Requests, RenameWrite(r) PROVE NamesAreUnique'
  <2> DEFINE c == txn[r].channel
             n == txn[r].name
             row == [channel[c] EXCEPT !.name = n]
  <2>1. c \in Channels /\ channel[c].server = txn[r].server
    BY <1>3 DEF RenameWrite, Shape, TxnShape
  <2>2. CASE channel[c].status = "live"
    <3>1. channel' = [channel EXCEPT ![c] = row] /\ NameIsFree(txn[r].server, n, c)
      BY <1>3, <2>2 DEF RenameWrite, Unique
    <3>2. row.server = txn[r].server /\ row.name = n
      BY <1>t, <2>1 DEF Row
    <3> HIDE DEF row, c, n
    <3> QED BY <1>a, <2>1, <3>1, <3>2
  <2>3. CASE channel[c].status # "live"
    BY <1>3, <2>3, <1>0, <1>p DEF RenameWrite
  <2> QED BY <2>2, <2>3
<1>4. ASSUME NEW r \in Requests, RemoveWrite(r) PROVE NamesAreUnique'
  <2> DEFINE c == txn[r].channel
             row == [channel[c] EXCEPT !.status = "deleted"]
  <2>1. c \in Channels /\ channel' = [channel EXCEPT ![c] = row]
    BY <1>4 DEF RemoveWrite, Shape, TxnShape
  <2>2. row.status # "live"
    BY <1>t, <2>1 DEF Row
  <2> HIDE DEF row, c
  <2> QED BY <1>a, <2>1, <2>2
<1>5. CASE UNCHANGED channel
  BY <1>5, <1>0, <1>p
<1> QED
  BY <1>1, <1>2, <1>3, <1>4, <1>5, Effects DEF JoinCommit, LeaveCommit, TransferWrite

-----------------------------------------------------------------------------
\* Owners.

\* A step of a call that neither leaves nor transfers touches no owner.
LEMMA Quiet ==
  ASSUME OwnersOK, NEW r \in Requests, UNCHANGED <<server, ownerId, role>>,
         disputed \subseteq disputed',
         txn'[r].op \notin {"leave", "leaveCommit", "transfer"},
         \A q \in Requests \ {r} : txn'[q] = txn[q]
  PROVE  OwnersOK'
<1>1. OwnerIsMember'
  BY DEF OwnersOK, OwnerIsMember
<1>2. \A s \in Servers : (Leaving(s)' => Leaving(s)) /\ (Transferring(s)' => Transferring(s))
  BY DEF Leaving, Transferring
<1>3. ASSUME NEW s \in Servers \ disputed', NEW q \in Requests, txn'[q].server = s
      PROVE  /\ txn'[q].op \in {"leave", "leaveCommit"} => role'[s][txn'[q].user] # "OWNER"
             /\ txn'[q].op = "transfer" /\ txn'[q].user # NoUser
                    => role'[s][txn'[q].user] # "none"
  BY <1>3 DEF OwnersOK
<1>4. \A s \in Servers \ disputed' : ~(Leaving(s)' /\ Transferring(s)')
  BY <1>2 DEF OwnersOK
<1> QED BY <1>1, <1>3, <1>4 DEF OwnersOK

LEMMA NextOwners == Shape /\ LocksOK /\ OwnersOK /\ [Next]_vars => OwnersOK'
<1> SUFFICES ASSUME Shape, LocksOK, OwnersOK, [Next]_vars PROVE OwnersOK'
  OBVIOUS
<1>t. /\ txn \in [Requests -> Txn]
      /\ role \in [Servers -> [Users -> {"none", "MEMBER", "OWNER"}]]
      /\ server \in [Servers -> {"none", "live", "deleted"}]
      /\ ownerId \in [Servers -> Users \cup {NoUser}]
  BY DEF Shape, TypeOK
<1>e. ASSUME NEW r \in Requests, End(r)
      PROVE  txn'[r].op = "none" /\ \A q \in Requests \ {r} : txn'[q] = txn[q]
  BY <1>t, <1>e, IdleFacts DEF End
<1>b. ASSUME NEW r \in Requests, NEW x, Begin(r, x)
      PROVE  txn'[r] = x /\ \A q \in Requests \ {r} : txn'[q] = txn[q]
  BY <1>t, <1>b DEF Begin
<1>g. ASSUME NEW r \in Requests, NEW op, Goto(r, op)
      PROVE  txn'[r].op = op /\ \A q \in Requests \ {r} : txn'[q] = txn[q]
  BY <1>t, <1>g DEF Goto, Txn
<1>1. ASSUME NEW s \in Servers, NEW u \in Users, NEW c \in Channels, CreateServer(s, u, c)
      PROVE  OwnersOK'
  <2>1. \A t \in Servers : t # s => role'[t] = role[t] /\ ownerId'[t] = ownerId[t] /\ server'[t] = server[t]
    BY <1>t, <1>1 DEF CreateServer
  <2>2. role'[s][u] = "OWNER" /\ ownerId'[s] = u
    BY <1>t, <1>1 DEF CreateServer
  <2>3. OwnerIsMember'
    BY <1>1, <2>1, <2>2 DEF CreateServer, OwnersOK, OwnerIsMember
  <2>4. \A q \in Requests : txn[q].op # "none" => txn[q].server # s
    BY <1>1 DEF CreateServer, Shape, TxnShape
  <2>5. UNCHANGED <<txn, disputed>>
    BY <1>1 DEF CreateServer
  <2>6. \A t \in Servers : (Leaving(t)' <=> Leaving(t)) /\ (Transferring(t)' <=> Transferring(t))
    BY <2>5 DEF Leaving, Transferring
  <2>7. ASSUME NEW t \in Servers \ disputed', NEW q \in Requests, txn'[q].server = t
        PROVE  /\ txn'[q].op \in {"leave", "leaveCommit"} => role'[t][txn'[q].user] # "OWNER"
               /\ txn'[q].op = "transfer" /\ txn'[q].user # NoUser
                      => role'[t][txn'[q].user] # "none"
    BY <2>1, <2>4, <2>5, <2>7 DEF OwnersOK
  <2> QED BY <2>3, <2>5, <2>6, <2>7 DEF OwnersOK
<1>2. ASSUME NEW r \in Requests, NEW u \in Users, NEW s \in Servers, LeaveRead(r, u, s)
      PROVE  OwnersOK'
  <2> DEFINE x == [Idle EXCEPT !.op = "leave", !.user = u, !.server = s]
  <2>1. Begin(r, x) /\ x.op = "leave" /\ x.user = u /\ x.server = s
    BY <1>2 DEF LeaveRead, Idle
  <2> HIDE DEF x
  <2>2. txn'[r] = x /\ \A q \in Requests \ {r} : txn'[q] = txn[q]
    BY <1>b, <2>1
  <2>3. /\ UNCHANGED <<server, ownerId, role>> /\ disputed \subseteq disputed'
        /\ Transferring(s) => s \in disputed'
        /\ role[s][u] = "MEMBER"
    BY <1>2 DEF LeaveRead, MayLeave
  <2>4. OwnerIsMember'
    BY <2>3 DEF OwnersOK, OwnerIsMember
  <2>5. \A t \in Servers : /\ Transferring(t)' => Transferring(t)
                           /\ t # s /\ Leaving(t)' => Leaving(t)
    BY <2>1, <2>2 DEF Leaving, Transferring
  <2>6. ASSUME NEW t \in Servers \ disputed', NEW q \in Requests, txn'[q].server = t
        PROVE  /\ txn'[q].op \in {"leave", "leaveCommit"} => role'[t][txn'[q].user] # "OWNER"
               /\ txn'[q].op = "transfer" /\ txn'[q].user # NoUser
                      => role'[t][txn'[q].user] # "none"
    BY <2>1, <2>2, <2>3, <2>6 DEF OwnersOK
  <2> QED BY <2>3, <2>4, <2>5, <2>6 DEF OwnersOK
<1>3. ASSUME NEW r \in Requests, NEW s \in Servers, TransferRead(r, s) PROVE OwnersOK'
  <2> PICK heir \in Heirs(s) :
            Begin(r, [Idle EXCEPT !.op = "transfer", !.user = heir, !.server = s])
    BY <1>3 DEF TransferRead
  <2> DEFINE x == [Idle EXCEPT !.op = "transfer", !.user = heir, !.server = s]
  <2>1. Begin(r, x) /\ x.op = "transfer" /\ x.user = heir /\ x.server = s
    BY DEF Idle
  <2> HIDE DEF x
  <2>2. txn'[r] = x /\ \A q \in Requests \ {r} : txn'[q] = txn[q]
    BY <1>b, <2>1
  <2>3. /\ UNCHANGED <<server, ownerId, role>> /\ disputed \subseteq disputed'
        /\ Leaving(s) => s \in disputed'
        /\ heir # NoUser => role[s][heir] = "MEMBER"
    BY <1>3 DEF TransferRead, Heirs
  <2>4. OwnerIsMember'
    BY <2>3 DEF OwnersOK, OwnerIsMember
  <2>5. \A t \in Servers : /\ Leaving(t)' => Leaving(t)
                           /\ t # s /\ Transferring(t)' => Transferring(t)
    BY <2>1, <2>2 DEF Leaving, Transferring
  <2>6. ASSUME NEW t \in Servers \ disputed', NEW q \in Requests, txn'[q].server = t
        PROVE  /\ txn'[q].op \in {"leave", "leaveCommit"} => role'[t][txn'[q].user] # "OWNER"
               /\ txn'[q].op = "transfer" /\ txn'[q].user # NoUser
                      => role'[t][txn'[q].user] # "none"
    BY <2>1, <2>2, <2>3, <2>6 DEF OwnersOK
  <2> QED BY <2>3, <2>4, <2>5, <2>6 DEF OwnersOK
\* Writes that change roles, owners or servers: what matters of them.
<1>w. ASSUME NEW r \in Requests, End(r), UNCHANGED disputed, OwnerIsMember',
             \A s \in Servers \ disputed, q \in Requests \ {r} : txn[q].server = s =>
                /\ txn[q].op \in {"leave", "leaveCommit"} => role'[s][txn[q].user] # "OWNER"
                /\ txn[q].op = "transfer" /\ txn[q].user # NoUser => role'[s][txn[q].user] # "none"
      PROVE  OwnersOK'
  <2>1. txn'[r].op = "none" /\ \A q \in Requests \ {r} : txn'[q] = txn[q]
    BY <1>e, <1>w
  <2>2. \A s \in Servers : (Leaving(s)' => Leaving(s)) /\ (Transferring(s)' => Transferring(s))
    BY <2>1 DEF Leaving, Transferring
  <2>3. ASSUME NEW s \in Servers \ disputed', NEW q \in Requests, txn'[q].server = s
        PROVE  /\ txn'[q].op \in {"leave", "leaveCommit"} => role'[s][txn'[q].user] # "OWNER"
               /\ txn'[q].op = "transfer" /\ txn'[q].user # NoUser
                      => role'[s][txn'[q].user] # "none"
    BY <1>w, <2>1, <2>3
  <2> QED BY <1>w, <2>2, <2>3 DEF OwnersOK
<1>4. ASSUME NEW r \in Requests, JoinCommit(r) PROVE OwnersOK'
  <2> DEFINE s == txn[r].server
             u == txn[r].user
  <2>1. /\ s \in Servers /\ u \in Users /\ End(r) /\ UNCHANGED <<server, ownerId, disputed>>
        /\ role' = [role EXCEPT ![s][u] = IF txn[r].wrote THEN "MEMBER" ELSE @]
        /\ txn[r].wrote => role[s][u] = "none"
    BY <1>4 DEF JoinCommit, Shape, TxnShape, LocksOK
  <2> HIDE DEF s, u
  <2>2. \A t \in Servers, v \in Users :
            /\ role'[t][v] = "OWNER" <=> role[t][v] = "OWNER"
            /\ role[t][v] # "none" => role'[t][v] # "none"
    BY <1>t, <2>1
  <2>3. \A t \in Servers : \A v : v \notin Users => role'[t][v] = role[t][v]
    BY <1>t, <2>1
  <2>4. \A t \in Servers : \A v : role[t][v] = "OWNER" => role'[t][v] = "OWNER"
    BY <2>2, <2>3
  <2>5. OwnerIsMember'
    BY <2>1, <2>4 DEF OwnersOK, OwnerIsMember
  <2>6. \A q \in Requests : txn[q].user \in Users \cup {NoUser}
    BY <1>t DEF Txn
  <2>7. \A t \in Servers : \A v : role'[t][v] = "OWNER" => role[t][v] = "OWNER"
    BY <2>2, <2>3
  <2>8. ASSUME NEW t \in Servers \ disputed, NEW q \in Requests \ {r}, txn[q].server = t
        PROVE  /\ txn[q].op \in {"leave", "leaveCommit"} => role'[t][txn[q].user] # "OWNER"
               /\ txn[q].op = "transfer" /\ txn[q].user # NoUser => role'[t][txn[q].user] # "none"
    BY <2>2, <2>6, <2>7, <2>8 DEF OwnersOK
  <2> QED BY <1>w, <2>1, <2>5, <2>8
<1>5. ASSUME NEW r \in Requests, LeaveCommit(r) PROVE OwnersOK'
  <2> DEFINE s == txn[r].server
             u == txn[r].user
  <2>1. /\ s \in Servers /\ u \in Users /\ End(r) /\ UNCHANGED <<server, ownerId, disputed>>
        /\ role' = [role EXCEPT ![s][u] = IF txn[r].wrote THEN "none" ELSE @]
        /\ Leaving(s)
        /\ s \notin disputed => role[s][u] # "OWNER"
    BY <1>5 DEF LeaveCommit, Shape, TxnShape, Leaving, OwnersOK
  <2> HIDE DEF s, u
  <2>2. \A t \in Servers : \A v : t # s \/ v # u => role'[t][v] = role[t][v]
    BY <1>t, <2>1
  <2>3. role'[s][u] \in {role[s][u], "none"}
    BY <1>t, <2>1
  <2>4. OwnerIsMember'
    BY <2>1, <2>2 DEF OwnersOK, OwnerIsMember
  <2>5. ASSUME NEW t \in Servers \ disputed, NEW q \in Requests \ {r}, txn[q].server = t
        PROVE  /\ txn[q].op \in {"leave", "leaveCommit"} => role'[t][txn[q].user] # "OWNER"
               /\ txn[q].op = "transfer" /\ txn[q].user # NoUser => role'[t][txn[q].user] # "none"
    <3>1. t = s => txn[q].op # "transfer"
      BY <2>1, <2>5 DEF OwnersOK, Transferring
    <3> QED BY <2>2, <2>3, <2>5, <3>1 DEF OwnersOK
  <2> QED BY <1>w, <2>1, <2>4, <2>5
<1>6. ASSUME NEW r \in Requests, DeleteWrite(r) PROVE OwnersOK'
  <2>1. /\ txn[r].server \in Servers /\ End(r) /\ UNCHANGED <<ownerId, role, disputed>>
        /\ server' = [server EXCEPT ![txn[r].server] = "deleted"]
    BY <1>6 DEF DeleteWrite, Shape, TxnShape
  <2>2. OwnerIsMember'
    BY <1>t, <2>1 DEF OwnersOK, OwnerIsMember
  <2> QED BY <1>w, <2>1, <2>2 DEF OwnersOK
<1>7. ASSUME NEW r \in Requests, TransferWrite(r) PROVE OwnersOK'
  <2> DEFINE s == txn[r].server
             heir == txn[r].user
  <2>1. /\ s \in Servers /\ heir \in Users \cup {NoUser} /\ End(r) /\ UNCHANGED disputed
        /\ Transferring(s)
        /\ s \notin disputed /\ heir # NoUser => role[s][heir] # "none"
    BY <1>7 DEF TransferWrite, Shape, TypeOK, Txn, TxnShape, Transferring, OwnersOK
  <2>2. CASE heir = NoUser
    <3>1. UNCHANGED <<ownerId, role>> /\ server' = [server EXCEPT ![s] = "deleted"]
      BY <1>7, <2>2 DEF TransferWrite
    <3> HIDE DEF s, heir
    <3>2. OwnerIsMember'
      BY <1>t, <2>1, <3>1 DEF OwnersOK, OwnerIsMember
    <3> QED BY <1>w, <2>1, <3>1, <3>2 DEF OwnersOK
  <2>3. CASE heir # NoUser
    <3>1. /\ heir \in Users /\ UNCHANGED server /\ ownerId' = [ownerId EXCEPT ![s] = heir]
          /\ role' = [role EXCEPT ![s][heir] = IF @ = "none" THEN @ ELSE "OWNER"]
      BY <1>7, <2>1, <2>3 DEF TransferWrite
    <3> HIDE DEF s, heir
    <3>2. /\ \A t \in Servers : t # s => role'[t] = role[t] /\ ownerId'[t] = ownerId[t]
          /\ \A v : v # heir => role'[s][v] = role[s][v]
          /\ role'[s][heir] = IF role[s][heir] = "none" THEN "none" ELSE "OWNER"
          /\ ownerId'[s] = heir
      BY <1>t, <2>1, <3>1
    <3>3. OwnerIsMember'
      BY <2>1, <3>1, <3>2 DEF OwnersOK, OwnerIsMember
    <3>4. ASSUME NEW t \in Servers \ disputed, NEW q \in Requests \ {r}, txn[q].server = t
          PROVE  /\ txn[q].op \in {"leave", "leaveCommit"} => role'[t][txn[q].user] # "OWNER"
                 /\ txn[q].op = "transfer" /\ txn[q].user # NoUser => role'[t][txn[q].user] # "none"
      <4>1. t = s => txn[q].op \notin {"leave", "leaveCommit"}
        BY <2>1, <3>4 DEF OwnersOK, Leaving
      <4> QED BY <2>1, <3>1, <3>2, <3>4, <4>1 DEF OwnersOK
    <3> QED BY <1>w, <2>1, <3>3, <3>4
  <2> QED BY <2>2, <2>3
\* The others.
<1>8. ASSUME NEW r \in Requests, End(r), UNCHANGED <<server, ownerId, role, disputed>>
      PROVE  OwnersOK'
  BY <1>8, <1>e, Quiet
<1>9. ASSUME NEW r \in Requests, NEW x, Begin(r, x), x.op \notin {"leave", "leaveCommit", "transfer"}, ReadOnly
      PROVE  OwnersOK'
  BY <1>9, <1>b, Quiet DEF ReadOnly
<1>10. ASSUME NEW r \in Requests, JoinCheck(r) \/ CreateCheck(r) PROVE OwnersOK'
  <2>1. \E op \in {"joinWrite", "createWrite"} : Goto(r, op) /\ ReadOnly
    BY <1>10 DEF JoinCheck, CreateCheck
  <2> QED BY <1>g, <2>1, Quiet DEF ReadOnly
<1>11. ASSUME NEW r \in Requests, NEW u \in Users, NEW i \in Invites, JoinRead(r, u, i) PROVE OwnersOK'
  <2> DEFINE x == [Idle EXCEPT !.op = "join", !.user = u, !.invite = i, !.server = home[i]]
  <2>1. x.op = "join"
    BY DEF Idle
  <2>2. Begin(r, x) /\ ReadOnly
    BY <1>11 DEF JoinRead
  <2> HIDE DEF x
  <2> QED BY <1>9, <2>1, <2>2
<1>12. ASSUME NEW r \in Requests, NEW u \in Users, NEW s \in Servers, DeleteRead(r, u, s) PROVE OwnersOK'
  <2> DEFINE x == [Idle EXCEPT !.op = "delete", !.user = u, !.server = s]
  <2>1. x.op = "delete"
    BY DEF Idle
  <2>2. Begin(r, x) /\ ReadOnly
    BY <1>12 DEF DeleteRead
  <2> HIDE DEF x
  <2> QED BY <1>9, <2>1, <2>2
<1>13. ASSUME NEW r \in Requests, NEW u \in Users, NEW s \in Servers, InviteRead(r, u, s) PROVE OwnersOK'
  <2> DEFINE x == [Idle EXCEPT !.op = "invite", !.user = u, !.server = s]
  <2>1. x.op = "invite"
    BY DEF Idle
  <2>2. Begin(r, x) /\ ReadOnly
    BY <1>13 DEF InviteRead
  <2> HIDE DEF x
  <2> QED BY <1>9, <2>1, <2>2
<1>14. ASSUME NEW r \in Requests, NEW u \in Users, NEW s \in Servers, NEW n \in Names, CreateRead(r, u, s, n)
       PROVE OwnersOK'
  <2> DEFINE x == [Idle EXCEPT !.op = "create", !.user = u, !.server = s, !.name = n]
  <2>1. x.op = "create"
    BY DEF Idle
  <2>2. Begin(r, x) /\ ReadOnly
    BY <1>14 DEF CreateRead
  <2> HIDE DEF x
  <2> QED BY <1>9, <2>1, <2>2
<1>15. ASSUME NEW r \in Requests, NEW u \in Users, NEW c \in Channels, NEW n \in Names, RenameRead(r, u, c, n)
       PROVE OwnersOK'
  <2> DEFINE x == [Idle EXCEPT !.op = "rename", !.user = u, !.channel = c, !.name = n,
                             !.server = channel[c].server]
  <2>1. x.op = "rename"
    BY DEF Idle
  <2>2. Begin(r, x) /\ ReadOnly
    BY <1>15 DEF RenameRead
  <2> HIDE DEF x
  <2> QED BY <1>9, <2>1, <2>2
<1>16. ASSUME NEW r \in Requests, NEW u \in Users, NEW c \in Channels, RemoveRead(r, u, c) PROVE OwnersOK'
  <2> DEFINE x == [Idle EXCEPT !.op = "remove", !.user = u, !.channel = c,
                             !.server = channel[c].server]
  <2>1. x.op = "remove"
    BY DEF Idle
  <2>2. Begin(r, x) /\ ReadOnly
    BY <1>16 DEF RemoveRead
  <2> HIDE DEF x
  <2> QED BY <1>9, <2>1, <2>2
<1>17. ASSUME NEW r \in Requests,
              \/ \E i \in Invites : InviteWrite(r, i)
              \/ \E c \in Channels : CreateWrite(r, c)
              \/ RenameWrite(r) \/ RemoveWrite(r) \/ Abort(r)
       PROVE  OwnersOK'
  <2>1. End(r) /\ UNCHANGED <<server, ownerId, role, disputed>>
    BY <1>17 DEF InviteWrite, CreateWrite, RenameWrite, RemoveWrite, Abort, ReadOnly
  <2> QED BY <1>8, <2>1
<1>18. ASSUME NEW r \in Requests, JoinWrite(r) PROVE OwnersOK'
  <2>1. PICK x \in Txn : txn' = [txn EXCEPT ![r] = x] /\ x.op = "joinCommit"
    BY <1>18, Writes DEF Shape
  <2>2. txn'[r] = x /\ \A q \in Requests \ {r} : txn'[q] = txn[q]
    BY <2>1, Step DEF Shape
  <2> QED BY <1>18, <2>1, <2>2, Quiet, Writes DEF Shape, ReadOnly
<1>19. ASSUME NEW r \in Requests, LeaveWrite(r) PROVE OwnersOK'
  <2>1. PICK x \in Txn : /\ txn' = [txn EXCEPT ![r] = x] /\ x.op = "leaveCommit"
                         /\ x.user = txn[r].user /\ x.server = txn[r].server
    <3>1. ~JoinWrite(r)
      BY <1>19 DEF JoinWrite, LeaveWrite
    <3> QED BY <1>19, <3>1, Writes DEF Shape
  <2>2. txn'[r] = x /\ \A q \in Requests \ {r} : txn'[q] = txn[q]
    BY <2>1, Step DEF Shape
  <2>3. UNCHANGED <<server, ownerId, role, disputed>> /\ txn[r].op = "leave"
    BY <1>19, Writes DEF Shape, ReadOnly, LeaveWrite
  <2>4. \A s \in Servers : (Leaving(s)' => Leaving(s)) /\ (Transferring(s)' => Transferring(s))
    BY <2>1, <2>2, <2>3 DEF Leaving, Transferring
  <2>5. OwnerIsMember'
    BY <2>3 DEF OwnersOK, OwnerIsMember
  <2>6. ASSUME NEW s \in Servers \ disputed', NEW q \in Requests, txn'[q].server = s
        PROVE  /\ txn'[q].op \in {"leave", "leaveCommit"} => role'[s][txn'[q].user] # "OWNER"
               /\ txn'[q].op = "transfer" /\ txn'[q].user # NoUser
                      => role'[s][txn'[q].user] # "none"
    BY <2>1, <2>2, <2>3, <2>6 DEF OwnersOK
  <2> QED BY <2>3, <2>4, <2>5, <2>6 DEF OwnersOK
<1>20. CASE UNCHANGED vars
  BY <1>20 DEF vars, OwnersOK, OwnerIsMember, Leaving, Transferring
<1> QED
  BY <1>1, <1>2, <1>3, <1>4, <1>5, <1>6, <1>7, <1>10, <1>11, <1>12, <1>13, <1>14, <1>15, <1>16,
     <1>17, <1>18, <1>19, <1>20 DEF Next

-----------------------------------------------------------------------------
\* The invariant and the theorems.

LEMMA InitInvariant == Init => IInv
<1> SUFFICES ASSUME Init PROVE IInv
  OBVIOUS
<1>1. Shape
  BY InitShape
<1>2. \A q \in Requests : txn[q].op = "none"
  BY IdleFacts DEF Init
<1>3. UsesCounted
  <2> SUFFICES ASSUME NEW i \in Invites
               PROVE  uses[i] + Cardinality(Joining(i)) <= MaxUses + Cardinality(Requests) - 1
    BY DEF UsesCounted
  <2>1. Joining(i) = {} /\ uses[i] = 0
    BY <1>2 DEF Init, Joining
  <2>2. Cardinality(Joining(i)) = 0
    BY <2>1, FS_EmptySet
  <2> QED BY <2>1, <2>2, Counting
<1>4. ChannelsCounted
  <2> SUFFICES ASSUME NEW s \in Servers
               PROVE  Cardinality(LiveChannels(s)) + Cardinality(Creating(s))
                        <= MaxChannels + Cardinality(Requests) - 1
    BY DEF ChannelsCounted
  <2>1. Creating(s) = {} /\ LiveChannels(s) = {}
    BY <1>2 DEF Init, Creating, LiveChannels
  <2>2. Cardinality(Creating(s)) = 0 /\ Cardinality(LiveChannels(s)) = 0
    BY <2>1, FS_EmptySet
  <2> QED BY <2>2, Counting
<1>5. NamesAreUnique
  BY DEF Init, NamesAreUnique
<1>6. OwnersOK
  BY <1>2 DEF Init, OwnersOK, OwnerIsMember, Leaving, Transferring
<1>7. LocksOK
  BY IdleFacts DEF Init, LocksOK
<1>8. MembersOK /\ ChannelsKnown
  BY <1>2 DEF Init, MembersOK, ChannelsKnown
<1> QED BY <1>1, <1>3, <1>4, <1>5, <1>6, <1>7, <1>8 DEF IInv

LEMMA Invariance == Spec => []IInv
<1>1. IInv /\ [Next]_vars => IInv'
  BY NextShape, NextUses, NextChannels, NextNames, NextLocks, NextOwners, NextMembers,
     NextChannelsKnown DEF IInv
<1> QED BY <1>1, InitInvariant, PTL DEF Spec

\* Every variable has its type.
THEOREM TypeCorrect == Spec => []TypeOK
<1>1. IInv => TypeOK
  BY DEF IInv, Shape
<1> QED BY <1>1, Invariance, PTL

\* joinServer may overuse an invite, by no more than the transactions open at
\* the same time less one.
THEOREM InvitesAreBounded == Spec => []OveruseIsBounded
<1>1. IInv => OveruseIsBounded
  <2> SUFFICES ASSUME IInv, NEW i \in Invites
               PROVE  uses[i] <= MaxUses + Cardinality(Requests) - 1
    BY DEF OveruseIsBounded
  <2>1. uses[i] \in Nat /\ uses[i] + Cardinality(Joining(i)) <= MaxUses + Cardinality(Requests) - 1
    BY DEF IInv, Shape, TypeOK, UsesCounted
  <2>2. Cardinality(Joining(i)) \in Nat
    BY Counting DEF Joining
  <2> QED BY <2>1, <2>2, Counting
<1> QED BY <1>1, Invariance, PTL

\* createChannel may exceed the limit of channels, by no more than that.
THEOREM ChannelLimit == Spec => []ChannelsAreBounded
<1>1. IInv => ChannelsAreBounded
  <2> SUFFICES ASSUME IInv, NEW s \in Servers
               PROVE  Cardinality(LiveChannels(s)) <= MaxChannels + Cardinality(Requests) - 1
    BY DEF ChannelsAreBounded
  <2>1. Cardinality(LiveChannels(s)) + Cardinality(Creating(s))
            <= MaxChannels + Cardinality(Requests) - 1
    BY DEF IInv, ChannelsCounted
  <2>2. Cardinality(Creating(s)) \in Nat /\ Cardinality(LiveChannels(s)) \in Nat
    BY Counting, LiveFinite DEF Creating, LiveChannels
  <2> QED BY <2>1, <2>2, Counting
<1> QED BY <1>1, Invariance, PTL

\* createChannel and updateChannel never give two live channels of a server
\* the same name.
THEOREM UniqueNames == Spec => []NamesAreUnique
<1>1. IInv => NamesAreUnique
  BY DEF IInv
<1> QED BY <1>1, Invariance, PTL

\* leaveServer, joinServer and handleOwnerDeletion leave a live server with an
\* owner who is a member, unless a leave and the transfer overlapped.
THEOREM OwnersBelong == Spec => []OwnerIsMember
<1>1. IInv => OwnerIsMember
  BY DEF IInv, OwnersOK
<1> QED BY <1>1, Invariance, PTL

\* The events tell all there is to know about members and channels, but for a
\* member whose row was written while a call that had found nothing to write
\* was yet to be committed, and until the next call that writes it.
THEOREM EventsSuffice == Spec => []EventsTellAll
<1>1. IInv => EventsTellAll
  BY DEF IInv, MembersOK, ChannelsKnown, EventsTellAll
<1> QED BY <1>1, Invariance, PTL

\* No call brings back a deleted server, or changes a deleted channel.
THEOREM Deleted == Spec => DeletionIsFinal
<1> DEFINE Kept == /\ \A s \in Servers : server[s] = "deleted" => server'[s] = "deleted"
                   /\ \A c \in Channels : channel[c].status = "deleted" => channel'[c] = channel[c]
<1>1. IInv /\ [Next]_vars => [Kept]_vars
  <2> SUFFICES ASSUME Shape, [Next]_vars PROVE Kept
    BY DEF IInv
  <2>t. server \in [Servers -> {"none", "live", "deleted"}] /\ channel \in [Channels -> Row]
    BY DEF Shape, TypeOK
  <2>1. \A s \in Servers : server[s] = "deleted" => server'[s] = "deleted"
    <3>1. \/ UNCHANGED server
          \/ \E s \in Servers : server[s] = "none" /\ server' = [server EXCEPT ![s] = "live"]
          \/ \E s \in Servers : server' = [server EXCEPT ![s] = "deleted"]
      <4>1. ASSUME NEW s \in Servers, NEW u \in Users, NEW c \in Channels, CreateServer(s, u, c)
            PROVE  server[s] = "none" /\ server' = [server EXCEPT ![s] = "live"]
        BY <4>1 DEF CreateServer
      <4>2. ASSUME NEW r \in Requests, DeleteWrite(r) \/ TransferWrite(r)
            PROVE  \/ UNCHANGED server
                   \/ \E s \in Servers : server' = [server EXCEPT ![s] = "deleted"]
        BY <4>2 DEF DeleteWrite, TransferWrite, Shape, TxnShape
      <4>3. ASSUME NEW r \in Requests, Other(r)
            PROVE  UNCHANGED server \/ DeleteWrite(r) \/ TransferWrite(r)
        BY <4>3 DEF Other, ReadOnly, LeaveRead, DeleteRead, InviteRead, TransferRead, RemoveRead,
                    RenameRead, LeaveCommit, InviteWrite, RenameWrite, RemoveWrite, Abort
      <4>4. ASSUME NEW r \in Requests,
                   \/ \E u \in Users, i \in Invites : JoinRead(r, u, i)
                   \/ \E u \in Users, s \in Servers, n \in Names : CreateRead(r, u, s, n)
                   \/ JoinCheck(r) \/ CreateCheck(r) \/ JoinWrite(r) \/ JoinCommit(r)
                   \/ LeaveWrite(r)
                   \/ \E c \in Channels : CreateWrite(r, c)
            PROVE  UNCHANGED server
        BY <4>4 DEF JoinRead, CreateRead, JoinCheck, CreateCheck, JoinWrite, JoinCommit, LeaveWrite,
                    CreateWrite, ReadOnly
      <4>5. UNCHANGED vars => UNCHANGED server
        BY DEF vars
      <4> QED BY Steps, <4>1, <4>2, <4>3, <4>4, <4>5
    <3> QED BY <2>t, <3>1
  <2>2. \A c \in Channels : channel[c].status = "deleted" => channel'[c] = channel[c]
    <3>1. ASSUME NEW s \in Servers, NEW u \in Users, NEW d \in Channels, CreateServer(s, u, d)
          PROVE  \A c \in Channels : channel[c].status = "deleted" => channel'[c] = channel[c]
      BY <2>t, <3>1 DEF CreateServer
    <3>2. ASSUME NEW r \in Requests, NEW d \in Channels, CreateWrite(r, d)
          PROVE  \A c \in Channels : channel[c].status = "deleted" => channel'[c] = channel[c]
      BY <2>t, <3>2 DEF CreateWrite
    <3>3. ASSUME NEW r \in Requests, RenameWrite(r)
          PROVE  \A c \in Channels : channel[c].status = "deleted" => channel'[c] = channel[c]
      <4> DEFINE d == txn[r].channel
      <4>1. UNCHANGED channel \/ \A c \in Channels : c # d => channel'[c] = channel[c]
        BY <2>t, <3>3 DEF RenameWrite
      <4>2. channel[d].status # "live" => UNCHANGED channel
        BY <3>3 DEF RenameWrite
      <4> HIDE DEF d
      <4> QED BY <4>1, <4>2
    <3>4. ASSUME NEW r \in Requests, RemoveWrite(r)
          PROVE  \A c \in Channels : channel[c].status = "deleted" => channel'[c] = channel[c]
      <4> DEFINE d == txn[r].channel
      <4>1. d \in Channels /\ channel' = [channel EXCEPT ![d].status = "deleted"]
        BY <3>4 DEF RemoveWrite, Shape, TxnShape
      <4> HIDE DEF d
      <4>2. channel[d] \in Row
        BY <2>t, <4>1
      <4>3. channel[d].status = "deleted" => [channel[d] EXCEPT !.status = "deleted"] = channel[d]
        BY <4>2 DEF Row
      <4> QED BY <2>t, <4>1, <4>3
    <3>5. UNCHANGED channel => \A c \in Channels : channel[c].status = "deleted" => channel'[c] = channel[c]
      OBVIOUS
    <3> QED BY <3>1, <3>2, <3>3, <3>4, <3>5, Effects DEF JoinCommit, LeaveCommit, TransferWrite
  <2> QED BY <2>1, <2>2
<1> HIDE DEF Kept
<1>2. Spec => [][Kept]_vars
  BY <1>1, Invariance, PTL DEF Spec
<1> QED BY <1>2 DEF DeletionIsFinal, Kept
=============================================================================
