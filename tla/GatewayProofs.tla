--------------------------- MODULE GatewayProofs ---------------------------
(***************************************************************************)
(* Proofs about Gateway, for any connections, gateways, servers and        *)
(* channels and any bounds: who hears of a server is or was its member,    *)
(* and what is published about a server after READY arrives.               *)
(***************************************************************************)
EXTENDS Gateway, SequenceTheorems, TLAPS

-----------------------------------------------------------------------------
\* What a connection has while it is open, and until READY.
ConnectionOK(c) ==
    /\ socket[c].state # "none" => At(c) \in Gateways
    /\ ~Open(c) => fetch[c] = NoFetch
    /\ fetch[c].state # "done" => serverIds[c] = {} /\ topics[c] = {} /\ frames[c] = <<>>
    /\ fetch[c].state = "done" =>
          /\ topics[c] = UNION {ServerTopics(s) : s \in serverIds[c]}
          /\ subscribedAt[c] <= position[At(c)]

\* A server a connection has to do with is one its user has been in since.
\* The query cannot miss one of which the user has been a member all the time.
KnownOK(c) ==
    /\ member[c] \cup fetch[c].servers \cup serverIds[c] \subseteq known[c]
    /\ steady[c] \subseteq member[c]
    /\ fetch[c].state = "here" => steady[c] \subseteq fetch[c].servers
    /\ fetch[c].state = "done" => steady[c] \subseteq serverIds[c]

\* What a connection has received: since READY, of its servers, of no channel,
\* in order.
HeardOK(c) ==
    /\ \A i \in DOMAIN frames[c] :
          /\ frames[c][i] \in (subscribedAt[c] + 1)..position[At(c)]
          /\ bus[frames[c][i]].server \in serverIds[c]
          /\ bus[frames[c][i]].channel = NoChannel
    /\ \A i, j \in DOMAIN frames[c] : i < j => frames[c][i] < frames[c][j]

\* What it must have received, or been passed over for.
DueOK(c) ==
    IsReady(c) =>
        \A i \in (subscribedAt[c] + 1)..position[At(c)] :
            bus[i].server \in serverIds[c] /\ bus[i].channel = NoChannel
                => i \in skipped[c] \/ \E k \in DOMAIN frames[c] : frames[c][k] = i

\* What is published is about a channel or none, typing always about one.
SubjectOK(subject) ==
    /\ subject.channel # Wildcard
    /\ subject.kind = "typing" => subject.channel # NoChannel

BusOK ==
    /\ Len(bus) <= MaxBus
    /\ \A g \in Gateways : position[g] <= Len(bus)
    /\ \A i \in 1..Len(bus) : SubjectOK(bus[i])
    /\ \A g \in Gateways : \A i \in 1..Len(typing[g]) : SubjectOK(typing[g][i])

IInv ==
    /\ TypeOK
    /\ BusOK
    /\ \A c \in Connections : ConnectionOK(c) /\ KnownOK(c) /\ HeardOK(c) /\ DueOK(c)

-----------------------------------------------------------------------------
LEMMA InitInv == Init => IInv
<1> SUFFICES ASSUME Init PROVE IInv
  OBVIOUS
<1>1. TypeOK
  BY ConstantsAssumption DEF Init, TypeOK, Socket, NoSocket, Fetch, NoFetch
<1>2. BusOK
  BY ConstantsAssumption DEF Init, BusOK
<1>3. ASSUME NEW c \in Connections PROVE ConnectionOK(c) /\ KnownOK(c) /\ HeardOK(c) /\ DueOK(c)
  BY DEF Init, ConnectionOK, KnownOK, HeardOK, DueOK, IsReady, Open, NoSocket, NoFetch
<1> QED BY <1>1, <1>2, <1>3 DEF IInv

-----------------------------------------------------------------------------
\* Members.
LEMMA JoinInv ==
  ASSUME IInv, NEW c \in Connections, NEW s \in Servers, Join(c, s)
  PROVE  IInv'
<1>1. TypeOK'
  BY DEF IInv, TypeOK, Join, nats, connection
<1>2. BusOK'
  BY DEF IInv, BusOK, Join, nats, connection
<1>3. ASSUME NEW d \in Connections PROVE (ConnectionOK(d) /\ HeardOK(d) /\ DueOK(d))'
  BY DEF IInv, ConnectionOK, HeardOK, DueOK, IsReady, Open, At, Join, nats, connection
<1>4. ASSUME NEW d \in Connections PROVE KnownOK(d)'
  BY DEF IInv, TypeOK, KnownOK, Join, connection
<1> QED BY <1>1, <1>2, <1>3, <1>4 DEF IInv

LEMMA LeaveInv ==
  ASSUME IInv, NEW c \in Connections, NEW s \in Servers, Leave(c, s)
  PROVE  IInv'
<1>1. TypeOK'
  BY DEF IInv, TypeOK, Leave, nats, connection
<1>2. BusOK'
  BY DEF IInv, BusOK, Leave, nats, connection
<1>3. ASSUME NEW d \in Connections PROVE (ConnectionOK(d) /\ HeardOK(d) /\ DueOK(d))'
  BY DEF IInv, ConnectionOK, HeardOK, DueOK, IsReady, Open, At, Leave, nats, connection
<1>4. ASSUME NEW d \in Connections PROVE KnownOK(d)'
  BY DEF IInv, TypeOK, KnownOK, Leave, connection
<1> QED BY <1>1, <1>2, <1>3, <1>4 DEF IInv

-----------------------------------------------------------------------------
\* Publishing appends to the bus, behind every position.
LEMMA PutInv ==
  ASSUME IInv, NEW subject \in Subject, SubjectOK(subject), Put(subject),
         UNCHANGED <<rows, connection>>, typing' \in [Gateways -> Seq(Subject)],
         faults' \in 0..MaxFaults,
         \A g \in Gateways : \A i \in 1..Len(typing'[g]) : SubjectOK(typing'[g][i])
  PROVE  IInv'
<1>1. /\ bus \in Seq(Subject) /\ bus' = Append(bus, subject) /\ Len(bus') = Len(bus) + 1
      /\ bus'[Len(bus) + 1] = subject /\ \A i \in 1..Len(bus) : bus'[i] = bus[i]
      /\ bus' \in Seq(Subject) /\ Len(bus) \in Nat
  BY DEF IInv, TypeOK, Put
<1>2. TypeOK'
  BY <1>1 DEF IInv, TypeOK, Put, rows, connection
<1>3. BusOK'
  <2>1. Len(bus') <= MaxBus
    BY <1>1, ConstantsAssumption DEF Put
  <2>2. \A g \in Gateways : position'[g] <= Len(bus')
    BY <1>1 DEF IInv, TypeOK, BusOK, Put
  <2>3. \A i \in 1..Len(bus') : SubjectOK(bus'[i])
    BY <1>1 DEF IInv, BusOK
  <2> QED BY <2>1, <2>2, <2>3 DEF BusOK, SubjectOK
<1>4. ASSUME NEW c \in Connections
      PROVE  (ConnectionOK(c) /\ KnownOK(c) /\ HeardOK(c) /\ DueOK(c))'
  <2>1. ConnectionOK(c)' /\ KnownOK(c)'
    BY <1>4 DEF IInv, ConnectionOK, KnownOK, Open, At, Put, rows, connection
  <2>2. Open(c) => position[At(c)] <= Len(bus) /\ position[At(c)] \in Nat /\ subscribedAt[c] \in Nat
    BY <1>4 DEF IInv, BusOK, ConnectionOK, TypeOK, Open
  <2>3. DueOK(c)'
    <3> SUFFICES ASSUME IsReady(c), NEW i \in (subscribedAt[c] + 1)..position[At(c)],
                        bus'[i].server \in serverIds[c], bus'[i].channel = NoChannel
                 PROVE  i \in skipped[c] \/ \E k \in DOMAIN frames[c] : frames[c][k] = i
      BY DEF DueOK, IsReady, Open, At, Put, connection
    <3>1. bus'[i] = bus[i]
      BY <1>1, <2>2 DEF IsReady
    <3> QED BY <3>1 DEF IInv, DueOK
  <2>4. ~Open(c) => frames[c] = <<>>
    BY <1>4 DEF IInv, ConnectionOK, NoFetch
  <2>5. HeardOK(c)'
    <3>1. CASE Open(c)
      <4>1. \A i \in DOMAIN frames[c] : frames[c][i] \in 1..Len(bus)
        BY <1>4, <2>2, <3>1, <1>1 DEF IInv, HeardOK
      <4> QED BY <1>1, <4>1, <1>4 DEF IInv, HeardOK, At, Put, connection
    <3>2. CASE ~Open(c)
      BY <3>2, <2>4, <1>4 DEF HeardOK, connection
    <3> QED BY <3>1, <3>2
  <2> QED BY <2>1, <2>3, <2>5
<1> QED BY <1>2, <1>3, <1>4 DEF IInv

LEMMA PublishEventInv ==
  ASSUME IInv, NEW e \in OutboxEvent, PublishEvent(e)
  PROVE  IInv'
<1>1. ResolveOutboxSubject(e) \in Subject /\ SubjectOK(ResolveOutboxSubject(e))
  BY ConstantsAssumption
  DEF OutboxEvent, ResolveOutboxSubject, Subject, ServerEvents, ChannelEvents, UserEvents, SubjectOK
<1>2. /\ typing' \in [Gateways -> Seq(Subject)] /\ faults' \in 0..MaxFaults
      /\ \A g \in Gateways : \A i \in 1..Len(typing'[g]) : SubjectOK(typing'[g][i])
  BY DEF IInv, TypeOK, BusOK, PublishEvent
<1> QED BY <1>1, <1>2, PutInv DEF PublishEvent

LEMMA PublishPresenceInv ==
  ASSUME IInv, NEW s \in Servers, PublishPresence(s)
  PROVE  IInv'
<1>1. ServerPresence(s) \in Subject /\ SubjectOK(ServerPresence(s))
  BY ConstantsAssumption DEF Subject, ServerPresence, SubjectOK
<1>2. /\ typing' \in [Gateways -> Seq(Subject)] /\ faults' \in 0..MaxFaults
      /\ \A g \in Gateways : \A i \in 1..Len(typing'[g]) : SubjectOK(typing'[g][i])
  BY DEF IInv, TypeOK, BusOK, PublishPresence
<1> QED BY <1>1, <1>2, PutInv DEF PublishPresence

LEMMA PublishTypingInv ==
  ASSUME IInv, NEW g \in Gateways, PublishTyping(g)
  PROVE  IInv'
<1>1. typing[g] \in Seq(Subject) /\ typing[g] # <<>> /\ typing' = [typing EXCEPT ![g] = Tail(@)]
  BY DEF IInv, TypeOK, PublishTyping
<1>2. /\ Head(typing[g]) \in Subject /\ Tail(typing[g]) \in Seq(Subject)
      /\ Head(typing[g]) = typing[g][1] /\ Len(typing[g]) >= 1
      /\ Len(Tail(typing[g])) = Len(typing[g]) - 1
      /\ \A i \in 1..Len(Tail(typing[g])) : Tail(typing[g])[i] = typing[g][i + 1]
  BY <1>1
<1>3. SubjectOK(Head(typing[g]))
  BY <1>2, <1>1 DEF IInv, BusOK
<1>4. typing' \in [Gateways -> Seq(Subject)]
  BY <1>1, <1>2 DEF IInv, TypeOK
<1>5. ASSUME NEW h \in Gateways, NEW i \in 1..Len(typing'[h]) PROVE SubjectOK(typing'[h][i])
  <2>1. CASE h = g
    <3>1. typing'[h] = Tail(typing[g])
      BY <2>1, <1>1 DEF IInv, TypeOK
    <3>2. i + 1 \in 1..Len(typing[g]) /\ typing'[h][i] = typing[g][i + 1]
      BY <3>1, <1>2, <1>1, <1>5
    <3> QED BY <3>2 DEF IInv, BusOK
  <2>2. CASE h # g
    <3>1. typing'[h] = typing[h]
      BY <2>2, <1>1 DEF IInv, TypeOK
    <3> QED BY <3>1, <1>5 DEF IInv, BusOK
  <2> QED BY <2>1, <2>2
<1>6. CASE Put(Head(typing[g])) /\ UNCHANGED faults
  <2>1. faults' \in 0..MaxFaults
    BY <1>6 DEF IInv, TypeOK
  <2> QED BY <1>6, <1>2, <1>3, <1>4, <1>5, <2>1, PutInv DEF PublishTyping
<1>7. CASE Fault /\ UNCHANGED nats
  <2>1. faults' \in 0..MaxFaults
    BY <1>7, ConstantsAssumption DEF IInv, TypeOK, Fault
  <2>2. TypeOK'
    BY <1>4, <1>7, <2>1 DEF IInv, TypeOK, PublishTyping, rows, nats, connection
  <2>3. BusOK'
    BY <1>5, <1>7 DEF IInv, BusOK, nats
  <2>4. ASSUME NEW c \in Connections
        PROVE  (ConnectionOK(c) /\ KnownOK(c) /\ HeardOK(c) /\ DueOK(c))'
    BY <1>7 DEF IInv, ConnectionOK, KnownOK, HeardOK, DueOK, IsReady, Open, At, PublishTyping,
                rows, nats, connection
  <2> QED BY <2>2, <2>3, <2>4 DEF IInv
<1> QED BY <1>6, <1>7 DEF PublishTyping

-----------------------------------------------------------------------------
\* The life of a connection.  A step of c leaves the others as they are.
LEMMA Others ==
  ASSUME IInv, NEW d \in Connections, UNCHANGED <<bus, position>>,
         socket'[d] = socket[d], fetch'[d] = fetch[d], serverIds'[d] = serverIds[d],
         topics'[d] = topics[d], frames'[d] = frames[d],
         subscribedAt'[d] = subscribedAt[d], skipped'[d] = skipped[d],
         member'[d] = member[d], known'[d] = known[d], steady'[d] = steady[d]
  PROVE  (ConnectionOK(d) /\ KnownOK(d) /\ HeardOK(d) /\ DueOK(d))'
  BY DEF IInv, ConnectionOK, KnownOK, HeardOK, DueOK, IsReady, Open, At

LEMMA UpgradeInv ==
  ASSUME IInv, NEW c \in Connections, NEW g \in Gateways, Upgrade(c, g)
  PROVE  IInv'
<1>1. TypeOK'
  BY DEF IInv, TypeOK, Upgrade, Socket, nats
<1>2. BusOK'
  BY DEF IInv, BusOK, Upgrade, nats
<1>3. ASSUME NEW d \in Connections
      PROVE  (ConnectionOK(d) /\ KnownOK(d) /\ HeardOK(d) /\ DueOK(d))'
  <2>1. CASE d = c
    <3>1. /\ fetch[c] = NoFetch /\ serverIds[c] = {} /\ topics[c] = {} /\ frames[c] = <<>>
      BY DEF IInv, ConnectionOK, Open, NoFetch, Upgrade
    <3>2. /\ socket'[c] = [state |-> "verifying", gateway |-> g] /\ fetch'[c] = NoFetch /\ serverIds'[c] = {}
          /\ topics'[c] = {} /\ frames'[c] = <<>> /\ member'[c] = member[c] /\ known'[c] = member[c]
          /\ steady'[c] = member[c]
      BY <3>1 DEF IInv, TypeOK, Upgrade
    <3> QED BY <2>1, <3>2 DEF ConnectionOK, KnownOK, HeardOK, DueOK, IsReady, Open, At, NoFetch
  <2>2. CASE d # c
    BY <2>2, Others DEF IInv, TypeOK, Upgrade, nats
  <2> QED BY <2>1, <2>2
<1> QED BY <1>1, <1>2, <1>3 DEF IInv

LEMMA RejectedInv ==
  ASSUME IInv, NEW c \in Connections, Rejected(c)
  PROVE  IInv'
<1>1. TypeOK'
  BY DEF IInv, TypeOK, Rejected, Socket, NoSocket, nats, rows
<1>2. BusOK'
  BY DEF IInv, BusOK, Rejected, nats
<1>3. ASSUME NEW d \in Connections
      PROVE  (ConnectionOK(d) /\ KnownOK(d) /\ HeardOK(d) /\ DueOK(d))'
  <2>1. CASE d = c
    <3>1. /\ fetch[c] = NoFetch /\ serverIds[c] = {} /\ topics[c] = {} /\ frames[c] = <<>>
      BY DEF IInv, ConnectionOK, Open, NoFetch, Rejected
    <3>2. socket'[c].state = "none"
      BY DEF IInv, TypeOK, Rejected, NoSocket
    <3> QED BY <2>1, <3>1, <3>2
            DEF IInv, ConnectionOK, KnownOK, HeardOK, DueOK, IsReady, Open, NoFetch, Rejected, rows
  <2>2. CASE d # c
    BY <2>2, Others DEF IInv, TypeOK, Rejected, nats, rows
  <2> QED BY <2>1, <2>2
<1> QED BY <1>1, <1>2, <1>3 DEF IInv

LEMMA AcceptInv ==
  ASSUME IInv, NEW c \in Connections, Accept(c)
  PROVE  IInv'
<1>1. TypeOK'
  <2>1. socket' \in [Connections -> Socket]
    BY DEF IInv, TypeOK, Accept, Socket
  <2>2. fetch' \in [Connections -> Fetch]
    <3>1. [state |-> "sent", servers |-> {}] \in Fetch
      BY DEF Fetch
    <3> QED BY <3>1 DEF IInv, TypeOK, Accept
  <2> QED BY <2>1, <2>2 DEF IInv, TypeOK, Accept, nats, rows
<1>2. BusOK'
  BY DEF IInv, BusOK, Accept, nats
<1>3. ASSUME NEW d \in Connections
      PROVE  (ConnectionOK(d) /\ KnownOK(d) /\ HeardOK(d) /\ DueOK(d))'
  <2>1. CASE d = c
    <3>1. /\ serverIds[c] = {} /\ topics[c] = {} /\ frames[c] = <<>>
      BY DEF IInv, ConnectionOK, Open, NoFetch, Accept
    <3>2. /\ socket'[c].state = "open" /\ socket'[c].gateway \in Gateways
          /\ fetch'[c] = [state |-> "sent", servers |-> {}]
      BY DEF IInv, TypeOK, ConnectionOK, At, Accept, Socket
    <3> QED BY <2>1, <3>1, <3>2
            DEF IInv, ConnectionOK, KnownOK, HeardOK, DueOK, IsReady, Open, At, Accept, rows
  <2>2. CASE d # c
    BY <2>2, Others DEF IInv, TypeOK, Accept, nats, rows
  <2> QED BY <2>1, <2>2
<1> QED BY <1>1, <1>2, <1>3 DEF IInv

LEMMA ListByUserIdInv ==
  ASSUME IInv, NEW c \in Connections, ListByUserId(c)
  PROVE  IInv'
<1>1. TypeOK'
  BY DEF IInv, TypeOK, ListByUserId, Fetch, nats, rows
<1>2. BusOK'
  BY DEF IInv, BusOK, ListByUserId, nats
<1>3. ASSUME NEW d \in Connections
      PROVE  (ConnectionOK(d) /\ KnownOK(d) /\ HeardOK(d) /\ DueOK(d))'
  <2>1. CASE d = c
    <3>1. /\ Open(c) /\ serverIds[c] = {} /\ topics[c] = {} /\ frames[c] = <<>>
      BY DEF IInv, ConnectionOK, NoFetch, ListByUserId
    <3>2. fetch'[c] = [state |-> "here", servers |-> member[c]]
      BY DEF IInv, TypeOK, ListByUserId
    <3> QED BY <2>1, <3>1, <3>2
            DEF IInv, ConnectionOK, KnownOK, HeardOK, DueOK, IsReady, Open, At, ListByUserId, rows
  <2>2. CASE d # c
    BY <2>2, Others DEF IInv, TypeOK, ListByUserId, nats, rows
  <2> QED BY <2>1, <2>2
<1> QED BY <1>1, <1>2, <1>3 DEF IInv

LEMMA FetchFailsInv ==
  ASSUME IInv, NEW c \in Connections, FetchFails(c)
  PROVE  IInv'
<1>1. TypeOK'
  <2>1. faults' \in 0..MaxFaults
    BY ConstantsAssumption DEF IInv, TypeOK, FetchFails, Fault
  <2>2. fetch' \in [Connections -> Fetch]
    <3>1. fetch \in [Connections -> Fetch] /\ fetch' = [fetch EXCEPT ![c].state = "failed"]
      BY DEF IInv, TypeOK, FetchFails
    <3>2. [fetch[c] EXCEPT !.state = "failed"] \in Fetch
      BY <3>1 DEF Fetch
    <3> QED BY <3>1, <3>2
  <2> QED BY <2>1, <2>2 DEF IInv, TypeOK, FetchFails, nats, rows
<1>2. BusOK'
  BY DEF IInv, BusOK, FetchFails, nats
<1>3. ASSUME NEW d \in Connections
      PROVE  (ConnectionOK(d) /\ KnownOK(d) /\ HeardOK(d) /\ DueOK(d))'
  <2>1. CASE d = c
    <3>1. /\ Open(c) /\ serverIds[c] = {} /\ topics[c] = {} /\ frames[c] = <<>>
      BY DEF IInv, ConnectionOK, NoFetch, FetchFails
    <3>2. fetch'[c].state = "failed" /\ fetch'[c].servers = fetch[c].servers
      BY DEF IInv, TypeOK, FetchFails, Fetch
    <3> QED BY <2>1, <3>1, <3>2
            DEF IInv, ConnectionOK, KnownOK, HeardOK, DueOK, IsReady, Open, At, FetchFails, rows
  <2>2. CASE d # c
    BY <2>2, Others DEF IInv, TypeOK, FetchFails, nats, rows
  <2> QED BY <2>1, <2>2
<1> QED BY <1>1, <1>2, <1>3 DEF IInv

LEMMA ReadyInv ==
  ASSUME IInv, NEW c \in Connections, Ready(c)
  PROVE  IInv'
<1>1. /\ Open(c) /\ At(c) \in Gateways /\ frames[c] = <<>> /\ position[At(c)] \in 0..MaxBus
      /\ fetch[c].servers \subseteq Servers
  BY DEF IInv, TypeOK, Fetch, ConnectionOK, NoFetch, Open, Ready
<1>2. /\ fetch'[c].state = "done" /\ fetch'[c].servers = fetch[c].servers
      /\ serverIds'[c] = fetch[c].servers
      /\ topics'[c] = UNION {ServerTopics(s) : s \in fetch[c].servers}
      /\ subscribedAt'[c] = position[At(c)]
  BY DEF IInv, TypeOK, Fetch, Ready
<1>3. TypeOK'
  <2>1. UNION {ServerTopics(s) : s \in fetch[c].servers} \in SUBSET Subject
    BY <1>1 DEF ServerTopics, ServerEvents, ChannelEvents, ServerPresence, ChannelTyping, Subject
  <2> QED BY <1>1, <2>1 DEF IInv, TypeOK, Ready, Fetch, nats, rows
<1>4. BusOK'
  BY DEF IInv, BusOK, Ready, nats
<1>5. ASSUME NEW d \in Connections
      PROVE  (ConnectionOK(d) /\ KnownOK(d) /\ HeardOK(d) /\ DueOK(d))'
  <2>1. CASE d = c
    <3>1. ConnectionOK(c)'
      BY <1>1, <1>2 DEF ConnectionOK, Open, At, Ready, nats
    <3>2. KnownOK(c)'
      BY <1>2 DEF IInv, KnownOK, Ready, rows
    <3>3. HeardOK(c)' /\ DueOK(c)'
      BY <1>1, <1>2 DEF HeardOK, DueOK, At, Ready, nats
    <3> QED BY <2>1, <3>1, <3>2, <3>3
  <2>2. CASE d # c
    BY <2>2, Others DEF IInv, TypeOK, Ready, nats, rows
  <2> QED BY <2>1, <2>2
<1> QED BY <1>3, <1>4, <1>5 DEF IInv

-----------------------------------------------------------------------------
\* Closing.
LEMMA DroppedOK ==
  ASSUME IInv, NEW C \in SUBSET Connections, Dropped(C), UNCHANGED <<rows, bus>>,
         NEW d \in Connections,
         d \notin C => position'[At(d)] = position[At(d)]
  PROVE  (ConnectionOK(d) /\ KnownOK(d) /\ HeardOK(d) /\ DueOK(d))'
<1>1. CASE d \in C
  <2>1. /\ socket'[d] = NoSocket /\ fetch'[d] = NoFetch /\ serverIds'[d] = {}
        /\ topics'[d] = {} /\ frames'[d] = <<>>
    BY <1>1 DEF Dropped
  <2> QED BY <2>1 DEF IInv, ConnectionOK, KnownOK, HeardOK, DueOK, IsReady, Open, NoSocket, NoFetch, rows
<1>2. CASE d \notin C
  <2>1. /\ socket'[d] = socket[d] /\ fetch'[d] = fetch[d] /\ serverIds'[d] = serverIds[d]
        /\ topics'[d] = topics[d] /\ frames'[d] = frames[d] /\ member'[d] = member[d]
        /\ subscribedAt'[d] = subscribedAt[d] /\ skipped'[d] = skipped[d] /\ known'[d] = known[d] /\ steady'[d] = steady[d]
    BY <1>2 DEF Dropped, rows
  <2> QED BY <1>2, <2>1 DEF IInv, ConnectionOK, KnownOK, HeardOK, DueOK, IsReady, Open, At
<1> QED BY <1>1, <1>2

LEMMA DroppedType ==
  ASSUME IInv, NEW C \in SUBSET Connections, Dropped(C), UNCHANGED <<rows, bus>>,
         position' \in [Gateways -> 0..MaxBus], typing' \in [Gateways -> Seq(Subject)],
         faults' \in 0..MaxFaults
  PROVE  TypeOK'
<1>1. socket' \in [Connections -> Socket] /\ fetch' \in [Connections -> Fetch]
  BY DEF IInv, TypeOK, Dropped, Socket, NoSocket, Fetch, NoFetch
<1>2. serverIds' \in [Connections -> SUBSET Servers] /\ topics' \in [Connections -> SUBSET Subject]
  BY DEF IInv, TypeOK, Dropped
<1>3. messageCount' \in [Connections -> 0..MaxPerSecond] /\ subscribedAt' \in [Connections -> 0..MaxBus]
  BY ConstantsAssumption DEF IInv, TypeOK, Dropped
<1>4. /\ frames' \in [Connections -> Seq(1..MaxBus)] /\ slow' \subseteq Connections
      /\ skipped' \in [Connections -> SUBSET (1..MaxBus)]
  <2>1. <<>> \in Seq(1..MaxBus)
    OBVIOUS
  <2>2. frames' \in [Connections -> Seq(1..MaxBus)]
    BY <2>1 DEF IInv, TypeOK, Dropped
  <2>3. slow' \subseteq Connections /\ skipped' \in [Connections -> SUBSET (1..MaxBus)]
    BY DEF IInv, TypeOK, Dropped
  <2> QED BY <2>2, <2>3
<1> QED BY <1>1, <1>2, <1>3, <1>4 DEF IInv, TypeOK, rows

LEMMA CloseInv ==
  ASSUME IInv, NEW c \in Connections, Close(c) \/ \E passed \in BOOLEAN : RateLimited(c, passed)
  PROVE  IInv'
<1>1. Dropped({c}) /\ UNCHANGED <<rows, bus, position, typing, faults>>
  BY DEF Close, RateLimited, nats
<1>2. TypeOK'
  BY <1>1, DroppedType DEF IInv, TypeOK
<1>3. BusOK'
  BY <1>1 DEF IInv, BusOK
<1>4. ASSUME NEW d \in Connections
      PROVE  (ConnectionOK(d) /\ KnownOK(d) /\ HeardOK(d) /\ DueOK(d))'
  BY <1>1, DroppedOK
<1> QED BY <1>2, <1>3, <1>4 DEF IInv

LEMMA RestartInv ==
  ASSUME IInv, NEW g \in Gateways, Restart(g)
  PROVE  IInv'
<1>1. /\ position' = [position EXCEPT ![g] = Len(bus)] /\ typing' = [typing EXCEPT ![g] = <<>>]
      /\ UNCHANGED <<rows, bus>> /\ Dropped({c \in Connections : At(c) = g})
  BY DEF Restart
<1>2. Len(bus) \in 0..MaxBus
  BY ConstantsAssumption DEF IInv, TypeOK, BusOK
<1>3. TypeOK'
  <2>1. position' \in [Gateways -> 0..MaxBus] /\ typing' \in [Gateways -> Seq(Subject)]
    BY <1>1, <1>2 DEF IInv, TypeOK
  <2>2. faults' \in 0..MaxFaults
    BY ConstantsAssumption DEF IInv, TypeOK, Restart, Fault
  <2> QED BY <1>1, <2>1, <2>2, DroppedType
<1>4. BusOK'
  BY <1>1, <1>2 DEF IInv, TypeOK, BusOK
<1>5. ASSUME NEW d \in Connections
      PROVE  (ConnectionOK(d) /\ KnownOK(d) /\ HeardOK(d) /\ DueOK(d))'
  <2>1. d \notin {c \in Connections : At(c) = g} => position'[At(d)] = position[At(d)]
    BY <1>1 DEF IInv, TypeOK
  <2> QED BY <1>1, <2>1, DroppedOK
<1> QED BY <1>3, <1>4, <1>5 DEF IInv

-----------------------------------------------------------------------------
\* Who is slow is of no account until the bridge passes over it.
LEMMA SlowInv ==
  ASSUME IInv, NEW c \in Connections, FallsBehind(c) \/ Drain(c)
  PROVE  IInv'
<1>1. TypeOK'
  BY DEF IInv, TypeOK, FallsBehind, Drain, nats, rows
<1>2. BusOK'
  BY DEF IInv, BusOK, FallsBehind, Drain, nats
<1>3. ASSUME NEW d \in Connections
      PROVE  (ConnectionOK(d) /\ KnownOK(d) /\ HeardOK(d) /\ DueOK(d))'
  BY Others DEF FallsBehind, Drain, nats, rows
<1> QED BY <1>1, <1>2, <1>3 DEF IInv

LEMMA TypingInv ==
  ASSUME IInv, NEW c \in Connections, NEW passed \in BOOLEAN, NEW s \in Servers,
         NEW ch \in Channels, Typing(c, passed, s, ch)
  PROVE  IInv'
<1>1. At(c) \in Gateways /\ ChannelTyping(s, ch) \in Subject /\ SubjectOK(ChannelTyping(s, ch))
  BY ConstantsAssumption DEF IInv, ConnectionOK, Open, Typing, ChannelTyping, Subject, SubjectOK
<1>4. messageCount' \in [Connections -> 0..MaxPerSecond]
  <2>1. Count(c, passed) \in 0..MaxPerSecond
    BY ConstantsAssumption DEF IInv, TypeOK, Typing, Count
  <2> QED BY <2>1 DEF IInv, TypeOK, Typing, Counted
<1>2. CASE s \in serverIds[c]
  <2>1. /\ typing' = [typing EXCEPT ![At(c)] = Append(typing[At(c)], ChannelTyping(s, ch))]
        /\ typing[At(c)] \in Seq(Subject)
    BY <1>1, <1>2 DEF IInv, TypeOK, Typing
  <2>2. typing' \in [Gateways -> Seq(Subject)]
    BY <2>1, <1>1 DEF IInv, TypeOK
  <2>3. \A g \in Gateways : \A i \in 1..Len(typing'[g]) : SubjectOK(typing'[g][i])
    BY <2>1, <1>1 DEF IInv, TypeOK, BusOK
  <2>4. TypeOK'
    BY <2>2, <1>4 DEF IInv, TypeOK, Typing, nats, rows
  <2>5. BusOK'
    BY <2>3 DEF IInv, BusOK, Typing, nats, SubjectOK
  <2>6. ASSUME NEW d \in Connections
        PROVE  (ConnectionOK(d) /\ KnownOK(d) /\ HeardOK(d) /\ DueOK(d))'
    BY Others DEF Typing, nats, rows
  <2> QED BY <2>4, <2>5, <2>6 DEF IInv
<1>3. CASE s \notin serverIds[c]
  <2>1. typing' = typing
    BY <1>1, <1>3 DEF IInv, TypeOK, Typing
  <2>4. TypeOK'
    BY <2>1, <1>4 DEF IInv, TypeOK, Typing, nats, rows
  <2>5. BusOK'
    BY <2>1 DEF IInv, BusOK, Typing, nats
  <2>6. ASSUME NEW d \in Connections
        PROVE  (ConnectionOK(d) /\ KnownOK(d) /\ HeardOK(d) /\ DueOK(d))'
    BY Others DEF Typing, nats, rows
  <2> QED BY <2>4, <2>5, <2>6 DEF IInv
<1> QED BY <1>2, <1>3

LEMMA ReconnectInv ==
  ASSUME IInv, NEW g \in Gateways, Reconnect(g)
  PROVE  IInv'
<1>1. Len(bus) \in 0..MaxBus /\ position[g] < Len(bus) /\ position[g] \in Nat
  BY ConstantsAssumption DEF IInv, TypeOK, BusOK, Reconnect
<1>2. TypeOK'
  <2>1. faults' \in 0..MaxFaults /\ position' \in [Gateways -> 0..MaxBus]
    BY <1>1, ConstantsAssumption DEF IInv, TypeOK, Reconnect, Fault
  <2>2. ((position[g] + 1)..Len(bus)) \subseteq 1..MaxBus
    BY <1>1, ConstantsAssumption
  <2>3. skipped' \in [Connections -> SUBSET (1..MaxBus)]
    BY <2>2 DEF IInv, TypeOK, Reconnect
  <2> QED BY <2>1, <2>3 DEF IInv, TypeOK, Reconnect, rows
<1>3. BusOK'
  <2>1. \A h \in Gateways : position'[h] <= Len(bus)
    BY <1>1 DEF IInv, TypeOK, BusOK, Reconnect
  <2> QED BY <2>1 DEF IInv, BusOK, Reconnect
<1>4. ASSUME NEW d \in Connections
      PROVE  (ConnectionOK(d) /\ KnownOK(d) /\ HeardOK(d) /\ DueOK(d))'
  <2>1. CASE At(d) = g
    <3>1. /\ position'[g] = Len(bus) /\ subscribedAt[d] \in Nat
          /\ skipped'[d] = skipped[d] \cup ((position[g] + 1)..Len(bus))
          /\ At(d)' = g
      BY <2>1 DEF IInv, TypeOK, Reconnect, At
    <3>2. \A i \in DOMAIN frames[d] : frames[d][i] \in (subscribedAt[d] + 1)..Len(bus)
      <4>1. \A i \in DOMAIN frames[d] : frames[d][i] \in (subscribedAt[d] + 1)..position[g]
        BY <2>1 DEF IInv, HeardOK
      <4> QED BY <3>1, <4>1, <1>1
    <3>3. (ConnectionOK(d) /\ KnownOK(d) /\ HeardOK(d))'
      BY <2>1, <3>1, <3>2, <1>1
         DEF IInv, TypeOK, ConnectionOK, KnownOK, HeardOK, Open, At, Reconnect, rows
    <3>4. DueOK(d)'
      <4> SUFFICES ASSUME IsReady(d), NEW i \in (subscribedAt[d] + 1)..Len(bus),
                          bus[i].server \in serverIds[d], bus[i].channel = NoChannel
                   PROVE  i \in skipped'[d] \/ \E k \in DOMAIN frames[d] : frames[d][k] = i
        BY <3>1 DEF DueOK, IsReady, Open, Reconnect
      <4>1. CASE i \in (subscribedAt[d] + 1)..position[g]
        BY <2>1, <3>1, <4>1 DEF IInv, DueOK
      <4>2. CASE i \notin (subscribedAt[d] + 1)..position[g]
        BY <3>1, <4>2, <1>1
      <4> QED BY <4>1, <4>2
    <3> QED BY <3>3, <3>4
  <2>2. CASE At(d) # g
    <3>1. position'[At(d)] = position[At(d)] /\ skipped'[d] = skipped[d]
      BY <2>2 DEF IInv, TypeOK, Reconnect
    <3> QED BY <3>1
            DEF IInv, ConnectionOK, KnownOK, HeardOK, DueOK, IsReady, Open, At, Reconnect, rows
  <2> QED BY <2>1, <2>2
<1> QED BY <1>2, <1>3, <1>4 DEF IInv

-----------------------------------------------------------------------------
\* The bridge hands the message on to whom it is due.
LEMMA BridgeInv ==
  ASSUME IInv, NEW g \in Gateways, Bridge(g)
  PROVE  IInv'
<1> DEFINE n == position[g] + 1
           due(d) == Bridged(bus[n]) /\ Open(d) /\ At(d) = g /\ bus[n] \in topics[d]
           hears(d) == due(d) /\ d \notin slow
<1>1. /\ n \in 1..MaxBus /\ n <= Len(bus) /\ position[g] \in Nat /\ Len(bus) \in Nat
      /\ position' = [position EXCEPT ![g] = n] /\ bus[n] \in Subject /\ SubjectOK(bus[n])
      /\ position'[g] = n
  <2>1. position[g] \in Nat /\ Len(bus) \in Nat /\ position[g] < Len(bus) /\ Len(bus) <= MaxBus
        /\ bus \in Seq(Subject) /\ MaxBus \in Nat
    BY ConstantsAssumption DEF IInv, TypeOK, BusOK, Bridge
  <2>2. n \in 1..Len(bus) /\ n \in 1..MaxBus
    BY <2>1
  <2>3. bus[n] \in Subject /\ SubjectOK(bus[n])
    BY <2>1, <2>2 DEF IInv, BusOK
  <2>4. position' = [position EXCEPT ![g] = n] /\ position'[g] = n
    BY DEF IInv, TypeOK, Bridge
  <2> QED BY <2>1, <2>2, <2>3, <2>4
<1>2. ASSUME NEW d \in Connections
      PROVE  /\ frames[d] \in Seq(1..MaxBus)
             /\ hears(d) => frames'[d] = Append(frames[d], n)
             /\ ~hears(d) => frames'[d] = frames[d]
             /\ skipped[d] \subseteq skipped'[d] /\ skipped'[d] \subseteq skipped[d] \cup {n}
             /\ ~due(d) => skipped'[d] = skipped[d]
             /\ due(d) /\ ~hears(d) => n \in skipped'[d]
  BY DEF IInv, TypeOK, Bridge, Publish, Hearers
<1>3. TypeOK'
  <2>1. ASSUME NEW d \in Connections PROVE frames'[d] \in Seq(1..MaxBus)
    <3>1. frames[d] \in Seq(1..MaxBus) /\ Append(frames[d], n) \in Seq(1..MaxBus)
      <4> HIDE DEF n
      <4> QED BY <1>1, <1>2
    <3>2. frames'[d] = Append(frames[d], n) \/ frames'[d] = frames[d]
      BY <1>2
    <3> QED BY <3>1, <3>2
  <2>2. frames' \in [Connections -> Seq(1..MaxBus)]
    BY <2>1 DEF Bridge, Publish
  <2>3. ASSUME NEW d \in Connections PROVE skipped'[d] \in SUBSET (1..MaxBus)
    BY <1>1, <1>2 DEF IInv, TypeOK
  <2>4. skipped' \in [Connections -> SUBSET (1..MaxBus)]
    BY <2>3 DEF Bridge, Publish
  <2> QED BY <1>1, <2>2, <2>4 DEF IInv, TypeOK, Bridge, rows
<1>4. BusOK'
  BY <1>1 DEF IInv, TypeOK, BusOK, Bridge
<1>5. ASSUME NEW d \in Connections
      PROVE  (ConnectionOK(d) /\ KnownOK(d) /\ HeardOK(d) /\ DueOK(d))'
  <2>1. CASE At(d) # g \/ ~Open(d)
    <3>1. frames'[d] = frames[d] /\ (Open(d) => position'[At(d)] = position[At(d)])
      BY <2>1, <1>1, <1>2 DEF IInv, TypeOK
    <3>2. ~Open(d) => frames[d] = <<>> /\ fetch[d].state # "done"
      BY DEF IInv, ConnectionOK, NoFetch
    <3>3. CASE Open(d)
      <4>1. /\ frames'[d] = frames[d] /\ position'[socket[d].gateway] = position[socket[d].gateway]
            /\ skipped'[d] = skipped[d]
            /\ UNCHANGED <<rows, bus, socket, fetch, serverIds, topics, subscribedAt>>
        BY <2>1, <3>1, <3>3, <1>2 DEF At, Bridge
      <4>2. (ConnectionOK(d) /\ KnownOK(d))'
        BY <4>1 DEF IInv, ConnectionOK, KnownOK, Open, At, rows
      <4>3. HeardOK(d)'
        BY <4>1 DEF IInv, HeardOK, At
      <4>4. DueOK(d)'
        BY <4>1 DEF IInv, DueOK, IsReady, Open, At
      <4> QED BY <4>2, <4>3, <4>4
    <3>4. CASE ~Open(d)
      <4>1. frames'[d] = <<>> /\ fetch'[d].state # "done" /\ ~Open(d)'
        BY <3>1, <3>2, <3>4 DEF Open, Bridge
      <4> QED BY <4>1, <3>4
              DEF IInv, ConnectionOK, KnownOK, HeardOK, DueOK, IsReady, Open, At, Bridge, rows
    <3> QED BY <3>3, <3>4
  <2>2. CASE At(d) = g /\ Open(d)
    <3>1. subscribedAt[d] \in Nat /\ serverIds[d] \subseteq Servers
      BY DEF IInv, TypeOK
    <3>2. hears(d) => /\ fetch[d].state = "done" /\ bus[n].server \in serverIds[d]
                      /\ bus[n].channel = NoChannel /\ subscribedAt[d] <= position[g]
      BY <2>2, <1>1 DEF IInv, ConnectionOK, ServerTopics, ServerEvents, ChannelEvents,
                        ServerPresence, ChannelTyping, SubjectOK
    <3>3. /\ fetch[d].state = "done" /\ bus[n].server \in serverIds[d] /\ bus[n].channel = NoChannel
          => due(d)
      <4> SUFFICES ASSUME fetch[d].state = "done", bus[n].server \in serverIds[d],
                          bus[n].channel = NoChannel
                   PROVE  due(d)
        OBVIOUS
      <4>1. bus[n] = ServerEvents(bus[n].server) \/ bus[n] = ServerPresence(bus[n].server)
        BY <1>1 DEF Subject, SubjectOK, ServerEvents, ServerPresence
      <4>2. bus[n] \in ServerTopics(bus[n].server)
        BY <4>1 DEF ServerTopics
      <4>3. bus[n].server # NoServer
        BY <3>1, ConstantsAssumption
      <4> QED BY <2>2, <4>2, <4>3 DEF IInv, ConnectionOK, Bridged
    <3>4. ConnectionOK(d)'
      <4>1. hears(d) => frames'[d] # frames[d] /\ fetch[d].state = "done"
        BY <1>1, <1>2, <3>2
      <4> QED BY <2>2, <3>1, <3>2, <1>1, <1>2 DEF IInv, ConnectionOK, Open, At, Bridge
    <3>5. KnownOK(d)'
      BY DEF IInv, KnownOK, Bridge, rows
    <3>6. CASE hears(d)
      <4>1. /\ frames'[d] = Append(frames[d], n) /\ DOMAIN frames[d] = 1..Len(frames[d])
            /\ DOMAIN frames'[d] = 1..(Len(frames[d]) + 1) /\ Len(frames[d]) \in Nat
            /\ \A i \in 1..Len(frames[d]) : frames'[d][i] = frames[d][i]
            /\ frames'[d][Len(frames[d]) + 1] = n
        <5>1. frames'[d] = Append(frames[d], n) /\ frames[d] \in Seq(1..MaxBus)
          BY <3>6, <1>1, <1>2 DEF IInv, TypeOK
        <5> HIDE DEF n
        <5> QED BY <5>1
      <4>2. \A i \in 1..Len(frames[d]) : frames[d][i] \in (subscribedAt[d] + 1)..position[g]
        BY <2>2, <4>1 DEF IInv, HeardOK
      <4>3. HeardOK(d)'
        <5>1. /\ bus' = bus /\ serverIds' = serverIds /\ subscribedAt' = subscribedAt
              /\ position'[socket'[d].gateway] = n
          BY <2>2, <1>1 DEF Bridge, At
        <5>2. \A i \in 1..(Len(frames[d]) + 1) :
                 /\ frames'[d][i] \in (subscribedAt[d] + 1)..n
                 /\ bus[frames'[d][i]].server \in serverIds[d]
                 /\ bus[frames'[d][i]].channel = NoChannel
          BY <4>1, <4>2, <3>1, <3>2, <3>6, <1>1 DEF IInv, HeardOK
        <5>3. \A i, j \in 1..(Len(frames[d]) + 1) : i < j => frames'[d][i] < frames'[d][j]
          <6>1. \A i, j \in 1..Len(frames[d]) : i < j => frames'[d][i] < frames'[d][j]
            BY <4>1 DEF IInv, HeardOK
          <6>2. \A i \in 1..Len(frames[d]) : frames'[d][i] < n
            BY <4>1, <4>2, <3>1, <1>1
          <6> QED BY <6>1, <6>2, <4>1
        <5> QED BY <5>1, <5>2, <5>3, <4>1 DEF HeardOK, At
      <4>4. DueOK(d)'
        <5>1. ASSUME IsReady(d)',
                     NEW i \in (subscribedAt[d] + 1)..n,
                     bus[i].server \in serverIds[d], bus[i].channel = NoChannel
              PROVE  i \in skipped'[d] \/ \E k \in 1..(Len(frames[d]) + 1) : frames'[d][k] = i
          <6>1. CASE i = n
            BY <6>1, <4>1
          <6>2. CASE i # n
            <7>1. i \in (subscribedAt[d] + 1)..position[g] /\ IsReady(d)
              BY <6>2, <3>1, <1>1, <5>1 DEF IsReady, Open, Bridge
            <7>2. i \in skipped[d] \/ \E k \in DOMAIN frames[d] : frames[d][k] = i
              BY <7>1, <5>1, <2>2 DEF IInv, DueOK
            <7> QED BY <7>2, <4>1, <1>2
          <6> QED BY <6>1, <6>2
        <5> QED BY <5>1, <2>2, <1>1, <4>1 DEF DueOK, At, Bridge
      <4> QED BY <3>4, <3>5, <4>3, <4>4
    <3>7. CASE ~hears(d)
      <4>1. frames'[d] = frames[d] /\ position'[At(d)] = n /\ position[At(d)] = position[g]
        BY <3>7, <2>2, <1>1, <1>2
      <4>2. HeardOK(d)'
        <5>1. \A i \in DOMAIN frames[d] : frames[d][i] \in (subscribedAt[d] + 1)..position[g]
          BY <4>1 DEF IInv, HeardOK
        <5>2. \A i \in DOMAIN frames[d] : frames[d][i] \in (subscribedAt[d] + 1)..n
          BY <5>1, <3>1, <1>1
        <5>3. position'[socket'[d].gateway] = n
          BY <4>1 DEF At, Bridge
        <5> QED BY <5>2, <5>3, <4>1 DEF IInv, HeardOK, At, Bridge
      <4>3. DueOK(d)'
        <5>1. ASSUME IsReady(d)',
                     NEW i \in (subscribedAt[d] + 1)..n,
                     bus[i].server \in serverIds[d], bus[i].channel = NoChannel
              PROVE  i \in skipped'[d] \/ \E k \in DOMAIN frames[d] : frames[d][k] = i
          <6>1. IsReady(d)
            BY <5>1 DEF IsReady, Open, Bridge
          <6>2. CASE i = n
            <7>1. due(d)
              BY <3>3, <5>1, <6>1, <6>2 DEF IsReady
            <7> QED BY <7>1, <3>7, <6>2, <1>2
          <6>3. CASE i # n
            <7>1. i \in (subscribedAt[d] + 1)..position[g]
              BY <6>3, <3>1, <1>1
            <7>2. i \in skipped[d] \/ \E k \in DOMAIN frames[d] : frames[d][k] = i
              BY <7>1, <5>1, <6>1, <2>2 DEF IInv, DueOK
            <7> QED BY <7>2, <1>2
          <6> QED BY <6>2, <6>3
        <5> QED BY <5>1, <4>1, <1>1 DEF DueOK, At, Bridge
      <4> QED BY <3>4, <3>5, <4>2, <4>3
    <3> QED BY <3>6, <3>7
  <2> QED BY <2>1, <2>2
<1> QED BY <1>3, <1>4, <1>5 DEF IInv

-----------------------------------------------------------------------------
LEMMA NextInv ==
  ASSUME IInv, [Next]_vars
  PROVE  IInv'
<1>1. CASE Next
  BY <1>1, JoinInv, LeaveInv, PublishEventInv, PublishPresenceInv, PublishTypingInv, UpgradeInv,
     RejectedInv, AcceptInv, ListByUserIdInv, FetchFailsInv, ReadyInv, CloseInv, TypingInv,
     BridgeInv, ReconnectInv, RestartInv, SlowInv DEF Next
<1>2. CASE UNCHANGED vars
  <2>1. TypeOK' /\ BusOK'
    BY <1>2 DEF IInv, TypeOK, BusOK, vars, rows, nats, connection
  <2>2. ASSUME NEW d \in Connections
        PROVE  (ConnectionOK(d) /\ KnownOK(d) /\ HeardOK(d) /\ DueOK(d))'
    BY <1>2, Others DEF vars, rows, nats, connection
  <2> QED BY <2>1, <2>2 DEF IInv
<1> QED BY <1>1, <1>2

\* The invariant is inductive.
THEOREM Invariance == Spec => []IInv
  BY InitInv, NextInv, PTL DEF Spec

\* Type correctness of Gateway's state.
THEOREM TypeCorrect == Spec => []TypeOK
<1>1. IInv => TypeOK
  BY DEF IInv
<1> QED BY <1>1, Invariance, PTL

\* A client hears only of servers its user has been a member of since it
\* connected: the topics of nats.ts and server.ts leak nothing else.
THEOREM MembersHear == Spec => []OnlyMembersHear
<1>1. IInv => OnlyMembersHear
  BY DEF IInv, KnownOK, HeardOK, OnlyMembersHear, Received
<1> QED BY <1>1, Invariance, PTL

\* After READY what is published about its servers, those the user never left among
\* them, reaches a client in order and once, and the only gaps are messages that
\* passed while its gateway was away from NATS or the client itself had more than
\* maxBackpressure buffered.
THEOREM EventsArrive == Spec => []ServerEventsArrive
<1>1. ASSUME IInv PROVE ServerEventsArrive
  <2> SUFFICES ASSUME NEW c \in Connections
               PROVE  /\ IsReady(c) => DueToServer(c, position[At(c)]) \ skipped[c] \subseteq Received(c)
                      /\ \A i, j \in DOMAIN frames[c] : i < j => frames[c][i] < frames[c][j]
                      /\ Received(c) \subseteq (subscribedAt[c] + 1)..Len(bus)
    BY DEF ServerEventsArrive
  <2>1. IsReady(c) => DueToServer(c, position[At(c)]) \ skipped[c] \subseteq Received(c)
    <3>1. IsReady(c) => serverIds[c] \cup steady[c] = serverIds[c]
      BY <1>1 DEF IInv, KnownOK, IsReady
    <3> QED BY <1>1, <3>1 DEF IInv, DueOK, DueToServer, Due, Received
  <2>2. \A i, j \in DOMAIN frames[c] : i < j => frames[c][i] < frames[c][j]
    BY <1>1 DEF IInv, HeardOK
  <2>3. Received(c) \subseteq (subscribedAt[c] + 1)..Len(bus)
    <3>1. CASE frames[c] = <<>>
      BY <3>1 DEF Received
    <3>2. CASE frames[c] # <<>>
      <4>1. Open(c)
        BY <1>1, <3>2 DEF IInv, ConnectionOK, NoFetch
      <4>2. position[At(c)] <= Len(bus) /\ position[At(c)] \in Nat /\ subscribedAt[c] \in Nat
            /\ Len(bus) \in Nat
        BY <1>1, <4>1 DEF IInv, ConnectionOK, BusOK, TypeOK, Open
      <4> QED BY <1>1, <4>2 DEF IInv, HeardOK, Received
    <3> QED BY <3>1, <3>2
  <2> QED BY <2>1, <2>2, <2>3
<1> QED BY <1>1, Invariance, PTL

\* The topics a client subscribes to end in ".chan.*", which uWS takes literally:
\* nothing that is about a channel, message or typing, ever reaches a client.
\* What ChannelEventsArrive refutes on one instance is so in every state.
THEOREM NoChannelIsHeard ==
  Spec => [](\A c \in Connections : \A i \in Received(c) : bus[i].channel = NoChannel)
<1>1. IInv => \A c \in Connections : \A i \in Received(c) : bus[i].channel = NoChannel
  BY DEF IInv, HeardOK, Received
<1> QED BY <1>1, Invariance, PTL
=============================================================================
