------------------------------- MODULE Gateway -------------------------------
(***************************************************************************)
(* How events reach clients: the subjects they are published under, NATS,  *)
(* the bridge of each gateway process, and WebSocket connections with the  *)
(* topics they subscribe to when they open.                                *)
(*                                                                         *)
(* NATS hands every message under srv.> to each gateway that is connected, *)
(* in one order: bus is that order, position[g] how far gateway g has come *)
(* in it.  What is published while a gateway is away is not kept for it,   *)
(* nor is what reaches a gateway while a client is slow for that client.   *)
(*                                                                         *)
(* Presence has the Redis side of the handlers, and when they publish; any *)
(* presence update may come here.                                          *)
(***************************************************************************)
EXTENDS Naturals, Sequences, FiniteSets

CONSTANTS
    Connections,    \* clients, each of a user of its own
    Gateways, Servers,
    Channels,       \* each server has these
    Wildcard,       \* "*" in a topic
    MaxPerSecond,   \* RATE_LIMIT_PER_SECOND
    MaxBus,         \* bound: messages published
    MaxTyping,      \* bound: setTyping commands of a gateway underway
    MaxFaults,      \* bound: failed queries and commands, lost connections, restarts
    NoServer, NoChannel, NoGateway

ASSUME ConstantsAssumption ==
    /\ NoServer \notin Servers /\ NoGateway \notin Gateways
    /\ NoChannel \notin Channels /\ Wildcard \notin Channels /\ Wildcard # NoChannel
    /\ MaxPerSecond \in Nat /\ MaxBus \in Nat /\ MaxTyping \in Nat /\ MaxFaults \in Nat

VARIABLES
    member,         \* rows of server_members: the servers of each client's user
    bus, position,
    \* Of each connection: its socket, the answer to fetchUserServers, and its
    \* ConnectionState.
    socket, fetch, serverIds, messageCount,
    topics,         \* what its socket is subscribed to in uWS
    frames,         \* the messages of the bus it has received, by number
    slow,           \* connections with more than maxBackpressure buffered
    typing,         \* of each gateway: setTyping commands Redis has yet to answer
    faults,
    \* History: where in the bus each connection was when it subscribed; the
    \* messages that have since passed while it was slow or its gateway away; the
    \* servers each user was in since it connected, and in all the time.
    subscribedAt, skipped, known, steady

rows == <<member, known, steady>>
nats == <<bus, position>>
connection == <<socket, fetch, serverIds, messageCount, topics, frames, slow, subscribedAt, skipped>>
vars == <<rows, nats, connection, typing, faults>>

-----------------------------------------------------------------------------
\* NatsSubjects.
Subject == [kind : {"events", "presence", "typing"}, server : Servers \cup {NoServer},
            channel : Channels \cup {Wildcard, NoChannel}]

ServerEvents(s) == [kind |-> "events", server |-> s, channel |-> NoChannel]
ChannelEvents(s, c) == [kind |-> "events", server |-> s, channel |-> c]
ServerPresence(s) == [kind |-> "presence", server |-> s, channel |-> NoChannel]
ChannelTyping(s, c) == [kind |-> "typing", server |-> s, channel |-> c]
UserEvents == [kind |-> "events", server |-> NoServer, channel |-> NoChannel]

\* Outbox events: those whose payload names a server, or a channel of it as well,
\* and those about users.  What matters of the type is whether it is in
\* CHANNEL_SCOPED_EVENTS; ATTACHMENT_UPLOADED names a channel and is not.
OutboxEvent ==
    [aggregate : {"server"}, scoped : {FALSE}, server : Servers, channel : Channels \cup {NoChannel}]
    \cup [aggregate : {"server"}, scoped : {TRUE}, server : Servers, channel : Channels]
    \cup [aggregate : {"user"}, scoped : {FALSE}, server : {NoServer}, channel : {NoChannel}]

ResolveOutboxSubject(e) ==
    CASE e.scoped -> ChannelEvents(e.server, e.channel)
      [] ~e.scoped /\ e.aggregate = "server" -> ServerEvents(e.server)
      [] e.aggregate = "user" -> UserEvents

\* srv.>
Bridged(subject) == subject.server # NoServer

\* Mutant: presence is left out.
TopicsWithoutPresence(s) ==
    {ServerEvents(s), ChannelEvents(s, Wildcard), ChannelTyping(s, Wildcard)}

\* subscribeToServerTopics.
ServerTopics(s) ==
    {ServerEvents(s), ChannelEvents(s, Wildcard), ServerPresence(s), ChannelTyping(s, Wildcard)}

-----------------------------------------------------------------------------
Socket == [state : {"none", "verifying", "open"}, gateway : Gateways \cup {NoGateway}]
NoSocket == [state |-> "none", gateway |-> NoGateway]

\* The answer to fetchUserServers, when it is "here", is a list of servers.
Fetch == [state : {"none", "sent", "here", "done", "failed"}, servers : SUBSET Servers]
NoFetch == [state |-> "none", servers |-> {}]

TypeOK ==
    /\ member \in [Connections -> SUBSET Servers]
    /\ bus \in Seq(Subject)
    /\ position \in [Gateways -> 0..MaxBus]
    /\ socket \in [Connections -> Socket]
    /\ fetch \in [Connections -> Fetch]
    /\ serverIds \in [Connections -> SUBSET Servers]
    /\ messageCount \in [Connections -> 0..MaxPerSecond]
    /\ topics \in [Connections -> SUBSET Subject]
    /\ frames \in [Connections -> Seq(1..MaxBus)]
    /\ slow \subseteq Connections
    /\ typing \in [Gateways -> Seq(Subject)]
    /\ faults \in 0..MaxFaults
    /\ subscribedAt \in [Connections -> 0..MaxBus]
    /\ skipped \in [Connections -> SUBSET (1..MaxBus)]
    /\ known \in [Connections -> SUBSET Servers]
    /\ steady \in [Connections -> SUBSET Servers]

Init ==
    /\ member \in [Connections -> SUBSET Servers]
    /\ bus = <<>>
    /\ position = [g \in Gateways |-> 0]
    /\ socket = [c \in Connections |-> NoSocket]
    /\ fetch = [c \in Connections |-> NoFetch]
    /\ serverIds = [c \in Connections |-> {}]
    /\ messageCount = [c \in Connections |-> 0]
    /\ topics = [c \in Connections |-> {}]
    /\ frames = [c \in Connections |-> <<>>]
    /\ slow = {}
    /\ typing = [g \in Gateways |-> <<>>]
    /\ faults = 0
    /\ subscribedAt = [c \in Connections |-> 0]
    /\ skipped = [c \in Connections |-> {}]
    /\ known = member
    /\ steady = [c \in Connections |-> {}]

Fault == faults < MaxFaults /\ faults' = faults + 1
Open(c) == socket[c].state = "open"
At(c) == socket[c].gateway

-----------------------------------------------------------------------------
\* Members come and go, as Communities has it.
Join(c, s) ==
    /\ s \notin member[c]
    /\ member' = [member EXCEPT ![c] = @ \cup {s}]
    /\ known' = [known EXCEPT ![c] = @ \cup {s}]
    /\ UNCHANGED <<steady, nats, connection, typing, faults>>

Leave(c, s) ==
    /\ s \in member[c]
    /\ member' = [member EXCEPT ![c] = @ \ {s}]
    /\ steady' = [steady EXCEPT ![c] = @ \ {s}]
    /\ UNCHANGED <<known, nats, connection, typing, faults>>

-----------------------------------------------------------------------------
\* Publishing.
Put(subject) ==
    /\ Len(bus) < MaxBus
    /\ bus' = Append(bus, subject)
    /\ UNCHANGED position

\* The worker publishes an event of the outbox.
PublishEvent(e) ==
    /\ Put(ResolveOutboxSubject(e))
    /\ UNCHANGED <<rows, connection, typing, faults>>

\* publishPresence of some gateway.
PublishPresence(s) ==
    /\ Put(ServerPresence(s))
    /\ UNCHANGED <<rows, connection, typing, faults>>

\* Redis has answered the oldest setTyping of a gateway, which publishes, or
\* the command has failed.
PublishTyping(g) ==
    /\ typing[g] # <<>>
    /\ typing' = [typing EXCEPT ![g] = Tail(@)]
    /\ \/ Put(Head(typing[g])) /\ UNCHANGED faults
       \/ Fault /\ UNCHANGED nats
    /\ UNCHANGED <<rows, connection>>

-----------------------------------------------------------------------------
\* The life of a connection.

\* upgrade: the token is verified asynchronously.
Upgrade(c, g) ==
    /\ socket[c].state = "none"
    /\ socket' = [socket EXCEPT ![c] = [state |-> "verifying", gateway |-> g]]
    /\ known' = [known EXCEPT ![c] = member[c]]
    /\ steady' = [steady EXCEPT ![c] = member[c]]
    /\ UNCHANGED <<member, nats, fetch, serverIds, messageCount, topics, frames, slow,
                   subscribedAt, skipped, typing, faults>>

\* The client has gone (aborted), or the token is not valid: no socket.
Rejected(c) ==
    /\ socket[c].state = "verifying"
    /\ socket' = [socket EXCEPT ![c] = NoSocket]
    /\ UNCHANGED <<rows, nats, fetch, serverIds, messageCount, topics, frames, slow,
                   subscribedAt, skipped, typing, faults>>

\* The token is valid: a new ConnectionState, and open asks for the servers.
Accept(c) ==
    /\ socket[c].state = "verifying"
    /\ socket' = [socket EXCEPT ![c].state = "open"]
    /\ fetch' = [fetch EXCEPT ![c] = [state |-> "sent", servers |-> {}]]
    /\ UNCHANGED <<rows, nats, serverIds, messageCount, topics, frames, slow, subscribedAt, skipped,
                   typing, faults>>

\* Mutant: the join is not restricted to the rows of this user.
ListEveryServer(c) ==
    /\ fetch[c].state = "sent"
    /\ fetch' = [fetch EXCEPT ![c] = [state |-> "here", servers |-> Servers]]
    /\ UNCHANGED <<rows, nats, socket, serverIds, messageCount, topics, frames, slow,
                   subscribedAt, skipped, typing, faults>>

\* PostgreSQL answers with what is committed.
ListByUserId(c) ==
    /\ fetch[c].state = "sent"
    /\ fetch' = [fetch EXCEPT ![c] = [state |-> "here", servers |-> member[c]]]
    /\ UNCHANGED <<rows, nats, socket, serverIds, messageCount, topics, frames, slow,
                   subscribedAt, skipped, typing, faults>>

\* The query fails: the socket stays open, without topics and READY.
FetchFails(c) ==
    /\ fetch[c].state = "sent"
    /\ Fault
    /\ fetch' = [fetch EXCEPT ![c].state = "failed"]
    /\ UNCHANGED <<rows, nats, socket, serverIds, messageCount, topics, frames, slow,
                   subscribedAt, skipped, typing>>

\* The answer is handled: topics, then READY.
Ready(c) ==
    /\ fetch[c].state = "here"
    /\ fetch' = [fetch EXCEPT ![c].state = "done"]
    /\ serverIds' = [serverIds EXCEPT ![c] = fetch[c].servers]
    /\ topics' = [topics EXCEPT ![c] = UNION {ServerTopics(s) : s \in fetch[c].servers}]
    /\ subscribedAt' = [subscribedAt EXCEPT ![c] = position[At(c)]]
    /\ skipped' = [skipped EXCEPT ![c] = {}]
    /\ UNCHANGED <<rows, nats, socket, messageCount, frames, slow, typing, faults>>

\* What is left of connections that have closed; an answer that comes later
\* finds a closed socket and throws.
Dropped(C) ==
    /\ socket' = [c \in Connections |-> IF c \in C THEN NoSocket ELSE socket[c]]
    /\ fetch' = [c \in Connections |-> IF c \in C THEN NoFetch ELSE fetch[c]]
    /\ serverIds' = [c \in Connections |-> IF c \in C THEN {} ELSE serverIds[c]]
    /\ messageCount' = [c \in Connections |-> IF c \in C THEN 0 ELSE messageCount[c]]
    /\ topics' = [c \in Connections |-> IF c \in C THEN {} ELSE topics[c]]
    /\ frames' = [c \in Connections |-> IF c \in C THEN <<>> ELSE frames[c]]
    /\ subscribedAt' = [c \in Connections |-> IF c \in C THEN 0 ELSE subscribedAt[c]]
    /\ skipped' = [c \in Connections |-> IF c \in C THEN {} ELSE skipped[c]]
    /\ slow' = slow \ C

\* The socket closes, by the client or the idle timeout.
Close(c) ==
    /\ Open(c)
    /\ Dropped({c})
    /\ UNCHANGED <<rows, nats, typing, faults>>

-----------------------------------------------------------------------------
\* Messages of clients.  A second may have passed since the window began.
Count(c, passed) == IF passed THEN 1 ELSE messageCount[c] + 1
Counted(c, passed) == messageCount' = [messageCount EXCEPT ![c] = Count(c, passed)]

\* The limiter closes the connection.
RateLimited(c, passed) ==
    /\ Open(c)
    /\ Count(c, passed) > MaxPerSecond
    /\ Dropped({c})
    /\ UNCHANGED <<rows, nats, typing, faults>>

\* TYPING_START, of no effect outside the connection's servers.  What heartbeats
\* and status changes do beyond counting is in Presence.
Typing(c, passed, s, ch) ==
    /\ Open(c)
    /\ Count(c, passed) <= MaxPerSecond
    /\ Counted(c, passed)
    /\ typing' = [typing EXCEPT ![At(c)] =
          IF s \in serverIds[c] THEN Append(@, ChannelTyping(s, ch)) ELSE @]
    /\ Len(typing'[At(c)]) <= MaxTyping /\ Len(bus) + Len(typing'[At(c)]) <= MaxBus
    /\ UNCHANGED <<rows, nats, socket, fetch, serverIds, topics, frames, slow, subscribedAt, skipped,
                   faults>>

-----------------------------------------------------------------------------
\* A client reads more slowly than it is sent to, until more than maxBackpressure
\* is buffered for it.  (Before READY that is far off.)
FallsBehind(c) ==
    /\ fetch[c].state = "done" /\ c \notin slow
    /\ slow' = slow \cup {c}
    /\ UNCHANGED <<rows, nats, socket, fetch, serverIds, messageCount, topics, frames, subscribedAt,
                   skipped, typing, faults>>

\* drain: it has caught up.  The handler sends nothing.
Drain(c) ==
    /\ c \in slow
    /\ slow' = slow \ {c}
    /\ UNCHANGED <<rows, nats, socket, fetch, serverIds, messageCount, topics, frames, subscribedAt,
                   skipped, typing, faults>>

\* app.publish: uWS sends to who has subscribed to that very topic, and passes
\* over those of them that are slow without closing them.
Hearers(g, subject) == {c \in Connections : Open(c) /\ At(c) = g /\ subject \in topics[c]}

Publish(n, hearers) ==
    /\ frames' = [c \in Connections |-> IF c \in hearers \ slow THEN Append(frames[c], n) ELSE frames[c]]
    /\ skipped' = [c \in Connections |->
          IF c \in hearers \cap slow THEN skipped[c] \cup {n} ELSE skipped[c]]

\* Mutant: the loop ends at a message that is not under srv.>.
BridgeEnds(g) ==
    LET n == position[g] + 1
    IN  /\ position[g] < Len(bus)
        /\ Bridged(bus[n])
        /\ position' = [position EXCEPT ![g] = n]
        /\ Publish(n, Hearers(g, bus[n]))
        /\ UNCHANGED <<rows, bus, socket, fetch, serverIds, messageCount, topics, slow, subscribedAt,
                       typing, faults>>

\* The loop of bridgeNatsToWs, which has subscribed to srv.> alone.
Bridge(g) ==
    LET n == position[g] + 1
    IN  /\ position[g] < Len(bus)
        /\ position' = [position EXCEPT ![g] = n]
        /\ Publish(n, IF Bridged(bus[n]) THEN Hearers(g, bus[n]) ELSE {})
        /\ UNCHANGED <<rows, bus, socket, fetch, serverIds, messageCount, topics, slow, subscribedAt,
                       typing, faults>>

\* The gateway loses NATS and comes back to it; what was published between is
\* gone, and its connections do not know.
Reconnect(g) ==
    /\ position[g] < Len(bus)
    /\ Fault
    /\ position' = [position EXCEPT ![g] = Len(bus)]
    /\ skipped' = [c \in Connections |->
          IF At(c) = g THEN skipped[c] \cup ((position[g] + 1)..Len(bus)) ELSE skipped[c]]
    /\ UNCHANGED <<rows, bus, socket, fetch, serverIds, messageCount, topics, frames, slow,
                   subscribedAt, typing>>

\* The process dies or is shut down, and starts again.
Restart(g) ==
    /\ Fault
    /\ Dropped({c \in Connections : At(c) = g})
    /\ typing' = [typing EXCEPT ![g] = <<>>]
    /\ position' = [position EXCEPT ![g] = Len(bus)]
    /\ UNCHANGED <<rows, bus>>

-----------------------------------------------------------------------------
Next ==
    \/ \E c \in Connections, s \in Servers : Join(c, s) \/ Leave(c, s)
    \/ \E e \in OutboxEvent : PublishEvent(e)
    \/ \E s \in Servers : PublishPresence(s)
    \/ \E c \in Connections, g \in Gateways : Upgrade(c, g)
    \/ \E c \in Connections :
          \/ Rejected(c) \/ Accept(c) \/ ListByUserId(c) \/ FetchFails(c) \/ Ready(c) \/ Close(c)
          \/ FallsBehind(c) \/ Drain(c)
    \/ \E c \in Connections, passed \in BOOLEAN :
          \/ RateLimited(c, passed)
          \/ \E s \in Servers, ch \in Channels : Typing(c, passed, s, ch)
    \/ \E g \in Gateways : PublishTyping(g) \/ Bridge(g) \/ Reconnect(g) \/ Restart(g)

Spec == Init /\ [][Next]_vars

(***************************************************************************)
(* The event loop goes on with what NATS delivers and with the answers of  *)
(* PostgreSQL and Redis.  Clients and publishers owe nothing: a client may *)
(* stay slow for ever.                                                     *)
(***************************************************************************)
Fairness ==
    /\ \A g \in Gateways : WF_vars(Bridge(g)) /\ WF_vars(PublishTyping(g))
    /\ \A c \in Connections :
          WF_vars(ListByUserId(c) \/ FetchFails(c)) /\ WF_vars(Ready(c))

FairSpec == Spec /\ Fairness

-----------------------------------------------------------------------------
IsReady(c) == Open(c) /\ fetch[c].state = "done"
Received(c) == {frames[c][i] : i \in DOMAIN frames[c]}

\* Messages of the bus, published since READY, about the servers it names and about
\* those the user has been in ever since it connected; those of them that are about
\* no channel.
Due(c, to) == {i \in (subscribedAt[c] + 1)..to : bus[i].server \in serverIds[c] \cup steady[c]}
DueToServer(c, to) == {i \in Due(c, to) : bus[i].channel = NoChannel}

\* After READY a client receives what is published about its servers in the order
\* of NATS, nothing twice, and all of it but the messages that passed while its
\* gateway was away from NATS or it was slow itself, wherever the query, the
\* client's own joining and the events fell.  (Its servers are those of READY, which
\* are no fewer than the user never left; one joined later is not among them until
\* the client connects again.)
ServerEventsArrive ==
    \A c \in Connections :
        /\ IsReady(c) => DueToServer(c, position[At(c)]) \ skipped[c] \subseteq Received(c)
        /\ \A i, j \in DOMAIN frames[c] : i < j => frames[c][i] < frames[c][j]
        /\ Received(c) \subseteq (subscribedAt[c] + 1)..Len(bus)

\* A client hears of a server only if its user has been a member since it
\* connected, whatever other connections it had before.  (It may no longer be: a
\* user who leaves hears on until the connection closes.)
OnlyMembersHear ==
    \A c \in Connections : \A i \in Received(c) : bus[i].server \in known[c]

\* What is published about a server while a client is ready does reach it, or the
\* client sees its connection close, or that message passed while its gateway was
\* away from NATS or it was slow itself.
PublishedIsReceived ==
    \A c \in Connections, i \in 1..MaxBus :
        (IsReady(c) /\ i \in DueToServer(c, Len(bus)))
            ~> (i \in Received(c) \/ ~IsReady(c) \/ i \in skipped[c])

-----------------------------------------------------------------------------
\* What the documentation promises and the code does not do.

\* "WebSocket subscribes to uWS topics per server: `srv.<id>.events` +
\* `srv.<id>.chan.*.events`" (docs/architecture.md:106), for messages to go
\* "Gateway (bridges NATS to uWS topic) -> WebSocket clients (subscribed to server
\* topics)" (docs/architecture.md:152): events of channels arrive as well.
ChannelEventsArrive ==
    \A c \in Connections :
        IsReady(c) => Due(c, position[At(c)]) \ skipped[c] \subseteq Received(c)
=============================================================================
