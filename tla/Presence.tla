------------------------------ MODULE Presence ------------------------------
(***************************************************************************)
(* The presence of one user: the sockets the user has open at the gateway  *)
(* processes, the Redis key presence:<userId> they share, and the presence *)
(* updates other members receive.  Users do not share keys, so one is      *)
(* enough.                                                                 *)
(*                                                                         *)
(* A handler only queues its first command on the gateway's Redis          *)
(* connection, which Redis executes in order, and goes on when the answer  *)
(* comes, in order too.  setStatus reads the key and, when it has the       *)
(* answer, writes: in between, commands of other handlers and gateways are *)
(* executed.  (It reads the TTL, too, which adds no step that matters.)    *)
(***************************************************************************)
EXTENDS Naturals, Sequences

CONSTANTS
    Sessions,       \* sockets the user will ever open
    Gateways,       \* gateway processes
    Chosen,         \* statuses a client sets, of "online", "idle", "dnd"
    MaxPending,     \* bound: commands and answers underway on a connection
    MaxFaults,      \* bound: failed commands and lost gateways
    NoGateway

ASSUME ConstantsAssumption ==
    /\ NoGateway \notin Gateways
    /\ Chosen \subseteq {"online", "idle", "dnd"}
    /\ MaxPending \in Nat \ {0} /\ MaxFaults \in Nat

VARIABLES
    \* Of each session: its socket, its gateway, and the query for the user's
    \* servers, whose result says where its updates are published.
    socket, gateway, fetch,
    \* Of each gateway: commands Redis has yet to execute, and answers the
    \* gateway has yet to handle.
    pipe, answers,
    key,            \* status in Redis, "none" without a key
    seen,           \* status in the last update the members received
    faults,
    raced           \* history: a key was deleted within a setStatus

sessions == <<socket, gateway, fetch>>
vars == <<sessions, pipe, answers, key, seen, faults, raced>>

Command == [do : {"online", "renew", "get", "write", "del"},
            by : Sessions, status : {"online", "idle", "dnd", "offline"}]

\* An answer repeats its command; "missing" is the answer to a get without key.
Answer == [do : {"online", "get", "missing", "write", "del"},
           by : Sessions, status : {"online", "idle", "dnd", "offline"}]

TypeOK ==
    /\ socket \in [Sessions -> {"none", "open", "closed"}]
    /\ gateway \in [Sessions -> Gateways \cup {NoGateway}]
    /\ fetch \in [Sessions -> {"none", "pending", "done", "failed"}]
    /\ pipe \in [Gateways -> Seq(Command)]
    /\ answers \in [Gateways -> Seq(Answer)]
    /\ key \in {"none", "online", "idle", "dnd"}
    /\ seen \in {"online", "idle", "dnd", "offline"}
    /\ faults \in 0..MaxFaults
    /\ raced \in BOOLEAN

Init ==
    /\ socket = [s \in Sessions |-> "none"]
    /\ gateway = [s \in Sessions |-> NoGateway]
    /\ fetch = [s \in Sessions |-> "none"]
    /\ pipe = [g \in Gateways |-> <<>>]
    /\ answers = [g \in Gateways |-> <<>>]
    /\ key = "none"
    /\ seen = "offline"
    /\ faults = 0
    /\ raced = FALSE

Fault == faults < MaxFaults /\ faults' = faults + 1

Queue(g, do, s, status) ==
    pipe' = [pipe EXCEPT ![g] = Append(@, [do |-> do, by |-> s, status |-> status])]

\* A handler of session s sends its first command.
Send(s, do, status) ==
    /\ Len(pipe[gateway[s]]) + Len(answers[gateway[s]]) < MaxPending
    /\ Queue(gateway[s], do, s, status)

-----------------------------------------------------------------------------
\* Handlers of the socket.

\* The token was verified, the socket upgraded; open() asks for the servers.
Open(s, g) ==
    /\ socket[s] = "none"
    /\ socket' = [socket EXCEPT ![s] = "open"]
    /\ gateway' = [gateway EXCEPT ![s] = g]
    /\ fetch' = [fetch EXCEPT ![s] = "pending"]
    /\ UNCHANGED <<pipe, answers, key, seen, faults, raced>>

\* The servers are there: topics, READY and setOnline.
Ready(s) ==
    /\ socket[s] = "open"
    /\ fetch[s] = "pending"
    /\ fetch' = [fetch EXCEPT ![s] = "done"]
    /\ Send(s, "online", "online")
    /\ UNCHANGED <<socket, gateway, answers, key, seen, faults, raced>>

\* Mutant: nothing throws on a closed socket.
ReadyLateUnnoticed(s) ==
    /\ socket[s] = "closed"
    /\ fetch[s] = "pending"
    /\ fetch' = [fetch EXCEPT ![s] = "done"]
    /\ Send(s, "online", "online")
    /\ UNCHANGED <<socket, gateway, answers, key, seen, faults, raced>>

\* The socket has closed in the meantime: serverIds is set, then subscribe
\* throws, and the rest of the handler is skipped.
ReadyLate(s) ==
    /\ socket[s] = "closed"
    /\ fetch[s] = "pending"
    /\ fetch' = [fetch EXCEPT ![s] = "done"]
    /\ UNCHANGED <<socket, gateway, pipe, answers, key, seen, faults, raced>>

\* The query fails: the socket stays open, without READY and topics.
FetchFails(s) ==
    /\ fetch[s] = "pending"
    /\ Fault
    /\ fetch' = [fetch EXCEPT ![s] = "failed"]
    /\ UNCHANGED <<socket, gateway, pipe, answers, key, seen, raced>>

\* Mutant: a heartbeat is only acknowledged.
HeartbeatAck(s) ==
    /\ socket[s] = "open"
    /\ UNCHANGED vars

\* A heartbeat calls setOnline and publishes nothing.
Heartbeat(s) ==
    /\ socket[s] = "open"
    /\ Send(s, "renew", "online")
    /\ UNCHANGED <<sessions, answers, key, seen, faults, raced>>

\* PRESENCE_STATUS_CHANGE: setStatus sends its GET.
ChangeStatus(s, status) ==
    /\ socket[s] = "open"
    /\ Send(s, "get", status)
    /\ UNCHANGED <<sessions, answers, key, seen, faults, raced>>

\* The socket closes, by the client, the idle timeout or the rate limit.
Close(s) ==
    /\ socket[s] = "open"
    /\ socket' = [socket EXCEPT ![s] = "closed"]
    /\ Send(s, "del", "offline")
    /\ UNCHANGED <<gateway, fetch, answers, key, seen, faults, raced>>

-----------------------------------------------------------------------------
\* Redis.

Commands(g) == {pipe[g][i] : i \in DOMAIN pipe[g]}
Answers(g) == {answers[g][i] : i \in DOMAIN answers[g]}

\* Some setStatus has found the key and not written it yet.
ChangingStatus ==
    \E g \in Gateways : \/ \E c \in Commands(g) : c.do = "write"
                        \/ \E a \in Answers(g) : a.do = "get"

\* What setex, get and del do to the key.
Effect(c) ==
    key' = CASE c.do \in {"online", "renew"} -> "online"
             [] c.do = "write" -> c.status
             [] c.do = "del" -> "none"
             [] OTHER -> key

\* What the handler that waits for the answer is told.
Reply(g, c) ==
    answers' = CASE c.do = "renew" -> answers      \* only its errors are handled
                 [] c.do = "get" /\ key = "none" ->
                        [answers EXCEPT ![g] = Append(@, [c EXCEPT !.do = "missing"])]
                 [] OTHER -> [answers EXCEPT ![g] = Append(@, c)]

\* Redis executes the next command of a connection.
Execute(g) ==
    /\ pipe[g] # <<>>
    /\ Effect(Head(pipe[g]))
    /\ Reply(g, Head(pipe[g]))
    /\ pipe' = [pipe EXCEPT ![g] = Tail(@)]
    /\ raced' = (raced \/ (Head(pipe[g]).do = "del" /\ ChangingStatus))
    /\ UNCHANGED <<sessions, seen, faults>>

\* A command fails; its handler swallows the error.
CommandFails(g) ==
    /\ pipe[g] # <<>>
    /\ Fault
    /\ pipe' = [pipe EXCEPT ![g] = Tail(@)]
    /\ UNCHANGED <<sessions, answers, key, seen, raced>>

\* Mutant: setStatus writes the key without a TTL.
ExpireOnline ==
    /\ key = "online"
    /\ key' = "none"
    /\ UNCHANGED <<sessions, pipe, answers, seen, faults, raced>>

\* The TTL runs out.  Time is abstracted: a heartbeat may always be late.
Expire ==
    /\ key # "none"
    /\ key' = "none"
    /\ UNCHANGED <<sessions, pipe, answers, seen, faults, raced>>

-----------------------------------------------------------------------------
\* publishPresence, to the servers the session knows of.
Publish(s, status) == seen' = IF fetch[s] = "done" THEN status ELSE seen

\* The gateway handles the next answer.
Handle(g) ==
    LET a == Head(answers[g])
    IN  /\ answers[g] # <<>>
        /\ IF a.do = "get" THEN Queue(g, "write", a.by, a.status) /\ UNCHANGED seen
                           ELSE Publish(a.by, a.status) /\ UNCHANGED pipe
        /\ answers' = [answers EXCEPT ![g] = Tail(@)]
        /\ UNCHANGED <<sessions, key, faults, raced>>

\* A gateway process dies or is shut down: no close handler runs.
Lost(g) ==
    /\ \E s \in Sessions : gateway[s] = g /\ socket[s] = "open"
    /\ Fault
    /\ socket' = [s \in Sessions |-> IF gateway[s] = g THEN "closed" ELSE socket[s]]
    /\ fetch' = [s \in Sessions |-> IF gateway[s] = g /\ fetch[s] = "pending" THEN "failed"
                                                                              ELSE fetch[s]]
    /\ pipe' = [pipe EXCEPT ![g] = <<>>]
    /\ answers' = [answers EXCEPT ![g] = <<>>]
    /\ UNCHANGED <<gateway, key, seen, raced>>

-----------------------------------------------------------------------------
Next ==
    \/ \E s \in Sessions, g \in Gateways : Open(s, g)
    \/ \E s \in Sessions : \/ Ready(s) \/ ReadyLate(s) \/ FetchFails(s)
                           \/ Heartbeat(s) \/ Close(s)
    \/ \E s \in Sessions, status \in Chosen : ChangeStatus(s, status)
    \/ \E g \in Gateways : Execute(g) \/ CommandFails(g) \/ Handle(g) \/ Lost(g)
    \/ Expire

Spec == Init /\ [][Next]_vars

(***************************************************************************)
(* Redis executes commands and the event loop handles answers.  A client   *)
(* that stays sends its heartbeats, as HELLO tells it to; the bound on a   *)
(* connection's commands may stop it for a while, so this is strong.       *)
(***************************************************************************)
Fairness ==
    /\ \A s \in Sessions : SF_vars(Heartbeat(s))
    /\ \A g \in Gateways : WF_vars(Execute(g)) /\ WF_vars(Handle(g))
    /\ WF_vars(Expire)

FairSpec == Spec /\ Fairness

-----------------------------------------------------------------------------
AllClosed == \A s \in Sessions : socket[s] # "open"
Quiet == \A g \in Gateways : pipe[g] = <<>> /\ answers[g] = <<>>

\* When the last socket of the user has closed and all is done, the user is
\* offline, for Redis and for the members, however the sockets' handlers at
\* several gateways interleaved: unless a command or gateway failed, or a key
\* was deleted within a setStatus, which then writes it again.
GoneIsOffline ==
    AllClosed /\ Quiet /\ faults = 0 /\ ~raced => key = "none" /\ seen = "offline"

\* A user one of whose sockets stays open is never offline for good, though
\* closing another socket deletes the key they share.
ConnectedIsPresent ==
    \A s \in Sessions : <>[](socket[s] = "open") => []<>(key # "none")

\* A user without a socket ends up offline, whatever failed or raced: every
\* key has a TTL.
GoneExpires == <>[]AllClosed => <>[](key = "none")

=============================================================================
