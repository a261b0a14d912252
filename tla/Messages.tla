------------------------------- MODULE Messages -------------------------------
(***************************************************************************)
(* The messages of one author in one channel: MessageService.sendMessage   *)
(* with the rate limiter of its process and the ids of SnowflakeIds,       *)
(* deleteMessage, and a client that pages back through the channel with    *)
(* GET /messages?before=<id>.                                              *)
(*                                                                         *)
(* Rate windows are kept per user and channel, so one of each is enough.   *)
(* A deletion may come from the author or a moderator, any number at once. *)
(* Attachments are in AttachmentPipeline, what becomes of members and      *)
(* channels in Communities.                                                *)
(***************************************************************************)
EXTENDS Integers, Sequences, FiniteSets

CONSTANTS
    Processes, NodeOf, Nodes, Sequence, MaxTime,     \* SnowflakeIds
    Requests,       \* calls with an open transaction
    MaxPerWindow, WindowMs,
    PageSize,       \* limit
    MaxIds,         \* bound: ids
    MaxFaults,      \* bound: failed statements, clocks set back and restarts
    NoId, NoProcess

VARIABLES
    clock, lastTimestamp, sequence, issued, forgot,  \* SnowflakeIds
    \* Of each process: the window of the rate limiter.
    window,
    \* Committed rows: of messages, those with deleted_at, and of the outbox.
    rows, deleted, events,
    txn,
    \* The client that pages: its cursor, and the pages it has received.
    walk,
    faults,
    \* History: the sends each process let through within the last WindowMs and
    \* since it started; and whose clock has been set back since it did.
    sent, setBack

Ids == INSTANCE SnowflakeIds

ASSUME ConstantsAssumption ==
    /\ MaxPerWindow \in Nat \ {0} /\ WindowMs \in Nat \ {0} /\ PageSize \in Nat \ {0}
    /\ MaxIds \in Nat /\ MaxFaults \in Nat
    /\ NoProcess \notin Processes /\ NoId \notin Nat
    /\ IsFiniteSet(Requests)
    /\ Ids!NodesAreDistinct

ids == <<clock, lastTimestamp, sequence, issued, forgot>>
limiter == <<window, sent, setBack>>
store == <<rows, deleted, events>>
vars == <<ids, limiter, store, txn, walk, faults>>

Event == [type : {"MESSAGE_CREATE", "MESSAGE_DELETE"}, message : Nat, id : Nat]

Txn == [op : {"none", "send", "delete"},
        step : {"idle", "newId", "update", "newEventId", "commit"},
        process : Processes \cup {NoProcess},
        message : Nat \cup {NoId},
        event : Nat \cup {NoId}]

Idle == [op |-> "none", step |-> "idle", process |-> NoProcess, message |-> NoId, event |-> NoId]

\* wanted is history: what was there when the walk began.
Walk == [state : {"none", "on", "done"}, before : Nat \cup {NoId},
         pages : Seq(SUBSET Nat), wanted : SUBSET Nat]

\* When a send was let through, and as which of its window.
Sent == [at : 0..MaxTime, nth : 1..MaxPerWindow]

TypeOK ==
    /\ Ids!TypeOK
    /\ window \in [Processes -> [count : 0..MaxPerWindow, resetAt : 0..(MaxTime + WindowMs)]]
    /\ rows \subseteq Nat /\ deleted \subseteq rows
    /\ events \subseteq Event
    /\ txn \in [Requests -> Txn]
    /\ walk \in Walk
    /\ faults \in 0..MaxFaults
    /\ sent \in [Processes -> SUBSET Sent]
    /\ setBack \subseteq Processes

\* A window that has ended stands for one that is not there.
Init ==
    /\ Ids!Init
    /\ window = [p \in Processes |-> [count |-> 0, resetAt |-> 0]]
    /\ rows = {} /\ deleted = {} /\ events = {}
    /\ txn = [r \in Requests |-> Idle]
    /\ walk = [state |-> "none", before |-> NoId, pages |-> <<>>, wanted |-> {}]
    /\ faults = 0
    /\ sent = [p \in Processes |-> {}]
    /\ setBack = {}

Fault == faults < MaxFaults /\ faults' = faults + 1

-----------------------------------------------------------------------------
\* InMemoryMessageRateLimiter.
WindowOver(p) == clock[p] >= window[p].resetAt

\* Mutant: one more.
AllowsOneMore(p) == WindowOver(p) \/ window[p].count <= MaxPerWindow

\* A send that is not allowed changes nothing.
Allows(p) == WindowOver(p) \/ window[p].count < MaxPerWindow

CheckSendRate(p) ==
    /\ Allows(p)
    /\ window' = [window EXCEPT ![p] =
          IF WindowOver(p) THEN [count |-> 1, resetAt |-> clock[p] + WindowMs]
                           ELSE [count |-> @.count + 1, resetAt |-> @.resetAt]]
    /\ sent' = [sent EXCEPT ![p] = IF p \in setBack THEN @
                                   ELSE @ \cup {[at |-> clock[p], nth |-> window'[p].count]}]
    /\ UNCHANGED setBack

-----------------------------------------------------------------------------
\* The VARCHAR ids as PostgreSQL compares them: digit by digit from the left.
TenTo[d \in Nat] == IF d = 0 THEN 1 ELSE 10 * TenTo[d - 1]

Digits(n) == CHOOSE d \in 1..(n + 1) : n < TenTo[d] /\ (d > 1 => n >= TenTo[d - 1])

TextLess(a, b) ==
    LET d == Digits(b) - Digits(a)
    IN  IF d > 0 THEN a * TenTo[d] <= b ELSE a < b * TenTo[-d]

\* Mutant: id <= $2.
OlderOrSame(before) == {m \in rows \ deleted : before # NoId => m = before \/ TextLess(m, before)}

\* WHERE deleted_at IS NULL AND id < $2
Older(before) == {m \in rows \ deleted : before # NoId => TextLess(m, before)}

\* ORDER BY id DESC LIMIT $3, in one statement.
ListByChannel(before) ==
    {m \in Older(before) :
        Cardinality({n \in Older(before) : TextLess(m, n)}) < PageSize}

Oldest(page) == CHOOSE m \in page : \A n \in page : n = m \/ TextLess(m, n)

-----------------------------------------------------------------------------
\* Calls.
Goto(r, step) == txn' = [txn EXCEPT ![r].step = step]
End(r) == txn' = [txn EXCEPT ![r] = Idle]

\* A transaction has inserted or updated the row and not committed.
HoldsMessage(r, m) == txn[r].step \in {"newEventId", "commit"} /\ txn[r].message = m

EventIds == {e.id : e \in events}

\* sendMessage: the limiter, then the transaction's reads: member and channel.
Send(r, p) ==
    /\ txn[r].step = "idle"
    /\ CheckSendRate(p)
    /\ txn' = [txn EXCEPT ![r] = [Idle EXCEPT !.op = "send", !.step = "newId", !.process = p]]
    /\ UNCHANGED <<ids, store, walk, faults>>

\* The author is no member, or the channel is gone; the limiter has counted it.
SendForbidden(p) ==
    /\ CheckSendRate(p)
    /\ UNCHANGED <<ids, store, txn, walk, faults>>

\* generateId and messageRepo.create.  An id that is taken is refused, and the
\* transaction rolled back; by nobody but an earlier life of the same process,
\* whose open transactions are gone.
NewId(r) ==
    LET m == Ids!NextId(txn[r].process)
    IN  /\ txn[r].step = "newId"
        /\ Len(issued[txn[r].process]) < MaxIds
        /\ Ids!Generate(txn[r].process)
        /\ txn' = [txn EXCEPT ![r] = IF m \in rows THEN Idle
                                     ELSE [@ EXCEPT !.step = "newEventId", !.message = m]]
        /\ UNCHANGED <<limiter, store, walk, faults>>

\* Mutant: a message that has been deleted is deleted again.
DeleteAgain(r, p, m) ==
    /\ txn[r].step = "idle"
    /\ m \in rows
    /\ txn' = [txn EXCEPT ![r] = [Idle EXCEPT !.op = "delete", !.step = "update",
                                              !.process = p, !.message = m]]
    /\ UNCHANGED <<ids, limiter, store, walk, faults>>

\* deleteMessage reads the message and the member, and checks both.
Delete(r, p, m) ==
    /\ txn[r].step = "idle"
    /\ m \in rows \ deleted
    /\ txn' = [txn EXCEPT ![r] = [Idle EXCEPT !.op = "delete", !.step = "update",
                                              !.process = p, !.message = m]]
    /\ UNCHANGED <<ids, limiter, store, walk, faults>>

\* softDelete waits for the row, and changes nothing if it has been deleted.
SoftDelete(r) ==
    /\ txn[r].step = "update"
    /\ \A q \in Requests : ~HoldsMessage(q, txn[r].message)
    /\ Goto(r, "newEventId")
    /\ UNCHANGED <<ids, limiter, store, walk, faults>>

\* outbox.append: an id of its own, and its INSERT.
NewEventId(r) ==
    LET e == Ids!NextId(txn[r].process)
    IN  /\ txn[r].step = "newEventId"
        /\ Len(issued[txn[r].process]) < MaxIds
        /\ Ids!Generate(txn[r].process)
        /\ txn' = [txn EXCEPT ![r] = IF e \in EventIds THEN Idle
                                     ELSE [@ EXCEPT !.step = "commit", !.event = e]]
        /\ UNCHANGED <<limiter, store, walk, faults>>

Commit(r) ==
    LET x == txn[r]
    IN  /\ x.step = "commit"
        /\ IF x.op = "send" THEN rows' = rows \cup {x.message} /\ UNCHANGED deleted
                            ELSE deleted' = deleted \cup {x.message} /\ UNCHANGED rows
        /\ events' = events \cup
              {[type |-> IF x.op = "send" THEN "MESSAGE_CREATE" ELSE "MESSAGE_DELETE",
                message |-> x.message, id |-> x.event]}
        /\ End(r)
        /\ UNCHANGED <<ids, limiter, walk, faults>>

\* generate throws: ROLLBACK.
GenerateThrows(r) ==
    /\ txn[r].step \in {"newId", "newEventId"}
    /\ Ids!Throws(txn[r].process)
    /\ End(r)
    /\ UNCHANGED <<ids, limiter, store, walk, faults>>

\* A statement fails: ROLLBACK.
Abort(r) ==
    /\ txn[r].step # "idle"
    /\ Fault
    /\ End(r)
    /\ UNCHANGED <<ids, limiter, store, walk>>

-----------------------------------------------------------------------------
\* The client and listMessages.
StartWalk ==
    /\ walk.state = "none" /\ rows # {}
    /\ walk' = [walk EXCEPT !.state = "on", !.wanted = rows \ deleted]
    /\ UNCHANGED <<ids, limiter, store, txn, faults>>

\* The next page; one that is not full is the last.
NextPage ==
    /\ walk.state = "on"
    /\ LET page == ListByChannel(walk.before)
       IN  walk' = [walk EXCEPT
              !.pages = Append(@, page),
              !.before = IF page = {} THEN @ ELSE Oldest(page),
              !.state = IF Cardinality(page) < PageSize THEN "done" ELSE @]
    /\ UNCHANGED <<ids, limiter, store, txn, faults>>

-----------------------------------------------------------------------------
\* Clocks and processes.
Tick(p) ==
    /\ Ids!Tick(p)
    /\ sent' = [sent EXCEPT ![p] = {x \in @ : x.at > clock[p] + 1 - WindowMs}]
    /\ UNCHANGED <<window, setBack, store, txn, walk, faults>>

StepBack(p) ==
    /\ Fault
    /\ Ids!StepBack(p)
    /\ setBack' = setBack \cup {p}
    /\ sent' = [sent EXCEPT ![p] = {}]
    /\ UNCHANGED <<window, store, txn, walk>>

\* The process starts again, with its windows empty; PostgreSQL rolls back what
\* it had open.
Restart(p) ==
    /\ Fault
    /\ Ids!Restart(p)
    /\ window' = [window EXCEPT ![p] = [count |-> 0, resetAt |-> 0]]
    /\ sent' = [sent EXCEPT ![p] = {}]
    /\ setBack' = setBack \ {p}
    /\ txn' = [r \in Requests |-> IF txn[r].process = p THEN Idle ELSE txn[r]]
    /\ UNCHANGED <<store, walk>>

Next ==
    \/ \E r \in Requests, p \in Processes : Send(r, p) \/ \E m \in rows : Delete(r, p, m)
    \/ \E r \in Requests :
          \/ NewId(r) \/ SoftDelete(r) \/ NewEventId(r) \/ Commit(r) \/ GenerateThrows(r) \/ Abort(r)
    \/ StartWalk \/ NextPage
    \/ \E p \in Processes : SendForbidden(p) \/ Tick(p) \/ StepBack(p) \/ Restart(p)

Spec == Init /\ [][Next]_vars

-----------------------------------------------------------------------------
\* Every id is new and greater than those its process issued before, so messages
\* and outbox rows are never refused for their id; unless the clock was set back
\* and the process, restarted, does not know.
IdsIncrease == Ids!IdsIncrease

\* The limiter lets MaxPerWindow sends through per window, but windows begin with
\* a send: as many at the end of one and at the start of the next leave, of any
\* WindowMs, all but the first of the earlier window.  A clock set back prolongs
\* windows, so no bound is stated for it.
SendRateIsBounded ==
    \A p \in Processes \ setBack : Cardinality(sent[p]) <= 2 * MaxPerWindow - 1

\* A client that has paged to the end has received every message that was there
\* when it began, unless it was deleted since, and none of them twice, whatever
\* was sent and deleted meanwhile and whatever the lengths of the ids.
WalkIsComplete ==
    LET page == walk.pages
    IN  /\ walk.state = "done" =>
              walk.wanted \ deleted \subseteq UNION {page[i] : i \in DOMAIN page}
        /\ \A i, j \in DOMAIN page : i < j =>
              \A m \in page[i], n \in page[j] : m # n /\ TextLess(n, m)

\* Who follows the events knows which messages are deleted: there is an event for
\* each, and none for one that is not.  Two deletions at once both announce it, but
\* never more than were under way together.
DeletionsAreAnnounced ==
    \A m \in rows :
        LET told == {e \in events : e.type = "MESSAGE_DELETE" /\ e.message = m}
        IN  /\ (m \in deleted) = (told # {})
            /\ Cardinality(told) <= Cardinality(Requests)
=============================================================================
