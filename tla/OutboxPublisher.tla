-------------------------- MODULE OutboxPublisher --------------------------
(***************************************************************************)
(* The transactional outbox: domain transactions that append a row to      *)
(* outbox_events, the publishing loop of each worker process, the NATS     *)
(* client's outgoing buffer and the retention sweep.                       *)
(*                                                                         *)
(* The loop hands a batch to natsConn.publish, which only appends to the   *)
(* client's buffer, marks the rows published and commits.  The buffer goes *)
(* out to the NATS server on its own time, before or after the COMMIT, and *)
(* a process or connection that dies takes what it still holds with it.    *)
(***************************************************************************)
EXTENDS Naturals, FiniteSets, Sequences

CONSTANTS
    Events,         \* outbox rows
    Workers,        \* worker processes, each runs one publishing loop
    BatchSize,      \* OUTBOX_BATCH_SIZE
    MaxFaults       \* the bound on errors, crashes and lost connections

ASSUME ConstantsAssumption ==
    /\ IsFiniteSet(Events)
    /\ BatchSize \in Nat \ {0}
    /\ MaxFaults \in Nat

VARIABLES
    \* The table, and the clock NOW() reads when a transaction begins.
    status, createdAt, clock,
    \* Of each worker: where its loop is, the rows its transaction has locked
    \* in the order of the SELECT, and what its NATS client has yet to send.
    step, batch, buffer,
    \* What the NATS server has received, in order.
    sent,
    \* Rollbacks of a loop, and crashes and lost connections, so far.
    failures, cuts,
    \* History: workers that have polled, and events that committed after one
    \* created later had been claimed.
    polled, late

table == <<status, createdAt, clock>>
loops == <<step, batch, buffer>>
vars == <<status, createdAt, clock, step, batch, buffer, sent, failures, cuts, polled, late>>

faults == <<failures, cuts>>

\* "open" is a row of an uncommitted transaction, "purged" one swept away.
Status == {"none", "open", "aborted", "unpublished", "published", "purged"}
Step == {"idle", "claimed", "handed"}

Elems(s) == {s[i] : i \in DOMAIN s}

TypeOK ==
    /\ status \in [Events -> Status]
    /\ createdAt \in [Events -> Nat]
    /\ clock \in Nat
    /\ step \in [Workers -> Step]
    /\ batch \in [Workers -> Seq(Events)]
    /\ buffer \in [Workers -> Seq(Events)]
    /\ sent \in Seq(Events)
    /\ failures \in Nat
    /\ cuts \in Nat
    /\ polled \subseteq Workers
    /\ late \subseteq Events

Init ==
    /\ status = [e \in Events |-> "none"]
    /\ createdAt = [e \in Events |-> 0]
    /\ clock = 0
    /\ step = [w \in Workers |-> "idle"]
    /\ batch = [w \in Workers |-> <<>>]
    /\ buffer = [w \in Workers |-> <<>>]
    /\ sent = <<>>
    /\ failures = 0
    /\ cuts = 0
    /\ polled = {}
    /\ late = {}

Locked(e) == \E w \in Workers : e \in Elems(batch[w])

\* Mutant: FOR UPDATE without SKIP LOCKED's test.
ClaimableLocked == {e \in Events : status[e] = "unpublished"}

\* Mutant: uncommitted rows are visible.
ClaimableDirty == {e \in Events : status[e] \in {"open", "unpublished"} /\ ~Locked(e)}

\* Rows that were committed and not yet published when a loop looked.
Claimable == {e \in Events : status[e] = "unpublished" /\ ~Locked(e)}

Claimed(e) == Locked(e) \/ status[e] \in {"published", "purged"}

\* The bound of the model.
FaultLeft == failures + cuts < MaxFaults

-----------------------------------------------------------------------------
\* A domain transaction begins and inserts an event.  created_at is the time
\* it began, which two transactions may share.
AppendEvent(e) ==
    /\ status[e] = "none"
    /\ status' = [status EXCEPT ![e] = "open"]
    /\ clock' \in {clock, clock + 1}
    /\ createdAt' = [createdAt EXCEPT ![e] = clock']
    /\ UNCHANGED <<loops, sent, faults, polled, late>>

CommitEvent(e) ==
    /\ status[e] = "open"
    /\ status' = [status EXCEPT ![e] = "unpublished"]
    /\ late' = IF \E f \in Events : Claimed(f) /\ createdAt[f] > createdAt[e]
               THEN late \cup {e} ELSE late
    /\ UNCHANGED <<createdAt, clock, loops, sent, faults, polled>>

\* The domain transaction throws: the change and its event vanish together.
AbortEvent(e) ==
    /\ status[e] = "open"
    /\ status' = [status EXCEPT ![e] = "aborted"]
    /\ UNCHANGED <<createdAt, clock, loops, sent, faults, polled, late>>

-----------------------------------------------------------------------------
\* Mutant: no ORDER BY.
BatchesUnordered ==
    LET size == IF Cardinality(Claimable) < BatchSize THEN Cardinality(Claimable)
                                                      ELSE BatchSize
    IN  {b \in [1..size -> Claimable] : \A i, j \in 1..size : i < j => b[i] # b[j]}

\* fetchUnpublishedEvents: the BatchSize earliest rows nobody has locked, in
\* the order of created_at.  A poll that finds none commits and sleeps.
Batches ==
    LET size == IF Cardinality(Claimable) < BatchSize THEN Cardinality(Claimable)
                                                      ELSE BatchSize
    IN  {b \in [1..size -> Claimable] :
            /\ \A i, j \in 1..size : i < j => b[i] # b[j] /\ createdAt[b[i]] <= createdAt[b[j]]
            /\ \A e \in Claimable \ Elems(b) : createdAt[b[size]] <= createdAt[e]}

Poll(w) ==
    /\ step[w] = "idle"
    /\ Claimable # {}
    /\ \E b \in Batches : batch' = [batch EXCEPT ![w] = b]
    /\ step' = [step EXCEPT ![w] = "claimed"]
    /\ polled' = polled \cup {w}
    /\ UNCHANGED <<table, buffer, sent, faults, late>>

\* The for loop over the batch runs without a break: publish does not wait.
HandOver(w) ==
    /\ step[w] = "claimed"
    /\ buffer' = [buffer EXCEPT ![w] = @ \o batch[w]]
    /\ step' = [step EXCEPT ![w] = "handed"]
    /\ UNCHANGED <<table, batch, sent, faults, polled, late>>

\* Mutant: every unpublished row is marked, claimed or not.
MarkAll(w) ==
    /\ step[w] = "handed"
    /\ status' = [e \in Events |-> IF status[e] = "unpublished" THEN "published" ELSE status[e]]
    /\ batch' = [batch EXCEPT ![w] = <<>>]
    /\ step' = [step EXCEPT ![w] = "idle"]
    /\ UNCHANGED <<createdAt, clock, buffer, sent, faults, polled, late>>

\* markPublished and COMMIT: until the COMMIT nobody sees published_at.
MarkAndCommit(w) ==
    /\ step[w] = "handed"
    /\ status' = [e \in Events |-> IF e \in Elems(batch[w]) THEN "published" ELSE status[e]]
    /\ batch' = [batch EXCEPT ![w] = <<>>]
    /\ step' = [step EXCEPT ![w] = "idle"]
    /\ UNCHANGED <<createdAt, clock, buffer, sent, faults, polled, late>>

\* The NATS client writes out the head of its buffer.
Flush(w) ==
    /\ buffer[w] # <<>>
    /\ sent' = Append(sent, Head(buffer[w]))
    /\ buffer' = [buffer EXCEPT ![w] = Tail(@)]
    /\ UNCHANGED <<table, step, batch, faults, polled, late>>

-----------------------------------------------------------------------------
\* A statement or a publish throws: ROLLBACK, and the loop sleeps.  Events of
\* the batch handed over before the throw stay in the client's buffer.
Fail(w) ==
    /\ step[w] # "idle"
    /\ FaultLeft
    /\ failures' = failures + 1
    /\ \E n \in 0..Len(batch[w]) :
          /\ step[w] = "handed" => n = 0
          /\ buffer' = [buffer EXCEPT ![w] = @ \o SubSeq(batch[w], 1, n)]
    /\ step' = [step EXCEPT ![w] = "idle"]
    /\ batch' = [batch EXCEPT ![w] = <<>>]
    /\ UNCHANGED <<table, sent, cuts, polled, late>>

\* The process dies; PostgreSQL rolls its transaction back.  It restarts.
Crash(w) ==
    /\ step[w] # "idle" \/ buffer[w] # <<>>
    /\ FaultLeft
    /\ cuts' = cuts + 1
    /\ step' = [step EXCEPT ![w] = "idle"]
    /\ batch' = [batch EXCEPT ![w] = <<>>]
    /\ buffer' = [buffer EXCEPT ![w] = <<>>]
    /\ UNCHANGED <<table, sent, failures, polled, late>>

\* The connection to NATS breaks: what was written to it may be lost.  The
\* client reconnects and sends the rest.
Disconnect(w) ==
    /\ FaultLeft
    /\ cuts' = cuts + 1
    /\ \E n \in 1..Len(buffer[w]) :
          buffer' = [buffer EXCEPT ![w] = SubSeq(@, n + 1, Len(@))]
    /\ UNCHANGED <<table, step, batch, sent, failures, polled, late>>

\* runRetentionJob: a published row is deleted after seven days.
Retention ==
    \E S \in SUBSET {e \in Events : status[e] = "published"} \ {{}} :
        /\ status' = [e \in Events |-> IF e \in S THEN "purged" ELSE status[e]]
        /\ UNCHANGED <<createdAt, clock, loops, sent, faults, polled, late>>

-----------------------------------------------------------------------------
Next ==
    \/ \E e \in Events : AppendEvent(e) \/ CommitEvent(e) \/ AbortEvent(e)
    \/ \E w \in Workers : Poll(w) \/ HandOver(w) \/ MarkAndCommit(w) \/ Flush(w)
    \/ \E w \in Workers : Fail(w) \/ Crash(w) \/ Disconnect(w)
    \/ Retention

Spec == Init /\ [][Next]_vars

(***************************************************************************)
(* A worker's event loop runs its publishing loop and its NATS client.     *)
(* Nothing is owed by the domain, the faults or the sweep.                 *)
(***************************************************************************)
Fairness == \A w \in Workers : /\ WF_vars(Poll(w))
                               /\ WF_vars(HandOver(w))
                               /\ WF_vars(MarkAndCommit(w))
                               /\ WF_vars(Flush(w))

FairSpec == Spec /\ Fairness

-----------------------------------------------------------------------------
Committed == {e \in Events : status[e] \in {"unpublished", "published", "purged"}}

InBuffers == UNION {Elems(buffer[w]) : w \in Workers}

\* Marked published, and no copy left that could still reach NATS.
Lost == {e \in Events : /\ status[e] \in {"published", "purged"}
                        /\ e \notin Elems(sent) \cup InBuffers}

\* How often NATS has received e, or will from what the clients hold.
Received(e) == {i \in DOMAIN sent : sent[i] = e}
Held(e) == UNION {{w} \X {i \in DOMAIN buffer[w] : buffer[w][i] = e} : w \in Workers}
Copies(e) == Cardinality(Received(e)) + Cardinality(Held(e))

Delivery == INSTANCE EventDelivery
                WITH recorded <- Committed, delivered <- Elems(sent), lost <- Lost

-----------------------------------------------------------------------------
\* The outbox keeps its promise: NATS sees only events whose transaction has
\* committed, an event given up on never turns up, and each committed event is
\* in the end received or lost, however workers and failures interleave.
ImplementsDelivery == Delivery!Spec

\* SKIP LOCKED and the rollback keep two workers off one event: NATS gets it
\* once, and at most once more for each fault.
CopiesBounded == \A e \in Events : Copies(e) <= 1 + failures + cuts

\* A failed statement or publish never loses an event, whatever of the batch
\* had been handed over: only a dying process or connection does.
LossNeedsCut == Lost # {} => cuts > 0

\* As long as one worker publishes, without faults, NATS receives events in
\* the order of their creation, except those that committed too late: after
\* an event created later had been claimed.
OneWorkerKeepsOrder ==
    Cardinality(polled) <= 1 /\ failures + cuts = 0 =>
        \A i, j \in DOMAIN sent :
            i < j /\ sent[j] \notin late => createdAt[sent[i]] <= createdAt[sent[j]]

=============================================================================
