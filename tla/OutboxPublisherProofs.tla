----------------------- MODULE OutboxPublisherProofs -----------------------
(***************************************************************************)
(* Proofs about OutboxPublisher, for any finite set of events, any workers *)
(* and any bound on the faults: its type invariant, that without a crash   *)
(* nothing is lost, that each of its steps is a step of EventDelivery, how *)
(* many copies of an event there can be, and the order NATS receives them  *)
(* in.                                                                     *)
(***************************************************************************)
EXTENDS OutboxPublisher, FiniteSetTheorems, TLAPS

-----------------------------------------------------------------------------
\* What the operations on sequences do to the set of elements.

LEMMA ElemsEmpty == Elems(<<>>) = {}
  BY DEF Elems

LEMMA ElemsConcat ==
  ASSUME NEW T, NEW s \in Seq(T), NEW t \in Seq(T)
  PROVE  Elems(s \o t) = Elems(s) \cup Elems(t)
<1>1. Elems(s \o t) \subseteq Elems(s) \cup Elems(t)
  BY DEF Elems
<1>2. ASSUME NEW e \in Elems(s)  PROVE e \in Elems(s \o t)
  BY <1>2 DEF Elems
<1>3. ASSUME NEW e \in Elems(t)  PROVE e \in Elems(s \o t)
  <2>1. PICK i \in 1..Len(t) : e = t[i]
    BY <1>3 DEF Elems
  <2>2. (s \o t)[Len(s) + i] = t[i] /\ Len(s) + i \in 1..Len(s \o t)
    BY <2>1
  <2> QED BY <2>1, <2>2 DEF Elems
<1> QED BY <1>1, <1>2, <1>3

LEMMA ElemsAppend ==
  ASSUME NEW T, NEW s \in Seq(T), NEW e \in T
  PROVE  Elems(Append(s, e)) = Elems(s) \cup {e}
<1>1. Append(s, e) \in Seq(T) /\ Len(Append(s, e)) = Len(s) + 1
  OBVIOUS
<1>2. Append(s, e)[Len(s) + 1] = e
  OBVIOUS
<1>3. \A i \in 1..Len(s) : Append(s, e)[i] = s[i]
  OBVIOUS
<1> QED BY <1>1, <1>2, <1>3 DEF Elems

LEMMA ElemsHeadTail ==
  ASSUME NEW T, NEW s \in Seq(T), s # <<>>
  PROVE  Tail(s) \in Seq(T) /\ Head(s) \in T /\ Elems(s) = {Head(s)} \cup Elems(Tail(s))
<1>1. Tail(s) \in Seq(T) /\ Len(s) > 0 /\ Len(Tail(s)) = Len(s) - 1 /\ Head(s) = s[1]
  OBVIOUS
<1>2. \A i \in 1..Len(Tail(s)) : Tail(s)[i] = s[i + 1]
  BY <1>1
<1>3. ASSUME NEW e \in Elems(s)  PROVE e = Head(s) \/ e \in Elems(Tail(s))
  <2>1. PICK i \in 1..Len(s) : e = s[i]
    BY <1>3 DEF Elems
  <2>2. CASE i = 1
    BY <2>1, <2>2, <1>1
  <2>3. CASE i # 1
    <3>1. i - 1 \in 1..Len(Tail(s)) /\ Tail(s)[i - 1] = e
      BY <2>1, <2>3, <1>1, <1>2
    <3>2. i - 1 \in DOMAIN Tail(s)
      BY <3>1, <1>1
    <3> QED BY <3>1, <3>2 DEF Elems
  <2> QED BY <2>2, <2>3
<1>4. ASSUME NEW e \in Elems(Tail(s))  PROVE e \in Elems(s)
  BY <1>1, <1>2, <1>4 DEF Elems
<1>5. Head(s) \in Elems(s) /\ Head(s) \in T
  BY <1>1 DEF Elems
<1> QED BY <1>1, <1>3, <1>4, <1>5

LEMMA ElemsSubSeq ==
  ASSUME NEW T, NEW s \in Seq(T), NEW m \in Nat \ {0}, NEW n \in 0..Len(s)
  PROVE  SubSeq(s, m, n) \in Seq(T) /\ Elems(SubSeq(s, m, n)) \subseteq Elems(s)
<1>1. SubSeq(s, m, n) \in Seq(T)
  OBVIOUS
<1>2. \A i \in 1..Len(SubSeq(s, m, n)) : SubSeq(s, m, n)[i] = s[m + i - 1] /\ m + i - 1 \in 1..Len(s)
  OBVIOUS
<1> QED BY <1>1, <1>2 DEF Elems

-----------------------------------------------------------------------------
\* The inductive invariant.

\* What NATS has received or a client still holds.
Reached == Elems(sent) \cup InBuffers

\* A loop has claimed rows that are unpublished and that no other loop has.
BatchesUnpublished == \A w \in Workers : \A e \in Elems(batch[w]) : status[e] = "unpublished"
BatchesDisjoint == \A v, w \in Workers : v # w => Elems(batch[v]) \cap Elems(batch[w]) = {}

\* Only committed events are handed over.
ReachedCommitted == Reached \subseteq Committed

\* Without a cut, a batch that has been handed over is not lost before the COMMIT.
HandedReached ==
    cuts = 0 => \A w \in Workers : step[w] = "handed" => Elems(batch[w]) \subseteq Reached

IInv ==
    /\ TypeOK
    /\ BatchesUnpublished
    /\ BatchesDisjoint
    /\ ReachedCommitted
    /\ HandedReached
    /\ LossNeedsCut

USE DEF table, loops, faults

LEMMA InitInv == Init => IInv
<1> SUFFICES ASSUME Init PROVE IInv
  OBVIOUS
<1> USE DEF Init
<1>1. TypeOK
  BY DEF TypeOK, Status, Step
<1>2. InBuffers = {} /\ Reached = {} /\ Committed = {} /\ Lost = {}
  BY ElemsEmpty DEF InBuffers, Reached, Committed, Lost
<1>3. \A w \in Workers : Elems(batch[w]) = {}
  BY ElemsEmpty
<1> QED
  BY <1>1, <1>2, <1>3 DEF IInv, BatchesUnpublished, BatchesDisjoint, ReachedCommitted,
                          HandedReached, LossNeedsCut

\* A batch is a sequence of claimable rows.
LEMMA BatchesType ==
  ASSUME TypeOK, NEW b \in Batches
  PROVE  b \in Seq(Events) /\ Elems(b) \subseteq Claimable
<1>1. IsFiniteSet(Claimable)
  BY ConstantsAssumption, FS_Subset DEF Claimable
<1>2. Cardinality(Claimable) \in Nat
  BY <1>1, FS_CardinalityType
<1>3. PICK size \in Nat : b \in [1..size -> Claimable]
  BY <1>2, ConstantsAssumption DEF Batches
<1>4. b \in Seq(Claimable) /\ Len(b) = size
  BY <1>3
<1>5. Claimable \subseteq Events
  BY DEF Claimable
<1> QED BY <1>3, <1>4, <1>5 DEF Elems

\* Steps of the domain's transactions and of the sweep: the rows a loop has
\* claimed stay unpublished and what was committed stays committed.
LEMMA RowsInv ==
  ASSUME IInv,
         UNCHANGED <<step, batch, buffer, sent, cuts>>,
         TypeOK',
         \A e \in Events : status[e] = "unpublished" => status'[e] = "unpublished",
         \A e \in Events : status[e] \in {"published", "purged"}
                             <=> status'[e] \in {"published", "purged"}
  PROVE  IInv'
<1> USE DEF IInv
<1>1. \A w \in Workers : batch[w] \in Seq(Events)
  BY DEF TypeOK
<1>2. \A w \in Workers : Elems(batch[w]) \subseteq Events
  BY <1>1 DEF Elems
<1>3. UNCHANGED <<InBuffers, Reached, Lost>>
  BY DEF InBuffers, Reached, Lost, Elems
<1>4. Committed \subseteq Committed'
  BY DEF Committed
<1>5. BatchesUnpublished' /\ BatchesDisjoint'
  BY <1>2 DEF BatchesUnpublished, BatchesDisjoint, Elems
<1>6. ReachedCommitted' /\ LossNeedsCut'
  BY <1>3, <1>4 DEF ReachedCommitted, LossNeedsCut
<1>7. HandedReached'
  BY <1>3 DEF HandedReached, Elems
<1> QED BY <1>5, <1>6, <1>7

LEMMA DomainInv ==
  ASSUME IInv, NEW e \in Events, AppendEvent(e) \/ CommitEvent(e) \/ AbortEvent(e)
  PROVE  IInv'
<1> USE DEF IInv, TypeOK, Status
<1>1. CASE AppendEvent(e)
  <2>1. TypeOK'
    BY <1>1 DEF AppendEvent
  <2> QED BY <1>1, <2>1, RowsInv DEF AppendEvent
<1>2. CASE CommitEvent(e)
  <2>1. TypeOK'
    BY <1>2 DEF CommitEvent
  <2> QED BY <1>2, <2>1, RowsInv DEF CommitEvent
<1>3. CASE AbortEvent(e)
  <2>1. TypeOK'
    BY <1>3 DEF AbortEvent
  <2> QED BY <1>3, <2>1, RowsInv DEF AbortEvent
<1> QED BY <1>1, <1>2, <1>3

LEMMA RetentionInv == IInv /\ Retention => IInv'
<1> SUFFICES ASSUME IInv, Retention PROVE IInv'
  OBVIOUS
<1> USE DEF IInv, TypeOK, Status
<1>1. TypeOK'
  BY DEF Retention
<1> QED BY <1>1, RowsInv DEF Retention

-----------------------------------------------------------------------------
\* Steps of a worker.

\* What a loop or a client holds are events.
LEMMA HeldTypes ==
  ASSUME TypeOK, NEW w \in Workers
  PROVE  /\ batch[w] \in Seq(Events) /\ buffer[w] \in Seq(Events)
         /\ Elems(batch[w]) \subseteq Events /\ Elems(buffer[w]) \subseteq Events
<1>1. batch[w] \in Seq(Events) /\ buffer[w] \in Seq(Events)
  BY DEF TypeOK
<1> QED BY <1>1 DEF Elems

LEMMA PollInv ==
  ASSUME IInv, NEW w \in Workers, Poll(w)
  PROVE  IInv'
<1> USE DEF IInv
<1>1. PICK b \in Batches : batch' = [batch EXCEPT ![w] = b]
  BY DEF Poll
<1>2. b \in Seq(Events) /\ Elems(b) \subseteq Claimable
  BY BatchesType
<1>3. TypeOK'
  BY <1>1, <1>2 DEF TypeOK, Poll, Step
<1>4. \A v \in Workers : batch'[v] = IF v = w THEN b ELSE batch[v]
  BY <1>1 DEF TypeOK
<1>5. UNCHANGED <<status, buffer, sent, cuts, InBuffers, Reached, Committed, Lost>>
  BY DEF Poll, InBuffers, Reached, Committed, Lost, Elems
<1>6. \A e \in Elems(b) : status[e] = "unpublished" /\ \A v \in Workers : e \notin Elems(batch[v])
  BY <1>2 DEF Claimable, Locked
<1>7. \A v \in Workers : Elems(batch[v])' = IF v = w THEN Elems(b) ELSE Elems(batch[v])
  BY <1>4 DEF Elems
<1>8. BatchesUnpublished' /\ BatchesDisjoint'
  BY <1>5, <1>6, <1>7 DEF BatchesUnpublished, BatchesDisjoint
<1>9. HandedReached'
  <2>1. \A v \in Workers : step'[v] = "handed" => v # w /\ step[v] = "handed"
    BY DEF Poll, TypeOK
  <2> QED BY <2>1, <1>5, <1>7 DEF HandedReached
<1> QED BY <1>3, <1>5, <1>8, <1>9 DEF ReachedCommitted, LossNeedsCut

\* A loop that lets go of its batch, or keeps it, and leaves the table alone;
\* its client may take more of the batch into its buffer.
LEMMA HandOverInv ==
  ASSUME IInv, NEW w \in Workers, TypeOK',
         UNCHANGED <<status, sent, cuts>>,
         \A v \in Workers : Elems(batch[v])' \in {{}, Elems(batch[v])},
         \A v \in Workers : /\ Elems(buffer[v]) \subseteq Elems(buffer[v])'
                            /\ Elems(buffer[v])' \subseteq Elems(buffer[v]) \cup Elems(batch[v]),
         \A v \in Workers : step'[v] = "handed" =>
             step[v] = "handed" \/ Elems(batch[v])' \subseteq Elems(buffer[v])'
  PROVE  IInv' /\ UNCHANGED <<Committed, Lost>>
<1> USE DEF IInv
<1>1. UNCHANGED Committed
  BY DEF Committed
<1>2. \A v \in Workers : \A e \in Elems(batch[v]) : e \in Events /\ status[e] = "unpublished"
  BY HeldTypes DEF BatchesUnpublished
<1>3. Reached \subseteq Reached'
  BY DEF Reached, InBuffers, Elems
<1>4. \A e \in Reached' : e \in Reached \/ (e \in Events /\ status[e] = "unpublished")
  BY <1>2 DEF Reached, InBuffers, Elems
<1>5. UNCHANGED Lost
  BY <1>3, <1>4 DEF Lost, Reached
<1>6. BatchesUnpublished' /\ BatchesDisjoint'
  BY <1>2 DEF BatchesUnpublished, BatchesDisjoint
<1>7. ReachedCommitted'
  BY <1>1, <1>4 DEF ReachedCommitted, Committed
<1>8. HandedReached'
  <2> SUFFICES ASSUME cuts' = 0, NEW v \in Workers, step'[v] = "handed"
               PROVE  Elems(batch[v])' \subseteq Reached'
    BY DEF HandedReached
  <2>1. CASE step[v] = "handed"
    BY <2>1, <1>3 DEF HandedReached
  <2>2. CASE Elems(batch[v])' \subseteq Elems(buffer[v])'
    BY <2>2 DEF Reached, InBuffers
  <2> QED BY <2>1, <2>2
<1>9. LossNeedsCut'
  BY <1>5 DEF LossNeedsCut
<1> QED BY <1>1, <1>5, <1>6, <1>7, <1>8, <1>9

LEMMA HandOverStep ==
  ASSUME IInv, NEW w \in Workers, HandOver(w)
  PROVE  IInv' /\ UNCHANGED <<Committed, Lost, Elems(sent)>>
<1> USE DEF IInv
<1>1. \A v \in Workers : /\ batch[v] \in Seq(Events) /\ buffer[v] \in Seq(Events)
  BY HeldTypes
<1>2. TypeOK'
  BY <1>1 DEF TypeOK, HandOver, Step
<1>3. \A v \in Workers : buffer'[v] = IF v = w THEN buffer[w] \o batch[w] ELSE buffer[v]
  BY DEF HandOver, TypeOK
<1>4. Elems(buffer[w] \o batch[w]) = Elems(buffer[w]) \cup Elems(batch[w])
  BY <1>1, ElemsConcat
<1>5. \A v \in Workers : Elems(buffer[v])' =
          IF v = w THEN Elems(buffer[w]) \cup Elems(batch[w]) ELSE Elems(buffer[v])
  BY <1>3, <1>4 DEF Elems
<1>6. \A v \in Workers : Elems(batch[v])' = Elems(batch[v])
  BY DEF HandOver, Elems
<1>7. \A v \in Workers : step'[v] = "handed" => v = w \/ step[v] = "handed"
  BY DEF HandOver, TypeOK
<1>8. UNCHANGED <<status, sent, cuts>> /\ UNCHANGED Elems(sent)
  BY DEF HandOver, Elems
<1> QED BY <1>2, <1>5, <1>6, <1>7, <1>8, HandOverInv

LEMMA FailStep ==
  ASSUME IInv, NEW w \in Workers, Fail(w)
  PROVE  IInv' /\ UNCHANGED <<Committed, Lost, Elems(sent)>>
<1> USE DEF IInv
<1>1. \A v \in Workers : batch[v] \in Seq(Events) /\ buffer[v] \in Seq(Events)
  BY HeldTypes
<1>2. PICK n \in 0..Len(batch[w]) :
         buffer' = [buffer EXCEPT ![w] = @ \o SubSeq(batch[w], 1, n)]
  BY DEF Fail
<1> DEFINE handed == SubSeq(batch[w], 1, n)
<1>3. handed \in Seq(Events) /\ Elems(handed) \subseteq Elems(batch[w])
  BY <1>1, ElemsSubSeq
<1>6. buffer' = [buffer EXCEPT ![w] = buffer[w] \o handed]
  BY <1>2
<1> HIDE DEF handed
<1>4. Elems(buffer[w] \o handed) = Elems(buffer[w]) \cup Elems(handed)
  BY <1>1, <1>3, ElemsConcat
<1>5. buffer[w] \o handed \in Seq(Events)
  BY <1>1, <1>3
<1>7. TypeOK'
  BY <1>5, <1>6 DEF TypeOK, Fail, Step
<1>8. \A v \in Workers : buffer'[v] = IF v = w THEN buffer[w] \o handed ELSE buffer[v]
  BY <1>6 DEF TypeOK
<1>9. \A v \in Workers : Elems(buffer[v])' =
          IF v = w THEN Elems(buffer[w]) \cup Elems(handed) ELSE Elems(buffer[v])
  BY <1>4, <1>8 DEF Elems
<1>10. \A v \in Workers : batch'[v] = IF v = w THEN <<>> ELSE batch[v]
  BY DEF Fail, TypeOK
<1>11. \A v \in Workers : Elems(batch[v])' = IF v = w THEN {} ELSE Elems(batch[v])
  BY <1>10, ElemsEmpty DEF Elems
<1>12. \A v \in Workers : step'[v] = "handed" => step[v] = "handed"
  BY DEF Fail, TypeOK
<1>13. UNCHANGED <<status, sent, cuts>> /\ UNCHANGED Elems(sent)
  BY DEF Fail, Elems
<1> QED BY <1>3, <1>7, <1>9, <1>11, <1>12, <1>13, HandOverInv

\* COMMIT: the batch becomes published; what of it nobody holds is lost.
LEMMA MarkAndCommitStep ==
  ASSUME IInv, NEW w \in Workers, MarkAndCommit(w)
  PROVE  IInv' /\ UNCHANGED <<Committed, Reached, Elems(sent)>> /\ Lost \subseteq Lost'
<1> USE DEF IInv
<1>1. Elems(batch[w]) \subseteq Events
  BY HeldTypes
<1>2. TypeOK'
  BY DEF TypeOK, MarkAndCommit, Step, Status
<1>3. \A e \in Events : status'[e] = IF e \in Elems(batch[w]) THEN "published" ELSE status[e]
  BY DEF MarkAndCommit
<1>4. \A e \in Elems(batch[w]) : e \in Events /\ status[e] = "unpublished"
  BY <1>1 DEF BatchesUnpublished
<1>5. UNCHANGED <<Reached, Elems(sent), cuts>>
  BY DEF MarkAndCommit, Reached, InBuffers, Elems
<1>6. UNCHANGED Committed
  BY <1>3, <1>4 DEF Committed
<1>7. Lost' = Lost \cup (Elems(batch[w]) \ Reached)
  BY <1>3, <1>4, <1>5 DEF Lost, Reached
<1>8. \A v \in Workers : batch'[v] = IF v = w THEN <<>> ELSE batch[v]
  BY DEF MarkAndCommit, TypeOK
<1>9. \A v \in Workers : Elems(batch[v])' = IF v = w THEN {} ELSE Elems(batch[v])
  BY <1>8, ElemsEmpty DEF Elems
<1>10. BatchesDisjoint'
  BY <1>9 DEF BatchesDisjoint
<1>11. BatchesUnpublished'
  <2> SUFFICES ASSUME NEW v \in Workers, NEW e \in Elems(batch[v])'
               PROVE  status'[e] = "unpublished"
    BY DEF BatchesUnpublished
  <2>1. v # w /\ e \in Elems(batch[v])
    BY <1>9
  <2>2. e \in Events /\ e \notin Elems(batch[w]) /\ status[e] = "unpublished"
    BY <2>1, HeldTypes DEF BatchesDisjoint, BatchesUnpublished
  <2> QED BY <2>2, <1>3
<1>12. HandedReached'
  <2>1. \A v \in Workers : step'[v] = "handed" => step[v] = "handed"
    BY DEF MarkAndCommit, TypeOK
  <2> QED BY <2>1, <1>5, <1>9 DEF HandedReached
<1>13. ReachedCommitted'
  BY <1>5, <1>6 DEF ReachedCommitted
<1>14. LossNeedsCut'
  <2> SUFFICES ASSUME ~(cuts > 0) PROVE Lost' = {}
    BY <1>5 DEF LossNeedsCut
  <2>1. cuts = 0
    BY DEF TypeOK
  <2>2. Elems(batch[w]) \subseteq Reached
    BY <2>1 DEF HandedReached, MarkAndCommit
  <2> QED BY <2>2, <1>7 DEF LossNeedsCut
<1> QED BY <1>2, <1>5, <1>6, <1>7, <1>10, <1>11, <1>12, <1>13, <1>14

\* The event written out was held by this client: it is committed and not lost.
LEMMA FlushStep ==
  ASSUME IInv, NEW w \in Workers, Flush(w)
  PROVE  /\ IInv'
         /\ UNCHANGED <<Committed, Reached, Lost>>
         /\ \E e \in Committed \ Lost : Elems(sent)' = Elems(sent) \cup {e}
<1> USE DEF IInv
<1> DEFINE e == Head(buffer[w])
<1>1. buffer[w] \in Seq(Events) /\ buffer[w] # <<>> /\ sent \in Seq(Events)
  BY HeldTypes DEF Flush, TypeOK
<1>2. /\ Tail(buffer[w]) \in Seq(Events) /\ e \in Events
      /\ Elems(buffer[w]) = {e} \cup Elems(Tail(buffer[w]))
  BY <1>1, ElemsHeadTail
<1>3. sent' = Append(sent, e) /\ buffer' = [buffer EXCEPT ![w] = Tail(buffer[w])]
  BY DEF Flush
<1> HIDE DEF e
<1>4. Elems(sent)' = Elems(sent) \cup {e}
  <2>1. Elems(Append(sent, e)) = Elems(sent) \cup {e}
    BY <1>1, <1>2, ElemsAppend
  <2> QED BY <2>1, <1>3 DEF Elems
<1>5. TypeOK'
  BY <1>1, <1>2, <1>3 DEF TypeOK, Flush
<1>6. \A v \in Workers : buffer'[v] = IF v = w THEN Tail(buffer[w]) ELSE buffer[v]
  BY <1>3 DEF TypeOK
<1>7. \A v \in Workers : Elems(buffer[v])' =
          IF v = w THEN Elems(Tail(buffer[w])) ELSE Elems(buffer[v])
  BY <1>6 DEF Elems
<1>8. UNCHANGED Reached
  <2>1. \A x : x \in InBuffers <=> \E v \in Workers : x \in Elems(buffer[v])
    BY DEF InBuffers
  <2>2. \A x : x \in InBuffers' <=> \E v \in Workers : x \in Elems(buffer[v])'
    BY DEF InBuffers
  <2> QED BY <2>1, <2>2, <1>2, <1>4, <1>7 DEF Reached
<1>9. UNCHANGED <<status, step, batch, cuts, Committed, Lost>>
  BY <1>8 DEF Flush, Committed, Lost, Reached
<1>10. e \in Committed \ Lost
  <2>1. e \in Reached
    BY <1>2 DEF Reached, InBuffers
  <2> QED BY <2>1 DEF ReachedCommitted, Lost, Reached
<1>11. BatchesUnpublished' /\ BatchesDisjoint'
  BY <1>9 DEF BatchesUnpublished, BatchesDisjoint, Elems
<1>12. HandedReached'
  BY <1>8, <1>9 DEF HandedReached, Elems
<1> QED BY <1>4, <1>5, <1>8, <1>9, <1>10, <1>11, <1>12 DEF ReachedCommitted, LossNeedsCut

\* A client that forgets some of what it held, and a loop that may have ended.
LEMMA CutInv ==
  ASSUME IInv, TypeOK', cuts' = cuts + 1,
         UNCHANGED <<status, sent>>,
         \A v \in Workers : Elems(buffer[v])' \subseteq Elems(buffer[v]),
         \A v \in Workers : Elems(batch[v])' \in {{}, Elems(batch[v])}
  PROVE  IInv' /\ UNCHANGED <<Committed, Elems(sent)>> /\ Lost \subseteq Lost'
<1> USE DEF IInv
<1>1. UNCHANGED <<Committed, Elems(sent)>>
  BY DEF Committed, Elems
<1>2. Reached' \subseteq Reached
  BY <1>1 DEF Reached, InBuffers
<1>3. Lost \subseteq Lost'
  BY <1>2 DEF Lost, Reached
<1>4. BatchesUnpublished' /\ BatchesDisjoint'
  BY DEF BatchesUnpublished, BatchesDisjoint
<1>5. ReachedCommitted'
  BY <1>1, <1>2 DEF ReachedCommitted
<1>6. cuts' > 0
  BY DEF TypeOK
<1>7. HandedReached' /\ LossNeedsCut'
  BY <1>6 DEF HandedReached, LossNeedsCut
<1> QED BY <1>1, <1>3, <1>4, <1>5, <1>7

LEMMA CrashStep ==
  ASSUME IInv, NEW w \in Workers, Crash(w)
  PROVE  IInv' /\ UNCHANGED <<Committed, Elems(sent)>> /\ Lost \subseteq Lost'
<1>1. TypeOK'
  <2>1. batch' \in [Workers -> Seq(Events)]
    BY DEF IInv, TypeOK, Crash
  <2>2. buffer' \in [Workers -> Seq(Events)]
    BY DEF IInv, TypeOK, Crash
  <2>3. step' \in [Workers -> Step] /\ cuts' \in Nat
    BY DEF IInv, TypeOK, Crash, Step
  <2>4. UNCHANGED <<status, createdAt, clock, sent, failures, polled, late>>
    BY DEF Crash
  <2> QED BY <2>1, <2>2, <2>3, <2>4 DEF IInv, TypeOK
<1>2. \A v \in Workers : /\ batch'[v] = IF v = w THEN <<>> ELSE batch[v]
                         /\ buffer'[v] = IF v = w THEN <<>> ELSE buffer[v]
  BY DEF IInv, TypeOK, Crash
<1>3. \A v \in Workers : /\ Elems(batch[v])' = IF v = w THEN {} ELSE Elems(batch[v])
                         /\ Elems(buffer[v])' = IF v = w THEN {} ELSE Elems(buffer[v])
  BY <1>2, ElemsEmpty DEF Elems
<1>4. cuts' = cuts + 1 /\ UNCHANGED <<status, sent>>
  BY DEF Crash
<1>5. \A v \in Workers : /\ Elems(buffer[v])' \subseteq Elems(buffer[v])
                         /\ Elems(batch[v])' \in {{}, Elems(batch[v])}
  BY <1>3
<1> QED BY <1>1, <1>4, <1>5, CutInv

LEMMA DisconnectStep ==
  ASSUME IInv, NEW w \in Workers, Disconnect(w)
  PROVE  IInv' /\ UNCHANGED <<Committed, Elems(sent)>> /\ Lost \subseteq Lost'
<1>1. PICK n \in 1..Len(buffer[w]) :
         buffer' = [buffer EXCEPT ![w] = SubSeq(@, n + 1, Len(@))]
  BY DEF Disconnect
<1> DEFINE rest == SubSeq(buffer[w], n + 1, Len(buffer[w]))
<1>2. buffer[w] \in Seq(Events)
  BY HeldTypes DEF IInv
<1>3. n + 1 \in Nat \ {0} /\ Len(buffer[w]) \in 0..Len(buffer[w])
  BY <1>2
<1>4. rest \in Seq(Events) /\ Elems(rest) \subseteq Elems(buffer[w])
  BY <1>2, <1>3, ElemsSubSeq
<1>5. buffer' = [buffer EXCEPT ![w] = rest]
  BY <1>1
<1> HIDE DEF rest
<1>6. TypeOK'
  <2>1. buffer' \in [Workers -> Seq(Events)]
    BY <1>4, <1>5 DEF IInv, TypeOK
  <2>2. cuts' \in Nat /\ UNCHANGED <<status, createdAt, clock, step, batch, sent,
                                    failures, polled, late>>
    BY DEF IInv, TypeOK, Disconnect
  <2> QED BY <2>1, <2>2 DEF IInv, TypeOK
<1>7. \A v \in Workers : buffer'[v] = IF v = w THEN rest ELSE buffer[v]
  BY <1>5 DEF IInv, TypeOK
<1>8. \A v \in Workers : Elems(buffer[v])' = IF v = w THEN Elems(rest) ELSE Elems(buffer[v])
  BY <1>7 DEF Elems
<1>9. cuts' = cuts + 1 /\ UNCHANGED <<status, sent, batch>>
  BY DEF Disconnect
<1>10. \A v \in Workers : Elems(batch[v])' = Elems(batch[v])
  BY <1>9 DEF Elems
<1> QED BY <1>4, <1>6, <1>8, <1>9, <1>10, CutInv

-----------------------------------------------------------------------------
LEMMA NextInv == IInv /\ [Next]_vars => IInv'
<1> SUFFICES ASSUME IInv, [Next]_vars PROVE IInv'
  OBVIOUS
<1>1. CASE \E e \in Events : AppendEvent(e) \/ CommitEvent(e) \/ AbortEvent(e)
  BY <1>1, DomainInv
<1>2. CASE \E w \in Workers : Poll(w) \/ HandOver(w) \/ MarkAndCommit(w) \/ Flush(w)
  BY <1>2, PollInv, HandOverStep, MarkAndCommitStep, FlushStep
<1>3. CASE \E w \in Workers : Fail(w) \/ Crash(w) \/ Disconnect(w)
  BY <1>3, FailStep, CrashStep, DisconnectStep
<1>4. CASE Retention
  BY <1>4, RetentionInv
<1>5. CASE UNCHANGED vars
  <2>1. TypeOK'
    BY <1>5 DEF vars, IInv, TypeOK
  <2>2. UNCHANGED <<step, batch, buffer, sent, cuts, status>>
    BY <1>5 DEF vars
  <2> QED BY <2>1, <2>2, RowsInv
<1> QED BY <1>1, <1>2, <1>3, <1>4, <1>5 DEF Next

\* The strengthened invariant holds throughout.
THEOREM Invariance == Spec => []IInv
<1> QED BY InitInv, NextInv, PTL DEF Spec

\* Type correctness.
THEOREM TypeCorrect == Spec => []TypeOK
<1>1. IInv => TypeOK
  BY DEF IInv
<1> QED BY <1>1, Invariance, PTL

\* However loops roll back and overlap, an event marked published has reached
\* NATS or is still held by a client, as long as no process or connection dies.
THEOREM NothingLostWithoutCut == Spec => []LossNeedsCut
<1>1. IInv => LossNeedsCut
  BY DEF IInv
<1> QED BY <1>1, Invariance, PTL

-----------------------------------------------------------------------------
\* The refinement: which step of EventDelivery each step is.

\* A step that delivers nothing and forgets nothing it had given up on is Lose.
LEMMA LoseStep ==
  ASSUME IInv, UNCHANGED <<Committed, Elems(sent)>>, Lost \subseteq Lost'
  PROVE  Delivery!Next
<1>1. UNCHANGED Committed /\ UNCHANGED Elems(sent)
  OBVIOUS
<1> DEFINE S == Lost' \ Lost
<1>2. S \subseteq Events
  BY DEF Lost
<1>3. S \subseteq Committed \ Elems(sent)
  <2>1. Lost' \subseteq Committed' /\ Lost' \cap Elems(sent)' = {}
    BY DEF Lost, Committed
  <2> QED BY <2>1, <1>1
<1>4. Lost' = Lost \cup S
  OBVIOUS
<1>5. Delivery!Lose(S)
  BY <1>1, <1>3, <1>4 DEF Delivery!Lose
<1> QED BY <1>2, <1>5 DEF Delivery!Next

LEMMA DomainRefines ==
  ASSUME IInv, NEW e \in Events, AppendEvent(e) \/ CommitEvent(e) \/ AbortEvent(e)
  PROVE  [Delivery!Next]_(Delivery!vars)
<1>1. UNCHANGED <<buffer, sent>>
  BY DEF AppendEvent, CommitEvent, AbortEvent
<1>2. UNCHANGED <<InBuffers, Elems(sent)>>
  BY <1>1 DEF InBuffers, Elems
<1>3. \A f \in Events : f # e => status'[f] = status[f]
  BY DEF AppendEvent, CommitEvent, AbortEvent, IInv, TypeOK
<1>4. UNCHANGED Lost
  <2>1. /\ status[e] \notin {"published", "purged"}
        /\ status'[e] \notin {"published", "purged"}
    BY DEF AppendEvent, CommitEvent, AbortEvent, IInv, TypeOK
  <2> QED BY <2>1, <1>2, <1>3 DEF Lost
<1>5. CASE CommitEvent(e)
  <2>1. status'[e] = "unpublished"
    BY <1>5 DEF CommitEvent, IInv, TypeOK
  <2>2. Committed' = Committed \cup {e}
    BY <2>1, <1>3 DEF Committed
  <2>3. Delivery!Record(e)
    BY <2>2, <1>2, <1>4 DEF Delivery!Record
  <2> QED BY <2>3 DEF Delivery!Next
<1>6. CASE AppendEvent(e) \/ AbortEvent(e)
  <2>1. /\ status[e] \in {"none", "open"}
        /\ status'[e] \in {"open", "aborted"}
    BY <1>6 DEF AppendEvent, AbortEvent, IInv, TypeOK
  <2>2. UNCHANGED Committed
    BY <2>1, <1>3 DEF Committed
  <2> QED BY <2>2, <1>2, <1>4 DEF Delivery!vars
<1> QED BY <1>5, <1>6

LEMMA FlushRefines ==
  ASSUME IInv, NEW w \in Workers, Flush(w)
  PROVE  Delivery!Next
<1>1. PICK e \in Committed \ Lost : Elems(sent)' = Elems(sent) \cup {e}
  BY FlushStep
<1>2. UNCHANGED <<Committed, Lost>>
  BY FlushStep
<1>3. Delivery!Deliver(e)
  BY <1>1, <1>2 DEF Delivery!Deliver
<1>4. e \in Events
  BY <1>1 DEF Committed
<1> QED BY <1>3, <1>4 DEF Delivery!Next

LEMMA StepRefines == IInv /\ [Next]_vars => [Delivery!Next]_(Delivery!vars)
<1> SUFFICES ASSUME IInv, [Next]_vars PROVE [Delivery!Next]_(Delivery!vars)
  OBVIOUS
<1>1. CASE \E e \in Events : AppendEvent(e) \/ CommitEvent(e) \/ AbortEvent(e)
  BY <1>1, DomainRefines
<1>2. ASSUME NEW w \in Workers, Poll(w)
      PROVE  [Delivery!Next]_(Delivery!vars)
  BY <1>2 DEF Poll, Delivery!vars, Committed, Lost, InBuffers, Elems
<1>3. ASSUME NEW w \in Workers, HandOver(w) \/ Fail(w)
      PROVE  [Delivery!Next]_(Delivery!vars)
  BY <1>3, HandOverStep, FailStep DEF Delivery!vars
<1>4. ASSUME NEW w \in Workers, MarkAndCommit(w) \/ Crash(w) \/ Disconnect(w)
      PROVE  [Delivery!Next]_(Delivery!vars)
  BY <1>4, MarkAndCommitStep, CrashStep, DisconnectStep, LoseStep
<1>5. ASSUME NEW w \in Workers, Flush(w)
      PROVE  [Delivery!Next]_(Delivery!vars)
  BY <1>5, FlushRefines
<1>6. CASE Retention
  <2>1. \A e \in Events : status'[e] = status[e]
                          \/ (status[e] = "published" /\ status'[e] = "purged")
    BY <1>6 DEF Retention
  <2>2. UNCHANGED <<InBuffers, Elems(sent)>>
    BY <1>6 DEF Retention, InBuffers, Elems
  <2>3. UNCHANGED <<Committed, Lost>>
    BY <2>1, <2>2 DEF Committed, Lost
  <2> QED BY <2>2, <2>3 DEF Delivery!vars
<1>7. CASE UNCHANGED vars
  BY <1>7 DEF vars, Delivery!vars, Committed, Lost, InBuffers, Elems
<1> QED BY <1>1, <1>2, <1>3, <1>4, <1>5, <1>6, <1>7 DEF Next

\* The safety part of what EventDelivery promises, whatever the numbers of
\* events and workers: only committed events are delivered, lost ones stay lost.
THEOREM RefinesDelivery == Spec => Delivery!Safety
<1>1. Init => Delivery!Init
  <2> SUFFICES ASSUME Init PROVE Delivery!Init
    OBVIOUS
  <2>1. Committed = {} /\ Lost = {}
    BY DEF Init, Committed, Lost
  <2>2. Elems(sent) = {}
    BY ElemsEmpty DEF Init
  <2> QED BY <2>1, <2>2 DEF Delivery!Init
<1> QED BY <1>1, StepRefines, Invariance, PTL DEF Spec, Delivery!Safety

-----------------------------------------------------------------------------
\* How many copies there are: of each event those that NATS has received or a
\* client holds and, as long as it may be handed over again, one more.

\* A batch holds a row once.
BatchesDistinct ==
    \A w \in Workers : \A i, j \in DOMAIN batch[w] : i # j => batch[w][i] # batch[w][j]

\* No loop has handed the event over and is about to mark it published.
Pending(e) ==
    /\ status[e] \in {"none", "open", "unpublished"}
    /\ \A w \in Workers : step[w] = "handed" => e \notin Elems(batch[w])

CopyOrTwo(e) == IF Pending(e) THEN Copies(e) + 1 ELSE Copies(e)

CountInv ==
    /\ BatchesDistinct
    /\ \A e \in Events : IsFiniteSet(Held(e)) /\ CopyOrTwo(e) <= 1 + failures + cuts

LEMMA HeldPlaces ==
  ASSUME NEW e, NEW p
  PROVE  p \in Held(e) <=> \E w \in Workers : \E i \in DOMAIN buffer[w] : buffer[w][i] = e /\ p = <<w, i>>
BY DEF Held

LEMMA ReceivedFinite ==
  ASSUME TypeOK, NEW e
  PROVE  IsFiniteSet(Received(e))
<1>1. Received(e) \subseteq 1..Len(sent) /\ Len(sent) \in Nat
  BY DEF TypeOK, Received
<1>2. IsFiniteSet(1..Len(sent))
  BY <1>1, FS_Interval
<1> QED BY <1>1, <1>2, FS_Subset

LEMMA CopiesType ==
  ASSUME TypeOK, NEW e, IsFiniteSet(Held(e))
  PROVE  /\ Cardinality(Received(e)) \in Nat /\ Cardinality(Held(e)) \in Nat
         /\ Copies(e) \in Nat
BY ReceivedFinite, FS_CardinalityType DEF Copies

\* A client that takes rows, each of them once, holds at most one copy more.
LEMMA HeldGrows ==
  ASSUME TypeOK, NEW w \in Workers, NEW s \in Seq(Events),
         \A i, j \in 1..Len(s) : i # j => s[i] # s[j],
         buffer' = [buffer EXCEPT ![w] = buffer[w] \o s],
         NEW e \in Events, IsFiniteSet(Held(e))
  PROVE  /\ IsFiniteSet(Held(e))'
         /\ Cardinality(Held(e))' <= Cardinality(Held(e)) + 1
         /\ e \notin Elems(s) => Cardinality(Held(e))' <= Cardinality(Held(e))
<1>1. /\ buffer[w] \in Seq(Events) /\ Len(buffer[w]) \in Nat /\ Len(s) \in Nat
      /\ DOMAIN s = 1..Len(s)
  BY HeldTypes
<1>2. \A v \in Workers : buffer'[v] = IF v = w THEN buffer[w] \o s ELSE buffer[v]
  BY DEF TypeOK
<1>3. /\ DOMAIN (buffer[w] \o s) = 1..(Len(buffer[w]) + Len(s))
      /\ \A i \in 1..(Len(buffer[w]) + Len(s)) :
            (buffer[w] \o s)[i] = IF i <= Len(buffer[w]) THEN buffer[w][i]
                                                         ELSE s[i - Len(buffer[w])]
  BY <1>1
<1>4. ASSUME NEW p \in Held(e)', p \notin Held(e)
      PROVE  \E k \in 1..Len(s) : s[k] = e /\ p = <<w, Len(buffer[w]) + k>>
  <2>0. PICK v \in Workers : \E j \in DOMAIN buffer'[v] : buffer'[v][j] = e /\ p = <<v, j>>
    BY <1>4 DEF Held
  <2>1. PICK i \in DOMAIN buffer'[v] : buffer'[v][i] = e /\ p = <<v, i>>
    BY <2>0
  <2>2. v = w
    BY <2>1, <1>2, <1>4, HeldPlaces
  <2>3. i \in 1..(Len(buffer[w]) + Len(s)) /\ (buffer[w] \o s)[i] = e
    BY <2>1, <2>2, <1>2, <1>3
  <2>4. ~(i <= Len(buffer[w]))
    <3> SUFFICES ASSUME i <= Len(buffer[w]) PROVE FALSE
      OBVIOUS
    <3>1. i \in DOMAIN buffer[w] /\ buffer[w][i] = e
      BY <2>3, <1>1, <1>3
    <3> QED BY <3>1, <2>1, <2>2, <1>4, HeldPlaces
  <2> DEFINE k == i - Len(buffer[w])
  <2>5. k \in 1..Len(s) /\ s[k] = e /\ i = Len(buffer[w]) + k
    BY <2>3, <2>4, <1>1, <1>3
  <2> QED BY <2>1, <2>2, <2>5
<1>5. Cardinality(Held(e)) \in Nat
  BY FS_CardinalityType
<1>6. CASE e \notin Elems(s)
  <2>1. Held(e)' \subseteq Held(e)
    BY <1>4, <1>6, <1>1 DEF Elems
  <2>2. IsFiniteSet(Held(e)') /\ Cardinality(Held(e)') <= Cardinality(Held(e))
    BY <2>1, FS_Subset
  <2>3. Cardinality(Held(e)') \in Nat
    BY <2>2, FS_CardinalityType
  <2> QED BY <2>2, <2>3, <1>5
<1>7. CASE e \in Elems(s)
  <2>1. PICK k \in 1..Len(s) : s[k] = e
    BY <1>7, <1>1 DEF Elems
  <2> DEFINE place == <<w, Len(buffer[w]) + k>>
  <2>2. Held(e)' \subseteq Held(e) \cup {place}
    BY <2>1, <1>4
  <2> HIDE DEF place
  <2>3. IsFiniteSet(Held(e) \cup {place}) /\ Cardinality(Held(e) \cup {place}) <= Cardinality(Held(e)) + 1
    <3>1. /\ IsFiniteSet(Held(e) \cup {place})
          /\ Cardinality(Held(e) \cup {place}) =
                IF place \in Held(e) THEN Cardinality(Held(e)) ELSE Cardinality(Held(e)) + 1
      BY FS_AddElement
    <3> QED BY <3>1, <1>5
  <2>4. IsFiniteSet(Held(e)') /\ Cardinality(Held(e)') <= Cardinality(Held(e) \cup {place})
    BY <2>2, <2>3, FS_Subset
  <2>5. Cardinality(Held(e)') \in Nat /\ Cardinality(Held(e) \cup {place}) \in Nat
    BY <2>3, <2>4, FS_CardinalityType
  <2> QED BY <2>3, <2>4, <2>5, <1>5, <1>7
<1> QED BY <1>6, <1>7

\* A client's first n events are gone: the copies at its head are.
LEMMA HeldShrinks ==
  ASSUME TypeOK, NEW w \in Workers, NEW n \in 1..Len(buffer[w]),
         buffer' = [buffer EXCEPT ![w] = SubSeq(buffer[w], n + 1, Len(buffer[w]))],
         NEW e \in Events, IsFiniteSet(Held(e))
  PROVE  /\ IsFiniteSet(Held(e))'
         /\ Cardinality(Held(e))' <= Cardinality(Held(e))
         /\ buffer[w][1] = e => Cardinality(Held(e))' <= Cardinality(Held(e)) - 1
<1> DEFINE rest == SubSeq(buffer[w], n + 1, Len(buffer[w]))
           after == Held(e)'
           before == Held(e) \ {<<w, 1>>}
           move == [p \in after |-> IF p[1] = w THEN <<w, p[2] + n>> ELSE p]
<1>1. buffer[w] \in Seq(Events) /\ Len(buffer[w]) \in Nat /\ n \in Nat
  BY HeldTypes
<1>2. \A v \in Workers : buffer'[v] = IF v = w THEN rest ELSE buffer[v]
  BY DEF TypeOK
<1>3. /\ DOMAIN rest = 1..(Len(buffer[w]) - n)
      /\ \A i \in 1..(Len(buffer[w]) - n) : rest[i] = buffer[w][i + n]
  BY <1>1
<1>4. ASSUME NEW p \in after
      PROVE  /\ \E v \in Workers, i \in Nat : p = <<v, i>>
             /\ move[p] \in before
  <2>0. PICK v \in Workers : \E j \in DOMAIN buffer'[v] : buffer'[v][j] = e /\ p = <<v, j>>
    BY DEF Held
  <2>1. PICK i \in DOMAIN buffer'[v] : buffer'[v][i] = e /\ p = <<v, i>>
    BY <2>0
  <2>2. CASE v = w
    <3>1. i \in 1..(Len(buffer[w]) - n) /\ buffer[w][i + n] = e
      BY <2>1, <2>2, <1>2, <1>3
    <3>2. i + n \in 1..Len(buffer[w]) /\ i + n # 1 /\ i \in Nat
      BY <3>1, <1>1
    <3>3. <<w, i + n>> \in Held(e)
      BY <3>1, <3>2, <1>1, HeldPlaces
    <3>4. move[p] = <<w, i + n>>
      BY <2>1, <2>2
    <3> QED BY <3>2, <3>3, <3>4, <2>1, <2>2
  <2>3. CASE v # w
    <3>1. buffer'[v] = buffer[v] /\ buffer[v] \in Seq(Events)
      BY <2>3, <1>2, HeldTypes
    <3>0. i \in DOMAIN buffer[v] /\ buffer[v][i] = e
      BY <3>1, <2>1
    <3>2. i \in Nat /\ p \in Held(e)
      <4>1. i \in Nat
        BY <3>0, <3>1
      <4>2. p \in Held(e)
        BY <3>0, <2>1, HeldPlaces
      <4> QED BY <4>1, <4>2
    <3>3. move[p] = p /\ p # <<w, 1>>
      BY <2>1, <2>3
    <3> QED BY <3>2, <3>3, <2>1
  <2> QED BY <2>2, <2>3
<1> HIDE DEF rest
<1>5. move \in Injection(after, before)
  <2>1. move \in [after -> before]
    BY <1>4
  <2>2. ASSUME NEW p \in after, NEW q \in after, move[p] = move[q]
        PROVE  p = q
    <3>0. \A r \in after : \E v \in Workers, i \in Nat : r = <<v, i>>
      BY <1>4
    <3>7. PICK u \in Workers, i \in Nat : p = <<u, i>>
      BY <3>0
    <3>8. PICK v \in Workers, j \in Nat : q = <<v, j>>
      BY <3>0
    <3>1. p = <<u, i>> /\ q = <<v, j>>
      BY <3>7, <3>8
    <3>2. move[p] = IF u = w THEN <<w, i + n>> ELSE <<u, i>>
      BY <3>1
    <3>3. move[q] = IF v = w THEN <<w, j + n>> ELSE <<v, j>>
      BY <3>1
    <3>4. u = v
      BY <3>2, <3>3, <2>2
    <3>5. CASE u = w
      <4>1. i + n = j + n
        BY <3>2, <3>3, <3>4, <3>5, <2>2
      <4> QED BY <4>1, <3>1, <3>4, <1>1
    <3>6. CASE u # w
      BY <3>1, <3>2, <3>3, <3>4, <3>6, <2>2
    <3> QED BY <3>5, <3>6
  <2> QED BY <2>1, <2>2 DEF Injection, IsInjective
<1>6. /\ IsFiniteSet(before)
      /\ Cardinality(before) = IF <<w, 1>> \in Held(e) THEN Cardinality(Held(e)) - 1 ELSE Cardinality(Held(e))
  BY FS_RemoveElement
<1> HIDE DEF move, before, after
<1>7. IsFiniteSet(after) /\ Cardinality(after) <= Cardinality(before)
  BY <1>5, <1>6, FS_Injection
<1>8. Cardinality(after) \in Nat /\ Cardinality(before) \in Nat /\ Cardinality(Held(e)) \in Nat
  BY <1>6, <1>7, FS_CardinalityType
<1>9. buffer[w][1] = e => <<w, 1>> \in Held(e)
  BY <1>1, HeldPlaces
<1>10. Cardinality(after) <= Cardinality(Held(e)) /\ (buffer[w][1] = e => Cardinality(after) <= Cardinality(Held(e)) - 1)
  BY <1>6, <1>7, <1>8, <1>9
<1> QED BY <1>7, <1>10 DEF after

LEMMA CopiesTypeNext ==
  ASSUME TypeOK', NEW e, IsFiniteSet(Held(e)')
  PROVE  /\ Cardinality(Received(e)') \in Nat /\ Cardinality(Held(e)') \in Nat
         /\ Copies(e)' \in Nat
<1>1. Received(e)' \subseteq 1..Len(sent') /\ Len(sent') \in Nat
  BY DEF TypeOK, Received
<1>2. IsFiniteSet(Received(e)')
  <2>1. IsFiniteSet(1..Len(sent'))
    BY <1>1, FS_Interval
  <2> QED BY <2>1, <1>1, FS_Subset
<1> QED BY <1>2, FS_CardinalityType DEF Copies

\* Only a fault lets an event be handed over that was not to be, or once more.
LEMMA CountStep ==
  ASSUME IInv, CountInv, TypeOK', NEW e \in Events,
         IsFiniteSet(Held(e)'),
         NEW grown \in {0, 1}, NEW fault \in {0, 1},
         Copies(e)' <= Copies(e) + grown,
         failures' + cuts' = failures + cuts + fault,
         fault = 0 /\ Pending(e)' => Pending(e),
         grown = 1 => Pending(e),
         grown = 1 /\ fault = 0 => ~Pending(e)'
  PROVE  CopyOrTwo(e)' <= 1 + failures' + cuts'
<1> DEFINE now == Copies(e)
           next == Copies(e)'
           before == failures + cuts
           after == failures' + cuts'
<1>1. now \in Nat /\ next \in Nat /\ next <= now + grown
  <2>1. IsFiniteSet(Held(e)) /\ TypeOK
    BY DEF CountInv, IInv
  <2> QED BY <2>1, CopiesType, CopiesTypeNext
<1>2. /\ before \in Nat /\ after \in Nat /\ after = before + fault
      /\ 1 + failures + cuts = 1 + before /\ 1 + failures' + cuts' = 1 + after
  <2>1. failures \in Nat /\ cuts \in Nat /\ failures' \in Nat /\ cuts' \in Nat
    BY DEF IInv, TypeOK
  <2>2. before \in Nat
    BY <2>1
  <2>3. after = before + fault
    OBVIOUS
  <2>6. after \in Nat
    <3> HIDE DEF before
    <3> QED BY <2>2, <2>3
  <2>4. 1 + failures + cuts = 1 + before
    BY <2>1
  <2>5. 1 + failures' + cuts' = 1 + after
    BY <2>1
  <2> QED BY <2>2, <2>3, <2>4, <2>5, <2>6
<1>3. now <= 1 + before /\ (Pending(e) => now + 1 <= 1 + before)
  <2>1. CASE Pending(e)
    BY <2>1, <1>1, <1>2 DEF CountInv, CopyOrTwo
  <2>2. CASE ~Pending(e)
    BY <2>2, <1>2 DEF CountInv, CopyOrTwo
  <2> QED BY <2>1, <2>2
<1> HIDE DEF now, next, before, after
<1>4. ASSUME Pending(e)' PROVE next + 1 <= 1 + after
  <2>1. CASE grown = 0 /\ fault = 1
    BY <2>1, <1>1, <1>2, <1>3
  <2>2. CASE Pending(e) /\ (grown = 0 \/ fault = 1)
    <3>1. now + 1 <= 1 + before
      BY <2>2, <1>3
    <3> QED BY <3>1, <2>2, <1>1, <1>2
  <2> QED BY <2>1, <2>2, <1>4
<1>5. next <= 1 + after
  <2>1. CASE grown = 0
    BY <2>1, <1>1, <1>2, <1>3
  <2>2. CASE grown = 1
    <3>1. now + 1 <= 1 + before
      BY <2>2, <1>3
    <3> QED BY <3>1, <2>2, <1>1, <1>2
  <2> QED BY <2>1, <2>2
<1>6. CASE Pending(e)'
  BY <1>2, <1>4, <1>6 DEF CopyOrTwo, next
<1>7. CASE ~Pending(e)'
  BY <1>2, <1>5, <1>7 DEF CopyOrTwo, next
<1> QED BY <1>6, <1>7

\* Steps that reach neither a client's buffer nor NATS.
LEMMA QuietCount ==
  ASSUME IInv, CountInv, TypeOK', BatchesDistinct',
         UNCHANGED <<buffer, sent, failures, cuts>>,
         \A e \in Events : Pending(e)' => Pending(e)
  PROVE  CountInv'
<1> SUFFICES ASSUME NEW e \in Events
             PROVE  (IsFiniteSet(Held(e)) /\ CopyOrTwo(e) <= 1 + failures + cuts)'
  BY DEF CountInv
<1>1. UNCHANGED <<Held(e), Received(e)>>
  BY DEF Held, Received
<1>2. IsFiniteSet(Held(e)')
  BY <1>1 DEF CountInv
<1>3. Copies(e) \in Nat
  BY CopiesType DEF IInv, CountInv
<1>4. Copies(e)' <= Copies(e) + 0
  BY <1>1, <1>3 DEF Copies
<1>5. failures' + cuts' = failures + cuts + 0
  BY DEF IInv, TypeOK
<1> QED BY <1>2, <1>4, <1>5, CountStep

LEMMA InitCount == Init => CountInv
<1> SUFFICES ASSUME Init PROVE CountInv
  OBVIOUS
<1>1. BatchesDistinct
  BY DEF Init, BatchesDistinct
<1>2. ASSUME NEW e \in Events
      PROVE  IsFiniteSet(Held(e)) /\ CopyOrTwo(e) <= 1 + failures + cuts
  <2>1. Held(e) = {} /\ Received(e) = {}
    BY DEF Init, Held, Received
  <2>2. Copies(e) = 0 /\ IsFiniteSet(Held(e))
    BY <2>1, FS_EmptySet DEF Copies
  <2> QED BY <2>2 DEF Init, CopyOrTwo
<1> QED BY <1>1, <1>2 DEF CountInv

LEMMA DomainCount ==
  ASSUME IInv, CountInv, IInv', NEW f \in Events, AppendEvent(f) \/ CommitEvent(f) \/ AbortEvent(f)
  PROVE  CountInv'
<1>1. UNCHANGED <<step, batch, buffer, sent, failures, cuts>>
  BY DEF AppendEvent, CommitEvent, AbortEvent
<1>2. BatchesDistinct'
  BY <1>1 DEF CountInv, BatchesDistinct
<1>3. ASSUME NEW e \in Events, Pending(e)' PROVE Pending(e)
  <2>1. status'[e] \in {"none", "open", "unpublished"} => status[e] \in {"none", "open", "unpublished"}
    BY DEF AppendEvent, CommitEvent, AbortEvent, IInv, TypeOK
  <2> QED BY <2>1, <1>1, <1>3 DEF Pending, Elems
<1> QED BY <1>1, <1>2, <1>3, QuietCount DEF IInv

LEMMA RetentionCount == IInv /\ CountInv /\ IInv' /\ Retention => CountInv'
<1> SUFFICES ASSUME IInv, CountInv, IInv', Retention PROVE CountInv'
  OBVIOUS
<1>1. UNCHANGED <<step, batch, buffer, sent, failures, cuts>>
  BY DEF Retention
<1>2. BatchesDistinct'
  BY <1>1 DEF CountInv, BatchesDistinct
<1>3. ASSUME NEW e \in Events, Pending(e)' PROVE Pending(e)
  <2>1. status'[e] \in {"none", "open", "unpublished"} => status[e] \in {"none", "open", "unpublished"}
    BY DEF Retention
  <2> QED BY <2>1, <1>1, <1>3 DEF Pending, Elems
<1> QED BY <1>1, <1>2, <1>3, QuietCount DEF IInv

LEMMA BatchDistinct ==
  ASSUME TypeOK, NEW b \in Batches
  PROVE  \A i, j \in DOMAIN b : i # j => b[i] # b[j]
<1>1. IsFiniteSet(Claimable)
  BY ConstantsAssumption, FS_Subset DEF Claimable
<1>2. Cardinality(Claimable) \in Nat
  BY <1>1, FS_CardinalityType
<1>3. PICK size \in Nat : /\ b \in [1..size -> Claimable]
                          /\ \A i, j \in 1..size : i < j => b[i] # b[j]
  BY <1>2, ConstantsAssumption DEF Batches
<1>4. DOMAIN b = 1..size
  BY <1>3
<1>5. \A i, j \in 1..size : i # j => i < j \/ j < i
  OBVIOUS
<1> QED BY <1>3, <1>4, <1>5

LEMMA PollCount ==
  ASSUME IInv, CountInv, IInv', NEW w \in Workers, Poll(w)
  PROVE  CountInv'
<1>1. PICK b \in Batches : batch' = [batch EXCEPT ![w] = b]
  BY DEF Poll
<1>2. \A v \in Workers : batch'[v] = IF v = w THEN b ELSE batch[v]
  BY <1>1 DEF IInv, TypeOK
<1>3. BatchesDistinct'
  <2>1. \A i, j \in DOMAIN b : i # j => b[i] # b[j]
    BY BatchDistinct DEF IInv
  <2> QED BY <2>1, <1>2 DEF CountInv, BatchesDistinct
<1>4. ASSUME NEW e \in Events, Pending(e)' PROVE Pending(e)
  <2>1. \A v \in Workers : step[v] = "handed" => step'[v] = "handed" /\ batch'[v] = batch[v]
    BY <1>2 DEF Poll, IInv, TypeOK
  <2>2. UNCHANGED status
    BY DEF Poll
  <2> QED BY <2>1, <2>2, <1>4 DEF Pending, Elems
<1>5. UNCHANGED <<buffer, sent, failures, cuts>>
  BY DEF Poll
<1> QED BY <1>3, <1>4, <1>5, QuietCount DEF IInv

LEMMA MarkAndCommitCount ==
  ASSUME IInv, CountInv, IInv', NEW w \in Workers, MarkAndCommit(w)
  PROVE  CountInv'
<1>1. \A v \in Workers : /\ batch'[v] = IF v = w THEN <<>> ELSE batch[v]
                         /\ step'[v] = IF v = w THEN "idle" ELSE step[v]
  BY DEF MarkAndCommit, IInv, TypeOK
<1>2. BatchesDistinct'
  BY <1>1 DEF CountInv, BatchesDistinct
<1>3. ASSUME NEW e \in Events, Pending(e)' PROVE Pending(e)
  <2>1. e \notin Elems(batch[w]) /\ status'[e] = status[e]
    BY <1>3 DEF MarkAndCommit, Pending
  <2>2. \A v \in Workers : step[v] = "handed" => e \notin Elems(batch[v])
    <3> SUFFICES ASSUME NEW v \in Workers, step[v] = "handed", v # w
                 PROVE  e \notin Elems(batch[v])
      BY <2>1
    <3>1. step'[v] = "handed" /\ batch'[v] = batch[v]
      BY <1>1
    <3> QED BY <3>1, <1>3 DEF Pending, Elems
  <2> QED BY <2>1, <2>2, <1>3 DEF Pending
<1>4. UNCHANGED <<buffer, sent, failures, cuts>>
  BY DEF MarkAndCommit
<1> QED BY <1>2, <1>3, <1>4, QuietCount DEF IInv

\* What a loop has claimed and not handed over, no other loop has.
LEMMA ClaimedIsPending ==
  ASSUME IInv, NEW w \in Workers, step[w] # "handed", NEW e \in Elems(batch[w])
  PROVE  Pending(e)
BY DEF IInv, BatchesUnpublished, BatchesDisjoint, Pending

LEMMA HandOverCount ==
  ASSUME IInv, CountInv, IInv', NEW w \in Workers, HandOver(w)
  PROVE  CountInv'
<1>1. /\ batch[w] \in Seq(Events) /\ DOMAIN batch[w] = 1..Len(batch[w])
      /\ \A i, j \in 1..Len(batch[w]) : i # j => batch[w][i] # batch[w][j]
  BY HeldTypes DEF IInv, CountInv, BatchesDistinct
<1>2. /\ buffer' = [buffer EXCEPT ![w] = buffer[w] \o batch[w]]
      /\ UNCHANGED <<status, batch, sent, failures, cuts>>
      /\ step[w] # "handed"
      /\ \A v \in Workers : step'[v] = IF v = w THEN "handed" ELSE step[v]
  BY DEF HandOver, IInv, TypeOK
<1>3. BatchesDistinct'
  BY <1>2 DEF CountInv, BatchesDistinct
<1>4. ASSUME NEW e \in Events
      PROVE  (IsFiniteSet(Held(e)) /\ CopyOrTwo(e) <= 1 + failures + cuts)'
  <2>1. IsFiniteSet(Held(e))
    BY DEF CountInv
  <2>2. /\ IsFiniteSet(Held(e))'
        /\ Cardinality(Held(e))' <= Cardinality(Held(e)) + 1
        /\ e \notin Elems(batch[w]) => Cardinality(Held(e))' <= Cardinality(Held(e))
    BY <1>1, <1>2, <2>1, HeldGrows DEF IInv
  <2>3. UNCHANGED Received(e)
    BY <1>2 DEF Received
  <2>4. /\ Cardinality(Received(e)) \in Nat /\ Cardinality(Held(e)) \in Nat
        /\ Cardinality(Held(e)') \in Nat
    BY <2>1, <2>2, CopiesType, CopiesTypeNext DEF IInv
  <2>5. failures' + cuts' = failures + cuts + 0
    BY <1>2 DEF IInv, TypeOK
  <2>6. Pending(e)' => Pending(e)
    BY <1>2 DEF Pending, Elems
  <2>7. CASE e \in Elems(batch[w])
    <3>1. Copies(e)' <= Copies(e) + 1
      BY <2>2, <2>3, <2>4 DEF Copies
    <3>2. Pending(e) /\ ~Pending(e)'
      <4>1. Pending(e)
        BY <2>7, <1>2, ClaimedIsPending
      <4>2. step'[w] = "handed" /\ e \in Elems(batch[w])'
        BY <1>2, <2>7 DEF Elems
      <4> QED BY <4>1, <4>2 DEF Pending
    <3> QED BY <2>2, <2>5, <3>1, <3>2, CountStep DEF IInv
  <2>8. CASE e \notin Elems(batch[w])
    <3>1. Copies(e)' <= Copies(e) + 0
      BY <2>2, <2>3, <2>4, <2>8 DEF Copies
    <3> QED BY <2>2, <2>5, <2>6, <3>1, CountStep DEF IInv
  <2> QED BY <2>7, <2>8
<1> QED BY <1>3, <1>4 DEF CountInv

LEMMA FailCount ==
  ASSUME IInv, CountInv, IInv', NEW w \in Workers, Fail(w)
  PROVE  CountInv'
<1>1. PICK n \in 0..Len(batch[w]) :
         /\ step[w] = "handed" => n = 0
         /\ buffer' = [buffer EXCEPT ![w] = @ \o SubSeq(batch[w], 1, n)]
  BY DEF Fail
<1> DEFINE s == SubSeq(batch[w], 1, n)
<1>2. /\ batch[w] \in Seq(Events) /\ DOMAIN batch[w] = 1..Len(batch[w]) /\ Len(batch[w]) \in Nat
      /\ \A i, j \in 1..Len(batch[w]) : i # j => batch[w][i] # batch[w][j]
  BY HeldTypes DEF IInv, CountInv, BatchesDistinct
<1>3. /\ s \in Seq(Events) /\ Len(s) = n /\ DOMAIN s = 1..n
      /\ \A i \in 1..n : s[i] = batch[w][i]
  BY <1>2
<1>4. \A i, j \in 1..Len(s) : i # j => s[i] # s[j]
  BY <1>2, <1>3
<1>5. Elems(s) \subseteq Elems(batch[w]) /\ (n = 0 => Elems(s) = {})
  BY <1>2, <1>3 DEF Elems
<1>6. buffer' = [buffer EXCEPT ![w] = buffer[w] \o s]
  BY <1>1
<1> HIDE DEF s
<1>7. BatchesDistinct'
  <2>1. \A v \in Workers : batch'[v] = IF v = w THEN <<>> ELSE batch[v]
    BY DEF Fail, IInv, TypeOK
  <2> QED BY <2>1 DEF CountInv, BatchesDistinct
<1>8. failures' + cuts' = failures + cuts + 1 /\ sent' = sent
  BY DEF Fail, IInv, TypeOK
<1>9. ASSUME NEW e \in Events
      PROVE  (IsFiniteSet(Held(e)) /\ CopyOrTwo(e) <= 1 + failures + cuts)'
  <2>1. IsFiniteSet(Held(e))
    BY DEF CountInv
  <2>2. /\ IsFiniteSet(Held(e))'
        /\ Cardinality(Held(e))' <= Cardinality(Held(e)) + 1
        /\ e \notin Elems(s) => Cardinality(Held(e))' <= Cardinality(Held(e))
    BY <1>3, <1>4, <1>6, <2>1, HeldGrows DEF IInv
  <2>3. UNCHANGED Received(e)
    BY <1>8 DEF Received
  <2>4. /\ Cardinality(Received(e)) \in Nat /\ Cardinality(Held(e)) \in Nat
        /\ Cardinality(Held(e)') \in Nat
    BY <2>1, <2>2, CopiesType, CopiesTypeNext DEF IInv
  <2>5. CASE e \in Elems(s)
    <3>1. Copies(e)' <= Copies(e) + 1
      BY <2>2, <2>3, <2>4 DEF Copies
    <3>2. Pending(e)
      <4>1. step[w] # "handed" /\ e \in Elems(batch[w])
        BY <2>5, <1>1, <1>5
      <4> QED BY <4>1, ClaimedIsPending
    <3> QED BY <2>2, <1>8, <3>1, <3>2, CountStep DEF IInv
  <2>6. CASE e \notin Elems(s)
    <3>1. Copies(e)' <= Copies(e) + 0
      BY <2>2, <2>3, <2>4, <2>6 DEF Copies
    <3> QED BY <2>2, <1>8, <3>1, CountStep DEF IInv
  <2> QED BY <2>5, <2>6
<1> QED BY <1>7, <1>9 DEF CountInv

\* A process or connection that dies takes copies with it.
LEMMA CutCount ==
  ASSUME IInv, CountInv, TypeOK', BatchesDistinct',
         failures' + cuts' = failures + cuts + 1, sent' = sent,
         \A e \in Events : IsFiniteSet(Held(e)') /\ Cardinality(Held(e)') <= Cardinality(Held(e))
  PROVE  CountInv'
<1> SUFFICES ASSUME NEW e \in Events
             PROVE  (IsFiniteSet(Held(e)) /\ CopyOrTwo(e) <= 1 + failures + cuts)'
  BY DEF CountInv
<1>1. UNCHANGED Received(e)
  BY DEF Received
<1>2. /\ Cardinality(Received(e)) \in Nat /\ Cardinality(Held(e)) \in Nat
      /\ Cardinality(Held(e)') \in Nat
  BY CopiesType, CopiesTypeNext DEF IInv, CountInv
<1>3. Copies(e)' <= Copies(e) + 0
  BY <1>1, <1>2 DEF Copies
<1> QED BY <1>3, CountStep

LEMMA CrashCount ==
  ASSUME IInv, CountInv, IInv', NEW w \in Workers, Crash(w)
  PROVE  CountInv'
<1>1. \A v \in Workers : /\ batch'[v] = IF v = w THEN <<>> ELSE batch[v]
                         /\ buffer'[v] = IF v = w THEN <<>> ELSE buffer[v]
  BY DEF IInv, TypeOK, Crash
<1>2. BatchesDistinct'
  BY <1>1 DEF CountInv, BatchesDistinct
<1>3. ASSUME NEW e \in Events
      PROVE  IsFiniteSet(Held(e)') /\ Cardinality(Held(e)') <= Cardinality(Held(e))
  <2>1. Held(e)' \subseteq Held(e)
    BY <1>1 DEF Held
  <2> QED BY <2>1, FS_Subset DEF CountInv
<1>4. failures' + cuts' = failures + cuts + 1 /\ sent' = sent
  BY DEF Crash, IInv, TypeOK
<1> QED BY <1>2, <1>3, <1>4, CutCount DEF IInv

LEMMA DisconnectCount ==
  ASSUME IInv, CountInv, IInv', NEW w \in Workers, Disconnect(w)
  PROVE  CountInv'
<1>1. PICK n \in 1..Len(buffer[w]) :
         buffer' = [buffer EXCEPT ![w] = SubSeq(buffer[w], n + 1, Len(buffer[w]))]
  BY DEF Disconnect
<1>2. \A e \in Events : IsFiniteSet(Held(e)') /\ Cardinality(Held(e)') <= Cardinality(Held(e))
  BY <1>1, HeldShrinks DEF IInv, CountInv
<1>3. BatchesDistinct'
  BY DEF Disconnect, CountInv, BatchesDistinct
<1>4. failures' + cuts' = failures + cuts + 1 /\ sent' = sent
  BY DEF Disconnect, IInv, TypeOK
<1> QED BY <1>2, <1>3, <1>4, CutCount DEF IInv

\* A copy that is written out is no longer held.
LEMMA FlushCount ==
  ASSUME IInv, CountInv, IInv', NEW w \in Workers, Flush(w)
  PROVE  CountInv'
<1>1. buffer[w] \in Seq(Events) /\ buffer[w] # <<>> /\ sent \in Seq(Events)
  BY HeldTypes DEF Flush, IInv, TypeOK
<1>2. /\ 1 \in 1..Len(buffer[w]) /\ Head(buffer[w]) = buffer[w][1]
      /\ Tail(buffer[w]) = SubSeq(buffer[w], 1 + 1, Len(buffer[w]))
  BY <1>1
<1>3. /\ buffer' = [buffer EXCEPT ![w] = SubSeq(buffer[w], 1 + 1, Len(buffer[w]))]
      /\ sent' = Append(sent, buffer[w][1])
      /\ UNCHANGED <<status, step, batch, failures, cuts>>
  BY <1>2 DEF Flush
<1>4. BatchesDistinct'
  BY <1>3 DEF CountInv, BatchesDistinct
<1>5. ASSUME NEW e \in Events
      PROVE  (IsFiniteSet(Held(e)) /\ CopyOrTwo(e) <= 1 + failures + cuts)'
  <2>1. IsFiniteSet(Held(e))
    BY DEF CountInv
  <2>2. /\ IsFiniteSet(Held(e))'
        /\ Cardinality(Held(e))' <= Cardinality(Held(e))
        /\ buffer[w][1] = e => Cardinality(Held(e))' <= Cardinality(Held(e)) - 1
    BY <1>2, <1>3, <2>1, HeldShrinks DEF IInv
  <2>3. /\ Cardinality(Received(e)) \in Nat /\ Cardinality(Held(e)) \in Nat
        /\ Cardinality(Held(e)') \in Nat
    BY <2>1, <2>2, CopiesType, CopiesTypeNext DEF IInv
  <2>4. Received(e)' = IF buffer[w][1] = e THEN Received(e) \cup {Len(sent) + 1} ELSE Received(e)
    <3>1. /\ buffer[w][1] \in Events
          /\ DOMAIN sent = 1..Len(sent) /\ DOMAIN sent' = 1..(Len(sent) + 1) /\ Len(sent) \in Nat
          /\ sent'[Len(sent) + 1] = buffer[w][1]
          /\ \A i \in 1..Len(sent) : sent'[i] = sent[i]
      BY <1>1, <1>2, <1>3
    <3> QED BY <3>1 DEF Received
  <2>5. Cardinality(Received(e)') <= IF buffer[w][1] = e THEN Cardinality(Received(e)) + 1
                                                         ELSE Cardinality(Received(e))
    <3>1. IsFiniteSet(Received(e))
      BY ReceivedFinite DEF IInv
    <3>2. Cardinality(Received(e) \cup {Len(sent) + 1}) <= Cardinality(Received(e)) + 1
      <4>1. Cardinality(Received(e) \cup {Len(sent) + 1}) =
               IF Len(sent) + 1 \in Received(e) THEN Cardinality(Received(e))
                                                ELSE Cardinality(Received(e)) + 1
        BY <3>1, FS_AddElement
      <4> QED BY <4>1, <2>3
    <3> QED BY <3>2, <2>3, <2>4
  <2>6. Cardinality(Received(e)') \in Nat
    BY <2>2, CopiesTypeNext DEF IInv
  <2>7. Copies(e)' <= Copies(e) + 0
    BY <2>2, <2>3, <2>5, <2>6 DEF Copies
  <2>8. failures' + cuts' = failures + cuts + 0
    BY <1>3 DEF IInv, TypeOK
  <2>9. Pending(e)' => Pending(e)
    BY <1>3 DEF Pending, Elems
  <2> QED BY <2>2, <2>7, <2>8, <2>9, CountStep DEF IInv
<1> QED BY <1>4, <1>5 DEF CountInv

LEMMA NextCount == IInv /\ CountInv /\ IInv' /\ [Next]_vars => CountInv'
<1> SUFFICES ASSUME IInv, CountInv, IInv', [Next]_vars PROVE CountInv'
  OBVIOUS
<1>1. CASE \E e \in Events : AppendEvent(e) \/ CommitEvent(e) \/ AbortEvent(e)
  BY <1>1, DomainCount
<1>2. CASE \E w \in Workers : Poll(w) \/ HandOver(w) \/ MarkAndCommit(w) \/ Flush(w)
  BY <1>2, PollCount, HandOverCount, MarkAndCommitCount, FlushCount
<1>3. CASE \E w \in Workers : Fail(w) \/ Crash(w) \/ Disconnect(w)
  BY <1>3, FailCount, CrashCount, DisconnectCount
<1>4. CASE Retention
  BY <1>4, RetentionCount
<1>5. CASE UNCHANGED vars
  <2>1. UNCHANGED <<status, step, batch, buffer, sent, failures, cuts>>
    BY <1>5 DEF vars
  <2>2. BatchesDistinct'
    BY <2>1 DEF CountInv, BatchesDistinct
  <2>3. \A e \in Events : Pending(e)' => Pending(e)
    BY <2>1 DEF Pending, Elems
  <2> QED BY <2>1, <2>2, <2>3, QuietCount DEF IInv
<1> QED BY <1>1, <1>2, <1>3, <1>4, <1>5 DEF Next

\* NATS receives an event at most once, and once more for each rollback, crash
\* and lost connection: SKIP LOCKED keeps two loops off one row, however many
\* poll and whatever the size of their batches.
THEOREM CopiesAreBounded == Spec => []CopiesBounded
<1>1. IInv /\ CountInv => CopiesBounded
  <2> SUFFICES ASSUME IInv, CountInv, NEW e \in Events
               PROVE  Copies(e) <= 1 + failures + cuts
    BY DEF CopiesBounded
  <2>1. Copies(e) \in Nat /\ failures \in Nat /\ cuts \in Nat
    BY CopiesType DEF IInv, TypeOK, CountInv
  <2>2. CopyOrTwo(e) <= 1 + failures + cuts
    BY DEF CountInv
  <2>3. CASE Pending(e)
    BY <2>1, <2>2, <2>3 DEF CopyOrTwo
  <2>4. CASE ~Pending(e)
    BY <2>2, <2>4 DEF CopyOrTwo
  <2> QED BY <2>3, <2>4
<1> QED BY <1>1, InitCount, NextCount, Invariance, PTL DEF Spec

-----------------------------------------------------------------------------
\* The order of events when one worker publishes and nothing fails: what NATS
\* has received, what the client holds and what the loop has claimed are one
\* line, and behind it come the rows nobody has claimed.

InOrder(e, f) == f \notin late => createdAt[e] <= createdAt[f]
Line(s) == \A i, j \in DOMAIN s : i < j => InOrder(s[i], s[j])
Before(S, T) == \A e \in S, f \in T : InOrder(e, f)

Serial == failures = 0 /\ cuts = 0 /\ \A v, w \in polled : v = w

IdleHoldsNothing ==
    /\ IsFiniteSet(polled)
    /\ \A w \in Workers : step[w] = "idle" => batch[w] = <<>>
    /\ \A w \in Workers \ polled : step[w] = "idle" /\ buffer[w] = <<>>

LinesInOrder ==
    /\ Line(sent)
    /\ \A w \in Workers :
          /\ Line(buffer[w]) /\ Line(batch[w])
          /\ Before(Elems(sent), Elems(buffer[w]))
          /\ step[w] = "claimed" => Before(Elems(sent) \cup Elems(buffer[w]), Elems(batch[w]))

ReachedClaimed == \A e \in Reached : Claimed(e)

RestIsBehind == \A e \in Claimable, f \in Events : Claimed(f) => InOrder(f, e)

OrderInv == IdleHoldsNothing /\ (Serial => LinesInOrder /\ ReachedClaimed /\ RestIsBehind)

LEMMA LineConcat ==
  ASSUME NEW s \in Seq(Events), NEW t \in Seq(Events), Line(s), Line(t), Before(Elems(s), Elems(t))
  PROVE  Line(s \o t)
<1>1. /\ DOMAIN s = 1..Len(s) /\ DOMAIN t = 1..Len(t) /\ Len(s) \in Nat /\ Len(t) \in Nat
      /\ DOMAIN (s \o t) = 1..(Len(s) + Len(t))
      /\ \A i \in 1..(Len(s) + Len(t)) : (s \o t)[i] = IF i <= Len(s) THEN s[i] ELSE t[i - Len(s)]
  OBVIOUS
<1> SUFFICES ASSUME NEW i \in 1..(Len(s) + Len(t)), NEW j \in 1..(Len(s) + Len(t)), i < j
             PROVE  InOrder((s \o t)[i], (s \o t)[j])
  BY <1>1 DEF Line
<1>2. CASE j <= Len(s)
  <2>1. i \in DOMAIN s /\ j \in DOMAIN s
    BY <1>1, <1>2
  <2>2. InOrder(s[i], s[j])
    BY <2>1 DEF Line
  <2>3. (s \o t)[i] = s[i] /\ (s \o t)[j] = s[j]
    BY <1>1, <1>2
  <2> QED BY <2>2, <2>3
<1>3. CASE i <= Len(s) /\ ~(j <= Len(s))
  <2>1. i \in DOMAIN s /\ j - Len(s) \in DOMAIN t
    BY <1>1, <1>3
  <2>2. InOrder(s[i], t[j - Len(s)])
    BY <2>1 DEF Before, Elems
  <2>3. (s \o t)[i] = s[i] /\ (s \o t)[j] = t[j - Len(s)]
    BY <1>1, <1>3
  <2> QED BY <2>2, <2>3
<1>4. CASE ~(i <= Len(s))
  <2>1. i - Len(s) \in DOMAIN t /\ j - Len(s) \in DOMAIN t /\ i - Len(s) < j - Len(s)
    BY <1>1, <1>4
  <2>2. InOrder(t[i - Len(s)], t[j - Len(s)])
    BY <2>1 DEF Line
  <2>3. (s \o t)[i] = t[i - Len(s)] /\ (s \o t)[j] = t[j - Len(s)]
    BY <1>1, <1>4
  <2> QED BY <2>2, <2>3
<1> QED BY <1>1, <1>2, <1>3, <1>4

LEMMA LineAppend ==
  ASSUME NEW s \in Seq(Events), NEW e \in Events, Line(s), Before(Elems(s), {e})
  PROVE  Line(Append(s, e))
<1>1. /\ DOMAIN s = 1..Len(s) /\ Len(s) \in Nat
      /\ DOMAIN Append(s, e) = 1..(Len(s) + 1)
      /\ \A i \in 1..Len(s) : Append(s, e)[i] = s[i]
      /\ Append(s, e)[Len(s) + 1] = e
  OBVIOUS
<1> SUFFICES ASSUME NEW i \in 1..(Len(s) + 1), NEW j \in 1..(Len(s) + 1), i < j
             PROVE  InOrder(Append(s, e)[i], Append(s, e)[j])
  BY <1>1 DEF Line
<1>2. i \in DOMAIN s /\ Append(s, e)[i] = s[i]
  BY <1>1
<1>3. CASE j = Len(s) + 1
  BY <1>1, <1>2, <1>3 DEF Before, Elems
<1>4. CASE j # Len(s) + 1
  <2>1. j \in DOMAIN s /\ Append(s, e)[j] = s[j]
    BY <1>1, <1>4
  <2>2. InOrder(s[i], s[j])
    BY <1>2, <2>1 DEF Line
  <2> QED BY <1>2, <2>1, <2>2
<1> QED BY <1>3, <1>4

LEMMA LineTail ==
  ASSUME NEW s \in Seq(Events), s # <<>>, Line(s)
  PROVE  Line(Tail(s)) /\ Before({Head(s)}, Elems(Tail(s)))
<1>1. /\ DOMAIN s = 1..Len(s) /\ Len(s) \in Nat \ {0} /\ Head(s) = s[1]
      /\ DOMAIN Tail(s) = 1..(Len(s) - 1)
      /\ \A i \in 1..(Len(s) - 1) : Tail(s)[i] = s[i + 1]
  OBVIOUS
<1>2. ASSUME NEW i \in 1..(Len(s) - 1), NEW j \in 1..(Len(s) - 1), i < j
      PROVE  InOrder(Tail(s)[i], Tail(s)[j])
  <2>1. i + 1 \in DOMAIN s /\ j + 1 \in DOMAIN s /\ i + 1 < j + 1
    BY <1>1, <1>2
  <2>2. InOrder(s[i + 1], s[j + 1])
    BY <2>1 DEF Line
  <2> QED BY <1>1, <2>2
<1>3. ASSUME NEW i \in 1..(Len(s) - 1)
      PROVE  InOrder(Head(s), Tail(s)[i])
  <2>1. 1 \in DOMAIN s /\ i + 1 \in DOMAIN s /\ 1 < i + 1
    BY <1>1
  <2>2. InOrder(s[1], s[i + 1])
    BY <2>1 DEF Line
  <2> QED BY <1>1, <2>2
<1> QED BY <1>1, <1>2, <1>3 DEF Line, Before, Elems

LEMMA InitOrder == Init => OrderInv
<1> SUFFICES ASSUME Init PROVE OrderInv
  OBVIOUS
<1>1. Elems(sent) = {} /\ \A w \in Workers : Elems(buffer[w]) = {} /\ Elems(batch[w]) = {}
  BY ElemsEmpty DEF Init
<1>2. Reached = {}
  BY <1>1 DEF Reached, InBuffers
<1>3. Claimable = {}
  BY DEF Init, Claimable
<1>4. IdleHoldsNothing
  BY FS_EmptySet DEF Init, IdleHoldsNothing
<1>5. LinesInOrder
  BY <1>1 DEF LinesInOrder, Line, Before, Init
<1> QED BY <1>2, <1>3, <1>4, <1>5 DEF OrderInv, ReachedClaimed, RestIsBehind

\* Steps of the domain's transactions and the sweep: neither the lines move nor
\* does what is claimed.
LEMMA RowsOrder ==
  ASSUME IInv, OrderInv,
         UNCHANGED <<step, batch, buffer, sent, failures, cuts, polled>>,
         late \subseteq late',
         \A e \in Events : status[e] # "none" => createdAt'[e] = createdAt[e],
         \A e \in Events : Claimed(e)' <=> Claimed(e),
         \A e \in Claimable', f \in Events :
             \/ e \in Claimable
             \/ status[e] # "none" /\ (Claimed(f) => createdAt[f] <= createdAt[e] \/ e \in late')
  PROVE  OrderInv'
<1>1. IdleHoldsNothing'
  BY DEF OrderInv, IdleHoldsNothing
<1> SUFFICES ASSUME Serial' PROVE (LinesInOrder /\ ReachedClaimed /\ RestIsBehind)'
  BY <1>1 DEF OrderInv
<1>2. LinesInOrder /\ ReachedClaimed /\ RestIsBehind
  BY DEF OrderInv, Serial
<1> DEFINE Rows == {e \in Events : status[e] # "none"}
<1>3. \A e, f \in Rows : InOrder(e, f) => InOrder(e, f)'
  BY DEF InOrder
<1>4. Elems(sent) \subseteq Rows /\ \A w \in Workers : Elems(buffer[w]) \subseteq Rows
  BY DEF IInv, ReachedCommitted, Reached, InBuffers, Committed
<1>5. \A w \in Workers : Elems(batch[w]) \subseteq Rows
  BY HeldTypes DEF IInv, BatchesUnpublished
<1>6. Claimable \subseteq Rows /\ Claimable' \subseteq Events
  BY DEF Claimable
<1>7. \A e \in Events : Claimed(e) => e \in Rows
  BY <1>5 DEF Claimed, Locked
<1> HIDE DEF Rows
<1>8. LinesInOrder'
  <2>1. Line(sent)'
    BY <1>2, <1>3, <1>4 DEF LinesInOrder, Line, Elems
  <2>2. ASSUME NEW w \in Workers
        PROVE  (/\ Line(buffer[w]) /\ Line(batch[w])
                /\ Before(Elems(sent), Elems(buffer[w]))
                /\ step[w] = "claimed" => Before(Elems(sent) \cup Elems(buffer[w]), Elems(batch[w])))'
    <3>1. Line(buffer[w])'
      <4> SUFFICES ASSUME NEW i \in DOMAIN buffer[w], NEW j \in DOMAIN buffer[w], i < j
                   PROVE  InOrder(buffer[w][i], buffer[w][j])'
        BY DEF Line
      <4>1. InOrder(buffer[w][i], buffer[w][j])
        BY <1>2 DEF LinesInOrder, Line
      <4>2. buffer[w][i] \in Elems(buffer[w]) /\ buffer[w][j] \in Elems(buffer[w])
        BY DEF Elems
      <4>3. buffer[w][i] \in Rows /\ buffer[w][j] \in Rows
        BY <4>2, <1>4
      <4> QED BY <4>1, <4>3, <1>3 DEF InOrder
    <3>2. Line(batch[w])'
      <4> SUFFICES ASSUME NEW i \in DOMAIN batch[w], NEW j \in DOMAIN batch[w], i < j
                   PROVE  InOrder(batch[w][i], batch[w][j])'
        BY DEF Line
      <4>1. InOrder(batch[w][i], batch[w][j])
        BY <1>2 DEF LinesInOrder, Line
      <4>2. batch[w][i] \in Elems(batch[w]) /\ batch[w][j] \in Elems(batch[w])
        BY DEF Elems
      <4>3. batch[w][i] \in Rows /\ batch[w][j] \in Rows
        BY <4>2, <1>5
      <4> QED BY <4>1, <4>3, <1>3 DEF InOrder
    <3>3. UNCHANGED <<Elems(sent), Elems(buffer[w]), Elems(batch[w])>>
      BY DEF Elems
    <3>4. Before(Elems(sent), Elems(buffer[w]))'
      BY <1>2, <1>3, <1>4, <3>3 DEF LinesInOrder, Before
    <3>5. step[w] = "claimed" => Before(Elems(sent) \cup Elems(buffer[w]), Elems(batch[w]))'
      BY <1>2, <1>3, <1>4, <1>5, <3>3 DEF LinesInOrder, Before
    <3> QED BY <3>1, <3>2, <3>4, <3>5
  <2> QED BY <2>1, <2>2 DEF LinesInOrder
<1>9. ReachedClaimed'
  <2>1. UNCHANGED Reached /\ Reached \subseteq Events
    BY DEF Reached, InBuffers, Elems, IInv, ReachedCommitted, Committed
  <2> QED BY <2>1, <1>2 DEF ReachedClaimed
<1>10. RestIsBehind'
  <2> SUFFICES ASSUME NEW e \in Claimable', NEW f \in Events, Claimed(f)'
               PROVE  InOrder(f, e)'
    BY DEF RestIsBehind
  <2>1. Claimed(f) /\ f \in Rows
    BY <1>7
  <2>2. CASE e \in Claimable
    BY <2>1, <2>2, <1>2, <1>3, <1>6 DEF RestIsBehind
  <2>3. CASE e \notin Claimable
    <3>1. e \in Rows /\ (createdAt[f] <= createdAt[e] \/ e \in late')
      BY <2>1, <2>3, <1>6 DEF Rows
    <3>2. createdAt'[e] = createdAt[e] /\ createdAt'[f] = createdAt[f]
      BY <2>1, <3>1 DEF Rows
    <3> QED BY <3>1, <3>2 DEF InOrder
  <2> QED BY <2>2, <2>3
<1> QED BY <1>8, <1>9, <1>10

LEMMA DomainOrder ==
  ASSUME IInv, OrderInv, NEW d \in Events, AppendEvent(d) \/ CommitEvent(d) \/ AbortEvent(d)
  PROVE  OrderInv'
<1>1. UNCHANGED <<step, batch, buffer, sent, failures, cuts, polled>>
  BY DEF AppendEvent, CommitEvent, AbortEvent
<1>2. \A e \in Events : Locked(e)' <=> Locked(e)
  BY <1>1 DEF Locked, Elems
<1>3. \A e \in Events : e # d => status'[e] = status[e] /\ createdAt'[e] = createdAt[e]
  BY DEF AppendEvent, CommitEvent, AbortEvent, IInv, TypeOK
<1>4. /\ status[d] \in {"none", "open"}
      /\ status'[d] \in {"open", "unpublished", "aborted"}
      /\ status'[d] = "unpublished" => CommitEvent(d)
  BY DEF AppendEvent, CommitEvent, AbortEvent, IInv, TypeOK
<1>5. \A e \in Events : Claimed(e)' <=> Claimed(e)
  BY <1>2, <1>3, <1>4 DEF Claimed
<1>6. \A e \in Events : status[e] # "none" => createdAt'[e] = createdAt[e]
  BY <1>3 DEF AppendEvent, CommitEvent, AbortEvent
<1>7. late \subseteq late'
  BY DEF AppendEvent, CommitEvent, AbortEvent
<1>8. ASSUME NEW e \in Claimable', NEW f \in Events, e \notin Claimable
      PROVE  status[e] # "none" /\ (Claimed(f) => createdAt[f] <= createdAt[e] \/ e \in late')
  <2>1. e \in Events /\ status'[e] = "unpublished" /\ ~Locked(e)'
    BY DEF Claimable
  <2>2. e = d /\ CommitEvent(d)
    BY <1>2, <1>3, <1>4, <1>8, <2>1 DEF Claimable
  <2>3. status[e] # "none"
    BY <2>2 DEF CommitEvent
  <2>4. ASSUME Claimed(f), ~(createdAt[f] <= createdAt[e])
        PROVE  e \in late'
    <3>1. createdAt[f] > createdAt[e]
      BY <2>1, <2>4 DEF IInv, TypeOK
    <3> QED BY <3>1, <2>2, <2>4 DEF CommitEvent
  <2> QED BY <2>3, <2>4
<1> QED BY <1>1, <1>5, <1>6, <1>7, <1>8, RowsOrder

LEMMA RetentionOrder == IInv /\ OrderInv /\ Retention => OrderInv'
<1> SUFFICES ASSUME IInv, OrderInv, Retention PROVE OrderInv'
  OBVIOUS
<1>1. UNCHANGED <<step, batch, buffer, sent, failures, cuts, polled, createdAt, late>>
  BY DEF Retention
<1>2. \A e \in Events : Locked(e)' <=> Locked(e)
  BY <1>1 DEF Locked, Elems
<1>3. \A e \in Events : \/ status'[e] = status[e]
                        \/ status[e] = "published" /\ status'[e] = "purged"
  BY DEF Retention
<1>4. \A e \in Events : Claimed(e)' <=> Claimed(e)
  BY <1>2, <1>3 DEF Claimed
<1>5. Claimable' \subseteq Claimable
  BY <1>2, <1>3 DEF Claimable
<1> QED BY <1>1, <1>4, <1>5, RowsOrder

LEMMA IdleOrder == IInv /\ OrderInv /\ UNCHANGED vars => OrderInv'
<1> SUFFICES ASSUME IInv, OrderInv, UNCHANGED vars PROVE OrderInv'
  OBVIOUS
<1>1. UNCHANGED <<status, step, batch, buffer, sent, failures, cuts, polled, createdAt, late>>
  BY DEF vars
<1>2. \A e \in Events : Locked(e)' <=> Locked(e)
  BY <1>1 DEF Locked, Elems
<1>3. \A e \in Events : Claimed(e)' <=> Claimed(e)
  BY <1>1, <1>2 DEF Claimed
<1>4. Claimable' \subseteq Claimable
  BY <1>1, <1>2 DEF Claimable
<1> QED BY <1>1, <1>3, <1>4, RowsOrder

\* The earliest rows come before those that are left.
LEMMA BatchIsAhead ==
  ASSUME TypeOK, Claimable # {}, NEW b \in Batches
  PROVE  /\ Line(b)
         /\ \A e \in Claimable \ Elems(b), f \in Elems(b) : createdAt[f] <= createdAt[e]
<1> DEFINE size == IF Cardinality(Claimable) < BatchSize THEN Cardinality(Claimable)
                                                          ELSE BatchSize
<1>1. IsFiniteSet(Claimable)
  BY ConstantsAssumption, FS_Subset DEF Claimable
<1>2. Cardinality(Claimable) \in Nat \ {0}
  BY <1>1, FS_CardinalityType, FS_EmptySet
<1>3. size \in Nat \ {0}
  BY <1>2, ConstantsAssumption
<1>4. /\ b \in [1..size -> Claimable]
      /\ \A i, j \in 1..size : i < j => b[i] # b[j] /\ createdAt[b[i]] <= createdAt[b[j]]
      /\ \A e \in Claimable \ Elems(b) : createdAt[b[size]] <= createdAt[e]
  BY DEF Batches
<1> HIDE DEF size
<1>5. Line(b)
  BY <1>4 DEF Line, InOrder
<1>6. ASSUME NEW e \in Claimable \ Elems(b), NEW f \in Elems(b)
      PROVE  createdAt[f] <= createdAt[e]
  <2>1. PICK i \in 1..size : f = b[i]
    BY <1>4 DEF Elems
  <2>2. size \in 1..size /\ (i < size \/ i = size)
    BY <1>3
  <2>3. b[i] \in Events /\ b[size] \in Events /\ e \in Events
    BY <1>4, <2>2 DEF Claimable
  <2>4. createdAt[b[i]] \in Nat /\ createdAt[b[size]] \in Nat /\ createdAt[e] \in Nat
    BY <2>3 DEF TypeOK
  <2>5. createdAt[b[i]] <= createdAt[b[size]]
    BY <1>4, <2>2, <2>4
  <2>6. createdAt[b[size]] <= createdAt[e]
    BY <1>4
  <2> QED BY <2>1, <2>4, <2>5, <2>6
<1> QED BY <1>5, <1>6

LEMMA PollOrder ==
  ASSUME IInv, OrderInv, NEW w \in Workers, Poll(w)
  PROVE  OrderInv'
<1>1. PICK b \in Batches : batch' = [batch EXCEPT ![w] = b]
  BY DEF Poll
<1>2. b \in Seq(Events) /\ Elems(b) \subseteq Claimable
  BY BatchesType DEF IInv
<1>3. /\ step[w] = "idle" /\ Claimable # {} /\ polled' = polled \cup {w}
      /\ UNCHANGED <<status, createdAt, buffer, sent, failures, cuts, late>>
      /\ \A v \in Workers : /\ batch'[v] = IF v = w THEN b ELSE batch[v]
                            /\ step'[v] = IF v = w THEN "claimed" ELSE step[v]
  BY <1>1 DEF Poll, IInv, TypeOK
<1>4. batch[w] = <<>> /\ Elems(batch[w]) = {}
  BY <1>3, ElemsEmpty DEF OrderInv, IdleHoldsNothing
<1>5. IdleHoldsNothing'
  <2>1. IsFiniteSet(polled')
    BY <1>3, FS_AddElement DEF OrderInv, IdleHoldsNothing
  <2> QED BY <2>1, <1>3 DEF OrderInv, IdleHoldsNothing
<1> SUFFICES ASSUME Serial' PROVE (LinesInOrder /\ ReachedClaimed /\ RestIsBehind)'
  BY <1>5 DEF OrderInv
<1>6. LinesInOrder /\ ReachedClaimed /\ RestIsBehind
  BY <1>3 DEF OrderInv, Serial
<1>7. \A e, f : InOrder(e, f)' <=> InOrder(e, f)
  BY <1>3 DEF InOrder
<1>8. \A e : Locked(e)' <=> Locked(e) \/ e \in Elems(b)
  <2>1. \A v \in Workers : Elems(batch[v])' = IF v = w THEN Elems(b) ELSE Elems(batch[v])
    BY <1>3 DEF Elems
  <2> QED BY <2>1, <1>4 DEF Locked
<1>9. \A e : Claimed(e)' <=> Claimed(e) \/ e \in Elems(b)
  BY <1>3, <1>8 DEF Claimed
<1>10. UNCHANGED Reached /\ Reached \subseteq Events
  BY <1>3 DEF Reached, InBuffers, Elems, IInv, ReachedCommitted, Committed
<1>11. /\ Line(b)
       /\ \A e \in Claimable \ Elems(b), f \in Elems(b) : createdAt[f] <= createdAt[e]
  BY <1>3, BatchIsAhead DEF IInv
<1>12. Before(Elems(sent) \cup Elems(buffer[w]), Elems(b))
  <2>1. Elems(sent) \cup Elems(buffer[w]) \subseteq Reached
    BY DEF Reached, InBuffers
  <2> QED BY <2>1, <1>2, <1>6, <1>10 DEF Before, ReachedClaimed, RestIsBehind
<1>13. LinesInOrder'
  <2>1. UNCHANGED <<Line(sent), Elems(sent)>>
    BY <1>3 DEF Line, InOrder, Elems
  <2>2. ASSUME NEW v \in Workers
        PROVE  (/\ Line(buffer[v]) /\ Line(batch[v])
                /\ Before(Elems(sent), Elems(buffer[v]))
                /\ step[v] = "claimed" => Before(Elems(sent) \cup Elems(buffer[v]), Elems(batch[v])))'
    <3>1. UNCHANGED <<Line(buffer[v]), Elems(buffer[v]), Before(Elems(sent), Elems(buffer[v]))>>
      BY <1>3 DEF Line, InOrder, Elems, Before
    <3>2. CASE v = w
      <4>1. Line(batch[w])' /\ Elems(batch[w])' = Elems(b)
        BY <1>3, <1>11 DEF Line, InOrder, Elems
      <4> QED BY <3>1, <3>2, <4>1, <2>1, <1>6, <1>7, <1>12 DEF LinesInOrder, Before
    <3>3. CASE v # w
      <4>1. batch'[v] = batch[v] /\ step'[v] = step[v]
        BY <3>3, <1>3
      <4>2. Line(batch[v])' = Line(batch[v]) /\ Elems(batch[v])' = Elems(batch[v])
        BY <4>1, <1>3 DEF Line, InOrder, Elems
      <4> QED BY <3>1, <4>1, <4>2, <2>1, <1>6, <1>7 DEF LinesInOrder, Before
    <3> QED BY <3>2, <3>3
  <2> QED BY <2>1, <2>2, <1>6 DEF LinesInOrder
<1>14. ReachedClaimed'
  BY <1>6, <1>9, <1>10 DEF ReachedClaimed
<1>15. RestIsBehind'
  <2> SUFFICES ASSUME NEW e \in Claimable', NEW f \in Events, Claimed(f)'
               PROVE  InOrder(f, e)
    BY <1>7 DEF RestIsBehind
  <2>1. e \in Claimable /\ e \notin Elems(b)
    BY <1>3, <1>8 DEF Claimable
  <2>2. CASE Claimed(f)
    BY <2>1, <2>2, <1>6 DEF RestIsBehind
  <2>3. CASE f \in Elems(b)
    BY <2>1, <2>3, <1>11 DEF InOrder
  <2> QED BY <2>2, <2>3, <1>9
<1> QED BY <1>13, <1>14, <1>15

LEMMA HandOverOrder ==
  ASSUME IInv, OrderInv, NEW w \in Workers, HandOver(w)
  PROVE  OrderInv'
<1>1. /\ step[w] = "claimed"
      /\ UNCHANGED <<status, createdAt, batch, sent, failures, cuts, polled, late>>
      /\ \A v \in Workers : /\ buffer'[v] = IF v = w THEN buffer[w] \o batch[w] ELSE buffer[v]
                            /\ step'[v] = IF v = w THEN "handed" ELSE step[v]
  BY DEF HandOver, IInv, TypeOK
<1>2. IdleHoldsNothing'
  BY <1>1 DEF OrderInv, IdleHoldsNothing
<1> SUFFICES ASSUME Serial' PROVE (LinesInOrder /\ ReachedClaimed /\ RestIsBehind)'
  BY <1>2 DEF OrderInv
<1>3. LinesInOrder /\ ReachedClaimed /\ RestIsBehind
  BY <1>1 DEF OrderInv, Serial
<1>4. /\ \A e, f : InOrder(e, f)' <=> InOrder(e, f)
      /\ \A e : Claimed(e)' <=> Claimed(e)
      /\ Claimable' = Claimable
  BY <1>1 DEF InOrder, Claimed, Claimable, Locked, Elems
<1>5. /\ buffer[w] \in Seq(Events) /\ batch[w] \in Seq(Events)
      /\ Elems(buffer[w] \o batch[w]) = Elems(buffer[w]) \cup Elems(batch[w])
  BY HeldTypes, ElemsConcat DEF IInv
<1>6. /\ Line(buffer[w]) /\ Line(batch[w])
      /\ Before(Elems(sent), Elems(buffer[w]))
      /\ Before(Elems(sent) \cup Elems(buffer[w]), Elems(batch[w]))
  BY <1>1, <1>3 DEF LinesInOrder
<1>7. Line(buffer[w] \o batch[w]) /\ Before(Elems(sent), Elems(buffer[w] \o batch[w]))
  <2>1. Before(Elems(buffer[w]), Elems(batch[w]))
    BY <1>6 DEF Before
  <2>2. Line(buffer[w] \o batch[w])
    BY <2>1, <1>5, <1>6, LineConcat
  <2>3. Before(Elems(sent), Elems(buffer[w]) \cup Elems(batch[w]))
    BY <1>6 DEF Before
  <2> QED BY <2>2, <2>3, <1>5
<1>8. \A v \in Workers : Elems(buffer[v])' = IF v = w THEN Elems(buffer[w] \o batch[w]) ELSE Elems(buffer[v])
  BY <1>1 DEF Elems
<1>9. LinesInOrder'
  <2>1. Line(sent)' /\ UNCHANGED Elems(sent)
    BY <1>1, <1>3 DEF LinesInOrder, Line, InOrder, Elems
  <2>2. ASSUME NEW v \in Workers
        PROVE  (/\ Line(buffer[v]) /\ Line(batch[v])
                /\ Before(Elems(sent), Elems(buffer[v]))
                /\ step[v] = "claimed" => Before(Elems(sent) \cup Elems(buffer[v]), Elems(batch[v])))'
    <3>1. Line(batch[v])' /\ Elems(batch[v])' = Elems(batch[v])
      BY <1>1, <1>3 DEF LinesInOrder, Line, InOrder, Elems
    <3>2. CASE v = w
      <4>1. Line(buffer[w])'
        BY <1>1, <1>4, <1>7 DEF Line
      <4>2. Before(Elems(sent), Elems(buffer[w]))'
        BY <2>1, <1>4, <1>7, <1>8 DEF Before
      <4>3. step'[w] # "claimed"
        BY <1>1
      <4> QED BY <3>1, <3>2, <4>1, <4>2, <4>3
    <3>3. CASE v # w
      <4>1. buffer'[v] = buffer[v] /\ step'[v] = step[v]
        BY <3>3, <1>1
      <4>2. Line(buffer[v])' /\ Elems(buffer[v])' = Elems(buffer[v])
        BY <4>1, <1>1, <1>3 DEF LinesInOrder, Line, InOrder, Elems
      <4> QED BY <3>1, <4>1, <4>2, <2>1, <1>3, <1>4 DEF LinesInOrder, Before
    <3> QED BY <3>2, <3>3
  <2> QED BY <2>1, <2>2 DEF LinesInOrder
<1>10. ReachedClaimed'
  <2>1. Reached' \subseteq Reached \cup Elems(batch[w])
    <3>1. UNCHANGED Elems(sent)
      BY <1>1 DEF Elems
    <3>2. \A v \in Workers : Elems(buffer[v])' \subseteq Elems(buffer[v]) \cup Elems(batch[w])
      BY <1>5, <1>8
    <3>3. Reached' = Elems(sent)' \cup UNION {Elems(buffer[v])' : v \in Workers}
      BY DEF Reached, InBuffers
    <3> QED BY <3>1, <3>2, <3>3 DEF Reached, InBuffers
  <2>2. \A e \in Elems(batch[w]) : Claimed(e)
    BY DEF Claimed, Locked
  <2> QED BY <2>1, <2>2, <1>3, <1>4 DEF ReachedClaimed
<1>11. RestIsBehind'
  BY <1>3, <1>4 DEF RestIsBehind
<1> QED BY <1>9, <1>10, <1>11

LEMMA MarkAndCommitOrder ==
  ASSUME IInv, OrderInv, NEW w \in Workers, MarkAndCommit(w)
  PROVE  OrderInv'
<1>1. /\ step[w] = "handed"
      /\ UNCHANGED <<createdAt, buffer, sent, failures, cuts, polled, late>>
      /\ \A e \in Events : status'[e] = IF e \in Elems(batch[w]) THEN "published" ELSE status[e]
      /\ \A v \in Workers : /\ batch'[v] = IF v = w THEN <<>> ELSE batch[v]
                            /\ step'[v] = IF v = w THEN "idle" ELSE step[v]
  BY DEF MarkAndCommit, IInv, TypeOK
<1>2. IdleHoldsNothing'
  BY <1>1 DEF OrderInv, IdleHoldsNothing
<1> SUFFICES ASSUME Serial' PROVE (LinesInOrder /\ ReachedClaimed /\ RestIsBehind)'
  BY <1>2 DEF OrderInv
<1>3. LinesInOrder /\ ReachedClaimed /\ RestIsBehind
  BY <1>1 DEF OrderInv, Serial
<1>4. \A e, f : InOrder(e, f)' <=> InOrder(e, f)
  BY <1>1 DEF InOrder
<1>5. \A v \in Workers : Elems(batch[v])' = IF v = w THEN {} ELSE Elems(batch[v])
  BY <1>1 DEF Elems
<1>6. \A v \in Workers : Elems(batch[v]) \subseteq Events
  BY HeldTypes DEF IInv, Elems
<1>7. \A e : Locked(e) <=> Locked(e)' \/ e \in Elems(batch[w])
  BY <1>5 DEF Locked
<1>8. \A e \in Events : Claimed(e)' <=> Claimed(e)
  BY <1>1, <1>7 DEF Claimed
<1>9. Claimable' \subseteq Claimable
  BY <1>1, <1>7 DEF Claimable
<1>10. LinesInOrder'
  <2>1. Line(sent)' /\ UNCHANGED Elems(sent)
    BY <1>1, <1>3 DEF LinesInOrder, Line, InOrder, Elems
  <2>2. ASSUME NEW v \in Workers
        PROVE  (/\ Line(buffer[v]) /\ Line(batch[v])
                /\ Before(Elems(sent), Elems(buffer[v]))
                /\ step[v] = "claimed" => Before(Elems(sent) \cup Elems(buffer[v]), Elems(batch[v])))'
    <3>1. Line(buffer[v])' /\ Elems(buffer[v])' = Elems(buffer[v])
      BY <1>1, <1>3 DEF LinesInOrder, Line, InOrder, Elems
    <3>2. Before(Elems(sent), Elems(buffer[v]))'
      BY <2>1, <3>1, <1>3, <1>4 DEF LinesInOrder, Before
    <3>3. CASE v = w
      <4>1. batch'[w] = <<>> /\ step'[w] # "claimed"
        BY <1>1
      <4>2. Line(batch[w])'
        BY <4>1 DEF Line
      <4> QED BY <3>1, <3>2, <3>3, <4>1, <4>2
    <3>4. CASE v # w
      <4>1. batch'[v] = batch[v] /\ step'[v] = step[v]
        BY <3>4, <1>1
      <4>2. Line(batch[v])
        BY <1>3 DEF LinesInOrder
      <4>3. Line(batch[v])' /\ Elems(batch[v])' = Elems(batch[v])
        BY <4>1, <4>2, <1>4 DEF Line, Elems
      <4> QED BY <3>1, <3>2, <4>1, <4>3, <2>1, <1>3, <1>4 DEF LinesInOrder, Before
    <3> QED BY <3>3, <3>4
  <2> QED BY <2>1, <2>2 DEF LinesInOrder
<1>11. ReachedClaimed'
  <2>1. UNCHANGED Reached /\ Reached \subseteq Events
    BY <1>1 DEF Reached, InBuffers, Elems, IInv, ReachedCommitted, Committed
  <2> QED BY <2>1, <1>3, <1>8 DEF ReachedClaimed
<1>12. RestIsBehind'
  BY <1>3, <1>4, <1>8, <1>9 DEF RestIsBehind
<1> QED BY <1>10, <1>11, <1>12

\* Only one client has anything to send: its head follows what NATS has.
LEMMA FlushOrder ==
  ASSUME IInv, OrderInv, NEW w \in Workers, Flush(w)
  PROVE  OrderInv'
<1> DEFINE head == Head(buffer[w])
           tail == Tail(buffer[w])
<1>1. /\ buffer[w] # <<>> /\ sent' = Append(sent, head)
      /\ UNCHANGED <<status, createdAt, step, batch, failures, cuts, polled, late>>
      /\ \A v \in Workers : buffer'[v] = IF v = w THEN tail ELSE buffer[v]
  BY DEF Flush, IInv, TypeOK
<1>2. w \in polled
  BY <1>1 DEF OrderInv, IdleHoldsNothing
<1>3. IdleHoldsNothing'
  BY <1>1, <1>2 DEF OrderInv, IdleHoldsNothing
<1> SUFFICES ASSUME Serial' PROVE (LinesInOrder /\ ReachedClaimed /\ RestIsBehind)'
  BY <1>3 DEF OrderInv
<1>4. LinesInOrder /\ ReachedClaimed /\ RestIsBehind
  BY <1>1 DEF OrderInv, Serial
<1>5. \A v \in Workers : v # w => buffer[v] = <<>> /\ step[v] = "idle"
  BY <1>1, <1>2 DEF Serial, OrderInv, IdleHoldsNothing
<1>6. /\ \A e, f : InOrder(e, f)' <=> InOrder(e, f)
      /\ \A e : Claimed(e)' <=> Claimed(e)
      /\ Claimable' = Claimable
  BY <1>1 DEF InOrder, Claimed, Claimable, Locked, Elems
<1>7. sent \in Seq(Events) /\ buffer[w] \in Seq(Events)
  BY HeldTypes DEF IInv, TypeOK
<1>8. /\ head \in Events /\ tail \in Seq(Events)
      /\ Elems(buffer[w]) = {head} \cup Elems(tail)
      /\ Elems(sent') = Elems(sent) \cup {head}
  <2>1. head \in Events /\ tail \in Seq(Events) /\ Elems(buffer[w]) = {head} \cup Elems(tail)
    BY <1>1, <1>7, ElemsHeadTail
  <2>2. Elems(sent') = Elems(sent) \cup {head}
    BY <2>1, <1>1, <1>7, ElemsAppend
  <2> QED BY <2>1, <2>2
<1>9. Line(tail) /\ Before({head}, Elems(tail))
  BY <1>1, <1>4, <1>7, LineTail DEF LinesInOrder
<1>10. Line(Append(sent, head))
  <2>1. Line(sent) /\ Before(Elems(sent), {head})
    BY <1>4, <1>8 DEF LinesInOrder, Before
  <2> QED BY <2>1, <1>7, <1>8, LineAppend
<1> HIDE DEF head, tail
<1>11. \A v \in Workers : Elems(buffer[v])' = IF v = w THEN Elems(tail) ELSE {}
  BY <1>1, <1>5 DEF Elems
<1>12. LinesInOrder'
  <2>1. Line(sent)' /\ Elems(sent)' = Elems(sent) \cup {head}
    <3>1. Line(sent)'
      BY <1>1, <1>6, <1>10 DEF Line
    <3>2. Elems(sent)' = Elems(sent')
      BY DEF Elems
    <3> QED BY <3>1, <3>2, <1>8
  <2>2. ASSUME NEW v \in Workers
        PROVE  (/\ Line(buffer[v]) /\ Line(batch[v])
                /\ Before(Elems(sent), Elems(buffer[v]))
                /\ step[v] = "claimed" => Before(Elems(sent) \cup Elems(buffer[v]), Elems(batch[v])))'
    <3>1. Line(batch[v])' /\ Elems(batch[v])' = Elems(batch[v])
      BY <1>1, <1>4 DEF LinesInOrder, Line, InOrder, Elems
    <3>2. CASE v = w
      <4>1. Line(buffer[w])'
        BY <1>1, <1>6, <1>9 DEF Line
      <4>2. Before(Elems(sent), Elems(buffer[w]))'
        BY <2>1, <1>4, <1>6, <1>8, <1>9, <1>11 DEF Before, LinesInOrder
      <4>3. step[w] = "claimed" => Before(Elems(sent) \cup Elems(buffer[w]), Elems(batch[w]))'
        BY <2>1, <3>1, <3>2, <1>4, <1>6, <1>8, <1>11 DEF Before, LinesInOrder
      <4> QED BY <1>1, <3>1, <3>2, <4>1, <4>2, <4>3
    <3>3. CASE v # w
      <4>1. buffer'[v] = <<>> /\ step'[v] = "idle" /\ Elems(buffer[v])' = {}
        BY <3>3, <1>1, <1>5, <1>11
      <4>2. Line(buffer[v])'
        BY <4>1 DEF Line
      <4> QED BY <3>1, <4>1, <4>2 DEF Before
    <3> QED BY <3>2, <3>3
  <2> QED BY <2>1, <2>2 DEF LinesInOrder
<1>13. ReachedClaimed'
  <2>1. Reached' \subseteq Reached
    <3>1. Elems(sent)' \subseteq Elems(sent) \cup Elems(buffer[w])
      <4>1. Elems(sent)' = Elems(sent')
        BY DEF Elems
      <4> QED BY <4>1, <1>8
    <3>2. \A v \in Workers : Elems(buffer[v])' \subseteq Elems(buffer[w])
      BY <1>8, <1>11
    <3>3. Reached' = Elems(sent)' \cup UNION {Elems(buffer[v])' : v \in Workers}
      BY DEF Reached, InBuffers
    <3> QED BY <3>1, <3>2, <3>3 DEF Reached, InBuffers
  <2> QED BY <2>1, <1>4, <1>6 DEF ReachedClaimed
<1>14. RestIsBehind'
  BY <1>4, <1>6 DEF RestIsBehind
<1> QED BY <1>12, <1>13, <1>14

\* After a fault nothing is promised about the order.
LEMMA FaultOrder ==
  ASSUME IInv, OrderInv, NEW w \in Workers, Fail(w) \/ Crash(w) \/ Disconnect(w)
  PROVE  OrderInv'
<1>1. failures \in Nat /\ cuts \in Nat
  BY DEF IInv, TypeOK
<1>2. ~Serial'
  <2>1. failures' = failures + 1 \/ cuts' = cuts + 1
    BY DEF Fail, Crash, Disconnect
  <2>2. failures' # 0 \/ cuts' # 0
    BY <1>1, <2>1
  <2> QED BY <2>2 DEF Serial
<1>3. UNCHANGED polled /\ IsFiniteSet(polled)
  BY DEF Fail, Crash, Disconnect, OrderInv, IdleHoldsNothing
<1>4. ASSUME NEW v \in Workers
      PROVE  /\ step'[v] = "idle" => batch'[v] = <<>>
             /\ v \notin polled => step'[v] = "idle" /\ buffer'[v] = <<>>
  <2>1. CASE v # w
    <3>1. step'[v] = step[v] /\ batch'[v] = batch[v] /\ buffer'[v] = buffer[v]
      BY <2>1 DEF Fail, Crash, Disconnect, IInv, TypeOK
    <3> QED BY <3>1 DEF OrderInv, IdleHoldsNothing
  <2>2. CASE v = w /\ (Fail(w) \/ Crash(w))
    <3>1. w \in polled
      BY <2>2 DEF Fail, Crash, OrderInv, IdleHoldsNothing
    <3>2. batch'[w] = <<>>
      BY <2>2 DEF Fail, Crash, IInv, TypeOK
    <3> QED BY <3>1, <3>2, <2>2
  <2>3. CASE v = w /\ Disconnect(w)
    <3>1. UNCHANGED <<step, batch>>
      BY <2>3 DEF Disconnect
    <3>2. buffer[w] # <<>>
      <4>1. PICK n \in 1..Len(buffer[w]) : TRUE
        BY <2>3 DEF Disconnect
      <4> QED BY <4>1
    <3>3. w \in polled
      BY <3>2 DEF OrderInv, IdleHoldsNothing
    <3> QED BY <3>1, <3>3, <2>3 DEF OrderInv, IdleHoldsNothing
  <2> QED BY <2>1, <2>2, <2>3
<1>5. IdleHoldsNothing'
  BY <1>3, <1>4 DEF IdleHoldsNothing
<1> QED BY <1>2, <1>5 DEF OrderInv

LEMMA NextOrder == IInv /\ OrderInv /\ [Next]_vars => OrderInv'
<1> SUFFICES ASSUME IInv, OrderInv, [Next]_vars PROVE OrderInv'
  OBVIOUS
<1>1. CASE \E e \in Events : AppendEvent(e) \/ CommitEvent(e) \/ AbortEvent(e)
  BY <1>1, DomainOrder
<1>2. CASE \E w \in Workers : Poll(w)
  BY <1>2, PollOrder
<1>3. CASE \E w \in Workers : HandOver(w)
  BY <1>3, HandOverOrder
<1>4. CASE \E w \in Workers : MarkAndCommit(w)
  BY <1>4, MarkAndCommitOrder
<1>5. CASE \E w \in Workers : Flush(w)
  BY <1>5, FlushOrder
<1>6. CASE \E w \in Workers : Fail(w) \/ Crash(w) \/ Disconnect(w)
  BY <1>6, FaultOrder
<1>7. CASE Retention
  BY <1>7, RetentionOrder
<1>8. CASE UNCHANGED vars
  BY <1>8, IdleOrder
<1> QED BY <1>1, <1>2, <1>3, <1>4, <1>5, <1>6, <1>7, <1>8 DEF Next

LEMMA OneHasPolled ==
  ASSUME IsFiniteSet(polled), Cardinality(polled) <= 1
  PROVE  \A v, w \in polled : v = w
<1> SUFFICES ASSUME NEW v \in polled, NEW w \in polled, v # w PROVE FALSE
  OBVIOUS
<1>1. IsFiniteSet({v}) /\ Cardinality({v}) = 1
  BY FS_Singleton
<1>2. IsFiniteSet({v} \cup {w}) /\ Cardinality({v} \cup {w}) = 2
  <2>1. w \notin {v}
    OBVIOUS
  <2>2. Cardinality({v} \cup {w}) = Cardinality({v}) + 1 /\ IsFiniteSet({v} \cup {w})
    BY <1>1, <2>1, FS_AddElement
  <2> QED BY <1>1, <2>2
<1>3. {v} \cup {w} \subseteq polled
  OBVIOUS
<1>4. Cardinality({v} \cup {w}) <= Cardinality(polled)
  BY <1>3, FS_Subset
<1>5. Cardinality(polled) \in Nat
  BY FS_CardinalityType
<1> QED BY <1>2, <1>4, <1>5

\* While one worker has published and nothing has failed, NATS receives the
\* events in the order of their creation, except those that committed late,
\* however transactions, sweep, loop and client interleave.
THEOREM OrderIsKept == Spec => []OneWorkerKeepsOrder
<1>1. Init => IInv /\ OrderInv
  BY InitInv, InitOrder
<1>2. IInv /\ OrderInv /\ [Next]_vars => (IInv /\ OrderInv)'
  BY NextInv, NextOrder
<1>3. IInv /\ OrderInv => OneWorkerKeepsOrder
  <2> SUFFICES ASSUME IInv, OrderInv, Cardinality(polled) <= 1, failures + cuts = 0
               PROVE  Line(sent)
    BY DEF OneWorkerKeepsOrder, Line, InOrder
  <2>1. failures = 0 /\ cuts = 0
    BY DEF IInv, TypeOK
  <2>2. \A v, w \in polled : v = w
    BY OneHasPolled DEF OrderInv, IdleHoldsNothing
  <2> QED BY <2>1, <2>2 DEF OrderInv, Serial, LinesInOrder
<1> QED BY <1>1, <1>2, <1>3, PTL DEF Spec
=============================================================================
