--------------------------- MODULE MessagesProofs ---------------------------
(***************************************************************************)
(* Proofs about Messages, for any number of processes, any clocks, limits  *)
(* and finite number of concurrent calls: ids are unique and increase, the *)
(* rate limiter's bound holds, events tell which messages are deleted, and *)
(* paging back through the channel misses no message and repeats none.     *)
(***************************************************************************)
EXTENDS Messages, FiniteSetTheorems, WellFoundedInduction, TLAPS

-----------------------------------------------------------------------------
\* Ids: a timestamp, then a node, then a sequence number.
Stamp(t, node) == t * Nodes + node

LEMMA Widths == Nodes \in Nat \ {0} /\ Sequence \in Nat \ {0} /\ MaxTime \in Nat
  BY ConstantsAssumption DEF Ids!NodesAreDistinct

LEMMA NodeType == \A p \in Processes : NodeOf[p] \in 0..(Nodes - 1)
  BY ConstantsAssumption DEF Ids!NodesAreDistinct

\* Two-digit numbers of base S are ordered by their first digit.
LEMMA Positional ==
  ASSUME NEW S \in Nat \ {0}, NEW a \in Nat, NEW c \in Nat, NEW b \in 0..(S - 1), NEW d \in 0..(S - 1),
         a < c
  PROVE  a * S + b < c * S + d
<1>1. c = a + 1 + (c - a - 1) /\ c - a - 1 \in Nat
  OBVIOUS
<1>2. c * S = a * S + S + (c - a - 1) * S
  BY <1>1
<1>3. (c - a - 1) * S \in Nat
  BY <1>1
<1>4. a * S \in Nat
  OBVIOUS
<1> DEFINE x == a * S
           y == c * S
           z == (c - a - 1) * S
<1>5. x \in Nat /\ y = x + S + z /\ z \in Nat
  BY <1>2, <1>3, <1>4
<1> HIDE DEF x, y, z
<1>6. x + b < y + d
  BY <1>5
<1> QED BY <1>6 DEF x, y

LEMMA StampType ==
  ASSUME NEW t \in Nat, NEW p \in Processes
  PROVE  Stamp(t, NodeOf[p]) \in Nat
  BY Widths, NodeType DEF Stamp

LEMMA EncodeType ==
  ASSUME NEW t \in Nat, NEW p \in Processes, NEW s \in 0..(Sequence - 1)
  PROVE  Ids!Encode(t, NodeOf[p], s) \in Nat
<1>1. Stamp(t, NodeOf[p]) \in Nat
  BY StampType
<1>2. Stamp(t, NodeOf[p]) * Sequence \in Nat
  BY <1>1, Widths
<1> QED BY <1>2, Widths DEF Ids!Encode, Stamp

\* Later timestamps make greater ids, whatever the sequence numbers.
LEMMA LaterIsGreater ==
  ASSUME NEW t \in Nat, NEW u \in Nat, NEW p \in Processes, NEW s \in 0..(Sequence - 1),
         NEW r \in 0..(Sequence - 1), t < u
  PROVE  Ids!Encode(t, NodeOf[p], s) < Ids!Encode(u, NodeOf[p], r)
<1>1. Stamp(t, NodeOf[p]) < Stamp(u, NodeOf[p])
  BY Widths, NodeType, Positional DEF Stamp
<1>2. Stamp(t, NodeOf[p]) \in Nat /\ Stamp(u, NodeOf[p]) \in Nat
  BY StampType
<1>3. Stamp(t, NodeOf[p]) * Sequence + s < Stamp(u, NodeOf[p]) * Sequence + r
  BY <1>1, <1>2, Widths, Positional
<1> QED BY <1>3 DEF Ids!Encode, Stamp

LEMMA NextIsGreater ==
  ASSUME NEW t \in Nat, NEW p \in Processes, NEW s \in 0..(Sequence - 1), NEW r \in 0..(Sequence - 1),
         s < r
  PROVE  Ids!Encode(t, NodeOf[p], s) < Ids!Encode(t, NodeOf[p], r)
<1>1. Stamp(t, NodeOf[p]) * Sequence \in Nat
  BY StampType, Widths
<1>2. Stamp(t, NodeOf[p]) * Sequence + s < Stamp(t, NodeOf[p]) * Sequence + r
  BY <1>1, Widths
<1> QED BY <1>2 DEF Ids!Encode, Stamp

\* Ids of different nodes differ.
LEMMA NodesDiffer ==
  ASSUME NEW p \in Processes, NEW q \in Processes, p # q, NEW t \in Nat, NEW u \in Nat,
         NEW s \in 0..(Sequence - 1), NEW r \in 0..(Sequence - 1)
  PROVE  Ids!Encode(t, NodeOf[p], s) # Ids!Encode(u, NodeOf[q], r)
<1>1. NodeOf[p] # NodeOf[q]
  BY ConstantsAssumption DEF Ids!NodesAreDistinct
<1>2. Stamp(t, NodeOf[p]) \in Nat /\ Stamp(u, NodeOf[q]) \in Nat
  BY StampType
<1>3. Stamp(t, NodeOf[p]) # Stamp(u, NodeOf[q])
  <2>1. CASE t < u
    <3>1. Stamp(t, NodeOf[p]) < Stamp(u, NodeOf[q])
      BY <2>1, Widths, NodeType, Positional DEF Stamp
    <3> QED BY <3>1, <1>2
  <2>2. CASE u < t
    <3>1. Stamp(u, NodeOf[q]) < Stamp(t, NodeOf[p])
      BY <2>2, Widths, NodeType, Positional DEF Stamp
    <3> QED BY <3>1, <1>2
  <2>3. CASE t = u
    <3>1. t * Nodes \in Nat
      BY Widths
    <3> QED BY <2>3, <3>1, <1>1, NodeType, Widths DEF Stamp
  <2> QED BY <2>1, <2>2, <2>3
<1> DEFINE x == Stamp(t, NodeOf[p]) * Sequence + s
           y == Stamp(u, NodeOf[q]) * Sequence + r
<1>4. Stamp(t, NodeOf[p]) < Stamp(u, NodeOf[q]) => x < y
  BY <1>2, Widths, Positional
<1>5. Stamp(u, NodeOf[q]) < Stamp(t, NodeOf[p]) => y < x
  BY <1>2, Widths, Positional
<1>6. x \in Nat /\ y \in Nat
  BY EncodeType DEF Ids!Encode, Stamp
<1>7. x # y
  <2> HIDE DEF x, y
  <2> QED BY <1>2, <1>3, <1>4, <1>5, <1>6
<1> QED BY <1>7 DEF Ids!Encode, Stamp

-----------------------------------------------------------------------------
\* The generator: it issues ids of its own node, above those it has issued.
IssuedOK(p) ==
    \A i \in 1..Len(issued[p]) :
        \E t \in Nat, s \in 0..(Sequence - 1) : issued[p][i] = Ids!Encode(t, NodeOf[p], s)

Increasing(p) == \A i, j \in 1..Len(issued[p]) : i < j => issued[p][i] < issued[p][j]

Ahead(p) ==
    /\ lastTimestamp[p] # -1 =>
          \A i \in 1..Len(issued[p]) :
              issued[p][i] <= Ids!Encode(lastTimestamp[p], NodeOf[p], sequence[p])
    /\ lastTimestamp[p] = -1 =>
          \A i \in 1..Len(issued[p]) : issued[p][i] < Ids!Encode(clock[p], NodeOf[p], 0)

IdsInv ==
    /\ Ids!TypeOK
    /\ \A p \in Processes : IssuedOK(p) /\ (p \notin forgot => Increasing(p) /\ Ahead(p))

LEMMA InitIds == Ids!Init => IdsInv
  BY Widths DEF Ids!Init, Ids!TypeOK, IdsInv, IssuedOK, Increasing, Ahead

\* A greater number at the end of an increasing sequence.
LEMMA AppendGreater ==
  ASSUME NEW seq \in Seq(Nat), NEW n \in Nat, \A i \in 1..Len(seq) : seq[i] < n
  PROVE  /\ \A i \in 1..Len(Append(seq, n)) : Append(seq, n)[i] <= n
         /\ (\A i, j \in 1..Len(seq) : i < j => seq[i] < seq[j]) =>
               \A i, j \in 1..Len(Append(seq, n)) : i < j => Append(seq, n)[i] < Append(seq, n)[j]
  OBVIOUS

LEMMA ModSmall ==
  ASSUME NEW S \in Nat \ {0}, NEW a \in 0..(S - 1)
  PROVE  a % S = a
  OBVIOUS

LEMMA NextIdType ==
  ASSUME Ids!TypeOK, NEW p \in Processes
  PROVE  Ids!NextSequence(p) \in 0..(Sequence - 1) /\ Ids!NextId(p) \in Nat
<1>1. Ids!NextSequence(p) \in 0..(Sequence - 1)
  BY Widths DEF Ids!TypeOK, Ids!NextSequence
<1>2. clock[p] \in Nat
  BY Widths DEF Ids!TypeOK
<1> QED BY <1>1, <1>2, EncodeType DEF Ids!NextId

LEMMA GenerateIds ==
  ASSUME IdsInv, NEW p \in Processes, Ids!Generate(p)
  PROVE  IdsInv'
<1> DEFINE n == Ids!NextId(p)
           s == Ids!NextSequence(p)
<1>1. /\ clock[p] \in 0..MaxTime /\ lastTimestamp[p] \in -1..MaxTime /\ sequence[p] \in 0..(Sequence - 1)
      /\ clock[p] \in Nat /\ issued[p] \in Seq(Nat)
      /\ s \in 0..(Sequence - 1) /\ n \in Nat
  BY Widths, NextIdType DEF IdsInv, Ids!TypeOK, Ids!NextId
<1>0. n = Ids!Encode(clock[p], NodeOf[p], s)
  BY DEF Ids!NextId
<1>2. /\ lastTimestamp'[p] = clock[p] /\ sequence'[p] = s /\ issued'[p] = Append(issued[p], n)
      /\ clock' = clock /\ forgot' = forgot
  BY DEF IdsInv, Ids!TypeOK, Ids!Generate
<1>3. /\ Len(issued'[p]) = Len(issued[p]) + 1 /\ Len(issued[p]) \in Nat
      /\ issued'[p][Len(issued[p]) + 1] = n
      /\ \A i \in 1..Len(issued[p]) : issued'[p][i] = issued[p][i] /\ issued[p][i] \in Nat
  <2> HIDE DEF n, s
  <2>1. n \in Nat /\ issued[p] \in Seq(Nat) /\ issued'[p] = Append(issued[p], n)
    BY <1>1, <1>2
  <2> QED BY <2>1
<1>4. Ids!TypeOK'
  <2> HIDE DEF n, s
  <2>1. /\ lastTimestamp' = [lastTimestamp EXCEPT ![p] = clock[p]] /\ sequence' = [sequence EXCEPT ![p] = s]
        /\ issued' = [issued EXCEPT ![p] = Append(issued[p], n)]
    BY DEF Ids!Generate, n, s
  <2> QED BY <1>1, <1>2, <2>1 DEF IdsInv, Ids!TypeOK
<1>5. ASSUME p \notin forgot
      PROVE  \A i \in 1..Len(issued[p]) : issued[p][i] < n
  <2>1. CASE lastTimestamp[p] = -1
    <3>1. s = 0
      BY <2>1, <1>1 DEF Ids!NextSequence
    <3> QED BY <3>1, <2>1, <1>0, <1>5 DEF IdsInv, Ahead
  <2>2. CASE lastTimestamp[p] # -1 /\ lastTimestamp[p] = clock[p]
    <3>1. sequence[p] < s
      <4>1. s = (sequence[p] + 1) % Sequence /\ s # 0
        BY <2>2 DEF Ids!Generate, Ids!Spins, Ids!NextSequence
      <4>2. sequence[p] + 1 # Sequence
        BY <4>1, Widths
      <4>3. s = sequence[p] + 1
        <5>0. sequence[p] \in 0..(Sequence - 1) /\ Sequence \in Nat \ {0}
          BY <1>1, Widths
        <5>1. sequence[p] + 1 \in 0..(Sequence - 1)
          BY <5>0, <4>2
        <5>2. (sequence[p] + 1) % Sequence = sequence[p] + 1
          BY <5>1, Widths, ModSmall
        <5> QED BY <5>2, <4>1
      <4> QED BY <4>3, <1>1
    <3>2. Ids!Encode(lastTimestamp[p], NodeOf[p], sequence[p]) < n
      BY <3>1, <2>2, <1>0, <1>1, NextIsGreater
    <3>3. Ids!Encode(lastTimestamp[p], NodeOf[p], sequence[p]) \in Nat
      BY <2>2, <1>1, EncodeType
    <3>4. \A i \in 1..Len(issued[p]) :
             issued[p][i] <= Ids!Encode(lastTimestamp[p], NodeOf[p], sequence[p])
      BY <2>2, <1>5 DEF IdsInv, Ahead
    <3> DEFINE e == Ids!Encode(lastTimestamp[p], NodeOf[p], sequence[p])
    <3>5. e < n /\ e \in Nat /\ \A i \in 1..Len(issued[p]) : issued[p][i] <= e
      BY <3>2, <3>3, <3>4
    <3> HIDE DEF e, n, s
    <3>6. ASSUME NEW i \in 1..Len(issued[p])
          PROVE  issued[p][i] < n
      <4>1. issued[p][i] \in Nat /\ issued[p][i] <= e
        BY <3>5, <1>3
      <4> QED BY <4>1, <3>5, <1>1
    <3> QED BY <3>6
  <2>3. CASE lastTimestamp[p] # -1 /\ lastTimestamp[p] # clock[p]
    <3>1. lastTimestamp[p] < clock[p] /\ lastTimestamp[p] \in Nat
      BY <2>3, <1>1, Widths DEF Ids!Generate, Ids!Throws
    <3>2. Ids!Encode(lastTimestamp[p], NodeOf[p], sequence[p]) < n
      BY <3>1, <1>0, <1>1, LaterIsGreater
    <3>3. Ids!Encode(lastTimestamp[p], NodeOf[p], sequence[p]) \in Nat
      BY <3>1, <1>1, EncodeType
    <3>4. \A i \in 1..Len(issued[p]) :
             issued[p][i] <= Ids!Encode(lastTimestamp[p], NodeOf[p], sequence[p])
      BY <2>3, <1>5 DEF IdsInv, Ahead
    <3> DEFINE e == Ids!Encode(lastTimestamp[p], NodeOf[p], sequence[p])
    <3>5. e < n /\ e \in Nat /\ \A i \in 1..Len(issued[p]) : issued[p][i] <= e
      BY <3>2, <3>3, <3>4
    <3> HIDE DEF e, n, s
    <3>6. ASSUME NEW i \in 1..Len(issued[p])
          PROVE  issued[p][i] < n
      <4>1. issued[p][i] \in Nat /\ issued[p][i] <= e
        BY <3>5, <1>3
      <4> QED BY <4>1, <3>5, <1>1
    <3> QED BY <3>6
  <2> QED BY <2>1, <2>2, <2>3
<1>6. ASSUME NEW q \in Processes
      PROVE  (IssuedOK(q) /\ (q \notin forgot => Increasing(q) /\ Ahead(q)))'
  <2>1. CASE q = p
    <3> HIDE DEF n, s
    <3>1. IssuedOK(p)'
      <4>1. \A i \in 1..(Len(issued[p]) + 1) :
               \E t \in Nat, r \in 0..(Sequence - 1) : issued'[p][i] = Ids!Encode(t, NodeOf[p], r)
        <5>1. ASSUME NEW i \in 1..Len(issued[p])
              PROVE  \E t \in Nat, r \in 0..(Sequence - 1) :
                        issued'[p][i] = Ids!Encode(t, NodeOf[p], r)
          BY <1>3 DEF IdsInv, IssuedOK
        <5>2. \E t \in Nat, r \in 0..(Sequence - 1) :
                 issued'[p][Len(issued[p]) + 1] = Ids!Encode(t, NodeOf[p], r)
          BY <1>0, <1>1, <1>3
        <5>3. \A i \in 1..(Len(issued[p]) + 1) : i \in 1..Len(issued[p]) \/ i = Len(issued[p]) + 1
          BY <1>3
        <5> QED BY <5>1, <5>2, <5>3
      <4> QED BY <4>1, <1>3 DEF IssuedOK, Ids!Encode
    <3>2. ASSUME p \notin forgot PROVE Increasing(p)'
      <4>1. Increasing(p)
        BY <3>2 DEF IdsInv
      <4>2. \A i \in 1..Len(issued[p]) : issued[p][i] < n
        BY <3>2, <1>5
      <4> QED BY <4>1, <4>2, <1>1, <1>2, AppendGreater DEF Increasing
    <3>3. ASSUME p \notin forgot PROVE Ahead(p)'
      <4>1. lastTimestamp'[p] # -1
        BY <1>1, <1>2
      <4>2. \A i \in 1..(Len(issued[p]) + 1) : issued'[p][i] <= n
        <5>1. \A i \in 1..Len(issued[p]) : issued[p][i] < n
          BY <3>3, <1>5
        <5>2. \A i \in 1..Len(issued'[p]) : issued'[p][i] <= n
          BY <5>1, <1>1, <1>2, AppendGreater
        <5> QED BY <5>2, <1>3
      <4>3. n = Ids!Encode(lastTimestamp'[p], NodeOf[p], sequence'[p])
        BY <1>0, <1>2 DEF Ids!Encode
      <4> QED BY <4>1, <4>2, <4>3, <1>3 DEF Ahead, Ids!Encode
    <3> QED BY <2>1, <3>1, <3>2, <3>3, <1>2
  <2>2. CASE q # p
    <3>1. /\ issued'[q] = issued[q] /\ lastTimestamp'[q] = lastTimestamp[q]
          /\ sequence'[q] = sequence[q] /\ clock'[q] = clock[q] /\ forgot' = forgot
      BY <2>2 DEF IdsInv, Ids!TypeOK, Ids!Generate
    <3> QED BY <3>1 DEF IdsInv, IssuedOK, Increasing, Ahead, Ids!Encode
  <2> QED BY <2>1, <2>2
<1> QED BY <1>4, <1>6 DEF IdsInv

LEMMA TickIds ==
  ASSUME IdsInv, NEW p \in Processes, Ids!Tick(p)
  PROVE  IdsInv'
<1>1. Ids!TypeOK'
  BY Widths DEF IdsInv, Ids!TypeOK, Ids!Tick
<1>2. ASSUME NEW q \in Processes
      PROVE  (IssuedOK(q) /\ (q \notin forgot => Increasing(q) /\ Ahead(q)))'
  <2>1. /\ clock[q] \in Nat /\ (clock'[q] = clock[q] \/ clock'[q] = clock[q] + 1)
        /\ UNCHANGED <<lastTimestamp, sequence, issued, forgot>>
        /\ \A i \in 1..Len(issued[q]) : issued[q][i] \in Nat
    <3>1. /\ clock[q] \in 0..MaxTime /\ MaxTime \in Nat /\ issued[q] \in Seq(Nat)
          /\ clock \in [Processes -> 0..MaxTime]
      BY Widths DEF IdsInv, Ids!TypeOK
    <3>2. /\ clock' = [clock EXCEPT ![p] = clock[p] + 1]
          /\ UNCHANGED <<lastTimestamp, sequence, issued, forgot>>
      BY DEF Ids!Tick
    <3> QED BY <3>1, <3>2
  <2>2. Ids!Encode(clock[q], NodeOf[q], 0) <= Ids!Encode(clock'[q], NodeOf[q], 0)
    <3>1. 0 \in 0..(Sequence - 1)
      BY Widths
    <3>2. Ids!Encode(clock[q], NodeOf[q], 0) \in Nat
      BY <3>1, <2>1, EncodeType
    <3>3. CASE clock'[q] = clock[q]
      BY <3>2, <3>3
    <3>4. CASE clock'[q] = clock[q] + 1
      <4>1. Ids!Encode(clock[q], NodeOf[q], 0) < Ids!Encode(clock[q] + 1, NodeOf[q], 0)
        BY <3>1, <2>1, LaterIsGreater
      <4>2. clock[q] + 1 \in Nat
        BY <2>1
      <4>3. Ids!Encode(clock[q] + 1, NodeOf[q], 0) \in Nat
        BY <3>1, <4>2, EncodeType
      <4> QED BY <3>2, <3>4, <4>1, <4>3
    <3> QED BY <3>3, <3>4, <2>1
  <2>3. Ids!Encode(clock[q], NodeOf[q], 0) \in Nat /\ Ids!Encode(clock'[q], NodeOf[q], 0) \in Nat
    <3>1. 0 \in 0..(Sequence - 1) /\ clock[q] \in Nat /\ clock'[q] \in Nat
      BY <2>1, Widths
    <3> QED BY <3>1, EncodeType
  <2>4. ASSUME q \notin forgot PROVE Ahead(q)'
    <3>1. ASSUME lastTimestamp[q] = -1, NEW i \in 1..Len(issued[q])
          PROVE  issued[q][i] < Ids!Encode(clock'[q], NodeOf[q], 0)
      <4>1. issued[q][i] < Ids!Encode(clock[q], NodeOf[q], 0)
        BY <2>4, <3>1 DEF IdsInv, Ahead
      <4> QED BY <4>1, <2>1, <2>2, <2>3
    <3> QED BY <2>1, <2>4, <3>1 DEF IdsInv, Ahead, Ids!Encode
  <2> QED BY <2>1, <2>4 DEF IdsInv, IssuedOK, Increasing, Ids!Encode
<1> QED BY <1>1, <1>2 DEF IdsInv

LEMMA StepBackIds ==
  ASSUME IdsInv, NEW p \in Processes, Ids!StepBack(p)
  PROVE  IdsInv'
<1>1. Ids!TypeOK'
  BY Widths DEF IdsInv, Ids!TypeOK, Ids!StepBack
<1>2. ASSUME NEW q \in Processes
      PROVE  (IssuedOK(q) /\ (q \notin forgot => Increasing(q) /\ Ahead(q)))'
  <2>1. /\ UNCHANGED <<lastTimestamp, sequence, issued>>
        /\ q \notin forgot' => q \notin forgot /\ (clock'[q] = clock[q] \/ lastTimestamp[q] # -1)
    BY DEF IdsInv, Ids!TypeOK, Ids!StepBack
  <2> QED BY <2>1 DEF IdsInv, IssuedOK, Increasing, Ahead, Ids!Encode
<1> QED BY <1>1, <1>2 DEF IdsInv

LEMMA RestartIds ==
  ASSUME IdsInv, NEW p \in Processes, Ids!Restart(p)
  PROVE  IdsInv'
<1>1. Ids!TypeOK'
  BY Widths DEF IdsInv, Ids!TypeOK, Ids!Restart
<1>2. ASSUME NEW q \in Processes, q # p
      PROVE  (IssuedOK(q) /\ (q \notin forgot => Increasing(q) /\ Ahead(q)))'
  <2>1. /\ UNCHANGED <<issued>> /\ clock'[q] = clock[q] /\ lastTimestamp'[q] = lastTimestamp[q]
        /\ sequence'[q] = sequence[q] /\ (q \notin forgot' => q \notin forgot)
    BY <1>2 DEF IdsInv, Ids!TypeOK, Ids!Restart
  <2> QED BY <2>1 DEF IdsInv, IssuedOK, Increasing, Ahead, Ids!Encode
<1>3. (IssuedOK(p) /\ (p \notin forgot => Increasing(p) /\ Ahead(p)))'
  <2>1. /\ clock[p] \in Nat /\ clock'[p] = clock[p] + 1 /\ lastTimestamp'[p] = -1
        /\ lastTimestamp[p] \in -1..MaxTime /\ sequence[p] \in 0..(Sequence - 1)
        /\ UNCHANGED issued /\ \A i \in 1..Len(issued[p]) : issued[p][i] \in Nat
        /\ p \notin forgot' => p \notin forgot /\ lastTimestamp[p] <= clock[p]
    BY Widths DEF IdsInv, Ids!TypeOK, Ids!Restart
  <2>2. ASSUME p \notin forgot', NEW i \in 1..Len(issued[p])
        PROVE  issued[p][i] < Ids!Encode(clock[p] + 1, NodeOf[p], 0)
    <3>0. 0 \in 0..(Sequence - 1) /\ Ids!Encode(clock[p] + 1, NodeOf[p], 0) \in Nat
      <4>1. 0 \in 0..(Sequence - 1) /\ clock[p] + 1 \in Nat
        BY Widths, <2>1
      <4> QED BY <4>1, EncodeType
    <3>1. CASE lastTimestamp[p] = -1
      <4>1. issued[p][i] < Ids!Encode(clock[p], NodeOf[p], 0)
        BY <2>1, <2>2, <3>1 DEF IdsInv, Ahead
      <4>2. Ids!Encode(clock[p], NodeOf[p], 0) < Ids!Encode(clock[p] + 1, NodeOf[p], 0)
        BY <3>0, <2>1, LaterIsGreater
      <4>3. Ids!Encode(clock[p], NodeOf[p], 0) \in Nat
        BY <3>0, <2>1, EncodeType
      <4> QED BY <4>1, <4>2, <4>3, <3>0, <2>1
    <3>2. CASE lastTimestamp[p] # -1
      <4>0. lastTimestamp[p] \in Nat /\ lastTimestamp[p] < clock[p] + 1
        BY <3>2, <2>1, <2>2
      <4>1. issued[p][i] <= Ids!Encode(lastTimestamp[p], NodeOf[p], sequence[p])
        BY <2>1, <2>2, <3>2 DEF IdsInv, Ahead
      <4>2. Ids!Encode(lastTimestamp[p], NodeOf[p], sequence[p]) < Ids!Encode(clock[p] + 1, NodeOf[p], 0)
        BY <3>0, <4>0, <2>1, LaterIsGreater
      <4>3. Ids!Encode(lastTimestamp[p], NodeOf[p], sequence[p]) \in Nat
        BY <4>0, <2>1, EncodeType
      <4> QED BY <4>1, <4>2, <4>3, <3>0, <2>1
    <3> QED BY <3>1, <3>2
  <2>3. ASSUME p \notin forgot' PROVE Ahead(p)'
    BY <2>1, <2>2, <2>3 DEF Ahead, Ids!Encode
  <2> QED BY <2>1, <2>3 DEF IdsInv, IssuedOK, Increasing, Ids!Encode
<1> QED BY <1>1, <1>2, <1>3 DEF IdsInv

LEMMA NextIds == IdsInv /\ [Ids!Next]_ids => IdsInv'
<1>1. ASSUME IdsInv, Ids!Next PROVE IdsInv'
  BY <1>1, GenerateIds, TickIds, StepBackIds, RestartIds DEF Ids!Next
<1>2. ASSUME IdsInv, UNCHANGED ids PROVE IdsInv'
  BY <1>2 DEF ids, IdsInv, Ids!TypeOK, IssuedOK, Increasing, Ahead, Ids!Encode
<1> QED BY <1>1, <1>2

LEMMA IdsInvIncrease == IdsInv => IdsIncrease
<1> SUFFICES ASSUME IdsInv, NEW p \in Processes \ forgot
             PROVE  /\ \A i, j \in DOMAIN issued[p] : i < j => issued[p][i] < issued[p][j]
                    /\ \A q \in Processes \ {p} : \A i \in DOMAIN issued[p], j \in DOMAIN issued[q] :
                          issued[p][i] # issued[q][j]
  BY DEF IdsIncrease, Ids!IdsIncrease
<1>1. \A q \in Processes : DOMAIN issued[q] = 1..Len(issued[q])
  BY DEF IdsInv, Ids!TypeOK
<1>2. ASSUME NEW q \in Processes \ {p}, NEW i \in 1..Len(issued[p]), NEW j \in 1..Len(issued[q])
      PROVE  issued[p][i] # issued[q][j]
  BY NodesDiffer DEF IdsInv, IssuedOK
<1> QED BY <1>1, <1>2 DEF IdsInv, Increasing

-----------------------------------------------------------------------------
\* The limiter: of the sends of the last WindowMs, all but those of the window
\* that is on are of the one before it, and its first is too old.
Late(p) == {x \in sent[p] : x.at > window[p].resetAt - WindowMs}

WindowOK(p) ==
    /\ \A x \in sent[p] : x.at <= clock[p] /\ x.at > clock[p] - WindowMs
    /\ window[p].count = 0 => sent[p] = {}
    /\ window[p].count > 0 => Cardinality(Late(p)) <= window[p].count - 1
    /\ Cardinality(sent[p]) <= MaxPerWindow - 1 + window[p].count

LimiterType ==
    /\ window \in [Processes -> [count : 0..MaxPerWindow, resetAt : 0..(MaxTime + WindowMs)]]
    /\ sent \in [Processes -> SUBSET Sent]
    /\ \A p \in Processes : IsFiniteSet(sent[p]) /\ (window[p].count = 0 => window[p].resetAt = 0)
    /\ setBack \subseteq Processes

LimiterInv == LimiterType /\ \A p \in Processes : p \notin setBack => WindowOK(p)

LEMMA Limits == MaxPerWindow \in Nat \ {0} /\ WindowMs \in Nat \ {0}
  BY ConstantsAssumption

LEMMA AddOne ==
  ASSUME NEW S, NEW e, IsFiniteSet(S)
  PROVE  /\ IsFiniteSet(S \cup {e})
         /\ Cardinality(S \cup {e}) <= Cardinality(S) + 1
<1>1. Cardinality(S) \in Nat
  BY FS_CardinalityType
<1>2. IsFiniteSet(S \cup {e})
  BY FS_AddElement
<1>3. Cardinality(S \cup {e}) = Cardinality(S) \/ Cardinality(S \cup {e}) = Cardinality(S) + 1
  BY FS_AddElement, Zenon
<1> QED BY <1>1, <1>2, <1>3

LEMMA ClockType ==
  ASSUME Ids!TypeOK, NEW p \in Processes
  PROVE  clock[p] \in 0..MaxTime /\ clock[p] \in Nat
  BY Widths DEF Ids!TypeOK

LEMMA InitLimiter == Init => LimiterInv
<1> SUFFICES ASSUME Init PROVE LimiterInv
  OBVIOUS
<1>1. LimiterType
  BY Widths, Limits, FS_EmptySet DEF Init, LimiterType
<1>2. ASSUME NEW p \in Processes PROVE WindowOK(p)
  BY Limits, FS_EmptySet DEF Init, WindowOK
<1> QED BY <1>1, <1>2 DEF LimiterInv

\* What a process's limiter is about.
LEMMA SameWindow ==
  ASSUME NEW p \in Processes, WindowOK(p), window'[p] = window[p], sent'[p] = sent[p], clock'[p] = clock[p]
  PROVE  WindowOK(p)'
<1>1. Late(p)' = Late(p)
  BY DEF Late
<1> QED BY <1>1 DEF WindowOK

LEMMA CheckSendRateLimiter ==
  ASSUME LimiterInv, Ids!TypeOK, NEW p \in Processes, CheckSendRate(p), UNCHANGED ids
  PROVE  LimiterInv'
<1> DEFINE x == [at |-> clock[p], nth |-> window'[p].count]
           w == window'[p]
<1>1. /\ clock[p] \in 0..MaxTime /\ clock[p] \in Nat /\ clock' = clock /\ setBack' = setBack
      /\ window[p].count \in 0..MaxPerWindow /\ window[p].resetAt \in 0..(MaxTime + WindowMs)
      /\ sent[p] \subseteq Sent /\ IsFiniteSet(sent[p])
  BY ClockType DEF LimiterInv, LimiterType, CheckSendRate, ids
<1>2. /\ WindowOver(p) => w = [count |-> 1, resetAt |-> clock[p] + WindowMs]
      /\ ~WindowOver(p) => /\ w = [count |-> window[p].count + 1, resetAt |-> window[p].resetAt]
                           /\ window[p].count < MaxPerWindow
  <2>1. w = IF WindowOver(p) THEN [count |-> 1, resetAt |-> clock[p] + WindowMs]
                              ELSE [count |-> window[p].count + 1, resetAt |-> window[p].resetAt]
    <3>1. DOMAIN window = Processes
      BY DEF LimiterInv, LimiterType
    <3>2. CASE WindowOver(p)
      BY <3>1, <3>2 DEF CheckSendRate
    <3>3. CASE ~WindowOver(p)
      BY <3>1, <3>3 DEF CheckSendRate
    <3> QED BY <3>2, <3>3
  <2>2. ~WindowOver(p) => window[p].count < MaxPerWindow
    BY DEF CheckSendRate, Allows
  <2> HIDE DEF w
  <2> QED BY <2>1, <2>2
<1>3. /\ w \in [count : 0..MaxPerWindow, resetAt : 0..(MaxTime + WindowMs)] /\ w.count \in 1..MaxPerWindow
      /\ ~WindowOver(p) => w.count = window[p].count + 1 /\ w.resetAt = window[p].resetAt
  <2>1. CASE WindowOver(p)
    BY <2>1, <1>1, <1>2, Widths, Limits
  <2>2. CASE ~WindowOver(p)
    BY <2>2, <1>1, <1>2, Widths, Limits DEF LimiterInv, LimiterType
  <2> QED BY <2>1, <2>2
<1>4. /\ p \in setBack => sent' = sent
      /\ p \notin setBack => sent' = [sent EXCEPT ![p] = sent[p] \cup {x}]
      /\ sent'[p] = IF p \in setBack THEN sent[p] ELSE sent[p] \cup {x}
  BY DEF LimiterInv, LimiterType, CheckSendRate
<1>5. LimiterType'
  <2>1. x \in Sent
    BY <1>1, <1>3 DEF Sent
  <2>2. window' \in [Processes -> [count : 0..MaxPerWindow, resetAt : 0..(MaxTime + WindowMs)]]
    <3>1. \A q \in Processes \ {p} : window'[q] = window[q]
      BY DEF LimiterInv, LimiterType, CheckSendRate
    <3>2. /\ window' = [q \in Processes |-> window'[q]]
          /\ window[p] \in [count : 0..MaxPerWindow, resetAt : 0..(MaxTime + WindowMs)]
      BY DEF LimiterInv, LimiterType, CheckSendRate
    <3> QED BY <3>1, <3>2, <1>3 DEF LimiterInv, LimiterType
  <2>3. sent' \in [Processes -> SUBSET Sent]
    <3> HIDE DEF x
    <3> QED BY <2>1, <1>4, <1>1 DEF LimiterInv, LimiterType
  <2>4. ASSUME NEW q \in Processes PROVE IsFiniteSet(sent'[q])
    <3>1. IsFiniteSet(sent[p] \cup {x})
      BY <1>1, FS_AddElement
    <3>2. sent'[q] = sent[q] \/ sent'[q] = sent[p] \cup {x}
      <4> HIDE DEF x
      <4> QED BY <1>4 DEF LimiterInv, LimiterType
    <3> QED BY <3>1, <3>2 DEF LimiterInv, LimiterType
  <2>5. ASSUME NEW q \in Processes PROVE window'[q].count = 0 => window'[q].resetAt = 0
    <3>1. q # p => window'[q] = window[q]
      BY DEF LimiterInv, LimiterType, CheckSendRate
    <3> QED BY <3>1, <1>3 DEF LimiterInv, LimiterType
  <2> QED BY <1>1, <2>2, <2>3, <2>4, <2>5 DEF LimiterInv, LimiterType, CheckSendRate
<1>6. ASSUME p \notin setBack PROVE WindowOK(p)'
  <2>1. /\ sent'[p] = sent[p] \cup {x} /\ x.at = clock[p]
        /\ WindowOK(p)
    BY <1>4, <1>6 DEF LimiterInv
  <2>2. /\ Cardinality(sent'[p]) <= Cardinality(sent[p]) + 1
        /\ Cardinality(sent[p]) \in Nat /\ Cardinality(sent'[p]) \in Nat
    <3> HIDE DEF x
    <3>1. IsFiniteSet(sent[p] \cup {x})
      BY <1>1, FS_AddElement
    <3>2. Cardinality(sent[p] \cup {x}) <= Cardinality(sent[p]) + 1
      BY <1>1, AddOne
    <3> QED BY <2>1, <3>1, <3>2, <1>1, FS_CardinalityType
  <2>3. \A y \in sent'[p] : y.at <= clock[p] /\ y.at > clock[p] - WindowMs
    BY <2>1, <1>1, Limits DEF WindowOK
  <2>4. CASE WindowOver(p)
    <3>1. Late(p)' = {}
      <4>1. w.resetAt - WindowMs = clock[p]
        BY <2>4, <1>1, <1>2, Limits
      <4>2. \A y \in sent'[p] : ~(y.at > clock[p])
        <5>1. \A y \in sent'[p] : y.at \in Nat
          BY <2>1, <1>1 DEF Sent
        <5> QED BY <5>1, <2>3, <1>1
      <4> QED BY <4>1, <4>2 DEF Late
    <3>2. Cardinality(sent[p]) <= MaxPerWindow - 1
      <4>1. CASE window[p].count = 0
        BY <4>1, <2>1, Limits, FS_EmptySet DEF WindowOK
      <4>2. CASE window[p].count > 0
        <5>1. Late(p) = sent[p]
          BY <2>1, <2>4, <1>1, Limits DEF Late, WindowOK, WindowOver, Sent
        <5> QED BY <5>1, <4>2, <2>1, <2>2, <1>1, Limits DEF WindowOK
      <4> QED BY <4>1, <4>2, <1>1
    <3>3. w.count = 1
      BY <2>4, <1>2
    <3>4. Cardinality(Late(p)') = 0
      BY <3>1, FS_EmptySet
    <3>5. Cardinality(sent'[p]) <= MaxPerWindow - 1 + 1
      BY <3>2, <2>2, Limits
    <3> QED BY <3>3, <3>4, <3>5, <2>3, <1>1 DEF WindowOK
  <2>5. CASE ~WindowOver(p)
    <3>0. window[p].count > 0
      BY <2>5, <1>1 DEF WindowOver, LimiterInv, LimiterType
    <3>1. Late(p)' \subseteq Late(p) \cup {x}
      BY <2>1, <2>5, <1>3 DEF Late
    <3>2. IsFiniteSet(Late(p)) /\ Cardinality(Late(p)) \in Nat
      BY <1>1, FS_Subset, FS_CardinalityType DEF Late
    <3>3. /\ Cardinality(Late(p) \cup {x}) <= Cardinality(Late(p)) + 1 /\ IsFiniteSet(Late(p) \cup {x})
          /\ Cardinality(Late(p) \cup {x}) \in Nat
      <4> HIDE DEF x
      <4>1. IsFiniteSet(Late(p) \cup {x})
        BY <3>2, FS_AddElement
      <4> QED BY <4>1, <3>2, FS_AddElement, FS_CardinalityType
    <3>4. Cardinality(Late(p)') <= Cardinality(Late(p)) + 1 /\ Cardinality(Late(p)') \in Nat
      <4>1. /\ IsFiniteSet(Late(p)') /\ Cardinality(Late(p)') <= Cardinality(Late(p) \cup {x})
            /\ Cardinality(Late(p)') \in Nat
        BY <3>1, <3>3, FS_Subset, FS_CardinalityType
      <4> QED BY <4>1, <3>2, <3>3
    <3>5. Cardinality(Late(p)') <= w.count - 1
      BY <3>0, <3>2, <3>4, <2>1, <2>5, <1>1, <1>3 DEF WindowOK
    <3>6. Cardinality(sent'[p]) <= MaxPerWindow - 1 + w.count
      BY <2>1, <2>2, <2>5, <1>1, <1>3, Limits DEF WindowOK
    <3> QED BY <3>5, <3>6, <2>3, <1>1, <1>3 DEF WindowOK
  <2> QED BY <2>4, <2>5
<1>7. ASSUME NEW q \in Processes, q # p, q \notin setBack PROVE WindowOK(q)'
  <2>1. window'[q] = window[q] /\ sent'[q] = sent[q]
    BY <1>7 DEF LimiterInv, LimiterType, CheckSendRate
  <2> QED BY <2>1, <1>1, <1>7, SameWindow DEF LimiterInv
<1> QED BY <1>1, <1>5, <1>6, <1>7 DEF LimiterInv

LEMMA TickLimiter ==
  ASSUME LimiterInv, Ids!TypeOK, NEW p \in Processes, Tick(p)
  PROVE  LimiterInv'
<1>1. /\ sent' = [sent EXCEPT ![p] = {x \in sent[p] : x.at > clock[p] + 1 - WindowMs}]
      /\ clock' = [clock EXCEPT ![p] = clock[p] + 1] /\ clock[p] \in Nat
      /\ UNCHANGED <<window, setBack>>
  BY ClockType DEF LimiterInv, LimiterType, Tick, Ids!Tick
<1>2. LimiterType'
  <2>1. sent' \in [Processes -> SUBSET Sent]
    BY <1>1 DEF LimiterInv, LimiterType
  <2>2. ASSUME NEW q \in Processes PROVE IsFiniteSet(sent'[q])
    <3>1. sent'[q] \subseteq sent[q] /\ IsFiniteSet(sent[q])
      BY <1>1 DEF LimiterInv, LimiterType
    <3> QED BY <3>1, FS_Subset
  <2> QED BY <2>1, <2>2, <1>1 DEF LimiterInv, LimiterType
<1>3. ASSUME NEW q \in Processes, q \notin setBack PROVE WindowOK(q)'
  <2>1. CASE q = p
    <3>1. /\ sent'[p] = {x \in sent[p] : x.at > clock[p] + 1 - WindowMs} /\ clock'[p] = clock[p] + 1
          /\ sent[p] \subseteq Sent /\ IsFiniteSet(sent[p]) /\ WindowOK(p)
          /\ window[p].count \in Nat
      BY <1>1, <1>3, <2>1, Limits DEF LimiterInv, LimiterType, Ids!TypeOK
    <3>2. \A x \in sent'[p] : x.at <= clock'[p] /\ x.at > clock'[p] - WindowMs
      BY <3>1, <1>1, Limits, Widths DEF WindowOK, Sent
    <3>3. Late(p)' \subseteq Late(p) /\ IsFiniteSet(Late(p))
      BY <3>1, <1>1, FS_Subset DEF Late
    <3>4. /\ Cardinality(Late(p)') <= Cardinality(Late(p)) /\ Cardinality(Late(p)') \in Nat
          /\ Cardinality(Late(p)) \in Nat
      BY <3>3, FS_Subset, FS_CardinalityType
    <3>5. /\ Cardinality(sent'[p]) <= Cardinality(sent[p]) /\ Cardinality(sent'[p]) \in Nat
          /\ Cardinality(sent[p]) \in Nat
      BY <3>1, FS_Subset, FS_CardinalityType
    <3>6. window'[p].count > 0 => Cardinality(Late(p)') <= window'[p].count - 1
      BY <3>1, <3>4, <1>1 DEF WindowOK
    <3>7. Cardinality(sent'[p]) <= MaxPerWindow - 1 + window'[p].count
      BY <3>1, <3>5, <1>1, Limits DEF WindowOK
    <3>8. window'[p].count = 0 => sent'[p] = {}
      BY <3>1, <1>1 DEF WindowOK
    <3> QED BY <2>1, <3>2, <3>6, <3>7, <3>8 DEF WindowOK
  <2>2. CASE q # p
    <3>1. window'[q] = window[q] /\ sent'[q] = sent[q] /\ clock'[q] = clock[q]
      BY <2>2, <1>1 DEF LimiterInv, LimiterType, Ids!TypeOK
    <3> QED BY <3>1, <1>3, SameWindow DEF LimiterInv
  <2> QED BY <2>1, <2>2
<1> QED BY <1>1, <1>2, <1>3 DEF LimiterInv

LEMMA ForgetLimiter ==
  ASSUME LimiterInv, Ids!TypeOK, NEW p \in Processes,
         sent' = [sent EXCEPT ![p] = {}], \A q \in Processes \ {p} : clock'[q] = clock[q],
         \/ window' = window /\ setBack' = setBack \cup {p}
         \/ window' = [window EXCEPT ![p] = [count |-> 0, resetAt |-> 0]] /\ setBack' = setBack \ {p}
  PROVE  LimiterInv'
<1>1. LimiterType'
  <2>1. sent' \in [Processes -> SUBSET Sent] /\ \A q \in Processes : sent'[q] = sent[q] \/ sent'[q] = {}
    BY DEF LimiterInv, LimiterType
  <2>2. \A q \in Processes : IsFiniteSet(sent'[q])
    BY <2>1, FS_EmptySet DEF LimiterInv, LimiterType
  <2>3. window' \in [Processes -> [count : 0..MaxPerWindow, resetAt : 0..(MaxTime + WindowMs)]]
    BY Limits, Widths DEF LimiterInv, LimiterType
  <2>4. ASSUME NEW q \in Processes PROVE window'[q].count = 0 => window'[q].resetAt = 0
    BY DEF LimiterInv, LimiterType
  <2> QED BY <2>1, <2>2, <2>3, <2>4 DEF LimiterInv, LimiterType
<1>2. ASSUME NEW q \in Processes, q \notin setBack' PROVE WindowOK(q)'
  <2>1. CASE q = p
    <3>1. window'[p].count = 0 /\ sent'[p] = {}
      BY <1>2, <2>1 DEF LimiterInv, LimiterType
    <3> QED BY <2>1, <3>1, Limits, FS_EmptySet DEF WindowOK
  <2>2. CASE q # p
    <3>1. window'[q] = window[q] /\ sent'[q] = sent[q] /\ clock'[q] = clock[q] /\ q \notin setBack
      BY <2>2, <1>2 DEF LimiterInv, LimiterType
    <3> QED BY <3>1, SameWindow DEF LimiterInv
  <2> QED BY <2>1, <2>2
<1> QED BY <1>1, <1>2 DEF LimiterInv

\* The other steps leave the limiters alone; ids do not turn the clock.
LEMMA OtherLimiter ==
  ASSUME LimiterInv, UNCHANGED <<limiter, clock>>
  PROVE  LimiterInv'
<1>1. LimiterType'
  BY DEF LimiterInv, LimiterType, limiter
<1>2. ASSUME NEW q \in Processes, q \notin setBack' PROVE WindowOK(q)'
  BY <1>2, SameWindow DEF LimiterInv, limiter
<1> QED BY <1>1, <1>2 DEF LimiterInv

LEMMA LimiterInvBounds == LimiterInv => SendRateIsBounded
<1> SUFFICES ASSUME LimiterInv, NEW p \in Processes, p \notin setBack
             PROVE  Cardinality(sent[p]) <= 2 * MaxPerWindow - 1
  BY DEF SendRateIsBounded
<1>1. /\ Cardinality(sent[p]) <= MaxPerWindow - 1 + window[p].count
      /\ window[p].count \in 0..MaxPerWindow /\ Cardinality(sent[p]) \in Nat
  BY FS_CardinalityType DEF LimiterInv, LimiterType, WindowOK
<1> QED BY <1>1, Limits

-----------------------------------------------------------------------------
\* Deletions: who has told of a message's, and who has found it undeleted and
\* may yet tell.
Told(m) == {e \in events : e.type = "MESSAGE_DELETE" /\ e.message = m}
Opening(m) == {r \in Requests : txn[r].op = "delete" /\ txn[r].message = m}

TxnOK(r) ==
    /\ txn[r].step # "idle" => txn[r].op # "none" /\ txn[r].process \in Processes
    /\ txn[r].step = "newId" => txn[r].op = "send"
    /\ txn[r].step = "update" => txn[r].op = "delete"
    /\ txn[r].op = "delete" => txn[r].message \in rows
    /\ txn[r].step \in {"newEventId", "commit"} => txn[r].message \in Nat

TxnInv ==
    /\ txn \in [Requests -> Txn]
    /\ rows \subseteq Nat /\ deleted \subseteq rows
    /\ \A r \in Requests : TxnOK(r)

Announced == \A m \in Nat : (m \in deleted) = (Told(m) # {})

Counted ==
    \A m \in rows :
        /\ IsFiniteSet(Told(m))
        /\ Cardinality(Told(m)) + Cardinality(Opening(m)) <= Cardinality(Requests)

DeletionInv == TxnInv /\ Announced /\ Counted

LEMMA OpeningFinite ==
  /\ \A m : IsFiniteSet(Opening(m)) /\ Cardinality(Opening(m)) \in Nat
                /\ Cardinality(Opening(m)) <= Cardinality(Requests)
  /\ Cardinality(Requests) \in Nat
<1>1. IsFiniteSet(Requests) /\ Cardinality(Requests) \in Nat
  BY ConstantsAssumption, FS_CardinalityType
<1>2. ASSUME NEW m
      PROVE  /\ IsFiniteSet(Opening(m)) /\ Cardinality(Opening(m)) \in Nat
             /\ Cardinality(Opening(m)) <= Cardinality(Requests)
  <2>1. Opening(m) \subseteq Requests
    BY DEF Opening
  <2> QED BY <1>1, <2>1, FS_Subset, FS_CardinalityType
<1> QED BY <1>1, <1>2

LEMMA InitDeletion == Init => DeletionInv
<1> SUFFICES ASSUME Init PROVE DeletionInv
  OBVIOUS
<1>1. TxnInv
  BY DEF Init, TxnInv, Txn, TxnOK, Idle
<1>2. Announced
  BY DEF Init, Announced, Told
<1>3. Counted
  BY DEF Init, Counted
<1> QED BY <1>1, <1>2, <1>3 DEF DeletionInv

\* A step that commits nothing and opens no deletion.
LEMMA QuietStep ==
  ASSUME DeletionInv, TxnInv', UNCHANGED store,
         \A r \in Requests : txn'[r].op = "delete" => txn[r].op = "delete" /\ txn'[r].message = txn[r].message
  PROVE  DeletionInv'
<1>1. Announced'
  BY DEF DeletionInv, Announced, Told, store
<1>2. ASSUME NEW m \in rows
      PROVE  /\ IsFiniteSet(Told(m)')
             /\ Cardinality(Told(m)') + Cardinality(Opening(m)') <= Cardinality(Requests)
  <2>1. Told(m)' = Told(m)
    BY DEF Told, store
  <2>2. Opening(m)' \subseteq Opening(m) /\ IsFiniteSet(Opening(m))
    BY OpeningFinite DEF Opening
  <2>3. /\ Cardinality(Opening(m)') <= Cardinality(Opening(m)) /\ Cardinality(Opening(m)') \in Nat
        /\ Cardinality(Opening(m)) \in Nat
    BY <2>2, FS_Subset, FS_CardinalityType
  <2>4. IsFiniteSet(Told(m)) /\ Cardinality(Told(m)) \in Nat
        /\ Cardinality(Told(m)) + Cardinality(Opening(m)) <= Cardinality(Requests)
    BY FS_CardinalityType DEF DeletionInv, Counted
  <2> QED BY <2>1, <2>3, <2>4, OpeningFinite
<1>3. Counted'
  BY <1>2 DEF Counted, store
<1> QED BY <1>1, <1>3 DEF DeletionInv

LEMMA SendDeletion ==
  ASSUME DeletionInv, NEW r \in Requests, NEW p \in Processes, Send(r, p)
  PROVE  DeletionInv'
<1>1. /\ txn'[r] = [Idle EXCEPT !.op = "send", !.step = "newId", !.process = p]
      /\ \A q \in Requests \ {r} : txn'[q] = txn[q]
      /\ txn' \in [Requests -> Txn] /\ UNCHANGED store
  BY DEF DeletionInv, TxnInv, Txn, Idle, Send
<1>2. TxnInv'
  <2>1. ASSUME NEW q \in Requests
        PROVE  TxnOK(q)'
    <3>1. TxnOK(q) /\ rows' = rows
      BY <1>1 DEF DeletionInv, TxnInv, store
    <3>2. CASE q # r
      BY <3>1, <3>2, <1>1 DEF TxnOK
    <3>3. CASE q = r
      <4>1. txn'[r].op = "send" /\ txn'[r].step = "newId" /\ txn'[r].process = p
        BY <1>1 DEF Idle
      <4> QED BY <4>1, <3>3 DEF TxnOK
    <3> QED BY <3>2, <3>3
  <2> QED BY <1>1, <2>1 DEF DeletionInv, TxnInv, store
<1> QED BY <1>1, <1>2, QuietStep DEF Idle

\* The call ends: COMMIT apart.
LEMMA EndDeletion ==
  ASSUME DeletionInv, NEW R \in SUBSET Requests, UNCHANGED store,
         txn' = [q \in Requests |-> IF q \in R THEN Idle ELSE txn[q]]
  PROVE  DeletionInv'
<1>1. txn' \in [Requests -> Txn] /\ \A q \in Requests : txn'[q] = txn[q] \/ txn'[q] = Idle
  BY DEF DeletionInv, TxnInv, Txn, Idle
<1>2. TxnInv'
  BY <1>1 DEF DeletionInv, TxnInv, TxnOK, Idle, store
<1> QED BY <1>1, <1>2, QuietStep DEF Idle

LEMMA EndIs ==
  ASSUME DeletionInv, NEW r \in Requests, End(r)
  PROVE  txn' = [q \in Requests |-> IF q \in {r} THEN Idle ELSE txn[q]]
  BY DEF DeletionInv, TxnInv, End

LEMMA NewIdDeletion ==
  ASSUME DeletionInv, IdsInv, NEW r \in Requests, NewId(r)
  PROVE  DeletionInv'
<1> DEFINE m == Ids!NextId(txn[r].process)
<1>1. m \in Nat /\ txn[r].op = "send" /\ txn[r] \in Txn /\ UNCHANGED store
  BY NextIdType DEF DeletionInv, TxnInv, TxnOK, IdsInv, NewId
<1>2. txn' = [txn EXCEPT ![r] = IF m \in rows THEN Idle
                                ELSE [txn[r] EXCEPT !.step = "newEventId", !.message = m]]
  BY DEF NewId
<1> HIDE DEF m
<1>3. /\ \/ txn'[r] = Idle
         \/ /\ txn'[r] \in Txn /\ txn'[r].op = "send" /\ txn'[r].message = m
            /\ txn'[r].process = txn[r].process /\ txn'[r].step = "newEventId"
      /\ \A q \in Requests \ {r} : txn'[q] = txn[q]
      /\ txn' \in [Requests -> Txn]
  BY <1>1, <1>2 DEF DeletionInv, TxnInv, Txn, Idle
<1>4. txn[r].step = "newId"
  BY DEF NewId
<1>5. TxnInv'
  BY <1>1, <1>3, <1>4 DEF DeletionInv, TxnInv, TxnOK, Idle, store
<1> QED BY <1>1, <1>3, <1>5, QuietStep DEF Idle

LEMMA SoftDeleteDeletion ==
  ASSUME DeletionInv, NEW r \in Requests, SoftDelete(r)
  PROVE  DeletionInv'
<1>1. /\ txn' = [txn EXCEPT ![r].step = "newEventId"] /\ txn[r].step = "update" /\ UNCHANGED store
  BY DEF SoftDelete, Goto
<1>2. /\ txn'[r].op = txn[r].op /\ txn'[r].message = txn[r].message /\ txn'[r].process = txn[r].process
      /\ txn'[r].step = "newEventId"
      /\ \A q \in Requests \ {r} : txn'[q] = txn[q]
      /\ txn' \in [Requests -> Txn]
  BY <1>1 DEF DeletionInv, TxnInv, Txn
<1>3. TxnInv'
  BY <1>1, <1>2 DEF DeletionInv, TxnInv, TxnOK, store
<1> QED BY <1>1, <1>2, <1>3, QuietStep

LEMMA NewEventIdDeletion ==
  ASSUME DeletionInv, IdsInv, NEW r \in Requests, NewEventId(r)
  PROVE  DeletionInv'
<1> DEFINE e == Ids!NextId(txn[r].process)
<1>1. e \in Nat /\ txn[r] \in Txn /\ UNCHANGED store /\ txn[r].step = "newEventId"
  BY NextIdType DEF DeletionInv, TxnInv, TxnOK, IdsInv, NewEventId
<1>2. txn' = [txn EXCEPT ![r] = IF e \in EventIds THEN Idle
                                ELSE [txn[r] EXCEPT !.step = "commit", !.event = e]]
  BY DEF NewEventId
<1> HIDE DEF e
<1>3. /\ \/ txn'[r] = Idle
         \/ /\ txn'[r] \in Txn /\ txn'[r].op = txn[r].op /\ txn'[r].message = txn[r].message
            /\ txn'[r].process = txn[r].process /\ txn'[r].step = "commit"
      /\ \A q \in Requests \ {r} : txn'[q] = txn[q]
      /\ txn' \in [Requests -> Txn]
  BY <1>1, <1>2 DEF DeletionInv, TxnInv, Txn, Idle
<1>4. TxnInv'
  BY <1>1, <1>3 DEF DeletionInv, TxnInv, TxnOK, Idle, store
<1> QED BY <1>1, <1>3, <1>4, QuietStep DEF Idle

\* Whoever opens a deletion finds nobody who has told.
LEMMA DeleteDeletion ==
  ASSUME DeletionInv, NEW r \in Requests, NEW p \in Processes, NEW n \in rows, Delete(r, p, n)
  PROVE  DeletionInv'
<1>1. /\ txn'[r] = [Idle EXCEPT !.op = "delete", !.step = "update", !.process = p, !.message = n]
      /\ \A q \in Requests \ {r} : txn'[q] = txn[q]
      /\ txn' \in [Requests -> Txn] /\ UNCHANGED store /\ n \notin deleted /\ n \in Nat
      /\ txn[r].step = "idle"
  BY DEF DeletionInv, TxnInv, Txn, Idle, Delete
<1>a. /\ txn'[r].op = "delete" /\ txn'[r].step = "update" /\ txn'[r].process = p
      /\ txn'[r].message = n
  BY <1>1 DEF Idle
<1>2. TxnInv'
  <2>1. TxnOK(r)'
    BY <1>1, <1>a DEF TxnOK, store
  <2>2. ASSUME NEW q \in Requests \ {r} PROVE TxnOK(q)'
    BY <1>1 DEF DeletionInv, TxnInv, TxnOK, store
  <2> QED BY <1>1, <2>1, <2>2 DEF DeletionInv, TxnInv, store
<1>3. Announced'
  BY <1>1 DEF DeletionInv, Announced, Told, store
<1>4. ASSUME NEW m \in rows
      PROVE  /\ IsFiniteSet(Told(m)')
             /\ Cardinality(Told(m)') + Cardinality(Opening(m)') <= Cardinality(Requests)
  <2>1. Told(m)' = Told(m) /\ IsFiniteSet(Told(m)) /\ Cardinality(Told(m)) \in Nat
    BY <1>1, FS_CardinalityType DEF Told, store, DeletionInv, Counted
  <2>2. CASE m = n
    <3>1. Told(m) = {}
      BY <1>1, <2>2 DEF DeletionInv, Announced
    <3>2. Cardinality(Told(m)) = 0
      BY <3>1, FS_EmptySet
    <3>3. Opening(m)' \subseteq Requests
      BY DEF Opening
    <3>4. Cardinality(Opening(m)') <= Cardinality(Requests) /\ Cardinality(Opening(m)') \in Nat
      BY <3>3, ConstantsAssumption, FS_Subset, FS_CardinalityType
    <3> QED BY <2>1, <3>2, <3>4, OpeningFinite
  <2>3. CASE m # n
    <3>1. Opening(m)' \subseteq Opening(m) /\ IsFiniteSet(Opening(m))
      BY <1>1, <2>3, OpeningFinite DEF Opening, Idle
    <3>2. Cardinality(Opening(m)') <= Cardinality(Opening(m)) /\ Cardinality(Opening(m)') \in Nat
          /\ Cardinality(Opening(m)) \in Nat
      BY <3>1, FS_Subset, FS_CardinalityType
    <3>3. Cardinality(Told(m)) + Cardinality(Opening(m)) <= Cardinality(Requests)
      BY DEF DeletionInv, Counted
    <3> QED BY <2>1, <3>2, <3>3, OpeningFinite
  <2> QED BY <2>2, <2>3
<1>5. Counted'
  BY <1>1, <1>4 DEF Counted, store
<1> QED BY <1>2, <1>3, <1>5 DEF DeletionInv

\* COMMIT: a deletion that was open has told.
LEMMA CommitDeletion ==
  ASSUME DeletionInv, NEW r \in Requests, Commit(r)
  PROVE  DeletionInv'
<1> DEFINE x == txn[r]
           e == [type |-> IF x.op = "send" THEN "MESSAGE_CREATE" ELSE "MESSAGE_DELETE",
                 message |-> x.message, id |-> x.event]
<1>1. /\ x \in Txn /\ x.step = "commit" /\ x.message \in Nat /\ x.op \in {"send", "delete"}
      /\ x.op = "delete" => x.message \in rows
  BY DEF DeletionInv, TxnInv, TxnOK, Txn, Commit
<1>2. /\ txn' = [txn EXCEPT ![r] = Idle] /\ events' = events \cup {e}
      /\ x.op = "send" => rows' = rows \cup {x.message} /\ deleted' = deleted
      /\ x.op = "delete" => deleted' = deleted \cup {x.message} /\ rows' = rows
  BY <1>1 DEF Commit, End
<1>3. /\ txn'[r].op = "none" /\ txn'[r].step = "idle"
      /\ \A q \in Requests \ {r} : txn'[q] = txn[q]
      /\ txn' \in [Requests -> Txn]
  BY <1>2 DEF DeletionInv, TxnInv, Txn, Idle
<1>4. /\ e.message = x.message
      /\ x.op = "send" => e.type = "MESSAGE_CREATE"
      /\ x.op = "delete" => e.type = "MESSAGE_DELETE"
  BY <1>1
<1> HIDE DEF e, x
<1>5. rows \subseteq rows' /\ rows' \subseteq Nat /\ deleted' \subseteq rows'
  BY <1>1, <1>2 DEF DeletionInv, TxnInv
<1>6. TxnInv'
  <2>1. TxnOK(r)'
    BY <1>3 DEF TxnOK
  <2>2. ASSUME NEW q \in Requests \ {r} PROVE TxnOK(q)'
    BY <1>3, <1>5 DEF DeletionInv, TxnInv, TxnOK
  <2> QED BY <1>3, <1>5, <2>1, <2>2 DEF TxnInv
<1>7. ASSUME NEW m
      PROVE  Told(m)' = IF x.op = "delete" /\ m = x.message THEN Told(m) \cup {e} ELSE Told(m)
  BY <1>1, <1>2, <1>4 DEF Told
<1>8. Announced'
  BY <1>1, <1>2, <1>7 DEF DeletionInv, Announced
<1>9. ASSUME NEW m \in rows'
      PROVE  /\ IsFiniteSet(Told(m)')
             /\ Cardinality(Told(m)') + Cardinality(Opening(m)') <= Cardinality(Requests)
  <2>1. Opening(m)' \subseteq Opening(m) /\ IsFiniteSet(Opening(m))
    BY <1>3, OpeningFinite DEF Opening
  <2>2. Cardinality(Opening(m)') <= Cardinality(Opening(m)) /\ Cardinality(Opening(m)') \in Nat
        /\ Cardinality(Opening(m)) \in Nat /\ Cardinality(Opening(m)) <= Cardinality(Requests)
    BY <2>1, OpeningFinite, FS_Subset, FS_CardinalityType
  <2>3. CASE m \notin rows
    <3>1. Told(m) = {} /\ x.op # "delete"
      BY <2>3, <1>1, <1>2, <1>5, <1>9 DEF DeletionInv, TxnInv, Announced
    <3>2. Told(m)' = {}
      BY <3>1, <1>7
    <3> QED BY <3>2, <2>2, FS_EmptySet, OpeningFinite
  <2>4. CASE m \in rows
    <3>1. /\ IsFiniteSet(Told(m)) /\ Cardinality(Told(m)) \in Nat
          /\ Cardinality(Told(m)) + Cardinality(Opening(m)) <= Cardinality(Requests)
      BY <2>4, FS_CardinalityType DEF DeletionInv, Counted
    <3>2. CASE x.op = "delete" /\ m = x.message
      <4>1. Told(m)' = Told(m) \cup {e}
        BY <3>2, <1>7
      <4>2. r \in Opening(m) /\ Opening(m)' = Opening(m) \ {r}
        BY <3>2, <1>3 DEF Opening, x
      <4>3. Cardinality(Opening(m)') = Cardinality(Opening(m)) - 1
        BY <2>1, <4>2, FS_RemoveElement
      <4>4. IsFiniteSet(Told(m)') /\ Cardinality(Told(m)') <= Cardinality(Told(m)) + 1
        BY <3>1, <4>1, AddOne
      <4>5. Cardinality(Told(m)') \in Nat
        BY <4>4, FS_CardinalityType
      <4> QED BY <3>1, <4>3, <4>4, <4>5, <2>2, OpeningFinite
    <3>3. CASE ~(x.op = "delete" /\ m = x.message)
      <4>1. Told(m)' = Told(m)
        BY <3>3, <1>7
      <4> QED BY <4>1, <3>1, <2>2, OpeningFinite
    <3> QED BY <3>2, <3>3
  <2> QED BY <2>3, <2>4
<1>10. Counted'
  BY <1>9 DEF Counted
<1> QED BY <1>6, <1>8, <1>10 DEF DeletionInv

LEMMA OtherDeletion ==
  ASSUME DeletionInv, UNCHANGED <<store, txn>>
  PROVE  DeletionInv'
<1>1. TxnInv'
  BY DEF DeletionInv, TxnInv, TxnOK, store
<1> QED BY <1>1, QuietStep

LEMMA DeletionInvAnnounces == DeletionInv => DeletionsAreAnnounced
<1> SUFFICES ASSUME DeletionInv, NEW m \in rows
             PROVE  /\ (m \in deleted) = (Told(m) # {})
                    /\ Cardinality(Told(m)) <= Cardinality(Requests)
  BY DEF DeletionsAreAnnounced, Told
<1>1. (m \in deleted) = (Told(m) # {})
  BY DEF DeletionInv, TxnInv, Announced
<1>2. Cardinality(Told(m)) \in Nat /\ Cardinality(Told(m)) + Cardinality(Opening(m)) <= Cardinality(Requests)
  BY FS_CardinalityType DEF DeletionInv, Counted
<1> QED BY <1>1, <1>2, OpeningFinite

-----------------------------------------------------------------------------
\* Induction, from the least element of a set of natural numbers.
LEMMA LeastElement ==
  ASSUME NEW S, S \subseteq Nat, S # {}
  PROVE  \E m \in S : \A n \in S : m <= n
<1> DEFINE less == {p \in Nat \X Nat : p[1] < p[2]}
<1>1. IsWellFoundedOn(less, Nat)
  BY NatLessThanWellFounded DEF OpToRel
<1>2. \A x, y \in Nat : x < y => <<x, y>> \in less
  OBVIOUS
<1> HIDE DEF less
<1>3. \E x \in S : \A y \in S : ~(<<y, x>> \in less)
  BY <1>1, WFMin
<1>4. PICK m \in S : \A y \in S : ~(<<y, m>> \in less)
  BY <1>3
<1>5. \A n \in S : m <= n
  <2> SUFFICES ASSUME NEW n \in S PROVE m <= n
    OBVIOUS
  <2>1. ~(n < m)
    BY <1>2, <1>4
  <2> QED BY <2>1
<1> QED BY <1>5

LEMMA Induction ==
  ASSUME NEW S, 0 \in S, \A n \in Nat : n \in S => n + 1 \in S
  PROVE  Nat \subseteq S
<1> SUFFICES ASSUME Nat \ S # {} PROVE FALSE
  OBVIOUS
<1>1. PICK m \in Nat \ S : \A n \in Nat \ S : m <= n
  BY LeastElement
<1>2. m # 0 /\ m - 1 \in Nat /\ ~(m <= m - 1) /\ m = (m - 1) + 1
  BY <1>1
<1>3. m - 1 \in S
  BY <1>1, <1>2
<1> QED BY <1>1, <1>2, <1>3

-----------------------------------------------------------------------------
\* The recursive function TenTo exists: it is put together from its values up
\* to each n, which the recursion determines.
Powers(n, f) == /\ f \in [0..n -> Nat \ {0}]
                /\ f[0] = 1
                /\ \A k \in 0..(n - 1) : f[k + 1] = 10 * f[k]

LEMMA PowersExist == \A n \in Nat : \E f : Powers(n, f)
<1> DEFINE S == {n \in Nat : \E f : Powers(n, f)}
<1>1. 0 \in S
  <2>1. Powers(0, [k \in 0..0 |-> 1])
    BY DEF Powers
  <2> QED BY <2>1
<1>2. ASSUME NEW n \in Nat, n \in S
      PROVE  n + 1 \in S
  <2>1. PICK f : Powers(n, f)
    BY <1>2
  <2> DEFINE g == [k \in 0..(n + 1) |-> IF k = n + 1 THEN 10 * f[n] ELSE f[k]]
  <2>2. f \in [0..n -> Nat \ {0}] /\ f[n] \in Nat \ {0}
    BY <2>1 DEF Powers
  <2>3. g \in [0..(n + 1) -> Nat \ {0}]
    BY <2>2
  <2>4. g[0] = 1
    BY <2>1 DEF Powers
  <2>5. ASSUME NEW k \in 0..n PROVE g[k + 1] = 10 * g[k]
    <3>1. CASE k = n
      BY <3>1
    <3>2. CASE k # n
      <4>1. k \in 0..(n - 1) /\ g[k + 1] = f[k + 1] /\ g[k] = f[k]
        BY <3>2
      <4> QED BY <4>1, <2>1 DEF Powers
    <3> QED BY <3>1, <3>2
  <2>6. Powers(n + 1, g)
    <3> HIDE DEF g
    <3>1. (n + 1) - 1 = n
      OBVIOUS
    <3> QED BY <3>1, <2>3, <2>4, <2>5 DEF Powers
  <2> QED BY <2>6
<1> HIDE DEF S
<1>3. Nat \subseteq S
  BY <1>1, <1>2, Induction
<1> QED BY <1>3 DEF S

LEMMA PowersUnique ==
  ASSUME NEW n \in Nat, NEW m \in Nat, n <= m, NEW f, NEW g, Powers(n, f), Powers(m, g)
  PROVE  f[n] = g[n]
<1> DEFINE S == {k \in Nat : k <= n => f[k] = g[k]}
<1>1. 0 \in S
  BY DEF Powers
<1>2. ASSUME NEW k \in Nat, k \in S PROVE k + 1 \in S
  <2>1. CASE k + 1 <= n
    <3>1. k \in 0..(n - 1) /\ k \in 0..(m - 1) /\ f[k] = g[k]
      BY <1>2, <2>1
    <3>2. f[k + 1] = 10 * f[k] /\ g[k + 1] = 10 * g[k]
      BY <3>1 DEF Powers
    <3> QED BY <3>1, <3>2
  <2> QED BY <2>1
<1> HIDE DEF S
<1>3. n \in S
  BY <1>1, <1>2, Induction
<1> QED BY <1>3 DEF S

LEMMA TenToExists ==
  \E f : f = [d \in Nat |-> IF d = 0 THEN 1 ELSE 10 * f[d - 1]]
<1> DEFINE p(d) == CHOOSE f : Powers(d, f)
           t == [d \in Nat |-> p(d)[d]]
<1>1. \A d \in Nat : Powers(d, p(d))
  BY PowersExist
<1>2. t[0] = 1
  BY <1>1 DEF Powers
<1>3. ASSUME NEW d \in Nat, d # 0 PROVE t[d] = 10 * t[d - 1]
  <2>1. d - 1 \in Nat /\ d - 1 <= d /\ (d - 1) + 1 = d /\ d - 1 \in 0..(d - 1)
    BY <1>3
  <2>2. Powers(d, p(d)) /\ Powers(d - 1, p(d - 1))
    BY <1>1, <2>1
  <2> HIDE DEF p
  <2>3. p(d)[(d - 1) + 1] = 10 * p(d)[d - 1]
    BY <2>1, <2>2 DEF Powers
  <2>4. p(d - 1)[d - 1] = p(d)[d - 1]
    BY <2>1, <2>2, PowersUnique
  <2> QED BY <2>1, <2>3, <2>4
<1>4. t = [d \in Nat |-> IF d = 0 THEN 1 ELSE 10 * t[d - 1]]
  <2> DEFINE u == [d \in Nat |-> IF d = 0 THEN 1 ELSE 10 * t[d - 1]]
  <2>1. \A d \in Nat : t[d] = u[d]
    <3> HIDE DEF t
    <3> QED BY <1>2, <1>3
  <2>2. t = [d \in Nat |-> t[d]] /\ u = [d \in Nat |-> u[d]]
    <3>1. DOMAIN t = Nat /\ DOMAIN u = Nat
      OBVIOUS
    <3> QED OBVIOUS
  <2> HIDE DEF t, u
  <2>3. t = u
    BY <2>1, <2>2
  <2> QED BY <2>3 DEF u
<1> HIDE DEF t
<1> QED BY <1>4

LEMMA TenToRecursion ==
  TenTo = [d \in Nat |-> IF d = 0 THEN 1 ELSE 10 * TenTo[d - 1]]
BY TenToExists DEF TenTo

LEMMA TenToZero == TenTo[0] = 1
  BY TenToRecursion

LEMMA TenToNext ==
  ASSUME NEW d \in Nat
  PROVE  TenTo[d + 1] = 10 * TenTo[d]
<1>1. d + 1 \in Nat /\ d + 1 # 0 /\ (d + 1) - 1 = d
  OBVIOUS
<1> QED BY <1>1, TenToRecursion

LEMMA TenToType == \A d \in Nat : TenTo[d] \in Nat \ {0}
<1> DEFINE S == {d \in Nat : TenTo[d] \in Nat \ {0}}
<1>1. 0 \in S
  BY TenToZero
<1>2. ASSUME NEW d \in Nat, d \in S PROVE d + 1 \in S
  BY <1>2, TenToNext
<1> HIDE DEF S
<1>3. Nat \subseteq S
  BY <1>1, <1>2, Induction
<1> QED BY <1>3 DEF S

LEMMA TenToSum ==
  ASSUME NEW a \in Nat, NEW b \in Nat
  PROVE  TenTo[a + b] = TenTo[a] * TenTo[b]
<1> DEFINE S == {d \in Nat : TenTo[a + d] = TenTo[a] * TenTo[d]}
<1>1. 0 \in S
  BY TenToZero, TenToType
<1>2. ASSUME NEW d \in Nat, d \in S PROVE d + 1 \in S
  <2> DEFINE x == TenTo[a]
             y == TenTo[d]
             z == TenTo[a + d]
  <2>1. x \in Nat /\ y \in Nat /\ z \in Nat /\ z = x * y
    BY <1>2, TenToType
  <2>2. TenTo[d + 1] = 10 * y /\ TenTo[(a + d) + 1] = 10 * z
    BY TenToNext
  <2>3. 10 * (x * y) = x * (10 * y)
    <3> HIDE DEF x, y, z
    <3> QED BY <2>1
  <2>4. a + (d + 1) = (a + d) + 1
    OBVIOUS
  <2> HIDE DEF z
  <2>5. TenTo[a + (d + 1)] = x * TenTo[d + 1]
    BY <2>1, <2>2, <2>3, <2>4
  <2> QED BY <2>5
<1> HIDE DEF S
<1>3. b \in S
  BY <1>1, <1>2, Induction
<1> QED BY <1>3 DEF S

LEMMA TenToGrows == \A d \in Nat : d < TenTo[d]
<1> DEFINE S == {d \in Nat : d < TenTo[d]}
<1>1. 0 \in S
  BY TenToZero
<1>2. ASSUME NEW d \in Nat, d \in S PROVE d + 1 \in S
  <2>1. TenTo[d + 1] = 10 * TenTo[d] /\ TenTo[d] \in Nat /\ d < TenTo[d]
    BY <1>2, TenToNext, TenToType
  <2> QED BY <2>1
<1> HIDE DEF S
<1>3. Nat \subseteq S
  BY <1>1, <1>2, Induction
<1> QED BY <1>3 DEF S

\* Every number has its number of digits.
LEMMA DigitsType ==
  ASSUME NEW n \in Nat
  PROVE  /\ Digits(n) \in Nat \ {0}
         /\ n < TenTo[Digits(n)]
         /\ Digits(n) > 1 => n >= TenTo[Digits(n) - 1]
<1> DEFINE Enough == {d \in 1..(n + 1) : n < TenTo[d]}
<1>1. n + 1 \in Enough
  <2>1. n + 1 < TenTo[n + 1] /\ TenTo[n + 1] \in Nat
    BY TenToGrows, TenToType
  <2> QED BY <2>1
<1>2. PICK d \in Enough : \A c \in Enough : d <= c
  <2>1. Enough \subseteq Nat /\ Enough # {}
    BY <1>1
  <2> HIDE DEF Enough
  <2> QED BY <2>1, LeastElement
<1>3. ASSUME d > 1 PROVE n >= TenTo[d - 1]
  <2>1. d - 1 \in 1..(n + 1) /\ ~(d <= d - 1)
    BY <1>3
  <2>2. ~(n < TenTo[d - 1])
    BY <1>2, <2>1
  <2>3. TenTo[d - 1] \in Nat
    BY <2>1, TenToType
  <2> QED BY <2>2, <2>3
<1>4. \E k \in 1..(n + 1) : n < TenTo[k] /\ (k > 1 => n >= TenTo[k - 1])
  BY <1>2, <1>3
<1>5. /\ Digits(n) \in 1..(n + 1)
      /\ n < TenTo[Digits(n)] /\ (Digits(n) > 1 => n >= TenTo[Digits(n) - 1])
  BY <1>4 DEF Digits
<1> QED BY <1>5

-----------------------------------------------------------------------------
\* The order of the ids is a total order: written with zeros behind them up to
\* the same length, ids are ordered as numbers, and of two that are then the
\* same the one with fewer digits comes first.
Padded(n, length) == n * TenTo[length - Digits(n)]

PaddedLess(a, b, length) ==
    \/ Padded(a, length) < Padded(b, length)
    \/ Padded(a, length) = Padded(b, length) /\ Digits(a) < Digits(b)

LEMMA TimesOrder ==
  ASSUME NEW a \in Nat, NEW b \in Nat, NEW c \in Nat \ {0}
  PROVE  /\ a * c \in Nat /\ b * c \in Nat
         /\ a < b <=> a * c < b * c
         /\ a = b <=> a * c = b * c
<1>1. a * c \in Nat /\ b * c \in Nat
  OBVIOUS
<1>2. ASSUME NEW x \in Nat, NEW y \in Nat, x < y PROVE x * c < y * c
  <2>1. y = x + 1 + (y - x - 1) /\ y - x - 1 \in Nat
    BY <1>2
  <2>2. y * c = x * c + c + (y - x - 1) * c
    BY <2>1
  <2>3. x * c \in Nat /\ (y - x - 1) * c \in Nat
    BY <2>1
  <2> QED BY <2>2, <2>3
<1>3. a < b => a * c < b * c
  BY <1>2
<1>4. b < a => b * c < a * c
  BY <1>2
<1>5. a = b => a * c = b * c
  OBVIOUS
<1> QED BY <1>1, <1>3, <1>4, <1>5

LEMMA TextLessPadded ==
  ASSUME NEW a \in Nat, NEW b \in Nat, NEW length \in Nat,
         Digits(a) <= length, Digits(b) <= length
  PROVE  /\ TextLess(a, b) <=> PaddedLess(a, b, length)
         /\ Padded(a, length) \in Nat /\ Padded(b, length) \in Nat
<1> DEFINE p == Digits(a)
           q == Digits(b)
<1>1. p \in Nat /\ q \in Nat /\ p <= length /\ q <= length
  BY DigitsType
<1> HIDE DEF p, q
<1>2. /\ length - p \in Nat /\ length - q \in Nat
      /\ TenTo[length - p] \in Nat \ {0} /\ TenTo[length - q] \in Nat \ {0}
  BY <1>1, TenToType
<1>3. /\ Padded(a, length) = a * TenTo[length - p]
      /\ Padded(b, length) = b * TenTo[length - q]
      /\ Padded(a, length) \in Nat /\ Padded(b, length) \in Nat
  <2>1. a * TenTo[length - p] \in Nat /\ b * TenTo[length - q] \in Nat
    BY <1>2
  <2> QED BY <2>1 DEF Padded, p, q
<1>4. CASE q - p > 0
  <2>1. q - p \in Nat /\ length - p = (q - p) + (length - q)
    BY <1>1, <1>4
  <2>2. TenTo[length - p] = TenTo[q - p] * TenTo[length - q] /\ TenTo[q - p] \in Nat
    BY <2>1, <1>2, TenToSum, TenToType
  <2> DEFINE x == a * TenTo[q - p]
             c == TenTo[length - q]
  <2>3. x \in Nat /\ c \in Nat \ {0} /\ Padded(b, length) = b * c
    BY <2>2, <1>2, <1>3
  <2>4. Padded(a, length) = x * c
    <3> DEFINE t == TenTo[q - p]
    <3>1. t \in Nat /\ Padded(a, length) = a * (t * c)
      BY <2>2, <1>3
    <3> HIDE DEF t, c
    <3>2. a * (t * c) = (a * t) * c
      BY <3>1, <2>3
    <3> QED BY <3>1, <3>2 DEF t
  <2>5. TextLess(a, b) <=> x <= b
    BY <1>4 DEF TextLess, p, q
  <2> HIDE DEF x, c
  <2>6. x < b <=> x * c < b * c
    BY <2>3, TimesOrder
  <2>7. x = b <=> x * c = b * c
    BY <2>3, TimesOrder
  <2>8. TextLess(a, b) <=> Padded(a, length) < Padded(b, length) \/ Padded(a, length) = Padded(b, length)
    BY <2>3, <2>4, <2>5, <2>6, <2>7
  <2>9. p < q
    BY <1>1, <1>4
  <2> QED BY <2>8, <2>9, <1>3 DEF PaddedLess, p, q
<1>5. CASE ~(q - p > 0)
  <2>1. p - q \in Nat /\ -(q - p) = p - q /\ length - q = (p - q) + (length - p)
    BY <1>1, <1>5
  <2>2. TenTo[length - q] = TenTo[p - q] * TenTo[length - p] /\ TenTo[p - q] \in Nat
    BY <2>1, <1>2, TenToSum, TenToType
  <2> DEFINE x == b * TenTo[p - q]
             c == TenTo[length - p]
  <2>3. x \in Nat /\ c \in Nat \ {0} /\ Padded(a, length) = a * c
    BY <2>2, <1>2, <1>3
  <2>4. Padded(b, length) = x * c
    <3> DEFINE t == TenTo[p - q]
    <3>1. t \in Nat /\ Padded(b, length) = b * (t * c)
      BY <2>2, <1>3
    <3> HIDE DEF t, c
    <3>2. b * (t * c) = (b * t) * c
      BY <3>1, <2>3
    <3> QED BY <3>1, <3>2 DEF t
  <2>5. TextLess(a, b) <=> a < x
    BY <2>1, <1>5 DEF TextLess, p, q
  <2> HIDE DEF x, c
  <2>6. a < x <=> a * c < x * c
    BY <2>3, TimesOrder
  <2>7. ~(p < q)
    BY <1>1, <1>5
  <2> QED BY <2>3, <2>4, <2>5, <2>6, <2>7, <1>3 DEF PaddedLess, p, q
<1> QED BY <1>3, <1>4, <1>5

LEMMA TextLessIrreflexive ==
  ASSUME NEW a \in Nat
  PROVE  ~TextLess(a, a)
<1>1. Digits(a) \in Nat /\ Digits(a) <= Digits(a)
  BY DigitsType
<1>2. /\ TextLess(a, a) <=> PaddedLess(a, a, Digits(a))
      /\ Padded(a, Digits(a)) \in Nat
  BY <1>1, TextLessPadded
<1> QED BY <1>1, <1>2 DEF PaddedLess

LEMMA TextLessTransitive ==
  ASSUME NEW a \in Nat, NEW b \in Nat, NEW c \in Nat, TextLess(a, b), TextLess(b, c)
  PROVE  TextLess(a, c)
<1>1. Digits(a) \in Nat /\ Digits(b) \in Nat /\ Digits(c) \in Nat
  BY DigitsType
<1> DEFINE l == Digits(a) + Digits(b) + Digits(c)
<1>2. l \in Nat /\ Digits(a) <= l /\ Digits(b) <= l /\ Digits(c) <= l
  BY <1>1
<1> HIDE DEF l
<1>3. PaddedLess(a, b, l) /\ PaddedLess(b, c, l)
  BY <1>2, TextLessPadded
<1>4. /\ Padded(a, l) \in Nat /\ Padded(b, l) \in Nat /\ Padded(c, l) \in Nat
      /\ TextLess(a, c) <=> PaddedLess(a, c, l)
  BY <1>2, TextLessPadded
<1> QED BY <1>1, <1>3, <1>4 DEF PaddedLess

LEMMA TextLessTotal ==
  ASSUME NEW a \in Nat, NEW b \in Nat, a # b
  PROVE  TextLess(a, b) \/ TextLess(b, a)
<1>1. Digits(a) \in Nat /\ Digits(b) \in Nat
  BY DigitsType
<1> DEFINE l == Digits(a) + Digits(b)
<1>2. l \in Nat /\ Digits(a) <= l /\ Digits(b) <= l
  BY <1>1
<1> HIDE DEF l
<1>3. /\ Padded(a, l) \in Nat /\ Padded(b, l) \in Nat
      /\ TextLess(a, b) <=> PaddedLess(a, b, l)
      /\ TextLess(b, a) <=> PaddedLess(b, a, l)
  BY <1>2, TextLessPadded
<1>4. CASE Digits(a) = Digits(b)
  <2>1. l - Digits(a) \in Nat
    BY <1>1, <1>2
  <2>2. TenTo[l - Digits(a)] \in Nat \ {0}
    BY <2>1, TenToType
  <2>3. a = b <=> Padded(a, l) = Padded(b, l)
    BY <2>2, <1>4, TimesOrder DEF Padded
  <2> QED BY <2>3, <1>1, <1>3 DEF PaddedLess
<1>5. CASE Digits(a) # Digits(b)
  BY <1>5, <1>1, <1>3 DEF PaddedLess
<1> QED BY <1>4, <1>5

-----------------------------------------------------------------------------
\* A page is the newest of what is left, and the rest is older than all of it.
Above(m, S) == {n \in S : TextLess(m, n)}

\* Of two, more of the set is above the one that is less.
LEMMA AboveShrinks ==
  ASSUME NEW S, S \subseteq Nat, IsFiniteSet(S), NEW m \in S, NEW n \in S, TextLess(m, n)
  PROVE  /\ Above(n, S) \subseteq Above(m, S)
         /\ Cardinality(Above(n, S)) < Cardinality(Above(m, S))
<1>1. Above(n, S) \subseteq Above(m, S)
  BY TextLessTransitive DEF Above
<1>2. n \in Above(m, S) /\ n \notin Above(n, S)
  BY TextLessIrreflexive DEF Above
<1>3. IsFiniteSet(Above(m, S))
  BY FS_Subset DEF Above
<1>4. IsFiniteSet(Above(n, S))
  BY FS_Subset DEF Above
<1>5. Cardinality(Above(n, S)) <= Cardinality(Above(m, S))
  BY <1>1, <1>3, FS_Subset
<1>6. Cardinality(Above(n, S)) # Cardinality(Above(m, S))
  BY <1>1, <1>2, <1>3, FS_Subset
<1>7. Cardinality(Above(n, S)) \in Nat /\ Cardinality(Above(m, S)) \in Nat
  BY <1>3, <1>4, FS_CardinalityType
<1> QED BY <1>1, <1>5, <1>6, <1>7

\* A set that is not empty has a newest element.
LEMMA NewestExists ==
  ASSUME NEW S, S \subseteq Nat, IsFiniteSet(S), NEW T, T \subseteq S, T # {}
  PROVE  \E m \in T : \A n \in T : ~TextLess(m, n)
<1> DEFINE sizes == {Cardinality(Above(m, S)) : m \in T}
<1>1. \A m \in T : Cardinality(Above(m, S)) \in Nat
  <2> SUFFICES ASSUME NEW m \in T PROVE Cardinality(Above(m, S)) \in Nat
    OBVIOUS
  <2>1. IsFiniteSet(Above(m, S))
    BY FS_Subset DEF Above
  <2> QED BY <2>1, FS_CardinalityType
<1>2. sizes \subseteq Nat /\ sizes # {}
  BY <1>1
<1>3. PICK k \in sizes : \A l \in sizes : k <= l
  <2> HIDE DEF sizes
  <2> QED BY <1>2, LeastElement
<1>4. PICK m \in T : k = Cardinality(Above(m, S))
  OBVIOUS
<1>5. ASSUME NEW n \in T, TextLess(m, n) PROVE FALSE
  <2>1. Cardinality(Above(n, S)) < Cardinality(Above(m, S))
    BY <1>5, AboveShrinks
  <2>2. Cardinality(Above(m, S)) <= Cardinality(Above(n, S))
    BY <1>3, <1>4
  <2> QED BY <2>1, <2>2, <1>1
<1> QED BY <1>5

\* And an oldest one.
LEMMA OldestIs ==
  ASSUME NEW S, S \subseteq Nat, IsFiniteSet(S), S # {}
  PROVE  /\ Oldest(S) \in S
         /\ \A n \in S : n = Oldest(S) \/ TextLess(Oldest(S), n)
<1> DEFINE below(m) == {n \in S : TextLess(n, m)}
           sizes == {Cardinality(below(m)) : m \in S}
<1>1. \A m \in S : IsFiniteSet(below(m)) /\ Cardinality(below(m)) \in Nat
  <2> SUFFICES ASSUME NEW m \in S PROVE IsFiniteSet(below(m)) /\ Cardinality(below(m)) \in Nat
    OBVIOUS
  <2>1. IsFiniteSet(below(m))
    BY FS_Subset
  <2> QED BY <2>1, FS_CardinalityType
<1>2. sizes \subseteq Nat /\ sizes # {}
  BY <1>1
<1>3. PICK k \in sizes : \A l \in sizes : k <= l
  <2> HIDE DEF sizes
  <2> QED BY <1>2, LeastElement
<1>4. PICK m \in S : k = Cardinality(below(m))
  OBVIOUS
<1>5. ASSUME NEW n \in S, TextLess(n, m) PROVE FALSE
  <2>1. below(n) \subseteq below(m)
    BY <1>5, TextLessTransitive
  <2>2. n \in below(m) /\ n \notin below(n)
    BY <1>5, TextLessIrreflexive
  <2>3. IsFiniteSet(below(m)) /\ Cardinality(below(n)) \in Nat /\ Cardinality(below(m)) \in Nat
    BY <1>1
  <2>4. Cardinality(below(m)) <= Cardinality(below(n))
    BY <1>3, <1>4
  <2> HIDE DEF below
  <2>5. below(n) # below(m)
    BY <2>2
  <2>6. Cardinality(below(n)) <= Cardinality(below(m)) /\ Cardinality(below(n)) # Cardinality(below(m))
    BY <2>1, <2>3, <2>5, FS_Subset
  <2> QED BY <2>3, <2>4, <2>6
<1>6. \A n \in S : n = m \/ TextLess(m, n)
  BY <1>5, TextLessTotal
<1>7. \E x \in S : \A n \in S : n = x \/ TextLess(x, n)
  BY <1>6
<1> QED BY <1>7 DEF Oldest

\* What a page leaves is older than what is on it, and it leaves nothing unless
\* it is full.
LEMMA PageIsNewest ==
  ASSUME rows \subseteq Nat, IsFiniteSet(rows), NEW before, NEW x \in Older(before),
         x \notin ListByChannel(before)
  PROVE  /\ \A m \in ListByChannel(before) : TextLess(x, m)
         /\ Cardinality(ListByChannel(before)) >= PageSize
<1> DEFINE S == Older(before)
           page == ListByChannel(before)
<1>1. S \subseteq Nat /\ IsFiniteSet(S)
  BY FS_Subset DEF Older
<1>2. page = {m \in S : Cardinality(Above(m, S)) < PageSize}
  BY DEF ListByChannel, Above
<1>3. PageSize \in Nat
  BY ConstantsAssumption
<1>4. \A m \in S : IsFiniteSet(Above(m, S)) /\ Cardinality(Above(m, S)) \in Nat
  <2> SUFFICES ASSUME NEW m \in S PROVE IsFiniteSet(Above(m, S)) /\ Cardinality(Above(m, S)) \in Nat
    OBVIOUS
  <2> HIDE DEF S
  <2>1. IsFiniteSet(Above(m, S))
    BY <1>1, FS_Subset DEF Above
  <2> QED BY <2>1, FS_CardinalityType
<1>5. x \in S /\ x \notin page
  OBVIOUS
<1> HIDE DEF S, page
<1>6. ASSUME NEW m \in page, NEW n \in S, TextLess(m, n) PROVE n \in page
  <2>1. m \in S /\ Cardinality(Above(m, S)) < PageSize
    BY <1>2
  <2>2. Cardinality(Above(n, S)) < Cardinality(Above(m, S))
    BY <2>1, <1>1, <1>6, AboveShrinks
  <2>3. Cardinality(Above(n, S)) \in Nat /\ Cardinality(Above(m, S)) \in Nat
    BY <2>1, <1>4
  <2> QED BY <2>1, <2>2, <2>3, <1>2, <1>3
<1>7. \A m \in page : TextLess(x, m)
  BY <1>1, <1>2, <1>5, <1>6, TextLessTotal
<1>8. PICK y \in S \ page : \A n \in S \ page : ~TextLess(y, n)
  <2>1. S \ page \subseteq S /\ S \ page # {}
    BY <1>5
  <2> DEFINE T == S \ page
  <2> HIDE DEF T
  <2>2. \E m \in T : \A n \in T : ~TextLess(m, n)
    BY <2>1, <1>1, NewestExists DEF T
  <2> QED BY <2>2 DEF T
<1>9. Above(y, S) \subseteq page
  BY <1>8 DEF Above
<1>10. Cardinality(Above(y, S)) >= PageSize
  BY <1>2, <1>3, <1>4, <1>8
<1>11. IsFiniteSet(page)
  BY <1>1, <1>2, FS_Subset
<1>12. Cardinality(Above(y, S)) <= Cardinality(page)
  BY <1>9, <1>11, FS_Subset
<1>13. Cardinality(page) \in Nat
  BY <1>11, FS_CardinalityType
<1>14. Cardinality(page) >= PageSize
  BY <1>3, <1>4, <1>8, <1>10, <1>12, <1>13
<1> QED BY <1>7, <1>14 DEF page

-----------------------------------------------------------------------------
\* The walk: each page is older than those before it, the cursor is the oldest
\* message seen, and what is wanted and not seen is older than the cursor.
Paged == UNION {walk.pages[i] : i \in DOMAIN walk.pages}

PagesInOrder ==
    \A i, j \in DOMAIN walk.pages : i < j =>
        \A m \in walk.pages[i], n \in walk.pages[j] : TextLess(n, m)

CursorIsOldest ==
    IF walk.before = NoId THEN Paged = {}
    ELSE \A m \in Paged : m = walk.before \/ TextLess(walk.before, m)

RestIsOlder ==
    \A m \in walk.wanted \ deleted :
        \/ m \in Paged
        \/ walk.state = "on" /\ (walk.before = NoId \/ TextLess(m, walk.before))

WalkInv ==
    /\ IsFiniteSet(rows)
    /\ walk \in Walk /\ walk.wanted \subseteq rows
    /\ walk.state = "none" => walk.before = NoId
    /\ PagesInOrder /\ CursorIsOldest /\ RestIsOlder

LEMMA InitWalk == Init => WalkInv
<1> SUFFICES ASSUME Init PROVE WalkInv
  OBVIOUS
<1>1. /\ walk = [state |-> "none", before |-> NoId, pages |-> <<>>, wanted |-> {}]
      /\ rows = {}
  BY DEF Init
<1>2. walk \in Walk
  BY <1>1 DEF Walk
<1>3. Paged = {}
  BY <1>1 DEF Paged
<1> QED BY <1>1, <1>2, <1>3, FS_EmptySet DEF WalkInv, PagesInOrder, CursorIsOldest, RestIsOlder

\* Messages come and are deleted.
LEMMA StoreWalk ==
  ASSUME WalkInv, UNCHANGED walk, rows \subseteq rows', deleted \subseteq deleted', IsFiniteSet(rows')
  PROVE  WalkInv'
<1>1. UNCHANGED Paged
  BY DEF Paged
<1> QED BY <1>1 DEF WalkInv, PagesInOrder, CursorIsOldest, RestIsOlder

LEMMA CommitWalk ==
  ASSUME WalkInv, NEW r \in Requests, Commit(r)
  PROVE  WalkInv'
<1>1. UNCHANGED walk /\ rows \subseteq rows' /\ deleted \subseteq deleted'
  BY DEF Commit
<1>2. IsFiniteSet(rows')
  <2>1. IsFiniteSet(rows \cup {txn[r].message})
    BY FS_AddElement DEF WalkInv
  <2> QED BY <2>1 DEF Commit, WalkInv
<1> QED BY <1>1, <1>2, StoreWalk

LEMMA StartWalkWalk ==
  ASSUME TxnInv, WalkInv, StartWalk
  PROVE  WalkInv'
<1>1. /\ walk.state = "none" /\ walk.before = NoId /\ walk \in Walk
      /\ walk' = [walk EXCEPT !.state = "on", !.wanted = rows \ deleted]
      /\ UNCHANGED <<rows, deleted>>
  BY DEF StartWalk, WalkInv, store
<1>2. /\ walk' \in Walk
      /\ walk'.state = "on" /\ walk'.before = NoId /\ walk'.pages = walk.pages
      /\ walk'.wanted = rows \ deleted
  BY <1>1 DEF Walk, TxnInv
<1>3. UNCHANGED Paged
  BY <1>2 DEF Paged
<1> QED BY <1>1, <1>2, <1>3 DEF WalkInv, PagesInOrder, CursorIsOldest, RestIsOlder

LEMMA NextPageWalk ==
  ASSUME TxnInv, WalkInv, NextPage
  PROVE  WalkInv'
<1> DEFINE page == ListByChannel(walk.before)
<1>1. /\ walk.state = "on" /\ UNCHANGED <<rows, deleted>>
      /\ walk' = [walk EXCEPT
            !.pages = Append(walk.pages, page),
            !.before = IF page = {} THEN walk.before ELSE Oldest(page),
            !.state = IF Cardinality(page) < PageSize THEN "done" ELSE walk.state]
  BY DEF NextPage, store
<1>2. /\ rows \subseteq Nat /\ IsFiniteSet(rows)
      /\ walk \in Walk /\ walk.pages \in Seq(SUBSET Nat) /\ walk.before \in Nat \cup {NoId}
      /\ walk.wanted \subseteq rows /\ walk.wanted \in SUBSET Nat
  BY DEF WalkInv, TxnInv, Walk
<1>3. /\ page \subseteq Older(walk.before) /\ page \subseteq Nat /\ page \subseteq rows
      /\ IsFiniteSet(page)
  <2>1. page \subseteq Older(walk.before) /\ page \subseteq rows
    BY DEF ListByChannel, Older
  <2> HIDE DEF page
  <2> QED BY <2>1, <1>2, FS_Subset
<1>4. \A n \in page : walk.before # NoId => TextLess(n, walk.before)
  BY <1>3 DEF Older
<1>5. page # {} => /\ Oldest(page) \in page
                   /\ \A n \in page : n = Oldest(page) \/ TextLess(Oldest(page), n)
  <2> HIDE DEF page
  <2> QED BY <1>3, OldestIs
<1>6. ASSUME NEW x \in Older(walk.before), x \notin page
      PROVE  (\A m \in page : TextLess(x, m)) /\ Cardinality(page) >= PageSize
  BY <1>2, <1>6, PageIsNewest
<1>7. Cardinality(page) \in Nat /\ PageSize \in Nat \ {0} /\ (page = {} => Cardinality(page) = 0)
  <2> HIDE DEF page
  <2> QED BY <1>3, ConstantsAssumption, FS_CardinalityType, FS_EmptySet
<1>8. Paged \subseteq Nat /\ \A m \in Paged : \E i \in DOMAIN walk.pages : m \in walk.pages[i]
  BY <1>2 DEF Paged
<1>10. NoId \notin Nat
  BY ConstantsAssumption
<1> HIDE DEF page
<1>9. /\ walk'.pages = Append(walk.pages, page) /\ walk'.wanted = walk.wanted
      /\ page = {} => walk'.before = walk.before
      /\ page # {} => walk'.before = Oldest(page)
      /\ Cardinality(page) < PageSize => walk'.state = "done"
      /\ ~(Cardinality(page) < PageSize) => walk'.state = "on"
  BY <1>1, <1>2 DEF Walk
<1>11. walk' \in Walk
  <2>1. /\ Append(walk.pages, page) \in Seq(SUBSET Nat)
        /\ (IF page = {} THEN walk.before ELSE Oldest(page)) \in Nat \cup {NoId}
        /\ (IF Cardinality(page) < PageSize THEN "done" ELSE walk.state) \in {"none", "on", "done"}
    BY <1>1, <1>2, <1>3, <1>5
  <2> QED BY <2>1, <1>1, <1>2 DEF Walk
<1> DEFINE k == Len(walk.pages)
<1>12. /\ k \in Nat /\ DOMAIN walk.pages = 1..k /\ DOMAIN walk'.pages = 1..(k + 1)
       /\ walk'.pages[k + 1] = page
       /\ \A i \in 1..k : walk'.pages[i] = walk.pages[i]
  BY <1>2, <1>3, <1>9
<1> HIDE DEF k
<1>13. Paged' = Paged \cup page
  <2>1. \A i \in 1..(k + 1) : i \in 1..k \/ i = k + 1
    BY <1>12
  <2>2. \A i \in 1..k : i \in 1..(k + 1)
    BY <1>12
  <2>3. k + 1 \in 1..(k + 1)
    BY <1>12
  <2>4. Paged' = UNION {walk'.pages[i] : i \in 1..(k + 1)}
    BY <1>12 DEF Paged
  <2>5. Paged = UNION {walk.pages[i] : i \in 1..k}
    BY <1>12 DEF Paged
  <2> QED BY <2>1, <2>2, <2>3, <2>4, <2>5, <1>12
\* The page is older than what was seen before it.
<1>14. \A m \in Paged, n \in page : TextLess(n, m)
  <2> SUFFICES ASSUME NEW m \in Paged, NEW n \in page PROVE TextLess(n, m)
    OBVIOUS
  <2>1. walk.before # NoId /\ (m = walk.before \/ TextLess(walk.before, m))
    BY DEF WalkInv, CursorIsOldest
  <2>2. TextLess(n, walk.before) /\ walk.before \in Nat /\ n \in Nat /\ m \in Nat
    BY <2>1, <1>2, <1>3, <1>4, <1>8
  <2> QED BY <2>1, <2>2, TextLessTransitive
<1>15. PagesInOrder'
  <2> SUFFICES ASSUME NEW i \in 1..(k + 1), NEW j \in 1..(k + 1), i < j,
                      NEW m \in walk'.pages[i], NEW n \in walk'.pages[j]
               PROVE  TextLess(n, m)
    BY <1>12 DEF PagesInOrder, TextLess, Digits
  <2>1. i \in 1..k /\ m \in walk.pages[i]
    BY <1>12
  <2>2. CASE j = k + 1
    <3>1. m \in Paged /\ n \in page
      BY <2>1, <2>2, <1>12 DEF Paged
    <3> QED BY <3>1, <1>14
  <2>3. CASE j # k + 1
    <3>1. j \in 1..k /\ n \in walk.pages[j]
      BY <2>3, <1>12
    <3> QED BY <3>1, <2>1, <1>12 DEF WalkInv, PagesInOrder
  <2> QED BY <2>2, <2>3
<1>16. /\ page = {} => Paged' = Paged /\ walk'.before = walk.before
       /\ page # {} => /\ walk'.before = Oldest(page) /\ Oldest(page) \in Nat
                       /\ \A m \in Paged \cup page : m = Oldest(page) \/ TextLess(Oldest(page), m)
  BY <1>3, <1>5, <1>9, <1>13, <1>14
<1>17. CursorIsOldest'
  BY <1>10, <1>13, <1>16 DEF WalkInv, CursorIsOldest, TextLess, Digits
<1>18. ASSUME NEW m \in walk.wanted \ deleted, m \notin Paged \cup page
       PROVE  walk'.state = "on" /\ page # {} /\ TextLess(m, walk'.before)
  <2>1. m \in Older(walk.before)
    BY <1>2, <1>18 DEF WalkInv, RestIsOlder, Older
  <2>2. (\A n \in page : TextLess(m, n)) /\ Cardinality(page) >= PageSize
    BY <2>1, <1>6, <1>18
  <2>3. page # {}
    BY <2>2, <1>7
  <2>4. ~(Cardinality(page) < PageSize)
    BY <2>2, <1>7
  <2> QED BY <2>2, <2>3, <2>4, <1>5, <1>9
<1>19. RestIsOlder'
  BY <1>1, <1>9, <1>13, <1>18 DEF RestIsOlder, TextLess, Digits
<1> QED BY <1>1, <1>2, <1>9, <1>11, <1>15, <1>17, <1>19 DEF WalkInv

LEMMA NextWalk == TxnInv /\ WalkInv /\ [Next]_vars => WalkInv'
<1> SUFFICES ASSUME TxnInv, WalkInv, [Next]_vars PROVE WalkInv'
  OBVIOUS
<1>1. ASSUME UNCHANGED <<store, walk>> PROVE WalkInv'
  BY <1>1, StoreWalk DEF store, WalkInv
<1>2. ASSUME NEW r \in Requests, NEW p \in Processes, Send(r, p) \/ \E m \in rows : Delete(r, p, m)
      PROVE  WalkInv'
  BY <1>1, <1>2 DEF Send, Delete
<1>3. ASSUME NEW r \in Requests,
             NewId(r) \/ SoftDelete(r) \/ NewEventId(r) \/ GenerateThrows(r) \/ Abort(r)
      PROVE  WalkInv'
  BY <1>1, <1>3 DEF NewId, SoftDelete, NewEventId, GenerateThrows, Abort
<1>4. ASSUME NEW r \in Requests, Commit(r) PROVE WalkInv'
  BY <1>4, CommitWalk
<1>5. ASSUME NEW p \in Processes, SendForbidden(p) \/ Tick(p) \/ StepBack(p) \/ Restart(p)
      PROVE  WalkInv'
  BY <1>1, <1>5 DEF SendForbidden, Tick, StepBack, Restart
<1>6. CASE StartWalk
  BY <1>6, StartWalkWalk
<1>7. CASE NextPage
  BY <1>7, NextPageWalk
<1>8. CASE UNCHANGED vars
  BY <1>1, <1>8 DEF vars
<1> QED BY <1>2, <1>3, <1>4, <1>5, <1>6, <1>7, <1>8 DEF Next

LEMMA WalkInvIsComplete == TxnInv /\ WalkInv => WalkIsComplete
<1> SUFFICES ASSUME TxnInv, WalkInv PROVE WalkIsComplete
  OBVIOUS
<1>1. walk.state = "done" => walk.wanted \ deleted \subseteq Paged
  BY DEF WalkInv, RestIsOlder
<1>2. ASSUME NEW i \in DOMAIN walk.pages, NEW j \in DOMAIN walk.pages, i < j,
             NEW m \in walk.pages[i], NEW n \in walk.pages[j]
      PROVE  m # n /\ TextLess(n, m)
  <2>1. TextLess(n, m)
    BY <1>2 DEF WalkInv, PagesInOrder
  <2>2. m \in Nat
    BY DEF WalkInv, Walk
  <2> QED BY <2>1, <2>2, TextLessIrreflexive
<1> QED BY <1>1, <1>2 DEF WalkIsComplete, Paged

-----------------------------------------------------------------------------
IInv == IdsInv /\ LimiterInv /\ DeletionInv /\ WalkInv

LEMMA InitInv == Init => IInv
  BY InitIds, InitLimiter, InitDeletion, InitWalk DEF Init, IInv


\* Every step is one of the generators', or leaves them alone.
LEMMA StepIsIdsStep == DeletionInv /\ [Next]_vars => [Ids!Next]_ids
<1> SUFFICES ASSUME DeletionInv, [Next]_vars PROVE [Ids!Next]_ids
  OBVIOUS
<1>1. ASSUME NEW r \in Requests, NewId(r) \/ NewEventId(r)
      PROVE  \E p \in Processes : Ids!Generate(p)
  <2>1. txn[r].process \in Processes
    BY <1>1 DEF DeletionInv, TxnInv, TxnOK, NewId, NewEventId
  <2> QED BY <1>1, <2>1 DEF NewId, NewEventId
<1>2. ASSUME NEW p \in Processes, Tick(p) \/ StepBack(p) \/ Restart(p)
      PROVE  Ids!Tick(p) \/ Ids!StepBack(p) \/ Ids!Restart(p)
  BY <1>2 DEF Tick, StepBack, Restart
<1>3. ASSUME NEW r \in Requests, SoftDelete(r) \/ Commit(r) \/ GenerateThrows(r) \/ Abort(r)
      PROVE  UNCHANGED ids
  BY <1>3 DEF SoftDelete, Commit, GenerateThrows, Abort
<1>4. ASSUME NEW p \in Processes,
             SendForbidden(p) \/ \E r \in Requests : Send(r, p) \/ \E m \in rows : Delete(r, p, m)
      PROVE  UNCHANGED ids
  BY <1>4 DEF SendForbidden, Send, Delete
<1>5. StartWalk \/ NextPage \/ UNCHANGED vars => UNCHANGED ids
  BY DEF StartWalk, NextPage, vars
<1> QED BY <1>1, <1>2, <1>3, <1>4, <1>5 DEF Next, Ids!Next

LEMMA NextLimiter == IdsInv /\ LimiterInv /\ [Next]_vars => LimiterInv'
<1> SUFFICES ASSUME IdsInv, LimiterInv, [Next]_vars PROVE LimiterInv'
  OBVIOUS
<1>1. Ids!TypeOK
  BY DEF IdsInv
<1>2. ASSUME NEW p \in Processes, SendForbidden(p) \/ \E r \in Requests : Send(r, p)
      PROVE  LimiterInv'
  BY <1>1, <1>2, CheckSendRateLimiter DEF SendForbidden, Send
<1>3. ASSUME NEW p \in Processes, Tick(p) PROVE LimiterInv'
  BY <1>1, <1>3, TickLimiter
<1>4. ASSUME NEW p \in Processes, StepBack(p) \/ Restart(p) PROVE LimiterInv'
  <2>1. \A q \in Processes \ {p} : clock'[q] = clock[q]
    BY <1>1, <1>4 DEF StepBack, Restart, Ids!StepBack, Ids!Restart, Ids!TypeOK
  <2> QED BY <1>1, <1>4, <2>1, ForgetLimiter DEF StepBack, Restart
<1>5. ASSUME NEW r \in Requests,
             \/ NewId(r) \/ SoftDelete(r) \/ NewEventId(r) \/ Commit(r) \/ GenerateThrows(r) \/ Abort(r)
             \/ \E p \in Processes, m \in rows : Delete(r, p, m)
      PROVE  LimiterInv'
  <2>1. UNCHANGED <<limiter, clock>>
    BY <1>5 DEF NewId, SoftDelete, NewEventId, Commit, GenerateThrows, Abort, Delete, Ids!Generate, ids
  <2> QED BY <2>1, OtherLimiter
<1>6. ASSUME StartWalk \/ NextPage \/ UNCHANGED vars PROVE LimiterInv'
  <2>1. UNCHANGED <<limiter, clock>>
    BY <1>6 DEF StartWalk, NextPage, vars, ids
  <2> QED BY <2>1, OtherLimiter
<1> QED BY <1>2, <1>3, <1>4, <1>5, <1>6 DEF Next

LEMMA NextDeletion == IdsInv /\ DeletionInv /\ [Next]_vars => DeletionInv'
<1> SUFFICES ASSUME IdsInv, DeletionInv, [Next]_vars PROVE DeletionInv'
  OBVIOUS
<1>1. ASSUME NEW r \in Requests, NEW p \in Processes, Send(r, p) \/ \E m \in rows : Delete(r, p, m)
      PROVE  DeletionInv'
  BY <1>1, SendDeletion, DeleteDeletion
<1>2. ASSUME NEW r \in Requests, NewId(r) \/ SoftDelete(r) \/ NewEventId(r) \/ Commit(r)
      PROVE  DeletionInv'
  BY <1>2, NewIdDeletion, SoftDeleteDeletion, NewEventIdDeletion, CommitDeletion
<1>3. ASSUME NEW r \in Requests, GenerateThrows(r) \/ Abort(r) PROVE DeletionInv'
  <2>1. End(r) /\ UNCHANGED store
    BY <1>3 DEF GenerateThrows, Abort
  <2>2. {r} \in SUBSET Requests
    OBVIOUS
  <2> QED BY <2>1, <2>2, EndIs, EndDeletion
<1>4. ASSUME NEW p \in Processes, Restart(p) PROVE DeletionInv'
  <2> DEFINE R == {r \in Requests : txn[r].process = p}
  <2>1. txn' = [q \in Requests |-> IF q \in R THEN Idle ELSE txn[q]] /\ UNCHANGED store
    BY <1>4 DEF Restart
  <2>2. R \in SUBSET Requests
    OBVIOUS
  <2> HIDE DEF R
  <2> QED BY <2>1, <2>2, EndDeletion
<1>5. ASSUME NEW p \in Processes, SendForbidden(p) \/ Tick(p) \/ StepBack(p) PROVE DeletionInv'
  BY <1>5, OtherDeletion DEF SendForbidden, Tick, StepBack
<1>6. ASSUME StartWalk \/ NextPage \/ UNCHANGED vars PROVE DeletionInv'
  BY <1>6, OtherDeletion DEF StartWalk, NextPage, vars
<1> QED BY <1>1, <1>2, <1>3, <1>4, <1>5, <1>6 DEF Next

LEMMA NextInv == IInv /\ [Next]_vars => IInv'
  BY StepIsIdsStep, NextIds, NextLimiter, NextDeletion, NextWalk DEF IInv, DeletionInv

\* The generators', the limiters' and the deletions' invariant, together.
THEOREM Invariance == Spec => []IInv
  BY InitInv, NextInv, PTL DEF Spec

\* Messages uses the generators as SnowflakeIds describes them: whatever the
\* calls do, their clocks, sequences and ids behave as generate() has it.
THEOREM ImplementsIds == Spec => Ids!Spec
<1>1. Init => Ids!Init
  BY DEF Init
<1>2. IInv /\ [Next]_vars => [Ids!Next]_(Ids!vars)
  BY StepIsIdsStep DEF IInv, Ids!vars, ids
<1> QED BY <1>1, <1>2, Invariance, PTL DEF Spec, Ids!Spec

\* generate() never repeats an id and never goes back, at any number of processes
\* with a NODE_ID of their own, clocks set back and sequences wrapped.
THEOREM IdsAreUnique == Spec => []IdsIncrease
<1>1. IInv => IdsIncrease
  BY IdsInvIncrease DEF IInv
<1> QED BY <1>1, Invariance, PTL

\* No more than 2 * MaxPerWindow - 1 sends pass InMemoryMessageRateLimiter in any
\* WindowMs at one process.
THEOREM RateIsBounded == Spec => []SendRateIsBounded
<1>1. IInv => SendRateIsBounded
  BY LimiterInvBounds DEF IInv
<1> QED BY <1>1, Invariance, PTL

\* MESSAGE_DELETE events tell exactly which messages are deleted, however many
\* calls of deleteMessage run at once and wherever they fail.
THEOREM DeletionsAreTold == Spec => []DeletionsAreAnnounced
<1>1. IInv => DeletionsAreAnnounced
  BY DeletionInvAnnounces DEF IInv
<1> QED BY <1>1, Invariance, PTL

\* Paging back with before=<the oldest id seen> misses no message and repeats
\* none, for any page size and ids of any length, whatever is sent and deleted
\* meanwhile: the text order of ids, whose digits vary in number, is total.
THEOREM WalksAreComplete == Spec => []WalkIsComplete
<1>1. IInv => WalkIsComplete
  BY WalkInvIsComplete DEF IInv, DeletionInv
<1> QED BY <1>1, Invariance, PTL

-----------------------------------------------------------------------------
\* Where ids come from: those of rows, of events and of what is not committed yet
\* have all been issued by some process.
Used == {n \in Nat : \E p \in Processes : \E i \in 1..Len(issued[p]) : issued[p][i] = n}

TxnStoredOK(r) ==
    /\ txn[r].message # NoId => txn[r].message \in Used
    /\ txn[r].event # NoId => txn[r].event \in Used
    /\ txn[r].step = "commit" => txn[r].event \in Nat

StoredInv ==
    /\ events \subseteq Event /\ faults \in 0..MaxFaults
    /\ rows \cup EventIds \subseteq Used
    /\ \A r \in Requests : TxnStoredOK(r)

LEMMA InitStored == Init => StoredInv
<1> SUFFICES ASSUME Init PROVE StoredInv
  OBVIOUS
<1>1. faults = 0 /\ events = {} /\ rows = {} /\ 0 \in 0..MaxFaults
  BY ConstantsAssumption DEF Init
<1>2. \A r \in Requests : TxnStoredOK(r)
  BY DEF Init, Idle, TxnStoredOK
<1> QED BY <1>1, <1>2 DEF StoredInv, EventIds

\* What has been issued stays issued, and generate() issues what it returns.
LEMMA UsedGrows ==
  ASSUME IdsInv, [Ids!Next]_ids
  PROVE  Used \subseteq Used'
<1>1. CASE UNCHANGED issued
  BY <1>1 DEF Used
<1>2. ASSUME NEW q \in Processes, Ids!Generate(q), NEW m \in Used PROVE m \in Used'
  <2>0. PICK n : n = Ids!NextId(q)
    OBVIOUS
  <2>1. n \in Nat /\ issued' = [issued EXCEPT ![q] = Append(issued[q], n)]
        /\ issued \in [Processes -> Seq(Nat)]
    BY <2>0, <1>2, NextIdType DEF IdsInv, Ids!TypeOK, Ids!Generate
  <2>2. PICK p \in Processes : \E i \in 1..Len(issued[p]) : issued[p][i] = m
    BY <1>2 DEF Used
  <2>3. \E i \in 1..Len(issued'[p]) : issued'[p][i] = m
    BY <2>1, <2>2
  <2> QED BY <1>2, <2>3 DEF Used
<1> QED BY <1>1, <1>2 DEF Ids!Next, Ids!Tick, Ids!StepBack, Ids!Restart, ids

LEMMA GenerateIssues ==
  ASSUME IdsInv, NEW p \in Processes, Ids!Generate(p), NEW n, n = Ids!NextId(p)
  PROVE  n \in Nat /\ n \in Used' /\ (p \notin forgot => n \notin Used)
<1>1. /\ n \in Nat /\ issued' = [issued EXCEPT ![p] = Append(issued[p], n)]
      /\ issued \in [Processes -> Seq(Nat)] /\ forgot' = forgot
  BY NextIdType DEF IdsInv, Ids!TypeOK, Ids!Generate
<1>2. IdsIncrease'
  <2>1. IdsInv'
    BY GenerateIds
  <2> QED BY <2>1, IdsInvIncrease, PTL
<1> DEFINE last == Len(issued[p]) + 1
<1>3. /\ DOMAIN issued'[p] = 1..last /\ Len(issued'[p]) = last /\ issued'[p][last] = n
      /\ last \in 1..last /\ Len(issued[p]) \in Nat
      /\ \A i \in 1..Len(issued[p]) : i \in 1..last /\ i < last /\ issued'[p][i] = issued[p][i]
  BY <1>1
<1> HIDE DEF last
<1>4. n \in Used'
  BY <1>1, <1>3 DEF Used
<1>5. ASSUME p \notin forgot, NEW q \in Processes, NEW i \in 1..Len(issued[q])
      PROVE  issued[q][i] # n
  <2>1. CASE q = p
    <3>1. issued[p][i] < n
      BY <2>1, <1>1, <1>2, <1>3, <1>5 DEF IdsIncrease, Ids!IdsIncrease
    <3> QED BY <3>1, <2>1, <1>1
  <2>2. CASE q # p
    <3>1. issued'[q] = issued[q] /\ i \in DOMAIN issued'[q]
      BY <2>2, <1>1
    <3>2. \A j \in DOMAIN issued'[p], k \in DOMAIN issued'[q] : issued'[p][j] # issued'[q][k]
      BY <2>2, <1>1, <1>2, <1>5 DEF IdsIncrease, Ids!IdsIncrease
    <3> QED BY <3>1, <3>2, <1>3
  <2> QED BY <2>1, <2>2
<1> QED BY <1>1, <1>4, <1>5 DEF Used

\* A step that leaves rows and events alone and one transaction anywhere.
LEMMA TxnStored ==
  ASSUME StoredInv, UNCHANGED <<rows, events>>, faults' \in 0..MaxFaults,
         Used \subseteq Used',
         \A r \in Requests : txn'[r] = txn[r] \/ txn'[r] = Idle \/ TxnStoredOK(r)'
  PROVE  StoredInv'
<1>1. EventIds' = EventIds
  BY DEF EventIds
<1>2. ASSUME NEW r \in Requests PROVE TxnStoredOK(r)'
  BY DEF StoredInv, TxnStoredOK, Idle
<1> QED BY <1>1, <1>2 DEF StoredInv

LEMMA NextStored == IInv /\ StoredInv /\ [Next]_vars => StoredInv'
<1> SUFFICES ASSUME IInv, StoredInv, [Next]_vars PROVE StoredInv'
  OBVIOUS
<1>1. Used \subseteq Used'
  BY StepIsIdsStep, UsedGrows DEF IInv
<1>2. /\ txn \in [Requests -> Txn] /\ faults \in 0..MaxFaults /\ MaxFaults \in Nat
      /\ \A r \in Requests : TxnOK(r) /\ TxnStoredOK(r)
  BY ConstantsAssumption DEF IInv, DeletionInv, TxnInv, StoredInv
<1>3. ASSUME NEW r \in Requests, NEW p \in Processes, Send(r, p) PROVE StoredInv'
  <2>1. TxnStoredOK(r)'
    BY <1>2, <1>3 DEF Send, TxnStoredOK, Idle
  <2> QED BY <2>1, <1>1, <1>2, <1>3, TxnStored DEF Send, store
<1>4. ASSUME NEW r \in Requests, NEW p \in Processes, NEW m \in rows, Delete(r, p, m)
      PROVE  StoredInv'
  <2>1. m \in Used'
    BY <1>1 DEF StoredInv
  <2>2. TxnStoredOK(r)'
    BY <2>1, <1>2, <1>4 DEF Delete, TxnStoredOK, Idle
  <2> QED BY <2>2, <1>1, <1>2, <1>4, TxnStored DEF Delete, store
<1>5. ASSUME NEW r \in Requests, NewId(r) \/ NewEventId(r) PROVE StoredInv'
  <2>1. txn[r].process \in Processes /\ Ids!Generate(txn[r].process)
    BY <1>2, <1>5 DEF NewId, NewEventId, TxnOK
  <2>0. PICK n : n = Ids!NextId(txn[r].process)
    OBVIOUS
  <2>2. n \in Nat /\ n \in Used'
    BY <2>0, <2>1, GenerateIssues DEF IInv
  <2>3. \/ txn' = [txn EXCEPT ![r] = Idle]
        \/ txn' = [txn EXCEPT ![r] = [txn[r] EXCEPT !.step = "newEventId", !.message = n]]
        \/ txn' = [txn EXCEPT ![r] = [txn[r] EXCEPT !.step = "commit", !.event = n]]
    BY <2>0, <1>5 DEF NewId, NewEventId
  <2>4. txn'[r] = Idle \/ TxnStoredOK(r)'
    <3>1. CASE txn'[r] = [txn[r] EXCEPT !.step = "newEventId", !.message = n]
      <4>1. txn'[r].message = n /\ txn'[r].event = txn[r].event /\ txn'[r].step # "commit"
        BY <3>1, <1>2 DEF Txn
      <4> QED BY <4>1, <2>2, <1>1, <1>2 DEF TxnStoredOK
    <3>2. CASE txn'[r] = [txn[r] EXCEPT !.step = "commit", !.event = n]
      <4>1. txn'[r].message = txn[r].message /\ txn'[r].event = n
        BY <3>2, <1>2 DEF Txn
      <4> QED BY <4>1, <2>2, <1>1, <1>2 DEF TxnStoredOK
    <3> QED BY <2>3, <3>1, <3>2, <1>2
  <2> QED BY <2>3, <2>4, <1>1, <1>2, <1>5, TxnStored DEF NewId, NewEventId, store
<1>6. ASSUME NEW r \in Requests, SoftDelete(r) PROVE StoredInv'
  <2>1. TxnStoredOK(r)'
    BY <1>1, <1>2, <1>6 DEF SoftDelete, Goto, Txn, TxnStoredOK
  <2> QED BY <2>1, <1>1, <1>2, <1>6, TxnStored DEF SoftDelete, Goto, store
<1>7. ASSUME NEW r \in Requests, Commit(r) PROVE StoredInv'
  <2>1. /\ txn[r].message \in Nat /\ txn[r].event \in Nat /\ txn[r].message # NoId /\ txn[r].event # NoId
        /\ txn[r].message \in Used /\ txn[r].event \in Used
    BY <1>2, <1>7, ConstantsAssumption DEF Commit, TxnOK, TxnStoredOK
  <2>2. /\ rows' \subseteq rows \cup {txn[r].message}
        /\ EventIds' \subseteq EventIds \cup {txn[r].event}
        /\ events' \subseteq Event
    BY <2>1, <1>7 DEF Commit, EventIds, StoredInv, Event
  <2>3. rows' \cup EventIds' \subseteq Used'
    BY <2>1, <2>2, <1>1 DEF StoredInv
  <2>4. ASSUME NEW q \in Requests PROVE TxnStoredOK(q)'
    <3>1. txn'[q] = Idle \/ txn'[q] = txn[q]
      BY <1>2, <1>7 DEF Commit, End
    <3> QED BY <3>1, <1>1, <1>2 DEF TxnStoredOK, Idle
  <2> QED BY <2>2, <2>3, <2>4, <1>2, <1>7 DEF StoredInv, Commit
<1>8. ASSUME NEW r \in Requests, GenerateThrows(r) \/ Abort(r) PROVE StoredInv'
  <2>1. /\ txn' = [txn EXCEPT ![r] = Idle] /\ UNCHANGED <<rows, events>>
        /\ faults' \in 0..MaxFaults
    BY <1>2, <1>8 DEF GenerateThrows, Abort, End, Fault, store
  <2> QED BY <2>1, <1>1, <1>2, TxnStored
<1>9. ASSUME NEW p \in Processes, SendForbidden(p) \/ Tick(p) \/ StepBack(p) \/ Restart(p)
      PROVE  StoredInv'
  <2>1. /\ \A r \in Requests : txn'[r] = txn[r] \/ txn'[r] = Idle
        /\ UNCHANGED <<rows, events>> /\ faults' \in 0..MaxFaults
    BY <1>2, <1>9 DEF SendForbidden, Tick, StepBack, Restart, Fault, store
  <2> QED BY <2>1, <1>1, TxnStored
<1>10. ASSUME StartWalk \/ NextPage \/ UNCHANGED vars PROVE StoredInv'
  BY <1>1, <1>2, <1>10, TxnStored DEF StartWalk, NextPage, vars, store
<1> QED BY <1>3, <1>4, <1>5, <1>6, <1>7, <1>8, <1>9, <1>10 DEF Next

\* Type correctness of Messages' state, the generators' part of it included.
THEOREM TypeCorrect == Spec => []TypeOK
<1>1. IInv /\ StoredInv => TypeOK
  BY DEF IInv, IdsInv, LimiterInv, LimiterType, DeletionInv, TxnInv, WalkInv, StoredInv, TypeOK
<1> QED BY <1>1, InitStored, NextStored, Invariance, PTL DEF Spec

\* No send and no deletion is refused for an id that is taken, whichever process
\* issued the ids of the rows and events there are, and however many restarts
\* ago: it takes a process that forgot how far a clock since set back had come.
NeverRefused ==
    [][\A r \in Requests : txn[r].process \notin forgot =>
          /\ NewId(r) => Ids!NextId(txn[r].process) \notin rows
          /\ NewEventId(r) => Ids!NextId(txn[r].process) \notin EventIds]_vars

\* The primary keys of messages and of the outbox hold without ever being put to
\* the test (generate() of SnowflakeGenerator, messageRepo.create, outbox.append).
THEOREM IdsAreNeverTaken == Spec => NeverRefused
<1>1. ASSUME IInv, StoredInv, NEW r \in Requests, txn[r].process \notin forgot,
             NewId(r) \/ NewEventId(r)
      PROVE  Ids!NextId(txn[r].process) \notin rows \cup EventIds
  <2>1. txn[r].process \in Processes /\ Ids!Generate(txn[r].process)
    BY <1>1 DEF IInv, DeletionInv, TxnInv, NewId, NewEventId, TxnOK
  <2>2. Ids!NextId(txn[r].process) \notin Used
    BY <2>1, <1>1, GenerateIssues DEF IInv
  <2> QED BY <2>2, <1>1 DEF StoredInv
<1>2. IInv /\ StoredInv /\ [Next]_vars =>
        [\A r \in Requests : txn[r].process \notin forgot =>
           /\ NewId(r) => Ids!NextId(txn[r].process) \notin rows
           /\ NewEventId(r) => Ids!NextId(txn[r].process) \notin EventIds]_vars
  BY <1>1, Zenon
<1> QED BY <1>2, InitStored, NextStored, Invariance, PTL DEF Spec, NeverRefused
=============================================================================
