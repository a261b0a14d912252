---------------------------- MODULE SnowflakeIds ----------------------------
(***************************************************************************)
(* SnowflakeGenerator, one in each process: 64-bit ids of a timestamp, a   *)
(* node and a sequence number.  A process reads its machine's clock, which *)
(* may be set back; lastTimestamp and sequence do not survive a restart.   *)
(***************************************************************************)
EXTENDS Integers, Sequences

CONSTANTS
    Processes,
    NodeOf,         \* NODE_ID of each process
    Nodes,          \* 2^10
    Sequence,       \* 2^12
    MaxTime         \* bound: the clocks

\* "Each service instance gets a unique NODE_ID" (docs/architecture.md:201).
NodesAreDistinct ==
    /\ Nodes \in Nat \ {0} /\ Sequence \in Nat \ {0} /\ MaxTime \in Nat
    /\ NodeOf \in [Processes -> 0..(Nodes - 1)]
    /\ \A p, q \in Processes : NodeOf[p] = NodeOf[q] => p = q

VARIABLES
    clock,          \* milliseconds since CUSTOM_EPOCH
    lastTimestamp, sequence,
    \* History: the ids each process has issued, and the processes whose clock,
    \* set back, was behind when they started, or before their first id.
    issued, forgot

vars == <<clock, lastTimestamp, sequence, issued, forgot>>

TypeOK ==
    /\ clock \in [Processes -> 0..MaxTime]
    /\ lastTimestamp \in [Processes -> -1..MaxTime]
    /\ sequence \in [Processes -> 0..(Sequence - 1)]
    /\ issued \in [Processes -> Seq(Nat)]
    /\ forgot \subseteq Processes

Init ==
    /\ clock = [p \in Processes |-> 0]
    /\ lastTimestamp = [p \in Processes |-> -1]
    /\ sequence = [p \in Processes |-> 0]
    /\ issued = [p \in Processes |-> <<>>]
    /\ forgot = {}

\* timestamp << 22 | node << 12 | sequence
Encode(t, node, s) == (t * Nodes + node) * Sequence + s

\* The id generate() returns when the clock reads clock[p].
NextSequence(p) == IF clock[p] = lastTimestamp[p] THEN (sequence[p] + 1) % Sequence ELSE 0
NextId(p) == Encode(clock[p], NodeOf[p], NextSequence(p))

\* Mutant: nobody looks at the clock.
TrustsClock(p) == FALSE

\* "Clock moved backwards. Refusing to generate ID"
Throws(p) == clock[p] < lastTimestamp[p]

\* The sequence has wrapped: the loop reads the clock until it has gone on.
\* What it then returns is what a call that began then would return.
Spins(p) == clock[p] = lastTimestamp[p] /\ NextSequence(p) = 0

Generate(p) ==
    /\ ~Throws(p) /\ ~Spins(p)
    /\ lastTimestamp' = [lastTimestamp EXCEPT ![p] = clock[p]]
    /\ sequence' = [sequence EXCEPT ![p] = NextSequence(p)]
    /\ issued' = [issued EXCEPT ![p] = Append(@, NextId(p))]
    /\ UNCHANGED <<clock, forgot>>

Tick(p) ==
    /\ clock[p] < MaxTime
    /\ clock' = [clock EXCEPT ![p] = @ + 1]
    /\ UNCHANGED <<lastTimestamp, sequence, issued, forgot>>

StepBack(p) ==
    /\ clock[p] > 0
    /\ clock' = [clock EXCEPT ![p] = @ - 1]
    /\ forgot' = IF lastTimestamp[p] = -1 THEN forgot \cup {p} ELSE forgot
    /\ UNCHANGED <<lastTimestamp, sequence, issued>>

\* A new process takes more than a millisecond to start.
Restart(p) ==
    /\ clock[p] < MaxTime
    /\ clock' = [clock EXCEPT ![p] = @ + 1]
    /\ lastTimestamp' = [lastTimestamp EXCEPT ![p] = -1]
    /\ sequence' = [sequence EXCEPT ![p] = 0]
    /\ forgot' = IF clock[p] < lastTimestamp[p] THEN forgot \cup {p} ELSE forgot
    /\ UNCHANGED issued

Next == \E p \in Processes : Generate(p) \/ Tick(p) \/ StepBack(p) \/ Restart(p)

Spec == Init /\ [][Next]_vars

-----------------------------------------------------------------------------
\* Ids are unique, and those of a process increase, though its clock is set back
\* and its sequence wraps; only a clock set back together with a restart, which
\* makes the process forget how far it was, can make it repeat itself.
IdsIncrease ==
    \A p \in Processes \ forgot :
        /\ \A i, j \in DOMAIN issued[p] : i < j => issued[p][i] < issued[p][j]
        /\ \A q \in Processes \ {p} : \A i \in DOMAIN issued[p], j \in DOMAIN issued[q] :
              issued[p][i] # issued[q][j]
=============================================================================
