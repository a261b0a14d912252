--------------------------- MODULE EventDelivery ---------------------------
(***************************************************************************)
(* What the transactional outbox promises to the rest of the system: an    *)
(* event reaches the bus only if the transaction that recorded it has      *)
(* committed, it may reach it more than once, and each recorded event is   *)
(* in the end delivered or, after a fault, lost.                           *)
(***************************************************************************)
CONSTANT Events      \* everything that may ever be recorded

VARIABLES
    recorded,       \* events whose transaction has committed
    delivered,      \* events the bus has received at least once
    lost            \* events nobody will deliver any more

vars == <<recorded, delivered, lost>>

TypeOK ==
    /\ recorded \subseteq Events
    /\ delivered \subseteq Events
    /\ lost \subseteq Events

Init == recorded = {} /\ delivered = {} /\ lost = {}

\* The domain transaction commits the change and the event together.
Record(e) ==
    /\ recorded' = recorded \cup {e}
    /\ UNCHANGED <<delivered, lost>>

\* The bus receives the event, perhaps not for the first time.
Deliver(e) ==
    /\ e \in recorded \ lost
    /\ delivered' = delivered \cup {e}
    /\ UNCHANGED <<recorded, lost>>

\* A fault drops recorded events for good.
Lose(S) ==
    /\ S \subseteq recorded \ delivered
    /\ lost' = lost \cup S
    /\ UNCHANGED <<recorded, delivered>>

Next ==
    \/ \E e \in Events : Record(e) \/ Deliver(e)
    \/ \E S \in SUBSET Events : Lose(S)

\* What is owed: nothing recorded stays in the outbox for ever.
Settled == \A e \in Events : e \in recorded ~> e \in delivered \cup lost

Safety == Init /\ [][Next]_vars

Spec == Safety /\ Settled
=============================================================================
