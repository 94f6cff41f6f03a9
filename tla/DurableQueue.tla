---------------------------- MODULE DurableQueue ----------------------------
(***************************************************************************)
(* What the pipeline promises to the rest of the bridge, without tasks,    *)
(* wake-ups, attempts or crashes: an accepted event stays in the queue     *)
(* until it is finished, no event is finished that was not delivered, the  *)
(* events of a channel are delivered in the order of acceptance, and only  *)
(* giving up on an event lets later ones pass it.  An event that was given *)
(* up may be put back; it then has lost its place in the order.            *)
(***************************************************************************)
EXTENDS Naturals

CONSTANTS Events, Channels, ChannelOf

VARIABLES
    rank,       \* place in the order of acceptance, 0 when not accepted
    nextRank,
    state,      \* "new", "queued", "done" or "dead"
    delivered,  \* events delivered at least once
    revived     \* events put back after they were given up

vars == <<rank, nextRank, state, delivered, revived>>

Init ==
    /\ rank = [e \in Events |-> 0]
    /\ nextRank = 1
    /\ state = [e \in Events |-> "new"]
    /\ delivered = {}
    /\ revived = {}

Accept(e) ==
    /\ state[e] = "new"
    /\ state' = [state EXCEPT ![e] = "queued"]
    /\ rank' = [rank EXCEPT ![e] = nextRank]
    /\ nextRank' = nextRank + 1
    /\ UNCHANGED <<delivered, revived>>

\* No event of the channel that still has its place in the order is ahead.
FirstInLine(e) ==
    \A f \in Events :
        (ChannelOf[f] = ChannelOf[e] /\ state[f] = "queued" /\ f \notin revived)
        => rank[e] <= rank[f]

\* Delivery may repeat until the event is finished.
Deliver(e) ==
    /\ state[e] = "queued"
    /\ FirstInLine(e)
    /\ delivered' = delivered \cup {e}
    /\ UNCHANGED <<rank, nextRank, state, revived>>

Finish(e) ==
    /\ state[e] = "queued"
    /\ FirstInLine(e)
    /\ e \in delivered
    /\ state' = [state EXCEPT ![e] = "done"]
    /\ UNCHANGED <<rank, nextRank, delivered, revived>>

GiveUp(e) ==
    /\ state[e] = "queued"
    /\ FirstInLine(e)
    /\ state' = [state EXCEPT ![e] = "dead"]
    /\ UNCHANGED <<rank, nextRank, delivered, revived>>

\* Everything that was given up is put back.
Revive ==
    LET dead == {e \in Events : state[e] = "dead"} IN
    /\ state' = [e \in Events |-> IF e \in dead THEN "queued" ELSE state[e]]
    /\ revived' = revived \cup dead
    /\ UNCHANGED <<rank, nextRank, delivered>>

Next ==
    \/ \E e \in Events : Accept(e) \/ Deliver(e) \/ Finish(e) \/ GiveUp(e)
    \/ Revive

Spec == Init /\ [][Next]_vars
=============================================================================
