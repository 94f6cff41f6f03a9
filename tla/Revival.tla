------------------------------- MODULE Revival -------------------------------
(***************************************************************************)
(* Relay with the operator's `chbridge dlq --requeue` (cli.py): one        *)
(* statement makes every dead row pending again, with no attempts.  Rows   *)
(* keep their ids and claim() takes the lowest (store/inbox.py), so those  *)
(* of a channel come before what waits there, but after the event its      *)
(* worker has in hand; that one falls behind them if it fails.             *)
(***************************************************************************)
EXTENDS Relay

CONSTANT MaxRequeues   \* bound: uses of the command, at most one

ASSUME RequeuesAssumption == MaxRequeues \in 0..1

VARIABLES
    morgue,    \* the dead rows of each channel, in the order of their ids
    revived,   \* rows of each channel that are to be claimed before its queue
    held,      \* a started event that fell behind revived ones, with its tries
    requeues,  \* uses of the command
    outOfTurn  \* ghost: messages of which a later event was handled already

revivalVars == <<morgue, revived, held, requeues, outOfTurn>>
allVars == <<vars, revivalVars>>

NotHeld == [tries |-> 0, behind |-> 0]

RevivalInit ==
    /\ Init
    /\ morgue = [c \in Channels |-> <<>>]
    /\ revived = [c \in Channels |-> <<>>]
    /\ held = [c \in Channels |-> NotHeld]
    /\ requeues = 0
    /\ outOfTurn = {}

\* The event that tells how m is now: has it been settled already, or is it in a
\* worker's hands, while an older one in the DLQ is to come back?
Newest(m) ==
    IF msgs[m].gone THEN Event("deleted", m, 0)
    ELSE Event(IF msgs[m].text = 0 THEN "created" ELSE "edited", m, msgs[m].text)
Waiting(c) == IF w[c] = Idle THEN queue[c] ELSE Tail(queue[c])
LaterDone(m) == Newest(m) \notin dead \cup UNION {Range(Waiting(c)) : c \in Channels}

\* dlq --requeue.
Revive ==
    /\ requeues < MaxRequeues /\ dead # {}
    /\ requeues' = requeues + 1
    /\ revived' = morgue
    /\ morgue' = [c \in Channels |-> <<>>]
    /\ dead' = {}
    /\ outOfTurn' = {ev.msg : ev \in {e \in dead : LaterDone(e.msg)}}
    /\ UNCHANGED <<msgs, links, groups, queue, tries, w, users, faults, held>>

\* Mutant of Reorder: revived rows come last.
Reorder_Last(c) ==
    /\ w[c] = Idle /\ revived[c] # <<>>
    /\ queue' = [queue EXCEPT ![c] = @ \o revived[c]]
    /\ revived' = [revived EXCEPT ![c] = <<>>]
    /\ UNCHANGED <<msgs, links, groups, tries, dead, w, users, faults, morgue, held,
                   requeues, outOfTurn>>
\* The order of the next claims of channel c, whose worker has nothing in hand.
Reorder(c) ==
    /\ w[c] = Idle /\ revived[c] # <<>>
    /\ queue' = [queue EXCEPT ![c] = revived[c] \o @]
    /\ revived' = [revived EXCEPT ![c] = <<>>]
    /\ held' = [held EXCEPT ![c] = [tries |-> tries[c], behind |-> Len(revived[c])]]
    /\ tries' = [tries EXCEPT ![c] = 0]
    /\ UNCHANGED <<msgs, links, groups, dead, w, users, faults, morgue, requeues,
                   outOfTurn>>

\* An event that has fallen behind comes back to the head.
Due(c) == held[c].tries > 0 /\ held[c].behind = 0

Resume(c) ==
    /\ w[c] = Idle /\ Due(c)
    /\ tries' = [tries EXCEPT ![c] = held[c].tries]
    /\ held' = [held EXCEPT ![c] = NotHeld]
    /\ UNCHANGED <<msgs, links, groups, queue, dead, w, users, faults, morgue,
                   revived, requeues, outOfTurn>>

Settled(c) == Len(queue'[c]) < Len(queue[c])

\* What a step of Relay does to the rows: the event a worker settles leaves
\* the head of its queue, for the DLQ if it has died.
Book ==
    /\ morgue' = [c \in Channels |->
                     IF Settled(c) /\ dead' # dead
                     THEN Append(morgue[c], Head(queue[c])) ELSE morgue[c]]
    /\ held' = [c \in Channels |->
                   IF Settled(c) /\ held[c].behind > 0
                   THEN [held[c] EXCEPT !.behind = @ - 1] ELSE held[c]]
    /\ UNCHANGED <<revived, requeues, outOfTurn>>

\* A claim waits for the order above.
Claimable(c) == w[c] # Idle \/ (revived[c] = <<>> /\ ~Due(c))

RelayStep(c) == Claimable(c) /\ WorkerStep(c) /\ Book

Proceed(c) == RelayStep(c) \/ Reorder(c) \/ Resume(c)

RevivalNext ==
    \/ \E c \in Channels :
         \/ Proceed(c)
         \/ StepError(c) /\ Book
         \/ SendReplyLost(c) /\ Book
         \/ \E parent \in ThreadRoots(c) \cup {0} : UserPost(c, parent) /\ Book
    \/ \E m \in OwnPosts : (UserEdit(m) \/ UserDelete(m)) /\ Book
    \/ Crash /\ Book
    \/ Revive

RevivalSpec == RevivalInit /\ [][RevivalNext]_allVars

\* While any worker can go on, one of them does; which, is left open.
RevivalFairSpec == RevivalSpec /\ WF_allVars(\E c \in Channels : Proceed(c))

-----------------------------------------------------------------------------
(* Properties.                                                             *)

AtRest == Quiet /\ \A c \in Channels : revived[c] = <<>>

\* Requeuing repairs what the DLQ had stopped: once the bridge is at rest and
\* the DLQ empty, every post has an up-to-date copy in every other channel, but
\* for the posts whose event came back after a later one had been settled.
RevivedDelivered ==
    AtRest =>
        \A m \in Relayed \ outOfTurn : \A t \in Channels \ {msgs[m].chan} :
            \E k \in Copies(m, t) : Alike(m, k)

\* As long as nobody requeues anything and nothing has failed, every post ends
\* up with exactly one copy in every other channel, as it is now.
ExactlyOneCopy == requeues = 0 => Converged

\* The bridge comes to rest when its users and its operator do: no reply that
\* waits for its parent and no revived row keeps it busy for ever.
ComesToRest == <>[]AtRest
===============================================================================
