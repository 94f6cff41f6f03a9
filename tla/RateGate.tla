------------------------------- MODULE RateGate -------------------------------
(***************************************************************************)
(* _rate_gate of adapters/slack.py, which every send() to a Slack channel  *)
(* passes first: the channel's asyncio.Lock, the time since the last post, *)
(* the sleep, and the post itself, which is made after the lock is free.   *)
(*                                                                         *)
(* The senders are the worker tasks of the pipeline; each has one post at  *)
(* a time.  Stopping the pipeline cancels them all, wherever they are, and *)
(* its restart uses the same adapter.  Time is counted in units that       *)
(* divide the interval.                                                    *)
(***************************************************************************)
EXTENDS Integers, Sequences, FiniteSets, SequencesExt

CONSTANTS
    Senders, Channels,
    Interval,    \* _MIN_POST_INTERVAL
    Lateness,    \* how late at most the event loop wakes a sleeper
    MaxCancels   \* bound: restarts of the pipeline

ASSUME IntervalAssumption == Interval \in Nat \ {0}
ASSUME BoundsAssumption == {Lateness, MaxCancels} \subseteq Nat

VARIABLES
    queue,    \* _post_locks: for each channel, who waits for its lock, in order
    holder,   \* who holds the lock of each channel
    left,     \* what is left of each holder's sleep, negative when overslept
    since,    \* time since _last_post of each channel, up to Interval
    quiet,    \* ghost: time since a sender has passed, up to Interval
    posting,  \* for each sender, the channel its chat.postMessage is for
    waited,   \* ghost: for each sender, the time since it came to the gate
    ahead,    \* ghost: for each sender, how many were at the gate before it
    cancels   \* used up so far

vars == <<queue, holder, left, since, quiet, posting, waited, ahead, cancels>>

None == "none"
ASSUME NoneAssumption == None \notin Senders \cup Channels

Init ==
    /\ queue = [c \in Channels |-> <<>>]
    /\ holder = [c \in Channels |-> None]
    /\ left = [c \in Channels |-> 0]
    /\ since = [c \in Channels |-> Interval]
    /\ quiet = [c \in Channels |-> Interval]
    /\ posting = [s \in Senders |-> None]
    /\ waited = [s \in Senders |-> 0]
    /\ ahead = [s \in Senders |-> 0]
    /\ cancels = 0

\* Longer than anybody waits; `waited` stops there.
Patience == (Cardinality(Senders) + 1) * (Interval + Lateness)

Queued(s) == \E c \in Channels : Contains(queue[c], s)
Holding(s) == \E c \in Channels : holder[c] = s
AtGate(c) == Len(queue[c]) + IF holder[c] = None THEN 0 ELSE 1

-----------------------------------------------------------------------------
\* `async with lock`: a sender joins the queue of the channel's lock.
Arrive(s, c) ==
    /\ posting[s] = None /\ ~Queued(s) /\ ~Holding(s)
    /\ queue' = [queue EXCEPT ![c] = Append(@, s)]
    /\ waited' = [waited EXCEPT ![s] = 0]
    /\ ahead' = [ahead EXCEPT ![s] = AtGate(c)]
    /\ UNCHANGED <<holder, left, since, quiet, posting, cancels>>

\* Mutant of Acquire: the last in the queue gets the lock first.
Acquire_Lifo(c) ==
    /\ holder[c] = None /\ queue[c] # <<>>
    /\ holder' = [holder EXCEPT ![c] = Last(queue[c])]
    /\ queue' = [queue EXCEPT ![c] = Front(@)]
    /\ left' = [left EXCEPT ![c] = Interval - since[c]]
    /\ UNCHANGED <<since, quiet, posting, waited, ahead, cancels>>

\* Mutant of Acquire: it sleeps for the time that has passed.
Acquire_Elapsed(c) ==
    /\ holder[c] = None /\ queue[c] # <<>>
    /\ holder' = [holder EXCEPT ![c] = Head(queue[c])]
    /\ queue' = [queue EXCEPT ![c] = Tail(@)]
    /\ left' = [left EXCEPT ![c] = since[c]]
    /\ UNCHANGED <<since, quiet, posting, waited, ahead, cancels>>

\* The lock goes to the first in its queue, who reads the time and sleeps for
\* what is missing to the interval.
Acquire(c) ==
    /\ holder[c] = None /\ queue[c] # <<>>
    /\ holder' = [holder EXCEPT ![c] = Head(queue[c])]
    /\ queue' = [queue EXCEPT ![c] = Tail(@)]
    /\ left' = [left EXCEPT ![c] = Interval - since[c]]
    /\ UNCHANGED <<since, quiet, posting, waited, ahead, cancels>>

\* The sleep is over: the time is noted, the lock released, and chat.postMessage
\* called.
Pass(c) ==
    /\ holder[c] # None /\ left[c] <= 0
    /\ since' = [since EXCEPT ![c] = 0]
    /\ quiet' = [quiet EXCEPT ![c] = 0]
    /\ posting' = [posting EXCEPT ![holder[c]] = c]
    /\ waited' = [waited EXCEPT ![holder[c]] = 0]
    /\ ahead' = [ahead EXCEPT ![holder[c]] = 0]
    /\ holder' = [holder EXCEPT ![c] = None]
    /\ left' = [left EXCEPT ![c] = 0]
    /\ UNCHANGED <<queue, cancels>>

\* The call of chat.postMessage ends, with a ts or with an error.
Posted(s) ==
    /\ posting[s] # None
    /\ posting' = [posting EXCEPT ![s] = None]
    /\ UNCHANGED <<queue, holder, left, since, quiet, waited, ahead, cancels>>

\* The pipeline stops: waiting for the lock, sleeping and posting end alike;
\* `async with` releases the lock and _last_post stays as it is.
Cancel ==
    /\ cancels < MaxCancels
    /\ cancels' = cancels + 1
    /\ queue' = [c \in Channels |-> <<>>]
    /\ holder' = [c \in Channels |-> None]
    /\ left' = [c \in Channels |-> 0]
    /\ posting' = [s \in Senders |-> None]
    /\ waited' = [s \in Senders |-> 0]
    /\ ahead' = [s \in Senders |-> 0]
    /\ UNCHANGED <<since, quiet>>

\* A unit of time.  A free lock with a queue is handed over before, and a
\* sleeper is woken at most Lateness after its time.
Tick ==
    /\ \A c \in Channels : /\ holder[c] = None => queue[c] = <<>>
                           /\ holder[c] # None => left[c] > -Lateness
    /\ left' = [c \in Channels |-> IF holder[c] # None THEN left[c] - 1 ELSE 0]
    /\ since' = [c \in Channels |->
                    IF since[c] < Interval THEN since[c] + 1 ELSE Interval]
    /\ quiet' = [c \in Channels |->
                    IF quiet[c] < Interval THEN quiet[c] + 1 ELSE Interval]
    /\ waited' = [s \in Senders |->
                     IF waited[s] < Patience /\ (Queued(s) \/ Holding(s))
                     THEN waited[s] + 1 ELSE waited[s]]
    /\ UNCHANGED <<queue, holder, posting, ahead, cancels>>

Next ==
    \/ \E s \in Senders, c \in Channels : Arrive(s, c)
    \/ \E c \in Channels : Acquire(c)
    \/ \E c \in Channels : Pass(c)
    \/ \E s \in Senders : Posted(s)
    \/ Cancel
    \/ Tick

Spec == Init /\ [][Next]_vars

-----------------------------------------------------------------------------
(* Properties.                                                             *)

\* Types of the state.
TypeOK ==
    /\ queue \in [Channels -> Seq(Senders)]
    /\ holder \in [Channels -> Senders \cup {None}]
    /\ left \in [Channels -> -Lateness .. Interval]
    /\ since \in [Channels -> 0 .. Interval]
    /\ quiet \in [Channels -> 0 .. Interval]
    /\ posting \in [Senders -> Channels \cup {None}]
    /\ waited \in [Senders -> Nat] /\ ahead \in [Senders -> Nat]
    /\ cancels \in 0 .. MaxCancels

\* Who may go on is a whole interval behind the last post of the channel,
\* whoever made it, and even if a sleeper was cancelled in between (slack.py:148).
Spaced ==
    \A c \in Channels : holder[c] # None /\ left[c] <= 0 => quiet[c] = Interval

\* The gate delays a post by an interval for each one before it and its own, no
\* more: senders do not overtake one another.
WaitBounded ==
    \A s \in Senders : waited[s] <= (ahead[s] + 1) * (Interval + Lateness)
===============================================================================
