------------------------------ MODULE Pipeline ------------------------------
(***************************************************************************)
(* The durable event queue of the bridge and the workers that drain it:    *)
(* chbridge/worker.py (Pipeline), store/inbox.py (InboxStore), the part of *)
(* supervisor.py that restarts the pipeline job, and the DLQ command of    *)
(* cli.py.                                                                 *)
(*                                                                         *)
(* The database survives a crash; everything else is the memory of one     *)
(* process.  An action stands for the code between two awaits, or for one  *)
(* database statement; the gap between a statement that has committed and  *)
(* the code that reads its reply is a state of its own.                    *)
(*                                                                         *)
(* What the relay does with an event is abstract here (module Relay models *)
(* it): handling an event completes or raises.                             *)
(***************************************************************************)
EXTENDS Naturals, FiniteSets

CONSTANTS
    Events,       \* event keys the platforms may deliver to submit()
    Channels,     \* bridged channels (Router.all_endpoints)
    ChannelOf,    \* the channel an event comes from
    NoEvent,      \* "this worker holds no event"
    MaxAttempts,  \* settings.max_attempts
    Faults,       \* the kinds of fault this instance injects
    MaxFaults,    \* bound: faults injected in a behaviour
    MaxRevivals   \* bound: uses of the DLQ command in a behaviour

FaultKinds ==
    {"crash",            \* the process dies (or is stopped) anywhere
     "submit",           \* enqueue commits, then its reply or the cursor fails
     "claim",            \* claim() raises, nothing committed
     "claim_reply",      \* claim() commits, its reply is lost
     "mark_done",        \* mark_done() raises, nothing committed
     "mark_done_reply",  \* mark_done() commits, its reply is lost
     "mark_failed",      \* mark_failed() raises, committed or not
     "requeue",          \* requeue_all_processing() raises
     "pending"}          \* pending_channels() raises

ASSUME ChannelsAssumption == ChannelOf \in [Events -> Channels]
ASSUME NoEventAssumption == NoEvent \notin Events
ASSUME BoundsAssumption ==
    MaxAttempts \in Nat /\ MaxFaults \in Nat /\ MaxRevivals \in Nat
ASSUME FaultsAssumption == Faults \subseteq FaultKinds

VARIABLES
    \* event_inbox
    rowId,       \* id of the event's row, 0 when there is none
    nextId,      \* the BIGSERIAL that numbers rows
    status,      \* "absent" when there is no row
    attempts,
    \* Pipeline and its tasks
    job,         \* the pipeline job: where run() is, or the supervisor's sleep
    group,       \* Pipeline._group
    running,     \* Pipeline._running
    wakes,       \* channels whose asyncio.Event is set
    pc,          \* where each channel's worker task is, "none" when no task
    cur,         \* the event a worker holds
    submitting,  \* accepted events whose submit() has yet to wake a worker
    \* history
    handled,     \* times relay.handle(event) ran to its end
    revived,     \* events the DLQ command has put back
    faults,      \* faults so far
    revivals     \* DLQ commands so far

db == <<rowId, nextId, status, attempts>>
tasks == <<job, group, running, pc, cur>>
counters == <<handled, revived, faults, revivals>>
vars == <<rowId, nextId, status, attempts, job, group, running, wakes, pc,
          cur, submitting, handled, revived, faults, revivals>>

Holding == {"handle", "mark_done", "fail_retry", "fail_fatal"}
WorkerStates == Holding \cup
    {"none", "claim", "claim_sleep", "empty", "wait", "backoff"}

TypeOK ==
    /\ rowId \in [Events -> Nat]
    /\ nextId \in Nat \ {0}
    /\ status \in [Events -> {"absent", "pending", "processing", "done", "dead"}]
    /\ attempts \in [Events -> Nat]
    /\ job \in {"down", "requeue", "listing", "up", "backoff"}
    /\ group \in {"none", "open", "closed"}
    /\ running \subseteq Channels
    /\ wakes \subseteq Channels
    /\ pc \in [Channels -> WorkerStates]
    /\ cur \in [Channels -> Events \cup {NoEvent}]
    /\ submitting \subseteq Events
    /\ handled \in [Events -> Nat]
    /\ revived \subseteq Events
    /\ faults \in 0..MaxFaults
    /\ revivals \in 0..MaxRevivals

\* A new deployment: an empty inbox and no process.
Init ==
    /\ rowId = [e \in Events |-> 0]
    /\ nextId = 1
    /\ status = [e \in Events |-> "absent"]
    /\ attempts = [e \in Events |-> 0]
    /\ job = "down"
    /\ group = "none"
    /\ running = {}
    /\ wakes = {}
    /\ pc = [c \in Channels |-> "none"]
    /\ cur = [c \in Channels |-> NoEvent]
    /\ submitting = {}
    /\ handled = [e \in Events |-> 0]
    /\ revived = {}
    /\ faults = 0
    /\ revivals = 0

Fault(kind) ==
    /\ kind \in Faults
    /\ faults < MaxFaults
    /\ faults' = faults + 1
    /\ UNCHANGED <<handled, revived, revivals>>

-----------------------------------------------------------------------------
(* The life of the process and of the pipeline job.                        *)

NoWorkers ==
    /\ pc' = [c \in Channels |-> "none"]
    /\ cur' = [c \in Channels |-> NoEvent]

\* The process starts and the supervisor calls Pipeline.run for the first time.
Start ==
    /\ job = "down"
    /\ job' = "requeue"
    /\ UNCHANGED <<db, group, running, wakes, pc, cur, submitting, counters>>

\* The process dies: tasks, wake events, _group and _running are gone.
Crash ==
    /\ job # "down"
    /\ Fault("crash")
    /\ job' = "down"
    /\ group' = "none"
    /\ running' = {}
    /\ wakes' = {}
    /\ submitting' = {}
    /\ NoWorkers
    /\ UNCHANGED db

\* Mutant of RequeueAll: the recovery statement is left out.
RequeueAll_None ==
    /\ job = "requeue"
    /\ job' = "listing"
    /\ group' = "open"
    /\ UNCHANGED <<db, running, wakes, pc, cur, submitting, counters>>

\* Mutant of RequeueAll: the statement tests processed rows, too.
RequeueAll_TooMuch ==
    /\ job = "requeue"
    /\ status' = [e \in Events |->
                    IF status[e] \in {"processing", "done"} THEN "pending"
                    ELSE status[e]]
    /\ job' = "listing"
    /\ group' = "open"
    /\ UNCHANGED <<rowId, nextId, attempts, running, wakes, pc, cur,
                   submitting, counters>>

\* run(): rows a dead process left in 'processing' go back to 'pending';
\* then the task group is entered.
RequeueAll ==
    /\ job = "requeue"
    /\ status' = [e \in Events |->
                    IF status[e] = "processing" THEN "pending" ELSE status[e]]
    /\ job' = "listing"
    /\ group' = "open"
    /\ UNCHANGED <<rowId, nextId, attempts, running, wakes, pc, cur,
                   submitting, counters>>

\* The statement fails: run() raises before it makes a new group.
RequeueError ==
    /\ job = "requeue"
    /\ Fault("requeue")
    /\ job' = "backoff"
    /\ UNCHANGED <<db, group, running, wakes, pc, cur, submitting>>

\* run() after pending_channels(): _ensure_worker for every channel.  The
\* channels with pending rows are bridged channels, so all are covered.  A
\* group whose tasks have all ended (here: none was ever made) is left at
\* once, and run() returns to the supervisor.
SpawnAll ==
    /\ job = "listing"
    /\ pc' = [c \in Channels |-> IF c \in running THEN pc[c] ELSE "claim"]
    /\ running' = Channels
    /\ IF \A c \in Channels : pc'[c] = "none"
         THEN job' = "backoff" /\ group' = "closed"
         ELSE job' = "up" /\ UNCHANGED group
    /\ UNCHANGED <<db, wakes, cur, submitting, counters>>

\* The task group is left by an exception: its tasks are cancelled, run()
\* raises, and the supervisor sleeps.  _running is not touched.
AbortGroup ==
    /\ job' = "backoff"
    /\ group' = "closed"
    /\ NoWorkers
    /\ UNCHANGED running

PendingError ==
    /\ job = "listing"
    /\ Fault("pending")
    /\ AbortGroup
    /\ UNCHANGED <<db, wakes, submitting>>

\* Supervisor._supervise: the backoff is over and run() is called again.
RestartJob ==
    /\ job = "backoff"
    /\ job' = "requeue"
    /\ UNCHANGED <<db, group, running, wakes, pc, cur, submitting, counters>>

-----------------------------------------------------------------------------
(* Pipeline.submit.                                                        *)

\* Mutant of Enqueue: the key is not UNIQUE, a redelivered event is queued.
Enqueue_NotUnique(e) ==
    /\ job # "down"
    /\ status[e] \in {"absent", "done"}
    /\ status' = [status EXCEPT ![e] = "pending"]
    /\ rowId' = [rowId EXCEPT ![e] = nextId]
    /\ nextId' = nextId + 1
    /\ submitting' = submitting \cup {e}
    /\ UNCHANGED <<attempts, tasks, wakes, counters>>

\* enqueue(): INSERT ... ON CONFLICT DO NOTHING.  An event that has a row is
\* not accepted and submit() changes nothing but the cursor (module Intake).
Enqueue(e) ==
    /\ job # "down"
    /\ status[e] = "absent"
    /\ status' = [status EXCEPT ![e] = "pending"]
    /\ rowId' = [rowId EXCEPT ![e] = nextId]
    /\ nextId' = nextId + 1
    /\ submitting' = submitting \cup {e}
    /\ UNCHANGED <<attempts, tasks, wakes, counters>>

\* submit() raises between the INSERT and the wake-up.
SubmitError(e) ==
    /\ e \in submitting
    /\ Fault("submit")
    /\ submitting' = submitting \ {e}
    /\ UNCHANGED <<db, tasks, wakes>>

\* Mutant of EnsureAndWake: the new worker is not put in _running.
EnsureAndWake_Unregistered(e) ==
    LET c == ChannelOf[e] IN
    /\ e \in submitting
    /\ submitting' = submitting \ {e}
    /\ wakes' = wakes \cup {c}
    /\ IF c \in running \/ group # "open"
         THEN UNCHANGED pc
         ELSE pc' = [pc EXCEPT ![c] = "claim"]
    /\ UNCHANGED <<db, job, group, running, cur, counters>>

\* _ensure_worker(channel), then the wake event is set.  A group that is
\* finished or shutting down refuses the task: create_task raises, after the
\* channel was put in _running.
EnsureAndWake(e) ==
    LET c == ChannelOf[e] IN
    /\ e \in submitting
    /\ submitting' = submitting \ {e}
    /\ IF c \in running \/ group = "none"
         THEN UNCHANGED <<running, pc>> /\ wakes' = wakes \cup {c}
         ELSE /\ running' = running \cup {c}
              /\ IF group = "open"
                   THEN /\ pc' = [pc EXCEPT ![c] = "claim"]
                        /\ wakes' = wakes \cup {c}
                   ELSE UNCHANGED <<pc, wakes>>
    /\ UNCHANGED <<db, job, group, cur, counters>>

-----------------------------------------------------------------------------
(* Pipeline._worker, _process and _fail, for the worker of channel c.      *)

\* The worker goes from one place to another and holds event e there.
Goto(c, from, to, e) ==
    /\ pc[c] = from
    /\ pc' = [pc EXCEPT ![c] = to]
    /\ cur' = [cur EXCEPT ![c] = e]
    /\ UNCHANGED <<job, group, running, submitting>>

PendingOf(c) == {e \in Events : ChannelOf[e] = c /\ status[e] = "pending"}

\* Mutant of Oldest: claim() without ORDER BY id.
Oldest_Any(c, e) == e \in PendingOf(c)

Oldest(c, e) ==
    e \in PendingOf(c) /\ \A f \in PendingOf(c) : rowId[e] <= rowId[f]

\* The UPDATE of claim(): the oldest pending row is taken.
Take(e) ==
    /\ status' = [status EXCEPT ![e] = "processing"]
    /\ attempts' = [attempts EXCEPT ![e] = @ + 1]
    /\ UNCHANGED <<rowId, nextId>>

ClaimRow(c, e) ==
    /\ Oldest(c, e)
    /\ Goto(c, "claim", "handle", e)
    /\ Take(e)
    /\ UNCHANGED <<wakes, counters>>

\* claim() found no row; its reply is on the way.
ClaimNone(c) ==
    /\ PendingOf(c) = {}
    /\ Goto(c, "claim", "empty", NoEvent)
    /\ UNCHANGED <<db, wakes, counters>>

\* The reply is read: wake.clear(), then wait.
ClearWake(c) ==
    /\ Goto(c, "empty", "wait", NoEvent)
    /\ wakes' = wakes \ {c}
    /\ UNCHANGED <<db, counters>>

Wake(c) ==
    /\ c \in wakes
    /\ Goto(c, "wait", "claim", NoEvent)
    /\ UNCHANGED <<db, wakes, counters>>

\* Mutant of Poll: the wait has no timeout.
Poll_Never(c) ==
    /\ c \in wakes
    /\ Goto(c, "wait", "claim", NoEvent)
    /\ UNCHANGED <<db, wakes, counters>>

\* _IDLE_POLL_SECONDS have passed.
Poll(c) ==
    /\ Goto(c, "wait", "claim", NoEvent)
    /\ UNCHANGED <<db, wakes, counters>>

ClaimError(c) ==
    /\ Goto(c, "claim", "claim_sleep", NoEvent)
    /\ Fault("claim")
    /\ UNCHANGED <<db, wakes>>

ClaimReplyLost(c, e) ==
    /\ Oldest(c, e)
    /\ Goto(c, "claim", "claim_sleep", NoEvent)
    /\ Take(e)
    /\ Fault("claim_reply")
    /\ UNCHANGED wakes

ClaimSleepOver(c) ==
    /\ Goto(c, "claim_sleep", "claim", NoEvent)
    /\ UNCHANGED <<db, wakes, counters>>

\* relay.handle(event) returns.
Handle(c) ==
    /\ Goto(c, "handle", "mark_done", cur[c])
    /\ handled' = [handled EXCEPT ![cur[c]] = @ + 1]
    /\ UNCHANGED <<db, wakes, revived, faults, revivals>>

\* Mutant of HandleError: the error is swallowed and the row marked done.
HandleError_Swallowed(c) ==
    /\ Goto(c, "handle", "mark_done", cur[c])
    /\ UNCHANGED <<db, wakes, counters>>

\* relay.handle(event) raises, retryably or not.
HandleError(c) ==
    /\ \E to \in {"fail_retry", "fail_fatal"} : Goto(c, "handle", to, cur[c])
    /\ UNCHANGED <<db, wakes, counters>>

SetStatus(e, s) ==
    /\ status' = [status EXCEPT ![e] = s]
    /\ UNCHANGED <<rowId, nextId, attempts>>

MarkDone(c) ==
    /\ Goto(c, "mark_done", "claim", NoEvent)
    /\ SetStatus(cur[c], "done")
    /\ UNCHANGED <<wakes, counters>>

\* mark_done() raises inside _process's try: the handled event takes the
\* path of a failed one.
MarkDoneError(c) ==
    /\ Goto(c, "mark_done", "fail_retry", cur[c])
    /\ Fault("mark_done")
    /\ UNCHANGED <<db, wakes>>

MarkDoneReplyLost(c) ==
    /\ Goto(c, "mark_done", "fail_retry", cur[c])
    /\ Fault("mark_done_reply")
    /\ SetStatus(cur[c], "done")
    /\ UNCHANGED wakes

\* mark_failed(): CASE WHEN attempts >= limit THEN 'dead' ELSE 'pending'.
Limit(c) == IF pc[c] = "fail_retry" THEN MaxAttempts ELSE 0
\* Mutant of GivesUp: attempts > limit.
GivesUp_Late(c) == attempts[cur[c]] > Limit(c)
GivesUp(c) == attempts[cur[c]] >= Limit(c)
Verdict(c) == IF GivesUp(c) THEN "dead" ELSE "pending"

MarkFailed(c) ==
    /\ pc[c] \in {"fail_retry", "fail_fatal"}
    /\ SetStatus(cur[c], Verdict(c))
    /\ Goto(c, pc[c], IF GivesUp(c) THEN "claim" ELSE "backoff", NoEvent)
    /\ UNCHANGED <<wakes, counters>>

\* Nothing catches an error of mark_failed(): the worker task dies and the
\* task group is aborted.  The UPDATE may have committed.
MarkFailedError(c) ==
    /\ pc[c] \in {"fail_retry", "fail_fatal"}
    /\ Fault("mark_failed")
    /\ SetStatus(cur[c], Verdict(c)) \/ UNCHANGED db
    /\ AbortGroup
    /\ UNCHANGED <<wakes, submitting>>

\* The backoff sleep of _fail ends; the worker wakes itself.
BackoffOver(c) ==
    /\ Goto(c, "backoff", "claim", NoEvent)
    /\ wakes' = wakes \cup {c}
    /\ UNCHANGED <<db, counters>>

-----------------------------------------------------------------------------
\* `chbridge dlq --requeue`, run by an operator in a process of its own: all
\* dead rows become pending with a fresh budget; no worker is woken.
ReviveDead ==
    LET dead == {e \in Events : status[e] = "dead"} IN
    /\ dead # {}
    /\ revivals < MaxRevivals
    /\ revivals' = revivals + 1
    /\ revived' = revived \cup dead
    /\ status' = [e \in Events |-> IF e \in dead THEN "pending" ELSE status[e]]
    /\ attempts' = [e \in Events |-> IF e \in dead THEN 0 ELSE attempts[e]]
    /\ UNCHANGED <<rowId, nextId, tasks, wakes, submitting, handled, faults>>

-----------------------------------------------------------------------------
JobStep == Start \/ RequeueAll \/ SpawnAll \/ RestartJob

WorkerStep(c) ==
    \/ \E e \in Events : ClaimRow(c, e)
    \/ ClaimNone(c)
    \/ ClearWake(c)
    \/ Wake(c)
    \/ Poll(c)
    \/ ClaimSleepOver(c)
    \/ Handle(c)
    \/ HandleError(c)
    \/ MarkDone(c)
    \/ MarkFailed(c)
    \/ BackoffOver(c)

WorkerFault(c) ==
    \/ ClaimError(c)
    \/ \E e \in Events : ClaimReplyLost(c, e)
    \/ MarkDoneError(c)
    \/ MarkDoneReplyLost(c)
    \/ MarkFailedError(c)

Next ==
    \/ JobStep
    \/ Crash
    \/ RequeueError
    \/ PendingError
    \/ \E e \in Events : Enqueue(e) \/ EnsureAndWake(e) \/ SubmitError(e)
    \/ \E c \in Channels : WorkerStep(c) \/ WorkerFault(c)
    \/ ReviveDead

\* The event loop runs every task that can run, awaited statements return,
\* sleeps end, the supervisor restarts its job, and someone restarts a dead
\* process.  Nothing forces a platform event, a fault or an operator.
Fairness ==
    /\ WF_vars(JobStep)
    /\ \A e \in Events : WF_vars(EnsureAndWake(e))
    /\ \A c \in Channels : WF_vars(WorkerStep(c))

Spec == Init /\ [][Next]_vars
FairSpec == Spec /\ Fairness

-----------------------------------------------------------------------------
(* Properties.                                                             *)

Settled(e) == status[e] \in {"done", "dead"}
Held(e) == pc[ChannelOf[e]] \in Holding /\ cur[ChannelOf[e]] = e

\* Events of one channel never overtake each other (worker.py:3): once a
\* later event was taken up, every earlier one of the channel has been done
\* or put in the DLQ, unless the DLQ command put it back since.
ChannelFIFO ==
    \A e, f \in Events :
        (/\ ChannelOf[e] = ChannelOf[f]
         /\ rowId[e] > 0
         /\ rowId[e] < rowId[f]
         /\ attempts[f] > 0
         /\ e \notin revived)
        => Settled(e)

\* No row is stranded in 'processing' (worker.py:88): the worker of its
\* channel holds it, or run() has yet to reach its recovery statement.
NoStrandedRow ==
    \A e \in Events :
        status[e] = "processing" =>
            Held(e) \/ job \in {"down", "backoff", "requeue"}

\* One worker per channel (worker.py:3): a channel whose task is alive is in
\* _running, so _ensure_worker makes no second task for it, and tasks live
\* only in an open group.
OneWorkerPerChannel ==
    \A c \in Channels : pc[c] # "none" => c \in running /\ group = "open"

\* An event is handled again only when a fault hit it between the end of its
\* handling and mark_done: repeats are paid for by faults, never by normal
\* interleavings, redelivery or the DLQ command.
RepeatsNeedFaults ==
    \A e \in Events : handled[e] <= 1 + faults

\* A row is claimed at most max_attempts times (once when the limit is 0),
\* plus once for each fault that kept mark_failed from counting.
RetryBudget ==
    \A e \in Events :
        attempts[e] <= (IF MaxAttempts = 0 THEN 1 ELSE MaxAttempts) + faults

\* What is done stays done: neither recovery at start-up, nor the failure
\* path, nor the DLQ command puts a handled row back in the queue.
DoneIsFinal ==
    [][\A e \in Events : status[e] = "done" => status'[e] = "done"]_status

\* Every accepted event is eventually done or dead (NFR-2): no lost wake-up, no
\* crash, and no failure of submit(), claim(), mark_done or the recovery leaves
\* one waiting for ever.  Not so after an error of mark_failed or of
\* pending_channels, when no worker comes back (WorkersReturn, worker.py:106).
EveryEventSettles ==
    \A e \in Events :
        (status[e] \in {"pending", "processing"}) ~> Settled(e)

\* The workers come back after the pipeline job has failed (app.py:113).
WorkersReturn == (job = "backoff") ~> (job \in {"up", "down"})
=============================================================================
