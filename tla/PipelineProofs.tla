--------------------------- MODULE PipelineProofs ---------------------------
(* Theorems about Pipeline and their proofs, and the proof that it         *)
(* implements DurableQueue.                                                *)
EXTENDS PipelineRefinement, TLAPS

USE DEF Holding, WorkerStates

-----------------------------------------------------------------------------
(* The inductive invariant, in the parts its steps use.                    *)

\* The task group is open exactly while run() is inside it.
GroupFollowsJob == group = "open" <=> job \in {"listing", "up"}

\* A worker holds a row of its own channel that is in 'processing'; the row
\* is 'done' only when the reply of mark_done was lost.
HeldRows ==
    \A c \in Channels :
        pc[c] \in Holding =>
            /\ cur[c] \in Events
            /\ ChannelOf[cur[c]] = c
            /\ attempts[cur[c]] > 0
            /\ \/ status[cur[c]] = "processing"
               \/ status[cur[c]] = "done" /\ pc[c] = "fail_retry"

\* Row ids grow, and an event without a row has never been claimed.
RowIds ==
    \A e \in Events :
        /\ rowId[e] < nextId
        /\ status[e] = "absent" <=> rowId[e] = 0
        /\ status[e] = "absent" => attempts[e] = 0 /\ handled[e] = 0

Structure ==
    /\ TypeOK
    /\ OneWorkerPerChannel
    /\ GroupFollowsJob
    /\ HeldRows
    /\ RowIds

\* ChannelFIFO is not inductive: a held row that looks 'done' (its reply was
\* lost) may go back to 'pending', so it must not have been overtaken either.
InOrder ==
    \A e, f \in Events :
        (/\ ChannelOf[e] = ChannelOf[f]
         /\ rowId[e] > 0
         /\ rowId[e] < rowId[f]
         /\ attempts[f] > 0
         /\ e \notin revived)
        => Settled(e) /\ ~Held(e)

\* While a row is open every handling of it but the current one was followed
\* by a fault.
RepeatsPaid ==
    \A e \in Events :
        handled[e] <= faults +
            (IF Held(e)
               THEN IF pc[ChannelOf[e]] = "mark_done" THEN 1 ELSE 0
               ELSE IF status[e] = "done" THEN 1 ELSE 0)

\* Without lost replies of mark_done a held row is in 'processing'.
HeldIsProcessing ==
    \A c \in Channels : pc[c] \in Holding => status[cur[c]] = "processing"

\* mark_done is reached through the end of relay.handle.
HandledBeforeDone ==
    \A c \in Channels : pc[c] = "mark_done" => handled[cur[c]] > 0

\* One step of DoneIsFinal.
DoneStays == \A e \in Events : status[e] = "done" => status'[e] = "done"

AttemptLimit == IF MaxAttempts = 0 THEN 1 ELSE MaxAttempts

\* A row waiting for another attempt has one left in its budget.
AttemptsPaid ==
    \A e \in Events :
        /\ attempts[e] <= AttemptLimit + faults
        /\ ~Held(e) /\ ~Settled(e) => attempts[e] < AttemptLimit + faults

-----------------------------------------------------------------------------
(* Type correctness.                                                       *)

LEMMA TypeInit == Init => TypeOK
BY BoundsAssumption, NoEventAssumption DEF Init, TypeOK

LEMMA TypeStep == TypeOK /\ [Next]_vars => TypeOK'
<1> USE ChannelsAssumption, BoundsAssumption
<1> SUFFICES ASSUME TypeOK, [Next]_vars PROVE TypeOK'
  OBVIOUS
<1>1. CASE UNCHANGED vars
  BY <1>1 DEF TypeOK, vars
<1>2. CASE JobStep
  <2>1. CASE Start
    BY <2>1 DEF TypeOK, Start, db, counters
  <2>2. CASE RequeueAll
    BY <2>2 DEF TypeOK, RequeueAll, counters
  <2>3. CASE SpawnAll
    BY <2>3 DEF TypeOK, SpawnAll, db, counters
  <2>4. CASE RestartJob
    BY <2>4 DEF TypeOK, RestartJob, db, counters
  <2> QED BY <1>2, <2>1, <2>2, <2>3, <2>4 DEF JobStep
<1>3. CASE Crash
  BY <1>3 DEF TypeOK, Crash, Fault, NoWorkers, db
<1>4. CASE RequeueError
  BY <1>4 DEF TypeOK, RequeueError, Fault, db
<1>5. CASE PendingError
  BY <1>5 DEF TypeOK, PendingError, AbortGroup, NoWorkers, Fault, db
<1>6. ASSUME NEW e \in Events, Enqueue(e) PROVE TypeOK'
  BY <1>6 DEF TypeOK, Enqueue, tasks, counters
<1>7. ASSUME NEW e \in Events, EnsureAndWake(e) PROVE TypeOK'
  BY <1>7 DEF TypeOK, EnsureAndWake, db, counters
<1>8. ASSUME NEW e \in Events, SubmitError(e) PROVE TypeOK'
  BY <1>8 DEF TypeOK, SubmitError, Fault, db, tasks
<1>9. ASSUME NEW c \in Channels, WorkerStep(c) PROVE TypeOK'
  <2>1. ASSUME NEW e \in Events, ClaimRow(c, e) PROVE TypeOK'
    BY <2>1 DEF TypeOK, ClaimRow, Goto, Take, counters
  <2>2. CASE ClaimNone(c)
    BY <2>2 DEF TypeOK, ClaimNone, Goto, db, counters
  <2>3. CASE ClearWake(c)
    BY <2>3 DEF TypeOK, ClearWake, Goto, db, counters
  <2>4. CASE Wake(c)
    BY <2>4 DEF TypeOK, Wake, Goto, db, counters
  <2>5. CASE Poll(c)
    BY <2>5 DEF TypeOK, Poll, Goto, db, counters
  <2>6. CASE ClaimSleepOver(c)
    BY <2>6 DEF TypeOK, ClaimSleepOver, Goto, db, counters
  <2>7. CASE Handle(c)
    <3>1. handled' \in [Events -> Nat]
      <4> DEFINE h == cur[c]
      <4>1. handled' = [handled EXCEPT ![h] = handled[h] + 1]
        BY <2>7 DEF Handle
      <4>2. handled \in [Events -> Nat]
        BY DEF TypeOK
      <4>3. CASE h \in Events
        <5> HIDE DEF h
        <5> QED BY <4>1, <4>2, <4>3
      <4>4. CASE h \notin Events
        <5> HIDE DEF h
        <5>1. handled' = handled
          BY <4>1, <4>2, <4>4
        <5> QED BY <5>1, <4>2
      <4> QED BY <4>3, <4>4
    <3> QED BY <2>7, <3>1 DEF TypeOK, Handle, Goto, db
  <2>8. CASE HandleError(c)
    BY <2>8 DEF TypeOK, HandleError, Goto, db, counters
  <2>9. CASE MarkDone(c)
    BY <2>9 DEF TypeOK, MarkDone, Goto, SetStatus, counters
  <2>10. CASE MarkFailed(c)
    BY <2>10 DEF TypeOK, MarkFailed, Goto, SetStatus, Verdict, counters
  <2>11. CASE BackoffOver(c)
    BY <2>11 DEF TypeOK, BackoffOver, Goto, db, counters
  <2> QED BY <1>9, <2>1, <2>2, <2>3, <2>4, <2>5, <2>6, <2>7, <2>8, <2>9,
             <2>10, <2>11 DEF WorkerStep
<1>10. ASSUME NEW c \in Channels, WorkerFault(c) PROVE TypeOK'
  <2>1. CASE ClaimError(c)
    BY <2>1 DEF TypeOK, ClaimError, Goto, Fault, db
  <2>2. ASSUME NEW e \in Events, ClaimReplyLost(c, e) PROVE TypeOK'
    BY <2>2 DEF TypeOK, ClaimReplyLost, Goto, Take, Fault
  <2>3. CASE MarkDoneError(c)
    BY <2>3 DEF TypeOK, MarkDoneError, Goto, Fault, db
  <2>4. CASE MarkDoneReplyLost(c)
    <3>1. /\ status' \in [Events ->
                {"absent", "pending", "processing", "done", "dead"}]
          /\ UNCHANGED <<rowId, nextId, attempts>>
      BY <2>4 DEF TypeOK, MarkDoneReplyLost, SetStatus
    <3> QED BY <2>4, <3>1 DEF TypeOK, MarkDoneReplyLost, Goto, Fault
  <2>5. CASE MarkFailedError(c)
    BY <2>5 DEF TypeOK, MarkFailedError, AbortGroup, NoWorkers, Fault,
                SetStatus, Verdict, db
  <2> QED BY <1>10, <2>1, <2>2, <2>3, <2>4, <2>5 DEF WorkerFault
<1>11. CASE ReviveDead
  BY <1>11 DEF TypeOK, ReviveDead, tasks
<1> QED BY <1>1, <1>2, <1>3, <1>4, <1>5, <1>6, <1>7, <1>8, <1>9, <1>10,
           <1>11 DEF Next

\* Every variable keeps its type, for any sets of events and channels and any
\* bounds.
THEOREM TypeCorrect == Spec => []TypeOK
BY TypeInit, TypeStep, PTL DEF Spec

-----------------------------------------------------------------------------
(* The parts hold in every step.                                           *)

LEMMA InvInit ==
    Init => /\ Structure /\ RepeatsPaid /\ AttemptsPaid
            /\ NoStrandedRow /\ InOrder /\ HeldIsProcessing /\ HandledBeforeDone
<1> USE ChannelsAssumption, BoundsAssumption, NoEventAssumption, TypeInit
<1> QED BY DEF Init, Structure, OneWorkerPerChannel, GroupFollowsJob, HeldRows,
           RowIds, RepeatsPaid, AttemptsPaid, AttemptLimit, NoStrandedRow,
           InOrder, HeldIsProcessing, HandledBeforeDone, Held, Settled

LEMMA StructureStep ==
    Structure /\ [Next]_vars => Structure'
<1> SUFFICES ASSUME Structure, [Next]_vars PROVE Structure'
  OBVIOUS
<1>t. TypeOK'
  BY TypeStep DEF Structure
<1> USE <1>t
<1> USE ChannelsAssumption, BoundsAssumption, NoEventAssumption
<1> USE DEF Structure, TypeOK, OneWorkerPerChannel, GroupFollowsJob,
      HeldRows, RowIds
<1>1. CASE UNCHANGED vars
  BY <1>1 DEF vars
<1>2. CASE JobStep
  <2>1. CASE Start
    BY <2>1 DEF Start, db, counters
  <2>2. CASE RequeueAll
    BY <2>2 DEF RequeueAll, counters
  <2>3. CASE SpawnAll
    BY <2>3 DEF SpawnAll, db, counters
  <2>4. CASE RestartJob
    BY <2>4 DEF RestartJob, db, counters
  <2> QED BY <1>2, <2>1, <2>2, <2>3, <2>4 DEF JobStep
<1>3. CASE Crash
  BY <1>3 DEF Crash, Fault, NoWorkers, db
<1>4. CASE RequeueError
  BY <1>4 DEF RequeueError, Fault, db
<1>5. CASE PendingError
  BY <1>5 DEF PendingError, AbortGroup, NoWorkers, Fault, db
<1>6. ASSUME NEW e \in Events, Enqueue(e) PROVE Structure'
  BY <1>6 DEF Enqueue, tasks, counters
<1>7. ASSUME NEW e \in Events, EnsureAndWake(e) PROVE Structure'
  BY <1>7 DEF EnsureAndWake, db, counters
<1>8. ASSUME NEW e \in Events, SubmitError(e) PROVE Structure'
  BY <1>8 DEF SubmitError, Fault, db, tasks
<1>9. ASSUME NEW c \in Channels, WorkerStep(c) PROVE Structure'
  <2>1. ASSUME NEW e \in Events, ClaimRow(c, e) PROVE Structure'
    BY <2>1 DEF ClaimRow, Oldest, PendingOf, Goto, Take, counters
  <2>2. CASE ClaimNone(c)
    BY <2>2 DEF ClaimNone, Goto, db, counters
  <2>3. CASE ClearWake(c)
    BY <2>3 DEF ClearWake, Goto, db, counters
  <2>4. CASE Wake(c)
    BY <2>4 DEF Wake, Goto, db, counters
  <2>5. CASE Poll(c)
    BY <2>5 DEF Poll, Goto, db, counters
  <2>6. CASE ClaimSleepOver(c)
    BY <2>6 DEF ClaimSleepOver, Goto, db, counters
  <2>7. CASE Handle(c)
    BY <2>7 DEF Handle, Goto, db
  <2>8. CASE HandleError(c)
    BY <2>8 DEF HandleError, Goto, db, counters
  <2>9. CASE MarkDone(c)
    BY <2>9 DEF MarkDone, Goto, SetStatus, counters
  <2>10. CASE MarkFailed(c)
    BY <2>10 DEF MarkFailed, Goto, SetStatus, Verdict, GivesUp, Limit,
       counters
  <2>11. CASE BackoffOver(c)
    BY <2>11 DEF BackoffOver, Goto, db, counters
  <2> QED BY <1>9, <2>1, <2>2, <2>3, <2>4, <2>5, <2>6, <2>7, <2>8, <2>9, <2>10,
     <2>11 DEF WorkerStep
<1>10. ASSUME NEW c \in Channels, WorkerFault(c) PROVE Structure'
  <2>1. CASE ClaimError(c)
    BY <2>1 DEF ClaimError, Goto, Fault, db
  <2>2. ASSUME NEW e \in Events, ClaimReplyLost(c, e) PROVE Structure'
    BY <2>2 DEF ClaimReplyLost, Oldest, PendingOf, Goto, Take, Fault
  <2>3. CASE MarkDoneError(c)
    BY <2>3 DEF MarkDoneError, Goto, Fault, db
  <2>4. CASE MarkDoneReplyLost(c)
    BY <2>4 DEF MarkDoneReplyLost, Goto, Fault, SetStatus
  <2>5. CASE MarkFailedError(c)
    BY <2>5 DEF MarkFailedError, AbortGroup, NoWorkers, Fault, SetStatus,
       Verdict, GivesUp, Limit, db
  <2> QED BY <1>10, <2>1, <2>2, <2>3, <2>4, <2>5 DEF WorkerFault
<1>11. CASE ReviveDead
  BY <1>11 DEF ReviveDead, tasks
<1> QED BY <1>1, <1>2, <1>3, <1>4, <1>5, <1>6, <1>7, <1>8, <1>9, <1>10, <1>11
   DEF Next

LEMMA RepeatsStep ==
    Structure /\ RepeatsPaid /\ [Next]_vars => RepeatsPaid'
<1> SUFFICES ASSUME Structure, RepeatsPaid, [Next]_vars PROVE RepeatsPaid'
  OBVIOUS
<1>s. Structure'
  BY StructureStep
<1> USE <1>s
<1> USE ChannelsAssumption, BoundsAssumption, NoEventAssumption
<1> USE DEF Structure, TypeOK, OneWorkerPerChannel, GroupFollowsJob,
      HeldRows, RowIds, RepeatsPaid, Held
<1>1. CASE UNCHANGED vars
  BY <1>1 DEF vars
<1>2. CASE JobStep
  <2>1. CASE Start
    BY <2>1 DEF Start, db, counters
  <2>2. CASE RequeueAll
    BY <2>2 DEF RequeueAll, counters
  <2>3. CASE SpawnAll
    BY <2>3 DEF SpawnAll, db, counters
  <2>4. CASE RestartJob
    BY <2>4 DEF RestartJob, db, counters
  <2> QED BY <1>2, <2>1, <2>2, <2>3, <2>4 DEF JobStep
<1>3. CASE Crash
  BY <1>3 DEF Crash, Fault, NoWorkers, db
<1>4. CASE RequeueError
  BY <1>4 DEF RequeueError, Fault, db
<1>5. CASE PendingError
  BY <1>5 DEF PendingError, AbortGroup, NoWorkers, Fault, db
<1>6. ASSUME NEW e \in Events, Enqueue(e) PROVE RepeatsPaid'
  BY <1>6 DEF Enqueue, tasks, counters
<1>7. ASSUME NEW e \in Events, EnsureAndWake(e) PROVE RepeatsPaid'
  BY <1>7 DEF EnsureAndWake, db, counters
<1>8. ASSUME NEW e \in Events, SubmitError(e) PROVE RepeatsPaid'
  BY <1>8 DEF SubmitError, Fault, db, tasks
<1>9. ASSUME NEW c \in Channels, WorkerStep(c) PROVE RepeatsPaid'
  <2>1. ASSUME NEW e \in Events, ClaimRow(c, e) PROVE RepeatsPaid'
    BY <2>1 DEF ClaimRow, Oldest, PendingOf, Goto, Take, counters
  <2>2. CASE ClaimNone(c)
    BY <2>2 DEF ClaimNone, Goto, db, counters
  <2>3. CASE ClearWake(c)
    BY <2>3 DEF ClearWake, Goto, db, counters
  <2>4. CASE Wake(c)
    BY <2>4 DEF Wake, Goto, db, counters
  <2>5. CASE Poll(c)
    BY <2>5 DEF Poll, Goto, db, counters
  <2>6. CASE ClaimSleepOver(c)
    BY <2>6 DEF ClaimSleepOver, Goto, db, counters
  <2>7. CASE Handle(c)
    BY <2>7 DEF Handle, Goto, db
  <2>8. CASE HandleError(c)
    BY <2>8 DEF HandleError, Goto, db, counters
  <2>9. CASE MarkDone(c)
    BY <2>9 DEF MarkDone, Goto, SetStatus, counters
  <2>10. CASE MarkFailed(c)
    BY <2>10 DEF MarkFailed, Goto, SetStatus, Verdict, GivesUp, Limit,
       counters
  <2>11. CASE BackoffOver(c)
    BY <2>11 DEF BackoffOver, Goto, db, counters
  <2> QED BY <1>9, <2>1, <2>2, <2>3, <2>4, <2>5, <2>6, <2>7, <2>8, <2>9, <2>10,
     <2>11 DEF WorkerStep
<1>10. ASSUME NEW c \in Channels, WorkerFault(c) PROVE RepeatsPaid'
  <2>1. CASE ClaimError(c)
    BY <2>1 DEF ClaimError, Goto, Fault, db
  <2>2. ASSUME NEW e \in Events, ClaimReplyLost(c, e) PROVE RepeatsPaid'
    BY <2>2 DEF ClaimReplyLost, Oldest, PendingOf, Goto, Take, Fault
  <2>3. CASE MarkDoneError(c)
    BY <2>3 DEF MarkDoneError, Goto, Fault, db
  <2>4. CASE MarkDoneReplyLost(c)
    BY <2>4 DEF MarkDoneReplyLost, Goto, Fault, SetStatus
  <2>5. CASE MarkFailedError(c)
    BY <2>5 DEF MarkFailedError, AbortGroup, NoWorkers, Fault, SetStatus,
       Verdict, GivesUp, Limit, db
  <2> QED BY <1>10, <2>1, <2>2, <2>3, <2>4, <2>5 DEF WorkerFault
<1>11. CASE ReviveDead
  BY <1>11 DEF ReviveDead, tasks
<1> QED BY <1>1, <1>2, <1>3, <1>4, <1>5, <1>6, <1>7, <1>8, <1>9, <1>10, <1>11
   DEF Next

LEMMA AttemptsStep ==
    Structure /\ AttemptsPaid /\ [Next]_vars => AttemptsPaid'
<1> SUFFICES ASSUME Structure, AttemptsPaid, [Next]_vars PROVE AttemptsPaid'
  OBVIOUS
<1>s. Structure'
  BY StructureStep
<1> USE <1>s
<1> USE ChannelsAssumption, BoundsAssumption, NoEventAssumption
<1> USE DEF Structure, TypeOK, OneWorkerPerChannel, GroupFollowsJob,
      HeldRows, RowIds, AttemptsPaid, AttemptLimit, Held, Settled
<1>1. CASE UNCHANGED vars
  BY <1>1 DEF vars
<1>2. CASE JobStep
  <2>1. CASE Start
    BY <2>1 DEF Start, db, counters
  <2>2. CASE RequeueAll
    BY <2>2 DEF RequeueAll, counters
  <2>3. CASE SpawnAll
    BY <2>3 DEF SpawnAll, db, counters
  <2>4. CASE RestartJob
    BY <2>4 DEF RestartJob, db, counters
  <2> QED BY <1>2, <2>1, <2>2, <2>3, <2>4 DEF JobStep
<1>3. CASE Crash
  BY <1>3 DEF Crash, Fault, NoWorkers, db
<1>4. CASE RequeueError
  BY <1>4 DEF RequeueError, Fault, db
<1>5. CASE PendingError
  BY <1>5 DEF PendingError, AbortGroup, NoWorkers, Fault, db
<1>6. ASSUME NEW e \in Events, Enqueue(e) PROVE AttemptsPaid'
  BY <1>6 DEF Enqueue, tasks, counters
<1>7. ASSUME NEW e \in Events, EnsureAndWake(e) PROVE AttemptsPaid'
  BY <1>7 DEF EnsureAndWake, db, counters
<1>8. ASSUME NEW e \in Events, SubmitError(e) PROVE AttemptsPaid'
  BY <1>8 DEF SubmitError, Fault, db, tasks
<1>9. ASSUME NEW c \in Channels, WorkerStep(c) PROVE AttemptsPaid'
  <2>1. ASSUME NEW e \in Events, ClaimRow(c, e) PROVE AttemptsPaid'
    BY <2>1 DEF ClaimRow, Oldest, PendingOf, Goto, Take, counters
  <2>2. CASE ClaimNone(c)
    BY <2>2 DEF ClaimNone, Goto, db, counters
  <2>3. CASE ClearWake(c)
    BY <2>3 DEF ClearWake, Goto, db, counters
  <2>4. CASE Wake(c)
    BY <2>4 DEF Wake, Goto, db, counters
  <2>5. CASE Poll(c)
    BY <2>5 DEF Poll, Goto, db, counters
  <2>6. CASE ClaimSleepOver(c)
    BY <2>6 DEF ClaimSleepOver, Goto, db, counters
  <2>7. CASE Handle(c)
    BY <2>7 DEF Handle, Goto, db
  <2>8. CASE HandleError(c)
    BY <2>8 DEF HandleError, Goto, db, counters
  <2>9. CASE MarkDone(c)
    BY <2>9 DEF MarkDone, Goto, SetStatus, counters
  <2>10. CASE MarkFailed(c)
    BY <2>10 DEF MarkFailed, Goto, SetStatus, Verdict, GivesUp, Limit,
       counters
  <2>11. CASE BackoffOver(c)
    BY <2>11 DEF BackoffOver, Goto, db, counters
  <2> QED BY <1>9, <2>1, <2>2, <2>3, <2>4, <2>5, <2>6, <2>7, <2>8, <2>9, <2>10,
     <2>11 DEF WorkerStep
<1>10. ASSUME NEW c \in Channels, WorkerFault(c) PROVE AttemptsPaid'
  <2>1. CASE ClaimError(c)
    BY <2>1 DEF ClaimError, Goto, Fault, db
  <2>2. ASSUME NEW e \in Events, ClaimReplyLost(c, e) PROVE AttemptsPaid'
    BY <2>2 DEF ClaimReplyLost, Oldest, PendingOf, Goto, Take, Fault
  <2>3. CASE MarkDoneError(c)
    BY <2>3 DEF MarkDoneError, Goto, Fault, db
  <2>4. CASE MarkDoneReplyLost(c)
    BY <2>4 DEF MarkDoneReplyLost, Goto, Fault, SetStatus
  <2>5. CASE MarkFailedError(c)
    BY <2>5 DEF MarkFailedError, AbortGroup, NoWorkers, Fault, SetStatus,
       Verdict, GivesUp, Limit, db
  <2> QED BY <1>10, <2>1, <2>2, <2>3, <2>4, <2>5 DEF WorkerFault
<1>11. CASE ReviveDead
  BY <1>11 DEF ReviveDead, tasks
<1> QED BY <1>1, <1>2, <1>3, <1>4, <1>5, <1>6, <1>7, <1>8, <1>9, <1>10, <1>11
   DEF Next

LEMMA OrderStep ==
    "claim_reply" \notin Faults /\ Structure /\ NoStrandedRow /\ InOrder
    /\ [Next]_vars => NoStrandedRow' /\ InOrder'
<1> SUFFICES ASSUME "claim_reply" \notin Faults, Structure, NoStrandedRow,
      InOrder, [Next]_vars PROVE NoStrandedRow' /\ InOrder'
  OBVIOUS
<1>s. Structure'
  BY StructureStep
<1> USE <1>s
<1> USE ChannelsAssumption, BoundsAssumption, NoEventAssumption
<1> USE DEF Structure, TypeOK, OneWorkerPerChannel, GroupFollowsJob,
      HeldRows, RowIds, NoStrandedRow, InOrder, Held, Settled
<1>1. CASE UNCHANGED vars
  BY <1>1 DEF vars
<1>2. CASE JobStep
  <2>1. CASE Start
    BY <2>1 DEF Start, db, counters
  <2>2. CASE RequeueAll
    BY <2>2 DEF RequeueAll, counters
  <2>3. CASE SpawnAll
    BY <2>3 DEF SpawnAll, db, counters
  <2>4. CASE RestartJob
    BY <2>4 DEF RestartJob, db, counters
  <2> QED BY <1>2, <2>1, <2>2, <2>3, <2>4 DEF JobStep
<1>3. CASE Crash
  BY <1>3 DEF Crash, Fault, NoWorkers, db
<1>4. CASE RequeueError
  BY <1>4 DEF RequeueError, Fault, db
<1>5. CASE PendingError
  BY <1>5 DEF PendingError, AbortGroup, NoWorkers, Fault, db
<1>6. ASSUME NEW e \in Events, Enqueue(e) PROVE NoStrandedRow' /\ InOrder'
  BY <1>6 DEF Enqueue, tasks, counters
<1>7. ASSUME NEW e \in Events, EnsureAndWake(e)
      PROVE  NoStrandedRow' /\ InOrder'
  BY <1>7 DEF EnsureAndWake, db, counters
<1>8. ASSUME NEW e \in Events, SubmitError(e) PROVE NoStrandedRow' /\ InOrder'
  BY <1>8 DEF SubmitError, Fault, db, tasks
<1>9. ASSUME NEW c \in Channels, WorkerStep(c) PROVE NoStrandedRow' /\ InOrder'
  <2>1. ASSUME NEW e \in Events, ClaimRow(c, e)
        PROVE  NoStrandedRow' /\ InOrder'
    BY <2>1 DEF ClaimRow, Oldest, PendingOf, Goto, Take, counters
  <2>2. CASE ClaimNone(c)
    BY <2>2 DEF ClaimNone, Goto, db, counters
  <2>3. CASE ClearWake(c)
    BY <2>3 DEF ClearWake, Goto, db, counters
  <2>4. CASE Wake(c)
    BY <2>4 DEF Wake, Goto, db, counters
  <2>5. CASE Poll(c)
    BY <2>5 DEF Poll, Goto, db, counters
  <2>6. CASE ClaimSleepOver(c)
    BY <2>6 DEF ClaimSleepOver, Goto, db, counters
  <2>7. CASE Handle(c)
    BY <2>7 DEF Handle, Goto, db
  <2>8. CASE HandleError(c)
    BY <2>8 DEF HandleError, Goto, db, counters
  <2>9. CASE MarkDone(c)
    BY <2>9 DEF MarkDone, Goto, SetStatus, counters
  <2>10. CASE MarkFailed(c)
    BY <2>10 DEF MarkFailed, Goto, SetStatus, Verdict, GivesUp, Limit,
       counters
  <2>11. CASE BackoffOver(c)
    BY <2>11 DEF BackoffOver, Goto, db, counters
  <2> QED BY <1>9, <2>1, <2>2, <2>3, <2>4, <2>5, <2>6, <2>7, <2>8, <2>9, <2>10,
     <2>11 DEF WorkerStep
<1>10. ASSUME NEW c \in Channels, WorkerFault(c)
       PROVE  NoStrandedRow' /\ InOrder'
  <2>1. CASE ClaimError(c)
    BY <2>1 DEF ClaimError, Goto, Fault, db
  <2>2. ASSUME NEW e \in Events, ClaimReplyLost(c, e)
        PROVE  NoStrandedRow' /\ InOrder'
    BY <2>2 DEF ClaimReplyLost, Oldest, PendingOf, Goto, Take, Fault
  <2>3. CASE MarkDoneError(c)
    BY <2>3 DEF MarkDoneError, Goto, Fault, db
  <2>4. CASE MarkDoneReplyLost(c)
    BY <2>4 DEF MarkDoneReplyLost, Goto, Fault, SetStatus
  <2>5. CASE MarkFailedError(c)
    BY <2>5 DEF MarkFailedError, AbortGroup, NoWorkers, Fault, SetStatus,
       Verdict, GivesUp, Limit, db
  <2> QED BY <1>10, <2>1, <2>2, <2>3, <2>4, <2>5 DEF WorkerFault
<1>11. CASE ReviveDead
  BY <1>11 DEF ReviveDead, tasks
<1> QED BY <1>1, <1>2, <1>3, <1>4, <1>5, <1>6, <1>7, <1>8, <1>9, <1>10, <1>11
   DEF Next

LEMMA ProcessingStep ==
    "mark_done_reply" \notin Faults /\ Structure /\ HeldIsProcessing /\
    [Next]_vars => HeldIsProcessing'
<1> SUFFICES ASSUME "mark_done_reply" \notin Faults, Structure,
      HeldIsProcessing, [Next]_vars PROVE HeldIsProcessing'
  OBVIOUS
<1>s. Structure'
  BY StructureStep
<1> USE <1>s
<1> USE ChannelsAssumption, BoundsAssumption, NoEventAssumption
<1> USE DEF Structure, TypeOK, OneWorkerPerChannel, GroupFollowsJob,
      HeldRows, RowIds, HeldIsProcessing
<1>1. CASE UNCHANGED vars
  BY <1>1 DEF vars
<1>2. CASE JobStep
  <2>1. CASE Start
    BY <2>1 DEF Start, db, counters
  <2>2. CASE RequeueAll
    BY <2>2 DEF RequeueAll, counters
  <2>3. CASE SpawnAll
    BY <2>3 DEF SpawnAll, db, counters
  <2>4. CASE RestartJob
    BY <2>4 DEF RestartJob, db, counters
  <2> QED BY <1>2, <2>1, <2>2, <2>3, <2>4 DEF JobStep
<1>3. CASE Crash
  BY <1>3 DEF Crash, Fault, NoWorkers, db
<1>4. CASE RequeueError
  BY <1>4 DEF RequeueError, Fault, db
<1>5. CASE PendingError
  BY <1>5 DEF PendingError, AbortGroup, NoWorkers, Fault, db
<1>6. ASSUME NEW e \in Events, Enqueue(e) PROVE HeldIsProcessing'
  BY <1>6 DEF Enqueue, tasks, counters
<1>7. ASSUME NEW e \in Events, EnsureAndWake(e) PROVE HeldIsProcessing'
  BY <1>7 DEF EnsureAndWake, db, counters
<1>8. ASSUME NEW e \in Events, SubmitError(e) PROVE HeldIsProcessing'
  BY <1>8 DEF SubmitError, Fault, db, tasks
<1>9. ASSUME NEW c \in Channels, WorkerStep(c) PROVE HeldIsProcessing'
  <2>1. ASSUME NEW e \in Events, ClaimRow(c, e) PROVE HeldIsProcessing'
    BY <2>1 DEF ClaimRow, Oldest, PendingOf, Goto, Take, counters
  <2>2. CASE ClaimNone(c)
    BY <2>2 DEF ClaimNone, Goto, db, counters
  <2>3. CASE ClearWake(c)
    BY <2>3 DEF ClearWake, Goto, db, counters
  <2>4. CASE Wake(c)
    BY <2>4 DEF Wake, Goto, db, counters
  <2>5. CASE Poll(c)
    BY <2>5 DEF Poll, Goto, db, counters
  <2>6. CASE ClaimSleepOver(c)
    BY <2>6 DEF ClaimSleepOver, Goto, db, counters
  <2>7. CASE Handle(c)
    BY <2>7 DEF Handle, Goto, db
  <2>8. CASE HandleError(c)
    BY <2>8 DEF HandleError, Goto, db, counters
  <2>9. CASE MarkDone(c)
    BY <2>9 DEF MarkDone, Goto, SetStatus, counters
  <2>10. CASE MarkFailed(c)
    BY <2>10 DEF MarkFailed, Goto, SetStatus, Verdict, GivesUp, Limit,
       counters
  <2>11. CASE BackoffOver(c)
    BY <2>11 DEF BackoffOver, Goto, db, counters
  <2> QED BY <1>9, <2>1, <2>2, <2>3, <2>4, <2>5, <2>6, <2>7, <2>8, <2>9, <2>10,
     <2>11 DEF WorkerStep
<1>10. ASSUME NEW c \in Channels, WorkerFault(c) PROVE HeldIsProcessing'
  <2>1. CASE ClaimError(c)
    BY <2>1 DEF ClaimError, Goto, Fault, db
  <2>2. ASSUME NEW e \in Events, ClaimReplyLost(c, e) PROVE HeldIsProcessing'
    BY <2>2 DEF ClaimReplyLost, Oldest, PendingOf, Goto, Take, Fault
  <2>3. CASE MarkDoneError(c)
    BY <2>3 DEF MarkDoneError, Goto, Fault, db
  <2>4. CASE MarkDoneReplyLost(c)
    BY <2>4 DEF MarkDoneReplyLost, Goto, Fault, SetStatus
  <2>5. CASE MarkFailedError(c)
    BY <2>5 DEF MarkFailedError, AbortGroup, NoWorkers, Fault, SetStatus,
       Verdict, GivesUp, Limit, db
  <2> QED BY <1>10, <2>1, <2>2, <2>3, <2>4, <2>5 DEF WorkerFault
<1>11. CASE ReviveDead
  BY <1>11 DEF ReviveDead, tasks
<1> QED BY <1>1, <1>2, <1>3, <1>4, <1>5, <1>6, <1>7, <1>8, <1>9, <1>10, <1>11
   DEF Next

LEMMA HandledStep ==
    Structure /\ HandledBeforeDone /\ [Next]_vars => HandledBeforeDone'
<1> SUFFICES ASSUME Structure, HandledBeforeDone, [Next]_vars PROVE
      HandledBeforeDone'
  OBVIOUS
<1>s. Structure'
  BY StructureStep
<1> USE <1>s
<1> USE ChannelsAssumption, BoundsAssumption, NoEventAssumption
<1> USE DEF Structure, TypeOK, OneWorkerPerChannel, GroupFollowsJob,
      HeldRows, RowIds, HandledBeforeDone
<1>1. CASE UNCHANGED vars
  BY <1>1 DEF vars
<1>2. CASE JobStep
  <2>1. CASE Start
    BY <2>1 DEF Start, db, counters
  <2>2. CASE RequeueAll
    BY <2>2 DEF RequeueAll, counters
  <2>3. CASE SpawnAll
    BY <2>3 DEF SpawnAll, db, counters
  <2>4. CASE RestartJob
    BY <2>4 DEF RestartJob, db, counters
  <2> QED BY <1>2, <2>1, <2>2, <2>3, <2>4 DEF JobStep
<1>3. CASE Crash
  BY <1>3 DEF Crash, Fault, NoWorkers, db
<1>4. CASE RequeueError
  BY <1>4 DEF RequeueError, Fault, db
<1>5. CASE PendingError
  BY <1>5 DEF PendingError, AbortGroup, NoWorkers, Fault, db
<1>6. ASSUME NEW e \in Events, Enqueue(e) PROVE HandledBeforeDone'
  BY <1>6 DEF Enqueue, tasks, counters
<1>7. ASSUME NEW e \in Events, EnsureAndWake(e) PROVE HandledBeforeDone'
  BY <1>7 DEF EnsureAndWake, db, counters
<1>8. ASSUME NEW e \in Events, SubmitError(e) PROVE HandledBeforeDone'
  BY <1>8 DEF SubmitError, Fault, db, tasks
<1>9. ASSUME NEW c \in Channels, WorkerStep(c) PROVE HandledBeforeDone'
  <2>1. ASSUME NEW e \in Events, ClaimRow(c, e) PROVE HandledBeforeDone'
    BY <2>1 DEF ClaimRow, Oldest, PendingOf, Goto, Take, counters
  <2>2. CASE ClaimNone(c)
    BY <2>2 DEF ClaimNone, Goto, db, counters
  <2>3. CASE ClearWake(c)
    BY <2>3 DEF ClearWake, Goto, db, counters
  <2>4. CASE Wake(c)
    BY <2>4 DEF Wake, Goto, db, counters
  <2>5. CASE Poll(c)
    BY <2>5 DEF Poll, Goto, db, counters
  <2>6. CASE ClaimSleepOver(c)
    BY <2>6 DEF ClaimSleepOver, Goto, db, counters
  <2>7. CASE Handle(c)
    BY <2>7 DEF Handle, Goto, db
  <2>8. CASE HandleError(c)
    BY <2>8 DEF HandleError, Goto, db, counters
  <2>9. CASE MarkDone(c)
    BY <2>9 DEF MarkDone, Goto, SetStatus, counters
  <2>10. CASE MarkFailed(c)
    BY <2>10 DEF MarkFailed, Goto, SetStatus, Verdict, GivesUp, Limit,
       counters
  <2>11. CASE BackoffOver(c)
    BY <2>11 DEF BackoffOver, Goto, db, counters
  <2> QED BY <1>9, <2>1, <2>2, <2>3, <2>4, <2>5, <2>6, <2>7, <2>8, <2>9, <2>10,
     <2>11 DEF WorkerStep
<1>10. ASSUME NEW c \in Channels, WorkerFault(c) PROVE HandledBeforeDone'
  <2>1. CASE ClaimError(c)
    BY <2>1 DEF ClaimError, Goto, Fault, db
  <2>2. ASSUME NEW e \in Events, ClaimReplyLost(c, e) PROVE HandledBeforeDone'
    BY <2>2 DEF ClaimReplyLost, Oldest, PendingOf, Goto, Take, Fault
  <2>3. CASE MarkDoneError(c)
    BY <2>3 DEF MarkDoneError, Goto, Fault, db
  <2>4. CASE MarkDoneReplyLost(c)
    BY <2>4 DEF MarkDoneReplyLost, Goto, Fault, SetStatus
  <2>5. CASE MarkFailedError(c)
    BY <2>5 DEF MarkFailedError, AbortGroup, NoWorkers, Fault, SetStatus,
       Verdict, GivesUp, Limit, db
  <2> QED BY <1>10, <2>1, <2>2, <2>3, <2>4, <2>5 DEF WorkerFault
<1>11. CASE ReviveDead
  BY <1>11 DEF ReviveDead, tasks
<1> QED BY <1>1, <1>2, <1>3, <1>4, <1>5, <1>6, <1>7, <1>8, <1>9, <1>10, <1>11
   DEF Next

LEMMA DoneStep ==
    "mark_done_reply" \notin Faults /\ Structure /\ HeldIsProcessing /\
    [Next]_vars => DoneStays
<1> SUFFICES ASSUME "mark_done_reply" \notin Faults, Structure,
      HeldIsProcessing, [Next]_vars PROVE DoneStays
  OBVIOUS
<1> USE ChannelsAssumption, BoundsAssumption, NoEventAssumption
<1> USE DEF Structure, TypeOK, OneWorkerPerChannel, GroupFollowsJob,
      HeldRows, RowIds, HeldIsProcessing, DoneStays
<1>1. CASE UNCHANGED vars
  BY <1>1 DEF vars
<1>2. CASE JobStep
  <2>1. CASE Start
    BY <2>1 DEF Start, db, counters
  <2>2. CASE RequeueAll
    BY <2>2 DEF RequeueAll, counters
  <2>3. CASE SpawnAll
    BY <2>3 DEF SpawnAll, db, counters
  <2>4. CASE RestartJob
    BY <2>4 DEF RestartJob, db, counters
  <2> QED BY <1>2, <2>1, <2>2, <2>3, <2>4 DEF JobStep
<1>3. CASE Crash
  BY <1>3 DEF Crash, Fault, NoWorkers, db
<1>4. CASE RequeueError
  BY <1>4 DEF RequeueError, Fault, db
<1>5. CASE PendingError
  BY <1>5 DEF PendingError, AbortGroup, NoWorkers, Fault, db
<1>6. ASSUME NEW e \in Events, Enqueue(e) PROVE DoneStays
  BY <1>6 DEF Enqueue, tasks, counters
<1>7. ASSUME NEW e \in Events, EnsureAndWake(e) PROVE DoneStays
  BY <1>7 DEF EnsureAndWake, db, counters
<1>8. ASSUME NEW e \in Events, SubmitError(e) PROVE DoneStays
  BY <1>8 DEF SubmitError, Fault, db, tasks
<1>9. ASSUME NEW c \in Channels, WorkerStep(c) PROVE DoneStays
  <2>1. ASSUME NEW e \in Events, ClaimRow(c, e) PROVE DoneStays
    BY <2>1 DEF ClaimRow, Oldest, PendingOf, Goto, Take, counters
  <2>2. CASE ClaimNone(c)
    BY <2>2 DEF ClaimNone, Goto, db, counters
  <2>3. CASE ClearWake(c)
    BY <2>3 DEF ClearWake, Goto, db, counters
  <2>4. CASE Wake(c)
    BY <2>4 DEF Wake, Goto, db, counters
  <2>5. CASE Poll(c)
    BY <2>5 DEF Poll, Goto, db, counters
  <2>6. CASE ClaimSleepOver(c)
    BY <2>6 DEF ClaimSleepOver, Goto, db, counters
  <2>7. CASE Handle(c)
    BY <2>7 DEF Handle, Goto, db
  <2>8. CASE HandleError(c)
    BY <2>8 DEF HandleError, Goto, db, counters
  <2>9. CASE MarkDone(c)
    BY <2>9 DEF MarkDone, Goto, SetStatus, counters
  <2>10. CASE MarkFailed(c)
    BY <2>10 DEF MarkFailed, Goto, SetStatus, Verdict, GivesUp, Limit,
       counters
  <2>11. CASE BackoffOver(c)
    BY <2>11 DEF BackoffOver, Goto, db, counters
  <2> QED BY <1>9, <2>1, <2>2, <2>3, <2>4, <2>5, <2>6, <2>7, <2>8, <2>9, <2>10,
     <2>11 DEF WorkerStep
<1>10. ASSUME NEW c \in Channels, WorkerFault(c) PROVE DoneStays
  <2>1. CASE ClaimError(c)
    BY <2>1 DEF ClaimError, Goto, Fault, db
  <2>2. ASSUME NEW e \in Events, ClaimReplyLost(c, e) PROVE DoneStays
    BY <2>2 DEF ClaimReplyLost, Oldest, PendingOf, Goto, Take, Fault
  <2>3. CASE MarkDoneError(c)
    BY <2>3 DEF MarkDoneError, Goto, Fault, db
  <2>4. CASE MarkDoneReplyLost(c)
    BY <2>4 DEF MarkDoneReplyLost, Goto, Fault, SetStatus
  <2>5. CASE MarkFailedError(c)
    BY <2>5 DEF MarkFailedError, AbortGroup, NoWorkers, Fault, SetStatus,
       Verdict, GivesUp, Limit, db
  <2> QED BY <1>10, <2>1, <2>2, <2>3, <2>4, <2>5 DEF WorkerFault
<1>11. CASE ReviveDead
  BY <1>11 DEF ReviveDead, tasks
<1> QED BY <1>1, <1>2, <1>3, <1>4, <1>5, <1>6, <1>7, <1>8, <1>9, <1>10, <1>11
   DEF Next

-----------------------------------------------------------------------------
(* The theorems.                                                           *)

LEMMA StructureInvariant == Spec => []Structure
BY InvInit, StructureStep, PTL DEF Spec

\* Whatever faults occur, a channel never has two workers and no worker runs
\* outside the open task group (_ensure_worker, _running).
THEOREM SingleWorker == Spec => []OneWorkerPerChannel
<1>1. Structure => OneWorkerPerChannel
  BY DEF Structure
<1> QED BY <1>1, StructureInvariant, PTL

\* An event handled n times has seen at least n - 1 faults: redelivery by the
\* platforms, start-up recovery and the DLQ command repeat nothing.
THEOREM RepeatsBounded == Spec => []RepeatsNeedFaults
<1>1. Structure /\ RepeatsPaid => RepeatsNeedFaults
  BY DEF Structure, TypeOK, RepeatsPaid, RepeatsNeedFaults
<1> QED BY <1>1, InvInit, StructureStep, RepeatsStep, PTL DEF Spec

\* The retry limit of mark_failed holds up to one claim per fault.
THEOREM AttemptsBounded == Spec => []RetryBudget
<1>1. AttemptsPaid => RetryBudget
  BY DEF AttemptsPaid, AttemptLimit, RetryBudget
<1> QED BY <1>1, InvInit, StructureStep, AttemptsStep, PTL DEF Spec

LEMMA OrderInvariant ==
    ASSUME "claim_reply" \notin Faults
    PROVE  Spec => [](Structure /\ NoStrandedRow /\ InOrder)
<1>1. Structure /\ NoStrandedRow /\ InOrder /\ [Next]_vars
        => (Structure /\ NoStrandedRow /\ InOrder)'
  BY StructureStep, OrderStep
<1> QED BY <1>1, InvInit, PTL DEF Spec

\* As long as no claim commits without its reply, the events of a channel are
\* taken up in the order of their rows, through any crash, restart of the
\* job, failed statement and use of the DLQ command.
THEOREM ChannelOrder ==
    ASSUME "claim_reply" \notin Faults
    PROVE  Spec => []ChannelFIFO
<1>1. InOrder => ChannelFIFO
  BY DEF InOrder, ChannelFIFO
<1> QED BY <1>1, OrderInvariant, PTL

\* Under the same assumption no row is left in 'processing' with nobody to
\* finish it.
THEOREM RowsHaveOwners ==
    ASSUME "claim_reply" \notin Faults
    PROVE  Spec => []NoStrandedRow
BY OrderInvariant, PTL

\* As long as no mark_done commits without its reply, a finished row is never
\* opened again.
THEOREM DoneForGood ==
    ASSUME "mark_done_reply" \notin Faults
    PROVE  Spec => DoneIsFinal
<1>1. Structure /\ HeldIsProcessing /\ [Next]_vars
        => (Structure /\ HeldIsProcessing)' /\ [DoneStays]_status
  BY StructureStep, ProcessingStep, DoneStep
<1> QED BY <1>1, InvInit, PTL DEF Spec, DoneIsFinal, DoneStays
-----------------------------------------------------------------------------
(* The pipeline implements DurableQueue, for every set of events and       *)
(* channels, and every choice of faults but the two in which a statement   *)
(* commits and looks failed.                                               *)

RepliesArrive == Faults \cap {"claim_reply", "mark_done_reply"} = {}

QueueInv ==
    Structure /\ NoStrandedRow /\ InOrder /\ HeldIsProcessing /\ HandledBeforeDone

\* A held row is first in line: an earlier open row would have been overtaken.
LEMMA HeldIsFirst ==
    ASSUME RepliesArrive, QueueInv, NEW c \in Channels, pc[c] \in Holding
    PROVE  Queue!FirstInLine(cur[c])
<1> USE DEF QueueInv, Structure, TypeOK, HeldRows, RowIds, InOrder, Settled,
            QueueState
<1>1. cur[c] \in Events /\ attempts[cur[c]] > 0 /\ ChannelOf[cur[c]] = c
  OBVIOUS
<1>2. SUFFICES ASSUME NEW f \in Events, ChannelOf[f] = c,
                      QueueState[f] = "queued", f \notin revived
               PROVE  rowId[cur[c]] <= rowId[f]
  BY <1>1 DEF Queue!FirstInLine
<1>3. ~Settled(f) /\ rowId[f] > 0
  BY <1>2
<1> QED BY <1>1, <1>2, <1>3

\* The step relation of the queue, for an action that changes none of it.
LEMMA Stutter ==
    ASSUME UNCHANGED <<rowId, nextId, revived, handled>>,
           \A e \in Events : QueueState'[e] = QueueState[e]
    PROVE  UNCHANGED Queue!vars
BY DEF Queue!vars, QueueState

LEMMA QueueInit == Init => Queue!Init
BY DEF Init, Queue!Init, QueueState

LEMMA QueueStep ==
    ASSUME RepliesArrive
    PROVE  QueueInv /\ [Next]_vars => [Queue!Next]_Queue!vars
<1> SUFFICES ASSUME QueueInv, [Next]_vars PROVE [Queue!Next]_Queue!vars
  OBVIOUS
<1> USE ChannelsAssumption, BoundsAssumption, NoEventAssumption
<1> USE DEF QueueInv, Structure, TypeOK, QueueState, Queue!vars
<1>1. CASE /\ UNCHANGED <<rowId, nextId, status, handled, revived>>
  BY <1>1
<1>2. CASE JobStep
  <2>1. CASE RequeueAll
    BY <2>1, Stutter DEF RequeueAll, counters
  <2> QED BY <1>1, <1>2, <2>1 DEF JobStep, Start, SpawnAll, RestartJob, db,
             counters
<1>3. CASE Crash \/ RequeueError \/ PendingError
  BY <1>1, <1>3 DEF Crash, RequeueError, PendingError, Fault, db
<1>4. ASSUME NEW e \in Events, Enqueue(e) PROVE Queue!Next
  <2>1. QueueState[e] = "new"
    BY <1>4 DEF Enqueue
  <2>2. QueueState' = [QueueState EXCEPT ![e] = "queued"]
    BY <1>4 DEF Enqueue
  <2> QED BY <1>4, <2>1, <2>2 DEF Enqueue, counters, Queue!Next, Queue!Accept
<1>5. ASSUME NEW e \in Events, EnsureAndWake(e) \/ SubmitError(e)
      PROVE  UNCHANGED Queue!vars
  BY <1>5 DEF EnsureAndWake, SubmitError, Fault, db, counters
<1>6. ASSUME NEW c \in Channels, NEW e \in Events, ClaimRow(c, e)
      PROVE  UNCHANGED Queue!vars
  BY <1>6, Stutter DEF ClaimRow, Oldest, PendingOf, Take, counters
<1>7. ASSUME NEW c \in Channels, Handle(c) PROVE Queue!Next
  <2>1. cur[c] \in Events /\ QueueState[cur[c]] = "queued"
    BY <1>7 DEF Handle, Goto, Holding, HeldRows, HeldIsProcessing
  <2>2. Queue!FirstInLine(cur[c])
    BY <1>7, HeldIsFirst DEF Handle, Goto, Holding
  <2>3. {e \in Events : handled'[e] > 0}
          = {e \in Events : handled[e] > 0} \cup {cur[c]}
    BY <1>7, <2>1 DEF Handle
  <2> QED BY <1>7, <2>1, <2>2, <2>3 DEF Handle, db, Queue!Next, Queue!Deliver
<1>8. ASSUME NEW c \in Channels, MarkDone(c) PROVE Queue!Next
  <2>1. /\ cur[c] \in Events
        /\ QueueState[cur[c]] = "queued"
        /\ cur[c] \in {e \in Events : handled[e] > 0}
    BY <1>8
       DEF MarkDone, Goto, Holding, HeldRows, HeldIsProcessing, HandledBeforeDone
  <2>2. Queue!FirstInLine(cur[c])
    BY <1>8, HeldIsFirst DEF MarkDone, Goto, Holding
  <2>3. QueueState' = [QueueState EXCEPT ![cur[c]] = "done"]
    BY <1>8, <2>1 DEF MarkDone, SetStatus
  <2> QED BY <1>8, <2>1, <2>2, <2>3
          DEF MarkDone, SetStatus, counters, Queue!Next, Queue!Finish
<1>9. ASSUME NEW c \in Channels, pc[c] \in {"fail_retry", "fail_fatal"},
             SetStatus(cur[c], Verdict(c)), UNCHANGED <<handled, revived>>
      PROVE  [Queue!Next]_Queue!vars
  <2>1. cur[c] \in Events /\ QueueState[cur[c]] = "queued"
    BY <1>9 DEF Holding, HeldRows, HeldIsProcessing
  <2>2. CASE GivesUp(c)
    <3>1. Queue!FirstInLine(cur[c])
      BY <1>9, HeldIsFirst DEF Holding
    <3>2. QueueState' = [QueueState EXCEPT ![cur[c]] = "dead"]
      BY <1>9, <2>1, <2>2 DEF SetStatus, Verdict
    <3> QED BY <1>9, <2>1, <3>1, <3>2 DEF SetStatus, Queue!Next, Queue!GiveUp
  <2>3. CASE ~GivesUp(c)
    BY <1>9, <2>1, <2>3, Stutter DEF SetStatus, Verdict
  <2> QED BY <2>2, <2>3
<1>10. ASSUME NEW c \in Channels, WorkerStep(c) PROVE [Queue!Next]_Queue!vars
  <2>1. CASE ClaimNone(c) \/ ClearWake(c) \/ Wake(c) \/ Poll(c)
             \/ ClaimSleepOver(c) \/ HandleError(c) \/ BackoffOver(c)
    BY <1>1, <2>1 DEF ClaimNone, ClearWake, Wake, Poll, ClaimSleepOver,
                      HandleError, BackoffOver, db, counters
  <2>2. CASE MarkFailed(c)
    BY <1>9, <2>2 DEF MarkFailed, counters
  <2> QED BY <1>6, <1>7, <1>8, <1>10, <2>1, <2>2 DEF WorkerStep
<1>11. ASSUME NEW c \in Channels, WorkerFault(c) PROVE [Queue!Next]_Queue!vars
  <2>1. CASE ClaimError(c) \/ MarkDoneError(c)
    BY <1>1, <2>1 DEF ClaimError, MarkDoneError, Fault, db
  <2>2. ASSUME NEW e \in Events PROVE ~ClaimReplyLost(c, e)
    BY DEF ClaimReplyLost, Fault, RepliesArrive
  <2>3. ~MarkDoneReplyLost(c)
    BY DEF MarkDoneReplyLost, Fault, RepliesArrive
  <2>4. CASE MarkFailedError(c)
    BY <1>1, <1>9, <2>4 DEF MarkFailedError, Fault, db
  <2> QED BY <1>11, <2>1, <2>2, <2>3, <2>4 DEF WorkerFault
<1>12. CASE ReviveDead
  <2>1. {e \in Events : QueueState[e] = "dead"}
          = {e \in Events : status[e] = "dead"}
    OBVIOUS
  <2> QED BY <1>12, <2>1 DEF ReviveDead, tasks, Queue!Next, Queue!Revive
<1>13. CASE UNCHANGED vars
  BY <1>1, <1>13 DEF vars
<1> QED BY <1>2, <1>3, <1>4, <1>5, <1>10, <1>11, <1>12, <1>13 DEF Next

\* The pipeline implements the queue it promises: acceptance in order, no
\* event finished that was not delivered, none lost, none passed by.
THEOREM PipelineIsDurableQueue ==
    ASSUME RepliesArrive
    PROVE  Spec => ImplementsQueue
<1>1. Init => QueueInv
  BY InvInit DEF QueueInv
<1>2. QueueInv /\ [Next]_vars => QueueInv'
  BY StructureStep, OrderStep, ProcessingStep, HandledStep
     DEF QueueInv, RepliesArrive
<1>3. Spec => Queue!Spec
  BY <1>1, <1>2, QueueInit, QueueStep, PTL DEF Spec, Queue!Spec
<1> QED BY <1>3 DEF ImplementsQueue
=============================================================================
