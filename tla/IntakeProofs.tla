---------------------------- MODULE IntakeProofs ----------------------------
(* Theorems about Intake and their proofs.                                 *)
EXTENDS Intake, SequenceTheorems, TLAPS

-----------------------------------------------------------------------------
(* Events.                                                                 *)

Steps == {"enqueue", "read", "write"}
Places == {"start", "fetch", "backfill", "live"}

\* The event a backfill makes of the change at place i.
Fetched(l, i) ==
    Created(l[i].msg, i, <<"created", l[i].msg, IF Platform = "slack" THEN 0 ELSE i>>)

\* All events a log can ever give rise to.  The answer of a backfill shrinks
\* when a post is edited; this set only grows.
FromLog(l) ==
    {StreamEvent(l, i) : i \in DOMAIN l} \cup
    {Fetched(l, i) : i \in {k \in DOMAIN l : Platform = "slack" => l[k].msg = k}}

ChangeType == [msg : Nat, parent : Nat]

\* A change is of a post made before it, or is that post.
Logged ==
    /\ log \in Seq(ChangeType)
    /\ \A i \in 1..Len(log) :
         /\ log[i].msg \in 1..i
         /\ log[log[i].msg].msg = log[i].msg
         /\ log[i].parent \in 0..(i - 1)
         /\ ~Edits => log[i].msg = i

\* Every event on its way, or taken in, is one of the log.
Carried ==
    /\ stream \in Seq(FromLog(log))
    /\ inbox \in Seq(FromLog(log))
    /\ todo \in [Jobs -> SUBSET FromLog(log)]
    /\ submits \subseteq [by : Jobs, ev : FromLog(log), step : Steps]

Control ==
    /\ conn \in BOOLEAN
    /\ cursor \in 0..Len(log)
    /\ at \in [Jobs -> Places]
    /\ since \in [Jobs -> 0..Len(log)]
    /\ faults \in 0..MaxFaults /\ resends \in 0..MaxResends

Typed == Logged /\ Carried /\ Control

LEMMA Bounds == 0 \in 0..MaxFaults /\ 0 \in 0..MaxResends
BY BoundsAssumption

LEMMA LogFacts ==
    ASSUME Logged
    PROVE  /\ Len(log) \in Nat /\ DOMAIN log = 1..Len(log)
           /\ \A i \in 1..Len(log) : log[i] \in ChangeType
           /\ Posts(log) = {i \in 1..Len(log) : log[i].msg = i}
BY DEF Logged, Posts

LEMMA EventShape ==
    ASSUME Logged, NEW ev \in FromLog(log)
    PROVE  \E i \in 1..Len(log) :
               /\ ev.pos = i
               /\ ev.msg = log[i].msg
               /\ ev = StreamEvent(log, i) \/
                  (ev = Fetched(log, i) /\ (Platform = "slack" => log[i].msg = i))
BY LogFacts DEF FromLog, StreamEvent, SlackEvent, MattermostEvent, KindOf, Fetched, Created

\* An event of the log is what TypeOK asks of it.
LEMMA EventSound ==
    ASSUME Logged, NEW ev \in FromLog(log)
    PROVE  IsEvent(ev)
<1>1. PICK i \in 1..Len(log) :
          /\ ev.pos = i
          /\ ev.msg = log[i].msg
          /\ ev = StreamEvent(log, i) \/ ev = Fetched(log, i)
  BY EventShape
<1>2. ev.kind \in {"created", "edited"}
  BY <1>1 DEF StreamEvent, SlackEvent, MattermostEvent, KindOf, Fetched, Created
<1>3. log[i].msg \in 1..Len(log) /\ log[log[i].msg].msg = log[i].msg
  BY LogFacts, SMT DEF Logged
<1> QED BY <1>1, <1>2, <1>3, LogFacts DEF IsEvent, Posts

\* A backfill reports events of the log only.
LEMMA BackfillSound ==
    ASSUME Logged, NEW n \in Nat
    PROVE  Backfill(log, n) \subseteq FromLog(log)
<1>1. CASE Platform = "slack"
  <2> SUFFICES ASSUME NEW m \in Posts(log)
      PROVE  Created(m, m, <<"created", m, 0>>) \in FromLog(log)
    BY <1>1 DEF Backfill, SlackBackfill
  <2>1. m \in DOMAIN log /\ log[m].msg = m
    BY DEF Posts
  <2>2. Fetched(log, m) = Created(m, m, <<"created", m, 0>>)
    BY <1>1, <2>1 DEF Fetched
  <2> QED BY <2>1, <2>2 DEF FromLog
<1>2. CASE Platform # "slack"
  <2> SUFFICES ASSUME NEW i \in DOMAIN log
      PROVE  Created(log[i].msg, i, <<"created", log[i].msg, i>>) \in FromLog(log)
    BY <1>2 DEF Backfill, MattermostBackfill, Updates
  <2>1. Fetched(log, i) = Created(log[i].msg, i, <<"created", log[i].msg, i>>)
    BY <1>2 DEF Fetched
  <2> QED BY <1>2, <2>1 DEF FromLog
<1> QED BY <1>1, <1>2

\* A longer log has the events of the shorter.
LEMMA FromLogGrows ==
    ASSUME Logged, NEW c \in ChangeType
    PROVE  FromLog(log) \subseteq FromLog(Append(log, c))
<1> DEFINE l == Append(log, c)
<1>1. /\ \A i \in 1..Len(log) : l[i] = log[i]
      /\ DOMAIN log \subseteq DOMAIN l
  BY AppendProperties, LogFacts DEF Logged
<1>2. \A i \in DOMAIN log :
          StreamEvent(l, i) = StreamEvent(log, i) /\ Fetched(l, i) = Fetched(log, i)
  BY <1>1, LogFacts DEF StreamEvent, SlackEvent, MattermostEvent, KindOf, Fetched
<1>3. \A i \in DOMAIN log : i \in DOMAIN l /\ log[i] = l[i]
  BY <1>1, LogFacts
<1> HIDE DEF l
<1>4. {StreamEvent(log, i) : i \in DOMAIN log} \subseteq FromLog(l)
  BY <1>2, <1>3 DEF FromLog
<1>5. ASSUME NEW i \in DOMAIN log, Platform = "slack" => log[i].msg = i
      PROVE  Fetched(log, i) \in FromLog(l)
  <2>1. i \in {k \in DOMAIN l : Platform = "slack" => l[k].msg = k}
    BY <1>3, <1>5
  <2>2. Fetched(log, i) = Fetched(l, i)
    BY <1>2
  <2> QED BY <2>1, <2>2 DEF FromLog
<1>6. FromLog(log) \subseteq FromLog(l)
  BY <1>4, <1>5 DEF FromLog
<1> QED BY <1>6 DEF l

-----------------------------------------------------------------------------
(* Steps.                                                                  *)

\* What a step may be, job by job and call by call.
LEMMA StepCases ==
    ASSUME Next
    PROVE  \/ Post \/ Edit \/ Drop \/ Resume \/ Resend
           \/ Connect \/ Receive \/ ListenEnds \/ SweepOver \/ Crash
           \/ \E j \in Jobs : \/ ReadSince(j) \/ Fetch(j)
                              \/ FetchError(j) \/ SubmitNext(j)
           \/ \E s \in submits : \/ Enqueue(s) \/ ReadCursor(s)
                                 \/ WriteCursor(s) \/ SubmitError(s)
BY DEF Next, ListenerStep, ReconcilerStep, JobStep, Jobs, SubmitsOf

\* Users only add to the log, and to the stream of an open socket.
LEMMA ChangeCases ==
    ASSUME Logged, Post \/ Edit
    PROVE  \E msg, parent \in Nat :
               /\ Change(msg, parent)
               /\ parent \in 0..Len(log)
               /\ \/ msg = Len(log) + 1
                  \/ Edits /\ msg \in 1..Len(log) /\ log[msg].msg = msg
<1>1. CASE Post
  <2>1. CASE Change(Len(log) + 1, 0)
    BY <2>1, LogFacts
  <2>2. CASE \E m \in Posts(log) : Change(Len(log) + 1, m)
    BY <2>2, LogFacts
  <2> QED BY <1>1, <2>1, <2>2 DEF Post
<1>2. CASE Edit
  <2>1. PICK m \in Posts(log) : Change(m, log[m].parent)
    BY <1>2 DEF Edit
  <2>2. m \in 1..Len(log) /\ log[m].msg = m
    BY LogFacts
  <2>3. log[m].parent \in 0..Len(log) /\ log[m].parent \in Nat
    BY <2>2, LogFacts, SMT DEF Logged
  <2>4. Edits
    BY <1>2 DEF Edit
  <2> QED BY <2>1, <2>2, <2>3, <2>4, LogFacts
<1> QED BY <1>1, <1>2

LEMMA ChangeLogged ==
    ASSUME Logged, NEW msg \in Nat, NEW parent \in 0..Len(log),
           Change(msg, parent),
           \/ msg = Len(log) + 1
           \/ Edits /\ msg \in 1..Len(log) /\ log[msg].msg = msg
    PROVE  /\ Logged'
           /\ Len(log') = Len(log) + 1
           /\ \A i \in 1..Len(log) : log'[i] = log[i]
           /\ log'[Len(log')].msg = msg
           /\ FromLog(log) \subseteq FromLog(log)'
           /\ StreamEvent(log', Len(log')) \in FromLog(log)'
<1> DEFINE c == [msg |-> msg, parent |-> parent]
<1>1. log \in Seq(ChangeType) /\ Len(log) \in Nat
  BY DEF Logged
<1>2. c \in ChangeType
  BY <1>1 DEF ChangeType
<1>3. log' = Append(log, c)
  BY DEF Change
<1>4. /\ log' \in Seq(ChangeType)
      /\ Len(log') = Len(log) + 1
      /\ \A i \in 1..Len(log) : log'[i] = log[i]
      /\ log'[Len(log) + 1] = c
      /\ DOMAIN log' = 1..Len(log')
  BY <1>1, <1>2, <1>3, AppendProperties
<1>5. Logged'
  <2> SUFFICES ASSUME NEW i \in 1..Len(log')
      PROVE  /\ log'[i].msg \in 1..i
             /\ log'[log'[i].msg].msg = log'[i].msg
             /\ log'[i].parent \in 0..(i - 1)
             /\ ~Edits => log'[i].msg = i
    BY <1>4 DEF Logged
  <2>1. CASE i \in 1..Len(log)
    <3>1. /\ log[i].msg \in 1..i
          /\ log[log[i].msg].msg = log[i].msg
          /\ log[i].parent \in 0..(i - 1)
          /\ ~Edits => log[i].msg = i
      BY <2>1 DEF Logged
    <3>2. log[i].msg \in 1..Len(log)
      BY <2>1, <3>1, <1>1
    <3> QED BY <2>1, <3>1, <3>2, <1>4
  <2>2. CASE i = Len(log) + 1
    <3>1. log'[i].msg = msg /\ log'[i].parent = parent
      BY <2>2, <1>4
    <3>2. msg \in 1..i /\ log'[msg].msg = msg
      BY <2>2, <3>1, <1>1, <1>4
    <3> QED BY <2>2, <3>1, <3>2, <1>1
  <2> QED BY <2>1, <2>2, <1>1, <1>4
<1>6. FromLog(log) \subseteq FromLog(log')
  BY <1>2, <1>3, FromLogGrows
<1>7. StreamEvent(log', Len(log')) \in FromLog(log')
  BY <1>1, <1>4 DEF FromLog
<1> QED BY <1>4, <1>5, <1>6, <1>7

-----------------------------------------------------------------------------
(* Types.                                                                  *)

LEMMA TypedInit ==
    ASSUME Init
    PROVE  Typed
<1>1. CASE FirstRun
  <2>1. log = <<>> /\ inbox = <<>> /\ cursor = 0
    BY <1>1 DEF Init, NoCursor
  <2>2. Logged
    BY <2>1 DEF Logged
  <2>3. Carried
    BY <2>1 DEF Init, Carried
  <2>4. Control
    <3>1. at \in [Jobs -> Places] /\ since \in [Jobs -> 0..Len(log)]
      BY <2>1 DEF Init, Places, NoCursor
    <3>2. cursor \in 0..Len(log)
      BY <2>1
    <3>3. conn \in BOOLEAN /\ faults = 0 /\ resends = 0
      BY DEF Init
    <3> QED BY <3>1, <3>2, <3>3, Bounds DEF Control
  <2> QED BY <2>2, <2>3, <2>4 DEF Typed
<1>2. CASE ~FirstRun
  <2>1. log = <<FirstPost>> /\ inbox = <<StreamEvent(log, 1)>> /\ cursor = 1
    BY <1>2 DEF Init
  <2>2. Logged
    BY <2>1 DEF Logged, FirstPost, ChangeType
  <2>3. Len(log) = 1 /\ DOMAIN log = 1..1
    BY <2>1
  <2>4. StreamEvent(log, 1) \in FromLog(log)
    BY <2>3 DEF FromLog
  <2>5. Carried
    BY <2>1, <2>4 DEF Init, Carried
  <2>6. Control
    <3>1. at \in [Jobs -> Places] /\ since \in [Jobs -> 0..Len(log)]
      BY <2>3 DEF Init, Places, NoCursor
    <3>2. cursor \in 0..Len(log)
      BY <2>1, <2>3
    <3>3. conn \in BOOLEAN /\ faults = 0 /\ resends = 0
      BY DEF Init
    <3> QED BY <3>1, <3>2, <3>3, Bounds DEF Control
  <2> QED BY <2>2, <2>5, <2>6 DEF Typed
<1> QED BY <1>1, <1>2

\* What a job, or the whole process, forgets leaves the types as they are.
LEMMA RestartTyped ==
    ASSUME Typed, NEW j \in Jobs, Restart(j)
    PROVE  /\ Logged' /\ Carried'
           /\ conn' \in BOOLEAN /\ cursor' \in 0..Len(log')
           /\ at' \in [Jobs -> Places] /\ since' \in [Jobs -> 0..Len(log')]
<1> USE DEF Typed
<1>1. log' = log /\ inbox' = inbox /\ cursor' = cursor /\ since' = since
  BY DEF Restart
<1>2. Logged'
  BY <1>1 DEF Logged
<1>3. stream' \in Seq(FromLog(log)) /\ conn' \in BOOLEAN
  <2>1. <<>> \in Seq(FromLog(log))
    OBVIOUS
  <2>2. CASE j = "listener"
    BY <2>1, <2>2 DEF Restart
  <2>3. CASE j # "listener"
    BY <2>3 DEF Restart, Carried, Control
  <2> QED BY <2>2, <2>3
<1>4. todo' \in [Jobs -> SUBSET FromLog(log)] /\ submits' \subseteq submits
  BY DEF Restart, Carried
<1>5. Carried'
  BY <1>1, <1>3, <1>4 DEF Carried
<1>6. at' \in [Jobs -> Places]
  BY DEF Restart, Control, Places
<1> QED BY <1>1, <1>2, <1>3, <1>5, <1>6 DEF Control

LEMMA FaultTyped ==
    ASSUME faults \in 0..MaxFaults, Fault
    PROVE  faults' \in 0..MaxFaults
BY BoundsAssumption DEF Fault

\* A call of submit() in hand.
LEMMA CallTyped ==
    ASSUME Typed, NEW s \in submits
    PROVE  s.by \in Jobs /\ s.ev \in FromLog(log) /\ s.step \in Steps
BY DEF Typed, Carried

LEMMA GotoTyped ==
    ASSUME Typed, NEW s \in submits, NEW step \in Steps, Goto(s, step)
    PROVE  submits' \subseteq [by : Jobs, ev : FromLog(log), step : Steps]
BY DEF Typed, Carried, Goto

LEMMA SubmitTyped ==
    ASSUME Typed, NEW j \in Jobs, NEW ev \in FromLog(log), Submit(j, ev)
    PROVE  submits' \subseteq [by : Jobs, ev : FromLog(log), step : Steps]
BY DEF Typed, Carried, Submit, Steps

LEMMA PlatformTyped ==
    ASSUME Typed, Post \/ Edit \/ Drop \/ Resume \/ Resend
    PROVE  Typed'
<1> USE DEF Typed
<1>1. CASE Post \/ Edit
  <2>1. PICK msg \in Nat, parent \in Nat :
            /\ Change(msg, parent)
            /\ parent \in 0..Len(log)
            /\ \/ msg = Len(log) + 1
               \/ Edits /\ msg \in 1..Len(log) /\ log[msg].msg = msg
    BY <1>1, ChangeCases
  <2>2. /\ Logged'
        /\ Len(log') = Len(log) + 1
        /\ FromLog(log) \subseteq FromLog(log)'
        /\ StreamEvent(log', Len(log')) \in FromLog(log)'
    BY <2>1, ChangeLogged
  <2>3. stream' \in Seq(FromLog(log)')
    <3>1. stream \in Seq(FromLog(log)')
      BY <2>2, SeqMonotonic DEF Carried
    <3> QED BY <2>1, <2>2, <3>1, AppendProperties DEF Change
  <2>4. UNCHANGED <<conn, inbox, cursor, at, since, todo, submits, faults, resends>>
    BY <2>1 DEF Change
  <2>5. Carried'
    <3>1. inbox' \in Seq(FromLog(log)')
      BY <2>2, <2>4, SeqMonotonic DEF Carried
    <3> QED BY <2>2, <2>3, <2>4, <3>1 DEF Carried
  <2>6. Control'
    <3>1. Len(log) \in Nat /\ \A n \in 0..Len(log) : n \in 0..Len(log')
      BY <2>2, LogFacts
    <3>2. since' \in [Jobs -> 0..Len(log')]
      BY <2>4, <3>1 DEF Control
    <3> QED BY <2>4, <3>1, <3>2 DEF Control
  <2> QED BY <2>2, <2>5, <2>6
<1>2. CASE Drop
  BY <1>2, FaultTyped DEF Drop, Logged, Carried, Control
<1>3. CASE Resume
  BY <1>3 DEF Resume, Logged, Carried, Control
<1>4. CASE Resend
  <2>1. stream' \in Seq(FromLog(log))
    <3>1. PICK i \in DOMAIN log : stream' = Append(stream, StreamEvent(log, i))
      BY <1>4 DEF Resend
    <3>2. StreamEvent(log, i) \in FromLog(log)
      BY DEF FromLog
    <3> QED BY <3>1, <3>2, AppendProperties DEF Carried
  <2>2. UNCHANGED <<log, conn, inbox, cursor, at, since, todo, submits, faults>>
    BY <1>4 DEF Resend
  <2>3. resends' \in 0..MaxResends
    BY <1>4, BoundsAssumption DEF Resend, Control
  <2> QED BY <2>1, <2>2, <2>3 DEF Logged, Carried, Control
<1> QED BY <1>1, <1>2, <1>3, <1>4

LEMMA ListenerTyped ==
    ASSUME Typed, Connect \/ Receive \/ ListenEnds \/ SweepOver \/ Crash
    PROVE  Typed'
<1> USE DEF Typed
<1>1. CASE Connect
  BY <1>1 DEF Connect, Logged, Carried, Control, Places
<1>2. CASE Receive
  <2>1. Head(stream) \in FromLog(log) /\ stream' \in Seq(FromLog(log))
    BY <1>2, HeadTailProperties DEF Receive, Carried
  <2>2. submits' \subseteq [by : Jobs, ev : FromLog(log), step : Steps]
    <3>1. Submit("listener", Head(stream))
      BY <1>2 DEF Receive
    <3> QED BY <2>1, <3>1, SubmitTyped DEF Jobs
  <2>3. UNCHANGED <<log, conn, inbox, cursor, at, since, todo, faults, resends>>
    BY <1>2 DEF Receive
  <2> QED BY <2>1, <2>2, <2>3 DEF Logged, Carried, Control
<1>3. CASE ListenEnds
  <2>1. Restart("listener") /\ UNCHANGED <<faults, resends>>
    BY <1>3 DEF ListenEnds
  <2> QED BY <2>1, RestartTyped DEF Control, Jobs
<1>4. CASE SweepOver
  BY <1>4 DEF SweepOver, Logged, Carried, Control, Places
<1>5. CASE Crash
  <2>1. faults' \in 0..MaxFaults
    BY <1>5, FaultTyped DEF Crash, Control
  <2>2. Logged'
    BY <1>5 DEF Crash, Logged
  <2>3. Carried'
    <3>1. stream' \in Seq(FromLog(log))
      BY <1>5 DEF Crash
    <3> QED BY <1>5, <3>1 DEF Crash, Carried
  <2>4. Control'
    <3>1. at' \in [Jobs -> Places]
      BY <1>5 DEF Crash, Places
    <3> QED BY <1>5, <2>1, <3>1 DEF Crash, Control
  <2> QED BY <2>2, <2>3, <2>4
<1> QED BY <1>1, <1>2, <1>3, <1>4, <1>5

LEMMA JobTyped ==
    ASSUME Typed, NEW j \in Jobs,
           ReadSince(j) \/ Fetch(j) \/ FetchError(j) \/ SubmitNext(j)
    PROVE  Typed'
<1> USE DEF Typed
<1>1. CASE ReadSince(j)
  BY <1>1 DEF ReadSince, Logged, Carried, Control, Places
<1>2. CASE Fetch(j)
  <2>1. since[j] \in Nat
    BY LogFacts DEF Control
  <2>2. Backfill(log, since[j]) \subseteq FromLog(log)
    BY <2>1, BackfillSound
  <2>3. todo' \in [Jobs -> SUBSET FromLog(log)]
    BY <1>2, <2>2 DEF Fetch, Carried
  <2> QED BY <1>2, <2>3 DEF Fetch, Logged, Carried, Control, Places
<1>3. CASE FetchError(j)
  <2>1. faults' \in 0..MaxFaults
    BY <1>3, FaultTyped DEF FetchError, Control
  <2> QED BY <1>3, <2>1 DEF FetchError, Logged, Carried, Control, Places
<1>4. CASE SubmitNext(j)
  <2>1. PICK ev \in todo[j] :
            Submit(j, ev) /\ todo' = [todo EXCEPT ![j] = @ \ {ev}]
    BY <1>4 DEF SubmitNext
  <2>2. ev \in FromLog(log) /\ todo' \in [Jobs -> SUBSET FromLog(log)]
    BY <2>1 DEF Carried
  <2>3. submits' \subseteq [by : Jobs, ev : FromLog(log), step : Steps]
    BY <2>1, <2>2, SubmitTyped
  <2>4. UNCHANGED <<log, conn, stream, inbox, cursor, at, since, faults, resends>>
    BY <1>4 DEF SubmitNext
  <2> QED BY <2>2, <2>3, <2>4 DEF Logged, Carried, Control
<1> QED BY <1>1, <1>2, <1>3, <1>4

LEMMA CallsTyped ==
    ASSUME Typed, NEW s \in submits,
           Enqueue(s) \/ ReadCursor(s) \/ WriteCursor(s) \/ SubmitError(s)
    PROVE  Typed'
<1> USE DEF Typed
<1>1. CASE Enqueue(s)
  <2>1. submits' \subseteq [by : Jobs, ev : FromLog(log), step : Steps]
    BY <1>1, GotoTyped DEF Enqueue, Steps
  <2>2. inbox' \in Seq(FromLog(log))
    BY <1>1, CallTyped, AppendProperties DEF Enqueue, Carried
  <2>3. UNCHANGED <<log, conn, stream, cursor, at, since, todo, faults, resends>>
    BY <1>1 DEF Enqueue
  <2> QED BY <2>1, <2>2, <2>3 DEF Logged, Carried, Control
<1>2. CASE ReadCursor(s)
  <2>1. submits' \subseteq [by : Jobs, ev : FromLog(log), step : Steps]
    <3>1. CASE submits' = submits \ {s}
      BY <3>1 DEF Carried
    <3>2. CASE Goto(s, "write")
      BY <3>2, GotoTyped DEF Steps
    <3> QED BY <1>2, <3>1, <3>2 DEF ReadCursor
  <2>2. UNCHANGED <<log, conn, stream, inbox, cursor, at, since, todo, faults, resends>>
    BY <1>2 DEF ReadCursor
  <2> QED BY <2>1, <2>2 DEF Logged, Carried, Control
<1>3. CASE WriteCursor(s)
  <2>1. cursor' = s.ev.pos /\ submits' = submits \ {s}
    BY <1>3 DEF WriteCursor
  <2>2. cursor' \in 0..Len(log)
    BY <2>1, CallTyped, EventShape, LogFacts
  <2>3. UNCHANGED <<log, conn, stream, inbox, at, since, todo, faults, resends>>
    BY <1>3 DEF WriteCursor
  <2> QED BY <2>1, <2>2, <2>3 DEF Logged, Carried, Control
<1>4. CASE SubmitError(s)
  <2>1. faults' \in 0..MaxFaults /\ resends' = resends
    BY <1>4, FaultTyped DEF SubmitError, Control
  <2>2. CASE Restart(s.by)
    BY <2>1, <2>2, CallTyped, RestartTyped DEF Control
  <2>3. CASE /\ submits' = submits \ {s}
             /\ UNCHANGED <<log, conn, stream, inbox, cursor, at, since, todo>>
    BY <2>1, <2>3 DEF Logged, Carried, Control
  <2> QED BY <1>4, <2>2, <2>3 DEF SubmitError
<1> QED BY <1>1, <1>2, <1>3, <1>4

LEMMA TypedStep ==
    ASSUME Typed, [Next]_vars
    PROVE  Typed'
<1>1. CASE Next
  BY <1>1, StepCases, PlatformTyped, ListenerTyped, JobTyped, CallsTyped
<1>2. CASE UNCHANGED vars
  BY <1>2 DEF vars, Typed, Logged, Carried, Control
<1> QED BY <1>1, <1>2

LEMMA TypedAlways == Spec => []Typed
BY TypedInit, TypedStep, PTL DEF Spec

LEMMA TypedGives == Typed => TypeOK
<1> SUFFICES ASSUME Typed PROVE TypeOK
  OBVIOUS
<1>1. \A i \in DOMAIN log : log[i].msg \in 1..i /\ log[i].parent \in 0..(i - 1)
  BY LogFacts DEF Typed, Logged
<1>2. \A n \in DOMAIN stream : IsEvent(stream[n])
  <2>1. \A n \in DOMAIN stream : stream[n] \in FromLog(log)
    BY DEF Typed, Carried
  <2> QED BY <2>1, EventSound DEF Typed
<1>3. \A n \in DOMAIN inbox : IsEvent(inbox[n])
  <2>1. \A n \in DOMAIN inbox : inbox[n] \in FromLog(log)
    BY DEF Typed, Carried
  <2> QED BY <2>1, EventSound DEF Typed
<1>4. \A j \in Jobs : \A ev \in todo[j] : IsEvent(ev)
  <2>1. \A j \in Jobs : \A ev \in todo[j] : ev \in FromLog(log)
    BY DEF Typed, Carried
  <2> QED BY <2>1, EventSound DEF Typed
<1>5. \A s \in submits :
         s.by \in Jobs /\ IsEvent(s.ev) /\ s.step \in {"enqueue", "read", "write"}
  BY CallTyped, EventSound DEF Typed, Steps
<1> QED BY <1>1, <1>2, <1>3, <1>4, <1>5 DEF Typed, Control, Places, TypeOK

\* Whatever the platform, its users and the faults: no event speaks of a post
\* the channel does not have, and the cursor stays within the log.
THEOREM TypeCorrect == Spec => []TypeOK
BY TypedAlways, TypedGives, PTL

-----------------------------------------------------------------------------
(* The cursor and the rows it is moved for.                                *)

StoredAt(p) == \E n \in 1..Len(inbox) : inbox[n].pos = p

\* The cursor is at a stored event, and so is every call that is past enqueue().
Stored ==
    /\ cursor = NoCursor \/ StoredAt(cursor)
    /\ \A s \in submits : s.step # "enqueue" => StoredAt(s.ev.pos)

\* Two events of one key are at one place of the log.
LEMMA KeyPlace ==
    ASSUME Logged, NEW e \in FromLog(log), NEW f \in FromLog(log), e.key = f.key
    PROVE  e.pos = f.pos
<1>1. CASE Platform = "slack"
  <2>1. ASSUME NEW ev \in FromLog(log)
        PROVE  ev.key \in {<<"event", ev.pos, 0>>, <<"created", ev.pos, 0>>}
    <3>1. PICK i \in 1..Len(log) :
              /\ ev.pos = i
              /\ ev = StreamEvent(log, i) \/ (ev = Fetched(log, i) /\ log[i].msg = i)
      BY <1>1, EventShape
    <3>2. CASE ev = StreamEvent(log, i)
      BY <1>1, <3>1, <3>2 DEF StreamEvent, SlackEvent, MattermostEvent, KindOf
    <3>3. CASE ev = Fetched(log, i) /\ log[i].msg = i
      BY <1>1, <3>1, <3>3 DEF Fetched, Created
    <3> QED BY <3>1, <3>2, <3>3
  <2>2. /\ e.key \in {<<"event", e.pos, 0>>, <<"created", e.pos, 0>>}
        /\ f.key \in {<<"event", f.pos, 0>>, <<"created", f.pos, 0>>}
    BY <2>1
  <2>3. e.key[2] = e.pos /\ f.key[2] = f.pos
    BY <2>2
  <2> QED BY <2>3
<1>2. CASE Platform # "slack"
  <2>1. ASSUME NEW ev \in FromLog(log) PROVE ev.key[3] = ev.pos
    <3>1. PICK i \in 1..Len(log) :
              ev.pos = i /\ (ev = StreamEvent(log, i) \/ ev = Fetched(log, i))
      BY EventShape
    <3>2. CASE ev = StreamEvent(log, i)
      BY <1>2, <3>1, <3>2 DEF StreamEvent, SlackEvent, MattermostEvent, KindOf
    <3>3. CASE ev = Fetched(log, i)
      BY <1>2, <3>1, <3>3 DEF Fetched, Created
    <3> QED BY <3>1, <3>2, <3>3
  <2> QED BY <2>1
<1> QED BY <1>1, <1>2

LEMMA StoredInit ==
    ASSUME Init
    PROVE  Stored
<1>1. CASE FirstRun
  BY <1>1 DEF Init, Stored
<1>2. CASE ~FirstRun
  <2>1. /\ cursor = 1 /\ Len(inbox) = 1 /\ inbox[1] = StreamEvent(log, 1) /\ submits = {}
    BY <1>2 DEF Init
  <2>2. inbox[1].pos = 1
    BY <2>1 DEF StreamEvent, SlackEvent, MattermostEvent, KindOf
  <2> QED BY <2>1, <2>2 DEF Stored, StoredAt
<1> QED BY <1>1, <1>2

\* Only the INSERT of enqueue() adds a row.
LEMMA InboxSteps ==
    ASSUME [Next]_vars
    PROVE  inbox' = inbox \/ \E s \in submits : Enqueue(s)
<1>1. CASE Post \/ Edit
  BY <1>1 DEF Post, Edit, Change
<1>2. CASE Drop \/ Resume \/ Resend
  BY <1>2 DEF Drop, Resume, Resend
<1>3. CASE Connect \/ Receive \/ ListenEnds \/ SweepOver \/ Crash
  BY <1>3 DEF Connect, Receive, ListenEnds, Restart, SweepOver, Crash
<1>4. ASSUME NEW j \in Jobs,
             ReadSince(j) \/ Fetch(j) \/ FetchError(j) \/ SubmitNext(j)
      PROVE  inbox' = inbox
  BY <1>4 DEF ReadSince, Fetch, FetchError, SubmitNext
<1>5. ASSUME NEW s \in submits,
             ReadCursor(s) \/ WriteCursor(s) \/ SubmitError(s)
      PROVE  inbox' = inbox
  BY <1>5 DEF ReadCursor, WriteCursor, SubmitError, Restart
<1>6. CASE UNCHANGED vars
  BY <1>6 DEF vars
<1> QED BY StepCases, <1>1, <1>2, <1>3, <1>4, <1>5, <1>6

\* The cursor is moved by a call of submit() that is past enqueue().
LEMMA CursorSteps ==
    ASSUME [Next]_vars
    PROVE  \/ cursor' = cursor
           \/ \E s \in submits : s.step = "write" /\ cursor' = s.ev.pos
<1>1. CASE Post \/ Edit
  BY <1>1 DEF Post, Edit, Change
<1>2. CASE Drop \/ Resume \/ Resend
  BY <1>2 DEF Drop, Resume, Resend
<1>3. CASE Connect \/ Receive \/ ListenEnds \/ SweepOver \/ Crash
  BY <1>3 DEF Connect, Receive, ListenEnds, Restart, SweepOver, Crash
<1>4. ASSUME NEW j \in Jobs,
             ReadSince(j) \/ Fetch(j) \/ FetchError(j) \/ SubmitNext(j)
      PROVE  cursor' = cursor
  BY <1>4 DEF ReadSince, Fetch, FetchError, SubmitNext
<1>5. ASSUME NEW s \in submits,
             Enqueue(s) \/ ReadCursor(s) \/ WriteCursor(s) \/ SubmitError(s)
      PROVE  cursor' = cursor \/ (s.step = "write" /\ cursor' = s.ev.pos)
  BY <1>5 DEF Enqueue, ReadCursor, WriteCursor, SubmitError, Restart
<1>6. CASE UNCHANGED vars
  BY <1>6 DEF vars
<1> QED BY StepCases, <1>1, <1>2, <1>3, <1>4, <1>5, <1>6

\* A call is new, or goes on with its event from where it was.
LEMMA SubmitSteps ==
    ASSUME Typed, [Next]_vars, NEW u \in submits'
    PROVE  \/ u \in submits
           \/ u.step = "enqueue"
           \/ \E s \in submits : u.ev = s.ev /\ (s.step # "enqueue" \/ Enqueue(s))
<1>1. CASE Post \/ Edit
  BY <1>1 DEF Post, Edit, Change
<1>2. CASE Drop \/ Resume \/ Resend
  BY <1>2 DEF Drop, Resume, Resend
<1>3. CASE Connect \/ Receive \/ ListenEnds \/ SweepOver \/ Crash
  BY <1>3 DEF Connect, Receive, Submit, ListenEnds, Restart, SweepOver, Crash
<1>4. ASSUME NEW j \in Jobs,
             ReadSince(j) \/ Fetch(j) \/ FetchError(j) \/ SubmitNext(j)
      PROVE  u \in submits \/ u.step = "enqueue"
  BY <1>4 DEF ReadSince, Fetch, FetchError, SubmitNext, Submit
<1>5. ASSUME NEW s \in submits,
             Enqueue(s) \/ ReadCursor(s) \/ WriteCursor(s) \/ SubmitError(s)
      PROVE  u \in submits \/ (u.ev = s.ev /\ (s.step # "enqueue" \/ Enqueue(s)))
  <2>1. \A step : [s EXCEPT !.step = step].ev = s.ev
    BY CallTyped DEF Typed, Carried
  <2> QED BY <1>5, <2>1 DEF Enqueue, ReadCursor, WriteCursor, SubmitError, Restart, Goto
<1>6. CASE UNCHANGED vars
  BY <1>6 DEF vars
<1> QED BY StepCases, <1>1, <1>2, <1>3, <1>4, <1>5, <1>6

\* What is stored stays, and enqueue() leaves its event, or one at its place.
LEMMA StoredGrows ==
    ASSUME Typed, [Next]_vars
    PROVE  /\ \A p : StoredAt(p) => StoredAt(p)'
           /\ \A s \in submits : Enqueue(s) => StoredAt(s.ev.pos)'
<1>1. ASSUME NEW s \in submits, Enqueue(s)
      PROVE  (\A p : StoredAt(p) => StoredAt(p)') /\ StoredAt(s.ev.pos)'
  <2>1. inbox' = IF s.ev.key \in Keys THEN inbox ELSE Append(inbox, s.ev)
    BY <1>1 DEF Enqueue
  <2>2. inbox \in Seq(FromLog(log)) /\ s.ev \in FromLog(log) /\ DOMAIN inbox = 1..Len(inbox)
    BY CallTyped DEF Typed, Carried
  <2>3. CASE s.ev.key \in Keys
    <3>1. PICK n \in 1..Len(inbox) : inbox[n].key = s.ev.key
      BY <2>2, <2>3 DEF Keys
    <3>2. inbox[n].pos = s.ev.pos
      BY <2>2, <3>1, KeyPlace DEF Typed
    <3> QED BY <2>1, <2>3, <3>2 DEF StoredAt
  <2>4. CASE s.ev.key \notin Keys
    <3>1. /\ Len(inbox') = Len(inbox) + 1 /\ Len(inbox) \in Nat
          /\ \A n \in 1..Len(inbox) : inbox'[n] = inbox[n]
          /\ inbox'[Len(inbox) + 1] = s.ev
      BY <2>1, <2>2, <2>4, AppendProperties
    <3>2. Len(inbox) + 1 \in 1..Len(inbox') /\ 1..Len(inbox) \subseteq 1..Len(inbox')
      BY <3>1
    <3> QED BY <3>1, <3>2 DEF StoredAt
  <2> QED BY <2>3, <2>4
<1>2. CASE inbox' = inbox
  BY <1>1, <1>2 DEF StoredAt
<1> QED BY <1>1, <1>2, InboxSteps

LEMMA StoredStep ==
    ASSUME Typed, Stored, [Next]_vars
    PROVE  Stored'
<1>1. cursor' = NoCursor \/ StoredAt(cursor)'
  <2>1. CASE cursor' = cursor
    BY <2>1, StoredGrows DEF Stored, StoredAt
  <2>2. ASSUME NEW s \in submits, s.step = "write", cursor' = s.ev.pos
        PROVE  StoredAt(cursor)'
    <3>1. StoredAt(s.ev.pos)'
      BY <2>2, StoredGrows DEF Stored
    <3> QED BY <2>2, <3>1 DEF StoredAt
  <2> QED BY <2>1, <2>2, CursorSteps
<1>2. ASSUME NEW u \in submits', u.step # "enqueue" PROVE StoredAt(u.ev.pos)'
  <2>1. CASE u \in submits
    BY <1>2, <2>1, StoredGrows DEF Stored
  <2>2. ASSUME NEW s \in submits, u.ev = s.ev, s.step # "enqueue" \/ Enqueue(s)
        PROVE  StoredAt(u.ev.pos)'
    BY <2>2, StoredGrows DEF Stored
  <2> QED BY <1>2, <2>1, <2>2, SubmitSteps
<1>3. \A u \in submits' : u.step # "enqueue" => StoredAt(u.ev.pos)'
  BY <1>2
<1> QED BY <1>1, <1>3 DEF Stored, StoredAt, NoCursor

\* On either platform, in every setting – a first start, posts during the
\* handover, edits, envelopes in parallel, any faults: the cursor is at an event
\* of the inbox, so a stop between the two writes of submit() skips nothing.
THEOREM CursorAtStored == Spec => []CursorStored
<1>1. Typed /\ Stored => CursorStored
  BY DEF Typed, Carried, Stored, StoredAt, CursorStored
<1> QED BY <1>1, StoredInit, StoredStep, TypedAlways, PTL DEF Spec

-----------------------------------------------------------------------------
(* Mattermost, with users that are quiet during the handover and do not    *)
(* edit, and a stored cursor: the inbox is the beginning of the log.       *)

Quiet == Platform = "mattermost" /\ QuietHandover /\ ~Edits /\ ~FirstRun

\* Post m is in the inbox or in a call of submit() by job j.
Known(m, j) == m <= Len(inbox) \/ \E s \in SubmitsOf(j) : s.ev.msg = m

Waiting(m, j) == \E ev \in todo[j] : ev.msg = m

\* Post m is among the first n events of the stream.
Coming(m, n) == \E k \in 1..n : stream[k].msg = m

\* The inbox holds the first posts of the log, in their order, and the cursor
\* is nowhere ahead of it.
Prefix ==
    /\ Len(inbox) \in 1..Len(log)
    /\ \A n \in 1..Len(inbox) : inbox[n].msg = n
    /\ cursor \in 1..Len(inbox)
    /\ \A j \in Jobs : since[j] \in 0..Len(inbox)

\* A job has one call of submit() at a time, and it brings the next post at
\* most.
Calls ==
    /\ \A s, t \in submits : s.by = t.by => s = t
    /\ \A s \in submits :
         /\ s.ev.msg <= Len(inbox) + 1
         /\ s.step # "enqueue" => s.ev.msg <= Len(inbox)

\* Nothing is missing before what a job has yet to submit,
Pending ==
    \A j \in Jobs : \A ev \in todo[j] : \A m \in 1..(ev.msg - 1) :
        Known(m, j) \/ Waiting(m, j)

\* before what the stream still holds,
Flowing ==
    \A n \in 1..Len(stream) : \A m \in 1..(stream[n].msg - 1) :
        Known(m, "listener") \/ Coming(m, n - 1)

\* up to the end of the log while the socket is open,
Attached ==
    conn => \A m \in 1..Len(log) :
                Known(m, "listener") \/ Coming(m, Len(stream))

\* and when it is about to be opened.
Handed ==
    at["listener"] = "backfill" =>
        \A m \in 1..Len(log) : Known(m, "listener") \/ Waiting(m, "listener")

Detached == at["listener"] # "live" => ~conn /\ stream = <<>>

Covered == Pending /\ Flowing /\ Attached /\ Handed /\ Detached

Ordered == Prefix /\ Calls /\ Covered

LEMMA QuietEvent ==
    ASSUME Quiet, Logged, NEW ev \in FromLog(log)
    PROVE  /\ ev.msg \in 1..Len(log)
           /\ ev.pos = ev.msg
           /\ ev = Created(ev.msg, ev.msg, <<"created", ev.msg, ev.msg>>)
<1>1. PICK i \in 1..Len(log) :
          /\ ev.pos = i /\ ev.msg = log[i].msg
          /\ ev = StreamEvent(log, i) \/ ev = Fetched(log, i)
  BY EventShape
<1>2. log[i].msg = i
  BY DEF Quiet, Logged
<1>3. Platform # "slack"
  BY DEF Quiet
<1>4. CASE ev = StreamEvent(log, i)
  BY <1>1, <1>2, <1>3, <1>4 DEF StreamEvent, SlackEvent, MattermostEvent, KindOf, Created
<1>5. CASE ev = Fetched(log, i)
  BY <1>1, <1>2, <1>3, <1>5 DEF Fetched, Created
<1> QED BY <1>1, <1>4, <1>5

\* Two events of a post are the same event, and so have the same key.
LEMMA SameEvent ==
    ASSUME Quiet, Logged, NEW e \in FromLog(log), NEW f \in FromLog(log)
    PROVE  /\ e.msg = f.msg => e = f
           /\ e.key = f.key => e.msg = f.msg
BY QuietEvent DEF Created

\* The numbers the invariant is about.
LEMMA Numbers ==
    ASSUME Quiet, Typed
    PROVE  /\ Len(log) \in Nat /\ Len(inbox) \in Nat /\ Len(stream) \in Nat
           /\ \A s \in submits : s.ev.msg \in 1..Len(log) /\ s.ev.pos = s.ev.msg
           /\ \A j \in Jobs : \A ev \in todo[j] : ev.msg \in 1..Len(log)
           /\ \A n \in 1..Len(stream) : stream[n].msg \in 1..Len(log)
<1>1. Len(log) \in Nat /\ Len(inbox) \in Nat /\ Len(stream) \in Nat
  BY DEF Typed, Logged, Carried
<1>2. \A s \in submits : s.ev.msg \in 1..Len(log) /\ s.ev.pos = s.ev.msg
  BY CallTyped, QuietEvent DEF Typed
<1>3. \A j \in Jobs : \A ev \in todo[j] : ev \in FromLog(log)
  BY DEF Typed, Carried
<1>4. \A n \in 1..Len(stream) : stream[n] \in FromLog(log)
  BY DEF Typed, Carried
<1> QED BY <1>1, <1>2, <1>3, <1>4, QuietEvent DEF Typed

\* What is known stays known while the calls of the job go on.
LEMMA KnownKept ==
    ASSUME NEW j, NEW m \in Nat, Known(m, j),
           Len(inbox) \in Nat, Len(inbox') \in Nat, Len(inbox) <= Len(inbox'),
           \A s \in SubmitsOf(j) : \/ s.ev.msg <= Len(inbox')
                                   \/ \E t \in SubmitsOf(j)' : t.ev.msg = s.ev.msg
    PROVE  Known(m, j)'
<1>1. CASE m <= Len(inbox)
  BY <1>1 DEF Known
<1>2. CASE \E s \in SubmitsOf(j) : s.ev.msg = m
  BY <1>2 DEF Known
<1> QED BY <1>1, <1>2 DEF Known

\* A step of a call changes nothing else of what is covered.
LEMMA CoveredKept ==
    ASSUME Quiet, Typed, Covered,
           UNCHANGED <<log, conn, stream, at, todo>>,
           \A j \in Jobs : \A m \in Nat : Known(m, j) => Known(m, j)'
    PROVE  Covered'
<1> USE DEF Covered, Jobs
<1>1. Pending'
  BY Numbers DEF Pending, Waiting
<1>2. Flowing'
  BY Numbers DEF Flowing, Coming
<1>3. Attached'
  BY Numbers DEF Attached, Coming
<1>4. Handed'
  BY Numbers DEF Handed, Waiting
<1>5. Detached'
  BY DEF Detached
<1> QED BY <1>1, <1>2, <1>3, <1>4, <1>5

LEMMA OrderedInit ==
    ASSUME Quiet, Init
    PROVE  Ordered
<1>1. ~FirstRun
  BY DEF Quiet
<1>2. log = <<FirstPost>> /\ inbox = <<StreamEvent(log, 1)>> /\ cursor = 1
  BY <1>1 DEF Init
<1>3. Len(log) = 1 /\ Len(inbox) = 1 /\ inbox[1].msg = 1
  BY <1>2 DEF StreamEvent, SlackEvent, MattermostEvent, KindOf, FirstPost
<1>4. Prefix
  BY <1>2, <1>3 DEF Init, Prefix, Jobs, NoCursor
<1>5. Calls
  BY DEF Init, Calls
<1>6. Covered
  BY DEF Init, Covered, Pending, Flowing, Attached, Handed, Detached, Jobs
<1> QED BY <1>4, <1>5, <1>6 DEF Ordered

LEMMA ChangeOrdered ==
    ASSUME Quiet, Typed, Typed', Ordered, Post \/ Edit
    PROVE  Ordered'
<1>1. PICK msg \in Nat, parent \in Nat :
          /\ Change(msg, parent)
          /\ parent \in 0..Len(log)
          /\ msg = Len(log) + 1
  BY ChangeCases DEF Quiet, Typed
<1>2. /\ Len(log') = Len(log) + 1
      /\ log'[Len(log')].msg = msg
  BY <1>1, ChangeLogged DEF Typed
<1>3. /\ UNCHANGED <<conn, inbox, cursor, at, since, todo, submits>>
      /\ stream' = IF conn THEN Append(stream, StreamEvent(log', Len(log')))
                   ELSE stream
      /\ at["listener"] # "backfill"
  BY <1>1 DEF Change, Quiet, InHandover
<1>4. Prefix' /\ Calls'
  BY <1>2, <1>3, Numbers DEF Ordered, Prefix, Calls
<1>5. Pending' /\ Handed' /\ Detached'
  <2>1. conn => at["listener"] = "live"
    BY DEF Ordered, Covered, Detached
  <2>2. Pending'
    BY <1>3 DEF Ordered, Covered, Pending, Waiting, Known, SubmitsOf
  <2> QED BY <1>3, <2>1, <2>2 DEF Ordered, Covered, Handed, Detached
<1>6. \A m : Known(m, "listener")' <=> Known(m, "listener")
  BY <1>3 DEF Known, SubmitsOf
<1>7. CASE ~conn
  BY <1>3, <1>4, <1>5, <1>6, <1>7
    DEF Ordered, Covered, Flowing, Attached, Coming
<1>8. CASE conn
  <2> DEFINE ev == StreamEvent(log', Len(log'))
  <2>1. ev.msg = Len(log) + 1
    BY <1>1, <1>2 DEF StreamEvent, SlackEvent, MattermostEvent, KindOf
  <2>2. /\ Len(stream') = Len(stream) + 1 /\ Len(stream) \in Nat
        /\ \A n \in 1..Len(stream) : stream'[n] = stream[n]
        /\ stream'[Len(stream) + 1] = ev
    <3>1. stream' = Append(stream, ev)
      BY <1>3, <1>8
    <3>2. stream \in Seq(FromLog(log))
      BY DEF Typed, Carried
    <3> QED BY <3>1, <3>2, AppendProperties
  <2> HIDE DEF ev
  <2>3. \A m : \A n \in 0..Len(stream) : Coming(m, n) => Coming(m, n)'
    BY <2>2 DEF Coming
  <2>4. \A m \in 1..Len(log) : Known(m, "listener") \/ Coming(m, Len(stream))
    BY <1>8 DEF Ordered, Covered, Attached
  <2>5. Flowing'
    <3> SUFFICES ASSUME NEW n \in 1..Len(stream'), NEW m \in 1..(stream'[n].msg - 1)
        PROVE  Known(m, "listener")' \/ Coming(m, n - 1)'
      BY DEF Flowing
    <3>1. CASE n \in 1..Len(stream)
      <4>1. Known(m, "listener") \/ Coming(m, n - 1)
        BY <3>1, <2>2 DEF Ordered, Covered, Flowing
      <4> QED BY <3>1, <4>1, <1>6, <2>2, <2>3
    <3>2. CASE n = Len(stream) + 1
      <4>1. m \in 1..Len(log)
        BY <3>2, <2>1, <2>2, Numbers
      <4> QED BY <3>2, <4>1, <1>6, <2>2, <2>3, <2>4
    <3> QED BY <3>1, <3>2, <2>2
  <2>6. Attached'
    <3> SUFFICES ASSUME NEW m \in 1..Len(log')
        PROVE  Known(m, "listener")' \/ \E k \in 1..Len(stream') : stream'[k].msg = m
      BY DEF Attached, Coming
    <3>1. CASE m \in 1..Len(log)
      <4>1. Known(m, "listener") \/ \E k \in 1..Len(stream) : stream[k].msg = m
        BY <3>1, <2>4 DEF Coming
      <4> QED BY <4>1, <1>6, <2>2
    <3>2. CASE m = Len(log) + 1
      BY <3>2, <2>1, <2>2
    <3> QED BY <3>1, <3>2, <1>2, Numbers
  <2> QED BY <1>4, <1>5, <2>5, <2>6 DEF Ordered, Covered
<1> QED BY <1>7, <1>8

LEMMA RestartOrdered ==
    ASSUME Quiet, Typed, Typed', Ordered, NEW j \in Jobs, Restart(j)
    PROVE  Ordered'
<1>1. /\ UNCHANGED <<log, inbox, cursor, since>>
      /\ at' = [at EXCEPT ![j] = "start"]
      /\ todo' = [todo EXCEPT ![j] = {}]
      /\ submits' = submits \ SubmitsOf(j)
  BY DEF Restart
<1>2. at'[j] = "start" /\ \A i \in Jobs : i # j => at'[i] = at[i]
  BY <1>1 DEF Typed, Control
<1>3. todo'[j] = {} /\ \A i \in Jobs : i # j => todo'[i] = todo[i]
  BY <1>1 DEF Typed, Carried
<1>4. \A m : \A i \in Jobs : i # j => (Known(m, i)' <=> Known(m, i))
  BY <1>1 DEF Known, SubmitsOf
<1>5. Prefix' /\ Calls'
  BY <1>1 DEF Ordered, Prefix, Calls
<1>6. Pending'
  BY <1>3, <1>4 DEF Ordered, Covered, Pending, Waiting
<1>7. CASE j = "listener"
  <2>1. conn' = FALSE /\ stream' = <<>>
    BY <1>7 DEF Restart
  <2> QED BY <1>2, <1>5, <1>6, <1>7, <2>1
        DEF Ordered, Covered, Flowing, Attached, Handed, Detached
<1>8. CASE j # "listener"
  <2>1. UNCHANGED <<conn, stream>>
    BY <1>8 DEF Restart
  <2>2. at'["listener"] = at["listener"] /\ todo'["listener"] = todo["listener"]
    BY <1>2, <1>3, <1>8 DEF Jobs
  <2>3. \A m : Known(m, "listener")' <=> Known(m, "listener")
    BY <1>4, <1>8 DEF Jobs
  <2>4. Flowing' /\ Attached'
    BY <1>1, <2>1, <2>3 DEF Ordered, Covered, Flowing, Attached, Coming
  <2>5. Handed' /\ Detached'
    BY <1>1, <2>1, <2>2, <2>3 DEF Ordered, Covered, Handed, Detached, Waiting
  <2> QED BY <1>5, <1>6, <2>4, <2>5 DEF Ordered, Covered
<1> QED BY <1>7, <1>8

LEMMA CrashOrdered ==
    ASSUME Quiet, Typed, Ordered, Crash
    PROVE  Ordered'
<1>1. UNCHANGED <<log, inbox, cursor, since>>
  BY DEF Crash
<1>2. /\ \A j \in Jobs : at'[j] = "start" /\ todo'[j] = {}
      /\ submits' = {} /\ conn' = FALSE /\ stream' = <<>>
  BY DEF Crash
<1>3. Prefix' /\ Calls'
  BY <1>1, <1>2 DEF Ordered, Prefix, Calls
<1> QED BY <1>2, <1>3
      DEF Ordered, Covered, Pending, Flowing, Attached, Handed, Detached, Jobs

\* When a job has submitted all of its backfill, all of it is in the inbox.
LEMMA SocketOrdered ==
    ASSUME Quiet, Typed, Typed', Ordered, Drop \/ Resume \/ Resend \/ Connect \/ SweepOver
    PROVE  Ordered'
<1> USE DEF Ordered, Covered
<1>1. CASE Drop
  <2>1. /\ conn' = FALSE
        /\ UNCHANGED <<log, stream, inbox, cursor, at, since, todo, submits>>
    BY <1>1 DEF Drop
  <2>2. Prefix' /\ Calls'
    BY <2>1 DEF Prefix, Calls
  <2>3. Pending' /\ Flowing' /\ Handed'
    BY <2>1 DEF Pending, Flowing, Handed, Known, Waiting, Coming, SubmitsOf
  <2> QED BY <2>1, <2>2, <2>3 DEF Attached, Detached
<1>2. CASE Resume \/ Resend
  BY <1>2 DEF Resume, Resend, Quiet
<1>3. CASE Connect
  <2>1. /\ conn' = TRUE /\ at' = [at EXCEPT !["listener"] = "live"]
        /\ UNCHANGED <<log, stream, inbox, cursor, since, todo, submits>>
        /\ at["listener"] = "backfill" /\ todo["listener"] = {}
        /\ SubmitsOf("listener") = {}
    BY <1>3 DEF Connect, BackfillDone
  <2>2. at'["listener"] = "live"
    BY <2>1 DEF Typed, Control, Jobs
  <2>3. \A m \in 1..Len(log) : m <= Len(inbox)
    BY <2>1 DEF Handed, Known, Waiting
  <2>4. Prefix' /\ Calls'
    BY <2>1 DEF Prefix, Calls
  <2>5. Pending' /\ Flowing'
    BY <2>1 DEF Pending, Flowing, Known, Waiting, Coming, SubmitsOf
  <2>6. Attached'
    BY <2>1, <2>3 DEF Attached, Known
  <2> QED BY <2>2, <2>4, <2>5, <2>6 DEF Handed, Detached
<1>4. CASE SweepOver
  <2>1. /\ at' = [at EXCEPT !["reconciler"] = "start"]
        /\ UNCHANGED <<log, conn, stream, inbox, cursor, since, todo, submits>>
    BY <1>4 DEF SweepOver
  <2>2. at'["listener"] = at["listener"]
    BY <2>1 DEF Typed, Control, Jobs
  <2>3. Prefix' /\ Calls'
    BY <2>1 DEF Prefix, Calls
  <2>4. Pending' /\ Flowing' /\ Attached'
    BY <2>1 DEF Pending, Flowing, Attached, Known, Waiting, Coming, SubmitsOf
  <2>5. Handed' /\ Detached'
    BY <2>1, <2>2 DEF Handed, Detached, Known, Waiting, SubmitsOf
  <2> QED BY <2>3, <2>4, <2>5
<1> QED BY <1>1, <1>2, <1>3, <1>4

\* A call a job may start: the event brings the next post at most, and the job
\* has no other call.
LEMMA SubmitOrdered ==
    ASSUME Quiet, Typed, Prefix, Calls, NEW j \in Jobs, NEW ev \in FromLog(log),
           Submit(j, ev), SubmitsOf(j) = {}, ev.msg <= Len(inbox) + 1,
           inbox' = inbox
    PROVE  /\ Calls'
           /\ \A m : \A i \in Jobs : Known(m, i) => Known(m, i)'
           /\ Known(ev.msg, j)'
<1> DEFINE new == [by |-> j, ev |-> ev, step |-> "enqueue"]
<1>1. submits' = submits \cup {new}
  BY DEF Submit
<1>2. \A s \in submits : s.by # j
  BY DEF SubmitsOf
<1>3. Calls'
  <2>1. \A s, t \in submits' : s.by = t.by => s = t
    BY <1>1, <1>2 DEF Calls
  <2>2. \A s \in submits' : /\ s.ev.msg <= Len(inbox) + 1
                            /\ s.step # "enqueue" => s.ev.msg <= Len(inbox)
    BY <1>1 DEF Calls
  <2> QED BY <2>1, <2>2 DEF Calls
<1>4. \A m : \A i \in Jobs : Known(m, i) => Known(m, i)'
  BY <1>1 DEF Known, SubmitsOf
<1>5. Known(ev.msg, j)'
  <2>1. new \in SubmitsOf(j)' /\ new.ev.msg = ev.msg
    BY <1>1 DEF SubmitsOf
  <2> HIDE DEF new
  <2> QED BY <2>1 DEF Known
<1> QED BY <1>3, <1>4, <1>5

LEMMA ReceiveOrdered ==
    ASSUME Quiet, Typed, Typed', Ordered, Receive
    PROVE  Ordered'
<1> USE DEF Ordered, Covered
<1>1. /\ at["listener"] = "live" /\ SubmitsOf("listener") = {}
      /\ stream # <<>> /\ Submit("listener", Head(stream)) /\ stream' = Tail(stream)
      /\ UNCHANGED <<log, conn, inbox, cursor, at, since, todo>>
  BY DEF Receive, Quiet
<1>2. stream \in Seq(FromLog(log))
  BY DEF Typed, Carried
<1>3. PICK ev \in FromLog(log) :
          ev = stream[1] /\ ev = Head(stream)
  BY <1>1, <1>2, HeadTailProperties, EmptySeq
<1>4. /\ Len(stream) \in Nat \ {0} /\ Len(stream') = Len(stream) - 1
      /\ \A n \in 1..Len(stream') : stream'[n] = stream[n + 1]
  BY <1>1, <1>2, HeadTailProperties, EmptySeq
<1>5. ev.msg <= Len(inbox) + 1
  <2>1. ev.msg \in 1..Len(log)
    BY QuietEvent DEF Typed
  <2>2. \A m \in 1..(ev.msg - 1) : m <= Len(inbox)
    BY <1>1, <1>3, <1>4 DEF Flowing, Known, Coming
  <2> QED BY <2>1, <2>2, Numbers
<1>6. /\ Calls'
      /\ \A m : \A i \in Jobs : Known(m, i) => Known(m, i)'
      /\ Known(ev.msg, "listener")'
  BY <1>1, <1>3, <1>5, SubmitOrdered DEF Jobs
<1>7. \A m : Known(m, "listener") => Known(m, "listener")'
  BY <1>6 DEF Jobs
<1>8. Prefix'
  BY <1>1 DEF Prefix
<1>9. Pending' /\ Handed' /\ Detached'
  BY <1>1, <1>6 DEF Pending, Handed, Detached, Waiting
<1>10. Flowing'
  <2> SUFFICES ASSUME NEW n \in 1..Len(stream'), NEW m \in 1..(stream'[n].msg - 1)
      PROVE  Known(m, "listener")' \/ \E k \in 1..(n - 1) : stream'[k].msg = m
    BY DEF Flowing, Coming
  <2>1. n + 1 \in 1..Len(stream) /\ stream'[n] = stream[n + 1]
    BY <1>4
  <2>2. Known(m, "listener") \/ \E k \in 1..n : stream[k].msg = m
    <3>1. Known(m, "listener") \/ Coming(m, (n + 1) - 1)
      BY <2>1 DEF Flowing
    <3>2. (n + 1) - 1 = n
      OBVIOUS
    <3> QED BY <3>1, <3>2 DEF Coming
  <2>3. ASSUME NEW k \in 1..n, stream[k].msg = m
        PROVE  Known(m, "listener")' \/ \E i \in 1..(n - 1) : stream'[i].msg = m
    <3>1. CASE k = 1
      BY <3>1, <2>3, <1>3, <1>6
    <3>2. CASE k # 1
      <4>1. k - 1 \in 1..(n - 1) /\ stream'[k - 1] = stream[k]
        BY <3>2, <1>4
      <4> QED BY <4>1, <2>3
    <3> QED BY <3>1, <3>2
  <2> QED BY <1>7, <2>2, <2>3
<1>11. Attached'
  <2> SUFFICES ASSUME conn, NEW m \in 1..Len(log)
      PROVE  Known(m, "listener")' \/ \E k \in 1..Len(stream') : stream'[k].msg = m
    BY <1>1 DEF Attached, Coming
  <2>1. Known(m, "listener") \/ \E k \in 1..Len(stream) : stream[k].msg = m
    BY DEF Attached, Coming
  <2>2. ASSUME NEW k \in 1..Len(stream), stream[k].msg = m
        PROVE  Known(m, "listener")' \/ \E i \in 1..Len(stream') : stream'[i].msg = m
    <3>1. CASE k = 1
      BY <3>1, <2>2, <1>3, <1>6
    <3>2. CASE k # 1
      <4>1. k - 1 \in 1..Len(stream') /\ stream'[k - 1] = stream[k]
        BY <3>2, <1>4
      <4> QED BY <4>1, <2>2
    <3> QED BY <3>1, <3>2
  <2> QED BY <1>7, <2>1, <2>2
<1> QED BY <1>6, <1>8, <1>9, <1>10, <1>11

\* What Mattermost answers in this setting.
LEMMA QuietBackfill ==
    ASSUME Quiet, Logged, NEW n \in Nat
    PROVE  /\ \A ev \in Backfill(log, n) : ev.msg \in (n + 1)..Len(log)
           /\ \A m \in (n + 1)..Len(log) : \E ev \in Backfill(log, n) : ev.msg = m
<1>1. \A i \in 1..Len(log) : log[i].msg = i
  BY DEF Quiet, Logged
<1>2. Updates(log) = 1..Len(log)
  BY <1>1, LogFacts DEF Updates
<1>3. Backfill(log, n) =
        {Created(log[i].msg, i, <<"created", log[i].msg, i>>) :
            i \in {k \in 1..Len(log) : k > n}}
  BY <1>2 DEF Quiet, Backfill, MattermostBackfill
<1>4. \A i \in 1..Len(log) :
          Created(log[i].msg, i, <<"created", log[i].msg, i>>).msg = i
  BY <1>1 DEF Created
<1>5. Len(log) \in Nat
  BY LogFacts
<1>6. ASSUME NEW m \in (n + 1)..Len(log)
      PROVE  \E ev \in Backfill(log, n) : ev.msg = m
  <2>1. m \in {k \in 1..Len(log) : k > n}
    BY <1>5
  <2>2. Created(log[m].msg, m, <<"created", log[m].msg, m>>) \in Backfill(log, n)
    BY <1>3, <2>1
  <2> QED BY <1>4, <2>1, <2>2
<1>7. ASSUME NEW ev \in Backfill(log, n)
      PROVE  ev.msg \in (n + 1)..Len(log)
  <2>1. PICK i \in 1..Len(log) :
            i > n /\ ev = Created(log[i].msg, i, <<"created", log[i].msg, i>>)
    BY <1>3
  <2>2. ev.msg = i
    BY <1>4, <2>1
  <2> QED BY <1>5, <2>1, <2>2
<1> QED BY <1>6, <1>7

LEMMA FetchOrdered ==
    ASSUME Quiet, Typed, Typed', Ordered, NEW j \in Jobs, Fetch(j)
    PROVE  Ordered'
<1> USE DEF Ordered, Covered
<1>1. /\ at["listener"] = "live" \/ (~conn /\ stream = <<>>)
      /\ at[j] = "fetch"
      /\ todo' = [todo EXCEPT ![j] = Backfill(log, since[j])]
      /\ at' = [at EXCEPT ![j] = "backfill"]
      /\ UNCHANGED <<log, conn, stream, inbox, cursor, since, submits>>
  BY DEF Fetch, Detached
<1>2. PICK n \in 0..Len(inbox) : n = since[j]
  BY DEF Prefix
<1>3. n \in Nat
  BY <1>2, Numbers
<1>4. /\ todo'[j] = Backfill(log, n)
      /\ \A i \in Jobs : i # j => todo'[i] = todo[i]
  BY <1>1, <1>2 DEF Typed, Carried
<1>5. /\ at'[j] = "backfill"
      /\ \A i \in Jobs : i # j => at'[i] = at[i]
  BY <1>1 DEF Typed, Control
<1>6. \A m : \A i \in Jobs : Known(m, i)' <=> Known(m, i)
  BY <1>1 DEF Known, SubmitsOf
<1>7. \A m \in 1..Len(log) : Known(m, j)' \/ Waiting(m, j)'
  <2> TAKE m \in 1..Len(log)
  <2>1. CASE m <= n
    <3>1. m <= Len(inbox)
      BY <1>2, <2>1, Numbers
    <3> QED BY <1>6, <3>1 DEF Known
  <2>2. CASE m > n
    <3>1. m \in (n + 1)..Len(log)
      BY <1>3, <2>2, Numbers
    <3>2. \E ev \in todo'[j] : ev.msg = m
      BY <1>3, <1>4, <3>1, QuietBackfill DEF Typed
    <3> QED BY <3>2 DEF Waiting
  <2> QED BY <1>3, <2>1, <2>2
<1>8. Prefix' /\ Calls'
  BY <1>1 DEF Prefix, Calls
<1>9. Pending'
  <2> SUFFICES ASSUME NEW i \in Jobs, NEW ev \in todo'[i], NEW m \in 1..(ev.msg - 1)
      PROVE  Known(m, i)' \/ Waiting(m, i)'
    BY DEF Pending
  <2>1. CASE i = j
    <3>1. ev.msg \in (n + 1)..Len(log)
      BY <1>3, <1>4, <2>1, QuietBackfill DEF Typed
    <3>2. m \in 1..Len(log)
      BY <1>3, <3>1, Numbers
    <3> QED BY <1>7, <2>1, <3>2
  <2>2. CASE i # j
    BY <1>4, <1>6, <2>2 DEF Pending, Waiting
  <2> QED BY <2>1, <2>2
<1>10. Flowing' /\ Attached'
  BY <1>1, <1>6 DEF Flowing, Attached, Coming, Jobs
<1>11. Handed'
  <2>1. CASE j = "listener"
    BY <1>1, <1>7, <2>1 DEF Handed
  <2>2. CASE j # "listener"
    BY <1>1, <1>4, <1>5, <1>6, <2>2 DEF Handed, Waiting, Jobs
  <2> QED BY <2>1, <2>2
<1>12. Detached'
  <2>1. CASE j = "listener"
    BY <1>1, <2>1 DEF Detached
  <2>2. CASE j # "listener"
    BY <1>1, <1>5, <2>2 DEF Detached, Jobs
  <2> QED BY <2>1, <2>2
<1> QED BY <1>8, <1>9, <1>10, <1>11, <1>12

LEMMA SubmitNextOrdered ==
    ASSUME Quiet, Typed, Typed', Ordered, NEW j \in Jobs, SubmitNext(j)
    PROVE  Ordered'
<1> USE DEF Ordered, Covered
<1>1. /\ SubmitsOf(j) = {}
      /\ UNCHANGED <<log, conn, stream, inbox, cursor, at, since>>
  BY DEF SubmitNext
<1>2. PICK ev \in todo[j] :
          /\ \A other \in todo[j] : ev.msg <= other.msg
          /\ Submit(j, ev)
          /\ todo' = [todo EXCEPT ![j] = @ \ {ev}]
  BY DEF SubmitNext
<1>3. ev \in FromLog(log) /\ ev.msg \in 1..Len(log)
  BY <1>2, Numbers DEF Typed, Carried
<1>4. /\ todo'[j] = todo[j] \ {ev}
      /\ \A i \in Jobs : i # j => todo'[i] = todo[i]
  BY <1>2 DEF Typed, Carried
<1>5. ev.msg <= Len(inbox) + 1
  <2>1. \A m \in 1..(ev.msg - 1) : m <= Len(inbox)
    <3> SUFFICES ASSUME NEW m \in 1..(ev.msg - 1) PROVE m <= Len(inbox)
      OBVIOUS
    <3>1. Known(m, j) \/ Waiting(m, j)
      BY <1>2 DEF Pending
    <3>2. ~Waiting(m, j)
      BY <1>2, <1>3, Numbers DEF Waiting
    <3> QED BY <1>1, <3>1, <3>2 DEF Known
  <2> QED BY <1>3, <2>1, Numbers
<1>6. /\ Calls'
      /\ \A m : \A i \in Jobs : Known(m, i) => Known(m, i)'
      /\ Known(ev.msg, j)'
  BY <1>1, <1>2, <1>3, <1>5, SubmitOrdered
<1>7. \A m : \A i \in Jobs :
          Known(m, i) \/ Waiting(m, i) => Known(m, i)' \/ Waiting(m, i)'
  <2> SUFFICES ASSUME NEW m, NEW i \in Jobs, Waiting(m, i)
      PROVE  Known(m, i)' \/ Waiting(m, i)'
    BY <1>6
  <2>1. CASE i = j
    <3>1. PICK other \in todo[j] : other.msg = m
      BY <2>1 DEF Waiting
    <3>2. CASE other = ev
      BY <1>6, <2>1, <3>1, <3>2
    <3>3. CASE other # ev
      BY <1>4, <2>1, <3>1, <3>3 DEF Waiting
    <3> QED BY <3>2, <3>3
  <2>2. CASE i # j
    BY <1>4, <2>2 DEF Waiting
  <2> QED BY <2>1, <2>2
<1>8. Prefix'
  BY <1>1 DEF Prefix
<1>9. Pending'
  <2>1. \A i \in Jobs : todo'[i] \subseteq todo[i]
    BY <1>4
  <2> QED BY <1>7, <2>1 DEF Pending
<1>10. Flowing' /\ Attached' /\ Handed' /\ Detached'
  <2>1. "listener" \in Jobs
    BY DEF Jobs
  <2>2. Flowing' /\ Attached'
    BY <1>1, <1>6, <2>1 DEF Flowing, Attached, Coming
  <2>3. Handed'
    BY <1>1, <1>7, <2>1 DEF Handed
  <2> QED BY <1>1, <2>2, <2>3 DEF Detached
<1> QED BY <1>6, <1>8, <1>9, <1>10

LEMMA ReadOrdered ==
    ASSUME Quiet, Typed, Typed', Ordered, NEW j \in Jobs, ReadSince(j) \/ FetchError(j)
    PROVE  Ordered'
<1> USE DEF Ordered, Covered
<1>1. /\ at' = [at EXCEPT ![j] = "fetch"] \/ at' = [at EXCEPT ![j] = "start"]
      /\ since' = [since EXCEPT ![j] = cursor] \/ since' = since
      /\ at[j] \in {"start", "fetch"}
      /\ UNCHANGED <<log, conn, stream, inbox, cursor, todo, submits>>
  <2>1. cursor # NoCursor
    BY Numbers DEF Prefix, NoCursor
  <2> QED BY <2>1 DEF ReadSince, FetchError
<1>2. /\ at'[j] \notin {"backfill", "live"}
      /\ \A i \in Jobs : i # j => at'[i] = at[i]
  BY <1>1 DEF Typed, Control
<1>3. \A i \in Jobs : since'[i] \in 0..Len(inbox)
  <2>1. cursor \in 0..Len(inbox)
    BY Numbers DEF Prefix
  <2> QED BY <1>1, <2>1 DEF Prefix, Typed, Control
<1>4. Prefix' /\ Calls'
  BY <1>1, <1>3 DEF Prefix, Calls
<1>5. Pending' /\ Flowing' /\ Attached'
  BY <1>1 DEF Pending, Flowing, Attached, Known, Waiting, Coming, SubmitsOf
<1>6. Handed' /\ Detached'
  <2>1. CASE j = "listener"
    BY <1>1, <1>2, <2>1 DEF Handed, Detached
  <2>2. CASE j # "listener"
    BY <1>1, <1>2, <2>2 DEF Handed, Detached, Known, Waiting, SubmitsOf, Jobs
  <2> QED BY <2>1, <2>2
<1> QED BY <1>4, <1>5, <1>6

\* A call that moves on, or ends, once its post is in the inbox.
LEMMA GoneOn ==
    ASSUME Quiet, Typed, Typed', Calls, NEW s \in submits, NEW step \in Steps,
           Len(inbox) <= Len(inbox'), s.ev.msg <= Len(inbox'),
           submits' = submits \ {s} \/ Goto(s, step)
    PROVE  /\ Calls'
           /\ \A j \in Jobs : \A m \in Nat : Known(m, j) => Known(m, j)'
<1> DEFINE t == [s EXCEPT !.step = step]
<1>1. t.by = s.by /\ t.ev = s.ev /\ t.step = step
  BY DEF Typed, Carried
<1>2. \A u \in submits' : (u \in submits /\ u # s) \/ u = t
  BY DEF Goto
<1>3. \A u \in submits : u = s \/ u \in submits'
  BY DEF Goto
<1> HIDE DEF t
<1>4. Len(inbox) \in Nat /\ Len(inbox') \in Nat
  BY DEF Typed, Carried
<1>5. Calls'
  <2>1. \A u, v \in submits' : u.by = v.by => u = v
    BY <1>1, <1>2 DEF Calls
  <2>2. \A u \in submits' : /\ u.ev.msg <= Len(inbox') + 1
                            /\ u.step # "enqueue" => u.ev.msg <= Len(inbox')
    <3> TAKE u \in submits'
    <3>1. CASE u = t
      BY <1>1, <1>4, <3>1, Numbers
    <3>2. CASE u \in submits
      BY <1>4, <3>2, Numbers DEF Calls
    <3> QED BY <1>2, <3>1, <3>2
  <2> QED BY <2>1, <2>2 DEF Calls
<1>6. ASSUME NEW j \in Jobs, NEW m \in Nat, Known(m, j)
      PROVE  Known(m, j)'
  <2>1. \A u \in SubmitsOf(j) : \/ u.ev.msg <= Len(inbox')
                                \/ \E v \in SubmitsOf(j)' : v.ev.msg = u.ev.msg
    BY <1>3 DEF SubmitsOf
  <2> QED BY <1>4, <1>6, <2>1, KnownKept
<1> QED BY <1>5, <1>6

LEMMA EnqueueOrdered ==
    ASSUME Quiet, Typed, Typed', Ordered, NEW s \in submits, Enqueue(s)
    PROVE  Ordered'
<1> USE DEF Ordered
<1>1. /\ s.step = "enqueue" /\ Goto(s, "read")
      /\ inbox' = IF s.ev.key \in Keys THEN inbox ELSE Append(inbox, s.ev)
      /\ UNCHANGED <<log, conn, stream, cursor, at, since, todo>>
  BY DEF Enqueue
<1>2. /\ inbox \in Seq(FromLog(log)) /\ DOMAIN inbox = 1..Len(inbox)
      /\ \A n \in 1..Len(inbox) : inbox[n] \in FromLog(log)
      /\ s.ev \in FromLog(log) /\ s.ev.msg \in 1..Len(log)
  BY CallTyped, Numbers DEF Typed, Carried
<1>3. s.ev.msg <= Len(inbox) + 1
  BY DEF Calls
<1>4. Prefix' /\ Len(inbox) <= Len(inbox') /\ s.ev.msg <= Len(inbox')
  <2>1. CASE s.ev.key \in Keys
    <3>1. PICK n \in 1..Len(inbox) : inbox[n].key = s.ev.key
      BY <1>2, <2>1 DEF Keys
    <3>2. inbox[n].msg = s.ev.msg
      BY <1>2, <3>1, SameEvent DEF Typed
    <3>3. s.ev.msg <= Len(inbox)
      BY <3>2, Numbers DEF Prefix
    <3> QED BY <1>1, <2>1, <3>3, Numbers DEF Prefix
  <2>2. CASE s.ev.key \notin Keys
    <3>1. ~(s.ev.msg <= Len(inbox))
      <4> SUFFICES ASSUME s.ev.msg <= Len(inbox) PROVE FALSE
        OBVIOUS
      <4>1. s.ev.msg \in 1..Len(inbox)
        BY <1>2, Numbers
      <4>2. inbox[s.ev.msg].msg = s.ev.msg
        BY <4>1 DEF Prefix
      <4>3. inbox[s.ev.msg] = s.ev
        BY <1>2, <4>1, <4>2, SameEvent DEF Typed
      <4> QED BY <1>2, <2>2, <4>1, <4>3 DEF Keys
    <3>2. s.ev.msg = Len(inbox) + 1
      BY <1>2, <1>3, <3>1, Numbers
    <3>3. /\ Len(inbox') = Len(inbox) + 1
          /\ \A n \in 1..Len(inbox) : inbox'[n] = inbox[n]
          /\ inbox'[Len(inbox) + 1] = s.ev
      BY <1>1, <1>2, <2>2, AppendProperties
    <3>4. Len(inbox') \in 1..Len(log')
      BY <1>1, <1>2, <3>2, <3>3
    <3>5. \A n \in 1..Len(inbox') : inbox'[n].msg = n
      BY <3>2, <3>3, Numbers DEF Prefix
    <3>6. cursor' \in 1..Len(inbox') /\ \A j \in Jobs : since'[j] \in 0..Len(inbox')
      BY <1>1, <3>3, Numbers DEF Prefix
    <3> QED BY <3>2, <3>3, <3>4, <3>5, <3>6, Numbers DEF Prefix
  <2> QED BY <2>1, <2>2
<1>5. /\ Calls'
      /\ \A j \in Jobs : \A m \in Nat : Known(m, j) => Known(m, j)'
  BY <1>1, <1>4, GoneOn DEF Steps
<1> QED BY <1>1, <1>4, <1>5, CoveredKept

LEMMA AdvanceOrdered ==
    ASSUME Quiet, Typed, Typed', Ordered, NEW s \in submits,
           ReadCursor(s) \/ WriteCursor(s)
    PROVE  Ordered'
<1> USE DEF Ordered
<1>1. /\ s.step # "enqueue"
      /\ submits' = submits \ {s} \/ Goto(s, "write")
      /\ cursor' = cursor \/ cursor' = s.ev.pos
      /\ UNCHANGED <<log, conn, stream, inbox, at, since, todo>>
  BY DEF ReadCursor, WriteCursor
<1>2. s.ev.msg <= Len(inbox) /\ s.ev.pos = s.ev.msg /\ s.ev.msg \in 1..Len(log)
  BY <1>1, Numbers DEF Calls
<1>3. Prefix'
  BY <1>1, <1>2, Numbers DEF Prefix
<1>4. /\ Calls'
      /\ \A j \in Jobs : \A m \in Nat : Known(m, j) => Known(m, j)'
  BY <1>1, <1>2, GoneOn, Numbers DEF Steps
<1> QED BY <1>1, <1>3, <1>4, CoveredKept

LEMMA OrderedStep ==
    ASSUME Quiet, Typed, Typed', Ordered, [Next]_vars
    PROVE  Ordered'
<1>1. CASE Post \/ Edit
  BY <1>1, ChangeOrdered
<1>2. CASE Drop \/ Resume \/ Resend \/ Connect \/ SweepOver
  BY <1>2, SocketOrdered
<1>3. CASE Receive
  BY <1>3, ReceiveOrdered
<1>4. CASE ListenEnds
  <2>1. Restart("listener")
    BY <1>4 DEF ListenEnds
  <2> QED BY <2>1, RestartOrdered DEF Jobs
<1>5. CASE Crash
  BY <1>5, CrashOrdered
<1>6. ASSUME NEW j \in Jobs, ReadSince(j) \/ Fetch(j) \/ FetchError(j) \/ SubmitNext(j)
      PROVE  Ordered'
  BY <1>6, ReadOrdered, FetchOrdered, SubmitNextOrdered
<1>7. ASSUME NEW s \in submits,
             Enqueue(s) \/ ReadCursor(s) \/ WriteCursor(s) \/ SubmitError(s)
      PROVE  Ordered'
  <2>1. CASE Enqueue(s)
    BY <2>1, EnqueueOrdered
  <2>2. CASE ReadCursor(s) \/ WriteCursor(s)
    BY <2>2, AdvanceOrdered
  <2>3. CASE SubmitError(s)
    <3>1. Restart(s.by) /\ s.by \in Jobs
      BY <2>3, CallTyped DEF SubmitError, Quiet
    <3> QED BY <3>1, RestartOrdered
  <2> QED BY <1>7, <2>1, <2>2, <2>3
<1>8. CASE UNCHANGED vars
  <2>1. Prefix' /\ Calls'
    BY <1>8 DEF vars, Ordered, Prefix, Calls
  <2>2. \A j \in Jobs : \A m \in Nat : Known(m, j) => Known(m, j)'
    BY <1>8 DEF vars, Known, SubmitsOf
  <2>3. UNCHANGED <<log, conn, stream, at, todo>>
    BY <1>8 DEF vars
  <2>4. Covered'
    BY <2>2, <2>3, CoveredKept DEF Ordered
  <2> QED BY <2>1, <2>4 DEF Ordered
<1> QED BY <1>1, <1>2, <1>3, <1>4, <1>5, <1>6, <1>7, <1>8, StepCases

LEMMA OrderedAlways == ASSUME Quiet PROVE Spec => []Ordered
<1>1. Init => Ordered
  BY OrderedInit
<1>2. Typed /\ Typed' /\ Ordered /\ [Next]_vars => Ordered'
  BY OrderedStep
<1> QED BY <1>1, <1>2, TypedAlways, PTL DEF Spec

LEMMA OrderedGives ==
    ASSUME Quiet, Typed, Ordered
    PROVE  NoLoss /\ AcceptedInOrder
<1>1. /\ \A n \in 1..Len(inbox) : inbox[n].msg = n /\ inbox[n].kind = "created"
      /\ DOMAIN inbox = 1..Len(inbox) /\ cursor \in 1..Len(inbox)
  <2>1. /\ \A n \in 1..Len(inbox) : inbox[n] \in FromLog(log)
        /\ DOMAIN inbox = 1..Len(inbox)
    BY DEF Typed, Carried
  <2>2. \A ev \in FromLog(log) : ev.kind = "created"
    BY QuietEvent DEF Typed, Created
  <2> QED BY <2>1, <2>2 DEF Ordered, Prefix
<1>2. NoLoss
  <2> SUFFICES ASSUME NEW m \in Posts(log), m <= cursor PROVE Creates(m) # {}
    BY DEF NoLoss, Accepted
  <2>1. m \in 1..Len(inbox)
    BY <1>1, Numbers, LogFacts DEF Typed
  <2> QED BY <1>1, <2>1 DEF Creates
<1>3. AcceptedInOrder
  BY <1>1, Numbers DEF AcceptedInOrder
<1> QED BY <1>2, <1>3

\* On Mattermost, from a stored cursor, with users who are quiet during the
\* handover and do not edit: however often listener and process fail, and
\* wherever, no post is passed by the cursor without being taken in.
THEOREM NothingPassed ==
    ASSUME Quiet
    PROVE  Spec => []NoLoss
BY OrderedAlways, TypedAlways, OrderedGives, PTL

\* In that setting listener and reconciler, which submit side by side, take
\* posts in as they were made.
THEOREM InOrder ==
    ASSUME Quiet
    PROVE  Spec => []AcceptedInOrder
BY OrderedAlways, TypedAlways, OrderedGives, PTL

=============================================================================
