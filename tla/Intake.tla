------------------------------- MODULE Intake -------------------------------
(***************************************************************************)
(* How the messages of one bridged channel get into the inbox: the         *)
(* listener and the reconciler of app.py, Pipeline.submit, the cursors     *)
(* (store/cursors.py) and the intake half of the two adapters: listen(),   *)
(* backfill() and the keys and cursors _message_event gives to events.     *)
(*                                                                         *)
(* The platform is a log of changes; the place of a change in it stands    *)
(* for its time stamp.  It pushes changes over the socket while the socket *)
(* is open and answers a backfill request from what is in the log then.    *)
(***************************************************************************)
EXTENDS Naturals, Sequences

CONSTANTS
    Platform,    \* "mattermost" or "slack"
    FirstRun,    \* TRUE: no cursor is stored yet
    QuietHandover, \* TRUE: nothing is posted between backfill and connection
    Edits,       \* TRUE: posts are edited
    Replies,     \* TRUE: posts may be thread replies
    MaxLog,      \* bound: changes in the log
    MaxFaults,   \* bound: crashes, lost connections, failed submits
    MaxResends   \* bound: redeliveries by Slack

ASSUME PlatformAssumption == Platform \in {"mattermost", "slack"}
ASSUME SwitchesAssumption ==
    {FirstRun, QuietHandover, Edits, Replies} \subseteq BOOLEAN
ASSUME BoundsAssumption == {MaxLog, MaxFaults, MaxResends} \subseteq Nat

VARIABLES
    log,       \* changes [msg, parent] of the channel, at the platform
    conn,      \* is the socket open, seen from the platform
    stream,    \* events pushed and not yet read
    inbox,     \* rows of event_inbox, in id order
    cursor,    \* sync_cursors.cursor_value, 0 when there is none
    at,        \* where the listener and the reconciler are
    since,     \* the cursor each has read
    todo,      \* backfilled events each has yet to submit, in the order of posts
    submits,   \* calls of submit() in progress
    origin,    \* history: length of the log when the bridge first listened
    faults,
    resends

vars == <<log, conn, stream, inbox, cursor, at, since, todo, submits, origin,
          faults, resends>>

Jobs == {"listener", "reconciler"}
NoCursor == 0

-----------------------------------------------------------------------------
(* Events.  A change whose msg is its own place in the log posts msg; any  *)
(* other edits it.  A post with parent 0 is not a reply.                   *)

Posts(l) == {i \in DOMAIN l : l[i].msg = i}

\* The changes after which their posts have not changed again: a post's
\* update_at is the place of its last change.
Updates(l) == {i \in DOMAIN l : \A j \in DOMAIN l : j > i => l[j].msg # l[i].msg}

KindOf(l, i) == IF l[i].msg = i THEN "created" ELSE "edited"

\* The event of a stream message: on Mattermost kind and update_at make the
\* key, Slack sends an id of its own.  Deletions are left out.
MattermostEvent(l, i) ==
    [kind |-> KindOf(l, i), msg |-> l[i].msg, pos |-> i,
     key |-> <<KindOf(l, i), l[i].msg, i>>]

SlackEvent(l, i) ==
    [kind |-> KindOf(l, i), msg |-> l[i].msg, pos |-> i, key |-> <<"event", i, 0>>]

StreamEvent(l, i) ==
    IF Platform = "slack" THEN SlackEvent(l, i) ELSE MattermostEvent(l, i)

Created(m, place, key) == [kind |-> "created", msg |-> m, pos |-> place, key |-> key]

\* Mattermost: GET posts?since= finds what was created or updated since; every
\* post becomes a message_created event.
MattermostBackfill(l, from) ==
    {Created(l[i].msg, i, <<"created", l[i].msg, i>>) :
        i \in {k \in Updates(l) : k > from}}

\* Slack: conversations.history finds top-level posts after the cursor, and
\* conversations.replies is asked for the replies to those.  The event has no
\* event_id, so the key is made from ts.
SlackBackfill(l, from) ==
    LET tops == {m \in Posts(l) : l[m].parent = 0 /\ m > from}
    IN {Created(m, m, <<"created", m, 0>>) :
           m \in tops \cup {k \in Posts(l) : l[k].parent \in tops}}

Backfill(l, from) ==
    IF Platform = "slack" THEN SlackBackfill(l, from)
    ELSE MattermostBackfill(l, from)

-----------------------------------------------------------------------------
FirstPost == [msg |-> 1, parent |-> 0]

\* A new deployment, or one that has taken in the channel's first post.
Init ==
    /\ IF FirstRun
         THEN log = <<>> /\ inbox = <<>> /\ cursor = NoCursor
         ELSE /\ log = <<FirstPost>>
              /\ inbox = <<StreamEvent(log, 1)>>
              /\ cursor = 1
    /\ conn = FALSE
    /\ stream = <<>>
    /\ at = [j \in Jobs |-> "start"]
    /\ since = [j \in Jobs |-> NoCursor]
    /\ todo = [j \in Jobs |-> {}]
    /\ submits = {}
    /\ origin = IF FirstRun THEN MaxLog ELSE 0
    /\ faults = 0
    /\ resends = 0

Keys == {inbox[n].key : n \in DOMAIN inbox}
SubmitsOf(j) == {s \in submits : s.by = j}
Submit(j, ev) ==
    submits' = submits \cup {[by |-> j, ev |-> ev, step |-> "enqueue"]}

Fault == faults < MaxFaults /\ faults' = faults + 1

-----------------------------------------------------------------------------
(* The platform.                                                           *)

\* Between the answer to the listener's backfill request and its connection.
InHandover == at["listener"] = "backfill"

\* A user posts or edits; an open socket pushes the change.
Change(msg, parent) ==
    /\ Len(log) < MaxLog
    /\ QuietHandover => ~InHandover
    /\ log' = Append(log, [msg |-> msg, parent |-> parent])
    /\ stream' = IF conn THEN Append(stream, StreamEvent(log', Len(log')))
                 ELSE stream
    /\ UNCHANGED <<conn, inbox, cursor, at, since, todo, submits, origin,
                   faults, resends>>

Post ==
    \/ Change(Len(log) + 1, 0)
    \/ /\ Replies
       /\ \E m \in Posts(log) : log[m].parent = 0 /\ Change(Len(log) + 1, m)

Edit ==
    /\ Edits
    /\ \E m \in Posts(log) : Change(m, log[m].parent)

\* The connection breaks.
Drop ==
    /\ conn
    /\ Fault
    /\ conn' = FALSE
    /\ UNCHANGED <<log, stream, inbox, cursor, at, since, todo, submits,
                   origin, resends>>

\* slack_sdk reconnects by itself; listen() does not notice.
Resume ==
    /\ Platform = "slack"
    /\ at["listener"] = "live"
    /\ ~conn
    /\ conn' = TRUE
    /\ UNCHANGED <<log, stream, inbox, cursor, at, since, todo, submits,
                   origin, faults, resends>>

\* Slack pushes an event a second time, with the same event_id.
Resend ==
    /\ Platform = "slack"
    /\ conn
    /\ resends < MaxResends
    /\ resends' = resends + 1
    /\ \E i \in DOMAIN log :
         /\ StreamEvent(log, i).key \in Keys
         /\ stream' = Append(stream, StreamEvent(log, i))
    /\ UNCHANGED <<log, conn, inbox, cursor, at, since, todo, submits, origin,
                   faults>>

-----------------------------------------------------------------------------
(* The two jobs.  Both read the cursor, ask for the backfill after it and  *)
(* submit what they got, one event at a time.                              *)

\* Mutant of ReadSince: the listener attaches to the stream at once.
ReadSince_NoBackfill(j) ==
    /\ at[j] = "start"
    /\ since' = [since EXCEPT ![j] = cursor]
    /\ IF j = "listener" THEN at' = [at EXCEPT ![j] = "backfill"]
       ELSE cursor # NoCursor /\ at' = [at EXCEPT ![j] = "fetch"]
    /\ UNCHANGED <<log, conn, stream, inbox, cursor, todo, submits, origin,
                   faults, resends>>

\* cursors.get(); without a cursor nothing is fetched.
ReadSince(j) ==
    /\ at[j] = "start"
    /\ since' = [since EXCEPT ![j] = cursor]
    /\ IF cursor # NoCursor
         THEN at' = [at EXCEPT ![j] = "fetch"]
         ELSE j = "listener" /\ at' = [at EXCEPT ![j] = "backfill"]
    /\ UNCHANGED <<log, conn, stream, inbox, cursor, todo, submits, origin,
                   faults, resends>>

\* adapter.backfill(channel, since) is answered.
Fetch(j) ==
    /\ at[j] = "fetch"
    /\ todo' = [todo EXCEPT ![j] = Backfill(log, since[j])]
    /\ at' = [at EXCEPT ![j] = "backfill"]
    /\ UNCHANGED <<log, conn, stream, inbox, cursor, since, submits, origin,
                   faults, resends>>

\* The request fails: the listener raises and is restarted, the reconciler
\* goes on with its next round.
FetchError(j) ==
    /\ at[j] = "fetch"
    /\ Fault
    /\ at' = [at EXCEPT ![j] = "start"]
    /\ UNCHANGED <<log, conn, stream, inbox, cursor, since, todo, submits,
                   origin, resends>>

\* Mutant of SubmitNext: Mattermost's answer, newest first, is not reversed.
SubmitNext_NewestFirst(j) ==
    /\ at[j] = "backfill"
    /\ SubmitsOf(j) = {}
    /\ \E ev \in todo[j] :
         /\ \A other \in todo[j] : other.msg <= ev.msg
         /\ Submit(j, ev)
         /\ todo' = [todo EXCEPT ![j] = @ \ {ev}]
    /\ UNCHANGED <<log, conn, stream, inbox, cursor, at, since, origin,
                   faults, resends>>

\* The next backfilled event, in the order of creation, once submit() has
\* returned for the last one.
SubmitNext(j) ==
    /\ at[j] = "backfill"
    /\ SubmitsOf(j) = {}
    /\ \E ev \in todo[j] :
         /\ \A other \in todo[j] : ev.msg <= other.msg
         /\ Submit(j, ev)
         /\ todo' = [todo EXCEPT ![j] = @ \ {ev}]
    /\ UNCHANGED <<log, conn, stream, inbox, cursor, at, since, origin,
                   faults, resends>>

BackfillDone(j) == at[j] = "backfill" /\ todo[j] = {} /\ SubmitsOf(j) = {}

\* Mutant of SweepOver: the reconciler ends after one round.
SweepOver_Once ==
    /\ BackfillDone("reconciler")
    /\ at' = [at EXCEPT !["reconciler"] = "live"]
    /\ UNCHANGED <<log, conn, stream, inbox, cursor, since, todo, submits,
                   origin, faults, resends>>

\* The reconciler sleeps until its next round.
SweepOver ==
    /\ BackfillDone("reconciler")
    /\ at' = [at EXCEPT !["reconciler"] = "start"]
    /\ UNCHANGED <<log, conn, stream, inbox, cursor, since, todo, submits,
                   origin, faults, resends>>

\* adapter.listen(): the socket is opened.
Connect ==
    /\ BackfillDone("listener")
    /\ conn' = TRUE
    /\ at' = [at EXCEPT !["listener"] = "live"]
    /\ origin' = IF Len(log) < origin THEN Len(log) ELSE origin
    /\ UNCHANGED <<log, stream, inbox, cursor, since, todo, submits, faults,
                   resends>>

\* An event is read from the socket and handed to submit().  The Mattermost
\* loop awaits submit(); slack_sdk starts a task for every envelope.
Receive ==
    /\ at["listener"] = "live"
    /\ stream # <<>>
    /\ Platform = "mattermost" => SubmitsOf("listener") = {}
    /\ Submit("listener", Head(stream))
    /\ stream' = Tail(stream)
    /\ UNCHANGED <<log, conn, inbox, cursor, at, since, todo, origin, faults,
                   resends>>

\* Job j ends: what it had in memory is gone, and the supervisor starts it
\* again.  With the listener its socket is closed.
Restart(j) ==
    /\ at' = [at EXCEPT ![j] = "start"]
    /\ todo' = [todo EXCEPT ![j] = {}]
    /\ submits' = submits \ SubmitsOf(j)
    /\ IF j = "listener" THEN conn' = FALSE /\ stream' = <<>>
       ELSE UNCHANGED <<conn, stream>>
    /\ UNCHANGED <<log, inbox, cursor, since, origin>>

\* The Mattermost listener finds its connection closed and raises; events
\* still in the socket's buffer may or may not have been read before.
ListenEnds ==
    /\ Platform = "mattermost"
    /\ at["listener"] = "live"
    /\ ~conn
    /\ SubmitsOf("listener") = {}
    /\ Restart("listener")
    /\ UNCHANGED <<faults, resends>>

Crash ==
    /\ Fault
    /\ at' = [j \in Jobs |-> "start"]
    /\ todo' = [j \in Jobs |-> {}]
    /\ submits' = {}
    /\ conn' = FALSE
    /\ stream' = <<>>
    /\ UNCHANGED <<log, inbox, cursor, since, origin, resends>>

-----------------------------------------------------------------------------
(* submit(): INSERT with the key, then advance() in two statements.        *)

Goto(s, step) == submits' = (submits \ {s}) \cup {[s EXCEPT !.step = step]}

\* Mutant of Enqueue: submit() returns at a duplicate, before advance().
Enqueue_NotAdvanced(s) ==
    /\ s.step = "enqueue"
    /\ IF s.ev.key \in Keys
         THEN submits' = submits \ {s} /\ UNCHANGED inbox
         ELSE Goto(s, "read") /\ inbox' = Append(inbox, s.ev)
    /\ UNCHANGED <<log, conn, stream, cursor, at, since, todo, origin, faults,
                   resends>>

\* Another one: an error of the INSERT is taken for a duplicate.
Enqueue_ErrorIgnored(s) ==
    /\ s.step = "enqueue"
    /\ \/ inbox' = IF s.ev.key \in Keys THEN inbox ELSE Append(inbox, s.ev)
       \/ UNCHANGED inbox
    /\ Goto(s, "read")
    /\ UNCHANGED <<log, conn, stream, cursor, at, since, todo, origin, faults,
                   resends>>

Enqueue(s) ==
    /\ s.step = "enqueue"
    /\ inbox' = IF s.ev.key \in Keys THEN inbox ELSE Append(inbox, s.ev)
    /\ Goto(s, "read")
    /\ UNCHANGED <<log, conn, stream, cursor, at, since, todo, origin, faults,
                   resends>>

\* advance(): the stored value is read and compared.
ReadCursor(s) ==
    /\ s.step = "read"
    /\ IF cursor # NoCursor /\ s.ev.pos <= cursor
         THEN submits' = submits \ {s}
         ELSE Goto(s, "write")
    /\ UNCHANGED <<log, conn, stream, inbox, cursor, at, since, todo, origin,
                   faults, resends>>

\* Mutant of WriteCursor: the position after the event is stored.
WriteCursor_PastEnd(s) ==
    /\ s.step = "write"
    /\ cursor' = s.ev.pos + 1
    /\ submits' = submits \ {s}
    /\ UNCHANGED <<log, conn, stream, inbox, at, since, todo, origin, faults,
                   resends>>

WriteCursor(s) ==
    /\ s.step = "write"
    /\ cursor' = s.ev.pos
    /\ submits' = submits \ {s}
    /\ UNCHANGED <<log, conn, stream, inbox, at, since, todo, origin, faults,
                   resends>>

\* Mutant of SubmitError: every caller swallows the error.
SubmitError_Swallowed(s) ==
    /\ Fault
    /\ submits' = submits \ {s}
    /\ UNCHANGED <<log, conn, stream, inbox, cursor, at, since, todo, origin,
                   resends>>

\* A statement of submit() fails and submit() raises into the job that called
\* it.  slack_sdk has acknowledged the envelope and only logs the error.
SubmitError(s) ==
    /\ Fault
    /\ UNCHANGED resends
    /\ IF Platform = "slack" /\ s.by = "listener" /\ at["listener"] = "live"
         THEN /\ submits' = submits \ {s}
              /\ UNCHANGED <<log, conn, stream, inbox, cursor, at, since,
                             todo, origin>>
         ELSE Restart(s.by)

-----------------------------------------------------------------------------
JobStep(j) ==
    \/ ReadSince(j)
    \/ Fetch(j)
    \/ SubmitNext(j)
    \/ \E s \in SubmitsOf(j) : Enqueue(s) \/ ReadCursor(s) \/ WriteCursor(s)

ListenerStep == JobStep("listener") \/ Connect \/ Receive \/ ListenEnds
ReconcilerStep == JobStep("reconciler") \/ SweepOver

Next ==
    \/ Post \/ Edit \/ Drop \/ Resume \/ Resend
    \/ ListenerStep \/ ReconcilerStep \/ Crash
    \/ \E j \in Jobs : FetchError(j)
    \/ \E s \in submits : SubmitError(s)

\* Awaited calls return, sleeps end, the supervisor restarts its jobs.
Fairness == WF_vars(ListenerStep) /\ WF_vars(ReconcilerStep) /\ WF_vars(Resume)

Spec == Init /\ [][Next]_vars
FairSpec == Spec /\ Fairness

-----------------------------------------------------------------------------
(* Properties.                                                             *)

IsEvent(ev) ==
    /\ ev.kind \in {"created", "edited"}
    /\ ev.msg \in Posts(log)
    /\ ev.pos \in DOMAIN log

\* Types; the cursor never points behind the end of the log.
TypeOK ==
    /\ \A i \in DOMAIN log : log[i].msg \in 1..i /\ log[i].parent \in 0..(i - 1)
    /\ conn \in BOOLEAN
    /\ \A n \in DOMAIN stream : IsEvent(stream[n])
    /\ \A n \in DOMAIN inbox : IsEvent(inbox[n])
    /\ cursor \in 0..Len(log)
    /\ at \in [Jobs -> {"start", "fetch", "backfill", "live"}]
    /\ since \in [Jobs -> 0..Len(log)]
    /\ \A j \in Jobs : \A ev \in todo[j] : IsEvent(ev)
    /\ \A s \in submits :
         s.by \in Jobs /\ IsEvent(s.ev) /\ s.step \in {"enqueue", "read", "write"}
    /\ faults \in 0..MaxFaults /\ resends \in 0..MaxResends

Creates(m) == {n \in DOMAIN inbox : inbox[n].kind = "created" /\ inbox[n].msg = m}
Accepted(m) == Creates(m) # {}

\* A post the cursor has passed is in the inbox: nothing will ask for it
\* again, so it would be lost for good (NFR-2, cursors.py:3-7).
NoLoss ==
    \A m \in Posts(log) : origin < m /\ m <= cursor => Accepted(m)

\* The cursor is at an event that is in the inbox, wherever submit() was cut
\* off and however many calls of it move the cursor (worker.py:70-73): nothing
\* is skipped that was not stored first.
CursorStored ==
    cursor = NoCursor \/ \E n \in DOMAIN inbox : inbox[n].pos = cursor

\* Posts enter the inbox in the order in which they were made, though two
\* jobs submit them: this is what the FIFO of the workers starts from.
AcceptedInOrder ==
    \A n, k \in DOMAIN inbox :
        (n < k /\ inbox[n].kind = "created" /\ inbox[k].kind = "created")
        => inbox[n].msg <= inbox[k].msg

\* Every post made since the bridge first listened gets into the inbox.
EveryPostArrives ==
    \A m \in 1..MaxLog :
        (m \in Posts(log) /\ origin < m) ~> Accepted(m)

\* The cursor comes to rest at the end of the posts, whatever moved it back or
\* was cut off before it moved it on: no sweep fetches the same posts for ever
\* (cursors.py:46-50).
SweepsRunDry == <>[](Backfill(log, cursor) = {})

\* The sweep brings every post that the stream has missed and the cursor has
\* not passed (app.py:192-199, slack.py:516-523).
MissedIsSwept ==
    \A m \in 1..MaxLog :
        (m \in Posts(log) /\ origin < m) ~> (Accepted(m) \/ m <= cursor)
=============================================================================
