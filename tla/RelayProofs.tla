---------------------------- MODULE RelayProofs ----------------------------
(* Theorems about Relay and Revival, and their proofs.                     *)
EXTENDS Revival, SequenceTheorems, TLAPS

-----------------------------------------------------------------------------
(* Types.                                                                  *)

MessageType ==
    [chan : Channels, bot : BOOLEAN, parent : Nat, text : Nat, copyOf : Nat,
     gone : BOOLEAN]
EventType == [kind : {"created", "edited", "deleted"}, msg : Nat, text : Nat]
LinkType == [msg : Nat, group : Nat, origin : BOOLEAN]

\* Where a handler is while it still has a target to serve.
Serving == {"record", "parent", "mapped", "send", "link", "find", "lookup", "apply"}

\* Where it has the group of the message it copies.
Creating == {"parent", "mapped", "send", "link"}

WorkType ==
    [at : Serving \cup {"idle", "guard", "cleanup"}, todo : Seq(Channels),
     group : Nat, parent : Nat, id : Nat]

Typed ==
    /\ msgs \in Seq(MessageType)
    /\ links \subseteq LinkType
    /\ groups \in Nat
    /\ queue \in [Channels -> Seq(EventType)]
    /\ tries \in [Channels -> Nat]
    /\ dead \subseteq EventType
    /\ w \in [Channels -> WorkType]

LEMMA TargetsType == \A c \in Channels : Targets(c) \in Seq(Channels)
<1> SUFFICES ASSUME NEW c \in Channels PROVE Targets(c) \in Seq(Channels)
  OBVIOUS
<1> DEFINE p == Place(c)
<1>1. Endpoints \in Seq(Channels)
  BY EndpointsAssumption DEF Channels
<1>2. p \in 1..Len(Endpoints)
  <2>1. \E i \in DOMAIN Endpoints : Endpoints[i] = c
    BY DEF Channels, Range
  <2> QED BY <2>1, <1>1, LenProperties DEF Place
<1>3. SubSeq(Endpoints, 1, p - 1) \in Seq(Channels)
  <2>1. \A i \in 1..(p - 1) : Endpoints[i] \in Channels
    BY <1>1, <1>2, ElementOfSeq
  <2> QED BY <2>1, <1>1, <1>2, SubSeqProperties
<1>4. SubSeq(Endpoints, p + 1, Len(Endpoints)) \in Seq(Channels)
  <2>1. \A i \in (p + 1)..Len(Endpoints) : Endpoints[i] \in Channels
    BY <1>1, <1>2, ElementOfSeq
  <2> QED BY <2>1, <1>1, <1>2, SubSeqProperties
<1> QED BY <1>3, <1>4, ConcatProperties DEF Targets, RemoveAt

-----------------------------------------------------------------------------
(* The invariant behind the types.                                         *)

\* Messages hang below and are made from earlier ones.
Threads ==
    \A m \in 1..Len(msgs) :
        /\ msgs[m].parent \in 0..(m - 1)
        /\ msgs[m].parent # 0 => msgs[msgs[m].parent].chan = msgs[m].chan
        /\ msgs[m].copyOf \in 0..(m - 1)

\* An event in the queue of a channel is about a message of that channel.
Known ==
    /\ \A c \in Channels : \A i \in 1..Len(queue[c]) :
         /\ queue[c][i].msg \in 1..Len(msgs)
         /\ msgs[queue[c][i].msg].chan = c
    /\ \A ev \in dead : ev.msg \in 1..Len(msgs)

Rows ==
    /\ \A l \in links : l.msg \in 1..Len(msgs) /\ l.group \in 1..groups
    /\ \A l, k \in links : l.msg = k.msg => l = k

\* The local variables of the handler of c.
Handler(c) ==
    /\ w[c] # Idle => queue[c] # <<>>
    /\ w[c].at \in Serving => w[c].todo # <<>>
    /\ w[c].at = "send" /\ w[c].parent # 0 =>
         w[c].parent \in 1..Len(msgs) /\ msgs[w[c].parent].chan = Target(c)
    /\ w[c].at \in {"link", "apply"} =>
         w[c].id \in 1..Len(msgs) /\ msgs[w[c].id].chan = Target(c)
    /\ w[c].at \in Creating => w[c].group \in 1..groups

Structure ==
    Typed /\ Threads /\ Known /\ Rows /\ \A c \in Channels : Handler(c)

LEMMA StructureTypes == Structure => TypeOK
<1> SUFFICES ASSUME Structure PROVE TypeOK
  OBVIOUS
<1>1. DOMAIN msgs = 1..Len(msgs)
  BY LenProperties DEF Structure, Typed
<1>2. \A m \in DOMAIN msgs : msgs[m].chan \in Channels
  <2>1. \A m \in DOMAIN msgs : msgs[m] \in MessageType
    BY <1>1, ElementOfSeq DEF Structure, Typed
  <2> QED BY <2>1 DEF MessageType
<1>3. \A c \in Channels : \A ev \in Range(queue[c]) \cup dead :
        ev.kind \in {"created", "edited", "deleted"} /\ ev.msg \in DOMAIN msgs
  <2> SUFFICES ASSUME NEW c \in Channels, NEW ev \in Range(queue[c]) \cup dead
               PROVE  ev \in EventType /\ ev.msg \in DOMAIN msgs
    BY DEF EventType
  <2>1. CASE ev \in dead
    BY <2>1, <1>1 DEF Structure, Typed, Known
  <2>2. CASE ev \in Range(queue[c])
    <3>1. queue[c] \in Seq(EventType)
      BY DEF Structure, Typed
    <3>2. PICK i \in 1..Len(queue[c]) : ev = queue[c][i]
      BY <2>2, <3>1, LenProperties DEF Range
    <3> QED BY <3>1, <3>2, <1>1, ElementOfSeq DEF Structure, Known
  <2> QED BY <2>1, <2>2
<1> QED
  BY <1>1, <1>2, <1>3 DEF Structure, Typed, Threads, Rows, Handler, TypeOK

-----------------------------------------------------------------------------
(* Steps change messages, queues and workers in few ways.                  *)

\* Messages are only added; what a proof uses of the old ones is kept.
Grown ==
    /\ msgs' \in Seq(MessageType)
    /\ Len(msgs') >= Len(msgs)
    /\ \A m \in 1..Len(msgs) :
         /\ msgs'[m].chan = msgs[m].chan
         /\ msgs'[m].bot = msgs[m].bot
         /\ msgs'[m].parent = msgs[m].parent
         /\ msgs'[m].copyOf = msgs[m].copyOf

\* The queues q are the present ones with known events appended.
Extends(q) ==
    /\ q \in [Channels -> Seq(EventType)]
    /\ \A c \in Channels :
         /\ Len(q[c]) >= Len(queue[c])
         /\ \A i \in 1..Len(queue[c]) : q[c][i] = queue[c][i]
         /\ \A i \in 1..Len(q[c]) :
              q[c][i].msg \in 1..Len(msgs') /\ msgs'[q[c][i].msg].chan = c

\* The first event of c is still the first one.
SameHead(c) == queue[c] # <<>> => queue'[c] # <<>> /\ Ev(c)' = Ev(c)

\* Only the worker of c moves, unless the process dies; it is done with its event
\* or keeps it.
Moves(c) ==
    /\ \A d \in Channels \ {c} : (w'[d] = w[d] \/ w'[d] = Idle) /\ SameHead(d)
    /\ w'[c] = Idle \/ SameHead(c)

LEMMA SameMessages ==
    ASSUME Structure, UNCHANGED msgs
    PROVE  Grown
BY DEF Structure, Typed, Grown

LEMMA QueueKept ==
    ASSUME Structure, Grown
    PROVE  Extends(queue)
<1>1. \A c \in Channels : queue[c] \in Seq(EventType) /\ Len(queue[c]) \in Nat
  BY LenProperties DEF Structure, Typed
<1>2. Len(msgs) \in Nat /\ Len(msgs') \in Nat
  BY LenProperties DEF Structure, Typed, Grown
<1>3. \A c \in Channels : \A i \in 1..Len(queue[c]) :
        queue[c][i].msg \in 1..Len(msgs') /\ msgs'[queue[c][i].msg].chan = c
  BY SMTT(40), <1>2 DEF Structure, Known, Grown
<1>4. queue \in [Channels -> Seq(EventType)]
  BY DEF Structure, Typed
<1> QED BY <1>1, <1>3, <1>4 DEF Extends

LEMMA QueueTold ==
    ASSUME Structure, Grown, NEW c \in Channels, NEW ev \in EventType,
           ev.msg \in 1..Len(msgs'), msgs'[ev.msg].chan = c
    PROVE  Extends(Tell(queue, c, ev))
<1> DEFINE q == Tell(queue, c, ev)
<1>1. Extends(queue)
  BY QueueKept
<1>2. /\ q \in [Channels -> Seq(EventType)]
      /\ Len(q[c]) = Len(queue[c]) + 1
      /\ \A i \in 1..Len(queue[c]) : q[c][i] = queue[c][i]
      /\ q[c][Len(queue[c]) + 1] = ev
      /\ \A d \in Channels \ {c} : q[d] = queue[d]
  BY <1>1, AppendProperties DEF Extends, Tell
<1>3. \A d \in Channels : Len(queue[d]) \in Nat
  BY <1>1, LenProperties DEF Extends
<1>4. \A d \in Channels \ {c} :
        /\ Len(q[d]) >= Len(queue[d])
        /\ \A i \in 1..Len(queue[d]) : q[d][i] = queue[d][i]
        /\ \A i \in 1..Len(q[d]) :
             q[d][i].msg \in 1..Len(msgs') /\ msgs'[q[d][i].msg].chan = d
  BY <1>1, <1>2, <1>3 DEF Extends
<1>5. /\ Len(q[c]) >= Len(queue[c])
      /\ \A i \in 1..Len(q[c]) :
           q[c][i].msg \in 1..Len(msgs') /\ msgs'[q[c][i].msg].chan = c
  BY <1>1, <1>2, <1>3 DEF Extends
<1> HIDE DEF q
<1> QED BY <1>2, <1>4, <1>5 DEF Extends, q

\* An event that goes on, is retried or stays where it is.
LEMMA Continues ==
    ASSUME Structure, Extends(queue')
    PROVE  \A c \in Channels : SameHead(c)
<1> SUFFICES ASSUME NEW c \in Channels, queue[c] # <<>>
             PROVE  queue'[c] # <<>> /\ Head(queue'[c]) = Head(queue[c])
  BY DEF SameHead, Ev
<1>1. queue[c] \in Seq(EventType) /\ queue'[c] \in Seq(EventType)
  BY DEF Structure, Typed, Extends
<1>2. Len(queue[c]) \in Nat \ {0} /\ Len(queue'[c]) \in Nat
  BY <1>1, EmptySeq, LenProperties
<1>3. Len(queue'[c]) > 0 /\ queue'[c][1] = queue[c][1]
  BY <1>2 DEF Extends
<1> QED BY <1>1, <1>2, <1>3, HeadTailProperties

LEMMA Settles ==
    ASSUME Structure, Grown, NEW c \in Channels, NEW q, Extends(q),
           queue[c] # <<>>, Finish(c, q)
    PROVE  /\ queue' \in [Channels -> Seq(EventType)]
           /\ \A d \in Channels : \A i \in 1..Len(queue'[d]) :
                queue'[d][i].msg \in 1..Len(msgs') /\ msgs'[queue'[d][i].msg].chan = d
           /\ Moves(c)
           /\ w'[c] = Idle
<1>1. \A d \in Channels : queue[d] \in Seq(EventType) /\ q[d] \in Seq(EventType)
  BY DEF Structure, Typed, Extends
<1>2. q[c] # <<>>
  BY <1>1, EmptySeq, LenProperties DEF Extends
<1>3. /\ Tail(q[c]) \in Seq(EventType)
      /\ Len(Tail(q[c])) = Len(q[c]) - 1
      /\ \A i \in 1..Len(Tail(q[c])) : Tail(q[c])[i] = q[c][i + 1]
  BY <1>1, <1>2, HeadTailProperties
<1>4. queue' = [q EXCEPT ![c] = Tail(@)] /\ w' = [w EXCEPT ![c] = Idle]
  BY DEF Finish, Do
<1>5. queue' \in [Channels -> Seq(EventType)]
  BY <1>3, <1>4 DEF Extends
<1>6. \A d \in Channels \ {c} : queue'[d] = q[d]
  BY <1>4 DEF Extends
<1>7. \A d \in Channels \ {c} : SameHead(d)
  <2> SUFFICES ASSUME NEW d \in Channels \ {c}, queue[d] # <<>>
               PROVE  q[d] # <<>> /\ Head(q[d]) = Head(queue[d])
    BY <1>6 DEF SameHead, Ev
  <2>1. Len(queue[d]) \in Nat \ {0} /\ Len(q[d]) \in Nat
    BY <1>1, EmptySeq, LenProperties
  <2>2. Len(q[d]) > 0 /\ q[d][1] = queue[d][1]
    BY <2>1 DEF Extends
  <2> QED BY <1>1, <2>1, <2>2, HeadTailProperties
<1>8. \A i \in 1..Len(queue'[c]) :
        queue'[c][i].msg \in 1..Len(msgs') /\ msgs'[queue'[c][i].msg].chan = c
  <2>1. Len(q[c]) \in Nat
    BY <1>1, LenProperties
  <2>2. queue'[c] = Tail(q[c])
    BY <1>4 DEF Extends
  <2> QED BY <1>3, <2>1, <2>2 DEF Extends
<1>9. \A d \in Channels \ {c} : w'[d] = w[d]
  BY <1>4 DEF Structure, Typed
<1>10. w'[c] = Idle
  BY <1>4 DEF Structure, Typed
<1>11. \A d \in Channels : \A i \in 1..Len(queue'[d]) :
         queue'[d][i].msg \in 1..Len(msgs') /\ msgs'[queue'[d][i].msg].chan = d
  <2>1. \A d \in Channels \ {c} : \A i \in 1..Len(queue'[d]) :
          queue'[d][i].msg \in 1..Len(msgs') /\ msgs'[queue'[d][i].msg].chan = d
    BY <1>6 DEF Extends
  <2> QED BY <2>1, <1>8
<1>12. Moves(c)
  BY <1>7, <1>9, <1>10 DEF Moves
<1> QED BY <1>5, <1>10, <1>11, <1>12

LEMMA HeadKnown ==
    ASSUME Structure, NEW c \in Channels, queue[c] # <<>>
    PROVE  Ev(c) \in EventType /\ Ev(c).msg \in 1..Len(msgs)
           /\ msgs[Ev(c).msg].chan = c
<1>1. queue[c] \in Seq(EventType)
  BY DEF Structure, Typed
<1>2. Len(queue[c]) \in Nat \ {0} /\ Head(queue[c]) = queue[c][1]
      /\ Head(queue[c]) \in EventType
  BY <1>1, EmptySeq, HeadTailProperties
<1> QED BY <1>2 DEF Structure, Known, Ev

-----------------------------------------------------------------------------
(* What a step of one worker does to queues, attempts and local variables. *)

WorkerTypes ==
    /\ queue \in [Channels -> Seq(EventType)]
    /\ tries \in [Channels -> Nat]
    /\ dead \subseteq EventType
    /\ w \in [Channels -> WorkType]
    /\ Known

LEMMA IdleType == Idle \in WorkType /\ Idle.at = "idle"
<1>1. <<>> \in Seq(Channels)
  BY EmptySeq
<1> QED BY <1>1 DEF Idle, WorkType

\* The event of c is settled.
LEMMA FinishStep ==
    ASSUME Structure, Grown, NEW c \in Channels, NEW q, Extends(q),
           queue[c] # <<>>, Finish(c, q), dead' \subseteq dead \cup {Ev(c)}
    PROVE  WorkerTypes' /\ Moves(c) /\ w'[c] = Idle
<1>1. /\ queue' \in [Channels -> Seq(EventType)]
      /\ \A d \in Channels : \A i \in 1..Len(queue'[d]) :
           queue'[d][i].msg \in 1..Len(msgs') /\ msgs'[queue'[d][i].msg].chan = d
      /\ Moves(c)
      /\ w'[c] = Idle
  BY Settles
<1>2. tries' \in [Channels -> Nat]
  BY DEF Finish, Structure, Typed
<1>3. w' \in [Channels -> WorkType]
  BY IdleType DEF Finish, Do, Structure, Typed
<1>4. dead' \subseteq EventType /\ \A ev \in dead' : ev.msg \in 1..Len(msgs')
  <2>1. Len(msgs) \in Nat /\ Len(msgs') \in Nat
    BY LenProperties DEF Structure, Typed, Grown
  <2>2. Ev(c) \in EventType /\ Ev(c).msg \in 1..Len(msgs)
    BY HeadKnown
  <2> QED BY <2>1, <2>2 DEF Structure, Typed, Known, Grown
<1> QED BY <1>1, <1>2, <1>3, <1>4 DEF WorkerTypes, Known

\* The handler of c goes on, or starts.
LEMMA DoStep ==
    ASSUME Structure, Grown, NEW c \in Channels, Extends(queue'),
           NEW s \in WorkType, Do(c, s), UNCHANGED dead,
           tries' \in [Channels -> Nat]
    PROVE  WorkerTypes' /\ Moves(c) /\ w'[c] = s
<1>1. w' \in [Channels -> WorkType] /\ w'[c] = s
      /\ \A d \in Channels \ {c} : w'[d] = w[d]
  BY DEF Do, Structure, Typed
<1>2. Moves(c)
  BY <1>1, Continues DEF Moves
<1>3. dead' \subseteq EventType /\ \A ev \in dead' : ev.msg \in 1..Len(msgs')
  <2>1. Len(msgs) \in Nat /\ Len(msgs') \in Nat
    BY LenProperties DEF Structure, Typed, Grown
  <2> QED BY <2>1 DEF Structure, Typed, Known, Grown
<1> QED BY <1>1, <1>2, <1>3 DEF WorkerTypes, Known, Extends

\* The handler of c raises.
LEMMA FailStep ==
    ASSUME Structure, Grown, NEW c \in Channels, NEW q, Extends(q),
           queue[c] # <<>>, NEW retryable, Fail(c, retryable, q)
    PROVE  WorkerTypes' /\ Moves(c) /\ w'[c] = Idle
<1>1. CASE retryable /\ tries[c] + 1 < MaxAttempts
  <2>1. tries' = [tries EXCEPT ![c] = @ + 1] /\ queue' = q /\ Do(c, Idle)
        /\ UNCHANGED dead
    BY <1>1 DEF Fail
  <2>2. tries' \in [Channels -> Nat]
    BY <2>1 DEF Structure, Typed
  <2> QED BY <2>1, <2>2, DoStep, IdleType
<1>2. CASE ~(retryable /\ tries[c] + 1 < MaxAttempts)
  <2>1. Finish(c, q) /\ dead' = dead \cup {Ev(c)}
    BY <1>2 DEF Fail
  <2> QED BY <2>1, FinishStep
<1> QED BY <1>1, <1>2

\* The process dies after a step of c.
LEMMA DieStep ==
    ASSUME Structure, Grown, NEW c \in Channels, NEW q, Extends(q),
           NEW cut, Die(cut, q)
    PROVE  WorkerTypes' /\ Moves(c) /\ w'[c] = Idle
<1>1. /\ queue' = q /\ w' = [d \in Channels |-> Idle] /\ UNCHANGED dead
      /\ tries' = [d \in Channels |-> IF d \in cut THEN tries[d] + 1 ELSE tries[d]]
  BY DEF Die
<1>2. w' \in [Channels -> WorkType] /\ \A d \in Channels : w'[d] = Idle
  BY <1>1, IdleType
<1>3. tries' \in [Channels -> Nat]
  BY <1>1 DEF Structure, Typed
<1>4. Moves(c)
  BY <1>1, <1>2, Continues DEF Moves
<1>5. dead' \subseteq EventType /\ \A ev \in dead' : ev.msg \in 1..Len(msgs')
  <2>1. Len(msgs) \in Nat /\ Len(msgs') \in Nat
    BY LenProperties DEF Structure, Typed, Grown
  <2> QED BY <1>1, <2>1 DEF Structure, Typed, Known, Grown
<1> QED BY <1>1, <1>2, <1>3, <1>4, <1>5 DEF WorkerTypes, Known, Extends

\* The ways a handler of c may end.
Ended(c, q) ==
    \/ Finish(c, q) /\ UNCHANGED dead
    \/ \E retryable \in BOOLEAN : Fail(c, retryable, q)
    \/ \E cut \in SUBSET Channels : Die(cut, q)

LEMMA ReturnEnds ==
    ASSUME NEW c \in Channels, NEW q, Return(c, q)
    PROVE  Ended(c, q)
<1>1. InHand \cup {c} \in SUBSET Channels
  BY DEF InHand
<1> QED BY <1>1 DEF Return, Ended

LEMMA EndedIdle ==
    ASSUME Structure, NEW c \in Channels, NEW q, Ended(c, q)
    PROVE  w'[c] = Idle
BY DEF Ended, Finish, Fail, Die, Do, Structure, Typed

LEMMA EndStep ==
    ASSUME Structure, Grown, NEW c \in Channels, NEW q, Extends(q),
           queue[c] # <<>>, Ended(c, q)
    PROVE  WorkerTypes' /\ Moves(c) /\ w'[c] = Idle
BY FinishStep, FailStep, DieStep DEF Ended

\* The types and Known follow from these lemmas; the rest of the invariant
\* holds for the other handlers because nothing they use has changed.
LEMMA OneHandlerMoves ==
    ASSUME Structure, Grown, NEW c \in Channels, WorkerTypes', Moves(c),
           Threads', links' \subseteq LinkType, groups' \in Nat, groups' >= groups,
           Rows',
           Handler(c)'
    PROVE  Structure'
<1>1. Len(msgs) \in Nat /\ Len(msgs') \in Nat
  BY LenProperties DEF Structure, Typed, Grown
<1>2. ASSUME NEW d \in Channels \ {c} PROVE Handler(d)'
  <2>1. CASE w'[d] = Idle
    BY <2>1, IdleType DEF Handler, Serving, Creating
  <2>2. CASE w'[d] = w[d]
    <3>1. SameHead(d)
      BY DEF Moves
    <3>2. Handler(d)
      BY DEF Structure
    <3>3. groups \in Nat
      BY DEF Structure, Typed
    <3> QED BY <1>1, <2>2, <3>1, <3>2, <3>3 DEF Handler, SameHead, Grown, Target
  <2> QED BY <2>1, <2>2 DEF Moves
<1>3. Typed' /\ Known'
  BY DEF WorkerTypes, Typed, Grown
<1> QED BY <1>2, <1>3 DEF Structure

LEMMA SameLinks ==
    ASSUME Structure, Grown, UNCHANGED <<links, groups>>
    PROVE  links' \subseteq LinkType /\ groups' \in Nat /\ groups' >= groups /\ Rows'
<1>1. Len(msgs) \in Nat /\ Len(msgs') \in Nat
  BY LenProperties DEF Structure, Typed, Grown
<1> QED BY <1>1 DEF Structure, Typed, Rows, Grown

LEMMA MessagesChanged ==
    ASSUME Structure, Grown, Len(msgs') = Len(msgs)
    PROVE  Threads'
<1>1. Len(msgs) \in Nat
  BY LenProperties DEF Structure, Typed
<1>2. \A m \in 1..Len(msgs) : msgs[m].parent # 0 => msgs[m].parent \in 1..Len(msgs)
  BY <1>1 DEF Structure, Threads
<1> QED BY SMTT(40), <1>1, <1>2 DEF Structure, Threads, Grown

\* A step that touches neither messages nor links.
LEMMA OnlyHandler ==
    ASSUME Structure, NEW c \in Channels, UNCHANGED <<msgs, links, groups>>,
           WorkerTypes', Moves(c), Handler(c)'
    PROVE  Structure' /\ Grown /\ Moves(c)
<1>1. Grown
  BY SameMessages
<1>2. Threads'
  BY <1>1, MessagesChanged
<1>3. links' \subseteq LinkType /\ groups' \in Nat /\ groups' >= groups /\ Rows'
  BY <1>1, SameLinks
<1> QED BY <1>1, <1>2, <1>3, OneHandlerMoves

LEMMA IdleHandler ==
    ASSUME NEW c \in Channels, w'[c] = Idle
    PROVE  Handler(c)'
BY IdleType DEF Handler, Serving, Creating

\* The same, when the handler is done with its event or raises.
LEMMA HandlerEnds ==
    ASSUME Structure, NEW c \in Channels, queue[c] # <<>>,
           UNCHANGED <<msgs, links, groups>>, Ended(c, queue)
    PROVE  Structure' /\ Grown /\ Moves(c) /\ w'[c] = Idle
<1>1. Grown /\ Extends(queue)
  BY SameMessages, QueueKept
<1>2. WorkerTypes' /\ Moves(c) /\ w'[c] = Idle
  BY <1>1, EndStep
<1> QED BY <1>2, IdleHandler, OnlyHandler

\* The same, when it goes on in state s.
LEMMA HandlerGoesOn ==
    ASSUME Structure, NEW c \in Channels, queue[c] # <<>>,
           UNCHANGED <<msgs, links, groups, queue, tries, dead>>,
           NEW s \in WorkType, Do(c, s),
           s.at \in Serving => s.todo # <<>>,
           s.at = "send" /\ s.parent # 0 =>
             s.parent \in 1..Len(msgs) /\ msgs[s.parent].chan = Head(s.todo),
           s.at \in {"link", "apply"} =>
             s.id \in 1..Len(msgs) /\ msgs[s.id].chan = Head(s.todo),
           s.at \in Creating => s.group \in 1..groups
    PROVE  Structure' /\ Grown /\ Moves(c) /\ w'[c] = s /\ Ev(c)' = Ev(c)
<1>1. Grown /\ Extends(queue)
  BY SameMessages, QueueKept
<1>2. Extends(queue')
  BY <1>1
<1>3. WorkerTypes' /\ Moves(c) /\ w'[c] = s
  BY <1>1, <1>2, DoStep DEF Structure, Typed
<1>4. Handler(c)'
  BY <1>3 DEF Handler, Target
<1> QED BY <1>3, <1>4, OnlyHandler DEF Ev

LEMMA Busy ==
    ASSUME Structure, NEW c \in Channels, w[c].at # "idle"
    PROVE  /\ w[c] \in WorkType /\ w[c] # Idle /\ queue[c] # <<>>
           /\ Ev(c) \in EventType /\ Ev(c).msg \in 1..Len(msgs)
           /\ msgs[Ev(c).msg].chan = c
<1>1. w[c] # Idle
  BY IdleType
<1>2. queue[c] # <<>> /\ w[c] \in WorkType
  BY <1>1 DEF Structure, Typed, Handler
<1> QED BY <1>1, <1>2, HeadKnown

-----------------------------------------------------------------------------
(* The steps of a handler.                                                 *)

LEMMA BeginStep ==
    ASSUME Structure, NEW c \in Channels, Begin(c)
    PROVE  Structure' /\ Grown /\ Moves(c)
<1>1. queue[c] # <<>> /\ UNCHANGED <<msgs, links, groups>>
  BY DEF Begin
<1>2. CASE SelfKnown /\ msgs[Ev(c).msg].bot
  <2>1. Ended(c, queue)
    BY <1>2, ReturnEnds DEF Begin
  <2> QED BY <1>1, <2>1, HandlerEnds
<1>3. CASE ~(SelfKnown /\ msgs[Ev(c).msg].bot)
  <2> DEFINE s == [Idle EXCEPT !.at = "guard"]
  <2>1. Do(c, s) /\ UNCHANGED <<queue, tries, dead>>
    BY <1>3 DEF Begin
  <2>2. s \in WorkType /\ s.at = "guard"
    BY IdleType DEF WorkType, Idle
  <2> HIDE DEF s
  <2> QED BY <1>1, <2>1, <2>2, HandlerGoesOn DEF Serving, Creating
<1> QED BY <1>2, <1>3

LEMMA GuardStep ==
    ASSUME Structure, NEW c \in Channels, Guard(c)
    PROVE  Structure' /\ Grown /\ Moves(c)
<1>1. w[c].at = "guard" /\ UNCHANGED <<msgs, links, groups>>
  BY DEF Guard
<1>2. w[c] \in WorkType /\ queue[c] # <<>>
  BY <1>1, Busy
<1> DEFINE drop == IsReplica(Ev(c).msg) \/ (msgs[Ev(c).msg].bot /\ ~RelayBots)
                      \/ Targets(c) = <<>>
<1>3. CASE drop
  <2>1. Ended(c, queue)
    BY <1>3, ReturnEnds DEF Guard
  <2> QED BY <1>1, <1>2, <2>1, HandlerEnds
<1>4. CASE ~drop
  <2> DEFINE s == [w[c] EXCEPT
                     !.at = IF Ev(c).kind = "created" THEN "record" ELSE "find",
                     !.todo = Targets(c)]
  <2>1. Do(c, s) /\ UNCHANGED <<queue, tries, dead>>
    BY <1>4 DEF Guard
  <2>2. s \in WorkType /\ s.at \in {"record", "find"} /\ s.todo # <<>>
    BY <1>2, <1>4, TargetsType DEF WorkType, Serving
  <2> HIDE DEF s
  <2> QED BY <1>1, <1>2, <2>1, <2>2, HandlerGoesOn DEF Creating
<1> QED BY <1>3, <1>4

LEMMA GroupOfLinked ==
    ASSUME Structure, NEW m, LinksOf(m) # {}
    PROVE  /\ GroupOf(m) \in Nat /\ GroupOf(m) \in 1..groups
           /\ \E l \in links : l.msg = m /\ GroupOf(m) = l.group
<1>1. \E l \in links : l.msg = m /\ GroupOf(m) = l.group
  BY DEF GroupOf, LinksOf
<1> QED BY <1>1 DEF Structure, Typed, LinkType, Rows

LEMMA FindParentStep ==
    ASSUME Structure, NEW c \in Channels, FindParent(c)
    PROVE  Structure' /\ Grown /\ Moves(c)
<1> DEFINE p == msgs[Ev(c).msg].parent
<1>1. w[c].at = "parent" /\ UNCHANGED <<msgs, links, groups>>
  BY DEF FindParent
<1>2. /\ w[c] \in WorkType /\ queue[c] # <<>> /\ w[c].todo # <<>>
      /\ w[c].group \in 1..groups
  BY <1>1, Busy DEF Structure, Handler, Serving, Creating
<1>3. CASE p = 0
  <2> DEFINE s == [w[c] EXCEPT !.at = "send", !.parent = 0]
  <2>1. Do(c, s) /\ UNCHANGED <<queue, tries, dead>>
    BY <1>3 DEF FindParent
  <2>2. /\ s \in WorkType /\ s.at = "send" /\ s.parent = 0 /\ s.todo # <<>>
        /\ s.group = w[c].group
    BY <1>2 DEF WorkType, Serving
  <2> HIDE DEF s
  <2> QED BY <1>1, <1>2, <2>1, <2>2, HandlerGoesOn
<1>4. CASE p # 0 /\ LinksOf(p) = {}
  <2>1. Ended(c, queue)
    BY <1>4 DEF FindParent, Ended
  <2> QED BY <1>1, <1>2, <2>1, HandlerEnds
<1>5. CASE p # 0 /\ LinksOf(p) # {}
  <2> DEFINE s == [w[c] EXCEPT !.at = "mapped", !.parent = GroupOf(p)]
  <2>1. Do(c, s) /\ UNCHANGED <<queue, tries, dead>>
    BY <1>5 DEF FindParent
  <2>2. GroupOf(p) \in Nat
    BY <1>5, GroupOfLinked
  <2>3. /\ s \in WorkType /\ s.at = "mapped" /\ s.todo # <<>>
        /\ s.group = w[c].group
    BY <1>2, <2>2 DEF WorkType, Serving
  <2> HIDE DEF s
  <2> QED BY <1>1, <1>2, <2>1, <2>3, HandlerGoesOn
<1> QED BY <1>3, <1>4, <1>5

LEMMA Counterparts ==
    ASSUME Structure, NEW g, NEW t, NEW m \in InChannel(g, t)
    PROVE  m \in Nat /\ m \in 1..Len(msgs) /\ msgs[m].chan = t
BY DEF InChannel, Structure, Typed, LinkType, Rows

LEMMA MapParentStep ==
    ASSUME Structure, NEW c \in Channels, MapParent(c)
    PROVE  Structure' /\ Grown /\ Moves(c)
<1> DEFINE found == InChannel(w[c].parent, Target(c))
<1>1. w[c].at = "mapped" /\ UNCHANGED <<msgs, links, groups>>
  BY DEF MapParent
<1>2. /\ w[c] \in WorkType /\ queue[c] # <<>> /\ w[c].todo # <<>>
      /\ w[c].group \in 1..groups
  BY <1>1, Busy DEF Structure, Handler, Serving, Creating
<1>3. CASE found = {}
  <2>1. Ended(c, queue)
    BY <1>3 DEF MapParent, Ended
  <2> QED BY <1>1, <1>2, <2>1, HandlerEnds
<1>4. CASE found # {}
  <2>1. PICK p \in found : Do(c, [w[c] EXCEPT !.at = "send", !.parent = p])
    BY <1>4 DEF MapParent
  <2>2. UNCHANGED <<queue, tries, dead>>
    BY <1>4 DEF MapParent
  <2>3. p \in Nat /\ p \in 1..Len(msgs) /\ msgs[p].chan = Target(c)
    BY Counterparts
  <2> DEFINE s == [w[c] EXCEPT !.at = "send", !.parent = p]
  <2>4. /\ s \in WorkType /\ s.at = "send" /\ s.parent = p /\ s.todo = w[c].todo
        /\ s.group = w[c].group
    BY <1>2, <2>3 DEF WorkType, Serving
  <2> HIDE DEF s
  <2>5. Do(c, s)
    BY <2>1 DEF s
  <2> QED BY <1>1, <1>2, <2>2, <2>3, <2>4, <2>5, HandlerGoesOn DEF Target
<1> QED BY <1>3, <1>4

\* A refused post, and a statement or call that fails without effect.
LEMMA RaiseStep ==
    ASSUME Structure, NEW c \in Channels, SendRefused(c) \/ StepError(c)
    PROVE  Structure' /\ Grown /\ Moves(c) /\ w'[c] = Idle
<1>1. UNCHANGED <<msgs, links, groups>> /\ w[c] # Idle
  BY IdleType DEF SendRefused, StepError
<1>2. Ended(c, queue)
  BY DEF SendRefused, StepError, Verdicts, Ended
<1>3. queue[c] # <<>>
  BY <1>1 DEF Structure, Handler
<1> QED BY <1>1, <1>2, <1>3, HandlerEnds

LEMMA FindGroupStep ==
    ASSUME Structure, NEW c \in Channels, FindGroup(c)
    PROVE  Structure' /\ Grown /\ Moves(c)
<1>1. w[c].at = "find" /\ UNCHANGED <<msgs, links, groups>>
  BY DEF FindGroup
<1>2. w[c] \in WorkType /\ queue[c] # <<>> /\ w[c].todo # <<>>
  BY <1>1, Busy DEF Structure, Handler, Serving
<1>3. CASE LinksOf(Ev(c).msg) = {}
  <2>1. Ended(c, queue)
    BY <1>3, ReturnEnds DEF FindGroup
  <2> QED BY <1>1, <1>2, <2>1, HandlerEnds
<1>4. CASE LinksOf(Ev(c).msg) # {}
  <2> DEFINE s == [w[c] EXCEPT !.at = "lookup", !.group = GroupOf(Ev(c).msg)]
  <2>1. Do(c, s) /\ UNCHANGED <<queue, tries, dead>>
    BY <1>4 DEF FindGroup
  <2>2. GroupOf(Ev(c).msg) \in Nat
    BY <1>4, GroupOfLinked
  <2>3. s \in WorkType /\ s.at = "lookup" /\ s.todo # <<>>
    BY <1>2, <2>2 DEF WorkType, Serving
  <2> HIDE DEF s
  <2> QED BY <1>1, <1>2, <2>1, <2>3, HandlerGoesOn DEF Creating
<1> QED BY <1>3, <1>4

LEMMA TailOfLong ==
    ASSUME NEW S, NEW s \in Seq(S), Len(s) > 1
    PROVE  Tail(s) \in Seq(S) /\ Tail(s) # <<>>
<1>1. Len(s) \in Nat /\ s # <<>>
  BY LenProperties, EmptySeq
<1> DEFINE t == Tail(s)
<1>2. t \in Seq(S) /\ Len(t) = Len(s) - 1
  BY <1>1, HeadTailProperties
<1> HIDE DEF t
<1>3. t # <<>>
  BY <1>1, <1>2
<1> QED BY <1>2, <1>3 DEF t

\* The loop over the targets goes on, or the handler returns.
LEMMA NextTargetStep ==
    ASSUME Structure, Grown, NEW c \in Channels, NEW q, Extends(q),
           w[c].at \in Serving, NEW first \in {"parent", "lookup"},
           first = "parent" => w[c].at \in Creating,
           NextTarget(c, q, first), UNCHANGED groups
    PROVE  /\ WorkerTypes' /\ Moves(c) /\ Handler(c)'
           /\ \/ w'[c] = Idle
              \/ /\ SameHead(c)
                 /\ w'[c].at \in {first, "cleanup"}
                 /\ w'[c].at = "cleanup" => Ev(c).kind = "deleted"
                 /\ w'[c].group = w[c].group
<1>1. w[c] \in WorkType /\ queue[c] # <<>>
  BY Busy DEF Serving
<1>2. CASE Len(w[c].todo) > 1
  <2> DEFINE s == [w[c] EXCEPT !.at = first, !.todo = Tail(@)]
  <2>1. Do(c, s) /\ queue' = q /\ UNCHANGED <<tries, dead>>
    BY <1>2 DEF NextTarget
  <2>2. w[c].todo \in Seq(Channels) /\ w[c].todo # <<>>
    BY <1>1, <1>2, EmptySeq DEF WorkType
  <2>3. Tail(w[c].todo) \in Seq(Channels) /\ Tail(w[c].todo) # <<>>
    BY <1>2, <2>2, TailOfLong
  <2>4. /\ s \in WorkType /\ s.at = first /\ s.todo # <<>>
        /\ s.group = w[c].group
    BY <1>1, <2>3 DEF WorkType, Serving
  <2> HIDE DEF s
  <2>5. WorkerTypes' /\ Moves(c) /\ w'[c] = s
    BY <2>1, <2>4, DoStep DEF Structure, Typed
  <2>6. Handler(c)' /\ SameHead(c)
    BY <1>1, <2>1, <2>4, <2>5, Continues DEF Handler, SameHead, Creating, Structure
  <2> QED BY <2>4, <2>5, <2>6
<1>3. CASE ~(Len(w[c].todo) > 1) /\ Ev(c).kind = "deleted"
  <2> DEFINE s == [w[c] EXCEPT !.at = "cleanup"]
  <2>1. Do(c, s) /\ queue' = q /\ UNCHANGED <<tries, dead>>
    BY <1>3 DEF NextTarget
  <2>2. s \in WorkType /\ s.at = "cleanup" /\ s.group = w[c].group
    BY <1>1 DEF WorkType
  <2> HIDE DEF s
  <2>3. WorkerTypes' /\ Moves(c) /\ w'[c] = s
    BY <2>1, <2>2, DoStep DEF Structure, Typed
  <2>4. Handler(c)' /\ SameHead(c)
    BY <1>1, <2>1, <2>2, <2>3, Continues DEF Handler, SameHead, Serving, Creating
  <2> QED BY <1>3, <2>2, <2>3, <2>4
<1>4. CASE ~(Len(w[c].todo) > 1) /\ Ev(c).kind # "deleted"
  <2>1. Ended(c, q)
    BY <1>4, ReturnEnds DEF NextTarget
  <2> QED BY <1>1, <2>1, EndStep, IdleHandler
<1> QED BY <1>2, <1>3, <1>4

LEMMA TargetType ==
    ASSUME Structure, NEW c \in Channels, w[c].at \in Serving
    PROVE  Target(c) \in Channels
<1>1. w[c].todo \in Seq(Channels) /\ w[c].todo # <<>>
  BY Busy DEF Structure, Handler, Serving, WorkType
<1> QED BY <1>1, HeadTailProperties DEF Target

LEMMA LookupStep ==
    ASSUME Structure, NEW c \in Channels, Lookup(c)
    PROVE  Structure' /\ Grown /\ Moves(c)
<1> DEFINE found == InChannel(w[c].group, Target(c))
<1>1. w[c].at = "lookup" /\ UNCHANGED <<msgs, links, groups>>
  BY DEF Lookup
<1>2. w[c] \in WorkType /\ queue[c] # <<>> /\ w[c].todo # <<>>
  BY <1>1, Busy DEF Structure, Handler, Serving
<1>3. CASE found = {}
  <2>1. NextTarget(c, queue, "lookup")
    BY <1>3 DEF Lookup
  <2>2. Grown /\ Extends(queue)
    BY <1>1, SameMessages, QueueKept
  <2>3. WorkerTypes' /\ Moves(c) /\ Handler(c)'
    BY <1>1, <2>1, <2>2, NextTargetStep DEF Serving
  <2> QED BY <1>1, <2>3, OnlyHandler
<1>4. CASE found # {}
  <2>1. PICK m \in found : Do(c, [w[c] EXCEPT !.at = "apply", !.id = m])
    BY <1>4 DEF Lookup
  <2>2. UNCHANGED <<queue, tries, dead>>
    BY <1>4 DEF Lookup
  <2>3. m \in Nat /\ m \in 1..Len(msgs) /\ msgs[m].chan = Target(c)
    BY Counterparts
  <2> DEFINE s == [w[c] EXCEPT !.at = "apply", !.id = m]
  <2>4. s \in WorkType /\ s.at = "apply" /\ s.id = m /\ s.todo = w[c].todo
    BY <1>2, <2>3 DEF WorkType, Serving
  <2> HIDE DEF s
  <2>5. Do(c, s)
    BY <2>1 DEF s
  <2> QED BY <1>1, <1>2, <2>2, <2>3, <2>4, <2>5, HandlerGoesOn DEF Target, Creating
<1> QED BY <1>3, <1>4

\* A message is added at the end.
LEMMA MessageAdded ==
    ASSUME Structure, NEW m \in MessageType, msgs' = Append(msgs, m),
           m.parent \in 0..Len(msgs), m.copyOf \in 0..Len(msgs),
           m.parent # 0 => msgs[m.parent].chan = m.chan
    PROVE  /\ Grown /\ Threads'
           /\ Len(msgs) \in Nat /\ Len(msgs') = Len(msgs) + 1
           /\ msgs'[Len(msgs) + 1] = m
<1> DEFINE n == Len(msgs)
<1>1. n \in Nat
  BY LenProperties DEF Structure, Typed
<1>2. /\ msgs' \in Seq(MessageType) /\ Len(msgs') = n + 1
      /\ \A i \in 1..n : msgs'[i] = msgs[i]
      /\ msgs'[n + 1] = m
  BY AppendProperties DEF Structure, Typed
<1>3. Threads
  BY DEF Structure
<1> HIDE DEF n
<1>4. Grown
  BY <1>1, <1>2 DEF Grown, n
<1>5. \A i \in 1..n :
        /\ msgs'[i].parent \in 0..(i - 1)
        /\ msgs'[i].parent # 0 => msgs'[msgs'[i].parent].chan = msgs'[i].chan
        /\ msgs'[i].copyOf \in 0..(i - 1)
  BY <1>1, <1>2, <1>3 DEF Threads, n
<1>6. /\ msgs'[n + 1].parent \in 0..n
      /\ msgs'[n + 1].parent # 0 => msgs'[msgs'[n + 1].parent].chan = msgs'[n + 1].chan
      /\ msgs'[n + 1].copyOf \in 0..n
  BY <1>1, <1>2 DEF n
<1>7. Threads'
  <2>1. (n + 1) - 1 = n /\ \A i \in 1..(n + 1) : i \in 1..n \/ i = n + 1
    BY <1>1
  <2>2. Len(msgs') = n + 1
    BY <1>2
  <2> QED BY <1>5, <1>6, <2>1, <2>2 DEF Threads
<1> QED BY <1>1, <1>2, <1>4, <1>7 DEF n

LEMMA PostedMessage ==
    ASSUME Structure, NEW c \in Channels, Posted(c)
    PROVE  /\ Grown /\ Threads'
           /\ Len(msgs) \in Nat /\ Len(msgs') = Len(msgs) + 1
           /\ msgs'[Len(msgs) + 1] =
                Message(Target(c), TRUE, w[c].parent, Ev(c).text, Ev(c).msg)
           /\ Extends(QueueAfterPost(c))
<1> DEFINE m == Message(Target(c), TRUE, w[c].parent, Ev(c).text, Ev(c).msg)
<1>1. w[c].at = "send" /\ msgs' = Append(msgs, m)
  BY DEF Posted
<1>2. /\ Target(c) \in Channels /\ w[c] \in WorkType
      /\ Ev(c) \in EventType /\ Ev(c).msg \in 1..Len(msgs)
  BY <1>1, TargetType, Busy DEF Serving
<1>3. Len(msgs) \in Nat
  BY LenProperties DEF Structure, Typed
<1>4. m \in MessageType
  BY <1>2 DEF Message, MessageType, WorkType, EventType
<1>5. /\ m.parent = w[c].parent /\ m.copyOf = Ev(c).msg /\ m.chan = Target(c)
  BY DEF Message
<1>6. w[c].parent # 0 => w[c].parent \in 1..Len(msgs)
                         /\ msgs[w[c].parent].chan = Target(c)
  BY <1>1 DEF Structure, Handler
<1> HIDE DEF m
<1>7. m.parent \in 0..Len(msgs) /\ m.copyOf \in 0..Len(msgs)
  BY <1>2, <1>3, <1>5, <1>6
<1>8. /\ Grown /\ Threads' /\ Len(msgs') = Len(msgs) + 1
      /\ msgs'[Len(msgs) + 1] = m
  BY <1>1, <1>4, <1>5, <1>6, <1>7, MessageAdded
<1> DEFINE ev == Event("created", Len(msgs) + 1, Ev(c).text)
<1>9. ev \in EventType /\ ev.msg = Len(msgs) + 1
  BY <1>2, <1>3 DEF Event, EventType
<1> HIDE DEF ev
<1>10. ev.msg \in 1..Len(msgs') /\ msgs'[ev.msg].chan = Target(c)
  BY <1>3, <1>5, <1>8, <1>9
<1>11. Extends(Tell(queue, Target(c), ev))
  BY <1>2, <1>8, <1>9, <1>10, QueueTold
<1> QED BY <1>3, <1>8, <1>11 DEF QueueAfterPost, m, ev

LEMMA RecordOriginStep ==
    ASSUME Structure, NEW c \in Channels, RecordOrigin(c)
    PROVE  Structure' /\ Grown /\ Moves(c)
<1> DEFINE m == Ev(c).msg
           s(g) == [w[c] EXCEPT !.at = "parent", !.group = g]
<1>1. w[c].at = "record" /\ UNCHANGED <<msgs, queue, tries, dead>>
  BY DEF RecordOrigin
<1>2. /\ w[c] \in WorkType /\ queue[c] # <<>> /\ w[c].todo # <<>>
      /\ m \in 1..Len(msgs) /\ groups \in Nat /\ Len(msgs) \in Nat
  BY <1>1, Busy, LenProperties DEF Structure, Handler, Serving, Typed
<1>3. \A g \in Nat : /\ s(g) \in WorkType /\ s(g).at = "parent"
                     /\ s(g).todo # <<>> /\ s(g).group = g
  BY <1>2 DEF WorkType, Serving
<1>4. CASE LinksOf(m) = {}
  <2> DEFINE new == [msg |-> m, group |-> groups + 1, origin |-> TRUE]
  <2>1. groups' = groups + 1 /\ links' = links \cup {new} /\ Do(c, s(groups + 1))
    BY <1>4 DEF RecordOrigin
  <2>2. new \in LinkType /\ new.msg = m /\ new.group = groups + 1
    BY <1>2 DEF LinkType
  <2> HIDE DEF new, s
  <2>3. Grown /\ Extends(queue) /\ Threads'
    BY <1>1, SameMessages, QueueKept, MessagesChanged
  <2>4. Extends(queue')
    BY <1>1, <2>3
  <2>5. WorkerTypes' /\ Moves(c) /\ w'[c] = s(groups + 1)
    BY <1>1, <1>2, <1>3, <2>1, <2>3, <2>4, DoStep DEF Structure, Typed
  <2>6. Handler(c)'
    BY <1>1, <1>2, <1>3, <2>1, <2>5 DEF Handler
  <2>7. links' \subseteq LinkType /\ groups' \in Nat /\ groups' >= groups
    BY <1>2, <2>1, <2>2 DEF Structure, Typed
  <2>8. \A l \in links : l.msg # m /\ l.group \in 1..groups
    BY <1>4 DEF LinksOf, Structure, Rows
  <2>9. Rows'
    BY <1>1, <1>2, <2>1, <2>2, <2>8 DEF Structure, Rows
  <2> QED BY <2>3, <2>5, <2>6, <2>7, <2>9, OneHandlerMoves
<1>5. CASE LinksOf(m) # {}
  <2>1. Do(c, s(GroupOf(m))) /\ UNCHANGED <<groups, links>>
    BY <1>5 DEF RecordOrigin
  <2>2. GroupOf(m) \in Nat /\ GroupOf(m) \in 1..groups
    BY <1>5, GroupOfLinked
  <2> HIDE DEF s, m
  <2> QED BY <1>1, <1>2, <1>3, <2>1, <2>2, HandlerGoesOn
<1> QED BY <1>4, <1>5

LEMMA SendStep ==
    ASSUME Structure, NEW c \in Channels, Send(c)
    PROVE  Structure' /\ Grown /\ Moves(c)
<1> DEFINE n == Len(msgs')
           s == [w[c] EXCEPT !.at = "link", !.id = n]
<1>1. /\ w[c].at = "send" /\ Posted(c) /\ queue' = QueueAfterPost(c)
      /\ Do(c, s) /\ UNCHANGED <<links, groups, tries, dead>>
  BY DEF Send, Posted
<1>2. /\ w[c] \in WorkType /\ queue[c] # <<>> /\ w[c].todo # <<>>
      /\ w[c].group \in 1..groups
  BY <1>1, Busy DEF Structure, Handler, Serving, Creating
<1>3. /\ Grown /\ Threads' /\ Extends(queue')
      /\ Len(msgs) \in Nat /\ n = Len(msgs) + 1
      /\ msgs'[n] = Message(Target(c), TRUE, w[c].parent, Ev(c).text, Ev(c).msg)
  BY <1>1, PostedMessage
<1>n. n \in Nat
  BY <1>3
<1> HIDE DEF n
<1>4. /\ s \in WorkType /\ s.at = "link" /\ s.id = n /\ s.todo = w[c].todo
      /\ s.group = w[c].group
  BY <1>2, <1>n DEF WorkType, Serving
<1> HIDE DEF s
<1>5. WorkerTypes' /\ Moves(c) /\ w'[c] = s
  BY <1>1, <1>3, <1>4, DoStep DEF Structure, Typed
<1>6. Handler(c)'
  <2>1. queue'[c] # <<>>
    BY <1>2, <1>3, Continues DEF SameHead
  <2>2. n \in 1..n /\ msgs'[n].chan = Target(c)
    BY <1>3, <1>n DEF Message
  <2> QED BY <1>1, <1>2, <1>4, <1>5, <2>1, <2>2 DEF Handler, Target, n
<1>7. links' \subseteq LinkType /\ groups' \in Nat /\ groups' >= groups /\ Rows'
  BY <1>1, <1>3, SameLinks
<1> QED BY <1>3, <1>5, <1>6, <1>7, OneHandlerMoves

LEMMA SendReplyLostStep ==
    ASSUME Structure, NEW c \in Channels, SendReplyLost(c)
    PROVE  Structure' /\ Grown /\ Moves(c) /\ w'[c] = Idle
<1>1. w[c].at = "send" /\ Posted(c) /\ UNCHANGED <<links, groups>>
  BY DEF SendReplyLost, Posted
<1>2. PICK retryable \in BOOLEAN : Fail(c, retryable, QueueAfterPost(c))
  BY DEF SendReplyLost
<1>3. queue[c] # <<>>
  BY <1>1, Busy
<1>4. Grown /\ Threads' /\ Extends(QueueAfterPost(c))
  BY <1>1, PostedMessage
<1>5. WorkerTypes' /\ Moves(c) /\ w'[c] = Idle
  BY <1>2, <1>3, <1>4, FailStep
<1>6. links' \subseteq LinkType /\ groups' \in Nat /\ groups' >= groups /\ Rows'
  BY <1>1, <1>4, SameLinks
<1> QED BY <1>4, <1>5, <1>6, IdleHandler, OneHandlerMoves

LEMMA RecordReplicaStep ==
    ASSUME Structure, NEW c \in Channels, RecordReplica(c)
    PROVE  Structure' /\ Grown /\ Moves(c)
<1> DEFINE new == [msg |-> w[c].id, group |-> w[c].group, origin |-> FALSE]
<1>1. /\ w[c].at = "link" /\ UNCHANGED <<msgs, groups>>
      /\ NextTarget(c, queue, "parent")
  BY DEF RecordReplica
<1>2. Grown /\ Extends(queue) /\ Threads'
  BY <1>1, SameMessages, QueueKept, MessagesChanged
<1>3. WorkerTypes' /\ Moves(c) /\ Handler(c)'
  BY <1>1, <1>2, NextTargetStep DEF Serving, Creating
<1>4. /\ w[c].id \in Nat /\ w[c].id \in 1..Len(msgs)
      /\ w[c].group \in Nat /\ w[c].group \in 1..groups
  BY <1>1, Busy DEF Structure, Handler, Creating, WorkType
<1>5. CASE LinksOf(w[c].id) # {}
  <2>1. UNCHANGED links
    BY <1>5 DEF RecordReplica
  <2> QED BY <1>1, <1>2, <1>3, <2>1, SameLinks, OneHandlerMoves
<1>6. CASE LinksOf(w[c].id) = {}
  <2>1. links' = links \cup {new}
    BY <1>6 DEF RecordReplica
  <2>2. new \in LinkType /\ new.msg = w[c].id /\ new.group = w[c].group
    BY <1>4 DEF LinkType
  <2> HIDE DEF new
  <2>3. links' \subseteq LinkType /\ groups' \in Nat /\ groups' >= groups
    BY <1>1, <2>1, <2>2 DEF Structure, Typed
  <2>4. \A l \in links : l.msg # w[c].id
    BY <1>6 DEF LinksOf
  <2>5. Rows'
    BY <1>1, <1>4, <2>1, <2>2, <2>4 DEF Structure, Rows
  <2> QED BY <1>2, <1>3, <2>3, <2>5, OneHandlerMoves
<1> QED BY <1>5, <1>6

\* A message gets another text or is deleted.
LEMMA MessageChanged ==
    ASSUME Structure, NEW m \in 1..Len(msgs), NEW new \in MessageType,
           msgs' = [msgs EXCEPT ![m] = new],
           new.chan = msgs[m].chan, new.bot = msgs[m].bot,
           new.parent = msgs[m].parent, new.copyOf = msgs[m].copyOf
    PROVE  Grown /\ Threads' /\ Len(msgs') = Len(msgs)
<1>1. /\ msgs' \in Seq(MessageType) /\ Len(msgs') = Len(msgs)
      /\ \A i \in 1..Len(msgs) : msgs'[i] = IF i = m THEN new ELSE msgs[i]
  BY ExceptSeq DEF Structure, Typed
<1>2. Len(msgs) \in Nat
  BY LenProperties DEF Structure, Typed
<1>3. Grown
  BY <1>1, <1>2 DEF Grown
<1> QED BY <1>1, <1>3, MessagesChanged

LEMMA Retext ==
    ASSUME Structure, NEW m \in 1..Len(msgs), NEW text \in Nat,
           msgs' = [msgs EXCEPT ![m].text = text]
    PROVE  Grown /\ Threads' /\ Len(msgs') = Len(msgs)
<1>1. msgs[m] \in MessageType
  BY ElementOfSeq DEF Structure, Typed
<1> DEFINE new == [msgs[m] EXCEPT !.text = text]
<1>2. /\ new \in MessageType
      /\ new.chan = msgs[m].chan /\ new.bot = msgs[m].bot
      /\ new.parent = msgs[m].parent /\ new.copyOf = msgs[m].copyOf
  BY <1>1 DEF MessageType
<1>3. msgs' = [msgs EXCEPT ![m] = new]
  OBVIOUS
<1> QED BY <1>2, <1>3, MessageChanged

LEMMA Removed ==
    ASSUME Structure, NEW m \in 1..Len(msgs),
           msgs' = [msgs EXCEPT ![m].gone = TRUE]
    PROVE  Grown /\ Threads' /\ Len(msgs') = Len(msgs)
<1>1. msgs[m] \in MessageType
  BY ElementOfSeq DEF Structure, Typed
<1> DEFINE new == [msgs[m] EXCEPT !.gone = TRUE]
<1>2. /\ new \in MessageType
      /\ new.chan = msgs[m].chan /\ new.bot = msgs[m].bot
      /\ new.parent = msgs[m].parent /\ new.copyOf = msgs[m].copyOf
  BY <1>1 DEF MessageType
<1>3. msgs' = [msgs EXCEPT ![m] = new]
  OBVIOUS
<1> QED BY <1>2, <1>3, MessageChanged

LEMMA ApplyEditStep ==
    ASSUME Structure, NEW c \in Channels, ApplyEdit(c)
    PROVE  Structure' /\ Grown /\ Moves(c) /\ Len(msgs') = Len(msgs)
<1> DEFINE m == w[c].id
           ev == Event("edited", m, Ev(c).text)
<1>1. w[c].at = "apply" /\ UNCHANGED <<links, groups>>
  BY DEF ApplyEdit
<1>2. /\ w[c] \in WorkType /\ queue[c] # <<>> /\ Ev(c) \in EventType
      /\ m \in 1..Len(msgs) /\ msgs[m].chan = Target(c)
      /\ Target(c) \in Channels
  BY <1>1, Busy, TargetType DEF Structure, Handler, Serving
<1>3. CASE msgs[m].gone
  <2>1. Ended(c, queue) /\ UNCHANGED msgs
    BY <1>3 DEF ApplyEdit, Ended
  <2> QED BY <1>1, <1>2, <2>1, HandlerEnds
<1>4. CASE ~msgs[m].gone
  <2>1. /\ msgs' = [msgs EXCEPT ![m].text = Ev(c).text]
        /\ NextTarget(c, Tell(queue, Target(c), ev), "lookup")
    BY <1>4 DEF ApplyEdit
  <2>2. Grown /\ Threads' /\ Len(msgs') = Len(msgs)
    BY <1>2, <2>1, Retext DEF EventType
  <2>3. ev \in EventType /\ ev.msg = m
    BY <1>2 DEF Event, EventType, WorkType
  <2> HIDE DEF m, ev
  <2>4. m \in 1..Len(msgs') /\ msgs'[m].chan = Target(c)
    BY <1>2, <2>2 DEF Grown
  <2>5. Extends(Tell(queue, Target(c), ev))
    BY <1>2, <2>2, <2>3, <2>4, QueueTold
  <2>6. WorkerTypes' /\ Moves(c) /\ Handler(c)'
    BY <1>1, <2>1, <2>2, <2>5, NextTargetStep DEF Serving
  <2> QED BY <1>1, <2>2, <2>6, SameLinks, OneHandlerMoves
<1> QED BY <1>3, <1>4

LEMMA ApplyDeleteStep ==
    ASSUME Structure, NEW c \in Channels, ApplyDelete(c)
    PROVE  Structure' /\ Grown /\ Moves(c) /\ Len(msgs') = Len(msgs)
<1> DEFINE m == w[c].id
           ev == Event("deleted", m, 0)
           q == IF msgs[m].gone THEN queue ELSE Tell(queue, Target(c), ev)
<1>1. /\ w[c].at = "apply" /\ UNCHANGED <<links, groups>>
      /\ msgs' = [msgs EXCEPT ![m].gone = TRUE]
      /\ NextTarget(c, q, "lookup")
  BY DEF ApplyDelete
<1>2. /\ w[c] \in WorkType /\ m \in 1..Len(msgs) /\ msgs[m].chan = Target(c)
      /\ Target(c) \in Channels
  BY <1>1, Busy, TargetType DEF Structure, Handler, Serving
<1>3. Grown /\ Threads' /\ Len(msgs') = Len(msgs)
  BY <1>1, <1>2, Removed
<1>4. ev \in EventType /\ ev.msg = m
  BY <1>2 DEF Event, EventType, WorkType
<1> HIDE DEF m, ev
<1>5. m \in 1..Len(msgs') /\ msgs'[m].chan = Target(c)
  BY <1>2, <1>3 DEF Grown
<1>6. Extends(q)
  BY <1>2, <1>3, <1>4, <1>5, QueueTold, QueueKept
<1> HIDE DEF q
<1>7. WorkerTypes' /\ Moves(c) /\ Handler(c)'
  BY <1>1, <1>3, <1>6, NextTargetStep DEF Serving
<1> QED BY <1>1, <1>3, <1>7, SameLinks, OneHandlerMoves

LEMMA CleanupStep ==
    ASSUME Structure, NEW c \in Channels, Cleanup(c)
    PROVE  Structure' /\ Grown /\ Moves(c) /\ w'[c] = Idle
<1>1. /\ w[c].at = "cleanup" /\ UNCHANGED <<msgs, groups>>
      /\ links' \subseteq links /\ Ended(c, queue)
  BY ReturnEnds DEF Cleanup
<1>2. queue[c] # <<>>
  BY <1>1, Busy
<1>3. Grown /\ Threads' /\ Extends(queue)
  BY <1>1, SameMessages, MessagesChanged, QueueKept
<1>4. WorkerTypes' /\ Moves(c) /\ w'[c] = Idle
  BY <1>1, <1>2, <1>3, EndStep
<1>5. links' \subseteq LinkType /\ groups' \in Nat /\ groups' >= groups /\ Rows'
  BY <1>1 DEF Structure, Typed, Rows
<1> QED BY <1>3, <1>4, <1>5, IdleHandler, OneHandlerMoves

-----------------------------------------------------------------------------
(* Users, crashes, and the invariance of the structure.                    *)

UserStep ==
    \/ \E c \in Channels : \E parent \in ThreadRoots(c) \cup {0} : UserPost(c, parent)
    \/ \E m \in OwnPosts : UserEdit(m) \/ UserDelete(m)

\* No worker notices what users do, except for new events behind the others.
LEMMA UserMoves ==
    ASSUME Structure, Grown, Threads', Extends(queue'),
           UNCHANGED <<links, groups, tries, dead, w>>
    PROVE  Structure' /\ Grown /\ \A c \in Channels : SameHead(c)
<1>1. \A c \in Channels : SameHead(c)
  BY Continues
<1>2. Len(msgs) \in Nat /\ Len(msgs') \in Nat
  BY LenProperties DEF Structure, Typed, Grown
<1>3. links' \subseteq LinkType /\ groups' \in Nat /\ groups' >= groups /\ Rows'
  BY SameLinks
<1>4. Typed' /\ Known'
  BY <1>2, <1>3 DEF Structure, Typed, Known, Grown, Extends
<1>5. \A c \in Channels : Handler(c)'
  BY <1>1, <1>2 DEF Structure, Handler, SameHead, Grown, Target
<1> QED BY <1>1, <1>3, <1>4, <1>5 DEF Structure

\* A user's message and the new messages are the user's own, or a copy.
LEMMA UserPostStep ==
    ASSUME Structure, NEW c \in Channels, NEW parent \in ThreadRoots(c) \cup {0},
           UserPost(c, parent)
    PROVE  /\ Structure' /\ Grown /\ \A d \in Channels : SameHead(d)
           /\ Len(msgs) \in Nat /\ Len(msgs') = Len(msgs) + 1
           /\ msgs'[Len(msgs) + 1] = Message(c, FALSE, parent, 0, 0)
<1> DEFINE m == Message(c, FALSE, parent, 0, 0)
           ev == Event("created", Len(msgs'), 0)
<1>1. /\ msgs' = Append(msgs, m) /\ queue' = Tell(queue, c, ev)
      /\ UNCHANGED <<links, groups, tries, dead, w>>
  BY DEF UserPost
<1>2. Len(msgs) \in Nat /\ DOMAIN msgs = 1..Len(msgs)
  BY LenProperties DEF Structure, Typed
<1>3. parent # 0 => parent \in 1..Len(msgs) /\ msgs[parent].chan = c
  BY <1>2 DEF ThreadRoots
<1>4. /\ m \in MessageType /\ m.parent = parent /\ m.copyOf = 0 /\ m.chan = c
      /\ parent \in 0..Len(msgs)
  BY <1>2, <1>3 DEF Message, MessageType
<1> HIDE DEF m
<1>5. /\ Grown /\ Threads'
      /\ Len(msgs') = Len(msgs) + 1 /\ msgs'[Len(msgs) + 1] = m
  BY <1>1, <1>2, <1>3, <1>4, MessageAdded
<1>6. ev \in EventType /\ ev.msg = Len(msgs')
  BY <1>2, <1>5 DEF Event, EventType
<1> HIDE DEF ev
<1>7. ev.msg \in 1..Len(msgs') /\ msgs'[ev.msg].chan = c
  BY <1>2, <1>4, <1>5, <1>6
<1>8. Extends(queue')
  BY <1>1, <1>5, <1>6, <1>7, QueueTold
<1> QED BY <1>1, <1>2, <1>5, <1>8, UserMoves DEF m

LEMMA UserChangeStep ==
    ASSUME Structure, NEW m \in OwnPosts, UserEdit(m) \/ UserDelete(m)
    PROVE  /\ Structure' /\ Grown /\ \A c \in Channels : SameHead(c)
           /\ Len(msgs') = Len(msgs)
<1>1. m \in 1..Len(msgs) /\ Len(msgs) \in Nat
  BY LenProperties DEF Structure, Typed, OwnPosts
<1>2. msgs[m] \in MessageType
  BY <1>1, ElementOfSeq DEF Structure, Typed
<1>3. /\ msgs[m].chan \in Channels /\ msgs[m].text + 1 \in Nat
  BY <1>2 DEF MessageType
<1>4. CASE UserEdit(m)
  <2> DEFINE ev == Event("edited", m, msgs'[m].text)
  <2>1. /\ msgs' = [msgs EXCEPT ![m].text = msgs[m].text + 1]
        /\ queue' = Tell(queue, msgs[m].chan, ev)
        /\ UNCHANGED <<links, groups, tries, dead, w>>
    BY <1>4 DEF UserEdit
  <2>2. Grown /\ Threads' /\ Len(msgs') = Len(msgs)
    BY <1>1, <1>3, <2>1, Retext
  <2>3. msgs'[m] \in MessageType
    BY <1>1, <2>2, ElementOfSeq DEF Grown
  <2>4. ev \in EventType /\ ev.msg = m
    BY <1>1, <2>3 DEF Event, EventType, MessageType
  <2> HIDE DEF ev
  <2>5. ev.msg \in 1..Len(msgs') /\ msgs'[ev.msg].chan = msgs[m].chan
    BY <1>1, <2>2, <2>4 DEF Grown
  <2>6. Extends(queue')
    BY <1>3, <2>1, <2>2, <2>4, <2>5, QueueTold
  <2> QED BY <2>1, <2>2, <2>6, UserMoves
<1>5. CASE UserDelete(m)
  <2> DEFINE ev == Event("deleted", m, 0)
  <2>1. /\ msgs' = [msgs EXCEPT ![m].gone = TRUE]
        /\ queue' = Tell(queue, msgs[m].chan, ev)
        /\ UNCHANGED <<links, groups, tries, dead, w>>
    BY <1>5 DEF UserDelete
  <2>2. Grown /\ Threads' /\ Len(msgs') = Len(msgs)
    BY <1>1, <2>1, Removed
  <2>3. ev \in EventType /\ ev.msg = m
    BY <1>1 DEF Event, EventType
  <2> HIDE DEF ev
  <2>4. ev.msg \in 1..Len(msgs') /\ msgs'[ev.msg].chan = msgs[m].chan
    BY <1>1, <2>2, <2>3 DEF Grown
  <2>5. Extends(queue')
    BY <1>3, <2>1, <2>2, <2>3, <2>4, QueueTold
  <2> QED BY <2>1, <2>2, <2>5, UserMoves
<1> QED BY <1>4, <1>5

LEMMA CrashStep ==
    ASSUME Structure, Crash
    PROVE  Structure' /\ UNCHANGED <<msgs, links, groups>>
           /\ \A c \in Channels : w'[c] = Idle
<1>1. /\ w' = [c \in Channels |-> Idle]
      /\ tries' = [c \in Channels |-> IF c \in InHand THEN tries[c] + 1 ELSE tries[c]]
      /\ UNCHANGED <<msgs, links, groups, queue, dead>>
  BY DEF Crash, Die
<1>2. tries' \in [Channels -> Nat]
  BY <1>1 DEF Structure, Typed
<1>2t. Typed' /\ Known' /\ Threads' /\ Rows'
  BY <1>1, <1>2, IdleType DEF Structure, Typed, Known, Threads, Rows
<1>3. \A c \in Channels : w'[c] = Idle
  BY <1>1
<1> QED BY <1>1, <1>2t, <1>3, IdleHandler DEF Structure

LEMMA StructureInit == Init => Structure
<1> SUFFICES ASSUME Init PROVE Structure
  OBVIOUS
<1>1. Endpoints[1] \in Channels
  <2>1. Len(Endpoints) \in Nat \ {0} /\ DOMAIN Endpoints = 1..Len(Endpoints)
    BY EndpointsAssumption, EmptySeq, LenProperties
  <2> QED BY <2>1 DEF Channels, Range
<1> DEFINE m == Message(Endpoints[1], FALSE, 0, 0, 0)
<1>2. m \in MessageType /\ m.parent = 0 /\ m.copyOf = 0
  BY <1>1 DEF Message, MessageType
<1> HIDE DEF m
<1>3. msgs = <<m>> \/ msgs = <<>>
  BY DEF Init, m
<1>4. msgs \in Seq(MessageType) /\ Threads
  <2>1. CASE msgs = <<m>>
    BY <1>2, <2>1 DEF Threads
  <2>2. CASE msgs = <<>>
    BY <2>2 DEF Threads
  <2> QED BY <1>3, <2>1, <2>2
<1>5. Typed
  <2>1. 0 \in 0..(MaxAttempts - 1)
    BY BoundsAssumption
  <2>2. queue \in [Channels -> Seq(EventType)]
    BY EmptySeq DEF Init
  <2>3. w \in [Channels -> WorkType]
    BY IdleType DEF Init
  <2> QED BY <1>4, <2>1, <2>2, <2>3 DEF Init, Typed
<1>6. Known /\ Rows
  BY DEF Init, Known, Rows
<1>7. \A c \in Channels : Handler(c)
  BY IdleType DEF Init, Handler, Serving, Creating
<1> QED BY <1>4, <1>5, <1>6, <1>7 DEF Structure

LEMMA NextCases ==
    Next <=> \/ \E c \in Channels : WorkerStep(c) \/ StepError(c) \/ SendReplyLost(c)
             \/ UserStep
             \/ Crash
BY DEF Next, UserStep

\* Whatever the worker of c does, and what it may do to the messages.
LEMMA WorkerMoves ==
    ASSUME Structure, NEW c \in Channels,
           WorkerStep(c) \/ StepError(c) \/ SendReplyLost(c)
    PROVE  /\ Structure' /\ Grown /\ Moves(c)
           /\ Len(msgs') = Len(msgs) \/ Posted(c)
<1>1. CASE Begin(c)
  BY <1>1, BeginStep DEF Begin
<1>2. CASE Guard(c)
  BY <1>2, GuardStep DEF Guard
<1>3. CASE RecordOrigin(c)
  BY <1>3, RecordOriginStep DEF RecordOrigin
<1>4. CASE FindParent(c)
  BY <1>4, FindParentStep DEF FindParent
<1>5. CASE MapParent(c)
  BY <1>5, MapParentStep DEF MapParent
<1>6. CASE Send(c)
  BY <1>6, SendStep DEF Send
<1>7. CASE SendRefused(c) \/ StepError(c)
  <2>1. UNCHANGED msgs
    BY <1>7 DEF SendRefused, StepError
  <2> QED BY <1>7, <2>1, RaiseStep
<1>8. CASE RecordReplica(c)
  BY <1>8, RecordReplicaStep DEF RecordReplica
<1>9. CASE FindGroup(c)
  BY <1>9, FindGroupStep DEF FindGroup
<1>10. CASE Lookup(c)
  BY <1>10, LookupStep DEF Lookup
<1>11. CASE ApplyEdit(c)
  BY <1>11, ApplyEditStep
<1>12. CASE ApplyDelete(c)
  BY <1>12, ApplyDeleteStep
<1>13. CASE Cleanup(c)
  BY <1>13, CleanupStep DEF Cleanup
<1>14. CASE SendReplyLost(c)
  BY <1>14, SendReplyLostStep DEF SendReplyLost
<1> QED
  BY <1>1, <1>2, <1>3, <1>4, <1>5, <1>6, <1>7, <1>8, <1>9, <1>10, <1>11, <1>12,
     <1>13, <1>14 DEF WorkerStep

LEMMA StructureStep == Structure /\ [Next]_vars => Structure'
<1> SUFFICES ASSUME Structure, [Next]_vars PROVE Structure'
  OBVIOUS
<1>1. ASSUME NEW c \in Channels, WorkerStep(c) \/ StepError(c) \/ SendReplyLost(c)
      PROVE  Structure'
  BY <1>1, WorkerMoves
<1>2. CASE UserStep
  BY <1>2, UserPostStep, UserChangeStep DEF UserStep
<1>3. CASE Crash
  BY <1>3, CrashStep
<1>4. CASE UNCHANGED vars
  <2>1. Typed' /\ Threads' /\ Known' /\ Rows'
    BY <1>4 DEF Structure, Typed, Threads, Known, Rows, vars
  <2>2. \A c \in Channels : Handler(c)'
    BY <1>4 DEF Structure, Handler, Target, vars
  <2> QED BY <2>1, <2>2 DEF Structure
<1> QED BY <1>1, <1>2, <1>3, <1>4, NextCases

LEMMA StructureInvariant == Spec => []Structure
BY StructureInit, StructureStep, PTL DEF Spec

\* Types, threads inside one channel, at most one link for a message, and a
\* busy worker has an event (relay.py, store/links.py).
THEOREM TypeCorrect == Spec => []TypeOK
BY StructureTypes, StructureInvariant, PTL

-----------------------------------------------------------------------------
(* Guard 1, or the policy for bots, stops loops.                           *)

\* A message is a copy exactly if the bridge posted it, and copies are made
\* from users' messages.
Authors ==
    \A m \in 1..Len(msgs) :
        /\ msgs[m].bot <=> msgs[m].copyOf # 0
        /\ msgs[m].copyOf # 0 => ~msgs[msgs[m].copyOf].bot

\* Past its guards a handler works for a user's message only.
UsersOnly(c) ==
    /\ w[c].at = "guard" /\ SelfKnown => ~msgs[Ev(c).msg].bot
    /\ w[c].at \notin {"idle", "guard"} => ~msgs[Ev(c).msg].bot

Guarded == Authors /\ \A c \in Channels : UsersOnly(c)

LEMMA AuthorsLoop == Structure /\ Guarded => NoLoop
<1>1. Structure => DOMAIN msgs = 1..Len(msgs)
  BY LenProperties DEF Structure, Typed
<1> QED BY <1>1 DEF Guarded, Authors, NoLoop

\* A new message is a user's, or a copy of a user's.
NewAuthor(new) ==
    /\ Len(msgs') = Len(msgs) + 1
    /\ \/ ~new.bot /\ new.copyOf = 0
       \/ new.bot /\ new.copyOf \in 1..Len(msgs) /\ ~msgs[new.copyOf].bot

\* Old messages keep their author; it is enough to look at a new one.
LEMMA AuthorsKept ==
    ASSUME Structure, Authors, Grown,
           Len(msgs') = Len(msgs) \/ NewAuthor(msgs'[Len(msgs) + 1])
    PROVE  Authors'
<1>1. Len(msgs) \in Nat
  BY LenProperties DEF Structure, Typed
<1> DEFINE n == Len(msgs)
           Good(m) == /\ msgs'[m].bot <=> msgs'[m].copyOf # 0
                      /\ msgs'[m].copyOf # 0 => ~msgs'[msgs'[m].copyOf].bot
<1>2. \A m \in 1..n : Good(m)
  <2>1. \A m \in 1..n : msgs[m].copyOf # 0 => msgs[m].copyOf \in 1..n
    BY <1>1 DEF Structure, Threads
  <2> QED BY <2>1 DEF Authors, Grown
<1>3. Len(msgs') = n + 1 => Good(n + 1)
  BY <1>1 DEF Grown, NewAuthor
<1>4. \A m \in 1..Len(msgs') : m \in 1..n \/ (Len(msgs') = n + 1 /\ m = n + 1)
  BY <1>1 DEF NewAuthor
<1> HIDE DEF n
<1> QED BY <1>2, <1>3, <1>4 DEF Authors

\* An author never changes, and a handler that keeps its event keeps its author.
LEMMA UsersOnlyKept ==
    ASSUME Structure, Grown, NEW c \in Channels, UsersOnly(c), SameHead(c),
           w'[c] = w[c] \/ w[c].at \notin {"idle", "guard"}
    PROVE  UsersOnly(c)'
<1>1. CASE w[c].at = "idle"
  BY <1>1 DEF UsersOnly
<1>2. CASE w[c].at # "idle"
  <2>1. queue[c] # <<>> /\ Ev(c).msg \in 1..Len(msgs)
    BY <1>2, Busy
  <2>2. Ev(c)' = Ev(c)
    BY <2>1 DEF SameHead
  <2>3. msgs'[Ev(c).msg].bot = msgs[Ev(c).msg].bot
    BY <2>1 DEF Grown
  <2> QED BY <2>2, <2>3 DEF UsersOnly
<1> QED BY <1>1, <1>2

LEMMA UsersOnlyIdle ==
    ASSUME NEW c \in Channels, w'[c] = Idle
    PROVE  UsersOnly(c)'
BY IdleType DEF UsersOnly

LEMMA GuardedWorker ==
    ASSUME SelfKnown \/ ~RelayBots, Structure, Guarded, NEW c \in Channels,
           WorkerStep(c) \/ StepError(c) \/ SendReplyLost(c)
    PROVE  Guarded'
<1>1. Grown /\ Moves(c) /\ (Len(msgs') = Len(msgs) \/ Posted(c))
  BY WorkerMoves
<1>2. Authors'
  <2>1. CASE Len(msgs') = Len(msgs)
    BY <1>1, <2>1, AuthorsKept DEF Guarded
  <2>2. CASE Posted(c)
    <3>1. w[c].at = "send"
      BY <2>2 DEF Posted
    <3>2. Ev(c).msg \in 1..Len(msgs) /\ ~msgs[Ev(c).msg].bot
      BY <3>1, Busy DEF Guarded, UsersOnly
    <3>3. Len(msgs') = Len(msgs) + 1
          /\ msgs'[Len(msgs) + 1].bot /\ msgs'[Len(msgs) + 1].copyOf = Ev(c).msg
      <4>1. /\ Len(msgs') = Len(msgs) + 1
            /\ msgs'[Len(msgs) + 1] =
                 Message(Target(c), TRUE, w[c].parent, Ev(c).text, Ev(c).msg)
        BY <2>2, PostedMessage
      <4> QED BY <4>1 DEF Message
    <3>4. NewAuthor(msgs'[Len(msgs) + 1])
      BY <3>2, <3>3 DEF NewAuthor
    <3> QED BY <1>1, <3>4, AuthorsKept DEF Guarded
  <2> QED BY <1>1, <2>1, <2>2
<1>3. \A d \in Channels \ {c} : UsersOnly(d)'
  BY <1>1, UsersOnlyKept, UsersOnlyIdle DEF Moves, Guarded
<1>4. UsersOnly(c)'
  <2>1. CASE w'[c] = Idle
    BY <2>1, UsersOnlyIdle
  <2>2. CASE w'[c] # Idle /\ Begin(c)
    <3>1. ~(SelfKnown /\ msgs[Ev(c).msg].bot)
      BY <2>2, ReturnEnds, EndedIdle DEF Begin
    <3>2. w' = [w EXCEPT ![c] = [Idle EXCEPT !.at = "guard"]] /\ UNCHANGED <<queue, msgs>>
      BY <2>2, <3>1 DEF Begin, Do
    <3>3. w'[c].at = "guard"
      BY <3>2 DEF Structure, Typed, Idle
    <3> QED BY <3>1, <3>2, <3>3 DEF UsersOnly, Ev
  <2>3. CASE w'[c] # Idle /\ Guard(c)
    <3>1. w[c].at = "guard" /\ UNCHANGED msgs
      BY <2>3 DEF Guard
    <3>2. ~(msgs[Ev(c).msg].bot /\ ~RelayBots)
      BY <2>3, ReturnEnds, EndedIdle DEF Guard
    <3>3. UNCHANGED queue
      BY <2>3, ReturnEnds, EndedIdle DEF Guard
    <3>4. ~msgs[Ev(c).msg].bot
      BY <3>1, <3>2 DEF Guarded, UsersOnly
    <3> QED BY <3>1, <3>3, <3>4 DEF UsersOnly, Ev
  <2>4. CASE w'[c] # Idle /\ ~Begin(c) /\ ~Guard(c)
    <3>1. w[c].at \notin {"idle", "guard"}
      BY <2>4, RaiseStep
         DEF WorkerStep, RecordOrigin, FindParent, MapParent, Send, Posted,
             SendRefused, RecordReplica, FindGroup, Lookup, ApplyEdit, ApplyDelete,
             Cleanup, SendReplyLost
    <3>2. SameHead(c)
      BY <1>1, <2>4 DEF Moves
    <3> QED BY <1>1, <3>1, <3>2, UsersOnlyKept DEF Guarded
  <2> QED BY <2>1, <2>2, <2>3, <2>4
<1> QED BY <1>2, <1>3, <1>4 DEF Guarded

LEMMA GuardedUser ==
    ASSUME Structure, Guarded, UserStep
    PROVE  Guarded'
<1>1. UNCHANGED w
  BY DEF UserStep, UserPost, UserEdit, UserDelete
<1>2. Grown /\ \A c \in Channels : SameHead(c)
  BY UserPostStep, UserChangeStep DEF UserStep
<1>3. Authors'
  <2>1. CASE \E c \in Channels : \E parent \in ThreadRoots(c) \cup {0} :
               UserPost(c, parent)
    <3> PICK c \in Channels : \E parent \in ThreadRoots(c) \cup {0} : UserPost(c, parent)
      BY <2>1
    <3>1. PICK parent \in ThreadRoots(c) \cup {0} : UserPost(c, parent)
      OBVIOUS
    <3>2. /\ Len(msgs') = Len(msgs) + 1
          /\ msgs'[Len(msgs) + 1] = Message(c, FALSE, parent, 0, 0)
      BY <3>1, UserPostStep
    <3>3. ~msgs'[Len(msgs) + 1].bot /\ msgs'[Len(msgs) + 1].copyOf = 0
      BY <3>2 DEF Message
    <3>4. NewAuthor(msgs'[Len(msgs) + 1])
      BY <3>2, <3>3 DEF NewAuthor
    <3> QED BY <1>2, <3>4, AuthorsKept DEF Guarded
  <2>2. CASE \E m \in OwnPosts : UserEdit(m) \/ UserDelete(m)
    BY <1>2, <2>2, UserChangeStep, AuthorsKept DEF Guarded
  <2> QED BY <2>1, <2>2 DEF UserStep
<1>4. \A c \in Channels : UsersOnly(c)'
  BY <1>1, <1>2, UsersOnlyKept DEF Guarded
<1> QED BY <1>3, <1>4 DEF Guarded

LEMMA GuardedStep ==
    ASSUME SelfKnown \/ ~RelayBots
    PROVE  Structure /\ Guarded /\ [Next]_vars => Guarded'
<1> SUFFICES ASSUME Structure, Guarded, [Next]_vars PROVE Guarded'
  OBVIOUS
<1>1. ASSUME NEW c \in Channels, WorkerStep(c) \/ StepError(c) \/ SendReplyLost(c)
      PROVE  Guarded'
  BY <1>1, GuardedWorker
<1>2. CASE UserStep
  BY <1>2, GuardedUser
<1>3. CASE Crash
  BY <1>3, CrashStep, UsersOnlyIdle DEF Guarded, Authors
<1>4. CASE UNCHANGED vars
  BY <1>4 DEF Guarded, Authors, UsersOnly, Ev, vars
<1> QED BY <1>1, <1>2, <1>3, <1>4, NextCases

LEMMA GuardedInit == Init => Guarded
<1> SUFFICES ASSUME Init PROVE Guarded
  OBVIOUS
<1>1. \A m \in 1..Len(msgs) : ~msgs[m].bot /\ msgs[m].copyOf = 0
  BY DEF Init, Message
<1> QED BY <1>1, IdleType DEF Init, Guarded, Authors, UsersOnly

\* If every adapter knows its own id, or bots are not relayed, no copy is ever
\* copied, however the workers, retries and crashes interleave (loopguard.py).
THEOREM LoopsStopped ==
    ASSUME SelfKnown \/ ~RelayBots
    PROVE  Spec => []NoLoop
<1>1. Structure /\ Guarded /\ [Next]_vars => (Structure /\ Guarded)'
  BY StructureStep, GuardedStep
<1>2. Init => Structure /\ Guarded
  BY StructureInit, GuardedInit
<1> QED BY <1>1, <1>2, AuthorsLoop, PTL DEF Spec

-----------------------------------------------------------------------------
(* Links.                                                                  *)

\* Where a handler has the group of its event's message.
Owning == Creating \cup {"lookup", "apply", "cleanup"}

\* Users' messages are origins, copies are replicas.
Kinds == \A l \in links : l.origin <=> ~msgs[l.msg].bot

\* A group has one origin.
OneOrigin ==
    \A o, k \in links : o.origin /\ k.origin /\ o.group = k.group => o = k

OriginOf(m, group) == \E o \in links : o.origin /\ o.msg = m /\ o.group = group

\* A handler's group stays that of its message: nobody else deletes it.
Owns(c) ==
    /\ w[c].at \in Owning => OriginOf(Ev(c).msg, w[c].group)
    /\ w[c].at = "link" =>
         msgs[w[c].id].bot /\ msgs[w[c].id].copyOf = Ev(c).msg

Linked == LinksSound /\ Kinds /\ OneOrigin /\ \A c \in Channels : Owns(c)

Facts == Structure /\ Guarded /\ Linked

LEMMA OwnsIdle ==
    ASSUME NEW c \in Channels, w'[c] = Idle
    PROVE  Owns(c)'
BY IdleType DEF Owns, Owning, Creating

\* What a handler relies on survives unless its origin is removed.
LEMMA OwnsKept ==
    ASSUME Facts, Grown, NEW c \in Channels, SameHead(c),
           w[c].at \in Owning =>
             \A o \in links : o.origin /\ o.msg = Ev(c).msg => o \in links',
           \/ w'[c] = w[c] \/ w'[c] = Idle
           \/ /\ w[c].at \in Owning /\ w'[c].group = w[c].group
              /\ w'[c].at # "link"
    PROVE  Owns(c)'
<1>0. CASE w'[c] = Idle
  BY <1>0, OwnsIdle
<1>1. CASE w'[c] # Idle /\ w[c].at \notin Owning
  BY <1>1 DEF Owns, Owning, Creating
<1>2. CASE w'[c] # Idle /\ w[c].at \in Owning
  <2>1. queue[c] # <<>>
    BY <1>2, Busy DEF Facts, Owning, Creating
  <2>2. Ev(c)' = Ev(c)
    BY <2>1 DEF SameHead
  <2>3. \E o \in links' : o.origin /\ o.msg = Ev(c).msg /\ o.group = w'[c].group
    BY <1>2 DEF Facts, Linked, Owns, OriginOf
  <2>4. OriginOf(Ev(c).msg, w[c].group)'
    BY <2>2, <2>3 DEF OriginOf
  <2>5. w'[c].at = "link" =>
          msgs'[w'[c].id].bot /\ msgs'[w'[c].id].copyOf = Ev(c).msg
    <3> SUFFICES ASSUME w'[c].at = "link"
                 PROVE  msgs'[w'[c].id].bot /\ msgs'[w'[c].id].copyOf = Ev(c).msg
      OBVIOUS
    <3>1. w'[c] = w[c]
      BY <1>2
    <3>2. /\ w[c].id \in 1..Len(msgs)
          /\ msgs[w[c].id].bot /\ msgs[w[c].id].copyOf = Ev(c).msg
      BY <3>1 DEF Facts, Structure, Handler, Linked, Owns
    <3> QED BY <3>1, <3>2 DEF Grown
  <2> QED BY <2>2, <2>4, <2>5 DEF Owns
<1> QED BY <1>0, <1>1, <1>2

LEMMA KindsKept ==
    ASSUME Facts, Grown, links' \subseteq links
    PROVE  Kinds' /\ OneOrigin'
BY DEF Facts, Structure, Rows, Linked, Kinds, OneOrigin, Grown

LEMMA SoundKept ==
    ASSUME Facts, Grown, UNCHANGED links
    PROVE  LinksSound'
<1>1. \A l \in links : msgs'[l.msg].copyOf = msgs[l.msg].copyOf
  BY DEF Facts, Structure, Rows, Grown
<1> QED BY <1>1 DEF Facts, Linked, LinksSound

\* A step of one worker that leaves the links alone.
LEMMA LinksKept ==
    ASSUME Facts, Grown, NEW c \in Channels, Moves(c), UNCHANGED links, Owns(c)'
    PROVE  Linked'
<1>1. \A d \in Channels \ {c} : Owns(d)'
  BY OwnsKept DEF Moves
<1> QED BY <1>1, KindsKept, SoundKept DEF Linked

\* The handler keeps its group, or it is done.
KeepsGroup(c) ==
    \/ w'[c] = Idle
    \/ w'[c].group = w[c].group /\ w'[c].at # "link"

LEMMA GroupKept ==
    ASSUME Facts, NEW c \in Channels,
           \/ FindParent(c) \/ MapParent(c) \/ RecordReplica(c) \/ Lookup(c)
           \/ ApplyEdit(c) \/ ApplyDelete(c)
    PROVE  KeepsGroup(c) /\ w[c].at \in Owning
<1>1. w \in [Channels -> WorkType]
  BY DEF Facts, Structure, Typed
<1>2. w[c].at \in Owning
  BY DEF FindParent, MapParent, RecordReplica, Lookup, ApplyEdit, ApplyDelete,
         Owning, Creating
<1>3. ASSUME NEW q, Return(c, q) PROVE KeepsGroup(c)
  BY <1>3, ReturnEnds, EndedIdle DEF Facts, KeepsGroup
<1>4. ASSUME NEW q, NEW retryable, Fail(c, retryable, q) PROVE KeepsGroup(c)
  BY <1>1, <1>4 DEF Fail, Finish, Do, KeepsGroup
<1>5. ASSUME NEW s, Do(c, s), s.group = w[c].group, s.at # "link"
      PROVE  KeepsGroup(c)
  BY <1>1, <1>5 DEF Do, KeepsGroup
<1>6. ASSUME NEW q, NEW first \in {"parent", "lookup"}, NextTarget(c, q, first)
      PROVE  KeepsGroup(c)
  <2>1. CASE Return(c, q)
    BY <1>3, <2>1
  <2>2. CASE Do(c, [w[c] EXCEPT !.at = first, !.todo = Tail(@)])
    BY <1>1, <1>5, <2>2 DEF WorkType
  <2>3. CASE Do(c, [w[c] EXCEPT !.at = "cleanup"])
    BY <1>1, <1>5, <2>3 DEF WorkType
  <2> QED BY <1>6, <2>1, <2>2, <2>3 DEF NextTarget
<1>7. CASE FindParent(c)
  <2>1. CASE Do(c, [w[c] EXCEPT !.at = "send", !.parent = 0])
    BY <1>1, <1>2, <1>5, <2>1 DEF WorkType
  <2>2. CASE \E g : Do(c, [w[c] EXCEPT !.at = "mapped", !.parent = g])
    <3>1. PICK g : Do(c, [w[c] EXCEPT !.at = "mapped", !.parent = g])
      BY <2>2
    <3> QED BY <1>1, <1>2, <1>5, <3>1 DEF WorkType
  <2> QED BY <1>2, <1>4, <1>7, <2>1, <2>2 DEF FindParent
<1>8. CASE MapParent(c)
  <2>1. CASE \E p : Do(c, [w[c] EXCEPT !.at = "send", !.parent = p])
    <3>1. PICK p : Do(c, [w[c] EXCEPT !.at = "send", !.parent = p])
      BY <2>1
    <3> QED BY <1>1, <1>2, <1>5, <3>1 DEF WorkType
  <2> QED BY <1>2, <1>4, <1>8, <2>1 DEF MapParent
<1>9. CASE RecordReplica(c)
  BY <1>2, <1>6, <1>9 DEF RecordReplica
<1>10. CASE Lookup(c)
  <2>1. CASE \E m : Do(c, [w[c] EXCEPT !.at = "apply", !.id = m])
    <3>1. PICK m : Do(c, [w[c] EXCEPT !.at = "apply", !.id = m])
      BY <2>1
    <3> QED BY <1>1, <1>2, <1>5, <3>1 DEF WorkType
  <2> QED BY <1>2, <1>6, <1>10, <2>1 DEF Lookup
<1>11. CASE ApplyEdit(c)
  BY <1>2, <1>4, <1>6, <1>11 DEF ApplyEdit
<1>12. CASE ApplyDelete(c)
  BY <1>2, <1>6, <1>12 DEF ApplyDelete
<1> QED BY <1>2, <1>7, <1>8, <1>9, <1>10, <1>11, <1>12

LEMMA OwnEvent ==
    ASSUME Facts, NEW c \in Channels, w[c].at \notin {"idle", "guard"}
    PROVE  /\ Ev(c).msg \in 1..Len(msgs) /\ msgs[Ev(c).msg].chan = c
           /\ ~msgs[Ev(c).msg].bot /\ queue[c] # <<>>
BY Busy DEF Facts, Guarded, UsersOnly

\* A linked user's message is the origin of its group.
LEMMA OwnGroup ==
    ASSUME Facts, NEW c \in Channels, w[c].at \notin {"idle", "guard"},
           LinksOf(Ev(c).msg) # {}
    PROVE  OriginOf(Ev(c).msg, GroupOf(Ev(c).msg))
<1>1. PICK l \in links : l.msg = Ev(c).msg /\ GroupOf(Ev(c).msg) = l.group
  BY GroupOfLinked DEF Facts
<1>2. l.origin
  BY <1>1, OwnEvent DEF Facts, Linked, Kinds
<1> QED BY <1>1, <1>2 DEF OriginOf

LEMMA LinkedRecordOrigin ==
    ASSUME Facts, NEW c \in Channels, RecordOrigin(c)
    PROVE  Linked'
<1> DEFINE m == Ev(c).msg
<1>1. w[c].at = "record" /\ UNCHANGED <<msgs, queue>>
  BY DEF RecordOrigin
<1>2. /\ m \in 1..Len(msgs) /\ ~msgs[m].bot /\ w \in [Channels -> WorkType]
      /\ groups \in Nat
  BY <1>1, OwnEvent DEF Facts, Structure, Typed
<1>3. Grown /\ Moves(c) /\ Ev(c)' = Ev(c)
  BY <1>1, RecordOriginStep DEF Facts, Ev
<1>4. CASE LinksOf(m) # {}
  <2>1. w' = [w EXCEPT ![c] = [w[c] EXCEPT !.at = "parent", !.group = GroupOf(m)]]
        /\ UNCHANGED links
    BY <1>4 DEF RecordOrigin, Do
  <2>2. w'[c].at = "parent" /\ w'[c].group = GroupOf(m)
    BY <1>2, <2>1 DEF WorkType
  <2>3. OriginOf(m, GroupOf(m))
    BY <1>1, <1>4, OwnGroup
  <2>4. Owns(c)'
    BY <1>3, <2>1, <2>2, <2>3 DEF Owns, OriginOf
  <2> QED BY <1>3, <2>1, <2>4, LinksKept
<1>5. CASE LinksOf(m) = {}
  <2> DEFINE g == groups + 1
             new == [msg |-> m, group |-> g, origin |-> TRUE]
  <2>1. /\ w' = [w EXCEPT ![c] = [w[c] EXCEPT !.at = "parent", !.group = g]]
        /\ links' = links \cup {new}
    BY <1>5 DEF RecordOrigin, Do
  <2>2. w'[c].at = "parent" /\ w'[c].group = g
    BY <1>2, <2>1 DEF WorkType
  <2>3. new.msg = m /\ new.group = g /\ new.origin
    OBVIOUS
  <2>4. \A l \in links : l.group # g
    BY <1>2 DEF Facts, Structure, Rows
  <2> HIDE DEF new, g
  <2>5. LinksSound'
    BY <1>1, <2>1, <2>3 DEF Facts, Linked, LinksSound
  <2>6. Kinds'
    BY <1>1, <1>2, <2>1, <2>3 DEF Facts, Linked, Kinds
  <2>7. OneOrigin'
    BY <2>1, <2>3, <2>4 DEF Facts, Linked, OneOrigin
  <2>8. Owns(c)'
    BY <1>3, <2>1, <2>2, <2>3 DEF Owns, OriginOf
  <2>9. \A d \in Channels \ {c} : Owns(d)'
    BY <1>3, <2>1, OwnsKept DEF Moves
  <2> QED BY <2>5, <2>6, <2>7, <2>8, <2>9 DEF Linked
<1> QED BY <1>4, <1>5

LEMMA LinkedRecordReplica ==
    ASSUME Facts, NEW c \in Channels, RecordReplica(c)
    PROVE  Linked'
<1> DEFINE new == [msg |-> w[c].id, group |-> w[c].group, origin |-> FALSE]
<1>1. w[c].at = "link" /\ UNCHANGED msgs
  BY DEF RecordReplica
<1>2. Grown /\ Moves(c)
  BY RecordReplicaStep DEF Facts
<1>3. KeepsGroup(c) /\ w[c].at \in Owning
  BY GroupKept
<1>4. links' = links \/ links' = links \cup {new}
  BY DEF RecordReplica
<1>5. /\ OriginOf(Ev(c).msg, w[c].group)
      /\ msgs[w[c].id].bot /\ msgs[w[c].id].copyOf = Ev(c).msg
  BY <1>1, <1>3 DEF Facts, Linked, Owns
<1>6. new.msg = w[c].id /\ new.group = w[c].group /\ ~new.origin
  OBVIOUS
<1> HIDE DEF new
<1>7. \A d \in Channels : Owns(d)'
  <2>1. \A d \in Channels \ {c} : Owns(d)'
    BY <1>2, <1>4, OwnsKept DEF Moves
  <2>2. w'[c] # Idle => Owns(c)'
    BY <1>2, <1>3, <1>4, OwnsKept DEF Moves, KeepsGroup
  <2> QED BY <2>1, <2>2, OwnsIdle
<1>8. LinksSound'
  BY <1>1, <1>4, <1>5, <1>6 DEF Facts, Linked, LinksSound, OriginOf
<1>9. Kinds'
  BY <1>1, <1>4, <1>5, <1>6 DEF Facts, Linked, Kinds
<1>10. OneOrigin'
  BY <1>4, <1>6 DEF Facts, Linked, OneOrigin
<1> QED BY <1>7, <1>8, <1>9, <1>10 DEF Linked

\* delete_group() removes whole groups, and no other handler's.
LEMMA LinkedCleanup ==
    ASSUME Facts, NEW c \in Channels, Cleanup(c)
    PROVE  Linked'
<1> DEFINE g == w[c].group
<1>1. /\ w[c].at = "cleanup" /\ UNCHANGED msgs
      /\ links' = {l \in links : l.group # g}
  BY DEF Cleanup
<1>2. Grown /\ Moves(c) /\ w'[c] = Idle
  BY CleanupStep DEF Facts
<1>3. PICK o \in links : o.origin /\ o.msg = Ev(c).msg /\ o.group = g
  BY <1>1 DEF Facts, Linked, Owns, Owning, OriginOf
<1>4. msgs[Ev(c).msg].chan = c
  BY <1>1, OwnEvent
<1>5. ASSUME NEW d \in Channels \ {c} PROVE Owns(d)'
  <2>1. (w'[d] = w[d] \/ w'[d] = Idle) /\ SameHead(d)
    BY <1>2 DEF Moves
  <2>2. CASE w[d].at \notin Owning
    BY <1>2, <2>1, <2>2, OwnsKept
  <2>3. CASE w[d].at \in Owning
    <3>1. PICK k \in links : k.origin /\ k.msg = Ev(d).msg /\ k.group = w[d].group
      BY <2>3 DEF Facts, Linked, Owns, OriginOf
    <3>2. msgs[Ev(d).msg].chan = d
      BY <2>3, OwnEvent DEF Owning, Creating
    <3>3. o.msg # k.msg
      BY <1>3, <1>4, <3>1, <3>2
    <3>4. k.group # g
      BY <1>3, <3>1, <3>3 DEF Facts, Linked, OneOrigin
    <3>5. \A l \in links : l.msg = k.msg => l = k
      BY DEF Facts, Structure, Rows
    <3>6. \A l \in links : l.origin /\ l.msg = Ev(d).msg => l \in links'
      BY <1>1, <3>1, <3>4, <3>5
    <3> QED BY <1>2, <2>1, <3>6, OwnsKept
  <2> QED BY <2>2, <2>3
<1>6. LinksSound'
  BY <1>1 DEF Facts, Linked, LinksSound
<1>7. Kinds' /\ OneOrigin'
  BY <1>1, <1>2, KindsKept
<1>8. Owns(c)'
  BY <1>2, OwnsIdle
<1> QED BY <1>5, <1>6, <1>7, <1>8 DEF Linked

LEMMA LinkedSend ==
    ASSUME Facts, NEW c \in Channels, Send(c)
    PROVE  Linked'
<1> DEFINE n == Len(msgs')
<1>1. /\ w[c].at = "send" /\ Posted(c) /\ UNCHANGED links
      /\ w' = [w EXCEPT ![c] = [w[c] EXCEPT !.at = "link", !.id = n]]
  BY DEF Send, Posted, Do
<1>2. Structure' /\ Grown /\ Moves(c)
  BY SendStep DEF Facts
<1>3. w \in [Channels -> WorkType] /\ Len(msgs) \in Nat
  BY LenProperties DEF Facts, Structure, Typed
<1>4. n = Len(msgs) + 1
      /\ msgs'[n] = Message(Target(c), TRUE, w[c].parent, Ev(c).text, Ev(c).msg)
  BY <1>1, PostedMessage DEF Facts
<1> HIDE DEF n
<1>5. w'[c].at = "link" /\ w'[c].id = n /\ w'[c].group = w[c].group
  BY <1>1, <1>3 DEF WorkType
<1>6. Ev(c)' = Ev(c)
  <2>1. w'[c] # Idle
    BY <1>5, IdleType
  <2> QED BY <1>1, <1>2, <2>1, OwnEvent DEF Moves, SameHead
<1>7. \E o \in links : o.origin /\ o.msg = Ev(c).msg /\ o.group = w[c].group
  BY <1>1 DEF Facts, Linked, Owns, Owning, Creating, OriginOf
<1>8. OriginOf(Ev(c).msg, w[c].group)'
  BY <1>1, <1>5, <1>6, <1>7 DEF OriginOf
<1>9. msgs'[n].bot /\ msgs'[n].copyOf = Ev(c).msg
  BY <1>4 DEF Message
<1>10. Owns(c)'
  BY <1>5, <1>6, <1>8, <1>9 DEF Owns
<1> QED BY <1>1, <1>2, <1>10, LinksKept

LEMMA LinkedFindGroup ==
    ASSUME Facts, NEW c \in Channels, FindGroup(c)
    PROVE  Linked'
<1> DEFINE m == Ev(c).msg
<1>1. w[c].at = "find" /\ UNCHANGED links
  BY DEF FindGroup
<1>2. Grown /\ Moves(c)
  BY FindGroupStep DEF Facts
<1>3. w \in [Channels -> WorkType]
  BY DEF Facts, Structure, Typed
<1>4. CASE LinksOf(m) = {}
  <2>1. w'[c] = Idle
    BY <1>4, ReturnEnds, EndedIdle DEF FindGroup, Facts
  <2> QED BY <1>1, <1>2, <2>1, OwnsIdle, LinksKept
<1>5. CASE LinksOf(m) # {}
  <2>1. /\ w' = [w EXCEPT ![c] = [w[c] EXCEPT !.at = "lookup", !.group = GroupOf(m)]]
        /\ UNCHANGED queue
    BY <1>5 DEF FindGroup, Do
  <2>2. w'[c].at = "lookup" /\ w'[c].group = GroupOf(m) /\ Ev(c)' = Ev(c)
    BY <1>3, <2>1 DEF WorkType, Ev
  <2>3. OriginOf(m, GroupOf(m))
    BY <1>1, <1>5, OwnGroup
  <2>4. Owns(c)'
    BY <1>1, <2>2, <2>3 DEF Owns, OriginOf
  <2> QED BY <1>1, <1>2, <2>4, LinksKept
<1> QED BY <1>4, <1>5

\* Before the handler has a group there is nothing to lose.
LEMMA LinkedGuards ==
    ASSUME Facts, NEW c \in Channels, Begin(c) \/ Guard(c)
    PROVE  Linked'
<1>1. UNCHANGED links
  BY DEF Begin, Guard
<1>2. Grown /\ Moves(c)
  BY WorkerMoves DEF Facts, WorkerStep
<1>3. w \in [Channels -> WorkType]
  BY DEF Facts, Structure, Typed
<1>4. w'[c].at \in {"idle", "guard", "record", "find"}
  <2>1. CASE w'[c] = Idle
    BY <2>1, IdleType
  <2>2. CASE Do(c, [Idle EXCEPT !.at = "guard"])
    BY <1>3, <2>2 DEF Do, Idle
  <2>3. CASE \E todo : \E at \in {"record", "find"} :
               Do(c, [w[c] EXCEPT !.at = at, !.todo = todo])
    BY <1>3, <2>3 DEF Do, WorkType
  <2>4. Return(c, queue) => w'[c] = Idle
    BY ReturnEnds, EndedIdle DEF Facts
  <2>5. CASE Begin(c)
    BY <2>1, <2>2, <2>4, <2>5 DEF Begin
  <2>6. CASE Guard(c)
    BY <2>1, <2>3, <2>4, <2>6 DEF Guard
  <2> QED BY <2>5, <2>6
<1>5. Owns(c)'
  BY <1>4 DEF Owns, Owning, Creating
<1> QED BY <1>1, <1>2, <1>5, LinksKept

LEMMA LinkedWorker ==
    ASSUME Facts, NEW c \in Channels,
           WorkerStep(c) \/ StepError(c) \/ SendReplyLost(c)
    PROVE  Linked'
<1>1. Grown /\ Moves(c)
  BY WorkerMoves DEF Facts
<1>2. CASE FindParent(c) \/ MapParent(c) \/ Lookup(c) \/ ApplyEdit(c) \/ ApplyDelete(c)
  <2>1. UNCHANGED links
    BY <1>2 DEF FindParent, MapParent, Lookup, ApplyEdit, ApplyDelete
  <2>2. KeepsGroup(c) /\ w[c].at \in Owning
    BY <1>2, GroupKept
  <2>3. Owns(c)'
    <3>1. CASE w'[c] = Idle
      BY <3>1, OwnsIdle
    <3>2. CASE w'[c] # Idle
      BY <1>1, <2>1, <2>2, <3>2, OwnsKept DEF Moves, KeepsGroup
    <3> QED BY <3>1, <3>2
  <2> QED BY <1>1, <2>1, <2>3, LinksKept
<1>3. CASE SendRefused(c) \/ StepError(c) \/ SendReplyLost(c)
  <2>1. UNCHANGED links
    BY <1>3 DEF SendRefused, StepError, SendReplyLost
  <2>2. w'[c] = Idle
    BY <1>3, RaiseStep, SendReplyLostStep DEF Facts
  <2> QED BY <1>1, <2>1, <2>2, OwnsIdle, LinksKept
<1> QED
  BY <1>2, <1>3, LinkedGuards, LinkedRecordOrigin, LinkedSend, LinkedRecordReplica,
     LinkedFindGroup, LinkedCleanup DEF WorkerStep

LEMMA LinkedUser ==
    ASSUME Facts, UserStep
    PROVE  Linked'
<1>1. UNCHANGED <<w, links>>
  BY DEF UserStep, UserPost, UserEdit, UserDelete
<1>2. Grown /\ \A c \in Channels : SameHead(c)
  BY UserPostStep, UserChangeStep DEF UserStep, Facts
<1>3. \A c \in Channels : Owns(c)'
  BY <1>1, <1>2, OwnsKept
<1> QED BY <1>1, <1>2, <1>3, KindsKept, SoundKept DEF Linked

LEMMA LinkedStep == Facts /\ [Next]_vars => Linked'
<1> SUFFICES ASSUME Facts, [Next]_vars PROVE Linked'
  OBVIOUS
<1>1. ASSUME NEW c \in Channels, WorkerStep(c) \/ StepError(c) \/ SendReplyLost(c)
      PROVE  Linked'
  BY <1>1, LinkedWorker
<1>2. CASE UserStep
  BY <1>2, LinkedUser
<1>3. CASE Crash
  <2>1. UNCHANGED <<msgs, links>> /\ \A c \in Channels : w'[c] = Idle
    BY <1>3, CrashStep DEF Facts
  <2> QED BY <2>1, OwnsIdle DEF Facts, Linked, LinksSound, Kinds, OneOrigin
<1>4. CASE UNCHANGED vars
  <2>1. \A c \in Channels : Owns(c)'
    BY <1>4 DEF Facts, Linked, Owns, OriginOf, Ev, vars
  <2> QED BY <1>4, <2>1 DEF Facts, Linked, LinksSound, Kinds, OneOrigin, vars
<1> QED BY <1>1, <1>2, <1>3, <1>4, NextCases

\* Under the same assumption a group joins one user's message with copies of
\* it, through retries, lost replies, crashes, and deletions that run while
\* other channels post (store/links.py).
THEOREM LinksAreSound ==
    ASSUME SelfKnown \/ ~RelayBots
    PROVE  Spec => []LinksSound
<1>1. Facts /\ [Next]_vars => Facts'
  BY StructureStep, GuardedStep, LinkedStep DEF Facts
<1>2. Init => Facts
  <2>1. Init => Linked
    BY IdleType DEF Init, Linked, LinksSound, Kinds, OneOrigin, Owns, Owning, Creating
  <2> QED BY <2>1, StructureInit, GuardedInit DEF Facts
<1>3. Facts => LinksSound
  BY DEF Facts, Linked
<1> QED BY <1>1, <1>2, <1>3, PTL DEF Spec

-----------------------------------------------------------------------------
(* Threads.                                                                *)

Placing == {"mapped", "send"}

ParentOf(c) == msgs[Ev(c).msg].parent

\* The handler of c is about to post below a counterpart of the parent of its
\* message: first it has the parent's group, then the counterpart.  The group
\* may be deleted meanwhile, but never becomes that of another message.
Placed(c) ==
    /\ w[c].at = "mapped" =>
         /\ ParentOf(c) # 0
         /\ w[c].parent \in 1..groups
         /\ \A l \in links : l.group = w[c].parent => Root(l.msg) = Root(ParentOf(c))
    /\ w[c].at = "send" =>
         IF ParentOf(c) = 0 THEN w[c].parent = 0
         ELSE w[c].parent # 0 /\ Root(w[c].parent) = Root(ParentOf(c))

Threaded == ThreadsMatch /\ \A c \in Channels : Placed(c)

AllFacts == Facts /\ Threaded

LEMMA RootKept ==
    ASSUME Grown
    PROVE  \A m \in 1..Len(msgs) : Root(m)' = Root(m)
BY DEF Grown, Root

\* The rows of a group stand for one message.
LEMMA GroupRoot ==
    ASSUME Facts, NEW l \in links, NEW k \in links, l.group = k.group
    PROVE  Root(l.msg) = Root(k.msg)
<1>1. ASSUME NEW r \in links
      PROVE  \E o \in links : /\ o.origin /\ o.group = r.group
                              /\ Root(r.msg) = o.msg
  <2>1. PICK o \in links : /\ o.origin /\ o.group = r.group
                           /\ r.msg = o.msg \/ (~r.origin /\ msgs[r.msg].copyOf = o.msg)
    BY DEF Facts, Linked, LinksSound
  <2>2. r.msg \in 1..Len(msgs) /\ o.msg \in 1..Len(msgs) /\ Len(msgs) \in Nat
    BY LenProperties DEF Facts, Structure, Typed, Rows
  <2>3. CASE r.msg = o.msg
    <3>1. msgs[o.msg].copyOf = 0
      BY <2>1, <2>2 DEF Facts, Linked, Kinds, Guarded, Authors
    <3> QED BY <2>1, <2>3, <3>1 DEF Root
  <2>4. CASE msgs[r.msg].copyOf = o.msg
    BY <2>1, <2>2, <2>4 DEF Root
  <2> QED BY <2>1, <2>3, <2>4
<1>2. PICK o \in links : o.origin /\ o.group = l.group /\ Root(l.msg) = o.msg
  BY <1>1
<1>3. PICK q \in links : q.origin /\ q.group = k.group /\ Root(k.msg) = q.msg
  BY <1>1
<1>4. o = q
  BY <1>2, <1>3 DEF Facts, Linked, OneOrigin
<1> QED BY <1>2, <1>3, <1>4

\* A new message is at top level, or below a counterpart, as its original is.
NewPlace(new) ==
    /\ Len(msgs') = Len(msgs) + 1
    /\ new.copyOf # 0 =>
         /\ new.copyOf \in 1..Len(msgs)
         /\ IF msgs[new.copyOf].parent = 0 THEN new.parent = 0
            ELSE /\ new.parent \in 1..Len(msgs)
                 /\ Root(new.parent) = Root(msgs[new.copyOf].parent)

LEMMA ThreadsKept ==
    ASSUME Structure, ThreadsMatch, Grown,
           Len(msgs') = Len(msgs) \/ NewPlace(msgs'[Len(msgs) + 1])
    PROVE  ThreadsMatch'
<1>1. DOMAIN msgs = 1..Len(msgs) /\ DOMAIN msgs' = 1..Len(msgs')
  BY LenProperties DEF Structure, Typed, Grown
<1>8. Len(msgs) \in Nat
  BY LenProperties DEF Structure, Typed
<1>2. \A m \in 1..Len(msgs) :
        /\ msgs[m].parent \in 0..Len(msgs) /\ msgs[m].copyOf \in 0..Len(msgs)
  <2> TAKE m \in 1..Len(msgs)
  <2>1. msgs[m].parent \in 0..(m - 1) /\ msgs[m].copyOf \in 0..(m - 1)
    BY DEF Structure, Threads
  <2> QED BY <1>8, <2>1
<1>3. \A m \in 1..Len(msgs) : Root(m)' = Root(m)
  BY RootKept
<1> DEFINE R(m) == IF msgs'[m].copyOf = 0 THEN m ELSE msgs'[m].copyOf
           Right(m, o, p) ==
             o # 0 => IF msgs'[o].parent = 0 THEN p = 0
                      ELSE p # 0 /\ R(p) = R(msgs'[o].parent)
<1>4. \A m \in 1..Len(msgs) : R(m) = Root(m)
  BY <1>3 DEF Root
<1>5. ASSUME NEW m \in 1..Len(msgs)
      PROVE  Right(m, msgs'[m].copyOf, msgs'[m].parent)
  <2> HIDE DEF R
  <2>1. msgs'[m].copyOf = msgs[m].copyOf /\ msgs'[m].parent = msgs[m].parent
    BY DEF Grown
  <2> SUFFICES ASSUME msgs[m].copyOf # 0
      PROVE  Right(m, msgs[m].copyOf, msgs[m].parent)
    BY <2>1
  <2> DEFINE o == msgs[m].copyOf
  <2>2. o \in 1..Len(msgs)
    BY <1>2, <1>8
  <2>3. IF msgs[o].parent = 0 THEN msgs[m].parent = 0
        ELSE msgs[m].parent # 0 /\ Root(msgs[m].parent) = Root(msgs[o].parent)
    <3>1. m \in DOMAIN msgs
      BY <1>1, Zenon
    <3> QED BY <3>1, Zenon DEF ThreadsMatch
  <2>4. msgs'[o].parent = msgs[o].parent
    BY <2>2 DEF Grown
  <2>5. msgs[o].parent \in 0..Len(msgs) /\ msgs[m].parent \in 0..Len(msgs)
    BY <1>2, <2>2
  <2> HIDE DEF o
  <2>6. CASE msgs[o].parent = 0
    BY <2>3, <2>4, <2>6 DEF o
  <2>7. CASE msgs[o].parent # 0
    <3>1. msgs[o].parent \in 1..Len(msgs) /\ msgs[m].parent \in 1..Len(msgs)
      BY <1>8, <2>3, <2>5, <2>7
    <3> QED BY <1>4, <2>3, <2>4, <2>7, <3>1 DEF o
  <2> QED BY <2>6, <2>7
<1>6. ASSUME NewPlace(msgs'[Len(msgs) + 1])
      PROVE  Right(Len(msgs) + 1, msgs'[Len(msgs) + 1].copyOf,
                   msgs'[Len(msgs) + 1].parent)
  <2> HIDE DEF R
  <2> DEFINE new == msgs'[Len(msgs) + 1]
             o == new.copyOf
  <2> SUFFICES ASSUME o # 0 PROVE Right(Len(msgs) + 1, o, new.parent)
    OBVIOUS
  <2>1. /\ o \in 1..Len(msgs)
        /\ IF msgs[o].parent = 0 THEN new.parent = 0
           ELSE /\ new.parent \in 1..Len(msgs)
                /\ Root(new.parent) = Root(msgs[o].parent)
    BY <1>6 DEF NewPlace
  <2> HIDE DEF new, o
  <2>2. msgs'[o].parent = msgs[o].parent /\ msgs[o].parent \in 0..Len(msgs)
    BY <1>2, <2>1 DEF Grown
  <2>3. CASE msgs[o].parent = 0
    BY <2>1, <2>2, <2>3
  <2>4. CASE msgs[o].parent # 0
    <3>1. msgs[o].parent \in 1..Len(msgs) /\ new.parent \in 1..Len(msgs)
      BY <1>8, <2>1, <2>2, <2>4
    <3> QED BY <1>4, <2>1, <2>2, <2>4, <3>1
  <2> QED BY <2>3, <2>4
<1> HIDE DEF R
<1>7. \A m \in DOMAIN msgs' : Right(m, msgs'[m].copyOf, msgs'[m].parent)
  <2>1. \A m \in DOMAIN msgs' :
          m \in 1..Len(msgs) \/ (Len(msgs') = Len(msgs) + 1 /\ m = Len(msgs) + 1)
    <3>1. Len(msgs') = Len(msgs) \/ Len(msgs') = Len(msgs) + 1
      BY DEF NewPlace
    <3> SUFFICES ASSUME NEW m \in 1..Len(msgs')
        PROVE  m \in 1..Len(msgs) \/ (Len(msgs') = Len(msgs) + 1 /\ m = Len(msgs) + 1)
      BY <1>1, Zenon
    <3> QED BY <1>8, <3>1
  <2>2. Len(msgs') = Len(msgs) + 1 => NewPlace(msgs'[Len(msgs) + 1])
    BY <1>8
  <2> HIDE DEF Right
  <2> QED BY <1>5, <1>6, <2>1, <2>2
<1> QED BY <1>7 DEF ThreadsMatch, R, Root

\* A row that is added stands in a new group, or for what its group stood for.
NewRows ==
    \A l \in links' :
        \/ l \in links
        \/ l.group \notin 1..groups
        \/ \E o \in links : o.group = l.group /\ Root(l.msg) = Root(o.msg)

\* What a handler has found of a parent survives the steps of the others.
LEMMA PlacedKept ==
    ASSUME Facts, Grown, NewRows, groups' \in Nat, groups' >= groups,
           NEW c \in Channels, SameHead(c), w'[c] = w[c], Placed(c),
           \A l \in links' : l.msg \in 1..Len(msgs)
    PROVE  Placed(c)'
<1>1. CASE w[c].at \notin Placing
  BY <1>1 DEF Placed, Placing
<1>2. CASE w[c].at \in Placing
  <2> DEFINE p == ParentOf(c)
  <2>1. /\ queue[c] # <<>> /\ Ev(c).msg \in 1..Len(msgs)
        /\ Len(msgs) \in Nat /\ groups \in Nat
    BY <1>2, Busy, LenProperties DEF Facts, Placing, Structure, Typed
  <2>2. Ev(c)' = Ev(c)
    BY <2>1 DEF SameHead
  <2>3. ParentOf(c)' = p
    BY <2>1, <2>2 DEF ParentOf, Grown
  <2>4. p \in 0..Len(msgs)
    BY <2>1 DEF Facts, Structure, Threads, ParentOf
  <2>5. p # 0 => Root(ParentOf(c))' = Root(p)
    <3> SUFFICES ASSUME p # 0 PROVE Root(ParentOf(c))' = Root(p)
      OBVIOUS
    <3>1. p \in 1..Len(msgs)
      BY <2>1, <2>4
    <3>2. msgs'[p].copyOf = msgs[p].copyOf
      BY <3>1 DEF Grown
    <3> QED BY <2>3, <3>2 DEF Root
  <2>6. CASE w[c].at = "mapped"
    <3>1. /\ p # 0 /\ w[c].parent \in 1..groups
          /\ \A l \in links : l.group = w[c].parent => Root(l.msg) = Root(p)
      BY <2>6 DEF Placed
    <3>2. \A l \in links' : l.group = w[c].parent => Root(l.msg) = Root(p)
      BY <3>1 DEF NewRows
    <3>3. \A l \in links' : Root(l.msg)' = Root(l.msg)
      BY RootKept
    <3>4. w'[c].parent \in 1..groups'
      BY <2>1, <3>1
    <3> HIDE DEF p
    <3>5. \A l \in links' : l.group = w'[c].parent =>
            Root(l.msg)' = Root(ParentOf(c))'
      BY <2>5, <3>1, <3>2, <3>3
    <3> QED BY <2>3, <2>6, <3>1, <3>4, <3>5 DEF Placed
  <2>7. CASE w[c].at = "send"
    <3>1. IF p = 0 THEN w[c].parent = 0
          ELSE w[c].parent # 0 /\ Root(w[c].parent) = Root(p)
      BY <2>7 DEF Placed
    <3>2. w[c].parent # 0 => Root(w[c].parent)' = Root(w[c].parent)
      <4> SUFFICES ASSUME w[c].parent # 0
          PROVE  Root(w[c].parent)' = Root(w[c].parent)
        OBVIOUS
      <4>1. w[c].parent \in 1..Len(msgs)
        BY <2>7 DEF Facts, Structure, Handler
      <4>2. msgs'[w[c].parent].copyOf = msgs[w[c].parent].copyOf
        BY <4>1 DEF Grown
      <4> QED BY <4>2 DEF Root
    <3> HIDE DEF p
    <3> QED BY <2>3, <2>5, <2>7, <3>1, <3>2 DEF Placed
  <2> QED BY <1>2, <2>6, <2>7 DEF Placing
<1> QED BY <1>1, <1>2

LEMMA PlacedElsewhere ==
    ASSUME NEW c \in Channels, w'[c].at \notin Placing
    PROVE  Placed(c)'
BY DEF Placed, Placing

\* Only the two queries for the parent lead a handler there.
LEMMA OtherPlaces ==
    ASSUME Facts, NEW c \in Channels,
           WorkerStep(c) \/ StepError(c) \/ SendReplyLost(c),
           ~FindParent(c), ~MapParent(c)
    PROVE  w'[c].at \notin Placing
<1>1. w \in [Channels -> WorkType]
  BY DEF Facts, Structure, Typed
<1>2. CASE w'[c] = Idle
  BY <1>2, IdleType DEF Placing
<1>3. ASSUME NEW q, Return(c, q) PROVE w'[c] = Idle
  BY <1>3, ReturnEnds, EndedIdle DEF Facts
<1>4. ASSUME NEW q, NEW retryable, Fail(c, retryable, q) PROVE w'[c] = Idle
  BY <1>1, <1>4 DEF Fail, Finish, Do
<1>5. ASSUME NEW s, Do(c, s), s.at \notin Placing PROVE w'[c].at \notin Placing
  BY <1>1, <1>5 DEF Do
<1>6. ASSUME NEW q, NEW first \in {"parent", "lookup"}, NextTarget(c, q, first)
      PROVE  w'[c].at \notin Placing
  <2>1. CASE Return(c, q)
    BY <1>2, <1>3, <2>1
  <2>2. CASE Do(c, [w[c] EXCEPT !.at = first, !.todo = Tail(@)])
    BY <1>1, <1>5, <2>2 DEF WorkType, Placing
  <2>3. CASE Do(c, [w[c] EXCEPT !.at = "cleanup"])
    BY <1>1, <1>5, <2>3 DEF WorkType, Placing
  <2> QED BY <1>6, <2>1, <2>2, <2>3 DEF NextTarget
<1>7. CASE Begin(c)
  <2>1. CASE Do(c, [Idle EXCEPT !.at = "guard"])
    BY <1>1, <2>1 DEF Do, Idle, Placing
  <2> QED BY <1>2, <1>3, <1>7, <2>1 DEF Begin
<1>8. CASE Guard(c)
  <2>1. CASE \E todo : \E at \in {"record", "find"} :
               Do(c, [w[c] EXCEPT !.at = at, !.todo = todo])
    BY <1>1, <2>1 DEF Do, WorkType, Placing
  <2> QED BY <1>2, <1>3, <1>8, <2>1 DEF Guard
<1>9. CASE RecordOrigin(c)
  <2>1. PICK g : Do(c, [w[c] EXCEPT !.at = "parent", !.group = g])
    BY <1>9 DEF RecordOrigin
  <2> QED BY <1>1, <2>1 DEF Do, WorkType, Placing
<1>10. CASE Send(c)
  <2>1. PICK n : Do(c, [w[c] EXCEPT !.at = "link", !.id = n])
    BY <1>10 DEF Send
  <2> QED BY <1>1, <2>1 DEF Do, WorkType, Placing
<1>11. CASE SendRefused(c) \/ StepError(c)
  BY <1>2, <1>11, RaiseStep DEF Facts
<1>12. CASE RecordReplica(c)
  BY <1>6, <1>12 DEF RecordReplica
<1>13. CASE FindGroup(c)
  <2>1. CASE \E g : Do(c, [w[c] EXCEPT !.at = "lookup", !.group = g])
    BY <1>1, <2>1 DEF Do, WorkType, Placing
  <2> QED BY <1>2, <1>3, <1>13, <2>1 DEF FindGroup
<1>14. CASE Lookup(c)
  <2>1. CASE \E m : Do(c, [w[c] EXCEPT !.at = "apply", !.id = m])
    BY <1>1, <2>1 DEF Do, WorkType, Placing
  <2> QED BY <1>6, <1>14, <2>1 DEF Lookup
<1>15. CASE ApplyEdit(c)
  BY <1>2, <1>4, <1>6, <1>15 DEF ApplyEdit
<1>16. CASE ApplyDelete(c)
  BY <1>6, <1>16 DEF ApplyDelete
<1>17. CASE Cleanup(c)
  BY <1>2, <1>3, <1>17 DEF Cleanup
<1>18. CASE SendReplyLost(c)
  BY <1>2, <1>18, SendReplyLostStep DEF Facts
<1> QED BY <1>7, <1>8, <1>9, <1>10, <1>11, <1>12, <1>13, <1>14, <1>15, <1>16, <1>17,
           <1>18 DEF WorkerStep

LEMMA PlacedFindParent ==
    ASSUME AllFacts, NEW c \in Channels, FindParent(c)
    PROVE  Placed(c)'
<1> DEFINE p == ParentOf(c)
<1>1. w[c].at = "parent" /\ UNCHANGED <<msgs, links, groups>>
  BY DEF FindParent
<1>2. w \in [Channels -> WorkType]
  BY DEF AllFacts, Facts, Structure, Typed
<1>3. Moves(c)
  BY WorkerMoves DEF AllFacts, Facts, WorkerStep
<1>4. CASE w'[c] = Idle
  BY <1>4, IdleType, PlacedElsewhere DEF Placing
<1>5. CASE p = 0
  <2>1. /\ w' = [w EXCEPT ![c] = [w[c] EXCEPT !.at = "send", !.parent = 0]]
        /\ UNCHANGED queue
    BY <1>5 DEF FindParent, Do, ParentOf
  <2>2. w'[c].at = "send" /\ w'[c].parent = 0
    BY <1>2, <2>1 DEF WorkType
  <2>3. ParentOf(c)' = 0
    BY <1>1, <1>5, <2>1 DEF ParentOf, Ev
  <2> QED BY <2>2, <2>3 DEF Placed
<1>6. CASE p # 0 /\ LinksOf(p) # {}
  <2>1. /\ w' = [w EXCEPT ![c] = [w[c] EXCEPT !.at = "mapped", !.parent = GroupOf(p)]]
        /\ UNCHANGED queue
    BY <1>6 DEF FindParent, Do, ParentOf
  <2>2. w'[c].at = "mapped" /\ w'[c].parent = GroupOf(p)
    BY <1>2, <2>1 DEF WorkType
  <2>3. ParentOf(c)' = p
    BY <1>1, <2>1 DEF ParentOf, Ev
  <2>4. PICK l \in links : l.msg = p /\ GroupOf(p) = l.group
    BY <1>6, GroupOfLinked DEF AllFacts, Facts
  <2>5. \A k \in links : k.group = GroupOf(p) => Root(k.msg) = Root(p)
    BY <2>4, GroupRoot DEF AllFacts
  <2>6. GroupOf(p) \in 1..groups
    BY <1>6, GroupOfLinked DEF AllFacts, Facts
  <2> HIDE DEF p
  <2>7. \A k \in links' : k.group = w'[c].parent => Root(k.msg)' = Root(ParentOf(c))'
    BY <1>1, <2>2, <2>3, <2>5 DEF Root
  <2> QED BY <1>1, <1>6, <2>2, <2>3, <2>6, <2>7 DEF Placed
<1>7. CASE p # 0 /\ LinksOf(p) = {}
  <2>1. Fail(c, TRUE, queue)
    BY <1>7 DEF FindParent, ParentOf
  <2>2. w'[c] = Idle
    BY <1>2, <2>1 DEF Fail, Finish, Do
  <2> QED BY <1>4, <2>2
<1> QED BY <1>5, <1>6, <1>7

LEMMA PlacedMapParent ==
    ASSUME AllFacts, NEW c \in Channels, MapParent(c)
    PROVE  Placed(c)'
<1> DEFINE p == ParentOf(c)
<1>1. w[c].at = "mapped" /\ UNCHANGED <<msgs, links, groups>>
  BY DEF MapParent
<1>2. w \in [Channels -> WorkType]
  BY DEF AllFacts, Facts, Structure, Typed
<1>3. /\ p # 0
      /\ \A l \in links : l.group = w[c].parent => Root(l.msg) = Root(p)
  BY <1>1 DEF AllFacts, Threaded, Placed
<1>4. CASE InChannel(w[c].parent, Target(c)) = {}
  <2>1. Fail(c, TRUE, queue)
    BY <1>4 DEF MapParent
  <2>2. w'[c] = Idle
    BY <1>2, <2>1 DEF Fail, Finish, Do
  <2> QED BY <2>2, IdleType, PlacedElsewhere DEF Placing
<1>5. CASE InChannel(w[c].parent, Target(c)) # {}
  <2>1. PICK r \in InChannel(w[c].parent, Target(c)) :
          w' = [w EXCEPT ![c] = [w[c] EXCEPT !.at = "send", !.parent = r]]
    BY <1>5 DEF MapParent, Do
  <2>2. UNCHANGED queue
    BY <1>5 DEF MapParent
  <2>3. w'[c].at = "send" /\ w'[c].parent = r
    BY <1>2, <2>1 DEF WorkType
  <2>4. r # 0 /\ Root(r) = Root(p)
    <3>1. r \in 1..Len(msgs)
      BY Counterparts DEF AllFacts, Facts
    <3>2. \E l \in links : l.msg = r /\ l.group = w[c].parent
      BY DEF InChannel
    <3> QED BY <1>3, <3>1, <3>2
  <2>5. ParentOf(c)' = p
    BY <1>1, <2>2 DEF ParentOf, Ev
  <2> HIDE DEF p
  <2>6. w'[c].parent # 0 /\ Root(w[c].parent)' = Root(ParentOf(c))'
    BY <1>1, <2>3, <2>4, <2>5 DEF Root
  <2> QED BY <1>3, <2>3, <2>5, <2>6 DEF Placed
<1> QED BY <1>4, <1>5

\* What the steps of a worker do to the rows.
LEMMA RowsAdded ==
    ASSUME Facts, NEW c \in Channels,
           WorkerStep(c) \/ StepError(c) \/ SendReplyLost(c)
    PROVE  /\ NewRows
           /\ groups' \in Nat /\ groups' >= groups
           /\ \A l \in links' : l.msg \in 1..Len(msgs)
<1>1. groups \in Nat /\ \A l \in links : l.msg \in 1..Len(msgs)
  BY DEF Facts, Structure, Typed, Rows
<1>2. CASE links' \subseteq links /\ groups' = groups
  BY <1>1, <1>2 DEF NewRows
<1>3. CASE RecordOrigin(c)
  <2>1. Ev(c).msg \in 1..Len(msgs)
    BY <1>3, OwnEvent DEF RecordOrigin
  <2>2. \/ links' = links /\ groups' = groups
        \/ /\ groups' = groups + 1
           /\ links' = links \cup {[msg |-> Ev(c).msg, group |-> groups', origin |-> TRUE]}
    BY <1>3 DEF RecordOrigin
  <2> QED BY <1>1, <2>1, <2>2 DEF NewRows
<1>4. CASE RecordReplica(c)
  <2>1. w[c].at = "link" /\ groups' = groups
    BY <1>4 DEF RecordReplica
  <2>2. w[c].id \in 1..Len(msgs)
    BY <2>1 DEF Facts, Structure, Handler
  <2>3. PICK o \in links : o.origin /\ o.msg = Ev(c).msg /\ o.group = w[c].group
    BY <2>1 DEF Facts, Linked, Owns, Owning, Creating, OriginOf
  <2>4. msgs[w[c].id].copyOf = Ev(c).msg
    BY <2>1 DEF Facts, Linked, Owns
  <2>5. Ev(c).msg \in 1..Len(msgs) /\ ~msgs[Ev(c).msg].bot
    BY <2>1, OwnEvent
  <2>6. msgs[Ev(c).msg].copyOf = 0 /\ Ev(c).msg # 0
    BY <2>5 DEF Facts, Guarded, Authors
  <2>7. Root(w[c].id) = Root(o.msg)
    BY <2>3, <2>4, <2>6 DEF Root
  <2> DEFINE new == [msg |-> w[c].id, group |-> w[c].group, origin |-> FALSE]
  <2>8. links' = links \/ links' = links \cup {new}
    BY <1>4 DEF RecordReplica
  <2>9. new.msg = w[c].id /\ new.group = w[c].group
    OBVIOUS
  <2> HIDE DEF new
  <2>10. NewRows
    BY <2>3, <2>7, <2>8, <2>9 DEF NewRows
  <2> QED BY <1>1, <2>1, <2>2, <2>8, <2>9, <2>10
<1>5. ASSUME ~RecordOrigin(c), ~RecordReplica(c)
      PROVE  links' \subseteq links /\ groups' = groups
  BY <1>5 DEF WorkerStep, Begin, Guard, FindParent, MapParent, Send, SendRefused,
              FindGroup, Lookup, ApplyEdit, ApplyDelete, Cleanup, StepError,
              SendReplyLost
<1> QED BY <1>2, <1>3, <1>4, <1>5

LEMMA ThreadedWorker ==
    ASSUME AllFacts, NEW c \in Channels,
           WorkerStep(c) \/ StepError(c) \/ SendReplyLost(c)
    PROVE  Threaded'
<1>1. Grown /\ Moves(c) /\ (Len(msgs') = Len(msgs) \/ Posted(c))
  BY WorkerMoves DEF AllFacts, Facts
<1>2. /\ NewRows /\ groups' \in Nat /\ groups' >= groups
      /\ \A l \in links' : l.msg \in 1..Len(msgs)
  BY RowsAdded DEF AllFacts
<1>3. \A d \in Channels \ {c} : Placed(d)'
  <2> SUFFICES ASSUME NEW d \in Channels \ {c} PROVE Placed(d)'
    OBVIOUS
  <2>1. CASE w'[d] = Idle
    BY <2>1, IdleType, PlacedElsewhere DEF Placing
  <2>2. CASE w'[d] = w[d]
    BY <1>1, <1>2, <2>2, PlacedKept DEF Moves, AllFacts, Threaded
  <2> QED BY <1>1, <2>1, <2>2 DEF Moves
<1>4. Placed(c)'
  <2>1. CASE ~FindParent(c) /\ ~MapParent(c)
    BY <2>1, OtherPlaces, PlacedElsewhere DEF AllFacts
  <2> QED BY <2>1, PlacedFindParent, PlacedMapParent
<1>5. ThreadsMatch'
  <2>1. CASE Len(msgs') = Len(msgs)
    BY <1>1, <2>1, ThreadsKept DEF AllFacts, Facts, Threaded
  <2>2. CASE Posted(c)
    <3> DEFINE new == msgs'[Len(msgs) + 1]
    <3>1. w[c].at = "send"
      BY <2>2 DEF Posted
    <3>2. Ev(c).msg \in 1..Len(msgs)
      BY <3>1, OwnEvent DEF AllFacts
    <3>3. /\ Len(msgs') = Len(msgs) + 1
          /\ new.parent = w[c].parent /\ new.copyOf = Ev(c).msg
      <4>1. /\ Len(msgs') = Len(msgs) + 1
            /\ new = Message(Target(c), TRUE, w[c].parent, Ev(c).text, Ev(c).msg)
        BY <2>2, PostedMessage DEF AllFacts, Facts
      <4> HIDE DEF new
      <4> QED BY <4>1 DEF Message
    <3>4. w[c].parent # 0 => w[c].parent \in 1..Len(msgs)
      BY <3>1 DEF AllFacts, Facts, Structure, Handler
    <3>5. IF ParentOf(c) = 0 THEN w[c].parent = 0
          ELSE w[c].parent # 0 /\ Root(w[c].parent) = Root(ParentOf(c))
      BY <3>1 DEF AllFacts, Threaded, Placed
    <3> HIDE DEF new
    <3>6. NewPlace(new)
      BY <3>2, <3>3, <3>4, <3>5 DEF NewPlace, ParentOf
    <3> QED BY <1>1, <3>6, ThreadsKept DEF AllFacts, Facts, Threaded, new
  <2> QED BY <1>1, <2>1, <2>2
<1> QED BY <1>3, <1>4, <1>5 DEF Threaded

LEMMA ThreadedUser ==
    ASSUME AllFacts, UserStep
    PROVE  Threaded'
<1>1. UNCHANGED <<w, links, groups>>
  BY DEF UserStep, UserPost, UserEdit, UserDelete
<1>2. Grown /\ \A c \in Channels : SameHead(c)
  BY UserPostStep, UserChangeStep DEF UserStep, AllFacts, Facts
<1>3. /\ NewRows /\ groups' \in Nat /\ groups' >= groups
      /\ \A l \in links' : l.msg \in 1..Len(msgs)
  BY <1>1 DEF NewRows, AllFacts, Facts, Structure, Typed, Rows
<1>4. \A c \in Channels : Placed(c)'
  BY <1>1, <1>2, <1>3, PlacedKept DEF AllFacts, Threaded
<1>5. ThreadsMatch'
  <2>1. CASE \E c \in Channels : \E parent \in ThreadRoots(c) \cup {0} :
               UserPost(c, parent)
    <3>0. PICK c \in Channels : \E parent \in ThreadRoots(c) \cup {0} : UserPost(c, parent)
      BY <2>1
    <3>1. PICK parent \in ThreadRoots(c) \cup {0} : UserPost(c, parent)
      BY <3>0
    <3>2. /\ Len(msgs') = Len(msgs) + 1
          /\ msgs'[Len(msgs) + 1] = Message(c, FALSE, parent, 0, 0)
      BY <3>1, UserPostStep DEF AllFacts, Facts
    <3>3. msgs'[Len(msgs) + 1].copyOf = 0
      BY <3>2 DEF Message
    <3>4. NewPlace(msgs'[Len(msgs) + 1])
      BY <3>2, <3>3 DEF NewPlace
    <3> QED BY <1>2, <3>4, ThreadsKept DEF AllFacts, Facts, Threaded
  <2>2. CASE \E m \in OwnPosts : UserEdit(m) \/ UserDelete(m)
    BY <1>2, <2>2, UserChangeStep, ThreadsKept DEF AllFacts, Facts, Threaded
  <2> QED BY <2>1, <2>2 DEF UserStep
<1> QED BY <1>4, <1>5 DEF Threaded

LEMMA ThreadedStep == AllFacts /\ [Next]_vars => Threaded'
<1> SUFFICES ASSUME AllFacts, [Next]_vars PROVE Threaded'
  OBVIOUS
<1>1. ASSUME NEW c \in Channels, WorkerStep(c) \/ StepError(c) \/ SendReplyLost(c)
      PROVE  Threaded'
  BY <1>1, ThreadedWorker
<1>2. CASE UserStep
  BY <1>2, ThreadedUser
<1>3. CASE Crash
  <2>1. UNCHANGED msgs /\ \A c \in Channels : w'[c] = Idle
    BY <1>3, CrashStep DEF AllFacts, Facts
  <2>2. \A c \in Channels : Placed(c)'
    BY <2>1, IdleType, PlacedElsewhere DEF Placing
  <2>3. ThreadsMatch'
    BY <2>1 DEF AllFacts, Threaded, ThreadsMatch, Root
  <2> QED BY <2>2, <2>3 DEF Threaded
<1>4. CASE UNCHANGED vars
  <2>1. \A c \in Channels : Placed(c)'
    BY <1>4 DEF AllFacts, Threaded, Placed, ParentOf, Ev, Root, vars
  <2>2. ThreadsMatch'
    BY <1>4 DEF AllFacts, Threaded, ThreadsMatch, Root, vars
  <2> QED BY <2>1, <2>2 DEF Threaded
<1> QED BY <1>1, <1>2, <1>3, <1>4, NextCases

\* Under the same assumption the copy of a reply hangs below the counterpart of
\* what the reply answers, wherever that was written, though groups are deleted
\* while the handler is between its two queries and its post (relay.py:279).
THEOREM RepliesPlaced ==
    ASSUME SelfKnown \/ ~RelayBots
    PROVE  Spec => []ThreadsMatch
<1>1. AllFacts /\ [Next]_vars => AllFacts'
  BY StructureStep, GuardedStep, LinkedStep, ThreadedStep DEF AllFacts, Facts
<1>2. Init => AllFacts
  <2>1. Init => Facts
    BY IdleType, StructureInit, GuardedInit
       DEF Init, Linked, LinksSound, Kinds, OneOrigin, Owns, Owning, Creating, Facts
  <2>2. Init => ThreadsMatch
    BY DEF Init, Message, ThreadsMatch
  <2>3. Init => \A c \in Channels : Placed(c)
    BY IdleType DEF Init, Placed
  <2> QED BY <2>1, <2>2, <2>3 DEF AllFacts, Threaded
<1>3. AllFacts => ThreadsMatch
  BY DEF AllFacts, Threaded
<1> QED BY <1>1, <1>2, <1>3, PTL DEF Spec

-----------------------------------------------------------------------------
(* Delivery: the events of one message in a queue.  Some events of a       *)
(* channel may have their turn before its queue: a is the set of those, x  *)
(* the set of messages that nothing is promised for any more.              *)

\* Of two events of a message e can be the one that came first.
Before(e, f) ==
    /\ e.kind # "deleted" /\ f.kind # "created"
    /\ f.kind = "edited" => e.text < f.text

\* The message r was, or is, as e says.
Plausible(e, r) == e.text <= r.text /\ (e.kind = "deleted" => r.gone)
Tells(e, r) == IF r.gone THEN e.kind = "deleted" ELSE e.text = r.text

\* The events of a user's message are in the order in which they came, and the
\* last one says how the message is now.
Ordered(q, ms, a, x) ==
    /\ \A i, j \in 1..Len(q) :
         i < j /\ q[i].msg = q[j].msg /\ ~ms[q[i].msg].bot => Before(q[i], q[j])
    /\ \A e \in a : \A i \in 1..Len(q) :
         e.msg = q[i].msg /\ ~ms[q[i].msg].bot => Before(e, q[i])
    /\ \A i \in 1..Len(q) :
         ~ms[q[i].msg].bot =>
           /\ Plausible(q[i], ms[q[i].msg])
           /\ q[i].msg \notin x /\ (\A j \in (i + 1)..Len(q) : q[j].msg # q[i].msg)
                => Tells(q[i], ms[q[i].msg])

\* An event of m is among those of S; and one of a certain kind.
Awaits(S, m) == \E ev \in S : ev.msg = m
AwaitsKind(S, m, kind) == \E ev \in S : ev.msg = m /\ ev.kind = kind

LEMMA RangeAppend ==
    ASSUME NEW S, NEW q \in Seq(S), NEW ev \in S
    PROVE  Range(Append(q, ev)) = Range(q) \cup {ev}
<1> DEFINE a == Append(q, ev)
           n == Len(q)
<1>1. /\ n \in Nat /\ Len(a) = n + 1 /\ a[n + 1] = ev
      /\ \A i \in 1..n : a[i] = q[i]
      /\ DOMAIN q = 1..n /\ DOMAIN a = 1..(n + 1)
  BY AppendProperties, LenProperties
<1>2. \A i \in 1..(n + 1) : i \in 1..n \/ i = n + 1
  BY <1>1
<1>3. 1..n \subseteq 1..(n + 1) /\ n + 1 \in 1..(n + 1)
  BY <1>1
<1> HIDE DEF a, n
<1>4. Range(a) = Range(q) \cup {ev}
  BY <1>1, <1>2, <1>3 DEF Range
<1> QED BY <1>4 DEF a

LEMMA RangeTail ==
    ASSUME NEW S, NEW s \in Seq(S), s # <<>>
    PROVE  /\ Range(s) = {Head(s)} \cup Range(Tail(s))
           /\ Len(s) <= 1 => Range(s) = {Head(s)}
<1> DEFINE a == Tail(s)
           n == Len(s)
<1>1. /\ n \in Nat \ {0} /\ Len(a) = n - 1 /\ Head(s) = s[1]
      /\ \A i \in 1..(n - 1) : a[i] = s[i + 1]
      /\ DOMAIN s = 1..n /\ DOMAIN a = 1..(n - 1)
  BY HeadTailProperties, LenProperties, EmptySeq
<1>2. \A i \in 1..n : i = 1 \/ (i - 1 \in 1..(n - 1) /\ a[i - 1] = s[i])
  <2> SUFFICES ASSUME NEW i \in 1..n, i # 1
               PROVE  i - 1 \in 1..(n - 1) /\ a[i - 1] = s[i]
    OBVIOUS
  <2>1. i - 1 \in 1..(n - 1) /\ (i - 1) + 1 = i
    BY <1>1
  <2> QED BY <1>1, <2>1
<1>3. \A i \in 1..(n - 1) : i + 1 \in 1..n /\ a[i] = s[i + 1]
  BY <1>1
<1>4. 1 \in 1..n /\ (n <= 1 => \A i \in 1..n : i = 1)
  BY <1>1
<1> HIDE DEF a, n
<1>5. /\ s[1] \in Range(s)
      /\ Range(a) \subseteq Range(s)
  BY <1>1, <1>3, <1>4 DEF Range
<1>6. ASSUME NEW x \in Range(s)
      PROVE  (x = s[1] \/ x \in Range(a)) /\ (n <= 1 => x = s[1])
  <2>1. PICK i \in 1..n : x = s[i]
    BY <1>1 DEF Range
  <2>2. CASE i = 1
    BY <2>1, <2>2
  <2>3. CASE i # 1
    BY <1>1, <1>2, <1>4, <2>1, <2>3 DEF Range
  <2> QED BY <2>2, <2>3
<1>7. Range(s) = {s[1]} \cup Range(a) /\ (n <= 1 => Range(s) = {s[1]})
  BY <1>5, <1>6
<1> QED BY <1>1, <1>7 DEF a, n

\* The first event has been settled, or has gone where its turn is earlier.
LEMMA OrderedTail ==
    ASSUME NEW q \in Seq(EventType), NEW ms, NEW a, NEW x, NEW b, NEW y, q # <<>>,
           Ordered(q, ms, a, x), b \subseteq a \cup {Head(q)}, x \subseteq y
    PROVE  Ordered(Tail(q), ms, b, y)
<1> DEFINE s == Tail(q)
           n == Len(q)
<1>1. /\ n \in Nat \ {0} /\ Len(s) = n - 1 /\ Head(q) = q[1] /\ 1 \in 1..n
      /\ \A i \in 1..(n - 1) : s[i] = q[i + 1] /\ i + 1 \in 1..n /\ 1 < i + 1
  BY HeadTailProperties, LenProperties, EmptySeq
<1> HIDE DEF s, n
<1>2. ASSUME NEW i \in 1..Len(s), NEW j \in 1..Len(s),
             i < j, s[i].msg = s[j].msg, ~ms[s[i].msg].bot
      PROVE  Before(s[i], s[j])
  <2>1. i + 1 \in 1..n /\ j + 1 \in 1..n /\ i + 1 < j + 1
    BY <1>1, <1>2
  <2> QED BY <1>1, <1>2, <2>1 DEF Ordered, n
<1>3. ASSUME NEW e \in b, NEW i \in 1..Len(s), e.msg = s[i].msg, ~ms[s[i].msg].bot
      PROVE  Before(e, s[i])
  <2>1. i + 1 \in 1..n /\ s[i] = q[i + 1] /\ 1 < i + 1
    BY <1>1
  <2>2. CASE e \in a
    BY <1>3, <2>1, <2>2 DEF Ordered, n
  <2>3. CASE e = q[1]
    BY <1>1, <1>3, <2>1, <2>3 DEF Ordered, n
  <2> QED BY <1>1, <2>2, <2>3
<1>4. ASSUME NEW i \in 1..Len(s), ~ms[s[i].msg].bot
      PROVE  /\ Plausible(s[i], ms[s[i].msg])
             /\ s[i].msg \notin y /\ (\A j \in (i + 1)..Len(s) : s[j].msg # s[i].msg)
                  => Tells(s[i], ms[s[i].msg])
  <2>1. i + 1 \in 1..n /\ s[i] = q[i + 1]
    BY <1>1
  <2>2. ASSUME \A j \in (i + 1)..Len(s) : s[j].msg # s[i].msg
        PROVE  \A j \in ((i + 1) + 1)..n : q[j].msg # q[i + 1].msg
    <3> TAKE j \in ((i + 1) + 1)..n
    <3>1. j - 1 \in (i + 1)..Len(s) /\ j - 1 \in 1..(n - 1) /\ (j - 1) + 1 = j
      BY <1>1
    <3>2. s[j - 1] = q[j]
      BY <1>1, <3>1
    <3> QED BY <2>1, <2>2, <3>1, <3>2
  <2>3. Plausible(q[i + 1], ms[q[i + 1].msg])
    BY <1>4, <2>1 DEF Ordered, n
  <2>4. ASSUME s[i].msg \notin y, \A j \in (i + 1)..Len(s) : s[j].msg # s[i].msg
        PROVE  Tells(s[i], ms[s[i].msg])
    BY <1>4, <2>1, <2>2, <2>4 DEF Ordered, n
  <2> QED BY <2>1, <2>3, <2>4
<1>5. Ordered(s, ms, b, y)
  BY <1>2, <1>3, <1>4 DEF Ordered
<1> QED BY <1>5 DEF s

\* The first event, and what it tells when it is the only one.
LEMMA OrderedHead ==
    ASSUME NEW q \in Seq(EventType), NEW ms, NEW a, NEW x, q # <<>>,
           Ordered(q, ms, a, x), ~ms[Head(q).msg].bot
    PROVE  /\ ~AwaitsKind(Range(Tail(q)), Head(q).msg, "created")
           /\ ~AwaitsKind(a, Head(q).msg, "deleted")
           /\ Plausible(Head(q), ms[Head(q).msg])
           /\ Head(q).kind = "deleted" => ~Awaits(Range(Tail(q)), Head(q).msg)
           /\ Head(q).msg \notin x /\ ~Awaits(Range(Tail(q)), Head(q).msg)
                => Tells(Head(q), ms[Head(q).msg])
<1> DEFINE s == Tail(q)
           n == Len(q)
<1>1. /\ n \in Nat \ {0} /\ Len(s) = n - 1 /\ Head(q) = q[1]
      /\ \A i \in 1..(n - 1) : s[i] = q[i + 1]
      /\ DOMAIN s = 1..(n - 1)
  BY HeadTailProperties, LenProperties, EmptySeq
<1>2. \A i \in 1..(n - 1) : i + 1 \in 1..n /\ 1 \in 1..n /\ 1 < i + 1
  BY <1>1
<1>3. \A j \in 2..n : j - 1 \in 1..(n - 1) /\ s[j - 1] = q[j]
  <2> TAKE j \in 2..n
  <2>1. j - 1 \in 1..(n - 1) /\ (j - 1) + 1 = j
    BY <1>1
  <2> QED BY <1>1, <2>1
<1>4. 1 \in 1..n /\ 1 + 1 = 2
  BY <1>1
<1> HIDE DEF s, n
<1>5. ASSUME NEW ev \in Range(s), ev.msg = q[1].msg
      PROVE  Before(q[1], ev)
  <2>1. PICK i \in 1..(n - 1) : ev = s[i]
    BY <1>1 DEF Range
  <2> QED BY <1>1, <1>2, <1>5, <2>1 DEF Ordered, n
<1>6. ~AwaitsKind(Range(s), q[1].msg, "created")
  BY <1>5 DEF AwaitsKind, Before
<1>7. q[1].kind = "deleted" => ~Awaits(Range(s), q[1].msg)
  BY <1>5 DEF Awaits, Before
<1>8. ~AwaitsKind(a, q[1].msg, "deleted")
  BY <1>1, <1>4 DEF AwaitsKind, Before, Ordered, n
<1>9. Plausible(q[1], ms[q[1].msg])
  BY <1>1, <1>4 DEF Ordered, n
<1>10. ASSUME ~Awaits(Range(s), q[1].msg), q[1].msg \notin x
       PROVE  Tells(q[1], ms[q[1].msg])
  <2>1. \A j \in 2..n : q[j].msg # q[1].msg
    BY <1>1, <1>3, <1>10 DEF Awaits, Range
  <2>2. \A j \in (1 + 1)..n : q[j].msg # q[1].msg
    BY <1>4, <2>1
  <2> QED BY <1>1, <1>4, <1>10, <2>2 DEF Ordered, n
<1> QED BY <1>1, <1>6, <1>7, <1>8, <1>9, <1>10 DEF s

\* The news of a message is appended.
LEMMA OrderedNews ==
    ASSUME NEW q \in Seq(EventType), NEW ms, NEW new, NEW ev \in EventType,
           NEW a, NEW x, Ordered(q, ms, a, x),
           \A i \in 1..Len(q) :
             /\ new[q[i].msg].bot = ms[q[i].msg].bot
             /\ q[i].msg # ev.msg => new[q[i].msg] = ms[q[i].msg],
           \/ new[ev.msg].bot
           \/ /\ \A i \in 1..Len(q) : q[i].msg = ev.msg =>
                   Before(q[i], ev) /\ Plausible(q[i], new[ev.msg])
              /\ \A e \in a : e.msg = ev.msg => Before(e, ev)
              /\ Plausible(ev, new[ev.msg]) /\ Tells(ev, new[ev.msg])
    PROVE  Ordered(Append(q, ev), new, a, x)
<1> DEFINE s == Append(q, ev)
           n == Len(q)
<1>1. /\ n \in Nat /\ Len(s) = n + 1 /\ s[n + 1] = ev
      /\ \A i \in 1..n : s[i] = q[i]
  BY AppendProperties, LenProperties
<1>2. \A i \in 1..(n + 1) : i \in 1..n \/ i = n + 1
  BY <1>1
<1>3. \A i \in 1..n : n + 1 \in (i + 1)..(n + 1) /\ (i + 1)..n \subseteq (i + 1)..(n + 1)
                      /\ (i + 1)..n \subseteq 1..n
  BY <1>1
<1> HIDE DEF s, n
<1>4. ASSUME NEW i \in 1..Len(s), NEW j \in 1..Len(s),
             i < j, s[i].msg = s[j].msg, ~new[s[i].msg].bot
      PROVE  Before(s[i], s[j])
  <2>1. i \in 1..n /\ (j \in 1..n \/ j = n + 1)
    BY <1>1, <1>4
  <2>2. CASE j \in 1..n
    <3>1. s[i] = q[i] /\ s[j] = q[j] /\ ~ms[q[i].msg].bot
      BY <1>1, <1>4, <2>1, <2>2 DEF n
    <3> QED BY <1>4, <2>1, <2>2, <3>1 DEF Ordered, n
  <2>3. CASE j = n + 1
    BY <1>1, <1>4, <2>1, <2>3 DEF n
  <2> QED BY <2>1, <2>2, <2>3
<1>5. ASSUME NEW e \in a, NEW i \in 1..Len(s), e.msg = s[i].msg, ~new[s[i].msg].bot
      PROVE  Before(e, s[i])
  <2>1. CASE i = n + 1
    BY <1>1, <1>5, <2>1
  <2>2. CASE i \in 1..n
    <3>1. s[i] = q[i] /\ ~ms[q[i].msg].bot
      BY <1>1, <1>5, <2>2 DEF n
    <3> QED BY <1>5, <2>2, <3>1 DEF Ordered, n
  <2> QED BY <1>1, <1>2, <2>1, <2>2
<1>6. ASSUME NEW i \in 1..Len(s), ~new[s[i].msg].bot
      PROVE  /\ Plausible(s[i], new[s[i].msg])
             /\ s[i].msg \notin x /\ (\A j \in (i + 1)..Len(s) : s[j].msg # s[i].msg)
                  => Tells(s[i], new[s[i].msg])
  <2>1. CASE i = n + 1
    BY <1>1, <1>6, <2>1
  <2>2. CASE i \in 1..n
    <3>1. s[i] = q[i] /\ ~ms[q[i].msg].bot
      BY <1>1, <1>6, <2>2 DEF n
    <3>2. CASE q[i].msg = ev.msg
      <4>1. n + 1 \in (i + 1)..Len(s) /\ s[n + 1].msg = s[i].msg
        BY <1>1, <1>3, <2>2, <3>1, <3>2
      <4>2. Plausible(s[i], new[s[i].msg])
        BY <1>6, <2>2, <3>1, <3>2 DEF n
      <4> QED BY <4>1, <4>2
    <3>3. CASE q[i].msg # ev.msg
      <4>1. new[s[i].msg] = ms[q[i].msg]
        BY <2>2, <3>1, <3>3 DEF n
      <4>2. ASSUME \A j \in (i + 1)..Len(s) : s[j].msg # s[i].msg
            PROVE  \A j \in (i + 1)..n : q[j].msg # q[i].msg
        BY <1>1, <1>3, <2>2, <3>1, <4>2
      <4>3. /\ Plausible(q[i], ms[q[i].msg])
            /\ q[i].msg \notin x /\ (\A j \in (i + 1)..n : q[j].msg # q[i].msg)
                 => Tells(q[i], ms[q[i].msg])
        BY <2>2, <3>1 DEF Ordered, n
      <4> QED BY <3>1, <4>1, <4>2, <4>3
    <3> QED BY <3>2, <3>3
  <2> QED BY <1>1, <1>2, <2>1, <2>2
<1>7. Ordered(s, new, a, x)
  BY <1>4, <1>5, <1>6 DEF Ordered
<1> QED BY <1>7 DEF s

\* Only what users do to their messages matters.
LEMMA OrderedKept ==
    ASSUME NEW q \in Seq(EventType), NEW ms, NEW new, NEW a, NEW x,
           Ordered(q, ms, a, x),
           \A i \in 1..Len(q) :
             \/ ms[q[i].msg].bot /\ new[q[i].msg].bot
             \/ new[q[i].msg] = ms[q[i].msg]
    PROVE  Ordered(q, new, a, x)
<1>1. ASSUME NEW i \in 1..Len(q), ~new[q[i].msg].bot
      PROVE  ~ms[q[i].msg].bot /\ new[q[i].msg] = ms[q[i].msg]
  BY <1>1
<1> QED BY <1>1 DEF Ordered

\* An event behind the first one does not change which is the first.
LEMMA TailAppend ==
    ASSUME NEW q \in Seq(EventType), NEW ev \in EventType, q # <<>>
    PROVE  Tail(Append(q, ev)) = Append(Tail(q), ev)
<1> DEFINE a == Append(q, ev)
           t == Tail(q)
           n == Len(q)
<1>1. /\ n \in Nat \ {0} /\ a \in Seq(EventType) /\ Len(a) = n + 1 /\ a[n + 1] = ev
      /\ \A i \in 1..n : a[i] = q[i]
  BY AppendProperties, LenProperties, EmptySeq
<1>2. /\ t \in Seq(EventType) /\ Len(t) = n - 1
      /\ \A i \in 1..(n - 1) : t[i] = q[i + 1]
  BY HeadTailProperties
<1>3. /\ Append(t, ev) \in Seq(EventType) /\ Len(Append(t, ev)) = (n - 1) + 1
      /\ Append(t, ev)[(n - 1) + 1] = ev
      /\ \A i \in 1..(n - 1) : Append(t, ev)[i] = t[i]
  BY <1>2, AppendProperties
<1>4. /\ a # <<>> /\ Tail(a) \in Seq(EventType) /\ Len(Tail(a)) = (n + 1) - 1
      /\ \A i \in 1..((n + 1) - 1) : Tail(a)[i] = a[i + 1]
  <2> HIDE DEF a
  <2>1. a # <<>>
    BY <1>1, EmptySeq
  <2> QED BY <1>1, <2>1, HeadTailProperties
<1> HIDE DEF a, t, n
<1>5. (n - 1) + 1 = n /\ (n + 1) - 1 = n
  BY <1>1
<1>6. ASSUME NEW i \in 1..n PROVE Tail(a)[i] = Append(t, ev)[i]
  <2>1. CASE i = n
    BY <1>1, <1>3, <1>4, <1>5, <2>1
  <2>2. CASE i \in 1..(n - 1)
    <3>1. i + 1 \in 1..n
      BY <1>1, <2>2
    <3> QED BY <1>1, <1>2, <1>3, <1>4, <1>5, <2>2, <3>1
  <2>3. n \in Nat \ {0}
    BY <1>1
  <2>4. i = n \/ i \in 1..(n - 1)
    BY <2>3
  <2> QED BY <2>1, <2>2, <2>4
<1>7. Tail(a) = Append(t, ev)
  BY <1>3, <1>4, <1>5, <1>6, SeqEqual
<1> QED BY <1>7 DEF a, t

-----------------------------------------------------------------------------
(* Delivery: what is still to come for a message, and what has been done.  *)

HasRow(m, t) == \E l \in links : msgs[l.msg].copyOf = m /\ msgs[l.msg].chan = t
Fresh(m, t) ==
    \E k \in 1..Len(msgs) : msgs[k].copyOf = m /\ msgs[k].chan = t /\ Alike(m, k)

\* The users' messages that are to be delivered.
Promised(x) ==
    {m \in 1..Len(msgs) : ~msgs[m].bot /\ ~(OldPost /\ m = 1) /\ m \notin x}

ToCome(c, a) == Range(queue[c]) \cup a

\* A linked copy; or one without a link, of a message that is gone like it: the
\* deletion has removed the group and is yet to be marked as done.
Covered(m, t) == HasRow(m, t) \/ (msgs[m].gone /\ Fresh(m, t))

\* A message that has been copied is covered in every channel, until its deletion
\* is settled; and one with no event left has a copy that is as it is.
Made(m, c, a) ==
    /\ ~AwaitsKind(ToCome(c, a), m, "created")
    /\ ~msgs[m].gone \/ Awaits(Range(queue[c]), m) \/ AwaitsKind(a, m, "deleted")

KeptFor(m, c, a) ==
    \A t \in Channels \ {c} :
        /\ Made(m, c, a) => Covered(m, t)
        /\ ~Awaits(ToCome(c, a), m) => Fresh(m, t)

Kept(c, a, x) == \A m \in Promised(x) : msgs[m].chan = c => KeptFor(m, c, a)

\* Which event the handler of c is in, and whom it serves.
Work(c) ==
    /\ w[c].at \in Serving => Range(w[c].todo) \subseteq Channels \ {c}
    /\ w[c].at \in {"record"} \cup Creating => Ev(c).kind = "created"
    /\ w[c].at \in {"find", "lookup", "apply"} => Ev(c).kind # "created"
    /\ w[c].at = "cleanup" => Ev(c).kind = "deleted"
    /\ w[c].at = "apply" => msgs[w[c].id].copyOf = Ev(c).msg

\* No other event of the message is to come, or, if it is deleted, none that would
\* copy it; and the handler has dealt with t.
Latest(c, a) ==
    IF Ev(c).kind = "deleted" THEN ~AwaitsKind(a, Ev(c).msg, "created")
    ELSE ~Awaits(Range(Tail(queue[c])) \cup a, Ev(c).msg)
Served(c, t) == w[c].at = "cleanup" \/ t \notin Range(w[c].todo)

\* What the handler of c has done for its message in the channels it has dealt
\* with: linked a copy, and brought one up to date if it has the latest event.
Progress(c, a, x) ==
    w[c].at \in Serving \cup {"cleanup"} /\ Ev(c).msg \in Promised(x) =>
      \A t \in Channels \ {c} :
        /\ Served(c, t) /\ Ev(c).kind = "created" => HasRow(Ev(c).msg, t)
        /\ (Served(c, t) \/ (w[c].at = "link" /\ t = Target(c))) /\ Latest(c, a)
             => Fresh(Ev(c).msg, t)

Fits(c, a, x) == Ordered(queue[c], msgs, a, x)

Past(a) ==
    \A e \in a : /\ e \in EventType /\ e.msg \in 1..Len(msgs)
                 /\ ~msgs[e.msg].bot => Plausible(e, msgs[e.msg])

Pending(a, x) ==
    /\ Past(a)
    /\ \A c \in Channels :
         Fits(c, a, x) /\ Work(c) /\ Progress(c, a, x) /\ Kept(c, a, x)

-----------------------------------------------------------------------------
(* What a worker's step leaves alone.                                      *)

\* Others hear only of what the bridge did in their channels.
Told(c, q) ==
    \A d \in Channels \ {c} :
        \/ q[d] = queue[d]
        \/ \E ev \in EventType : msgs'[ev.msg].bot /\ q[d] = Append(queue[d], ev)

\* A worker posts copies and changes those of its own message.
Copying(c) ==
    /\ \A k \in 1..Len(msgs) :
         \/ msgs'[k] = msgs[k]
         \/ msgs[k].copyOf = Ev(c).msg /\ (msgs[k].gone => msgs'[k].gone)
    /\ \A k \in 1..Len(msgs') : k \in 1..Len(msgs) \/ msgs'[k].bot

Effect(c) ==
    /\ Copying(c)
    /\ \A l \in links : \/ l \in links'
                        \/ msgs[l.msg].copyOf \in {0, Ev(c).msg}
    /\ Told(c, queue')
    /\ \/ queue'[c] = queue[c] /\ UNCHANGED dead
       \/ queue'[c] = Tail(queue[c]) /\ w'[c] = Idle

\* An event that dies has its turn early when it is revived, or its message is
\* one that nothing is promised for.
Books(c, a, x, b, y) ==
    /\ b \in {a, a \cup {Ev(c)}} /\ y \in {x, x \cup {Ev(c).msg}}
    /\ UNCHANGED dead => b = a /\ y = x
    /\ Ev(c) \in dead' => Ev(c) \in b \/ Ev(c).msg \in y

\* What it has to see to.
Own(c, b, y) ==
    /\ Work(c)' /\ Progress(c, b, y)'
    /\ \A m \in 1..Len(msgs) : m = Ev(c).msg /\ m \in Promised(y)' => KeptFor(m, c, b)'

\* Users' messages stay as they are, and none is added.
LEMMA UsersKept ==
    ASSUME Facts, Grown, NEW c \in Channels, queue[c] # <<>>, Copying(c)
    PROVE  /\ \A m \in 1..Len(msgs) : ~msgs[m].bot => msgs'[m] = msgs[m]
           /\ \A y, x : x \subseteq y => \A m \in Promised(y)' : m \in Promised(x)
<1>1. Ev(c).msg \in 1..Len(msgs)
  BY HeadKnown DEF Facts
<1>2. \A m \in 1..Len(msgs) : ~msgs[m].bot => msgs[m].copyOf = 0
  BY DEF Facts, Guarded, Authors
<1>3. \A m \in 1..Len(msgs) : ~msgs[m].bot => msgs'[m] = msgs[m]
  BY <1>1, <1>2 DEF Copying
<1>4. ASSUME NEW y, NEW x, x \subseteq y, NEW m \in Promised(y)'
      PROVE  m \in Promised(x)
  <2>1. m \in 1..Len(msgs') /\ ~msgs'[m].bot /\ ~(OldPost /\ m = 1) /\ m \notin y
    BY <1>4 DEF Promised
  <2>2. m \in 1..Len(msgs)
    BY <2>1 DEF Copying
  <2>3. ~msgs[m].bot
    BY <2>1, <2>2 DEF Grown
  <2> QED BY <1>4, <2>1, <2>2, <2>3 DEF Promised
<1> QED BY <1>3, <1>4

\* What has been done for other messages is not undone.
LEMMA OthersDone ==
    ASSUME Facts, Grown, NEW c \in Channels, queue[c] # <<>>, Effect(c),
           NEW m \in 1..Len(msgs), m # Ev(c).msg, ~msgs[m].bot, NEW t
    PROVE  /\ HasRow(m, t) => HasRow(m, t)'
           /\ Fresh(m, t) => Fresh(m, t)'
           /\ Covered(m, t) => Covered(m, t)'
<1>1. Ev(c).msg \in 1..Len(msgs) /\ Len(msgs) \in Nat /\ Len(msgs') \in Nat
      /\ Len(msgs') >= Len(msgs)
  BY HeadKnown, LenProperties DEF Facts, Structure, Typed, Grown
<1>2. msgs'[m] = msgs[m]
  BY UsersKept DEF Effect
<1>3. ASSUME HasRow(m, t) PROVE HasRow(m, t)'
  <2>1. PICK l \in links : msgs[l.msg].copyOf = m /\ msgs[l.msg].chan = t
    BY <1>3 DEF HasRow
  <2>2. l.msg \in 1..Len(msgs)
    BY DEF Facts, Structure, Rows
  <2>3. l \in links'
    BY <1>1, <2>1 DEF Effect, Copying
  <2>4. msgs'[l.msg].copyOf = m /\ msgs'[l.msg].chan = t
    BY <2>1, <2>2 DEF Grown
  <2> QED BY <2>3, <2>4 DEF HasRow
<1>4. ASSUME Fresh(m, t) PROVE Fresh(m, t)'
  <2>1. PICK k \in 1..Len(msgs) : msgs[k].copyOf = m /\ msgs[k].chan = t /\ Alike(m, k)
    BY <1>4 DEF Fresh
  <2>2. msgs'[k] = msgs[k]
    BY <2>1 DEF Effect, Copying
  <2>3. k \in 1..Len(msgs')
    BY <1>1
  <2> QED BY <1>2, <2>1, <2>2, <2>3 DEF Fresh, Alike
<1> QED BY <1>2, <1>3, <1>4 DEF Covered

LEMMA FitsKept ==
    ASSUME Facts, Grown, NEW c \in Channels, queue[c] # <<>>, Effect(c),
           NEW a, NEW x, NEW b, NEW y, Books(c, a, x, b, y),
           NEW d \in Channels, Fits(d, a, x)
    PROVE  Fits(d, b, y)'
<1>1. queue \in [Channels -> Seq(EventType)]
  BY DEF Facts, Structure, Typed
<1>2. Ordered(queue[d], msgs', a, x)
  <2>1. \A m \in 1..Len(msgs) : msgs'[m].bot = msgs[m].bot
    BY DEF Grown
  <2>2. \A m \in 1..Len(msgs) : ~msgs[m].bot => msgs'[m] = msgs[m]
    BY UsersKept DEF Effect
  <2>3. \A i \in 1..Len(queue[d]) : queue[d][i].msg \in 1..Len(msgs)
    BY DEF Facts, Structure, Known
  <2>4. \A i \in 1..Len(queue[d]) :
          \/ msgs[queue[d][i].msg].bot /\ msgs'[queue[d][i].msg].bot
          \/ msgs'[queue[d][i].msg] = msgs[queue[d][i].msg]
    BY <2>1, <2>2, <2>3
  <2> QED BY <1>1, <2>4, OrderedKept DEF Fits
<1>3. CASE d = c
  <2>1. CASE queue'[c] = queue[c] /\ UNCHANGED dead
    BY <1>2, <1>3, <2>1 DEF Fits, Books
  <2>2. CASE queue'[c] = Tail(queue[c])
    <3>1. PICK q \in Seq(EventType) : q = queue[c]
      BY <1>1
    <3>2. PICK ms : ms = msgs'
      OBVIOUS
    <3>3. Ordered(q, ms, a, x) /\ q # <<>> /\ b \subseteq a \cup {Head(q)} /\ x \subseteq y
      BY <1>2, <1>3, <3>1, <3>2 DEF Books, Ev
    <3>4. Ordered(Tail(q), ms, b, y)
      BY <3>3, OrderedTail
    <3> QED BY <1>3, <2>2, <3>1, <3>2, <3>4 DEF Fits
  <2> QED BY <2>1, <2>2 DEF Effect
<1>4. CASE d # c
  <2>1. Ordered(queue[d], msgs', b, y)
    <3>1. \A i \in 1..Len(queue[d]) : queue[d][i].msg # Ev(c).msg
      BY <1>4, HeadKnown DEF Facts, Structure, Known
    <3>2. PICK q, ms, ev : q = queue[d] /\ ms = msgs' /\ ev = Ev(c)
      OBVIOUS
    <3>3. /\ Ordered(q, ms, a, x) /\ b \subseteq a \cup {ev} /\ x \subseteq y
          /\ \A i \in 1..Len(q) : q[i].msg # ev.msg
      BY <1>2, <3>1, <3>2 DEF Books
    <3>4. Ordered(q, ms, b, y)
      BY <3>3 DEF Ordered
    <3> QED BY <3>2, <3>4
  <2>2. CASE queue'[d] = queue[d]
    BY <2>1, <2>2 DEF Fits
  <2>3. ASSUME NEW ev \in EventType, msgs'[ev.msg].bot, queue'[d] = Append(queue[d], ev)
        PROVE  Fits(d, b, y)'
    <3>1. PICK q \in Seq(EventType) : q = queue[d]
      BY <1>1
    <3>2. PICK ms : ms = msgs'
      OBVIOUS
    <3>3. Ordered(q, ms, b, y) /\ ms[ev.msg].bot
      BY <2>1, <2>3, <3>1, <3>2
    <3>4. Ordered(Append(q, ev), ms, b, y)
      BY <3>3, OrderedNews
    <3> QED BY <2>3, <3>1, <3>2, <3>4 DEF Fits
  <2> QED BY <1>4, <2>2, <2>3 DEF Effect, Told
<1> QED BY <1>3, <1>4

\* For other messages of users the queues say what they said before.
LEMMA SameNews ==
    ASSUME Facts, Grown, NEW c \in Channels, queue[c] # <<>>, Effect(c),
           NEW d \in Channels, NEW m \in 1..Len(msgs), ~msgs[m].bot, m # Ev(c).msg
    PROVE  /\ Awaits(Range(queue'[d]), m) <=> Awaits(Range(queue[d]), m)
           /\ \A kind : AwaitsKind(Range(queue'[d]), m, kind)
                          <=> AwaitsKind(Range(queue[d]), m, kind)
<1>1. queue \in [Channels -> Seq(EventType)]
  BY DEF Facts, Structure, Typed
<1>2. CASE queue'[d] = queue[d]
  BY <1>2
<1>3. CASE d = c /\ queue'[c] = Tail(queue[c])
  <2>1. Range(queue[c]) = {Ev(c)} \cup Range(queue'[c])
    BY <1>1, <1>3, RangeTail DEF Ev
  <2> QED BY <1>3, <2>1 DEF Awaits, AwaitsKind
<1>4. ASSUME NEW ev \in EventType, msgs'[ev.msg].bot, queue'[d] = Append(queue[d], ev)
      PROVE  /\ Awaits(Range(queue'[d]), m) <=> Awaits(Range(queue[d]), m)
             /\ \A kind : AwaitsKind(Range(queue'[d]), m, kind)
                            <=> AwaitsKind(Range(queue[d]), m, kind)
  <2>1. ev.msg # m
    BY <1>4 DEF Grown
  <2>2. Range(queue'[d]) = Range(queue[d]) \cup {ev}
    BY <1>1, <1>4, RangeAppend
  <2> QED BY <2>1, <2>2 DEF Awaits, AwaitsKind
<1> QED BY <1>2, <1>3, <1>4 DEF Effect, Told

LEMMA SameBooks ==
    ASSUME NEW c, NEW a, NEW x, NEW b, NEW y, Books(c, a, x, b, y), NEW m, m # Ev(c).msg
    PROVE  /\ Awaits(b, m) <=> Awaits(a, m)
           /\ \A kind : AwaitsKind(b, m, kind) <=> AwaitsKind(a, m, kind)
BY DEF Books, Awaits, AwaitsKind

LEMMA KeptOthers ==
    ASSUME Facts, Grown, NEW c \in Channels, queue[c] # <<>>, Effect(c),
           NEW a, NEW x, NEW b, NEW y, Books(c, a, x, b, y),
           NEW d \in Channels, Kept(d, a, x),
           NEW m \in Promised(y)', msgs'[m].chan = d, d # c \/ m # Ev(c).msg
    PROVE  KeptFor(m, d, b)'
<1>1. m \in Promised(x) /\ m \in 1..Len(msgs) /\ ~msgs[m].bot
  BY UsersKept DEF Books, Effect, Promised
<1>2. msgs[m].chan = d /\ msgs'[m] = msgs[m]
  BY <1>1, UsersKept DEF Effect
<1>3. KeptFor(m, d, a)
  BY <1>1, <1>2 DEF Kept
<1>4. m # Ev(c).msg
  BY <1>2, HeadKnown DEF Facts
<1>5. /\ Awaits(Range(queue'[d]), m) <=> Awaits(Range(queue[d]), m)
      /\ \A kind : AwaitsKind(Range(queue'[d]), m, kind)
                     <=> AwaitsKind(Range(queue[d]), m, kind)
  BY <1>1, <1>4, SameNews
<1>6. /\ Awaits(b, m) <=> Awaits(a, m)
      /\ \A kind : AwaitsKind(b, m, kind) <=> AwaitsKind(a, m, kind)
  BY <1>4, SameBooks
<1>7. /\ Awaits(ToCome(d, b)', m) <=> Awaits(ToCome(d, a), m)
      /\ \A kind : AwaitsKind(ToCome(d, b)', m, kind) <=> AwaitsKind(ToCome(d, a), m, kind)
  BY <1>5, <1>6 DEF ToCome, Awaits, AwaitsKind
<1>8. \A t \in Channels \ {d} : (Covered(m, t) => Covered(m, t)') /\ (Fresh(m, t) => Fresh(m, t)')
  BY <1>1, <1>4, OthersDone
<1>9. Made(m, d, b)' => Made(m, d, a)
  BY <1>2, <1>5, <1>6, <1>7 DEF Made
<1>10. ASSUME NEW t \in Channels \ {d}
       PROVE  /\ Made(m, d, b)' => Covered(m, t)'
              /\ ~Awaits(ToCome(d, b)', m) => Fresh(m, t)'
  BY <1>3, <1>7, <1>8, <1>9 DEF KeptFor
<1> QED BY <1>10 DEF KeptFor

\* The other handlers go on with what they have.
LEMMA OtherHandlers ==
    ASSUME Facts, Grown, NEW c \in Channels, queue[c] # <<>>, Effect(c), Moves(c),
           NEW a, NEW x, NEW b, NEW y, Books(c, a, x, b, y),
           NEW d \in Channels \ {c}, Work(d), Progress(d, a, x)
    PROVE  Work(d)' /\ Progress(d, b, y)'
<1>0. CASE w'[d] = Idle
  BY <1>0, IdleType DEF Work, Progress, Serving, Creating
<1> SUFFICES ASSUME w'[d] # Idle PROVE Work(d)' /\ Progress(d, b, y)'
  BY <1>0
<1>1. w'[d] = w[d] /\ SameHead(d)
  BY DEF Moves
<1>2. CASE w[d].at \in {"idle", "guard"}
  BY <1>1, <1>2 DEF Work, Progress, Serving, Creating
<1>3. CASE w[d].at \notin {"idle", "guard"}
  <2>1. PICK m \in 1..Len(msgs) : m = Ev(d).msg /\ msgs[m].chan = d /\ ~msgs[m].bot
                                 /\ queue[d] # <<>>
    BY <1>3, OwnEvent
  <2>2. Ev(d)' = Ev(d)
    BY <1>1, <2>1 DEF SameHead
  <2>3. Target(d)' = Target(d)
    BY <1>1 DEF Target
  <2>4. \A t : Served(d, t)' <=> Served(d, t)
    BY <1>1 DEF Served
  <2>5. w[d].at = "apply" => w[d].id \in 1..Len(msgs)
    BY DEF Facts, Structure, Handler
  <2>6. Work(d)'
    BY <1>1, <2>2, <2>5 DEF Work, Grown
  <2>7. Latest(d, b)' <=> Latest(d, a)
    <3>1. queue \in [Channels -> Seq(EventType)]
      BY DEF Facts, Structure, Typed
    <3>2. Awaits(Range(Tail(queue'[d])), m) <=> Awaits(Range(Tail(queue[d])), m)
      <4>1. ASSUME NEW ev \in EventType, msgs'[ev.msg].bot, queue'[d] = Append(queue[d], ev)
            PROVE  Awaits(Range(Tail(queue'[d])), m) <=> Awaits(Range(Tail(queue[d])), m)
        <5> DEFINE s == Tail(queue[d])
        <5>1. Tail(queue'[d]) = Append(s, ev) /\ s \in Seq(EventType)
          BY <2>1, <3>1, <4>1, TailAppend, HeadTailProperties
        <5>2. ev.msg # m
          BY <2>1, <4>1 DEF Grown
        <5> HIDE DEF s
        <5>3. Range(Append(s, ev)) = Range(s) \cup {ev}
          BY <5>1, RangeAppend
        <5>4. Awaits(Range(Append(s, ev)), m) <=> Awaits(Range(s), m)
          BY <5>2, <5>3 DEF Awaits
        <5> QED BY <5>1, <5>4 DEF s
      <4> QED BY <4>1 DEF Effect, Told
    <3>3. /\ Awaits(b, m) <=> Awaits(a, m)
          /\ \A kind : AwaitsKind(b, m, kind) <=> AwaitsKind(a, m, kind)
      <4>1. m # Ev(c).msg
        BY <2>1, HeadKnown DEF Facts
      <4> QED BY <4>1, SameBooks
    <3>4. Latest(d, b)' <=> IF Ev(d).kind = "deleted" THEN ~AwaitsKind(b, m, "created")
                            ELSE ~Awaits(Range(Tail(queue'[d])) \cup b, m)
      BY <2>1, <2>2 DEF Latest
    <3>5. Awaits(Range(Tail(queue'[d])) \cup b, m) <=> Awaits(Range(Tail(queue[d])) \cup a, m)
      BY <3>2, <3>3 DEF Awaits
    <3> QED BY <2>1, <3>3, <3>4, <3>5 DEF Latest
  <2>8. \A t : (HasRow(m, t) => HasRow(m, t)') /\ (Fresh(m, t) => Fresh(m, t)')
    <3>1. m # Ev(c).msg
      BY <2>1, HeadKnown DEF Facts
    <3> QED BY <2>1, <3>1, OthersDone
  <2>9. m \in Promised(y)' => m \in Promised(x)
    BY UsersKept DEF Effect, Books
  <2>10. ASSUME w[d].at \in Serving \cup {"cleanup"}, m \in Promised(y)',
                NEW t \in Channels \ {d}
         PROVE  /\ Served(d, t) /\ Ev(d).kind = "created" => HasRow(m, t)'
                /\ (Served(d, t) \/ (w[d].at = "link" /\ t = Target(d))) /\ Latest(d, a)
                     => Fresh(m, t)'
    BY <2>1, <2>8, <2>9, <2>10 DEF Progress
  <2>11. Ev(d)'.msg = m
    BY <2>1, <2>2
  <2>12. Progress(d, b, y)'
    BY <1>1, <2>2, <2>3, <2>4, <2>7, <2>10, <2>11 DEF Progress
  <2> QED BY <2>6, <2>12
<1> QED BY <1>2, <1>3

\* So it is enough to look at what a worker does for its own message.
LEMMA PendingFromOwn ==
    ASSUME Facts, Grown, NEW c \in Channels, queue[c] # <<>>,
           Effect(c), Moves(c), NEW a, NEW x, NEW b, NEW y, Pending(a, x),
           Books(c, a, x, b, y), Own(c, b, y)
    PROVE  Pending(b, y)'
<1>1. \A d \in Channels : Fits(d, b, y)'
  BY FitsKept DEF Pending
<1>2. \A d \in Channels : Work(d)' /\ Progress(d, b, y)'
  BY OtherHandlers DEF Pending, Own
<1>3. ASSUME NEW d \in Channels PROVE Kept(d, b, y)'
  <2>1. ASSUME NEW m \in Promised(y)', msgs'[m].chan = d PROVE KeptFor(m, d, b)'
    <3>1. m \in Promised(x)
      BY UsersKept DEF Effect, Books
    <3>2. m \in 1..Len(msgs)
      BY <3>1 DEF Promised
    <3>3. CASE d # c \/ m # Ev(c).msg
      BY <2>1, <3>3, KeptOthers DEF Pending
    <3>4. CASE d = c /\ m = Ev(c).msg
      BY <3>2, <3>4 DEF Own
    <3> QED BY <3>3, <3>4
  <2> QED BY <2>1 DEF Kept
<1>4. Past(b)'
  <2>1. Len(msgs) \in Nat /\ Len(msgs') \in Nat /\ Len(msgs') >= Len(msgs)
    BY LenProperties DEF Facts, Structure, Typed, Grown
  <2>2. ASSUME NEW e \in b
        PROVE  /\ e \in EventType /\ e.msg \in 1..Len(msgs)
               /\ ~msgs[e.msg].bot => Plausible(e, msgs[e.msg])
    <3>1. CASE e \in a
      BY <3>1 DEF Pending, Past
    <3>2. CASE e = Ev(c)
      <4>1. queue[c] \in Seq(EventType) /\ Ordered(queue[c], msgs, a, x)
        BY DEF Facts, Structure, Typed, Pending, Fits
      <4>2. ~msgs[e.msg].bot => Plausible(e, msgs[e.msg])
        BY <3>2, <4>1, OrderedHead DEF Ev
      <4> QED BY <3>2, <4>2, HeadKnown DEF Facts
    <3> QED BY <3>1, <3>2 DEF Books
  <2>3. ASSUME NEW e \in b
        PROVE  /\ e.msg \in 1..Len(msgs')
               /\ ~msgs'[e.msg].bot => Plausible(e, msgs'[e.msg])
    <3>1. PICK m \in 1..Len(msgs) : m = e.msg
      BY <2>2
    <3>2. msgs'[m].bot = msgs[m].bot /\ (~msgs[m].bot => msgs'[m] = msgs[m])
      BY UsersKept DEF Grown, Effect
    <3> QED BY <2>1, <2>2, <3>1, <3>2
  <2> QED BY <2>2, <2>3 DEF Past
<1> QED BY <1>1, <1>2, <1>3, <1>4 DEF Pending

-----------------------------------------------------------------------------
(* How a handler's step ends.                                              *)

Answer(c, q) ==
    q \in [Channels -> Seq(EventType)] /\ Told(c, q) /\ q[c] = queue[c]

LEMMA AnswerNone ==
    ASSUME Structure, NEW c \in Channels
    PROVE  Answer(c, queue)
BY DEF Structure, Typed, Answer, Told

LEMMA AnswerTarget ==
    ASSUME Structure, NEW c \in Channels, NEW t \in Channels \ {c},
           NEW ev \in EventType, msgs'[ev.msg].bot
    PROVE  Answer(c, Tell(queue, t, ev))
<1>1. queue \in [Channels -> Seq(EventType)]
  BY DEF Structure, Typed
<1>2. Append(queue[t], ev) \in Seq(EventType)
  BY <1>1, AppendProperties
<1> DEFINE q == Tell(queue, t, ev)
<1>3. /\ q \in [Channels -> Seq(EventType)]
      /\ q[t] = Append(queue[t], ev)
      /\ \A d \in Channels \ {t} : q[d] = queue[d]
  BY <1>1, <1>2 DEF Tell
<1> HIDE DEF q
<1>4. Answer(c, q)
  BY <1>3 DEF Answer, Told
<1> QED BY <1>4 DEF q

\* Done for the handler's event in every channel.
Done(c, a, x) ==
    \A m \in 1..Len(msgs) : m = Ev(c).msg /\ m \in Promised(x)' =>
      \A t \in Channels \ {c} :
        /\ Ev(c).kind # "deleted" /\ ~AwaitsKind(a, m, "created") => Covered(m, t)'
        /\ Latest(c, a) => Fresh(m, t)'

LEMMA OwnIdle ==
    ASSUME NEW c \in Channels, w'[c] = Idle
    PROVE  Work(c)' /\ \A b, y : Progress(c, b, y)'
BY IdleType DEF Work, Progress, Serving, Creating

LEMMA RowKept ==
    ASSUME Structure, Grown, links \subseteq links', NEW m, NEW t, HasRow(m, t)
    PROVE  HasRow(m, t)'
<1>1. PICK l \in links : msgs[l.msg].copyOf = m /\ msgs[l.msg].chan = t
  BY DEF HasRow
<1>2. l.msg \in 1..Len(msgs)
  BY DEF Structure, Rows
<1> QED BY <1>1, <1>2 DEF HasRow, Grown

LEMMA CoveredKept ==
    ASSUME Facts, Grown, NEW c \in Channels, queue[c] # <<>>, Copying(c),
           links \subseteq links', NEW m \in 1..Len(msgs), ~msgs[m].bot, NEW t, Covered(m, t)
    PROVE  Covered(m, t)'
<1>1. CASE HasRow(m, t)
  BY <1>1, RowKept DEF Facts, Covered
<1>2. CASE msgs[m].gone /\ Fresh(m, t)
  <2>1. msgs'[m] = msgs[m]
    BY UsersKept
  <2>2. PICK k \in 1..Len(msgs) : msgs[k].copyOf = m /\ msgs[k].chan = t /\ Alike(m, k)
    BY <1>2 DEF Fresh
  <2>3. k \in 1..Len(msgs')
    BY LenProperties DEF Facts, Structure, Typed, Grown
  <2>4. /\ msgs[m].gone \in BOOLEAN /\ msgs[k].gone \in BOOLEAN /\ msgs'[k].gone \in BOOLEAN
    <3>1. msgs[m] \in MessageType /\ msgs[k] \in MessageType /\ msgs'[k] \in MessageType
      BY <2>3, ElementOfSeq DEF Facts, Structure, Typed, Grown
    <3> QED BY <3>1 DEF MessageType
  <2>5. msgs[k].gone
    BY <1>2, <2>2, <2>4 DEF Alike
  <2>6. msgs'[k].gone = TRUE /\ msgs'[m].gone = TRUE
    <3>1. msgs'[k].gone
      BY <2>5 DEF Copying
    <3> QED BY <1>2, <2>1, <2>4, <3>1
  <2>7. msgs'[k].copyOf = m /\ msgs'[k].chan = t
    BY <2>2 DEF Grown
  <2> QED BY <2>3, <2>6, <2>7 DEF Covered, Fresh, Alike
<1> QED BY <1>1, <1>2 DEF Covered

\* What the first event of c says of its message, and what follows it.
LEMMA HeadNews ==
    ASSUME Facts, NEW a, NEW x, Pending(a, x), NEW c \in Channels, queue[c] # <<>>,
           NEW m \in 1..Len(msgs), m = Ev(c).msg, ~msgs[m].bot
    PROVE  /\ Awaits(Range(queue[c]), m)
           /\ \A kind : AwaitsKind(Range(queue[c]), m, kind)
                <=> AwaitsKind(Range(Tail(queue[c])), m, kind) \/ Ev(c).kind = kind
           /\ ~AwaitsKind(Range(Tail(queue[c])), m, "created")
           /\ ~AwaitsKind(a, m, "deleted")
           /\ Ev(c).kind = "deleted" =>
                msgs[m].gone = TRUE /\ ~Awaits(Range(Tail(queue[c])), m)
           /\ m \notin x /\ Latest(c, a) /\ Ev(c).kind # "deleted" =>
                msgs[m].gone = FALSE /\ Ev(c).text = msgs[m].text
<1>1. queue[c] \in Seq(EventType) /\ Ordered(queue[c], msgs, a, x)
  BY DEF Facts, Structure, Typed, Pending, Fits
<1>2. msgs[m].gone \in BOOLEAN
  <2>1. msgs[m] \in MessageType
    BY ElementOfSeq DEF Facts, Structure, Typed
  <2> QED BY <2>1 DEF MessageType
<1>3. Range(queue[c]) = {Ev(c)} \cup Range(Tail(queue[c]))
  BY <1>1, RangeTail DEF Ev
<1>4. /\ ~AwaitsKind(Range(Tail(queue[c])), m, "created")
      /\ ~AwaitsKind(a, m, "deleted")
      /\ Plausible(Ev(c), msgs[m])
      /\ Ev(c).kind = "deleted" => ~Awaits(Range(Tail(queue[c])), m)
      /\ m \notin x /\ ~Awaits(Range(Tail(queue[c])), m) => Tells(Ev(c), msgs[m])
  BY <1>1, OrderedHead DEF Ev
<1>5. Latest(c, a) => ~Awaits(Range(Tail(queue[c])), m)
  BY <1>4 DEF Latest, Awaits
<1>6. m \notin x /\ Latest(c, a) /\ Ev(c).kind # "deleted" =>
        msgs[m].gone = FALSE /\ Ev(c).text = msgs[m].text
  BY <1>2, <1>4, <1>5 DEF Tells
<1>7. Ev(c).kind = "deleted" => msgs[m].gone = TRUE
  BY <1>2, <1>4 DEF Plausible
<1> QED BY <1>3, <1>4, <1>6, <1>7 DEF Awaits, AwaitsKind

\* The event is settled.
LEMMA EndsWell ==
    ASSUME Facts, NEW a, NEW x, Pending(a, x), Grown, NEW c \in Channels,
           queue[c] # <<>>, Copying(c),
           \A l \in links : l \in links' \/ msgs[l.msg].copyOf \in {0, Ev(c).msg},
           NEW q, Answer(c, q), Finish(c, q), Done(c, a, x)
    PROVE  Effect(c) /\ Own(c, a, x)
<1>1. queue \in [Channels -> Seq(EventType)] /\ w \in [Channels -> WorkType]
  BY DEF Facts, Structure, Typed
<1>2. w'[c] = Idle
  BY <1>1 DEF Finish, Do
<1>3. queue'[c] = Tail(queue[c]) /\ \A d \in Channels \ {c} : queue'[d] = q[d]
  BY DEF Finish, Answer
<1>4. Effect(c)
  BY <1>2, <1>3 DEF Effect, Answer, Told
<1>5. ASSUME NEW m \in 1..Len(msgs), m = Ev(c).msg, m \in Promised(x)'
      PROVE  KeptFor(m, c, a)'
  <2>1. ~msgs[m].bot /\ msgs'[m] = msgs[m]
    BY <1>5, UsersKept DEF Promised
  <2>2. /\ ~AwaitsKind(a, m, "deleted")
        /\ Ev(c).kind = "deleted" =>
             msgs[m].gone = TRUE /\ ~Awaits(Range(queue'[c]), m)
    BY <1>3, <1>5, <2>1, HeadNews
  <2>3. ~Awaits(ToCome(c, a)', m) => Latest(c, a)
    BY <1>3, <1>5 DEF Latest, ToCome, Awaits, AwaitsKind
  <2>4. \A t \in Channels \ {c} :
          /\ Ev(c).kind # "deleted" /\ ~AwaitsKind(a, m, "created") => Covered(m, t)'
          /\ Latest(c, a) => Fresh(m, t)'
    BY <1>5 DEF Done
  <2>5. Made(m, c, a)' => Ev(c).kind # "deleted" /\ ~AwaitsKind(a, m, "created")
    BY <2>1, <2>2 DEF Made, ToCome, AwaitsKind
  <2>6. ASSUME NEW t \in Channels \ {c}
        PROVE  /\ Made(m, c, a)' => Covered(m, t)'
               /\ ~Awaits(ToCome(c, a)', m) => Fresh(m, t)'
    BY <2>3, <2>4, <2>5
  <2> QED BY <2>6 DEF KeptFor
<1> QED BY <1>2, <1>4, <1>5, OwnIdle DEF Own

\* The handler keeps its event: there is no news to deliver yet.
LEMMA StaysWell ==
    ASSUME Facts, NEW a, NEW x, Pending(a, x), Grown, NEW c \in Channels,
           queue[c] # <<>>, Copying(c), links \subseteq links', UNCHANGED dead,
           Answer(c, queue'), Work(c)', Progress(c, a, x)'
    PROVE  Effect(c) /\ Own(c, a, x)
<1>1. Effect(c)
  BY DEF Effect, Answer
<1>2. ASSUME NEW m \in 1..Len(msgs), m = Ev(c).msg, m \in Promised(x)'
      PROVE  KeptFor(m, c, a)'
  <2>1. m \in Promised(x) /\ ~msgs[m].bot /\ msgs'[m] = msgs[m] /\ msgs[m].chan = c
    BY <1>2, UsersKept, HeadKnown DEF Facts, Promised
  <2>2. queue'[c] = queue[c] /\ Awaits(Range(queue[c]), m)
    BY <1>2, <2>1, HeadNews DEF Answer
  <2>3. KeptFor(m, c, a)
    BY <2>1 DEF Pending, Kept
  <2>4. \A t : Covered(m, t) => Covered(m, t)'
    BY <2>1, CoveredKept
  <2>5. (Made(m, c, a)' <=> Made(m, c, a)) /\ Awaits(ToCome(c, a)', m)
    BY <2>1, <2>2 DEF Made, ToCome, Awaits
  <2>6. ASSUME NEW t \in Channels \ {c}
        PROVE  /\ Made(m, c, a)' => Covered(m, t)'
               /\ ~Awaits(ToCome(c, a)', m) => Fresh(m, t)'
    BY <2>3, <2>4, <2>5 DEF KeptFor
  <2> QED BY <2>6 DEF KeptFor
<1> QED BY <1>1, <1>2 DEF Own

\* The event has died: nothing is promised any more, or it may be revived.
LEMMA DiesWell ==
    ASSUME Facts, NEW a, NEW x, NEW b, NEW y, Pending(a, x), Grown, NEW c \in Channels,
           queue[c] # <<>>, Copying(c), UNCHANGED links, NEW q, Answer(c, q),
           Finish(c, q), dead' = dead \cup {Ev(c)}, Books(c, a, x, b, y)
    PROVE  Effect(c) /\ Own(c, b, y)
<1>1. queue \in [Channels -> Seq(EventType)] /\ w \in [Channels -> WorkType]
  BY DEF Facts, Structure, Typed
<1>2. w'[c] = Idle
  BY <1>1 DEF Finish, Do
<1>3. queue'[c] = Tail(queue[c]) /\ \A d \in Channels \ {c} : queue'[d] = q[d]
  BY DEF Finish, Answer
<1>4. Effect(c)
  BY <1>2, <1>3 DEF Effect, Answer, Told
<1>5. ASSUME NEW m \in 1..Len(msgs), m = Ev(c).msg, m \in Promised(y)'
      PROVE  KeptFor(m, c, b)'
  <2>1. m \in Promised(x) /\ ~msgs[m].bot /\ msgs'[m] = msgs[m] /\ msgs[m].chan = c
    BY <1>5, UsersKept, HeadKnown DEF Facts, Promised, Books
  <2>2. m \notin y
    BY <1>5 DEF Promised
  <2>3. Ev(c) \in b
    BY <1>5, <2>2 DEF Books
  <2>4. Range(queue[c]) = {Ev(c)} \cup Range(queue'[c])
    BY <1>1, <1>3, RangeTail DEF Ev
  <2>5. ToCome(c, b)' = ToCome(c, a)
    BY <2>3, <2>4 DEF ToCome, Books
  <2>6. KeptFor(m, c, a) /\ Awaits(Range(queue[c]), m)
    BY <1>5, <2>1, HeadNews DEF Pending, Kept
  <2>7. Made(m, c, b)' => Made(m, c, a)
    BY <2>5, <2>6 DEF Made
  <2>8. Awaits(ToCome(c, b)', m)
    BY <2>5, <2>6 DEF ToCome, Awaits
  <2>9. \A t : Covered(m, t) => Covered(m, t)'
    BY <2>1, CoveredKept
  <2>10. ASSUME NEW t \in Channels \ {c}
         PROVE  /\ Made(m, c, b)' => Covered(m, t)'
                /\ ~Awaits(ToCome(c, b)', m) => Fresh(m, t)'
    BY <2>6, <2>7, <2>8, <2>9 DEF KeptFor
  <2> QED BY <2>10 DEF KeptFor
<1> QED BY <1>2, <1>4, <1>5, OwnIdle DEF Own

\* It raises: the event is tried again, or dies.
LEMMA RaisesWell ==
    ASSUME Facts, NEW a, NEW x, NEW b, NEW y, Pending(a, x), Grown, NEW c \in Channels,
           queue[c] # <<>>, Copying(c), UNCHANGED links, NEW q, Answer(c, q),
           NEW retryable, Fail(c, retryable, q), Books(c, a, x, b, y)
    PROVE  Effect(c) /\ Own(c, b, y)
<1>1. w \in [Channels -> WorkType]
  BY DEF Facts, Structure, Typed
<1>2. CASE queue' = q /\ Do(c, Idle) /\ UNCHANGED dead
  <2>1. w'[c] = Idle
    BY <1>1, <1>2 DEF Do
  <2>2. b = a /\ y = x
    BY <1>2 DEF Books
  <2>3. Work(c)' /\ Progress(c, a, x)'
    BY <2>1, OwnIdle
  <2> QED BY <1>2, <2>2, <2>3, StaysWell
<1>3. CASE Finish(c, q) /\ dead' = dead \cup {Ev(c)}
  BY <1>3, DiesWell
<1> QED BY <1>2, <1>3 DEF Fail

\* What is done once may be done again: the event is there still, in the queue or
\* in the DLQ.
LEMMA DoneTwice ==
    ASSUME Facts, NEW a, NEW x, Pending(a, x), Grown, NEW c \in Channels,
           queue[c] # <<>>, Copying(c), Done(c, a, x), NEW b, NEW y, Books(c, a, x, b, y),
           NEW m \in Promised(y)', m \in 1..Len(msgs), m = Ev(c).msg, ToCome(c, b)' = ToCome(c, a)
    PROVE  KeptFor(m, c, b)'
<1>1. m \in Promised(x)' /\ ~msgs[m].bot /\ msgs'[m] = msgs[m]
  BY UsersKept DEF Promised, Books
<1>2. /\ Awaits(Range(queue[c]), m)
      /\ AwaitsKind(Range(queue[c]), m, "created") <=> Ev(c).kind = "created"
      /\ Ev(c).kind = "deleted" => msgs[m].gone
  BY <1>1, HeadNews
<1>3. Awaits(ToCome(c, b)', m)
  BY <1>2 DEF ToCome, Awaits
<1>4. ASSUME Made(m, c, b)', NEW t \in Channels \ {c} PROVE Covered(m, t)'
  <2>1. ~AwaitsKind(a, m, "created") /\ Ev(c).kind # "created"
    BY <1>2, <1>4 DEF Made, ToCome, AwaitsKind
  <2>2. CASE Ev(c).kind # "deleted"
    BY <1>1, <2>1, <2>2 DEF Done
  <2>3. CASE Ev(c).kind = "deleted"
    <3>1. Latest(c, a)
      BY <2>1, <2>3 DEF Latest
    <3>2. Fresh(m, t)'
      BY <1>1, <3>1 DEF Done
    <3>3. msgs'[m].gone
      BY <1>1, <1>2, <2>3
    <3> QED BY <3>2, <3>3 DEF Covered
  <2> QED BY <2>2, <2>3
<1>5. ASSUME NEW t \in Channels \ {c}
      PROVE  /\ Made(m, c, b)' => Covered(m, t)'
             /\ ~Awaits(ToCome(c, b)', m) => Fresh(m, t)'
  BY <1>3, <1>4
<1> QED BY <1>5 DEF KeptFor

\* The handler has returned: the event is settled, or mark_done() fails, or the
\* process dies before it.
LEMMA HandledWell ==
    ASSUME Facts, NEW a, NEW x, Pending(a, x), Grown, NEW c \in Channels,
           queue[c] # <<>>, Copying(c),
           \A l \in links : l \in links' \/ msgs[l.msg].copyOf \in {0, Ev(c).msg},
           NEW q, Answer(c, q), Return(c, q), Done(c, a, x),
           NEW b, NEW y, Books(c, a, x, b, y)
    PROVE  Effect(c) /\ Own(c, b, y)
<1>1. queue \in [Channels -> Seq(EventType)] /\ w \in [Channels -> WorkType]
  BY DEF Facts, Structure, Typed
<1>2. w'[c] = Idle
  BY ReturnEnds, EndedIdle DEF Facts
<1>3. CASE Finish(c, q) /\ UNCHANGED dead
  <2>1. Effect(c) /\ Own(c, a, x)
    BY <1>3, EndsWell
  <2> QED BY <1>3, <2>1 DEF Books
<1>4. CASE queue' = q /\ UNCHANGED dead
  <2>1. Effect(c)
    BY <1>4 DEF Effect, Answer
  <2>2. b = a /\ queue'[c] = queue[c]
    BY <1>4 DEF Books, Answer
  <2>3. ToCome(c, b)' = ToCome(c, a)
    BY <2>2 DEF ToCome
  <2>4. \A m \in 1..Len(msgs) : m = Ev(c).msg /\ m \in Promised(y)' => KeptFor(m, c, b)'
    BY <2>3, DoneTwice
  <2> QED BY <1>2, <2>1, <2>4, OwnIdle DEF Own
<1>5. CASE Finish(c, q) /\ dead' = dead \cup {Ev(c)}
  <2>1. queue'[c] = Tail(queue[c]) /\ \A d \in Channels \ {c} : queue'[d] = q[d]
    BY <1>5 DEF Finish, Answer
  <2>2. Effect(c)
    BY <1>2, <2>1 DEF Effect, Answer, Told
  <2>3. ASSUME NEW m \in 1..Len(msgs), m = Ev(c).msg, m \in Promised(y)'
        PROVE  KeptFor(m, c, b)'
    <3>1. Ev(c) \in b
      BY <1>5, <2>3 DEF Books, Promised
    <3>2. Range(queue[c]) = {Ev(c)} \cup Range(queue'[c])
      BY <1>1, <2>1, RangeTail DEF Ev
    <3>3. ToCome(c, b)' = ToCome(c, a)
      BY <3>1, <3>2 DEF ToCome, Books
    <3> QED BY <2>3, <3>3, DoneTwice
  <2> QED BY <1>2, <2>2, <2>3, OwnIdle DEF Own
<1> QED BY <1>3, <1>4, <1>5 DEF Return, Fail, Die

-----------------------------------------------------------------------------
(* A handler goes through its targets.                                     *)

\* What the handler of c has reached: t counts as served.
Reached(c, t, a, x) ==
    \A m \in 1..Len(msgs) : m = Ev(c).msg /\ m \in Promised(x)' =>
      /\ Ev(c).kind = "created" => HasRow(m, t)'
      /\ Latest(c, a) => Fresh(m, t)'

\* The handler of an edit or of a deletion finds the rows of its message,
\* unless the message has yet to be copied.
LEMMA OwnRows ==
    ASSUME Facts, NEW a, NEW x, Pending(a, x), NEW c \in Channels,
           w[c].at \notin {"idle", "guard"}, Ev(c).kind # "created",
           NEW m \in Promised(x), m = Ev(c).msg, ~AwaitsKind(a, m, "created"),
           NEW t \in Channels \ {c}
    PROVE  Covered(m, t)
<1>1. queue[c] # <<>> /\ msgs[m].chan = c /\ ~msgs[m].bot /\ m \in 1..Len(msgs)
  BY OwnEvent DEF Promised
<1>2. ~AwaitsKind(Range(queue[c]), m, "created")
  <2>1. queue[c] \in Seq(EventType) /\ Ordered(queue[c], msgs, a, x)
    BY DEF Facts, Structure, Typed, Pending, Fits
  <2>2. ~AwaitsKind(Range(Tail(queue[c])), m, "created")
    BY <1>1, <2>1, OrderedHead DEF Ev
  <2>3. Range(queue[c]) = {Ev(c)} \cup Range(Tail(queue[c]))
    BY <1>1, <2>1, RangeTail DEF Ev
  <2> QED BY <2>2, <2>3 DEF AwaitsKind
<1>3. Awaits(Range(queue[c]), m)
  BY <1>1, HeadNews
<1>4. Made(m, c, a)
  BY <1>2, <1>3 DEF Made, ToCome, AwaitsKind
<1> QED BY <1>1, <1>4 DEF Pending, Kept, KeptFor

\* Nothing is done yet, or nothing more is: the target stays the same.
LEMMA ProgressKept ==
    ASSUME Facts, NEW a, NEW x, Pending(a, x), NEW c \in Channels,
           UNCHANGED <<msgs, queue>>, links \subseteq links', queue[c] # <<>>,
           w'[c].at \in Serving \ {"link"},
           \/ w[c].at \in Serving /\ w'[c].todo = w[c].todo
           \/ \A t \in Channels \ {c} : t \in Range(w'[c].todo)
    PROVE  Progress(c, a, x)'
<1>1. PICK m \in 1..Len(msgs) : m = Ev(c).msg
  BY HeadKnown DEF Facts
<1>2. Ev(c)' = Ev(c) /\ (Latest(c, a)' <=> Latest(c, a))
  BY DEF Ev, Latest
<1>3. w'[c].at # "cleanup" /\ w'[c].at # "link"
  BY DEF Serving
<1>4. CASE \A t \in Channels \ {c} : t \in Range(w'[c].todo)
  <2>1. \A t \in Channels \ {c} : ~Served(c, t)'
    BY <1>3, <1>4 DEF Served
  <2> QED BY <1>3, <2>1 DEF Progress
<1>5. CASE w[c].at \in Serving /\ w'[c].todo = w[c].todo
  <2>1. \A t \in Channels \ {c} : Served(c, t)' => Served(c, t)
    BY <1>3, <1>5 DEF Served
  <2>2. m \in Promised(x)' => m \in Promised(x)
    BY DEF Promised
  <2>3. Grown
    BY SameMessages DEF Facts
  <2>4. \A t : (HasRow(m, t) => HasRow(m, t)') /\ (Fresh(m, t) => Fresh(m, t)')
    BY <2>3, RowKept DEF Facts, Fresh, Alike
  <2>5. ASSUME m \in Promised(x)', NEW t \in Channels \ {c}, Served(c, t)'
        PROVE  /\ Ev(c).kind = "created" => HasRow(m, t)'
               /\ Latest(c, a) => Fresh(m, t)'
    BY <1>1, <1>5, <2>1, <2>2, <2>4, <2>5 DEF Pending, Progress
  <2>6. Ev(c)'.msg = m
    BY <1>1, <1>2
  <2> QED BY <1>2, <1>3, <2>5, <2>6 DEF Progress
<1> QED BY <1>4, <1>5

\* The target is served: the loop goes on, or the handler is at its end.
LEMMA NextWell ==
    ASSUME Facts, NEW a, NEW x, Pending(a, x), Grown, NEW c \in Channels,
           w[c].at \in Serving, Copying(c), links \subseteq links',
           NEW q, Answer(c, q), NEW first \in {"parent", "lookup"},
           NextTarget(c, q, first), first = "parent" <=> Ev(c).kind = "created",
           NEW here \in Channels, here = Target(c), Reached(c, here, a, x),
           \A m \in Promised(x), t \in Channels \ {c, here} : Fresh(m, t) => Fresh(m, t)',
           NEW b, NEW y, Books(c, a, x, b, y)
    PROVE  Effect(c) /\ Own(c, b, y)
<1> DEFINE s == w[c].todo
<1>1. /\ w \in [Channels -> WorkType] /\ w[c] \in WorkType /\ s \in Seq(Channels)
      /\ s # <<>> /\ queue[c] # <<>> /\ Len(s) \in Nat
  <2>1. w[c].at # "idle"
    BY DEF Serving
  <2>2. w[c] \in WorkType /\ queue[c] # <<>>
    BY <2>1, Busy DEF Facts
  <2>3. s # <<>>
    BY DEF Facts, Structure, Handler
  <2> QED BY <2>2, <2>3, LenProperties DEF Facts, Structure, Typed, WorkType
<1>2. PICK m \in 1..Len(msgs) : m = Ev(c).msg
  BY <1>1, HeadKnown DEF Facts
<1>3. here = Head(s) /\ Range(s) \subseteq Channels \ {c}
  BY DEF Target, Pending, Work
<1> HIDE DEF s
<1>4. /\ Range(Tail(s)) \subseteq Range(s)
      /\ \A d \in Range(s) : d = Head(s) \/ d \in Range(Tail(s))
      /\ Len(s) <= 1 => Range(s) = {Head(s)}
  BY <1>1, RangeTail
<1>5. m \in Promised(x)' => m \in Promised(x)
  BY <1>1, UsersKept
<1>6. ASSUME m \in Promised(x)', NEW t \in Channels \ {c}, t = Head(s) \/ t \notin Range(s)
      PROVE  /\ Ev(c).kind = "created" => HasRow(m, t)'
             /\ Latest(c, a) => Fresh(m, t)'
  <2>1. CASE t = Head(s)
    BY <1>2, <1>3, <1>6, <2>1 DEF Reached
  <2>2. CASE t # Head(s)
    <3>1. Served(c, t)
      BY <1>6, <2>2 DEF Served, s
    <3>2. /\ Ev(c).kind = "created" => HasRow(m, t)
          /\ Latest(c, a) => Fresh(m, t)
      BY <1>2, <1>5, <1>6, <3>1 DEF Pending, Progress
    <3>3. HasRow(m, t) => HasRow(m, t)'
      BY RowKept DEF Facts
    <3> QED BY <1>3, <1>5, <1>6, <2>2, <3>2, <3>3
  <2> QED BY <2>1, <2>2
<1>7. CASE Len(s) > 1
  <2>1. /\ w' = [w EXCEPT ![c] = [w[c] EXCEPT !.at = first, !.todo = Tail(@)]]
        /\ queue' = q /\ UNCHANGED dead
    BY <1>7 DEF NextTarget, Do, s
  <2>2. w'[c].at = first /\ w'[c].todo = Tail(s)
    BY <1>1, <2>1 DEF WorkType, s
  <2>3. queue'[c] = queue[c] /\ Ev(c)' = Ev(c) /\ (Latest(c, a)' <=> Latest(c, a))
    BY <2>1 DEF Answer, Ev, Latest
  <2>4. Work(c)'
    BY <1>3, <1>4, <2>2, <2>3 DEF Work, Serving, Creating
  <2>5. \A t \in Channels \ {c} : Served(c, t)' => t = Head(s) \/ t \notin Range(s)
    BY <1>4, <2>2 DEF Served
  <2>6. Ev(c)'.msg = m
    BY <1>2, <2>3
  <2>7. Progress(c, a, x)'
    BY <1>6, <2>2, <2>3, <2>5, <2>6 DEF Progress
  <2>8. Effect(c) /\ Own(c, a, x)
    BY <1>1, <2>1, <2>4, <2>7, StaysWell
  <2> QED BY <2>1, <2>8 DEF Books
<1>8. CASE ~(Len(s) > 1) /\ Ev(c).kind = "deleted"
  <2>1. /\ w' = [w EXCEPT ![c] = [w[c] EXCEPT !.at = "cleanup"]]
        /\ queue' = q /\ UNCHANGED dead
    BY <1>8 DEF NextTarget, Do, s
  <2>2. w'[c].at = "cleanup"
    BY <1>1, <2>1 DEF WorkType
  <2>3. queue'[c] = queue[c] /\ Ev(c)' = Ev(c) /\ (Latest(c, a)' <=> Latest(c, a))
    BY <2>1 DEF Answer, Ev, Latest
  <2>4. Work(c)'
    BY <1>8, <2>2, <2>3 DEF Work, Serving, Creating
  <2>5. \A t \in Channels \ {c} : t = Head(s) \/ t \notin Range(s)
    BY <1>1, <1>4, <1>8
  <2>6. Ev(c)'.msg = m
    BY <1>2, <2>3
  <2>7. Progress(c, a, x)'
    BY <1>6, <2>2, <2>3, <2>5, <2>6 DEF Progress
  <2>8. Effect(c) /\ Own(c, a, x)
    BY <1>1, <2>1, <2>4, <2>7, StaysWell
  <2> QED BY <2>1, <2>8 DEF Books
<1>9. CASE ~(Len(s) > 1) /\ Return(c, q)
  <2>1. \A t \in Channels \ {c} : t = Head(s) \/ t \notin Range(s)
    BY <1>1, <1>4, <1>9
  <2>2. ASSUME m \in Promised(x)', NEW t \in Channels \ {c}, Ev(c).kind # "deleted",
               ~AwaitsKind(a, m, "created")
        PROVE  Covered(m, t)'
    <3>1. CASE Ev(c).kind = "created"
      BY <1>6, <2>1, <2>2, <3>1 DEF Covered
    <3>2. CASE Ev(c).kind # "created"
      <4>1. Covered(m, t)
        BY <1>2, <1>5, <2>2, <3>2, OwnRows DEF Serving
      <4> QED BY <1>1, <1>5, <2>2, <4>1, CoveredKept DEF Promised
    <3> QED BY <3>1, <3>2
  <2>3. Done(c, a, x)
    BY <1>2, <1>6, <2>1, <2>2 DEF Done
  <2> QED BY <1>1, <1>9, <2>3, HandledWell
<1>10. Len(s) > 1 \/ ~(Len(s) > 1)
  OBVIOUS
<1> QED BY <1>7, <1>8, <1>9, <1>10 DEF NextTarget, s

\* Router.targets(): all other channels.
LEMMA TargetsRange ==
    ASSUME NEW c \in Channels
    PROVE  /\ Range(Targets(c)) = Channels \ {c}
           /\ Targets(c) = <<>> => Channels \ {c} = {}
<1> DEFINE p == Place(c)
           n == Len(Endpoints)
           a == SubSeq(Endpoints, 1, p - 1)
           b == SubSeq(Endpoints, p + 1, n)
           s == a \o b
<1>1. /\ Endpoints \in Seq(Channels) /\ n \in Nat /\ DOMAIN Endpoints = 1..n
      /\ \A i, j \in 1..n : Endpoints[i] = Endpoints[j] => i = j
  BY EndpointsAssumption, LenProperties DEF Channels, IsInjective
<1>2. p \in 1..n /\ Endpoints[p] = c
  <2>1. \E i \in DOMAIN Endpoints : Endpoints[i] = c
    BY DEF Channels, Range
  <2> QED BY <1>1, <2>1 DEF Place
<1>3. /\ a \in Seq(Channels) /\ Len(a) = p - 1
      /\ \A i \in 1..(p - 1) : a[i] = Endpoints[i]
  <2> HIDE DEF p, n
  <2>1. \A i \in 1..(p - 1) : Endpoints[i] \in Channels
    BY <1>1, <1>2, ElementOfSeq DEF n
  <2>2. 1 \in Int /\ p - 1 \in Int /\ (p - 1) - 1 + 1 = p - 1
        /\ (IF 1 <= p - 1 THEN (p - 1) - 1 + 1 ELSE 0) = p - 1
        /\ \A i \in 1..(p - 1) : 1 + i - 1 = i
    BY <1>1, <1>2
  <2> QED BY <2>1, <2>2, SubSeqProperties
<1>4. /\ b \in Seq(Channels) /\ Len(b) = n - p
      /\ \A i \in 1..(n - p) : b[i] = Endpoints[p + i]
  <2> HIDE DEF p, n
  <2>1. \A i \in (p + 1)..n : Endpoints[i] \in Channels
    BY <1>1, <1>2, ElementOfSeq DEF n
  <2>2. p + 1 \in Int /\ n \in Int /\ n - (p + 1) + 1 = n - p
        /\ (IF p + 1 <= n THEN n - (p + 1) + 1 ELSE 0) = n - p
        /\ \A i \in 1..(n - p) : (p + 1) + i - 1 = p + i
    BY <1>1, <1>2
  <2> QED BY <2>1, <2>2, SubSeqProperties
<1> HIDE DEF a, b, p, n
<1>5. /\ s \in Seq(Channels) /\ Len(s) = n - 1
      /\ \A i \in 1..(n - 1) : s[i] = IF i <= p - 1 THEN a[i] ELSE b[i - (p - 1)]
  <2>1. (p - 1) + (n - p) = n - 1
    BY <1>1, <1>2
  <2> QED BY <1>3, <1>4, <2>1, ConcatProperties
<1> HIDE DEF s
<1>6. ASSUME NEW i \in 1..(n - 1)
      PROVE  s[i] = Endpoints[IF i <= p - 1 THEN i ELSE i + 1]
  <2>1. CASE i <= p - 1
    <3>1. i \in 1..(p - 1)
      BY <1>1, <1>2, <2>1
    <3> QED BY <1>3, <1>5, <2>1, <3>1
  <2>2. CASE ~(i <= p - 1)
    <3>1. i - (p - 1) \in 1..(n - p) /\ p + (i - (p - 1)) = i + 1
      BY <1>1, <1>2, <2>2
    <3> QED BY <1>4, <1>5, <2>2, <3>1
  <2> QED BY <2>1, <2>2
<1>7. DOMAIN s = 1..(n - 1)
  BY <1>5, LenProperties
<1>8. ASSUME NEW t \in Range(s) PROVE t \in Channels \ {c}
  <2>1. PICK i \in 1..(n - 1) : t = s[i]
    BY <1>7 DEF Range
  <2>2. PICK j \in 1..n : j # p /\ t = Endpoints[j]
    <3>1. (IF i <= p - 1 THEN i ELSE i + 1) \in 1..n
          /\ (IF i <= p - 1 THEN i ELSE i + 1) # p
      BY <1>1, <1>2
    <3> QED BY <1>6, <2>1, <3>1
  <2>3. t \in Channels
    BY <1>1, <2>2 DEF Channels, Range
  <2> QED BY <1>1, <1>2, <2>2, <2>3
<1>9. ASSUME NEW t \in Channels \ {c} PROVE t \in Range(s)
  <2>1. PICK j \in 1..n : t = Endpoints[j]
    BY <1>1 DEF Channels, Range
  <2>2. j # p
    BY <1>2, <2>1
  <2>3. PICK i \in 1..(n - 1) : j = IF i <= p - 1 THEN i ELSE i + 1
    <3>1. CASE j <= p - 1
      <4>1. j \in 1..(n - 1) /\ j = IF j <= p - 1 THEN j ELSE j + 1
        BY <1>1, <1>2, <3>1
      <4> QED BY <4>1
    <3>2. CASE ~(j <= p - 1)
      <4>1. j - 1 \in 1..(n - 1) /\ j = IF j - 1 <= p - 1 THEN j - 1 ELSE (j - 1) + 1
        BY <1>1, <1>2, <2>2, <3>2
      <4> QED BY <4>1
    <3> QED BY <3>1, <3>2
  <2>4. t = s[i]
    BY <1>6, <2>1, <2>3
  <2> QED BY <1>7, <2>4 DEF Range
<1>10. Targets(c) = s
  BY DEF Targets, RemoveAt, s, a, b, p, n
<1>11. s = <<>> => Range(s) = {}
  BY DEF Range
<1>12. Range(s) = Channels \ {c}
  BY <1>8, <1>9
<1> QED BY <1>10, <1>11, <1>12


LEMMA CopyingNone ==
    ASSUME Structure, UNCHANGED msgs, NEW c
    PROVE  Copying(c) /\ Grown
BY SameMessages DEF Copying

\* A query, or the first row: the handler goes on with the same target.
LEMMA GoesOn ==
    ASSUME Facts, NEW a, NEW x, Pending(a, x), NEW c \in Channels, queue[c] # <<>>,
           UNCHANGED <<msgs, queue, dead>>, links \subseteq links',
           w'[c].at \in Serving \ {"link"},
           \/ w[c].at \in Serving /\ w'[c].todo = w[c].todo
           \/ w'[c].todo = Targets(c),
           w'[c].at \in {"record"} \cup Creating => Ev(c).kind = "created",
           w'[c].at \in {"find", "lookup", "apply"} => Ev(c).kind # "created",
           w'[c].at = "apply" => msgs[w'[c].id].copyOf = Ev(c).msg
    PROVE  Effect(c) /\ Own(c, a, x)
<1>1. Copying(c) /\ Grown /\ Answer(c, queue')
  BY CopyingNone, AnswerNone DEF Facts
<1>2. Range(w'[c].todo) \subseteq Channels \ {c}
  BY TargetsRange DEF Pending, Work
<1>3. Ev(c)' = Ev(c) /\ w'[c].at # "cleanup"
  BY DEF Ev, Serving
<1>4. Work(c)'
  BY <1>2, <1>3 DEF Work
<1>5. Progress(c, a, x)'
  BY TargetsRange, ProgressKept
<1> QED BY <1>1, <1>4, <1>5, StaysWell

\* Nobody relies on what is done for a message of the bridge's.
LEMMA NotAUser ==
    ASSUME Structure, Grown, NEW c, msgs[Ev(c).msg].bot, NEW a, NEW x
    PROVE  Done(c, a, x)
<1>1. \A m \in 1..Len(msgs) : m = Ev(c).msg => m \notin Promised(x)'
  BY DEF Promised, Grown
<1> QED BY <1>1 DEF Done

LEMMA PendingBegin ==
    ASSUME Facts, NEW a, NEW x, Pending(a, x), NEW c \in Channels, Begin(c),
           NEW b, NEW y, Books(c, a, x, b, y)
    PROVE  Effect(c) /\ Own(c, b, y)
<1>1. queue[c] # <<>> /\ Copying(c) /\ Grown /\ Answer(c, queue)
      /\ UNCHANGED links /\ w \in [Channels -> WorkType]
  BY CopyingNone, AnswerNone DEF Begin, Facts, Structure, Typed
<1>2. CASE msgs[Ev(c).msg].bot /\ Return(c, queue)
  BY <1>1, <1>2, NotAUser, HandledWell DEF Facts
<1>3. CASE Do(c, [Idle EXCEPT !.at = "guard"]) /\ UNCHANGED <<queue, dead>>
  <2>1. w'[c].at = "guard"
    BY <1>1, <1>3 DEF Do, Idle
  <2>2. Work(c)' /\ Progress(c, a, x)'
    BY <2>1 DEF Work, Progress, Serving, Creating
  <2>3. Effect(c) /\ Own(c, a, x)
    BY <1>1, <1>3, <2>2, StaysWell
  <2> QED BY <1>3, <2>3 DEF Books
<1> QED BY <1>2, <1>3 DEF Begin

LEMMA PendingGuard ==
    ASSUME Facts, NEW a, NEW x, Pending(a, x), NEW c \in Channels, Guard(c),
           NEW b, NEW y, Books(c, a, x, b, y)
    PROVE  Effect(c) /\ Own(c, b, y)
<1>1. queue[c] # <<>> /\ Copying(c) /\ Grown /\ Answer(c, queue)
      /\ UNCHANGED <<msgs, links>> /\ w \in [Channels -> WorkType]
      /\ w[c] \in WorkType /\ Ev(c) \in EventType
  BY CopyingNone, AnswerNone, Busy DEF Guard, Facts, Structure, Typed
<1>2. CASE Return(c, queue) /\ (IsReplica(Ev(c).msg) \/ msgs[Ev(c).msg].bot)
  <2>1. msgs[Ev(c).msg].bot
    BY <1>2 DEF Facts, Linked, Kinds, IsReplica, LinksOf
  <2> QED BY <1>1, <1>2, <2>1, NotAUser, HandledWell DEF Facts
<1>3. CASE Return(c, queue) /\ Targets(c) = <<>>
  <2>1. Done(c, a, x)
    BY <1>3, TargetsRange DEF Done
  <2> QED BY <1>1, <1>3, <2>1, HandledWell
<1>4. CASE /\ Do(c, [w[c] EXCEPT
                       !.at = IF Ev(c).kind = "created" THEN "record" ELSE "find",
                       !.todo = Targets(c)])
           /\ UNCHANGED <<queue, dead>>
  <2>1. /\ w'[c].at = IF Ev(c).kind = "created" THEN "record" ELSE "find"
        /\ w'[c].todo = Targets(c)
    BY <1>1, <1>4 DEF Do, WorkType
  <2>2. Effect(c) /\ Own(c, a, x)
    BY <1>1, <1>4, <2>1, GoesOn DEF Serving, Creating
  <2> QED BY <1>4, <2>2 DEF Books
<1> QED BY <1>2, <1>3, <1>4 DEF Guard

LEMMA PendingRecordOrigin ==
    ASSUME Facts, NEW a, NEW x, Pending(a, x), NEW c \in Channels, RecordOrigin(c)
    PROVE  Effect(c) /\ Own(c, a, x)
<1>1. queue[c] # <<>> /\ UNCHANGED <<msgs, queue, dead>> /\ links \subseteq links'
      /\ w[c].at = "record" /\ w \in [Channels -> WorkType] /\ w[c] \in WorkType
  BY Busy DEF RecordOrigin, Facts, Structure, Typed
<1>2. PICK g : w' = [w EXCEPT ![c] = [w[c] EXCEPT !.at = "parent", !.group = g]]
  BY DEF RecordOrigin, Do
<1>3. w'[c].at = "parent" /\ w'[c].todo = w[c].todo
  BY <1>1, <1>2 DEF WorkType
<1>4. Ev(c).kind = "created"
  BY <1>1 DEF Pending, Work
<1> QED BY <1>1, <1>3, <1>4, GoesOn DEF Serving, Creating

\* A failure that leaves messages and links alone.
LEMMA OnlyRaises ==
    ASSUME Facts, NEW a, NEW x, Pending(a, x), NEW c \in Channels, queue[c] # <<>>,
           UNCHANGED <<msgs, links>>, NEW retryable, Fail(c, retryable, queue),
           NEW b, NEW y, Books(c, a, x, b, y)
    PROVE  Effect(c) /\ Own(c, b, y)
<1>1. Copying(c) /\ Grown /\ Answer(c, queue)
  BY CopyingNone, AnswerNone DEF Facts
<1> QED BY <1>1, RaisesWell

LEMMA PendingFindParent ==
    ASSUME Facts, NEW a, NEW x, Pending(a, x), NEW c \in Channels, FindParent(c),
           NEW b, NEW y, Books(c, a, x, b, y)
    PROVE  Effect(c) /\ Own(c, b, y)
<1>1. queue[c] # <<>> /\ UNCHANGED <<msgs, links>>
      /\ w[c].at = "parent" /\ w \in [Channels -> WorkType] /\ w[c] \in WorkType
  BY Busy DEF FindParent, Facts, Structure, Typed
<1>2. CASE Fail(c, TRUE, queue)
  BY <1>1, <1>2, OnlyRaises
<1>3. ASSUME NEW at \in {"send", "mapped"}, NEW p,
             Do(c, [w[c] EXCEPT !.at = at, !.parent = p]), UNCHANGED <<queue, dead>>
      PROVE  Effect(c) /\ Own(c, b, y)
  <2>1. w'[c].at = at /\ w'[c].todo = w[c].todo
    BY <1>1, <1>3 DEF Do, WorkType
  <2>2. Ev(c).kind = "created"
    BY <1>1 DEF Pending, Work, Creating
  <2>3. Effect(c) /\ Own(c, a, x)
    BY <1>1, <1>3, <2>1, <2>2, GoesOn DEF Serving, Creating
  <2> QED BY <1>3, <2>3 DEF Books
<1> QED BY <1>2, <1>3 DEF FindParent

LEMMA PendingMapParent ==
    ASSUME Facts, NEW a, NEW x, Pending(a, x), NEW c \in Channels, MapParent(c),
           NEW b, NEW y, Books(c, a, x, b, y)
    PROVE  Effect(c) /\ Own(c, b, y)
<1>1. queue[c] # <<>> /\ UNCHANGED <<msgs, links>>
      /\ w[c].at = "mapped" /\ w \in [Channels -> WorkType] /\ w[c] \in WorkType
  BY Busy DEF MapParent, Facts, Structure, Typed
<1>2. CASE Fail(c, TRUE, queue)
  BY <1>1, <1>2, OnlyRaises
<1>3. ASSUME NEW p, Do(c, [w[c] EXCEPT !.at = "send", !.parent = p]),
             UNCHANGED <<queue, dead>>
      PROVE  Effect(c) /\ Own(c, b, y)
  <2>1. w'[c].at = "send" /\ w'[c].todo = w[c].todo
    BY <1>1, <1>3 DEF Do, WorkType
  <2>2. Ev(c).kind = "created"
    BY <1>1 DEF Pending, Work, Creating
  <2>3. Effect(c) /\ Own(c, a, x)
    BY <1>1, <1>3, <2>1, <2>2, GoesOn DEF Serving, Creating
  <2> QED BY <1>3, <2>3 DEF Books
<1> QED BY <1>2, <1>3 DEF MapParent

\* The channel of a message and the channel of its copy.
LEMMA Elsewhere ==
    ASSUME Facts, NEW a, NEW x, Pending(a, x), NEW c \in Channels, w[c].at \in Serving
    PROVE  Target(c) \in Channels \ {c}
<1>1. w[c].todo \in Seq(Channels) /\ w[c].todo # <<>>
  BY DEF Facts, Structure, Typed, WorkType, Handler
<1>2. Head(w[c].todo) \in Range(w[c].todo)
  BY <1>1, RangeTail
<1> QED BY <1>2 DEF Target, Pending, Work

\* A linked copy of the handler's message stands in the group of the message.
LEMMA OwnCopies ==
    ASSUME Facts, NEW c \in Channels, w[c].at \notin {"idle", "guard"},
           NEW l \in links, msgs[l.msg].copyOf = Ev(c).msg
    PROVE  \E o \in links : o.origin /\ o.msg = Ev(c).msg /\ o.group = l.group
<1>1. Ev(c).msg \in 1..Len(msgs) /\ l.msg \in 1..Len(msgs)
  BY OwnEvent DEF Facts, Structure, Rows
<1>2. msgs[l.msg].copyOf # 0
  BY <1>1
<1>3. ~l.origin
  BY <1>1, <1>2 DEF Facts, Linked, Kinds, Guarded, Authors
<1>4. PICK o \in links : /\ o.origin /\ o.group = l.group
                         /\ l.msg = o.msg \/ (~l.origin /\ msgs[l.msg].copyOf = o.msg)
  BY DEF Facts, Linked, LinksSound
<1>5. l.msg # o.msg
  BY <1>3, <1>4 DEF Facts, Structure, Rows
<1> QED BY <1>4, <1>5

LEMMA PendingFindGroup ==
    ASSUME Facts, NEW a, NEW x, Pending(a, x), NEW c \in Channels, FindGroup(c),
           NEW b, NEW y, Books(c, a, x, b, y)
    PROVE  Effect(c) /\ Own(c, b, y)
<1>1. queue[c] # <<>> /\ UNCHANGED <<msgs, links>>
      /\ w[c].at = "find" /\ w \in [Channels -> WorkType] /\ w[c] \in WorkType
      /\ Copying(c) /\ Grown /\ Answer(c, queue)
  BY Busy, CopyingNone, AnswerNone DEF FindGroup, Facts, Structure, Typed
<1>2. Ev(c).kind # "created"
  BY <1>1 DEF Pending, Work
<1>3. CASE LinksOf(Ev(c).msg) = {} /\ Return(c, queue)
  <2>1. ASSUME NEW m \in 1..Len(msgs), m = Ev(c).msg, m \in Promised(x)',
               NEW t \in Channels \ {c}, ~AwaitsKind(a, m, "created")
        PROVE  Covered(m, t)' /\ Fresh(m, t)'
    <3>1. m \in Promised(x) /\ ~msgs[m].bot
      BY <1>1, <2>1 DEF Promised
    <3>2. Covered(m, t)
      BY <1>1, <1>2, <2>1, <3>1, OwnRows
    <3>3. ~HasRow(m, t)
      <4>1. ASSUME NEW l \in links, msgs[l.msg].copyOf = m PROVE FALSE
        <5>1. \E o \in links : o.msg = m
          BY <1>1, <2>1, <4>1, OwnCopies
        <5> QED BY <1>3, <2>1, <5>1 DEF LinksOf
      <4> QED BY <4>1 DEF HasRow
    <3>4. Fresh(m, t)'
      BY <1>1, <3>2, <3>3 DEF Covered, Fresh, Alike
    <3> QED BY <1>1, <3>1, <3>2, <3>4, CoveredKept
  <2>2. Latest(c, a) => ~AwaitsKind(a, Ev(c).msg, "created")
    BY DEF Latest, Awaits, AwaitsKind
  <2>3. Done(c, a, x)
    BY <2>1, <2>2 DEF Done
  <2> QED BY <1>1, <1>3, <2>3, HandledWell
<1>4. ASSUME NEW g, Do(c, [w[c] EXCEPT !.at = "lookup", !.group = g]), UNCHANGED <<queue, dead>>
      PROVE  Effect(c) /\ Own(c, b, y)
  <2>1. w'[c].at = "lookup" /\ w'[c].todo = w[c].todo
    BY <1>1, <1>4 DEF Do, WorkType
  <2>2. Effect(c) /\ Own(c, a, x)
    BY <1>1, <1>2, <1>4, <2>1, GoesOn DEF Serving, Creating
  <2> QED BY <1>4, <2>2 DEF Books
<1> QED BY <1>3, <1>4 DEF FindGroup

LEMMA PendingLookup ==
    ASSUME Facts, NEW a, NEW x, Pending(a, x), NEW c \in Channels, Lookup(c),
           NEW b, NEW y, Books(c, a, x, b, y)
    PROVE  Effect(c) /\ Own(c, b, y)
<1> DEFINE found == InChannel(w[c].group, Target(c))
<1>1. queue[c] # <<>> /\ UNCHANGED <<msgs, links>>
      /\ w[c].at = "lookup" /\ w \in [Channels -> WorkType] /\ w[c] \in WorkType
      /\ Copying(c) /\ Grown /\ Answer(c, queue) /\ w[c].at \in Serving
  BY Busy, CopyingNone, AnswerNone DEF Lookup, Facts, Structure, Typed, Serving
<1>2. Ev(c).kind # "created"
  BY <1>1 DEF Pending, Work
<1>3. PICK o \in links : o.origin /\ o.msg = Ev(c).msg /\ o.group = w[c].group
  BY <1>1 DEF Facts, Linked, Owns, Owning, OriginOf
<1>4. Target(c) \in Channels \ {c}
  BY <1>1, Elsewhere
<1>5. CASE found = {} /\ NextTarget(c, queue, "lookup")
  <2>1. PICK here \in Channels \ {c} : here = Target(c)
    BY <1>4
  <2>2. ASSUME NEW m \in 1..Len(msgs), m = Ev(c).msg, m \in Promised(x)', Latest(c, a)
        PROVE  Fresh(m, here)'
    <3>1. m \in Promised(x) /\ ~AwaitsKind(a, m, "created")
      BY <1>1, <2>2 DEF Promised, Latest, Awaits, AwaitsKind
    <3>2. Covered(m, here)
      BY <1>1, <1>2, <2>2, <3>1, OwnRows
    <3>3. ~HasRow(m, here)
      <4>1. ASSUME NEW l \in links, msgs[l.msg].copyOf = m, msgs[l.msg].chan = here
            PROVE  FALSE
        <5>1. PICK k \in links : k.msg = m /\ k.group = l.group
          BY <1>1, <2>2, <4>1, OwnCopies
        <5>2. k = o
          BY <1>3, <2>2, <5>1 DEF Facts, Structure, Rows
        <5>3. l.msg \in found
          BY <1>3, <2>1, <4>1, <5>1, <5>2 DEF InChannel
        <5> QED BY <1>5, <5>3
      <4> QED BY <4>1 DEF HasRow
    <3> QED BY <1>1, <3>2, <3>3 DEF Covered, Fresh, Alike
  <2>3. Reached(c, here, a, x)
    BY <1>2, <2>2 DEF Reached
  <2>4. \A m, t : Fresh(m, t) => Fresh(m, t)'
    BY <1>1 DEF Fresh, Alike
  <2> QED BY <1>1, <1>2, <1>5, <2>1, <2>3, <2>4, NextWell
<1>6. ASSUME NEW m \in found, Do(c, [w[c] EXCEPT !.at = "apply", !.id = m]),
             UNCHANGED <<queue, dead>>
      PROVE  Effect(c) /\ Own(c, b, y)
  <2>1. w'[c].at = "apply" /\ w'[c].todo = w[c].todo /\ w'[c].id = m
    BY <1>1, <1>6 DEF Do, WorkType
  <2>2. PICK l \in links : l.msg = m /\ l.group = w[c].group /\ msgs[m].chan = Target(c)
    BY <1>6 DEF InChannel
  <2>3. PICK k \in links : /\ k.origin /\ k.group = l.group
                           /\ l.msg = k.msg \/ (~l.origin /\ msgs[l.msg].copyOf = k.msg)
    BY DEF Facts, Linked, LinksSound
  <2>4. k = o
    BY <1>3, <2>2, <2>3 DEF Facts, Linked, OneOrigin
  <2>5. l.msg # o.msg
    BY <1>1, <1>3, <1>4, <2>2, OwnEvent
  <2>6. msgs[m].copyOf = Ev(c).msg
    BY <1>3, <2>2, <2>3, <2>4, <2>5
  <2>7. Effect(c) /\ Own(c, a, x)
    BY <1>1, <1>2, <1>6, <2>1, <2>6, GoesOn DEF Serving, Creating
  <2> QED BY <1>6, <2>7 DEF Books
<1> QED BY <1>5, <1>6 DEF Lookup

LEMMA PostedCopy ==
    ASSUME Facts, NEW a, NEW x, Pending(a, x), NEW c \in Channels, Posted(c)
    PROVE  /\ Copying(c) /\ Grown /\ Answer(c, QueueAfterPost(c))
           /\ \A k \in 1..Len(msgs) : msgs'[k] = msgs[k]
           /\ Len(msgs) \in Nat /\ Len(msgs') = Len(msgs) + 1
           /\ msgs'[Len(msgs) + 1] =
                Message(Target(c), TRUE, w[c].parent, Ev(c).text, Ev(c).msg)
<1> DEFINE new == Message(Target(c), TRUE, w[c].parent, Ev(c).text, Ev(c).msg)
           ev == Event("created", Len(msgs) + 1, Ev(c).text)
<1>1. w[c].at = "send" /\ msgs' = Append(msgs, new)
  BY DEF Posted
<1>2. /\ Grown /\ Len(msgs) \in Nat /\ Len(msgs') = Len(msgs) + 1
      /\ msgs'[Len(msgs) + 1] = new
  BY PostedMessage DEF Facts
<1>3. new.bot
  BY DEF Message
<1>4. Target(c) \in Channels \ {c} /\ Ev(c).text \in Nat
  BY <1>1, Elsewhere, Busy DEF Facts, Serving, EventType
<1> HIDE DEF new
<1>5. \A k \in 1..Len(msgs) : msgs'[k] = msgs[k]
  <2>1. msgs \in Seq(MessageType)
    BY DEF Facts, Structure, Typed
  <2>2. new \in MessageType
    <3>1. Len(msgs) + 1 \in 1..Len(msgs')
      BY <1>2
    <3> QED BY <1>2, <3>1, ElementOfSeq DEF Grown
  <2> QED BY <1>1, <2>1, <2>2, AppendProperties
<1>6. Copying(c)
  <2>1. \A k \in 1..Len(msgs') : k \in 1..Len(msgs) \/ k = Len(msgs) + 1
    BY <1>2
  <2> QED BY <1>2, <1>3, <1>5, <2>1 DEF Copying
<1>7. ev \in EventType /\ ev.msg = Len(msgs) + 1
  BY <1>2, <1>4 DEF Event, EventType
<1> HIDE DEF ev
<1>8. Answer(c, Tell(queue, Target(c), ev))
  BY <1>2, <1>3, <1>4, <1>7, AnswerTarget DEF Facts
<1> QED BY <1>2, <1>5, <1>6, <1>8 DEF QueueAfterPost, new, ev

LEMMA PendingSend ==
    ASSUME Facts, NEW a, NEW x, Pending(a, x), NEW c \in Channels, Send(c)
    PROVE  Effect(c) /\ Own(c, a, x)
<1> DEFINE n == Len(msgs) + 1
<1>1. /\ queue[c] # <<>> /\ w[c].at = "send" /\ UNCHANGED <<links, dead>>
      /\ w[c] \in WorkType /\ w \in [Channels -> WorkType]
      /\ Ev(c) \in EventType /\ Posted(c) /\ queue' = QueueAfterPost(c)
  BY Busy DEF Send, Posted, Facts, Structure, Typed
<1>2. /\ Copying(c) /\ Grown /\ Answer(c, queue')
      /\ \A k \in 1..Len(msgs) : msgs'[k] = msgs[k]
      /\ Len(msgs) \in Nat /\ Len(msgs') = n
      /\ msgs'[n] = Message(Target(c), TRUE, w[c].parent, Ev(c).text, Ev(c).msg)
  BY <1>1, PostedCopy
<1>3. w'[c].at = "link" /\ w'[c].todo = w[c].todo /\ w'[c].id = Len(msgs')
  BY <1>1 DEF Send, Do, WorkType
<1>4. PICK m \in 1..Len(msgs) : /\ m = Ev(c).msg /\ ~msgs[m].bot /\ msgs[m].chan = c
  BY <1>1, OwnEvent
<1>5. /\ queue'[c] = queue[c] /\ Ev(c)' = Ev(c) /\ (Latest(c, a)' <=> Latest(c, a))
      /\ Target(c)' = Target(c)
  BY <1>2, <1>3 DEF Answer, Ev, Latest, Target
<1>6. Ev(c).kind = "created"
  BY <1>1 DEF Pending, Work, Creating
<1>7. Work(c)'
  BY <1>1, <1>3, <1>5, <1>6 DEF Pending, Work, Serving, Creating
<1>8. \A t : /\ HasRow(m, t) => HasRow(m, t)'
             /\ Fresh(m, t) => Fresh(m, t)'
  <2>1. 1..Len(msgs) \subseteq 1..Len(msgs')
    BY <1>2
  <2> QED BY <1>1, <1>2, <2>1, RowKept DEF Facts, Fresh, Alike
<1>9. ASSUME Latest(c, a), m \in Promised(x)'
      PROVE  \A t : t = Target(c) => Fresh(m, t)'
  <2>1. m \notin x
    BY <1>9 DEF Promised
  <2>2. msgs[m].gone = FALSE /\ Ev(c).text = msgs[m].text
    BY <1>1, <1>4, <1>6, <1>9, <2>1, HeadNews
  <2>3. n \in 1..Len(msgs')
    BY <1>2
  <2>4. msgs'[m] = msgs[m]
    BY <1>2, <1>4
  <2>5. /\ msgs'[n].copyOf = m /\ msgs'[n].chan = Target(c)
        /\ msgs'[n].gone = FALSE /\ msgs'[n].text = Ev(c).text
    BY <1>2, <1>4 DEF Message
  <2> QED BY <2>2, <2>3, <2>4, <2>5 DEF Fresh, Alike
<1>10. m \in Promised(x)' => m \in Promised(x)
  BY <1>1, <1>2, UsersKept
<1>11. ASSUME m \in Promised(x)', NEW t \in Channels \ {c}
       PROVE  /\ Served(c, t)' => HasRow(m, t)'
              /\ (Served(c, t)' \/ t = Target(c)) /\ Latest(c, a) => Fresh(m, t)'
  <2>1. Served(c, t)' => Served(c, t)
    BY <1>3 DEF Served
  <2>2. /\ Served(c, t) => HasRow(m, t)
        /\ Served(c, t) /\ Latest(c, a) => Fresh(m, t)
    BY <1>1, <1>4, <1>6, <1>10, <1>11 DEF Pending, Progress, Serving
  <2> QED BY <1>8, <1>9, <1>11, <2>1, <2>2
<1>12. Ev(c)'.msg = m
  BY <1>4, <1>5
<1>13. Progress(c, a, x)'
  BY <1>3, <1>5, <1>6, <1>11, <1>12 DEF Progress
<1> QED BY <1>1, <1>2, <1>7, <1>13, StaysWell

LEMMA PendingFailures ==
    ASSUME Facts, NEW a, NEW x, Pending(a, x), NEW c \in Channels,
           SendRefused(c) \/ StepError(c) \/ SendReplyLost(c),
           NEW b, NEW y, Books(c, a, x, b, y)
    PROVE  Effect(c) /\ Own(c, b, y)
<1>1. queue[c] # <<>>
  <2>1. CASE SendRefused(c) \/ SendReplyLost(c)
    BY <2>1, Busy DEF SendRefused, SendReplyLost, Posted, Facts
  <2>2. CASE StepError(c)
    BY <2>2 DEF StepError, Facts, Structure, Handler
  <2> QED BY <2>1, <2>2
<1>2. CASE SendRefused(c) \/ StepError(c)
  BY <1>1, <1>2, OnlyRaises DEF SendRefused, StepError
<1>3. CASE SendReplyLost(c)
  <2>1. /\ Posted(c) /\ UNCHANGED links
        /\ \E retryable \in BOOLEAN : Fail(c, retryable, QueueAfterPost(c))
    BY <1>3 DEF SendReplyLost
  <2>2. Copying(c) /\ Grown /\ Answer(c, QueueAfterPost(c))
    BY <2>1, PostedCopy
  <2> QED BY <1>1, <2>1, <2>2, RaisesWell
<1> QED BY <1>2, <1>3

LEMMA PendingRecordReplica ==
    ASSUME Facts, NEW a, NEW x, Pending(a, x), NEW c \in Channels, RecordReplica(c),
           NEW b, NEW y, Books(c, a, x, b, y)
    PROVE  Effect(c) /\ Own(c, b, y)
<1>1. queue[c] # <<>> /\ UNCHANGED msgs /\ links \subseteq links'
      /\ w[c].at = "link" /\ w \in [Channels -> WorkType] /\ w[c] \in WorkType
      /\ Copying(c) /\ Grown /\ Answer(c, queue) /\ w[c].at \in Serving
      /\ NextTarget(c, queue, "parent")
  BY Busy, CopyingNone, AnswerNone DEF RecordReplica, Facts, Structure, Typed, Serving
<1>2. Ev(c).kind = "created"
  BY <1>1 DEF Pending, Work, Creating
<1>3. PICK here \in Channels \ {c} : here = Target(c)
  BY <1>1, Elsewhere
<1>4. /\ msgs[w[c].id].copyOf = Ev(c).msg /\ msgs[w[c].id].chan = here
  BY <1>1, <1>3 DEF Facts, Structure, Handler, Linked, Owns
<1>5. \E l \in links' : l.msg = w[c].id
  <2>1. CASE LinksOf(w[c].id) # {}
    BY <2>1 DEF RecordReplica, LinksOf
  <2>2. CASE LinksOf(w[c].id) = {}
    <3>1. [msg |-> w[c].id, group |-> w[c].group, origin |-> FALSE] \in links'
      BY <2>2 DEF RecordReplica
    <3> QED BY <3>1
  <2> QED BY <2>1, <2>2
<1>6. ASSUME NEW m \in 1..Len(msgs), m = Ev(c).msg, m \in Promised(x)'
      PROVE  HasRow(m, here)' /\ (Latest(c, a) => Fresh(m, here)')
  <2>1. HasRow(m, here)'
    BY <1>1, <1>4, <1>5, <1>6 DEF HasRow
  <2>2. m \in Promised(x)
    BY <1>1, <1>6 DEF Promised
  <2>3. Latest(c, a) => Fresh(m, here)
    BY <1>1, <1>3, <1>6, <2>2 DEF Pending, Progress
  <2> QED BY <1>1, <2>1, <2>3 DEF Fresh, Alike
<1>7. Reached(c, here, a, x)
  BY <1>6 DEF Reached
<1>8. \A m, t : Fresh(m, t) => Fresh(m, t)'
  BY <1>1 DEF Fresh, Alike
<1> QED BY <1>1, <1>2, <1>3, <1>7, <1>8, NextWell

LEMMA PendingCleanup ==
    ASSUME Facts, NEW a, NEW x, Pending(a, x), NEW c \in Channels, Cleanup(c),
           NEW b, NEW y, Books(c, a, x, b, y)
    PROVE  Effect(c) /\ Own(c, b, y)
<1>1. queue[c] # <<>> /\ UNCHANGED msgs /\ w[c].at = "cleanup"
      /\ Copying(c) /\ Grown /\ Answer(c, queue) /\ Return(c, queue)
      /\ links' = {l \in links : l.group # w[c].group}
  BY Busy, CopyingNone, AnswerNone DEF Cleanup, Facts, Structure, Typed
<1>2. PICK o \in links : o.origin /\ o.msg = Ev(c).msg /\ o.group = w[c].group
  BY <1>1 DEF Facts, Linked, Owns, Owning, OriginOf
<1>3. msgs[Ev(c).msg].copyOf = 0
  BY <1>1, OwnEvent DEF Facts, Guarded, Authors
<1>4. ASSUME NEW l \in links, l \notin links'
      PROVE  msgs[l.msg].copyOf \in {0, Ev(c).msg}
  <2>1. l.group = w[c].group
    BY <1>1, <1>4
  <2>2. PICK k \in links : /\ k.origin /\ k.group = l.group
                           /\ l.msg = k.msg \/ (~l.origin /\ msgs[l.msg].copyOf = k.msg)
    BY DEF Facts, Linked, LinksSound
  <2>3. k = o
    BY <1>2, <2>1, <2>2 DEF Facts, Linked, OneOrigin
  <2> QED BY <1>2, <1>3, <2>2, <2>3
<1>5. Ev(c).kind = "deleted"
  BY <1>1 DEF Pending, Work
<1>6. ASSUME NEW m \in 1..Len(msgs), m = Ev(c).msg, m \in Promised(x)', Latest(c, a),
             NEW t \in Channels \ {c}
      PROVE  Fresh(m, t)'
  <2>1. m \in Promised(x)
    BY <1>1, <1>6 DEF Promised
  <2>2. Fresh(m, t)
    BY <1>1, <1>6, <2>1 DEF Pending, Progress, Served
  <2> QED BY <1>1, <2>2 DEF Fresh, Alike
<1>7. Done(c, a, x)
  BY <1>5, <1>6 DEF Done
<1> QED BY <1>1, <1>4, <1>7, HandledWell

\* An edit or a deletion is applied to a copy of the handler's message.
LEMMA CopyChanged ==
    ASSUME Facts, NEW a, NEW x, Pending(a, x), NEW c \in Channels, w[c].at = "apply", Grown,
           \A m \in 1..Len(msgs) : m # w[c].id => msgs'[m] = msgs[m],
           msgs[w[c].id].gone => msgs'[w[c].id].gone,
           Len(msgs') = Len(msgs)
    PROVE  /\ msgs[w[c].id].bot /\ msgs[w[c].id].copyOf = Ev(c).msg
           /\ msgs[w[c].id].chan = Target(c)
           /\ Copying(c) /\ Answer(c, queue)
           /\ \A m \in Promised(x), t \in Channels \ {c, Target(c)} :
                Fresh(m, t) => Fresh(m, t)'
<1>1. PICK id \in 1..Len(msgs) : /\ id = w[c].id /\ msgs[id].chan = Target(c)
                                /\ msgs[id].copyOf = Ev(c).msg
  BY DEF Facts, Structure, Handler, Pending, Work
<1>2. msgs[id].bot
  <2>1. msgs[id].copyOf # 0
    BY <1>1, OwnEvent
  <2> QED BY <1>1, <2>1 DEF Facts, Guarded, Authors
<1>3. \A m \in 1..Len(msgs) : m # id => msgs'[m] = msgs[m]
  BY <1>1
<1>4. Copying(c)
  BY <1>1, <1>3 DEF Copying
<1>5. ASSUME NEW m \in Promised(x), NEW t \in Channels \ {c, Target(c)}, Fresh(m, t)
      PROVE  Fresh(m, t)'
  <2>1. PICK k \in 1..Len(msgs) : msgs[k].copyOf = m /\ msgs[k].chan = t /\ Alike(m, k)
    BY <1>5 DEF Fresh
  <2>2. m \in 1..Len(msgs) /\ m # id
    BY <1>2 DEF Promised
  <2>3. msgs'[m] = msgs[m]
    BY <1>3, <2>2
  <2>4. k # id
    BY <1>1, <2>1
  <2>5. msgs'[k] = msgs[k] /\ k \in 1..Len(msgs')
    BY <1>3, <2>1, <2>4
  <2> QED BY <2>1, <2>3, <2>5 DEF Fresh, Alike
<1>6. Answer(c, queue)
  BY AnswerNone DEF Facts
<1> QED BY <1>1, <1>2, <1>4, <1>5, <1>6

\* The latest news of a message is how the message is.
LEMMA LatestNews ==
    ASSUME Facts, NEW a, NEW x, Pending(a, x), NEW c \in Channels, queue[c] # <<>>,
           NEW m \in 1..Len(msgs), m = Ev(c).msg, ~msgs[m].bot, m \notin x,
           Latest(c, a), Ev(c).kind # "deleted"
    PROVE  msgs[m].gone = FALSE /\ Ev(c).text = msgs[m].text
BY HeadNews

LEMMA PendingApplyEdit ==
    ASSUME Facts, NEW a, NEW x, Pending(a, x), NEW c \in Channels, ApplyEdit(c),
           NEW b, NEW y, Books(c, a, x, b, y)
    PROVE  Effect(c) /\ Own(c, b, y)
<1>1. /\ w[c].at = "apply" /\ Ev(c).kind = "edited" /\ UNCHANGED links
      /\ w[c] \in WorkType /\ queue[c] # <<>> /\ Ev(c) \in EventType
      /\ w[c].at \in Serving
  BY Busy DEF ApplyEdit, Facts, Serving
<1>2. PICK id \in 1..Len(msgs) : id = w[c].id
  BY <1>1 DEF Facts, Structure, Handler
<1>3. CASE msgs[id].gone
  <2>1. Fail(c, FALSE, queue) /\ UNCHANGED msgs
    BY <1>2, <1>3 DEF ApplyEdit
  <2> QED BY <1>1, <2>1, OnlyRaises
<1>4. CASE ~msgs[id].gone
  <2> DEFINE ev == Event("edited", id, Ev(c).text)
             new == [msgs[id] EXCEPT !.text = Ev(c).text]
  <2>1. /\ msgs' = [msgs EXCEPT ![id].text = Ev(c).text]
        /\ NextTarget(c, Tell(queue, Target(c), ev), "lookup")
    BY <1>2, <1>4 DEF ApplyEdit
  <2>2. Grown /\ Len(msgs') = Len(msgs)
    BY <1>1, <2>1, Retext DEF Facts, EventType
  <2>3. msgs[id] \in MessageType
    BY ElementOfSeq DEF Facts, Structure, Typed
  <2>4. /\ new.bot = msgs[id].bot /\ new.gone = FALSE /\ new.text = Ev(c).text
        /\ new.chan = msgs[id].chan /\ new.copyOf = msgs[id].copyOf
    BY <1>4, <2>3 DEF MessageType
  <2>5. \A m \in 1..Len(msgs) : msgs'[m] = IF m = id THEN new ELSE msgs[m]
    BY <2>1 DEF Facts, Structure, Typed
  <2>6. ev \in EventType /\ ev.msg = id
    BY <1>1, <1>2 DEF Event, EventType
  <2> HIDE DEF new, ev
  <2>7. /\ msgs[id].bot /\ msgs[id].copyOf = Ev(c).msg /\ msgs[id].chan = Target(c)
        /\ Copying(c)
        /\ \A m \in Promised(x), t \in Channels \ {c, Target(c)} :
             Fresh(m, t) => Fresh(m, t)'
    BY <1>1, <1>2, <1>4, <2>2, <2>5, CopyChanged
  <2>8. PICK here \in Channels \ {c} : here = Target(c)
    BY <1>1, Elsewhere
  <2>9. Answer(c, Tell(queue, Target(c), ev))
    <3>1. msgs'[ev.msg].bot
      BY <1>2, <2>4, <2>5, <2>6, <2>7
    <3> QED BY <2>6, <2>8, <3>1, AnswerTarget DEF Facts
  <2>10. ASSUME NEW m \in 1..Len(msgs), m = Ev(c).msg, m \in Promised(x)', Latest(c, a)
         PROVE  Fresh(m, here)'
    <3>1. ~msgs[m].bot /\ m \notin x
      BY <1>1, <2>10, OwnEvent DEF Promised
    <3>2. msgs[m].gone = FALSE /\ Ev(c).text = msgs[m].text
      BY <1>1, <2>10, <3>1, LatestNews
    <3>3. msgs'[m] = msgs[m] /\ msgs'[id] = new
      BY <1>2, <2>5, <2>7, <3>1
    <3>4. id \in 1..Len(msgs') /\ new.copyOf = m /\ new.chan = here
      BY <1>2, <2>2, <2>4, <2>7, <2>8, <2>10
    <3> QED BY <2>4, <3>2, <3>3, <3>4 DEF Fresh, Alike
  <2>11. Reached(c, here, a, x)
    BY <1>1, <2>10 DEF Reached
  <2> QED BY <1>1, <2>1, <2>2, <2>7, <2>8, <2>9, <2>11, NextWell
<1> QED BY <1>3, <1>4

LEMMA PendingApplyDelete ==
    ASSUME Facts, NEW a, NEW x, Pending(a, x), NEW c \in Channels, ApplyDelete(c),
           NEW b, NEW y, Books(c, a, x, b, y)
    PROVE  Effect(c) /\ Own(c, b, y)
<1>1. /\ w[c].at = "apply" /\ Ev(c).kind = "deleted" /\ UNCHANGED links
      /\ w[c] \in WorkType /\ queue[c] # <<>> /\ Ev(c) \in EventType
      /\ w[c].at \in Serving
  BY Busy DEF ApplyDelete, Facts, Serving
<1>2. PICK id \in 1..Len(msgs) : id = w[c].id
  BY <1>1 DEF Facts, Structure, Handler
<1> DEFINE ev == Event("deleted", id, 0)
           new == [msgs[id] EXCEPT !.gone = TRUE]
           q == IF msgs[id].gone THEN queue ELSE Tell(queue, Target(c), ev)
<1>3. /\ msgs' = [msgs EXCEPT ![id].gone = TRUE]
      /\ NextTarget(c, q, "lookup")
  BY <1>2 DEF ApplyDelete
<1>4. Grown /\ Len(msgs') = Len(msgs)
  BY <1>3, Removed DEF Facts
<1>5. msgs[id] \in MessageType
  BY ElementOfSeq DEF Facts, Structure, Typed
<1>6. /\ new.bot = msgs[id].bot /\ new.gone = TRUE
      /\ new.chan = msgs[id].chan /\ new.copyOf = msgs[id].copyOf
  BY <1>5 DEF MessageType
<1>7. \A m \in 1..Len(msgs) : msgs'[m] = IF m = id THEN new ELSE msgs[m]
  BY <1>3 DEF Facts, Structure, Typed
<1>8. ev \in EventType /\ ev.msg = id
  BY <1>1, <1>2 DEF Event, EventType
<1> HIDE DEF new, ev
<1>9. /\ msgs[id].bot /\ msgs[id].copyOf = Ev(c).msg /\ msgs[id].chan = Target(c)
      /\ Copying(c) /\ Answer(c, queue)
      /\ \A m \in Promised(x), t \in Channels \ {c, Target(c)} :
           Fresh(m, t) => Fresh(m, t)'
  BY <1>1, <1>2, <1>4, <1>6, <1>7, CopyChanged
<1>10. PICK here \in Channels \ {c} : here = Target(c)
  BY <1>1, Elsewhere
<1>11. Answer(c, q)
  <2>1. msgs'[ev.msg].bot
    BY <1>2, <1>6, <1>7, <1>8, <1>9
  <2>2. Answer(c, Tell(queue, Target(c), ev))
    BY <1>8, <1>10, <2>1, AnswerTarget DEF Facts
  <2> QED BY <1>9, <2>2
<1>12. ASSUME NEW m \in 1..Len(msgs), m = Ev(c).msg
       PROVE  Fresh(m, here)'
  <2>1. ~msgs[m].bot
    BY <1>1, <1>12, OwnEvent
  <2>2. msgs[m].gone = TRUE
    BY <1>1, <1>12, <2>1, HeadNews
  <2>3. msgs'[m] = msgs[m] /\ msgs'[id] = new
    BY <1>2, <1>7, <1>9, <2>1
  <2>4. id \in 1..Len(msgs') /\ new.copyOf = m /\ new.chan = here
    BY <1>2, <1>4, <1>6, <1>9, <1>10, <1>12
  <2> QED BY <1>6, <2>2, <2>3, <2>4 DEF Fresh, Alike
<1>13. Reached(c, here, a, x)
  BY <1>1, <1>12 DEF Reached
<1> HIDE DEF q
<1> QED BY <1>1, <1>3, <1>4, <1>9, <1>10, <1>11, <1>13, NextWell

LEMMA WorkerEffect ==
    ASSUME Facts, NEW a, NEW x, Pending(a, x), NEW c \in Channels,
           WorkerStep(c) \/ StepError(c) \/ SendReplyLost(c),
           NEW b, NEW y, Books(c, a, x, b, y)
    PROVE  /\ Effect(c) /\ Own(c, b, y)
           /\ Grown /\ Moves(c) /\ queue[c] # <<>>
<1>1. Effect(c) /\ Own(c, b, y)
  <2>1. CASE ~(RecordOrigin(c) \/ Send(c))
    BY <2>1, PendingBegin, PendingGuard, PendingFindParent, PendingMapParent,
       PendingRecordReplica, PendingFindGroup, PendingLookup, PendingApplyEdit,
       PendingApplyDelete, PendingCleanup, PendingFailures DEF WorkerStep
  <2>2. CASE RecordOrigin(c) \/ Send(c)
    <3>1. Effect(c) /\ Own(c, a, x)
      BY <2>2, PendingRecordOrigin, PendingSend
    <3>2. UNCHANGED dead
      BY <2>2 DEF RecordOrigin, Send
    <3> QED BY <3>1, <3>2 DEF Books
  <2> QED BY <2>1, <2>2
<1>2. Grown /\ Moves(c)
  BY WorkerMoves DEF Facts
<1>3. queue[c] # <<>>
  <2>1. CASE Begin(c)
    BY <2>1 DEF Begin
  <2>2. CASE StepError(c)
    BY <2>2 DEF StepError, Facts, Structure, Handler
  <2>3. CASE w[c].at # "idle"
    BY <2>3, Busy DEF Facts
  <2> QED BY <2>1, <2>2, <2>3 DEF WorkerStep, Guard, RecordOrigin, FindParent,
                MapParent, Send, SendReplyLost, Posted, SendRefused, RecordReplica,
                FindGroup, Lookup, ApplyEdit, ApplyDelete, Cleanup
<1> QED BY <1>1, <1>2, <1>3

LEMMA PendingWorker ==
    ASSUME Facts, NEW a, NEW x, Pending(a, x), NEW c \in Channels,
           WorkerStep(c) \/ StepError(c) \/ SendReplyLost(c),
           NEW b, NEW y, Books(c, a, x, b, y)
    PROVE  Pending(b, y)'
BY WorkerEffect, PendingFromOwn

-----------------------------------------------------------------------------
(* What users do, and crashes.                                             *)

\* A user posts, edits or deletes m, and the bridge is told.
News(c, m, ev) ==
    /\ ev.msg = m /\ ~msgs'[m].bot /\ msgs'[m].chan = c
    /\ queue' = Tell(queue, c, ev) /\ UNCHANGED <<links, w>>
    /\ \A k \in 1..Len(msgs) : k # m => msgs'[k] = msgs[k]
    /\ \A k \in 1..Len(msgs') : k \in 1..Len(msgs) \/ k = m
    /\ m \in 1..Len(msgs) =>
         /\ ~msgs[m].gone /\ ev.kind # "created" /\ msgs[m].text <= msgs'[m].text
         /\ ev.kind = "edited" => msgs[m].text < ev.text
    /\ m \notin 1..Len(msgs) => ev.kind = "created"
    /\ ev.kind = "deleted" <=> msgs'[m].gone
    /\ ~msgs'[m].gone => ev.text = msgs'[m].text
    /\ ev.text <= msgs'[m].text

\* What the bridge knew already came before it.
LEMMA EarlierNews ==
    ASSUME Facts, Grown, NEW c \in Channels, NEW m \in 1..Len(msgs'), NEW ev \in EventType,
           News(c, m, ev),
           NEW e \in EventType, e.msg = m, m \in 1..Len(msgs), Plausible(e, msgs[m])
    PROVE  Before(e, ev) /\ Plausible(e, msgs'[m])
<1>1. /\ msgs[m].text \in Nat /\ msgs'[m].text \in Nat /\ e.text \in Nat /\ ev.text \in Nat
      /\ msgs[m].gone \in BOOLEAN
  <2>1. msgs[m] \in MessageType /\ msgs'[m] \in MessageType
    BY ElementOfSeq DEF Facts, Structure, Typed, Grown
  <2> QED BY <2>1 DEF MessageType, EventType
<1>2. e.text <= msgs[m].text /\ e.kind # "deleted"
  BY DEF Plausible, News
<1>3. /\ ev.kind # "created" /\ msgs[m].text <= msgs'[m].text
      /\ ev.kind = "edited" => msgs[m].text < ev.text
  BY DEF News
<1> QED BY <1>1, <1>2, <1>3 DEF Before, Plausible

LEMMA UserNews ==
    ASSUME Facts, NEW a, NEW x, Pending(a, x), Grown, NEW c \in Channels,
           NEW m \in 1..Len(msgs'), NEW ev \in EventType, News(c, m, ev)
    PROVE  Pending(a, x)'
<1>1. /\ queue \in [Channels -> Seq(EventType)]
      /\ DOMAIN msgs = 1..Len(msgs) /\ DOMAIN msgs' = 1..Len(msgs')
      /\ 1..Len(msgs) \subseteq 1..Len(msgs')
  <2>1. /\ queue \in [Channels -> Seq(EventType)]
        /\ msgs \in Seq(MessageType) /\ msgs' \in Seq(MessageType)
        /\ Len(msgs') >= Len(msgs)
    BY DEF Facts, Structure, Typed, Grown
  <2> QED BY <2>1, LenProperties
<1>2. /\ queue'[c] = Append(queue[c], ev)
      /\ \A d \in Channels \ {c} : queue'[d] = queue[d]
  BY <1>1 DEF Tell, News
<1>3. \A d \in Channels : \A i \in 1..Len(queue[d]) :
        /\ queue[d][i].msg \in 1..Len(msgs)
        /\ msgs[queue[d][i].msg].chan = d
  BY DEF Facts, Structure, Known
<1>4. m \in 1..Len(msgs) => msgs[m].chan = c /\ ~msgs[m].bot
  BY DEF Grown, News
<1>5. \A k \in 1..Len(msgs) : msgs'[k].bot = msgs[k].bot
  BY DEF Grown
<1>6. ASSUME NEW d \in Channels PROVE Fits(d, a, x)'
  <2>1. Ordered(queue[d], msgs, a, x)
    BY DEF Pending, Fits
  <2>2. CASE d # c
    <3>1. ASSUME NEW i \in 1..Len(queue[d])
          PROVE  msgs'[queue[d][i].msg] = msgs[queue[d][i].msg]
      <4>1. PICK k \in 1..Len(msgs) : k = queue[d][i].msg /\ msgs[k].chan = d
        BY <1>3
      <4>2. k # m
        BY <1>4, <2>2, <4>1
      <4> QED BY <4>1, <4>2 DEF News
    <3>2. Ordered(queue[d], msgs', a, x)
      <4>1. PICK q \in Seq(EventType) : q = queue[d]
        BY <1>1
      <4>2. PICK ms, new : ms = msgs /\ new = msgs'
        OBVIOUS
      <4>3. Ordered(q, ms, a, x) /\ \A i \in 1..Len(q) : new[q[i].msg] = ms[q[i].msg]
        BY <2>1, <3>1, <4>1, <4>2
      <4>4. Ordered(q, new, a, x)
        BY <4>3, OrderedKept
      <4> QED BY <4>1, <4>2, <4>4
    <3> QED BY <1>2, <2>2, <3>2 DEF Fits
  <2>3. CASE d = c
    <3>1. \A i \in 1..Len(queue[c]) :
            /\ msgs'[queue[c][i].msg].bot = msgs[queue[c][i].msg].bot
            /\ queue[c][i].msg # m => msgs'[queue[c][i].msg] = msgs[queue[c][i].msg]
      BY <1>3, <1>5 DEF News
    <3>2. ASSUME NEW i \in 1..Len(queue[c]), queue[c][i].msg = m
          PROVE  Before(queue[c][i], ev) /\ Plausible(queue[c][i], msgs'[m])
      <4>1. m \in 1..Len(msgs) /\ ~msgs[m].bot /\ queue[c][i] \in EventType
        <5>1. queue[c] \in Seq(EventType)
          BY <1>1
        <5> QED BY <1>3, <1>4, <3>2, <5>1, ElementOfSeq
      <4>2. Plausible(queue[c][i], msgs[m])
        BY <2>1, <2>3, <3>2, <4>1 DEF Ordered
      <4> QED BY <3>2, <4>1, <4>2, EarlierNews
    <3>3. ASSUME NEW e \in a, e.msg = m PROVE Before(e, ev)
      <4>1. e \in EventType /\ m \in 1..Len(msgs) /\ Plausible(e, msgs[m])
        BY <1>4, <3>3 DEF Pending, Past
      <4> QED BY <3>3, <4>1, EarlierNews
    <3>4. Plausible(ev, msgs'[m]) /\ Tells(ev, msgs'[m]) /\ ev.msg = m
      BY DEF Plausible, Tells, News
    <3>5. Ordered(Append(queue[c], ev), msgs', a, x)
      <4>1. PICK q \in Seq(EventType) : q = queue[c]
        BY <1>1
      <4>2. PICK ms, new : ms = msgs /\ new = msgs'
        OBVIOUS
      <4>3. Ordered(q, ms, a, x)
        BY <2>1, <2>3, <4>1, <4>2
      <4>4. \A i \in 1..Len(q) :
              /\ new[q[i].msg].bot = ms[q[i].msg].bot
              /\ q[i].msg # ev.msg => new[q[i].msg] = ms[q[i].msg]
        BY <3>1, <3>4, <4>1, <4>2
      <4>5. /\ \A i \in 1..Len(q) : q[i].msg = ev.msg =>
                 Before(q[i], ev) /\ Plausible(q[i], new[ev.msg])
            /\ \A e \in a : e.msg = ev.msg => Before(e, ev)
            /\ Plausible(ev, new[ev.msg]) /\ Tells(ev, new[ev.msg])
        BY <3>2, <3>3, <3>4, <4>1, <4>2
      <4>6. Ordered(Append(q, ev), new, a, x)
        BY <4>3, <4>4, <4>5, OrderedNews
      <4> QED BY <4>1, <4>2, <4>6
    <3> QED BY <1>2, <2>3, <3>5 DEF Fits
  <2> QED BY <2>2, <2>3
<1>7. \A d \in Channels : Len(queue[d]) \in Nat
  BY <1>1, LenProperties
<1>8. \A d \in Channels : queue[d] # <<>> => Ev(d)' = Ev(d)
  <2>1. queue[c] # <<>> => Head(Append(queue[c], ev)) = Head(queue[c])
    <3>1. queue[c] \in Seq(EventType)
      BY <1>1
    <3> QED BY <3>1, AppendProperties, HeadTailProperties, EmptySeq, LenProperties
  <2> QED BY <1>2, <2>1 DEF Ev
<1>9. \A t : \A k \in 1..Len(msgs) :
        /\ HasRow(k, t) => HasRow(k, t)'
        /\ k # m /\ Fresh(k, t) => Fresh(k, t)'
  <2>1. UNCHANGED links
    BY DEF News
  <2>2. \A t : \A k : HasRow(k, t) => HasRow(k, t)'
    BY <2>1, RowKept DEF Facts
  <2>3. ASSUME NEW t, NEW k \in 1..Len(msgs), k # m, Fresh(k, t) PROVE Fresh(k, t)'
    <3>1. PICK i \in 1..Len(msgs) : msgs[i].copyOf = k /\ msgs[i].chan = t /\ Alike(k, i)
      BY <2>3 DEF Fresh
    <3>2. msgs[i].bot
      <4>1. msgs[i].copyOf # 0
        BY <3>1
      <4> QED BY <3>1, <4>1 DEF Facts, Guarded, Authors
    <3>3. msgs'[i] = msgs[i] /\ msgs'[k] = msgs[k] /\ i \in 1..Len(msgs')
      BY <1>1, <1>4, <2>3, <3>1, <3>2 DEF News
    <3> QED BY <3>1, <3>3 DEF Fresh, Alike
  <2> QED BY <2>2, <2>3
<1>9a. ASSUME NEW t, NEW k \in 1..Len(msgs), Covered(k, t) PROVE Covered(k, t)'
  <2>1. CASE k = m
    <3>1. HasRow(k, t)
      BY <1>9a, <2>1 DEF Covered, News
    <3> QED BY <1>9, <3>1 DEF Covered
  <2>2. CASE k # m
    BY <1>9, <1>9a, <2>2 DEF Covered, News
  <2> QED BY <2>1, <2>2
<1>10. \A k \in Promised(x)' : k \in Promised(x) \/ k \notin 1..Len(msgs)
  BY <1>1, <1>5 DEF Promised
<1>11. ASSUME NEW d \in Channels PROVE Work(d)' /\ Progress(d, a, x)'
  <2>1. CASE w[d].at \in {"idle", "guard"}
    BY <2>1 DEF Work, Progress, Serving, Creating, News
  <2>2. CASE w[d].at \notin {"idle", "guard"}
    <3>1. PICK k \in 1..Len(msgs) : k = Ev(d).msg /\ msgs[k].chan = d /\ ~msgs[k].bot
                                 /\ queue[d] # <<>>
      BY <2>2, OwnEvent
    <3>2. Ev(d)' = Ev(d) /\ w'[d] = w[d] /\ Target(d)' = Target(d)
      BY <1>8, <3>1 DEF Target, News
    <3>3. \A t : Served(d, t)' <=> Served(d, t)
      BY <3>2 DEF Served
    <3>4. Work(d)'
      <4>1. w[d].at = "apply" => w[d].id \in 1..Len(msgs)
        BY DEF Facts, Structure, Handler
      <4> QED BY <3>2, <4>1 DEF Pending, Work, Grown
    <3>5. Latest(d, a)' => Latest(d, a) /\ k # m
      <4>1. CASE d # c
        BY <1>2, <1>4, <3>1, <3>2, <4>1 DEF Latest
      <4>2. CASE Ev(d).kind = "deleted"
        <5>1. msgs[k].gone
          BY <3>1, <4>2, HeadNews
        <5>2. k # m
          BY <5>1 DEF News
        <5> QED BY <3>2, <4>2, <5>2 DEF Latest
      <4>3. CASE d = c /\ Ev(d).kind # "deleted"
        <5> DEFINE s == Tail(queue[c])
        <5>1. Tail(queue'[c]) = Append(s, ev) /\ s \in Seq(EventType)
          BY <1>1, <1>2, <3>1, <4>3, TailAppend, HeadTailProperties
        <5> HIDE DEF s
        <5>2. Range(Append(s, ev)) = Range(s) \cup {ev}
          BY <5>1, RangeAppend
        <5>3. Awaits(Range(Append(s, ev)) \cup a, k) <=> Awaits(Range(s) \cup a, k) \/ m = k
          BY <5>2 DEF Awaits, News
        <5> QED BY <3>1, <3>2, <4>3, <5>1, <5>3 DEF Latest, s
      <4> QED BY <4>1, <4>2, <4>3
    <3>6. ASSUME k \in Promised(x)', w[d].at \in Serving \cup {"cleanup"},
                 NEW t \in Channels \ {d}
          PROVE  /\ Served(d, t) /\ Ev(d).kind = "created" => HasRow(k, t)'
                 /\ (Served(d, t) \/ (w[d].at = "link" /\ t = Target(d))) /\ Latest(d, a)'
                      => Fresh(k, t)'
      BY <1>9, <1>10, <3>1, <3>5, <3>6 DEF Pending, Progress
    <3>7. Ev(d)'.msg = k
      BY <3>1, <3>2
    <3>8. Progress(d, a, x)'
      BY <3>2, <3>3, <3>6, <3>7 DEF Progress
    <3> QED BY <3>4, <3>8
  <2> QED BY <2>1, <2>2
<1>12. ASSUME NEW d \in Channels PROVE Kept(d, a, x)'
  <2> SUFFICES ASSUME NEW k \in Promised(x)', msgs'[k].chan = d PROVE KeptFor(k, d, a)'
    BY DEF Kept
  <2>1. k \in 1..Len(msgs')
    BY <1>1 DEF Promised
  <2>2. Range(queue'[c]) = Range(queue[c]) \cup {ev} /\ ev.msg = m
    <3>1. queue[c] \in Seq(EventType)
      BY <1>1
    <3> QED BY <1>2, <3>1, RangeAppend DEF News
  <2>3. CASE k \notin 1..Len(msgs)
    <3>1. k = m /\ d = c /\ ev.kind = "created"
      BY <2>1, <2>3 DEF News
    <3>2. AwaitsKind(ToCome(c, a)', m, "created") /\ Awaits(ToCome(c, a)', m)
      BY <2>2, <3>1 DEF ToCome, Awaits, AwaitsKind
    <3> QED BY <3>1, <3>2 DEF KeptFor, Made
  <2>4. CASE k \in 1..Len(msgs) /\ k = m
    <3>1. d = c /\ ~msgs[m].gone /\ ev.kind # "created" /\ m \in Promised(x)
      BY <1>4, <1>10, <2>4 DEF News
    <3>2. KeptFor(m, c, a)
      BY <1>4, <2>4, <3>1 DEF Pending, Kept
    <3>3. Awaits(ToCome(c, a)', m)
      BY <2>2 DEF ToCome, Awaits
    <3>4. Made(m, c, a)' => Made(m, c, a)
      BY <2>2, <3>1 DEF Made, ToCome, AwaitsKind
    <3>5. \A t \in Channels \ {c} : Made(m, c, a)' => Covered(m, t)'
      BY <1>9a, <2>4, <3>1, <3>2, <3>4 DEF KeptFor
    <3> QED BY <2>4, <3>1, <3>3, <3>5 DEF KeptFor
  <2>5. CASE k \in 1..Len(msgs) /\ k # m
    <3>1. k \in Promised(x) /\ msgs'[k] = msgs[k]
      BY <1>10, <2>5 DEF News
    <3>2. KeptFor(k, d, a)
      BY <3>1 DEF Pending, Kept
    <3>3. /\ Awaits(Range(queue'[d]), k) <=> Awaits(Range(queue[d]), k)
          /\ \A kind : AwaitsKind(Range(queue'[d]), k, kind)
                         <=> AwaitsKind(Range(queue[d]), k, kind)
      <4>1. CASE d = c
        BY <2>2, <2>5, <4>1 DEF Awaits, AwaitsKind
      <4>2. CASE d # c
        BY <1>2, <4>2
      <4> QED BY <4>1, <4>2
    <3>4. /\ Awaits(ToCome(d, a)', k) <=> Awaits(ToCome(d, a), k)
          /\ \A kind : AwaitsKind(ToCome(d, a)', k, kind)
                         <=> AwaitsKind(ToCome(d, a), k, kind)
      BY <3>3 DEF ToCome, Awaits, AwaitsKind
    <3>5. Made(k, d, a)' => Made(k, d, a)
      BY <3>1, <3>3, <3>4 DEF Made
    <3>6. ASSUME NEW t \in Channels \ {d}
          PROVE  /\ Made(k, d, a)' => Covered(k, t)'
                 /\ ~Awaits(ToCome(d, a)', k) => Fresh(k, t)'
      BY <1>9, <1>9a, <2>5, <3>1, <3>2, <3>4, <3>5 DEF KeptFor
    <3> QED BY <3>6 DEF KeptFor
  <2> QED BY <2>3, <2>4, <2>5
<1>13. Past(a)'
  <2>1. ASSUME NEW e \in a
        PROVE  /\ e \in EventType /\ e.msg \in 1..Len(msgs')
               /\ ~msgs'[e.msg].bot => Plausible(e, msgs'[e.msg])
    <3>1. /\ e \in EventType /\ e.msg \in 1..Len(msgs)
          /\ ~msgs[e.msg].bot => Plausible(e, msgs[e.msg])
      BY DEF Pending, Past
    <3>2. CASE e.msg = m
      BY <1>1, <1>5, <3>1, <3>2, EarlierNews
    <3>3. CASE e.msg # m
      BY <1>1, <3>1, <3>3 DEF News
    <3> QED BY <3>2, <3>3
  <2> QED BY <2>1 DEF Past
<1> QED BY <1>6, <1>11, <1>12, <1>13 DEF Pending

ANews ==
    \E c \in Channels : \E m \in 1..Len(msgs') : \E ev \in EventType : News(c, m, ev)

LEMMA PostTold ==
    ASSUME Facts, NEW c \in Channels, NEW parent \in ThreadRoots(c) \cup {0},
           UserPost(c, parent)
    PROVE  Grown /\ ANews
<1>1. /\ Grown /\ Len(msgs) \in Nat /\ Len(msgs') = Len(msgs) + 1
      /\ msgs'[Len(msgs) + 1] = Message(c, FALSE, parent, 0, 0)
  BY UserPostStep DEF Facts
<1>2. PICK m \in 1..Len(msgs') : m = Len(msgs')
  BY <1>1
<1>3. PICK ev \in EventType : ev = Event("created", m, 0)
  <2>1. m \in Nat
    BY <1>1
  <2>2. Event("created", m, 0) \in EventType
    BY <2>1 DEF Event, EventType
  <2> QED BY <2>2
<1>4. ev.msg = m /\ ev.kind = "created" /\ ev.text = 0
  BY <1>3 DEF Event
<1>5. ~msgs'[m].bot /\ ~msgs'[m].gone /\ msgs'[m].chan = c /\ msgs'[m].text = 0
  BY <1>1, <1>2 DEF Message
<1>6. queue' = Tell(queue, c, ev) /\ UNCHANGED <<links, w>>
  BY <1>2, <1>3 DEF UserPost
<1>7. \A k \in 1..Len(msgs) : msgs'[k] = msgs[k]
  <2> DEFINE new == Message(c, FALSE, parent, 0, 0)
  <2>1. msgs \in Seq(MessageType) /\ new \in MessageType
    <3>1. Len(msgs) + 1 \in 1..Len(msgs')
      BY <1>1
    <3> QED BY <1>1, <3>1, ElementOfSeq DEF Facts, Structure, Typed, Grown
  <2>2. msgs' = Append(msgs, new)
    BY DEF UserPost
  <2> HIDE DEF new
  <2> QED BY <2>1, <2>2, AppendProperties
<1>8. m \notin 1..Len(msgs) /\ \A k \in 1..Len(msgs') : k \in 1..Len(msgs) \/ k = m
  BY <1>1, <1>2
<1>9. News(c, m, ev)
  BY <1>4, <1>5, <1>6, <1>7, <1>8 DEF News
<1> QED BY <1>1, <1>9 DEF ANews

LEMMA ChangeTold ==
    ASSUME Facts, NEW m \in OwnPosts, UserEdit(m) \/ UserDelete(m)
    PROVE  Grown /\ ANews
<1>1. m \in 1..Len(msgs) /\ ~msgs[m].bot /\ ~msgs[m].gone
  BY DEF OwnPosts, Facts, Structure, Typed
<1>2. Grown /\ Len(msgs') = Len(msgs)
  BY UserChangeStep DEF Facts
<1>3. msgs[m] \in MessageType
  BY <1>1, ElementOfSeq DEF Facts, Structure, Typed
<1>4. PICK c \in Channels : c = msgs[m].chan
  BY <1>3 DEF MessageType
<1>5. ~msgs'[m].bot /\ msgs'[m].chan = c
  BY <1>1, <1>2, <1>4 DEF Grown
<1> DEFINE r == msgs[m]
<1>6. r.text \in Nat
  BY <1>3 DEF MessageType
<1>7. CASE UserEdit(m)
  <2>1. \A k \in 1..Len(msgs) : k # m => msgs'[k] = msgs[k]
    BY <1>7 DEF UserEdit, Facts, Structure, Typed
  <2>2. msgs'[m] \in MessageType
    BY <1>1, <1>2, ElementOfSeq DEF Grown
  <2>3. ~msgs'[m].gone /\ msgs'[m].text = r.text + 1
    <3>1. msgs'[m] = [msgs[m] EXCEPT !.text = msgs[m].text + 1]
      <4>1. msgs' = [msgs EXCEPT ![m] = [msgs[m] EXCEPT !.text = msgs[m].text + 1]]
        BY <1>7 DEF UserEdit
      <4> QED BY <4>1 DEF OwnPosts
    <3> QED BY <1>1, <1>3, <3>1 DEF MessageType
  <2>4. PICK ev \in EventType : ev = Event("edited", m, msgs'[m].text)
    <3>1. m \in Nat /\ msgs'[m].text \in Nat
      BY <1>1, <2>2 DEF MessageType
    <3>2. Event("edited", m, msgs'[m].text) \in EventType
      BY <3>1 DEF Event, EventType
    <3> QED BY <3>2
  <2>5. ev.msg = m /\ ev.kind = "edited" /\ ev.text = msgs'[m].text
    BY <2>4 DEF Event
  <2>6. queue' = Tell(queue, c, ev) /\ UNCHANGED <<links, w>>
    BY <1>4, <1>7, <2>4 DEF UserEdit
  <2>7. /\ msgs[m].text <= msgs'[m].text /\ msgs[m].text < ev.text
        /\ ev.text <= msgs'[m].text
    BY <1>6, <2>3, <2>5
  <2>8. m \in 1..Len(msgs') /\ 1..Len(msgs') = 1..Len(msgs)
    BY <1>1, <1>2
  <2>9. News(c, m, ev)
    BY <1>1, <1>5, <2>1, <2>3, <2>5, <2>6, <2>7, <2>8 DEF News
  <2> QED BY <1>2, <2>8, <2>9 DEF ANews
<1>8. CASE UserDelete(m)
  <2>1. \A k \in 1..Len(msgs) : k # m => msgs'[k] = msgs[k]
    BY <1>8 DEF UserDelete, Facts, Structure, Typed
  <2>2. msgs'[m].gone /\ msgs'[m].text = r.text
    <3>1. msgs'[m] = [msgs[m] EXCEPT !.gone = TRUE]
      <4>1. msgs' = [msgs EXCEPT ![m] = [msgs[m] EXCEPT !.gone = TRUE]]
        BY <1>8 DEF UserDelete
      <4> QED BY <4>1 DEF OwnPosts
    <3> QED BY <1>3, <3>1 DEF MessageType
  <2>3. PICK ev \in EventType : ev = Event("deleted", m, 0)
    <3>1. m \in Nat
      BY <1>1
    <3>2. Event("deleted", m, 0) \in EventType
      BY <3>1 DEF Event, EventType
    <3> QED BY <3>2
  <2>4. ev.msg = m /\ ev.kind = "deleted" /\ ev.text = 0
    BY <2>3 DEF Event
  <2>5. queue' = Tell(queue, c, ev) /\ UNCHANGED <<links, w>>
    BY <1>4, <1>8, <2>3 DEF UserDelete
  <2>6. msgs[m].text <= msgs'[m].text /\ ev.text <= msgs'[m].text
    BY <1>6, <2>2, <2>4
  <2>7. m \in 1..Len(msgs') /\ 1..Len(msgs') = 1..Len(msgs)
    BY <1>1, <1>2
  <2>8. News(c, m, ev)
    BY <1>1, <1>5, <2>1, <2>2, <2>4, <2>5, <2>6, <2>7 DEF News
  <2> QED BY <1>2, <2>7, <2>8 DEF ANews
<1> QED BY <1>7, <1>8

LEMMA UserTells == Facts /\ UserStep => Grown /\ ANews
BY PostTold, ChangeTold DEF UserStep

\* A crash loses what the handlers were doing, never an event.
LEMMA PendingCrash ==
    ASSUME Structure, NEW a, NEW x, Pending(a, x), UNCHANGED <<msgs, links, queue>>,
           \A c \in Channels : w'[c] = Idle \/ w' = w
    PROVE  Pending(a, x)'
<1>1. Promised(x)' = Promised(x)
  BY DEF Promised
<1>2. /\ \A m, t : (HasRow(m, t)' <=> HasRow(m, t)) /\ (Fresh(m, t)' <=> Fresh(m, t))
      /\ \A m, k : Alike(m, k)' <=> Alike(m, k)
  BY DEF HasRow, Fresh, Alike
<1>3. \A c \in Channels : Fits(c, a, x)'
  BY DEF Pending, Fits
<1>4. \A c \in Channels : Kept(c, a, x)'
  <2>1. \A m, t : Covered(m, t)' <=> Covered(m, t)
    BY <1>2 DEF Covered
  <2>2. \A m, c : (Made(m, c, a)' <=> Made(m, c, a)) /\ ToCome(c, a)' = ToCome(c, a)
    BY DEF Made, ToCome
  <2>3. \A m, c : KeptFor(m, c, a)' <=> KeptFor(m, c, a)
    BY <1>2, <2>1, <2>2 DEF KeptFor
  <2> QED BY <1>1, <2>3 DEF Pending, Kept
<1>5. ASSUME NEW c \in Channels PROVE Work(c)' /\ Progress(c, a, x)'
  <2>1. CASE w'[c] = Idle
    BY <2>1, OwnIdle
  <2>2. CASE w' = w
    <3>1. Ev(c)' = Ev(c) /\ (Latest(c, a)' <=> Latest(c, a)) /\ Target(c)' = Target(c)
      BY <2>2 DEF Ev, Latest, Target
    <3>2. \A t : Served(c, t)' <=> Served(c, t)
      BY <2>2 DEF Served
    <3>3. Work(c)'
      BY <2>2, <3>1 DEF Pending, Work
    <3>4. PICK m : m = Ev(c).msg
      OBVIOUS
    <3>5. Ev(c)'.msg = m
      BY <3>1, <3>4
    <3>6. Progress(c, a, x)'
      BY <1>1, <1>2, <2>2, <3>1, <3>2, <3>4, <3>5 DEF Pending, Progress
    <3> QED BY <3>3, <3>6
  <2> QED BY <2>1, <2>2
<1>6. Past(a)'
  BY DEF Pending, Past
<1> QED BY <1>3, <1>4, <1>5, <1>6 DEF Pending

LEMMA PendingInit == Init => Pending({}, {})
<1> SUFFICES ASSUME Init PROVE Pending({}, {})
  OBVIOUS
<1>1. \A c \in Channels : queue[c] = <<>> /\ w[c] = Idle
  BY DEF Init
<1>2. Promised({}) = {}
  <2>1. CASE OldPost
    <3>1. msgs = <<Message(Endpoints[1], FALSE, 0, 0, 0)>>
      BY <2>1 DEF Init
    <3>2. \A m \in 1..Len(msgs) : m = 1
      BY <3>1
    <3> QED BY <2>1, <3>2 DEF Promised
  <2>2. CASE ~OldPost
    <3>1. msgs = <<>>
      BY <2>2 DEF Init
    <3>2. DOMAIN msgs = {}
      BY <3>1
    <3> QED BY <3>2 DEF Promised
  <2> QED BY <2>1, <2>2
<1>3. \A c \in Channels : Fits(c, {}, {})
  BY <1>1 DEF Fits, Ordered
<1>4. \A c \in Channels : Work(c) /\ Progress(c, {}, {})
  BY <1>1, IdleType DEF Work, Progress, Serving, Creating
<1>5. \A c \in Channels : Kept(c, {}, {})
  BY <1>2 DEF Kept
<1> QED BY <1>3, <1>4, <1>5 DEF Pending, Past

LEMMA Outsiders ==
    ASSUME Facts, NEW a, NEW x, Pending(a, x),
           UserStep \/ Crash \/ UNCHANGED <<msgs, links, queue, w>>
    PROVE  Pending(a, x)'
<1>1. CASE UserStep
  BY <1>1, UserTells, UserNews DEF ANews
<1>2. CASE Crash
  <2>1. UNCHANGED <<msgs, links, queue>> /\ \A c \in Channels : w'[c] = Idle
    BY <1>2 DEF Crash, Die
  <2> QED BY <2>1, PendingCrash DEF Facts
<1>3. CASE UNCHANGED <<msgs, links, queue, w>>
  BY <1>3, PendingCrash DEF Facts
<1> QED BY <1>1, <1>2, <1>3

\* A step of a worker settles nothing, or its event, which may die.
LEMMA Dies ==
    ASSUME NEW c, WorkerStep(c) \/ StepError(c) \/ SendReplyLost(c)
    PROVE  dead' = dead \/ dead' = dead \cup {Ev(c)}
<1>1. ASSUME NEW q, Return(c, q) PROVE dead' = dead \/ dead' = dead \cup {Ev(c)}
  BY <1>1 DEF Return, Fail, Die
<1>2. ASSUME NEW q, NEW first, NextTarget(c, q, first)
      PROVE  dead' = dead \/ dead' = dead \cup {Ev(c)}
  BY <1>1, <1>2 DEF NextTarget
<1>3. CASE FindParent(c) \/ MapParent(c) \/ SendRefused(c) \/ StepError(c) \/ SendReplyLost(c)
  BY <1>3 DEF FindParent, MapParent, SendRefused, StepError, SendReplyLost, Fail
<1>4. CASE RecordOrigin(c) \/ Send(c)
  BY <1>4 DEF RecordOrigin, Send
<1>5. CASE Begin(c) \/ Guard(c) \/ FindGroup(c) \/ Cleanup(c)
  BY <1>1, <1>5 DEF Begin, Guard, FindGroup, Cleanup
<1>6. CASE RecordReplica(c) \/ Lookup(c) \/ ApplyDelete(c)
  BY <1>2, <1>6 DEF RecordReplica, Lookup, ApplyDelete
<1>7. CASE ApplyEdit(c)
  BY <1>2, <1>7 DEF ApplyEdit, Fail
<1> QED BY <1>3, <1>4, <1>5, <1>6, <1>7 DEF WorkerStep

\* Once the queues are empty what was promised has been done.
LEMMA PendingDelivers ==
    ASSUME Structure, NEW a, NEW x, Pending(a, x), Quiet,
           NEW m \in Promised(x), ~Awaits(a, m), NEW t \in Channels \ {msgs[m].chan}
    PROVE  \E k \in Copies(m, t) : Alike(m, k)
<1>1. m \in 1..Len(msgs) /\ DOMAIN msgs = 1..Len(msgs)
  BY DEF Structure, Typed, Promised
<1>2. PICK c \in Channels : c = msgs[m].chan
  <2>1. msgs[m] \in MessageType
    BY <1>1, ElementOfSeq DEF Structure, Typed
  <2> QED BY <2>1 DEF MessageType
<1>3. ~Awaits(ToCome(c, a), m)
  <2>1. queue[c] = <<>>
    BY DEF Quiet
  <2> QED BY <2>1 DEF Awaits, ToCome, Range
<1>4. Fresh(m, t)
  BY <1>2, <1>3 DEF Pending, Kept, KeptFor
<1> QED BY <1>1, <1>4 DEF Fresh, Copies

\* What has died is given up, for good: its message is not among those that are
\* to be delivered.
LEMMA PendingStep ==
    Facts /\ Pending(dead, {}) /\ [Next]_vars => Pending(dead, {})'
<1> SUFFICES ASSUME Facts, Pending(dead, {}), [Next]_vars PROVE Pending(dead, {})'
  OBVIOUS
<1>1. PICK a, b : a = dead /\ b = dead'
  OBVIOUS
<1>2. Pending(b, {})' => Pending(dead, {})'
  BY <1>1
<1>3. ASSUME NEW c \in Channels, WorkerStep(c) \/ StepError(c) \/ SendReplyLost(c)
      PROVE  Pending(b, {})'
  <2>1. Books(c, a, {}, b, {})
    BY <1>1, <1>3, Dies DEF Books
  <2> QED BY <1>1, <1>3, <2>1, PendingWorker
<1>4. CASE UserStep \/ Crash \/ UNCHANGED vars
  <2>1. UNCHANGED dead
    BY <1>4 DEF UserStep, UserPost, UserEdit, UserDelete, Crash, Die, vars
  <2>2. Pending(a, {})'
    BY <1>1, <1>4, Outsiders DEF vars
  <2> QED BY <1>1, <2>1, <2>2
<1> QED BY <1>2, <1>3, <1>4, NextCases

LEMMA DeadDelivers == Structure /\ Pending(dead, {}) => Delivered
<1> SUFFICES ASSUME Structure, Pending(dead, {}), Quiet,
                    NEW m \in Relayed, NEW t \in Channels \ {msgs[m].chan}
             PROVE  \E k \in Copies(m, t) : Alike(m, k)
  BY DEF Delivered
<1>1. PICK a : a = dead
  OBVIOUS
<1>2. m \in Promised({}) /\ ~Awaits(a, m)
  BY <1>1 DEF Relayed, Promised, Awaits, Structure, Typed
<1> QED BY <1>1, <1>2, PendingDelivers

\* Under the same assumption nothing is left behind: when the queues are empty
\* every post the bridge has seen and given up nothing of has a copy in every
\* other channel that follows its edits and its deletion, whatever was retried,
\* whatever reply was lost and wherever the process died (relay.py).
THEOREM PostsDelivered ==
    ASSUME SelfKnown \/ ~RelayBots
    PROVE  Spec => []Delivered
<1>1. Facts /\ Pending(dead, {}) /\ [Next]_vars => (Facts /\ Pending(dead, {}))'
  BY StructureStep, GuardedStep, LinkedStep, PendingStep DEF Facts
<1>2. Init => Facts /\ Pending(dead, {})
  <2>1. Init => Linked
    BY IdleType DEF Init, Linked, LinksSound, Kinds, OneOrigin, Owns, Owning, Creating
  <2>2. Init => dead = {}
    BY DEF Init
  <2> QED BY <2>1, <2>2, StructureInit, GuardedInit, PendingInit DEF Facts
<1>3. Facts /\ Pending(dead, {}) => Delivered
  BY DeadDelivers DEF Facts
<1> QED BY <1>1, <1>2, <1>3, PTL DEF Spec

-----------------------------------------------------------------------------
(* Revival: what the operator's command and the claims after it leave alone. *)

\* The rows of channel c that are not in its queue are about its messages.
Local(q, ms, c) ==
    \A i \in 1..Len(q) : q[i].msg \in 1..Len(ms) /\ ms[q[i].msg].chan = c

Shelved ==
    /\ morgue \in [Channels -> Seq(EventType)]
    /\ revived \in [Channels -> Seq(EventType)]
    /\ held \in [Channels -> [tries : Nat, behind : Nat]]
    /\ \A c \in Channels : Local(morgue[c], msgs, c) /\ Local(revived[c], msgs, c)

\* A worker is busy, or what it claims is the head of its queue.
RelayCases ==
    \/ \E c \in Channels :
         (WorkerStep(c) /\ Claimable(c)) \/ StepError(c) \/ SendReplyLost(c)
    \/ UserStep
    \/ Crash

LEMMA RevivalCases ==
    [RevivalNext]_allVars =>
        \/ RelayCases /\ Book
        \/ \E c \in Channels : Reorder(c) \/ Resume(c)
        \/ Revive
        \/ UNCHANGED allVars
BY DEF RevivalNext, RelayCases, Proceed, RelayStep, UserStep

LEMMA RelaySteps == RelayCases => Next
BY NextCases DEF RelayCases

LEMMA Grows == Structure /\ Next => Grown
<1> SUFFICES ASSUME Structure, Next PROVE Grown
  OBVIOUS
<1>1. ASSUME NEW c \in Channels, WorkerStep(c) \/ StepError(c) \/ SendReplyLost(c)
      PROVE  Grown
  BY <1>1, WorkerMoves
<1>2. CASE UserStep
  BY <1>2, UserPostStep, UserChangeStep DEF UserStep
<1>3. CASE Crash
  BY <1>3, SameMessages DEF Crash
<1> QED BY <1>1, <1>2, <1>3, NextCases

LEMMA LocalKept ==
    ASSUME Structure, Grown, NEW q, NEW c, Local(q, msgs, c)
    PROVE  Local(q, msgs', c)
<1>1. Len(msgs) \in Nat /\ Len(msgs') \in Nat /\ Len(msgs') >= Len(msgs)
  BY LenProperties DEF Structure, Typed, Grown
<1> QED BY <1>1 DEF Local, Grown

LEMMA ShelvedBook ==
    ASSUME Structure, Shelved, Grown, Structure', Book
    PROVE  Shelved'
<1>1. queue \in [Channels -> Seq(EventType)] /\ queue' \in [Channels -> Seq(EventType)]
  BY DEF Structure, Typed
<1>2. ASSUME NEW c \in Channels, Settled(c)
      PROVE  /\ queue[c] # <<>> /\ Head(queue[c]) \in EventType
             /\ Head(queue[c]).msg \in 1..Len(msgs) /\ msgs[Head(queue[c]).msg].chan = c
  <2>1. queue[c] \in Seq(EventType) /\ queue'[c] \in Seq(EventType)
    BY <1>1
  <2>2. Len(queue[c]) \in Nat /\ Len(queue'[c]) \in Nat
    BY <2>1, LenProperties
  <2>3. Len(queue[c]) > 0
    BY <1>2, <2>2 DEF Settled
  <2>4. queue[c] # <<>> /\ Head(queue[c]) = queue[c][1] /\ 1 \in 1..Len(queue[c])
    BY <2>1, <2>2, <2>3, EmptySeq, HeadTailProperties
  <2> QED BY <2>1, <2>4, ElementOfSeq DEF Structure, Known
<1>3. ASSUME NEW c \in Channels
      PROVE  morgue'[c] \in Seq(EventType) /\ Local(morgue'[c], msgs', c)
  <2>1. morgue[c] \in Seq(EventType) /\ Local(morgue[c], msgs', c)
    <3>1. PICK q : q = morgue[c]
      OBVIOUS
    <3>2. Local(q, msgs', c)
      BY <3>1, LocalKept DEF Shelved
    <3> QED BY <3>1, <3>2 DEF Shelved
  <2>2. CASE Settled(c) /\ dead' # dead
    <3>1. morgue'[c] = Append(morgue[c], Head(queue[c]))
      BY <2>2 DEF Book
    <3>2. PICK ev \in EventType : ev = Head(queue[c])
      BY <1>2, <2>2
    <3>3. ev.msg \in 1..Len(msgs') /\ msgs'[ev.msg].chan = c
      <4>1. Len(msgs) \in Nat /\ Len(msgs') \in Nat /\ Len(msgs') >= Len(msgs)
        BY LenProperties DEF Structure, Typed, Grown
      <4>2. ev.msg \in 1..Len(msgs) /\ msgs[ev.msg].chan = c
        BY <1>2, <2>2, <3>2
      <4> QED BY <4>1, <4>2 DEF Grown
    <3>4. PICK q \in Seq(EventType) : q = morgue[c]
      BY <2>1
    <3>5. /\ Append(q, ev) \in Seq(EventType)
          /\ \A i \in 1..Len(Append(q, ev)) : i \in 1..Len(q) \/ Append(q, ev)[i] = ev
          /\ \A i \in 1..Len(q) : Append(q, ev)[i] = q[i]
      <4>1. Len(q) \in Nat
        BY LenProperties
      <4>2. /\ Append(q, ev) \in Seq(EventType) /\ Len(Append(q, ev)) = Len(q) + 1
            /\ Append(q, ev)[Len(q) + 1] = ev
            /\ \A i \in 1..Len(q) : Append(q, ev)[i] = q[i]
        BY AppendProperties
      <4>3. \A i \in 1..(Len(q) + 1) : i \in 1..Len(q) \/ i = Len(q) + 1
        BY <4>1
      <4> QED BY <4>2, <4>3
    <3>6. \A i \in 1..Len(q) : q[i].msg \in 1..Len(msgs') /\ msgs'[q[i].msg].chan = c
      BY <2>1, <3>4 DEF Local
    <3>7. Local(Append(q, ev), msgs', c)
      BY <3>3, <3>5, <3>6 DEF Local
    <3>8. morgue'[c] = Append(q, ev)
      BY <3>1, <3>2, <3>4
    <3> QED BY <3>5, <3>7, <3>8
  <2>3. CASE ~(Settled(c) /\ dead' # dead)
    <3>1. morgue'[c] = morgue[c]
      BY <2>3 DEF Book
    <3> QED BY <2>1, <3>1
  <2> QED BY <2>2, <2>3
<1>4. ASSUME NEW c \in Channels
      PROVE  held'[c] \in [tries : Nat, behind : Nat]
  <2>1. held[c] \in [tries : Nat, behind : Nat]
    BY DEF Shelved
  <2>2. CASE Settled(c) /\ held[c].behind > 0
    <3>1. held'[c] = [held[c] EXCEPT !.behind = @ - 1]
      BY <2>2 DEF Book
    <3>2. held[c].behind \in Nat /\ held[c].behind - 1 \in Nat
      BY <2>1, <2>2
    <3> QED BY <2>1, <3>1, <3>2
  <2>3. CASE ~(Settled(c) /\ held[c].behind > 0)
    <3>1. held'[c] = held[c]
      BY <2>3 DEF Book
    <3> QED BY <2>1, <3>1
  <2> QED BY <2>2, <2>3
<1>5. /\ morgue' = [c \in Channels |-> morgue'[c]]
      /\ held' = [c \in Channels |-> held'[c]]
  BY DEF Book
<1>6. morgue' \in [Channels -> Seq(EventType)]
  BY <1>3, <1>5
<1>7. held' \in [Channels -> [tries : Nat, behind : Nat]]
  BY <1>4, <1>5
<1>8. revived' \in [Channels -> Seq(EventType)]
  BY DEF Shelved, Book
<1>9. ASSUME NEW c \in Channels PROVE Local(revived'[c], msgs', c)
  <2>1. PICK q : q = revived[c] /\ q = revived'[c]
    BY DEF Book
  <2>2. Local(q, msgs', c)
    BY <2>1, LocalKept DEF Shelved
  <2> QED BY <2>1, <2>2
<1> QED BY <1>3, <1>6, <1>7, <1>8, <1>9 DEF Shelved

\* Only the queue of one idle worker is arranged anew.
Arranged(c) ==
    /\ UNCHANGED <<msgs, links, groups, dead, w>> /\ w[c] = Idle
    /\ \A d \in Channels \ {c} : queue'[d] = queue[d]

LEMMA ArrangedFacts ==
    ASSUME Facts, Threaded, NEW c \in Channels, Arranged(c), Structure'
    PROVE  Facts' /\ Threaded'
<1>1. w'[c] = Idle /\ \A d \in Channels \ {c} : w'[d] = w[d] /\ Ev(d)' = Ev(d)
  BY DEF Arranged, Ev
<1>2. Guarded'
  <2>1. \A d \in Channels : UsersOnly(d)'
    <3>1. UsersOnly(c)'
      BY <1>1, UsersOnlyIdle
    <3>2. \A d \in Channels \ {c} : UsersOnly(d)'
      BY <1>1 DEF UsersOnly, Facts, Guarded, Arranged
    <3> QED BY <3>1, <3>2
  <2> QED BY <2>1 DEF Facts, Guarded, Authors, Arranged
<1>3. Linked'
  <2>1. \A d \in Channels : Owns(d)'
    <3>1. Owns(c)'
      BY <1>1, OwnsIdle
    <3>2. \A d \in Channels \ {c} : Owns(d)'
      BY <1>1 DEF Owns, OriginOf, Facts, Linked, Arranged
    <3> QED BY <3>1, <3>2
  <2> QED BY <2>1 DEF Facts, Linked, LinksSound, Kinds, OneOrigin, Arranged
<1>4. Threaded'
  <2>1. \A d \in Channels : Placed(d)'
    <3>1. Placed(c)'
      BY <1>1, IdleType, PlacedElsewhere DEF Placing
    <3>2. \A d \in Channels \ {c} : Placed(d)'
      BY <1>1 DEF Placed, ParentOf, Root, Threaded, Arranged
    <3> QED BY <3>1, <3>2
  <2> QED BY <2>1 DEF Threaded, ThreadsMatch, Root, Arranged
<1> QED BY <1>2, <1>3, <1>4 DEF Facts

\* What the head of the queue is to be.
LEMMA ReorderStep ==
    ASSUME Structure, Shelved, NEW c \in Channels, Reorder(c)
    PROVE  Structure' /\ Shelved' /\ Arranged(c)
<1>1. /\ w[c] = Idle /\ UNCHANGED <<msgs, links, groups, dead, w, morgue>>
      /\ queue' = [queue EXCEPT ![c] = revived[c] \o queue[c]]
      /\ tries' = [tries EXCEPT ![c] = 0]
      /\ revived' = [revived EXCEPT ![c] = <<>>]
      /\ held' = [held EXCEPT ![c] = [tries |-> tries[c], behind |-> Len(revived[c])]]
  BY DEF Reorder
<1>2. /\ queue \in [Channels -> Seq(EventType)] /\ tries \in [Channels -> Nat]
      /\ revived \in [Channels -> Seq(EventType)]
  BY DEF Structure, Typed, Shelved
<1>3. PICK r \in Seq(EventType), q \in Seq(EventType) : r = revived[c] /\ q = queue[c]
  BY <1>2
<1>4. /\ Len(r) \in Nat /\ Len(q) \in Nat /\ r \o q \in Seq(EventType)
      /\ Len(r \o q) = Len(r) + Len(q)
      /\ \A i \in 1..(Len(r) + Len(q)) :
           (r \o q)[i] = IF i <= Len(r) THEN r[i] ELSE q[i - Len(r)]
  BY LenProperties, ConcatProperties
<1>5. Local(r \o q, msgs, c)
  <2> SUFFICES ASSUME NEW i \in 1..(Len(r) + Len(q))
               PROVE  /\ (r \o q)[i].msg \in 1..Len(msgs)
                      /\ msgs[(r \o q)[i].msg].chan = c
    BY <1>4 DEF Local
  <2>1. CASE i <= Len(r)
    <3>1. i \in 1..Len(r) /\ (r \o q)[i] = r[i]
      BY <1>4, <2>1
    <3> QED BY <1>3, <3>1 DEF Shelved, Local
  <2>2. CASE ~(i <= Len(r))
    <3>1. i - Len(r) \in 1..Len(q) /\ (r \o q)[i] = q[i - Len(r)]
      BY <1>4, <2>2
    <3> QED BY <1>3, <3>1 DEF Structure, Known
  <2> QED BY <2>1, <2>2
<1>6. /\ queue' \in [Channels -> Seq(EventType)] /\ queue'[c] = r \o q
      /\ \A d \in Channels \ {c} : queue'[d] = queue[d]
  BY <1>1, <1>2, <1>3, <1>4
<1>7. Arranged(c)
  BY <1>1, <1>6 DEF Arranged
<1>9. Typed'
  BY <1>1, <1>2, <1>6 DEF Structure, Typed
<1>10. Known'
  <2>1. \A i \in 1..Len(queue'[c]) :
          queue'[c][i].msg \in 1..Len(msgs') /\ msgs'[queue'[c][i].msg].chan = c
    BY <1>1, <1>5, <1>6 DEF Local
  <2> QED BY <1>1, <1>6, <2>1 DEF Structure, Known
<1>11. Threads' /\ Rows'
  BY <1>1 DEF Structure, Threads, Rows
<1>12. \A d \in Channels : Handler(d)'
  <2>1. Handler(c)'
    BY <1>1, IdleHandler
  <2>2. \A d \in Channels \ {c} : Handler(d)'
    BY <1>1, <1>6 DEF Structure, Handler, Target
  <2> QED BY <2>1, <2>2
<1>13. Shelved'
  <2>1. revived' \in [Channels -> Seq(EventType)] /\ revived'[c] = <<>>
    <3>1. <<>> \in Seq(EventType)
      BY EmptySeq
    <3> QED BY <1>1, <1>2, <3>1
  <2>2. held' \in [Channels -> [tries : Nat, behind : Nat]]
    BY <1>1, <1>2, <1>3, <1>4 DEF Shelved
  <2>3. \A d \in Channels : Local(revived'[d], msgs, d)
    <3>1. Local(revived'[c], msgs, c)
      BY <2>1 DEF Local
    <3>2. \A d \in Channels \ {c} : revived'[d] = revived[d]
      BY <1>1, <1>2
    <3> QED BY <3>1, <3>2 DEF Shelved
  <2> QED BY <1>1, <2>1, <2>2, <2>3 DEF Shelved, Local
<1> QED BY <1>7, <1>9, <1>10, <1>11, <1>12, <1>13 DEF Structure

LEMMA ResumeStep ==
    ASSUME Structure, Shelved, NEW c \in Channels, Resume(c)
    PROVE  Structure' /\ Shelved' /\ Arranged(c)
<1>1. /\ w[c] = Idle
      /\ UNCHANGED <<msgs, links, groups, queue, dead, w, morgue, revived>>
      /\ tries' = [tries EXCEPT ![c] = held[c].tries]
      /\ held' = [held EXCEPT ![c] = NotHeld]
  BY DEF Resume
<1>2. held[c].tries \in Nat
  BY DEF Shelved
<1>3. NotHeld \in [tries : Nat, behind : Nat]
  BY BoundsAssumption DEF NotHeld
<1>4. Typed' /\ Threads' /\ Known' /\ Rows'
  BY <1>1, <1>2 DEF Structure, Typed, Threads, Known, Rows
<1>5. \A d \in Channels : Handler(d)'
  BY <1>1 DEF Structure, Handler, Target
<1>6. Shelved'
  BY <1>1, <1>3 DEF Shelved, Local
<1>7. Arranged(c)
  BY <1>1 DEF Arranged
<1> QED BY <1>4, <1>5, <1>6, <1>7 DEF Structure

LEMMA ReviveStep ==
    ASSUME Structure, Shelved, Revive
    PROVE  Structure' /\ Shelved' /\ UNCHANGED <<msgs, links, groups, queue, w>>
<1>1. /\ UNCHANGED <<msgs, links, groups, queue, tries, w, held>>
      /\ dead' = {} /\ revived' = morgue /\ morgue' = [c \in Channels |-> <<>>]
  BY DEF Revive
<1>2. Typed' /\ Threads' /\ Known' /\ Rows'
  BY <1>1 DEF Structure, Typed, Threads, Known, Rows
<1>3. \A d \in Channels : Handler(d)'
  BY <1>1 DEF Structure, Handler, Target
<1>4. morgue' \in [Channels -> Seq(EventType)] /\ \A c \in Channels : morgue'[c] = <<>>
  <2>1. <<>> \in Seq(EventType)
    BY EmptySeq
  <2> QED BY <1>1, <2>1
<1>5. \A c \in Channels : Local(morgue'[c], msgs, c)
  BY <1>4 DEF Local
<1>6. Shelved'
  BY <1>1, <1>4, <1>5 DEF Shelved, Local
<1> QED BY <1>1, <1>2, <1>3, <1>6 DEF Structure

LEMMA RevivalStructure ==
    Structure /\ Shelved /\ [RevivalNext]_allVars => Structure' /\ Shelved'
<1> SUFFICES ASSUME Structure, Shelved, [RevivalNext]_allVars
             PROVE  Structure' /\ Shelved'
  OBVIOUS
<1>1. CASE RelayCases /\ Book
  <2>1. Structure' /\ Grown
    BY <1>1, RelaySteps, StructureStep, Grows
  <2> QED BY <1>1, <2>1, ShelvedBook
<1>2. ASSUME NEW c \in Channels, Reorder(c) \/ Resume(c)
      PROVE  Structure' /\ Shelved'
  BY <1>2, ReorderStep, ResumeStep
<1>3. CASE Revive
  BY <1>3, ReviveStep
<1>4. CASE UNCHANGED allVars
  <2>1. UNCHANGED vars /\ UNCHANGED <<msgs, morgue, revived, held>>
    BY <1>4 DEF allVars, revivalVars, vars
  <2> QED BY <2>1, StructureStep DEF Shelved, Local
<1> QED BY <1>1, <1>2, <1>3, <1>4, RevivalCases

LEMMA ShelvedInit == RevivalInit => Shelved
<1> SUFFICES ASSUME RevivalInit PROVE Shelved
  OBVIOUS
<1>1. <<>> \in Seq(EventType)
  BY EmptySeq
<1>2. NotHeld \in [tries : Nat, behind : Nat]
  BY BoundsAssumption DEF NotHeld
<1>3. \A c \in Channels : morgue[c] = <<>> /\ revived[c] = <<>>
  BY DEF RevivalInit
<1> QED BY <1>1, <1>2, <1>3 DEF RevivalInit, Shelved, Local

\* The types hold with the operator's command, too: a revived event is one of
\* its channel, and one that fell behind returns with tries that were left.
THEOREM RevivalTypes == RevivalSpec => []TypeOK
<1>1. RevivalInit => Structure /\ Shelved
  BY StructureInit, ShelvedInit DEF RevivalInit
<1>2. Structure /\ Shelved => TypeOK
  BY StructureTypes
<1> QED BY <1>1, <1>2, RevivalStructure, PTL DEF RevivalSpec

Revived == Facts /\ Threaded /\ Shelved

LEMMA RevivedStep ==
    ASSUME SelfKnown \/ ~RelayBots
    PROVE  Revived /\ [RevivalNext]_allVars => Revived'
<1> SUFFICES ASSUME Revived, [RevivalNext]_allVars PROVE Revived'
  OBVIOUS
<1>1. Structure' /\ Shelved'
  BY RevivalStructure DEF Revived, Facts
<1>2. ASSUME [Next]_vars PROVE Facts' /\ Threaded'
  BY <1>2, StructureStep, GuardedStep, LinkedStep, ThreadedStep DEF Revived, Facts, AllFacts
<1>3. ASSUME NEW c \in Channels, Reorder(c) \/ Resume(c)
      PROVE  Facts' /\ Threaded'
  <2>1. Arranged(c)
    BY <1>3, ReorderStep, ResumeStep DEF Revived, Facts
  <2> QED BY <1>1, <2>1, ArrangedFacts DEF Revived
<1>4. CASE Revive
  <2>1. UNCHANGED <<msgs, links, groups, queue, w>>
    BY <1>4 DEF Revive
  <2>2. \A c \in Channels : UsersOnly(c)' /\ Owns(c)' /\ Placed(c)'
    BY <2>1 DEF UsersOnly, Owns, OriginOf, Placed, ParentOf, Root, Ev,
                Revived, Facts, Guarded, Linked, Threaded
  <2>3. Guarded' /\ Linked' /\ Threaded'
    BY <2>1, <2>2 DEF Revived, Facts, Guarded, Authors, Linked, LinksSound, Kinds,
                      OneOrigin, Threaded, ThreadsMatch, Root
  <2> QED BY <1>1, <2>3 DEF Facts, Revived
<1>5. CASE UNCHANGED allVars
  <2>1. [Next]_vars
    BY <1>5 DEF allVars, vars
  <2> QED BY <1>1, <1>2, <2>1 DEF Revived
<1> QED BY <1>1, <1>2, <1>3, <1>4, <1>5, RevivalCases, RelaySteps DEF Revived

LEMMA RevivedInit == RevivalInit => Revived
<1>1. Init => Facts /\ Threaded
  <2>1. Init => Facts
    BY IdleType, StructureInit, GuardedInit
       DEF Init, Linked, LinksSound, Kinds, OneOrigin, Owns, Owning, Creating, Facts
  <2>2. Init => ThreadsMatch
    BY DEF Init, Message, ThreadsMatch
  <2>3. Init => \A c \in Channels : Placed(c)
    BY IdleType DEF Init, Placed
  <2> QED BY <2>1, <2>2, <2>3 DEF Threaded
<1> QED BY <1>1, ShelvedInit DEF RevivalInit, Revived

\* What an operator brings back from the DLQ makes no loop, in whatever order it
\* is handled (cli.py, loopguard.py).
THEOREM RevivalLoopsStopped ==
    ASSUME SelfKnown \/ ~RelayBots
    PROVE  RevivalSpec => []NoLoop
<1>1. Revived => NoLoop
  BY AuthorsLoop DEF Revived, Facts
<1> QED BY <1>1, RevivedInit, RevivedStep, PTL DEF RevivalSpec

\* Nor does it spoil a group of links (store/links.py).
THEOREM RevivalLinksSound ==
    ASSUME SelfKnown \/ ~RelayBots
    PROVE  RevivalSpec => []LinksSound
<1>1. Revived => LinksSound
  BY DEF Revived, Facts, Linked
<1> QED BY <1>1, RevivedInit, RevivedStep, PTL DEF RevivalSpec

\* Nor does it misplace a reply, whose parent may have come back after it
\* (_resolve_parent in relay.py).
THEOREM RevivalRepliesPlaced ==
    ASSUME SelfKnown \/ ~RelayBots
    PROVE  RevivalSpec => []ThreadsMatch
<1>1. Revived => ThreadsMatch
  BY DEF Revived, Threaded
<1> QED BY <1>1, RevivedInit, RevivedStep, PTL DEF RevivalSpec

-----------------------------------------------------------------------------
(* Revival: delivery.                                                      *)

\* Events that are not in a queue and may still have their turn: before the
\* command is used those in the DLQ, afterwards those it has revived.
Early(c) == IF requeues = 0 THEN morgue[c] ELSE revived[c]
EarlyEvents == UNION {Range(Early(c)) : c \in Channels}

\* Messages nothing is promised for any more.
Exempt == IF requeues = 0 THEN {} ELSE outOfTurn \cup {ev.msg : ev \in dead}

\* Events of a user's message in the order in which they came.
Sorted(q, ms) ==
    \A i, j \in 1..Len(q) :
        i < j /\ q[i].msg = q[j].msg /\ ~ms[q[i].msg].bot => Before(q[i], q[j])

\* The last event of m in q says how m is now.
LastTells(q, ms, m) ==
    \E i \in 1..Len(q) : /\ q[i].msg = m /\ Tells(q[i], ms[m])
                         /\ \A j \in (i + 1)..Len(q) : q[j].msg # m

\* A message of which an event r has been revived is told of by an event that
\* waits behind, or by the last of the revived ones.
Returns(r, s, q, ms, m) ==
    Awaits(Range(r), m) =>
        \/ Awaits(Range(s), m)
        \/ ~Awaits(Range(q), m) /\ LastTells(r, ms, m)

Comes(c, x) ==
    \A m \in 1..Len(msgs) :
        ~msgs[m].bot /\ m \notin x =>
            Returns(revived[c], Waiting(c), queue[c], msgs, m)

Turns ==
    /\ requeues \in {0, 1}
    /\ requeues = 0 => /\ dead = EarlyEvents
                       /\ \A c \in Channels : revived[c] = <<>>
    /\ Pending(EarlyEvents, Exempt)
    /\ \A c \in Channels : Sorted(Early(c), msgs)
    /\ requeues = 1 => \A c \in Channels : Comes(c, Exempt)

LEMMA EarlyOf ==
    ASSUME Shelved, NEW c \in Channels
    PROVE  /\ Early(c) \in Seq(EventType) /\ Local(Early(c), msgs, c)
           /\ \A ev \in Range(Early(c)) : ev \in EventType /\ ev.msg \in 1..Len(msgs)
                                          /\ msgs[ev.msg].chan = c
<1>1. Early(c) \in Seq(EventType) /\ Local(Early(c), msgs, c)
  BY DEF Early, Shelved
<1>2. ASSUME NEW ev \in Range(Early(c))
      PROVE  ev \in EventType /\ ev.msg \in 1..Len(msgs) /\ msgs[ev.msg].chan = c
  <2>1. PICK q \in Seq(EventType) : q = Early(c)
    BY <1>1
  <2>2. PICK i \in 1..Len(q) : ev = q[i]
    BY <2>1, LenProperties DEF Range
  <2>3. ev \in EventType
    BY <2>2, ElementOfSeq
  <2> QED BY <1>1, <2>1, <2>2, <2>3 DEF Local
<1> QED BY <1>1, <1>2

LEMMA EarlyMember ==
    ASSUME Shelved, NEW e \in EarlyEvents, NEW c \in Channels, msgs[e.msg].chan = c
    PROVE  e \in Range(Early(c))
<1>1. PICK d \in Channels : e \in Range(Early(d))
  BY DEF EarlyEvents
<1> QED BY <1>1, EarlyOf

\* Promises that are not made need not be kept.
LEMMA PendingFewer ==
    ASSUME NEW a, NEW x, NEW y, Pending(a, x), x \subseteq y
    PROVE  Pending(a, y)
<1>1. \A m \in Promised(y) : m \in Promised(x)
  BY DEF Promised
<1>2. \A c \in Channels : Fits(c, a, y)
  BY DEF Pending, Fits, Ordered
<1>3. \A c \in Channels : Work(c) /\ Progress(c, a, y) /\ Kept(c, a, y)
  BY <1>1 DEF Pending, Progress, Kept
<1> QED BY <1>2, <1>3 DEF Pending

-----------------------------------------------------------------------------
(* The steps of Relay.                                                     *)

\* A queue gets shorter only when its worker settles an event.
LEMMA SettledBy ==
    ASSUME Structure, Structure', NEW c \in Channels, queue[c] # <<>>, Effect(c)
    PROVE  /\ \A d \in Channels \ {c} : ~Settled(d)
           /\ dead' # dead => Settled(c) /\ queue'[c] = Tail(queue[c])
<1>1. queue \in [Channels -> Seq(EventType)]
  BY DEF Structure, Typed
<1>2. ASSUME NEW d \in Channels \ {c} PROVE ~Settled(d)
  <2>1. PICK q \in Seq(EventType) : q = queue[d] /\ Len(q) \in Nat
    BY <1>1, LenProperties
  <2>2. CASE queue'[d] = queue[d]
    BY <2>1, <2>2 DEF Settled
  <2>3. ASSUME NEW ev \in EventType, queue'[d] = Append(queue[d], ev) PROVE ~Settled(d)
    <3>1. Len(Append(q, ev)) = Len(q) + 1
      BY <2>1, AppendProperties
    <3> QED BY <2>1, <2>3, <3>1 DEF Settled
  <2> QED BY <2>2, <2>3 DEF Effect, Told
<1>3. ASSUME dead' # dead PROVE Settled(c) /\ queue'[c] = Tail(queue[c])
  <2>1. queue'[c] = Tail(queue[c])
    BY <1>3 DEF Effect
  <2>2. PICK q \in Seq(EventType) : q = queue[c] /\ Len(q) \in Nat /\ q # <<>>
    BY <1>1, LenProperties
  <2>3. Len(Tail(q)) = Len(q) - 1
    BY <2>2, HeadTailProperties
  <2> QED BY <2>1, <2>2, <2>3 DEF Settled
<1> QED BY <1>2, <1>3

\* Every step books what it does to the rows.
LEMMA WorkerBooks ==
    ASSUME Facts, Structure', Shelved, Turns, Book, NEW c \in Channels,
           WorkerStep(c) \/ StepError(c) \/ SendReplyLost(c),
           NEW a, NEW x, NEW b, NEW y,
           a = EarlyEvents, x = Exempt, b = EarlyEvents', y = Exempt'
    PROVE  /\ Books(c, a, x, b, y) /\ Effect(c) /\ Grown /\ Moves(c) /\ queue[c] # <<>>
           /\ \A d \in Channels :
                \/ Early(d)' = Early(d)
                \/ requeues = 0 /\ d = c /\ Early(d)' = Append(morgue[c], Ev(c))
           /\ requeues = 0 => dead' = b
<1>1. UNCHANGED <<revived, requeues, outOfTurn>>
  BY DEF Book
<1>2. dead' = dead \/ dead' = dead \cup {Ev(c)}
  BY Dies
<1>3. \A ev \in dead : ev \in a \/ ev.msg \in x
  BY DEF Turns, Exempt
<1>4. Effect(c) /\ Grown /\ Moves(c) /\ queue[c] # <<>>
  <2>1. PICK z : z = IF dead' = dead THEN x ELSE x \cup {Ev(c).msg}
    OBVIOUS
  <2>2. Books(c, a, x, a, z)
    BY <1>2, <1>3, <2>1 DEF Books
  <2> QED BY <2>2, WorkerEffect DEF Turns
<1>5. /\ \A d \in Channels \ {c} : ~Settled(d)
      /\ dead' # dead => Settled(c)
  BY <1>4, SettledBy DEF Facts
<1>6. morgue \in [Channels -> Seq(EventType)]
  BY DEF Shelved
<1>7. /\ \A d \in Channels \ {c} : morgue'[d] = morgue[d]
      /\ dead' = dead => morgue'[c] = morgue[c]
      /\ dead' # dead => morgue'[c] = Append(morgue[c], Ev(c))
  BY <1>5 DEF Book, Ev
<1>8. CASE requeues = 0
  <2>1. \A d \in Channels \ {c} : Early(d)' = Early(d)
    BY <1>1, <1>7, <1>8 DEF Early
  <2>2. a = dead /\ x = {} /\ y = {}
    BY <1>1, <1>8 DEF Turns, Exempt
  <2>3. CASE dead' = dead
    <3>1. Early(c)' = Early(c)
      BY <1>1, <1>7, <1>8, <2>3 DEF Early
    <3>2. b = a
      BY <2>1, <3>1 DEF EarlyEvents
    <3>3. Books(c, a, x, b, y)
      BY <2>2, <2>3, <3>2 DEF Books
    <3> QED BY <1>4, <2>1, <2>2, <2>3, <3>1, <3>2, <3>3
  <2>4. CASE dead' # dead
    <3>1. Early(c) = morgue[c] /\ Early(c)' = Append(morgue[c], Ev(c))
      BY <1>1, <1>7, <1>8, <2>4 DEF Early
    <3>2. Range(Early(c)') = Range(Early(c)) \cup {Ev(c)}
      <4>1. Ev(c) \in EventType /\ morgue[c] \in Seq(EventType)
        BY <1>4, <1>6, HeadTailProperties DEF Facts, Structure, Typed, Ev
      <4> QED BY <3>1, <4>1, RangeAppend
    <3>3. \A e : e \in b <=> e \in a \/ e = Ev(c)
      BY <2>1, <3>2 DEF EarlyEvents
    <3>4. b = a \cup {Ev(c)}
      BY <3>3
    <3>5. dead' = b
      BY <1>2, <2>2, <2>4, <3>4
    <3>6. Books(c, a, x, b, y)
      BY <2>2, <2>4, <3>4 DEF Books
    <3> QED BY <1>4, <1>8, <2>1, <3>1, <3>5, <3>6
  <2> QED BY <2>3, <2>4
<1>9. CASE requeues # 0
  <2>1. \A d \in Channels : Early(d)' = Early(d)
    BY <1>1, <1>9 DEF Early
  <2>2. b = a
    BY <2>1 DEF EarlyEvents
  <2>3. \A m : m \in y <=> m \in x \/ \E ev \in dead' : ev.msg = m
    BY <1>1, <1>2, <1>9 DEF Exempt
  <2>4. dead' = dead => y = x
    BY <1>1, <1>9 DEF Exempt
  <2>5. dead' = dead \cup {Ev(c)} => y = x \cup {Ev(c).msg}
    <3>1. \A ev \in dead : ev.msg \in x
      BY <1>9 DEF Exempt
    <3> QED BY <2>3, <3>1
  <2>6. Books(c, a, x, b, y)
    BY <1>2, <2>2, <2>3, <2>4, <2>5 DEF Books
  <2> QED BY <1>4, <1>9, <2>1, <2>6
<1> QED BY <1>8, <1>9

\* An event that dies came after those of its message that have died before.
LEMMA SortedAppend ==
    ASSUME NEW q \in Seq(EventType), NEW ms, NEW ev \in EventType, Sorted(q, ms),
           \A i \in 1..Len(q) : q[i].msg = ev.msg /\ ~ms[ev.msg].bot => Before(q[i], ev)
    PROVE  Sorted(Append(q, ev), ms)
<1> DEFINE s == Append(q, ev)
           n == Len(q)
<1>1. /\ n \in Nat /\ Len(s) = n + 1 /\ s[n + 1] = ev
      /\ \A i \in 1..n : s[i] = q[i]
  BY AppendProperties, LenProperties
<1>2. \A i \in 1..(n + 1) : i \in 1..n \/ i = n + 1
  BY <1>1
<1> HIDE DEF s, n
<1>3. ASSUME NEW i \in 1..Len(s), NEW j \in 1..Len(s),
             i < j, s[i].msg = s[j].msg, ~ms[s[i].msg].bot
      PROVE  Before(s[i], s[j])
  <2>1. i \in 1..n /\ (j \in 1..n \/ j = n + 1)
    BY <1>1, <1>3
  <2>2. CASE j \in 1..n
    BY <1>1, <1>3, <2>1, <2>2 DEF Sorted, n
  <2>3. CASE j = n + 1
    BY <1>1, <1>3, <2>1, <2>3 DEF n
  <2> QED BY <2>1, <2>2, <2>3
<1>4. Sorted(s, ms)
  BY <1>3 DEF Sorted
<1> QED BY <1>4 DEF s

LEMMA SortedKept ==
    ASSUME Structure, Grown, NEW q, NEW c, Local(q, msgs, c), Sorted(q, msgs)
    PROVE  Sorted(q, msgs')
BY DEF Sorted, Local, Grown

LEMMA TurnsParts ==
    ASSUME NEW b, NEW y, b = EarlyEvents', y = Exempt',
           requeues' \in {0, 1},
           requeues' = 0 => dead' = b /\ \A c \in Channels : revived'[c] = <<>>,
           Pending(b, y)',
           \A c \in Channels : Sorted(Early(c), msgs)',
           requeues' = 1 => \A c \in Channels : Comes(c, y)'
    PROVE  Turns'
<1>1. Pending(EarlyEvents, Exempt)'
  OBVIOUS
<1>2. requeues' = 1 => \A c \in Channels : Comes(c, Exempt)'
  OBVIOUS
<1> QED BY <1>1, <1>2 DEF Turns

\* An event that waits goes on waiting until its worker takes it up.
LEMMA WaitingKept ==
    ASSUME Facts, Grown, NEW c \in Channels, queue[c] # <<>>, Effect(c), Moves(c),
           w[c] = Idle => revived[c] = <<>>,
           WorkerStep(c) \/ StepError(c) \/ SendReplyLost(c),
           NEW d \in Channels, d # c \/ w[c] # Idle,
           NEW m, Awaits(Range(Waiting(d)), m)
    PROVE  Awaits(Range(Waiting(d)'), m)
<1>1. queue \in [Channels -> Seq(EventType)]
  BY DEF Facts, Structure, Typed
<1>2. CASE d # c /\ w'[d] = w[d]
  <2>1. w'[d] = w[d]
    BY <1>2
  <2>2. CASE queue'[d] = queue[d]
    BY <2>1, <2>2 DEF Waiting
  <2>3. ASSUME NEW ev \in EventType, queue'[d] = Append(queue[d], ev)
        PROVE  Awaits(Range(Waiting(d)'), m)
    <3>1. PICK q \in Seq(EventType) : q = queue[d]
      BY <1>1
    <3>2. CASE w[d] = Idle
      <4>1. Range(Append(q, ev)) = Range(q) \cup {ev}
        BY RangeAppend
      <4>2. Waiting(d)' = Append(q, ev) /\ Waiting(d) = q
        BY <2>1, <2>3, <3>1, <3>2 DEF Waiting
      <4>3. Awaits(Range(Append(q, ev)), m)
        BY <4>1, <4>2 DEF Awaits
      <4> QED BY <4>2, <4>3
    <3>3. CASE w[d] # Idle
      <4>1. q # <<>>
        BY <3>1, <3>3 DEF Facts, Structure, Handler
      <4>2. PICK s \in Seq(EventType) : s = Tail(q)
        BY <4>1, HeadTailProperties
      <4>3. Range(Append(s, ev)) = Range(s) \cup {ev}
        BY RangeAppend
      <4>4. Waiting(d)' = Append(s, ev) /\ Waiting(d) = s
        BY <2>1, <2>3, <3>1, <3>3, <4>1, <4>2, TailAppend DEF Waiting
      <4>5. Awaits(Range(Append(s, ev)), m)
        BY <4>3, <4>4 DEF Awaits
      <4> QED BY <4>4, <4>5
    <3> QED BY <3>2, <3>3
  <2> QED BY <1>2, <2>2, <2>3 DEF Effect, Told
<1>2a. CASE d # c /\ w'[d] = Idle
  <2>1. Awaits(Range(queue[d]), m)
    <3>1. CASE w[d] # Idle
      <4>1. queue[d] # <<>> /\ Waiting(d) = Tail(queue[d])
        BY <3>1 DEF Facts, Structure, Handler, Waiting
      <4>2. Range(queue[d]) = {Head(queue[d])} \cup Range(Tail(queue[d]))
        BY <1>1, <4>1, RangeTail
      <4> QED BY <4>1, <4>2 DEF Awaits
    <3> QED BY <3>1 DEF Waiting
  <2>2. Waiting(d)' = queue'[d]
    BY <1>2a DEF Waiting
  <2>3. ASSUME NEW ev \in EventType, queue'[d] = Append(queue[d], ev)
        PROVE  Awaits(Range(queue'[d]), m)
    <3>1. Range(queue'[d]) = Range(queue[d]) \cup {ev}
      BY <1>1, <2>3, RangeAppend
    <3> QED BY <2>1, <3>1 DEF Awaits
  <2> QED BY <1>2a, <2>1, <2>2, <2>3 DEF Effect, Told
<1>3. CASE d = c /\ w[c] # Idle
  <2>1. Waiting(c) = Tail(queue[c])
    BY <1>3 DEF Waiting
  <2>2. CASE queue'[c] = Tail(queue[c]) /\ w'[c] = Idle
    BY <1>3, <2>1, <2>2 DEF Waiting
  <2>3. CASE queue'[c] = queue[c]
    <3>1. CASE w'[c] = Idle
      <4>1. Waiting(c)' = queue[c] /\ Range(queue[c]) = {Head(queue[c])} \cup Range(Tail(queue[c]))
        BY <1>1, <2>3, <3>1, RangeTail DEF Waiting
      <4> QED BY <1>3, <2>1, <4>1 DEF Awaits
    <3>2. CASE w'[c] # Idle
      BY <1>3, <2>1, <2>3, <3>2 DEF Waiting
    <3> QED BY <3>1, <3>2
  <2> QED BY <2>2, <2>3 DEF Effect
<1> QED BY <1>2, <1>2a, <1>3 DEF Moves

\* A settled event is one fewer; copies are not users' messages.
LEMMA NoneComes ==
    ASSUME Facts, Grown, NEW c \in Channels, queue[c] # <<>>, Effect(c),
           NEW d \in Channels, NEW m \in 1..Len(msgs), ~msgs[m].bot,
           Awaits(Range(queue'[d]), m)
    PROVE  Awaits(Range(queue[d]), m)
<1>1. queue \in [Channels -> Seq(EventType)]
  BY DEF Facts, Structure, Typed
<1>2. CASE queue'[d] = queue[d]
  BY <1>2
<1>3. CASE d = c /\ queue'[c] = Tail(queue[c])
  <2>1. Range(queue[c]) = {Head(queue[c])} \cup Range(queue'[c])
    BY <1>1, <1>3, RangeTail
  <2> QED BY <1>3, <2>1 DEF Awaits
<1>4. ASSUME NEW ev \in EventType, msgs'[ev.msg].bot, queue'[d] = Append(queue[d], ev)
      PROVE  Awaits(Range(queue[d]), m)
  <2>1. ev.msg # m
    BY <1>4 DEF Grown
  <2>2. Range(queue'[d]) = Range(queue[d]) \cup {ev}
    BY <1>1, <1>4, RangeAppend
  <2> QED BY <2>1, <2>2 DEF Awaits
<1> QED BY <1>2, <1>3, <1>4 DEF Effect, Told

LEMMA TurnsWorker ==
    ASSUME Facts, Structure', Shelved, Turns, Book, NEW c \in Channels,
           (WorkerStep(c) /\ Claimable(c)) \/ StepError(c) \/ SendReplyLost(c)
    PROVE  Turns'
<1>1. PICK a, x, b, y : /\ a = EarlyEvents /\ x = Exempt
                        /\ b = EarlyEvents' /\ y = Exempt'
  OBVIOUS
<1>2. /\ Books(c, a, x, b, y) /\ Effect(c) /\ Grown /\ Moves(c) /\ queue[c] # <<>>
      /\ \A d \in Channels :
           \/ Early(d)' = Early(d)
           \/ requeues = 0 /\ d = c /\ Early(d)' = Append(morgue[c], Ev(c))
      /\ requeues = 0 => dead' = b
  BY <1>1, WorkerBooks
<1>3. Pending(a, x)
  BY <1>1 DEF Turns
<1>4. Pending(b, y)'
  BY <1>2, <1>3, PendingWorker
<1>5. requeues' = requeues /\ revived' = revived
  BY DEF Book
<1>6. ASSUME NEW d \in Channels PROVE Sorted(Early(d), msgs)'
  <2>1. PICK q \in Seq(EventType) : q = Early(d) /\ Local(q, msgs, d) /\ Sorted(q, msgs)
    BY EarlyOf DEF Turns
  <2>2. Sorted(q, msgs')
    BY <1>2, <2>1, SortedKept DEF Facts
  <2>3. CASE Early(d)' = Early(d)
    BY <2>1, <2>2, <2>3
  <2>4. CASE requeues = 0 /\ d = c /\ Early(d)' = Append(morgue[c], Ev(c))
    <3>1. PICK ev \in EventType : ev = Ev(c) /\ ev.msg \in 1..Len(msgs)
      BY <1>2, HeadKnown DEF Facts
    <3>2. PICK ms : ms = msgs'
      OBVIOUS
    <3>3. q = morgue[c]
      BY <2>1, <2>4 DEF Early
    <3>4. ASSUME NEW i \in 1..Len(q), q[i].msg = ev.msg, ~ms[ev.msg].bot
          PROVE  Before(q[i], ev)
      <4>1. q[i] \in a
        BY <1>1, <2>1, LenProperties DEF EarlyEvents, Range
      <4>2. ~msgs[ev.msg].bot
        BY <1>2, <3>1, <3>2, <3>4 DEF Grown
      <4>3. PICK p \in Seq(EventType) : p = queue[c] /\ p # <<>>
        BY <1>2 DEF Facts, Structure, Typed
      <4>4. Ordered(p, msgs, a, x)
        BY <1>3, <4>3 DEF Pending, Fits
      <4>5. 1 \in 1..Len(p) /\ p[1] = ev
        BY <3>1, <4>3, HeadTailProperties, LenProperties, EmptySeq DEF Ev
      <4> QED BY <3>4, <4>1, <4>2, <4>4, <4>5 DEF Ordered
    <3>5. Sorted(q, ms)
      BY <2>2, <3>2
    <3>6. Sorted(Append(q, ev), ms)
      BY <3>4, <3>5, SortedAppend
    <3> QED BY <2>4, <3>1, <3>2, <3>3, <3>6
  <2> QED BY <1>2, <2>3, <2>4
<1>7. ASSUME requeues = 1, NEW d \in Channels PROVE Comes(d, y)'
  <2> SUFFICES ASSUME NEW m \in 1..Len(msgs'), ~msgs'[m].bot, m \notin y,
                      Awaits(Range(revived'[d]), m)
               PROVE  \/ Awaits(Range(Waiting(d)'), m)
                      \/ /\ ~Awaits(Range(queue'[d]), m)
                         /\ LastTells(revived'[d], msgs', m)
    BY DEF Comes, Returns
  <2>1. m \in 1..Len(msgs) /\ m \notin x /\ ~msgs[m].bot /\ msgs'[m] = msgs[m]
    <3>1. m \in 1..Len(msgs)
      BY <1>2 DEF Effect, Copying
    <3>2. ~msgs[m].bot
      BY <1>2, <3>1 DEF Grown
    <3> QED BY <1>2, <3>1, <3>2, UsersKept DEF Effect, Books
  <2>2. Returns(revived[d], Waiting(d), queue[d], msgs, m)
    BY <1>1, <1>7, <2>1 DEF Turns, Comes
  <2>3. CASE Awaits(Range(Waiting(d)), m)
    <3>1. revived[d] # <<>>
      BY <1>5 DEF Awaits, Range
    <3>2. w[c] = Idle => revived[c] = <<>>
      BY IdleType DEF Claimable, StepError, SendReplyLost, Posted
    <3> QED BY <1>2, <2>3, <3>1, <3>2, WaitingKept
  <2>4. CASE ~Awaits(Range(queue[d]), m) /\ LastTells(revived[d], msgs, m)
    <3>1. ~Awaits(Range(queue'[d]), m)
      BY <1>2, <2>1, <2>4, NoneComes
    <3>2. LastTells(revived'[d], msgs', m)
      BY <1>5, <2>1, <2>4 DEF LastTells
    <3> QED BY <3>1, <3>2
  <2> QED BY <1>5, <2>2, <2>3, <2>4 DEF Returns
<1>8. /\ requeues' \in {0, 1}
      /\ requeues' = 0 => dead' = b /\ \A d \in Channels : revived'[d] = <<>>
  BY <1>2, <1>5 DEF Turns
<1> QED BY <1>1, <1>4, <1>5, <1>6, <1>7, <1>8, TurnsParts

\* Nobody's event is settled.
LEMMA EarlySame ==
    ASSUME Shelved, UNCHANGED <<dead, revived, requeues, outOfTurn>>,
           \A c \in Channels : morgue'[c] = morgue[c]
    PROVE  /\ \A c \in Channels : Early(c)' = Early(c)
           /\ EarlyEvents' = EarlyEvents /\ Exempt' = Exempt
<1>1. \A c \in Channels : Early(c)' = Early(c)
  BY DEF Early
<1> QED BY <1>1 DEF EarlyEvents, Exempt

LEMMA TurnsUser ==
    ASSUME Facts, Shelved, Turns, Book, UserStep, Shelved'
    PROVE  Turns'
<1>1. Grown /\ ANews
  BY UserTells
<1>2. PICK c \in Channels, m \in 1..Len(msgs'), ev \in EventType : News(c, m, ev)
  BY <1>1 DEF ANews
<1>3. UNCHANGED <<dead, revived, requeues, outOfTurn>> /\ \A d \in Channels : morgue'[d] = morgue[d]
  BY DEF Book, UserStep, UserPost, UserEdit, UserDelete
<1>4. /\ \A d \in Channels : Early(d)' = Early(d)
      /\ EarlyEvents' = EarlyEvents /\ Exempt' = Exempt
  BY <1>3, EarlySame
<1>5. PICK b, y : b = EarlyEvents /\ y = Exempt
  OBVIOUS
<1>6. Pending(b, y)'
  BY <1>5, Outsiders DEF Turns
<1>7. ASSUME NEW d \in Channels PROVE Sorted(Early(d), msgs)'
  <2>1. PICK q : q = Early(d) /\ Local(q, msgs, d) /\ Sorted(q, msgs)
    BY EarlyOf DEF Turns
  <2>2. Sorted(q, msgs')
    BY <1>1, <2>1, SortedKept DEF Facts
  <2> QED BY <1>4, <2>1, <2>2
<1>8. queue \in [Channels -> Seq(EventType)] /\ UNCHANGED w
  BY <1>2 DEF Facts, Structure, Typed, News
<1>9. /\ queue'[c] = Append(queue[c], ev)
      /\ \A d \in Channels \ {c} : queue'[d] = queue[d]
  BY <1>2, <1>8 DEF Tell, News
<1>10. Range(queue'[c]) = Range(queue[c]) \cup {ev} /\ ev.msg = m
  <2>1. queue[c] \in Seq(EventType)
    BY <1>8
  <2> QED BY <1>2, <1>9, <2>1, RangeAppend DEF News
<1>11. Range(Waiting(c)') = Range(Waiting(c)) \cup {ev}
  <2>1. PICK q \in Seq(EventType) : q = queue[c]
    BY <1>8
  <2>2. CASE w[c] = Idle
    BY <1>8, <1>10, <2>2 DEF Waiting
  <2>3. CASE w[c] # Idle
    <3>1. q # <<>>
      BY <2>1, <2>3 DEF Facts, Structure, Handler
    <3>2. PICK s \in Seq(EventType) : s = Tail(q)
      BY <3>1, HeadTailProperties
    <3>3. Range(Append(s, ev)) = Range(s) \cup {ev}
      BY RangeAppend
    <3>4. Waiting(c)' = Append(s, ev) /\ Waiting(c) = s
      BY <1>8, <1>9, <2>1, <2>3, <3>1, <3>2, TailAppend DEF Waiting
    <3> QED BY <3>3, <3>4
  <2> QED BY <2>2, <2>3
<1>12. \A d \in Channels \ {c} : Waiting(d)' = Waiting(d)
  BY <1>8, <1>9 DEF Waiting
<1>13. ASSUME requeues = 1, NEW d \in Channels PROVE Comes(d, y)'
  <2> SUFFICES ASSUME NEW k \in 1..Len(msgs'), ~msgs'[k].bot, k \notin y,
                      Awaits(Range(revived'[d]), k)
               PROVE  \/ Awaits(Range(Waiting(d)'), k)
                      \/ /\ ~Awaits(Range(queue'[d]), k)
                         /\ LastTells(revived'[d], msgs', k)
    BY DEF Comes, Returns
  <2>1. k \in 1..Len(msgs) /\ msgs[k].chan = d /\ ~msgs[k].bot
    <3>1. Early(d) = revived[d]
      BY <1>13 DEF Early
    <3>2. \E e \in Range(Early(d)) : e.msg = k
      BY <1>3, <3>1 DEF Awaits
    <3>3. k \in 1..Len(msgs) /\ msgs[k].chan = d
      BY <3>2, EarlyOf
    <3> QED BY <1>1, <3>3 DEF Grown
  <2>2. CASE k = m
    <3>1. d = c
      BY <1>1, <1>2, <2>1, <2>2 DEF Grown, News
    <3> QED BY <1>10, <1>11, <2>2, <3>1 DEF Awaits
  <2>3. CASE k # m
    <3>1. msgs'[k] = msgs[k]
      BY <1>2, <2>1, <2>3 DEF News
    <3>2. Returns(revived[d], Waiting(d), queue[d], msgs, k)
      BY <1>5, <1>13, <2>1 DEF Turns, Comes
    <3>3. /\ Awaits(Range(Waiting(d)'), k) <=> Awaits(Range(Waiting(d)), k)
          /\ Awaits(Range(queue'[d]), k) <=> Awaits(Range(queue[d]), k)
      <4>1. CASE d = c
        BY <1>10, <1>11, <2>3, <4>1 DEF Awaits
      <4>2. CASE d # c
        BY <1>9, <1>12, <4>2
      <4> QED BY <4>1, <4>2
    <3>4. LastTells(revived[d], msgs, k) => LastTells(revived'[d], msgs', k)
      BY <1>3, <3>1 DEF LastTells
    <3> QED BY <1>3, <3>2, <3>3, <3>4 DEF Returns
  <2> QED BY <2>2, <2>3
<1>14. b = EarlyEvents' /\ y = Exempt'
  BY <1>4, <1>5
<1>15. /\ requeues' \in {0, 1}
       /\ requeues' = 0 => dead' = b /\ \A d \in Channels : revived'[d] = <<>>
  BY <1>3, <1>5 DEF Turns
<1>16. requeues' = 1 => \A d \in Channels : Comes(d, y)'
  BY <1>3, <1>13
<1> QED BY <1>6, <1>7, <1>14, <1>15, <1>16, TurnsParts

\* Nothing that counts changes; after a crash the events in hand wait, too.
LEMMA TurnsSame ==
    ASSUME Facts, Shelved, Turns,
           UNCHANGED <<msgs, links, queue, dead, revived, requeues, outOfTurn>>,
           \A c \in Channels : morgue'[c] = morgue[c],
           \A c \in Channels : w'[c] = Idle \/ w' = w
    PROVE  Turns'
<1>1. /\ \A d \in Channels : Early(d)' = Early(d)
      /\ EarlyEvents' = EarlyEvents /\ Exempt' = Exempt
  BY EarlySame
<1>2. PICK b, y : b = EarlyEvents /\ y = Exempt
  OBVIOUS
<1>3. Pending(b, y)'
  BY <1>2, PendingCrash DEF Turns, Facts
<1>4. ASSUME NEW d \in Channels PROVE Sorted(Early(d), msgs)'
  <2>1. PICK q : q = Early(d) /\ Sorted(q, msgs)
    BY DEF Turns
  <2> QED BY <1>1, <2>1
<1>5. ASSUME requeues = 1, NEW d \in Channels PROVE Comes(d, y)'
  <2>1. Range(Waiting(d)) \subseteq Range(Waiting(d)')
    <3>1. CASE w'[d] = Idle
      <4>1. queue[d] \in Seq(EventType) /\ (w[d] # Idle => queue[d] # <<>>)
        BY DEF Facts, Structure, Typed, Handler
      <4>2. Waiting(d)' = queue[d]
        BY <3>1 DEF Waiting
      <4>3. CASE w[d] # Idle
        <5>1. Range(queue[d]) = {Head(queue[d])} \cup Range(Tail(queue[d]))
          BY <4>1, <4>3, RangeTail
        <5> QED BY <4>2, <4>3, <5>1 DEF Waiting
      <4>4. CASE w[d] = Idle
        BY <4>2, <4>4 DEF Waiting
      <4> QED BY <4>3, <4>4
    <3>2. CASE w' = w
      BY <3>2 DEF Waiting
    <3> QED BY <3>1, <3>2
  <2>2. Comes(d, y)
    BY <1>2, <1>5 DEF Turns
  <2>3. \A m : Awaits(Range(Waiting(d)), m) => Awaits(Range(Waiting(d)'), m)
    BY <2>1 DEF Awaits
  <2> QED BY <2>2, <2>3 DEF Comes, Returns
<1>6. b = EarlyEvents' /\ y = Exempt'
  BY <1>1, <1>2
<1>7. /\ requeues' \in {0, 1}
      /\ requeues' = 0 => dead' = b /\ \A d \in Channels : revived'[d] = <<>>
  BY <1>2 DEF Turns
<1>8. requeues' = 1 => \A d \in Channels : Comes(d, y)'
  BY <1>5
<1> QED BY <1>3, <1>4, <1>6, <1>7, <1>8, TurnsParts

-----------------------------------------------------------------------------
(* The operator's command.                                                 *)

\* Nothing comes after the event that tells how its message is now.
LEMMA NewestLast ==
    ASSUME Structure, NEW m \in 1..Len(msgs), NEW f \in EventType,
           f.msg = m, Plausible(f, msgs[m])
    PROVE  ~Before(Newest(m), f)
<1>1. msgs[m] \in MessageType
  BY ElementOfSeq DEF Structure, Typed
<1>2. PICK e : e = Newest(m)
  OBVIOUS
<1>3. CASE msgs[m].gone
  <2>1. e.kind = "deleted"
    BY <1>2, <1>3 DEF Newest, Event
  <2> QED BY <1>2, <2>1 DEF Before
<1>4. CASE ~msgs[m].gone
  <2>1. e.text = msgs[m].text
    BY <1>2, <1>4 DEF Newest, Event
  <2>2. f.kind = "edited" => f.text <= msgs[m].text
    BY DEF Plausible
  <2>3. f.kind # "deleted"
    BY <1>4 DEF Plausible
  <2>4. f.kind \in {"created", "edited", "deleted"} /\ f.text \in Nat /\ msgs[m].text \in Nat
    BY <1>1 DEF EventType, MessageType
  <2> QED BY <1>2, <2>1, <2>2, <2>3, <2>4 DEF Before
<1> QED BY <1>3, <1>4

LEMMA NewestTells == \A m : Newest(m).msg = m /\ Tells(Newest(m), msgs[m])
BY DEF Newest, Event, Tells

LEMMA TurnsRevive ==
    ASSUME Facts, Shelved, Turns, Revive
    PROVE  Turns'
<1>1. /\ UNCHANGED <<msgs, links, queue, w>> /\ dead' = {} /\ revived' = morgue
      /\ requeues < MaxRequeues /\ requeues' = requeues + 1
      /\ outOfTurn' = {ev.msg : ev \in {e \in dead : LaterDone(e.msg)}}
  BY DEF Revive
<1>2. requeues = 0 /\ requeues' = 1
  <2>1. requeues \in {0, 1} /\ MaxRequeues \in {0, 1}
    BY RequeuesAssumption DEF Turns
  <2> QED BY <1>1, <2>1
<1>3. \A c \in Channels : Early(c)' = Early(c) /\ Early(c) = morgue[c]
  BY <1>1, <1>2 DEF Early
<1>4. PICK b, y : b = EarlyEvents' /\ y = Exempt'
  OBVIOUS
<1>5. b = EarlyEvents /\ Exempt = {} /\ b = dead
  <2>1. b = EarlyEvents
    BY <1>3, <1>4 DEF EarlyEvents
  <2> QED BY <1>2, <2>1 DEF Turns, Exempt
<1>6. Pending(b, y)'
  <2>1. Pending(b, {})
    BY <1>5 DEF Turns
  <2>2. Pending(b, y)
    BY <2>1, PendingFewer
  <2> QED BY <1>1, <2>2, PendingCrash DEF Facts
<1>7. ASSUME NEW c \in Channels PROVE Sorted(Early(c), msgs)'
  <2>1. PICK q : q = Early(c) /\ Sorted(q, msgs)
    BY DEF Turns
  <2> QED BY <1>1, <1>3, <2>1
<1>8. ASSUME NEW c \in Channels PROVE Comes(c, y)'
  <2> SUFFICES ASSUME NEW m \in 1..Len(msgs), ~msgs[m].bot, m \notin y,
                      Awaits(Range(morgue[c]), m)
               PROVE  \/ Awaits(Range(Waiting(c)), m)
                      \/ ~Awaits(Range(queue[c]), m) /\ LastTells(morgue[c], msgs, m)
    <3>1. Waiting(c)' = Waiting(c)
      BY <1>1 DEF Waiting
    <3> QED BY <1>1, <3>1 DEF Comes, Returns
  <2>1. PICK e \in Range(morgue[c]) : e.msg = m
    BY DEF Awaits
  <2>2. e \in dead /\ msgs[m].chan = c
    <3>1. e \in EarlyEvents
      BY <1>3, <2>1 DEF EarlyEvents
    <3> QED BY <1>3, <1>5, <2>1, <3>1, EarlyOf
  <2>3. ~LaterDone(m)
    BY <1>1, <1>2, <1>4, <2>1, <2>2 DEF Exempt
  <2>4. PICK f : f = Newest(m) /\ f.msg = m /\ Tells(f, msgs[m])
    BY NewestTells
  <2>5. CASE \E d \in Channels : f \in Range(Waiting(d))
    <3>1. PICK d \in Channels : f \in Range(Waiting(d))
      BY <2>5
    <3>2. f \in Range(queue[d])
      <4>1. queue[d] \in Seq(EventType) /\ (w[d] # Idle => queue[d] # <<>>)
        BY DEF Facts, Structure, Typed, Handler
      <4>2. CASE w[d] = Idle
        BY <3>1, <4>2 DEF Waiting
      <4>3. CASE w[d] # Idle
        <5>1. Range(queue[d]) = {Head(queue[d])} \cup Range(Tail(queue[d]))
          BY <4>1, <4>3, RangeTail
        <5> QED BY <3>1, <4>3, <5>1 DEF Waiting
      <4> QED BY <4>2, <4>3
    <3>3. msgs[m].chan = d
      <4>1. queue[d] \in Seq(EventType)
        BY DEF Facts, Structure, Typed
      <4>2. PICK i \in 1..Len(queue[d]) : f = queue[d][i]
        BY <3>2, <4>1, LenProperties DEF Range
      <4> QED BY <2>4, <4>2 DEF Facts, Structure, Known
    <3> QED BY <2>2, <2>4, <3>1, <3>3 DEF Awaits
  <2>6. CASE f \in dead
    <3>1. f \in Range(morgue[c])
      BY <1>3, <1>5, <2>2, <2>4, <2>6, EarlyMember
    <3>2. PICK q \in Seq(EventType) : q = morgue[c] /\ Sorted(q, msgs)
      BY <1>3, EarlyOf DEF Turns
    <3>3. Len(q) \in Nat /\ DOMAIN q = 1..Len(q)
      BY LenProperties
    <3>4. PICK i \in 1..Len(q) : f = q[i]
      BY <3>1, <3>2, <3>3 DEF Range
    <3>5. ASSUME NEW j \in (i + 1)..Len(q), q[j].msg = m PROVE FALSE
      <4>1. j \in 1..Len(q) /\ i < j
        BY <3>3
      <4>2. Before(f, q[j])
        BY <2>4, <3>2, <3>4, <3>5, <4>1 DEF Sorted
      <4>3. q[j] \in EventType /\ q[j] \in b
        BY <1>3, <1>5, <3>2, <3>3, <4>1, ElementOfSeq DEF EarlyEvents, Range
      <4>4. Plausible(q[j], msgs[m])
        BY <1>5, <3>5, <4>3 DEF Turns, Pending, Past
      <4> QED BY <2>4, <3>5, <4>2, <4>3, <4>4, NewestLast DEF Facts
    <3>6. LastTells(morgue[c], msgs, m)
      BY <2>4, <3>2, <3>4, <3>5 DEF LastTells
    <3>7. ~Awaits(Range(queue[c]), m)
      <4>1. PICK p \in Seq(EventType) : p = queue[c]
        BY DEF Facts, Structure, Typed
      <4>2. Ordered(p, msgs, b, Exempt)
        BY <1>5, <4>1 DEF Turns, Pending, Fits
      <4>3. ASSUME NEW g \in Range(p), g.msg = m PROVE FALSE
        <5>1. PICK j \in 1..Len(p) : g = p[j] /\ g \in EventType
          BY LenProperties, ElementOfSeq DEF Range
        <5>2. Before(f, g) /\ Plausible(g, msgs[m])
          BY <1>5, <2>4, <2>6, <4>2, <4>3, <5>1 DEF Ordered
        <5> QED BY <2>4, <4>3, <5>1, <5>2, NewestLast DEF Facts
      <4> QED BY <4>1, <4>3 DEF Awaits
    <3> QED BY <3>6, <3>7
  <2> QED BY <2>3, <2>4, <2>5, <2>6 DEF LaterDone
<1>9. /\ requeues' \in {0, 1}
      /\ requeues' = 0 => dead' = b /\ \A d \in Channels : revived'[d] = <<>>
  BY <1>2
<1> QED BY <1>4, <1>6, <1>7, <1>8, <1>9, TurnsParts

\* The revived rows come first: what waits behind them came later.
LEMMA FrontOrdered ==
    ASSUME NEW r \in Seq(EventType), NEW q \in Seq(EventType), NEW ms,
           NEW a, NEW x, NEW b, NEW u, Sorted(r, ms), Ordered(q, ms, a, x),
           \A i \in 1..Len(r) : r[i] \in a /\ (~ms[r[i].msg].bot => Plausible(r[i], ms[r[i].msg])),
           \A e \in b : \A i \in 1..Len(r) : e.msg # r[i].msg,
           \A e \in b : \A i \in 1..Len(q) : e.msg # q[i].msg,
           \A i \in 1..Len(r) :
             ~ms[r[i].msg].bot /\ r[i].msg \notin x => Returns(r, q, q, ms, r[i].msg)
    PROVE  Ordered(r \o q, ms, b, x)
<1> DEFINE s == r \o q
           k == Len(r)
           n == Len(q)
<1>1. /\ k \in Nat /\ n \in Nat /\ Len(s) = k + n
      /\ \A i \in 1..k : i \in 1..(k + n) /\ s[i] = r[i]
      /\ \A i \in 1..n : k + i \in 1..(k + n) /\ s[k + i] = q[i]
      /\ DOMAIN r = 1..k /\ DOMAIN q = 1..n
  <2>1. k \in Nat /\ n \in Nat /\ DOMAIN r = 1..k /\ DOMAIN q = 1..n
    BY LenProperties
  <2>2. /\ Len(s) = k + n
        /\ \A i \in 1..(k + n) : s[i] = IF i <= k THEN r[i] ELSE q[i - k]
    BY ConcatProperties
  <2> HIDE DEF s, k, n
  <2>3. \A i \in 1..k : i \in 1..(k + n) /\ i <= k
    BY <2>1
  <2>4. \A i \in 1..n : k + i \in 1..(k + n) /\ ~(k + i <= k) /\ (k + i) - k = i
    BY <2>1
  <2> QED BY <2>1, <2>2, <2>3, <2>4
<1>2. \A i \in 1..(k + n) : i \in 1..k \/ (i - k \in 1..n /\ k + (i - k) = i)
  BY <1>1
<1> HIDE DEF s, k, n
<1>3. ASSUME NEW i \in 1..Len(s), NEW j \in 1..Len(s),
             i < j, s[i].msg = s[j].msg, ~ms[s[i].msg].bot
      PROVE  Before(s[i], s[j])
  <2>1. CASE j \in 1..k
    <3>1. i \in 1..k
      BY <1>1, <1>3, <2>1
    <3> QED BY <1>1, <1>3, <2>1, <3>1 DEF Sorted, k
  <2>2. CASE i \in 1..k /\ j \notin 1..k
    <3>1. j - k \in 1..n /\ s[j] = q[j - k] /\ s[i] = r[i]
      BY <1>1, <1>2, <2>2
    <3>2. r[i] \in a
      BY <2>2 DEF k
    <3> QED BY <1>3, <3>1, <3>2 DEF Ordered, n
  <2>3. CASE i \notin 1..k
    <3>1. i - k \in 1..n /\ s[i] = q[i - k] /\ j \notin 1..k
      BY <1>1, <1>2, <1>3, <2>3
    <3>2. j - k \in 1..n /\ s[j] = q[j - k] /\ i - k < j - k
      BY <1>1, <1>2, <1>3, <3>1
    <3> QED BY <1>3, <3>1, <3>2 DEF Ordered, n
  <2> QED BY <2>1, <2>2, <2>3
<1>4. ASSUME NEW e \in b, NEW i \in 1..Len(s) PROVE e.msg # s[i].msg
  <2>1. CASE i \in 1..k
    <3>1. s[i] = r[i]
      BY <1>1, <2>1
    <3> QED BY <2>1, <3>1 DEF k
  <2>2. CASE i \notin 1..k
    <3>1. PICK h \in 1..n : s[i] = q[h]
      BY <1>1, <1>2, <2>2
    <3> QED BY <3>1 DEF n
  <2> QED BY <2>1, <2>2
<1>5. ASSUME NEW i \in 1..Len(s), ~ms[s[i].msg].bot
      PROVE  /\ Plausible(s[i], ms[s[i].msg])
             /\ s[i].msg \notin x /\ (\A j \in (i + 1)..Len(s) : s[j].msg # s[i].msg)
                  => Tells(s[i], ms[s[i].msg])
  <2>1. CASE i \in 1..k
    <3>1. s[i] = r[i] /\ Plausible(r[i], ms[r[i].msg])
      BY <1>1, <1>5, <2>1 DEF k
    <3>2. ASSUME s[i].msg \notin x, \A j \in (i + 1)..Len(s) : s[j].msg # s[i].msg
          PROVE  Tells(s[i], ms[s[i].msg])
      <4>1. PICK m : m = r[i].msg
        OBVIOUS
      <4>2. \A j \in 1..n : q[j].msg # m
        <5> TAKE j \in 1..n
        <5>1. k + j \in (i + 1)..Len(s) /\ s[k + j] = q[j]
          BY <1>1, <2>1
        <5> QED BY <3>1, <3>2, <4>1, <5>1
      <4>3. ~Awaits(Range(q), m)
        BY <1>1, <4>2 DEF Awaits, Range
      <4>4. Awaits(Range(r), m)
        BY <1>1, <2>1, <4>1 DEF Awaits, Range
      <4>5. Returns(r, q, q, ms, m)
        BY <1>5, <2>1, <3>1, <3>2, <4>1 DEF k
      <4>6. PICK h \in 1..k : /\ r[h].msg = m /\ Tells(r[h], ms[m])
                              /\ \A j \in (h + 1)..k : r[j].msg # m
        BY <4>3, <4>4, <4>5 DEF Returns, LastTells, k
      <4>7. h = i
        <5>1. ~(h < i)
          <6> SUFFICES ASSUME h < i PROVE FALSE
            OBVIOUS
          <6>1. i \in (h + 1)..k
            BY <1>1, <2>1
          <6> QED BY <4>1, <4>6, <6>1
        <5>2. ~(i < h)
          <6> SUFFICES ASSUME i < h PROVE FALSE
            OBVIOUS
          <6>1. h \in (i + 1)..Len(s) /\ s[h] = r[h]
            BY <1>1, <2>1
          <6> QED BY <3>1, <3>2, <4>1, <4>6, <6>1
        <5> QED BY <1>1, <2>1, <5>1, <5>2
      <4> QED BY <3>1, <4>1, <4>6, <4>7
    <3> QED BY <3>1, <3>2
  <2>2. CASE i \notin 1..k
    <3>1. PICK h \in 1..n : h = i - k /\ k + h = i /\ s[i] = q[h]
      BY <1>1, <1>2, <2>2
    <3>2. ASSUME \A j \in (i + 1)..Len(s) : s[j].msg # s[i].msg
          PROVE  \A j \in (h + 1)..n : q[j].msg # q[h].msg
      <4> TAKE j \in (h + 1)..n
      <4>1. j \in 1..n /\ k + j \in (i + 1)..Len(s) /\ s[k + j] = q[j]
        BY <1>1, <3>1
      <4> QED BY <3>1, <3>2, <4>1
    <3>3. /\ Plausible(q[h], ms[q[h].msg])
          /\ q[h].msg \notin x /\ (\A j \in (h + 1)..n : q[j].msg # q[h].msg)
               => Tells(q[h], ms[q[h].msg])
      BY <1>5, <3>1 DEF Ordered, n
    <3> QED BY <3>1, <3>2, <3>3
  <2> QED BY <2>1, <2>2
<1>6. Ordered(s, ms, b, x)
  BY <1>3, <1>4, <1>5 DEF Ordered
<1> QED BY <1>6 DEF s

LEMMA RangeConcat ==
    ASSUME NEW S, NEW r \in Seq(S), NEW q \in Seq(S)
    PROVE  Range(r \o q) = Range(r) \cup Range(q)
<1> DEFINE s == r \o q
           k == Len(r)
           n == Len(q)
<1>1. /\ k \in Nat /\ n \in Nat /\ DOMAIN s = 1..(k + n)
      /\ DOMAIN r = 1..k /\ DOMAIN q = 1..n
      /\ \A i \in 1..(k + n) : s[i] = IF i <= k THEN r[i] ELSE q[i - k]
  BY LenProperties, ConcatProperties
<1> HIDE DEF s, k, n
<1>2. \A i \in 1..k : i \in 1..(k + n) /\ s[i] = r[i]
  BY <1>1
<1>3. \A i \in 1..n : k + i \in 1..(k + n) /\ s[k + i] = q[i]
  <2> TAKE i \in 1..n
  <2>1. k + i \in 1..(k + n) /\ ~(k + i <= k) /\ (k + i) - k = i
    BY <1>1
  <2> QED BY <1>1, <2>1
<1>4. \A i \in 1..(k + n) : i \in 1..k \/ i - k \in 1..n
  BY <1>1
<1>5. Range(r) \subseteq Range(s)
  BY <1>1, <1>2 DEF Range
<1>6. Range(q) \subseteq Range(s)
  BY <1>1, <1>3 DEF Range
<1>7. ASSUME NEW y \in Range(s) PROVE y \in Range(r) \cup Range(q)
  <2>1. PICK i \in 1..(k + n) : y = s[i]
    BY <1>1 DEF Range
  <2>2. CASE i \in 1..k
    BY <1>1, <1>2, <2>1, <2>2 DEF Range
  <2>3. CASE i \notin 1..k
    <3>1. i - k \in 1..n /\ s[i] = q[i - k]
      BY <1>1, <1>4, <2>3
    <3> QED BY <1>1, <2>1, <3>1 DEF Range
  <2> QED BY <2>2, <2>3
<1>8. Range(s) = Range(r) \cup Range(q)
  BY <1>5, <1>6, <1>7
<1> QED BY <1>8 DEF s

LEMMA TurnsReorder ==
    ASSUME Facts, Shelved, Turns, NEW c \in Channels, Reorder(c)
    PROVE  Turns'
<1>1. /\ w[c] = Idle /\ UNCHANGED <<msgs, links, dead, w, requeues, outOfTurn>>
      /\ queue' = [queue EXCEPT ![c] = revived[c] \o queue[c]]
      /\ revived' = [revived EXCEPT ![c] = <<>>] /\ revived[c] # <<>>
  BY DEF Reorder
<1>2. requeues = 1
  BY <1>1 DEF Turns
<1>3. /\ queue \in [Channels -> Seq(EventType)] /\ revived \in [Channels -> Seq(EventType)]
      /\ \A d \in Channels : Early(d) = revived[d] /\ Early(d)' = revived'[d]
  BY <1>1, <1>2 DEF Facts, Structure, Typed, Shelved, Early
<1>4. PICK r \in Seq(EventType), q \in Seq(EventType) : r = revived[c] /\ q = queue[c]
  BY <1>3
<1>5. /\ queue'[c] = r \o q /\ revived'[c] = <<>>
      /\ \A d \in Channels \ {c} : queue'[d] = queue[d] /\ revived'[d] = revived[d]
  BY <1>1, <1>3, <1>4
<1>6. PICK a, x, b : a = EarlyEvents /\ x = Exempt /\ b = EarlyEvents'
  OBVIOUS
<1>7. x = Exempt'
  BY <1>1, <1>6 DEF Exempt
<1>8. /\ \A e \in b : e \in a /\ e.msg \in 1..Len(msgs) /\ msgs[e.msg].chan # c
      /\ \A e \in a : e \in b \/ e \in Range(r)
      /\ \A e \in Range(r) : e \in a /\ e.msg \in 1..Len(msgs) /\ msgs[e.msg].chan = c
  <2>1. ASSUME NEW e \in b
        PROVE  e \in a /\ e.msg \in 1..Len(msgs) /\ msgs[e.msg].chan # c
    <3>1. PICK d \in Channels : e \in Range(revived'[d])
      BY <1>3, <1>6 DEF EarlyEvents
    <3>2. d # c
      BY <1>5, <3>1 DEF Range
    <3>3. e \in Range(Early(d))
      BY <1>3, <1>5, <3>1, <3>2
    <3> QED BY <1>6, <3>2, <3>3, EarlyOf DEF EarlyEvents
  <2>2. ASSUME NEW e \in a PROVE e \in b \/ e \in Range(r)
    <3>1. PICK d \in Channels : e \in Range(revived[d])
      BY <1>3, <1>6 DEF EarlyEvents
    <3>2. CASE d = c
      BY <1>4, <3>1, <3>2
    <3>3. CASE d # c
      <4>1. e \in Range(Early(d)')
        BY <1>3, <1>5, <3>1, <3>3
      <4> QED BY <1>6, <4>1 DEF EarlyEvents
    <3> QED BY <3>2, <3>3
  <2>3. ASSUME NEW e \in Range(r)
        PROVE  e \in a /\ e.msg \in 1..Len(msgs) /\ msgs[e.msg].chan = c
    BY <1>3, <1>4, <1>6, EarlyOf DEF EarlyEvents
  <2> QED BY <2>1, <2>2, <2>3
<1>9. Pending(a, x)
  BY <1>6 DEF Turns
<1>10. \A m \in 1..Len(msgs) : ~msgs[m].bot /\ m \notin x => Returns(r, q, q, msgs, m)
  <2>1. Comes(c, x) /\ Waiting(c) = q
    BY <1>1, <1>2, <1>4, <1>6 DEF Turns, Waiting
  <2> QED BY <1>4, <2>1 DEF Comes
<1>11. Past(b)'
  BY <1>1, <1>8, <1>9 DEF Pending, Past
<1>12. \A m \in 1..Len(msgs) : msgs[m].chan # c =>
         /\ Awaits(b, m) <=> Awaits(a, m)
         /\ \A kind : AwaitsKind(b, m, kind) <=> AwaitsKind(a, m, kind)
  BY <1>8 DEF Awaits, AwaitsKind
<1>13. ASSUME NEW d \in Channels \ {c}
       PROVE  Fits(d, b, x)' /\ Work(d)' /\ Progress(d, b, x)' /\ Kept(d, b, x)'
  <2>1. queue'[d] = queue[d] /\ w'[d] = w[d] /\ Ev(d)' = Ev(d) /\ Target(d)' = Target(d)
    BY <1>1, <1>5 DEF Ev, Target
  <2>2. Fits(d, b, x)'
    <3>1. Ordered(queue[d], msgs, a, x)
      BY <1>9 DEF Pending, Fits
    <3>2. Ordered(queue[d], msgs, b, x)
      BY <1>8, <3>1 DEF Ordered
    <3> QED BY <1>1, <2>1, <3>2 DEF Fits
  <2>3. Work(d)'
    BY <1>1, <1>9, <2>1 DEF Pending, Work
  <2>4. Progress(d, b, x)'
    <3>1. CASE w[d].at \in {"idle", "guard"}
      BY <2>1, <3>1 DEF Progress, Serving
    <3>2. CASE w[d].at \notin {"idle", "guard"}
      <4>1. PICK m \in 1..Len(msgs) : m = Ev(d).msg /\ msgs[m].chan = d
        BY <3>2, OwnEvent
      <4>2. Latest(d, b)' <=> Latest(d, a)
        <5>1. Latest(d, b)' <=> IF Ev(d).kind = "deleted" THEN ~AwaitsKind(b, m, "created")
                                ELSE ~Awaits(Range(Tail(queue[d])) \cup b, m)
          BY <2>1, <4>1 DEF Latest
        <5>2. Awaits(Range(Tail(queue[d])) \cup b, m) <=> Awaits(Range(Tail(queue[d])) \cup a, m)
          BY <1>12, <4>1 DEF Awaits
        <5> QED BY <1>12, <4>1, <5>1, <5>2 DEF Latest
      <4>3. \A t : Served(d, t)' <=> Served(d, t)
        BY <2>1 DEF Served
      <4>4. /\ \A t : (HasRow(m, t)' <=> HasRow(m, t)) /\ (Fresh(m, t)' <=> Fresh(m, t))
            /\ Promised(x)' = Promised(x)
        BY <1>1 DEF HasRow, Fresh, Alike, Promised
      <4>5. Ev(d)'.msg = m
        BY <2>1, <4>1
      <4> QED BY <1>9, <2>1, <4>1, <4>2, <4>3, <4>4, <4>5 DEF Pending, Progress
    <3> QED BY <3>1, <3>2
  <2>5. Kept(d, b, x)'
    <3> SUFFICES ASSUME NEW m \in Promised(x), msgs[m].chan = d PROVE KeptFor(m, d, b)'
      BY <1>1 DEF Kept, Promised
    <3>1. m \in 1..Len(msgs) /\ KeptFor(m, d, a)
      BY <1>9 DEF Promised, Pending, Kept
    <3>2. /\ Awaits(ToCome(d, b)', m) <=> Awaits(ToCome(d, a), m)
          /\ \A kind : AwaitsKind(ToCome(d, b)', m, kind) <=> AwaitsKind(ToCome(d, a), m, kind)
          /\ \A kind : AwaitsKind(b, m, kind) <=> AwaitsKind(a, m, kind)
      <4>1. \A e : e.msg = m => (e \in b <=> e \in a)
        BY <1>8, <3>1
      <4>2. \A e : e.msg = m => (e \in ToCome(d, b)' <=> e \in ToCome(d, a))
        BY <2>1, <4>1 DEF ToCome
      <4>3. /\ Awaits(ToCome(d, b)', m) <=> Awaits(ToCome(d, a), m)
            /\ \A kind : AwaitsKind(ToCome(d, b)', m, kind)
                           <=> AwaitsKind(ToCome(d, a), m, kind)
        BY <4>2 DEF Awaits, AwaitsKind
      <4> QED BY <4>1, <4>3 DEF AwaitsKind
    <3>3. Made(m, d, b)' => Made(m, d, a)
      BY <1>1, <2>1, <3>2 DEF Made
    <3>4. \A t : (HasRow(m, t)' <=> HasRow(m, t)) /\ (Fresh(m, t)' <=> Fresh(m, t))
      BY <1>1 DEF HasRow, Fresh, Alike
    <3>5. \A t : Covered(m, t)' <=> Covered(m, t)
      BY <1>1, <3>4 DEF Covered
    <3> QED BY <3>1, <3>2, <3>3, <3>4, <3>5 DEF KeptFor
  <2> QED BY <2>2, <2>3, <2>4, <2>5
<1>14. Fits(c, b, x)'
  <2>1. Len(r) \in Nat /\ DOMAIN r = 1..Len(r) /\ Len(q) \in Nat
    BY LenProperties
  <2>2. \A i \in 1..Len(r) : r[i] \in Range(r)
    BY <2>1 DEF Range
  <2>3. Sorted(r, msgs) /\ Ordered(q, msgs, a, x)
    <3>1. Sorted(Early(c), msgs) /\ Fits(c, a, x)
      BY <1>9 DEF Turns, Pending
    <3> QED BY <1>3, <1>4, <3>1 DEF Fits
  <2>4. \A i \in 1..Len(r) : r[i] \in a /\ (~msgs[r[i].msg].bot => Plausible(r[i], msgs[r[i].msg]))
    BY <1>8, <1>9, <2>2 DEF Pending, Past
  <2>5. \A e \in b : \A i \in 1..Len(r) : e.msg # r[i].msg
    BY <1>8, <2>2
  <2>6. \A e \in b : \A i \in 1..Len(q) : e.msg # q[i].msg
    <3>1. \A i \in 1..Len(q) : msgs[q[i].msg].chan = c
      BY <1>4 DEF Facts, Structure, Known
    <3> QED BY <1>8, <3>1
  <2>7. \A i \in 1..Len(r) :
          ~msgs[r[i].msg].bot /\ r[i].msg \notin x => Returns(r, q, q, msgs, r[i].msg)
    BY <1>8, <1>10, <2>2
  <2>8. Ordered(r \o q, msgs, b, x)
    <3>1. PICK ms : ms = msgs
      OBVIOUS
    <3>2. Ordered(r \o q, ms, b, x)
      BY <2>3, <2>4, <2>5, <2>6, <2>7, <3>1, FrontOrdered
    <3> QED BY <3>1, <3>2
  <2> QED BY <1>1, <1>5, <2>8 DEF Fits
<1>15. Work(c)' /\ Progress(c, b, x)'
  <2>1. w'[c] = Idle
    BY <1>1
  <2> QED BY <2>1, OwnIdle
<1>16. Kept(c, b, x)'
  <2> SUFFICES ASSUME NEW m \in Promised(x), msgs[m].chan = c PROVE KeptFor(m, c, b)'
    BY <1>1 DEF Kept, Promised
  <2>1. m \in 1..Len(msgs) /\ KeptFor(m, c, a) /\ ~msgs[m].bot /\ m \notin x
    BY <1>9 DEF Promised, Pending, Kept
  <2>2. Range(queue'[c]) = Range(r) \cup Range(q)
    BY <1>5, RangeConcat
  <2>3. \A e : e \in ToCome(c, b)' <=> e \in ToCome(c, a)
    BY <1>4, <1>8, <2>2 DEF ToCome
  <2>4. /\ Awaits(ToCome(c, b)', m) <=> Awaits(ToCome(c, a), m)
        /\ \A kind : AwaitsKind(ToCome(c, b)', m, kind) <=> AwaitsKind(ToCome(c, a), m, kind)
    BY <2>3 DEF Awaits, AwaitsKind
  <2>5. Made(m, c, b)' => Made(m, c, a)
    <3> SUFFICES ASSUME msgs[m].gone, Awaits(Range(queue'[c]), m) \/ AwaitsKind(b, m, "deleted")
                 PROVE  Awaits(Range(q), m) \/ AwaitsKind(a, m, "deleted")
      BY <1>1, <1>4, <2>4 DEF Made
    <3>1. CASE AwaitsKind(b, m, "deleted")
      BY <1>8, <3>1 DEF AwaitsKind
    <3>2. CASE Awaits(Range(q), m)
      BY <3>2
    <3>3. CASE Awaits(Range(r), m) /\ ~Awaits(Range(q), m)
      <4>1. LastTells(r, msgs, m)
        BY <1>10, <2>1, <3>3 DEF Returns
      <4>2. PICK i \in 1..Len(r) : r[i].msg = m /\ Tells(r[i], msgs[m])
        BY <4>1 DEF LastTells
      <4>3. r[i] \in a
        BY <1>8, LenProperties DEF Range
      <4> QED BY <4>2, <4>3 DEF Tells, AwaitsKind
    <3>4. Awaits(Range(queue'[c]), m) => Awaits(Range(r), m) \/ Awaits(Range(q), m)
      BY <2>2 DEF Awaits
    <3> QED BY <3>1, <3>2, <3>3, <3>4
  <2>6. \A t : (HasRow(m, t)' <=> HasRow(m, t)) /\ (Fresh(m, t)' <=> Fresh(m, t))
    BY <1>1 DEF HasRow, Fresh, Alike
  <2>7. \A t : Covered(m, t)' <=> Covered(m, t)
    BY <1>1, <2>6 DEF Covered
  <2> QED BY <2>1, <2>4, <2>5, <2>6, <2>7 DEF KeptFor
<1>17. Pending(b, x)'
  BY <1>11, <1>13, <1>14, <1>15, <1>16 DEF Pending
<1>18. ASSUME NEW d \in Channels PROVE Sorted(Early(d), msgs)' /\ Comes(d, x)'
  <2>1. CASE d = c
    <3>1. Early(c)' = <<>> /\ revived'[c] = <<>>
      BY <1>3, <1>5
    <3> QED BY <2>1, <3>1 DEF Sorted, Comes, Returns, Awaits, Range
  <2>2. CASE d # c
    <3>1. PICK s : s = Early(d) /\ s = revived[d] /\ s = Early(d)' /\ s = revived'[d]
      BY <1>3, <1>5, <2>2
    <3>2. Sorted(s, msgs) /\ Comes(d, x)
      BY <1>2, <1>6, <3>1 DEF Turns
    <3>3. Waiting(d)' = Waiting(d) /\ queue'[d] = queue[d]
      BY <1>1, <1>5, <2>2 DEF Waiting
    <3> QED BY <1>1, <3>1, <3>2, <3>3 DEF Comes
  <2> QED BY <2>1, <2>2
<1>19. requeues' = 1 /\ requeues' \in {0, 1}
  BY <1>1, <1>2
<1> QED BY <1>6, <1>7, <1>17, <1>18, <1>19, TurnsParts

LEMMA TurnsStep ==
    ASSUME SelfKnown \/ ~RelayBots
    PROVE  Revived /\ Turns /\ [RevivalNext]_allVars => Turns'
<1> SUFFICES ASSUME Revived, Turns, [RevivalNext]_allVars PROVE Turns'
  OBVIOUS
<1>1. Facts /\ Shelved
  BY DEF Revived
<1>2. Structure' /\ Shelved'
  BY <1>1, RevivalStructure DEF Facts
<1>3. CASE RelayCases /\ Book
  <2>1. CASE UserStep
    BY <1>1, <1>2, <1>3, <2>1, TurnsUser
  <2>2. CASE Crash
    <3>1. /\ UNCHANGED <<msgs, links, queue, dead, revived, requeues, outOfTurn>>
          /\ \A c \in Channels : morgue'[c] = morgue[c] /\ w'[c] = Idle
      BY <1>3, <2>2 DEF Crash, Die, Book
    <3> QED BY <1>1, <3>1, TurnsSame
  <2>3. ASSUME NEW c \in Channels,
               (WorkerStep(c) /\ Claimable(c)) \/ StepError(c) \/ SendReplyLost(c)
        PROVE  Turns'
    BY <1>1, <1>2, <1>3, <2>3, TurnsWorker
  <2> QED BY <1>3, <2>1, <2>2, <2>3 DEF RelayCases
<1>4. ASSUME NEW c \in Channels, Reorder(c) PROVE Turns'
  BY <1>1, <1>4, TurnsReorder
<1>5. ASSUME NEW c \in Channels, Resume(c) PROVE Turns'
  <2>1. UNCHANGED <<msgs, links, queue, dead, w, morgue, revived, requeues, outOfTurn>>
    BY <1>5 DEF Resume
  <2> QED BY <1>1, <2>1, TurnsSame
<1>6. CASE Revive
  BY <1>1, <1>6, TurnsRevive
<1>7. CASE UNCHANGED allVars
  <2>1. UNCHANGED <<msgs, links, queue, dead, w, morgue, revived, requeues, outOfTurn>>
    BY <1>7 DEF allVars, revivalVars, vars
  <2> QED BY <1>1, <2>1, TurnsSame
<1> QED BY <1>3, <1>4, <1>5, <1>6, <1>7, RevivalCases

LEMMA TurnsInit == RevivalInit => Turns
<1> SUFFICES ASSUME RevivalInit PROVE Turns
  OBVIOUS
<1>1. /\ requeues = 0 /\ dead = {} /\ Init
      /\ \A c \in Channels : morgue[c] = <<>> /\ revived[c] = <<>>
  BY DEF RevivalInit, Init
<1>2. \A c \in Channels : Early(c) = <<>>
  BY <1>1 DEF Early
<1>3. EarlyEvents = {} /\ Exempt = {}
  <2>1. \A c \in Channels : Range(Early(c)) = {}
    BY <1>2 DEF Range
  <2> QED BY <1>1, <2>1 DEF EarlyEvents, Exempt
<1>4. Pending(EarlyEvents, Exempt)
  BY <1>1, <1>3, PendingInit
<1>5. \A c \in Channels : Sorted(Early(c), msgs)
  BY <1>2 DEF Sorted
<1> QED BY <1>1, <1>3, <1>4, <1>5 DEF Turns

LEMMA TurnsDeliver == Structure /\ Turns => RevivedDelivered
<1> SUFFICES ASSUME Structure, Turns, AtRest, NEW m \in Relayed \ outOfTurn,
                    NEW t \in Channels \ {msgs[m].chan}
             PROVE  \E k \in Copies(m, t) : Alike(m, k)
  BY DEF RevivedDelivered
<1>1. PICK a, x : a = EarlyEvents /\ x = Exempt
  OBVIOUS
<1>2. m \in Promised(x)
  BY <1>1 DEF Relayed, Promised, Structure, Typed, Exempt
<1>3. ~Awaits(a, m)
  <2>1. CASE requeues = 0
    BY <1>1, <2>1 DEF Turns, Relayed, Awaits
  <2>2. CASE requeues # 0
    <3>1. \A c \in Channels : Range(Early(c)) = {}
      BY <2>2 DEF Early, AtRest, Range
    <3> QED BY <1>1, <3>1 DEF EarlyEvents, Awaits
  <2> QED BY <2>1, <2>2
<1>4. Pending(a, x) /\ Quiet
  BY <1>1 DEF Turns, AtRest
<1> QED BY <1>2, <1>3, <1>4, PendingDelivers

\* Requeuing repairs what the DLQ had stopped: once the bridge is at rest and a
\* post has no event in the DLQ, it has an up-to-date copy in every other
\* channel, unless one of its events came back after a later one had been
\* settled (`chbridge dlq --requeue`, cli.py).
THEOREM RevivalDelivers ==
    ASSUME SelfKnown \/ ~RelayBots
    PROVE  RevivalSpec => []RevivedDelivered
<1>1. RevivalInit => Revived /\ Turns
  BY RevivedInit, TurnsInit
<1>2. Revived /\ Turns /\ [RevivalNext]_allVars => (Revived /\ Turns)'
  BY RevivedStep, TurnsStep
<1>3. Revived /\ Turns => RevivedDelivered
  BY TurnsDeliver DEF Revived, Facts
<1> QED BY <1>1, <1>2, <1>3, PTL DEF RevivalSpec

-----------------------------------------------------------------------------
(* Revival: no second copy.                                                *)

Copied(m) == \E k \in 1..Len(msgs) : msgs[k].copyOf = m

\* The handler of c has posted its copy of m, and has not returned yet.
JustPosted(c, m) == w[c].at = "link" /\ Ev(c).kind = "created" /\ Ev(c).msg = m

\* As long as nothing has failed, a message whose event of posting is still in
\* the queue has no copy, or the one its handler has just posted.
Single ==
    \A m \in 1..Len(msgs) : ~msgs[m].bot =>
        /\ \A i, j \in 1..Len(msgs) : msgs[i].copyOf = m /\ msgs[j].copyOf = m => i = j
        /\ \A c \in Channels :
             Copied(m) /\ AwaitsKind(Range(queue[c]), m, "created") => JustPosted(c, m)

\* With two channels there is one target.
Short == \A c \in Channels : Len(w[c].todo) <= 1

Singles == faults \in Nat /\ Short /\ (requeues = 0 /\ faults = 0 => Single)

LEMMA TargetsShort ==
    ASSUME Len(Endpoints) <= 2, NEW c \in Channels
    PROVE  Len(Targets(c)) <= 1
<1> DEFINE p == Place(c)
           n == Len(Endpoints)
           f == SubSeq(Endpoints, 1, p - 1)
           g == SubSeq(Endpoints, p + 1, n)
<1>1. Endpoints \in Seq(Channels)
  BY EndpointsAssumption DEF Channels
<1>2. p \in 1..n /\ n \in Nat
  <2>1. \E i \in DOMAIN Endpoints : Endpoints[i] = c
    BY DEF Channels, Range
  <2> QED BY <2>1, <1>1, LenProperties DEF Place
<1>3. f \in Seq(Channels) /\ Len(f) = p - 1
  <2>1. \A i \in 1..(p - 1) : Endpoints[i] \in Channels
    BY <1>1, <1>2, ElementOfSeq
  <2> QED BY <2>1, <1>1, <1>2, SubSeqProperties
<1>4. g \in Seq(Channels) /\ Len(g) = n - p
  <2>1. \A i \in (p + 1)..n : Endpoints[i] \in Channels
    BY <1>1, <1>2, ElementOfSeq
  <2> QED BY <2>1, <1>1, <1>2, SubSeqProperties
<1>5. Targets(c) = f \o g
  BY DEF Targets, RemoveAt
<1> HIDE DEF p, f, g, n
<1>6. Len(f \o g) = Len(f) + Len(g)
  BY <1>3, <1>4, ConcatProperties
<1>7. (p - 1) + (n - p) <= 1
  BY <1>2 DEF n
<1> QED BY <1>3, <1>4, <1>5, <1>6, <1>7

LEMMA ShortStep ==
    ASSUME Structure, Len(Endpoints) <= 2, Short, NEW c \in Channels,
           WorkerStep(c) \/ StepError(c) \/ SendReplyLost(c)
    PROVE  Short'
<1>1. \A d \in Channels \ {c} : w'[d] = w[d] \/ w'[d] = Idle
  BY WorkerMoves DEF Moves
<1>2. w \in [Channels -> WorkType] /\ Len(w[c].todo) <= 1 /\ Len(Targets(c)) <= 1
  BY TargetsShort DEF Structure, Typed, Short
<1>3. Len(Idle.todo) <= 1
  BY DEF Idle
<1>4. \A s : Do(c, s) /\ Len(s.todo) <= 1 => Len(w'[c].todo) <= 1
  BY <1>2 DEF Do
<1>5. \A q : Return(c, q) \/ Finish(c, q) => Len(w'[c].todo) <= 1
  <2>1. ASSUME NEW q, Return(c, q)
        PROVE  Len(w'[c].todo) <= 1
    <3>1. Ended(c, q)
      BY <2>1, ReturnEnds
    <3>2. w'[c] = Idle
      BY <3>1, EndedIdle
    <3> QED BY <1>3, <3>2
  <2>2. ASSUME NEW q, Finish(c, q)
        PROVE  Len(w'[c].todo) <= 1
    <3>1. Do(c, Idle)
      BY <2>2 DEF Finish
    <3> QED BY <1>3, <1>4, <3>1
  <2> QED BY <2>1, <2>2
<1>6. \A q : \A retryable : Fail(c, retryable, q) => Len(w'[c].todo) <= 1
  BY <1>3, <1>4, <1>5 DEF Fail
<1>7. w[c] \in WorkType
  BY <1>2
<1>8. \A q : \A first : NextTarget(c, q, first) => Len(w'[c].todo) <= 1
  <2>1. [w[c] EXCEPT !.at = "cleanup"].todo = w[c].todo
    BY <1>7 DEF WorkType
  <2>2. ~(Len(w[c].todo) > 1)
    <3>1. Len(w[c].todo) \in Nat
      BY <1>7, LenProperties DEF WorkType
    <3> QED BY <1>2, <3>1
  <2> QED BY <1>2, <1>4, <1>5, <2>1, <2>2 DEF NextTarget
<1>9. Len(w'[c].todo) <= 1
  <2>1. CASE Begin(c)
    <3>1. [Idle EXCEPT !.at = "guard"].todo = Idle.todo
      BY DEF Idle
    <3> QED BY <1>3, <1>4, <1>5, <2>1, <3>1 DEF Begin
  <2>2. CASE Guard(c)
    <3>1. \A at : [w[c] EXCEPT !.at = at, !.todo = Targets(c)].todo = Targets(c)
      BY <1>7 DEF WorkType
    <3> QED BY <1>2, <1>4, <1>5, <2>2, <3>1 DEF Guard
  <2>3. CASE RecordOrigin(c)
    <3>1. \A g : [w[c] EXCEPT !.at = "parent", !.group = g].todo = w[c].todo
      BY <1>7 DEF WorkType
    <3> QED BY <1>2, <1>4, <2>3, <3>1 DEF RecordOrigin
  <2>4. CASE FindParent(c)
    <3>1. /\ [w[c] EXCEPT !.at = "send", !.parent = 0].todo = w[c].todo
          /\ \A g : [w[c] EXCEPT !.at = "mapped", !.parent = g].todo = w[c].todo
      BY <1>7 DEF WorkType
    <3> QED BY <1>2, <1>4, <1>6, <2>4, <3>1 DEF FindParent
  <2>5. CASE MapParent(c)
    <3>1. \A p : [w[c] EXCEPT !.at = "send", !.parent = p].todo = w[c].todo
      BY <1>7 DEF WorkType
    <3> QED BY <1>2, <1>4, <1>6, <2>5, <3>1 DEF MapParent
  <2>6. CASE Send(c)
    <3>1. [w[c] EXCEPT !.at = "link", !.id = Len(msgs')].todo = w[c].todo
      BY <1>7 DEF WorkType
    <3> QED BY <1>2, <1>4, <2>6, <3>1 DEF Send
  <2>7. CASE SendRefused(c) \/ StepError(c) \/ SendReplyLost(c)
    BY <1>6, <2>7 DEF SendRefused, StepError, SendReplyLost
  <2>8. CASE RecordReplica(c)
    BY <1>8, <2>8 DEF RecordReplica
  <2>9. CASE FindGroup(c)
    <3>1. \A g : [w[c] EXCEPT !.at = "lookup", !.group = g].todo = w[c].todo
      BY <1>7 DEF WorkType
    <3> QED BY <1>2, <1>4, <1>5, <2>9, <3>1 DEF FindGroup
  <2>10. CASE Lookup(c)
    <3>1. \A m : [w[c] EXCEPT !.at = "apply", !.id = m].todo = w[c].todo
      BY <1>7 DEF WorkType
    <3> QED BY <1>2, <1>4, <1>8, <2>10, <3>1 DEF Lookup
  <2>11. CASE ApplyEdit(c)
    BY <1>6, <1>8, <2>11 DEF ApplyEdit
  <2>12. CASE ApplyDelete(c)
    BY <1>8, <2>12 DEF ApplyDelete
  <2>13. CASE Cleanup(c)
    BY <1>5, <2>13 DEF Cleanup
  <2> QED BY <2>1, <2>2, <2>3, <2>4, <2>5, <2>6, <2>7, <2>8, <2>9, <2>10, <2>11,
             <2>12, <2>13 DEF WorkerStep
<1> QED BY <1>1, <1>2, <1>3, <1>9 DEF Short

\* No event of posting is added for a message that was there.
LEMMA NoneCreated ==
    ASSUME Facts, Grown, NEW c \in Channels, queue[c] # <<>>, Effect(c),
           NEW d \in Channels, NEW m \in 1..Len(msgs), ~msgs[m].bot,
           AwaitsKind(Range(queue'[d]), m, "created")
    PROVE  AwaitsKind(Range(queue[d]), m, "created")
<1>1. queue \in [Channels -> Seq(EventType)]
  BY DEF Facts, Structure, Typed
<1>2. CASE queue'[d] = queue[d]
  BY <1>2
<1>3. CASE d = c /\ queue'[c] = Tail(queue[c])
  <2>1. Range(queue[c]) = {Head(queue[c])} \cup Range(queue'[c])
    BY <1>1, <1>3, RangeTail
  <2> QED BY <1>3, <2>1 DEF AwaitsKind
<1>4. ASSUME NEW ev \in EventType, msgs'[ev.msg].bot, queue'[d] = Append(queue[d], ev)
      PROVE  AwaitsKind(Range(queue[d]), m, "created")
  <2>1. ev.msg # m
    BY <1>4 DEF Grown
  <2>2. Range(queue'[d]) = Range(queue[d]) \cup {ev}
    BY <1>1, <1>4, RangeAppend
  <2> QED BY <2>1, <2>2 DEF AwaitsKind
<1> QED BY <1>2, <1>3, <1>4 DEF Effect, Told

\* A step in which nothing fails: a handler that returns is done.
LEMMA ReturnsOnce ==
    ASSUME faults \in Nat, UNCHANGED faults, NEW c, NEW q, Return(c, q)
    PROVE  Finish(c, q)
<1>1. faults' # faults + 1
  OBVIOUS
<1> QED BY <1>1 DEF Return, Fault

LEMMA FaultsCounted ==
    ASSUME NEW c, WorkerStep(c)
    PROVE  faults' = faults \/ faults' = faults + 1
<1>1. ASSUME NEW q, Return(c, q) PROVE faults' = faults \/ faults' = faults + 1
  BY <1>1 DEF Return, Fault
<1>2. ASSUME NEW q, NEW first, NextTarget(c, q, first)
      PROVE  faults' = faults \/ faults' = faults + 1
  BY <1>1, <1>2 DEF NextTarget
<1>3. CASE RecordOrigin(c) \/ FindParent(c) \/ MapParent(c) \/ Send(c) \/ SendRefused(c)
  BY <1>3 DEF RecordOrigin, FindParent, MapParent, Send, SendRefused
<1>4. CASE Begin(c) \/ Guard(c) \/ FindGroup(c) \/ Cleanup(c)
  BY <1>1, <1>4 DEF Begin, Guard, FindGroup, Cleanup
<1>5. CASE RecordReplica(c) \/ Lookup(c) \/ ApplyEdit(c) \/ ApplyDelete(c)
  BY <1>2, <1>5 DEF RecordReplica, Lookup, ApplyEdit, ApplyDelete
<1> QED BY <1>3, <1>4, <1>5 DEF WorkerStep

LEMMA OthersRest ==
    ASSUME Structure, faults \in Nat, UNCHANGED faults, NEW c \in Channels, WorkerStep(c),
           NEW d \in Channels \ {c}
    PROVE  w'[d] = w[d]
<1>1. \A s : Do(c, s) => w'[d] = w[d]
  BY DEF Do, Structure, Typed
<1>2. \A q : Finish(c, q) => w'[d] = w[d]
  BY <1>1 DEF Finish
<1>3. \A q : Return(c, q) => w'[d] = w[d]
  BY <1>2, ReturnsOnce
<1>4. \A q, retryable : Fail(c, retryable, q) => w'[d] = w[d]
  BY <1>1, <1>2 DEF Fail
<1>5. \A q, first : NextTarget(c, q, first) => w'[d] = w[d]
  BY <1>1, <1>3 DEF NextTarget
<1>6. CASE RecordOrigin(c) \/ FindParent(c) \/ MapParent(c) \/ Send(c) \/ SendRefused(c)
  BY <1>1, <1>4, <1>6 DEF RecordOrigin, FindParent, MapParent, Send, SendRefused
<1>7. CASE Begin(c) \/ Guard(c) \/ FindGroup(c) \/ Cleanup(c)
  BY <1>1, <1>3, <1>7 DEF Begin, Guard, FindGroup, Cleanup
<1>8. CASE RecordReplica(c) \/ Lookup(c) \/ ApplyEdit(c) \/ ApplyDelete(c)
  BY <1>1, <1>4, <1>5, <1>8 DEF RecordReplica, Lookup, ApplyEdit, ApplyDelete
<1> QED BY <1>6, <1>7, <1>8 DEF WorkerStep

\* Then the handlers of other channels are where they were.
LEMMA JustPostedKept ==
    ASSUME Structure, NEW c \in Channels, Moves(c), NEW d \in Channels \ {c}, NEW m,
           w'[d] = w[d], JustPosted(d, m)
    PROVE  JustPosted(d, m)'
<1>1. SameHead(d)
  BY DEF Moves
<1>2. queue[d] # <<>>
  BY Busy DEF JustPosted
<1> QED BY <1>1, <1>2 DEF JustPosted, SameHead

LEMMA SingleNoPost ==
    ASSUME Facts, NEW a, NEW x, Pending(a, x), Grown, NEW c \in Channels, queue[c] # <<>>,
           Effect(c), Moves(c), Short, Single, WorkerStep(c), ~Send(c),
           faults \in Nat, UNCHANGED faults
    PROVE  Single'
<1>1. /\ msgs \in Seq(MessageType) /\ msgs' \in Seq(MessageType)
      /\ queue \in [Channels -> Seq(EventType)]
  BY DEF Facts, Structure, Typed, Grown
<1>2. 1..Len(msgs') = 1..Len(msgs)
  <2>1. DOMAIN msgs' = DOMAIN msgs
    BY DEF WorkerStep, Begin, Guard, RecordOrigin, FindParent, MapParent, SendRefused,
           RecordReplica, FindGroup, Lookup, ApplyEdit, ApplyDelete, Cleanup
  <2> QED BY <1>1, <2>1, LenProperties
<1>3. \A k \in 1..Len(msgs) : /\ msgs'[k].copyOf = msgs[k].copyOf
                              /\ msgs'[k].bot = msgs[k].bot
  BY DEF Grown
<1>4. \A m : Copied(m)' => Copied(m)
  BY <1>2, <1>3 DEF Copied
<1>5. ASSUME NEW m \in 1..Len(msgs), ~msgs[m].bot, NEW d \in Channels,
             Copied(m)', AwaitsKind(Range(queue'[d]), m, "created")
      PROVE  JustPosted(d, m)'
  <2>1. AwaitsKind(Range(queue[d]), m, "created")
    BY <1>5, NoneCreated
  <2>2. JustPosted(d, m)
    BY <1>4, <1>5, <2>1 DEF Single
  <2>3. CASE d # c
    BY <2>2, <2>3, OthersRest, JustPostedKept DEF Facts
  <2>4. CASE d = c
    <3>1. w[c].at = "link" /\ Ev(c).kind = "created" /\ Ev(c).msg = m
      BY <2>2, <2>4 DEF JustPosted
    <3>2. RecordReplica(c)
      BY <3>1, IdleType DEF WorkerStep, Begin, Guard, RecordOrigin, FindParent, MapParent,
         SendRefused, FindGroup, Lookup, ApplyEdit, ApplyDelete, Cleanup
    <3>3. ~(Len(w[c].todo) > 1)
      <4>1. Len(w[c].todo) \in Nat /\ Len(w[c].todo) <= 1
        <5>1. w[c] \in WorkType
          BY DEF Facts, Structure, Typed
        <5> QED BY <5>1, LenProperties DEF WorkType, Short
      <4> QED BY <4>1
    <3>4. Finish(c, queue)
      BY <3>1, <3>2, <3>3, ReturnsOnce DEF RecordReplica, NextTarget
    <3>5. queue'[c] = Tail(queue[c])
      BY <1>1, <3>4 DEF Finish
    <3>6. ~AwaitsKind(Range(Tail(queue[c])), m, "created")
      <4>1. PICK q \in Seq(EventType) : q = queue[c]
        BY <1>1
      <4>2. Ordered(q, msgs, a, x) /\ q # <<>> /\ Head(q).msg = m
        BY <3>1, <4>1 DEF Pending, Fits, Ev
      <4> QED BY <1>5, <4>1, <4>2, OrderedHead
    <3> QED BY <1>5, <2>4, <3>5, <3>6
  <2> QED BY <2>3, <2>4
<1>6. ASSUME NEW m \in 1..Len(msgs), ~msgs[m].bot,
             NEW i \in 1..Len(msgs), NEW j \in 1..Len(msgs),
             msgs'[i].copyOf = m, msgs'[j].copyOf = m
      PROVE  i = j
  BY <1>3, <1>6 DEF Single
<1> QED BY <1>2, <1>3, <1>5, <1>6 DEF Single

LEMMA SingleSend ==
    ASSUME Facts, NEW a, NEW x, Pending(a, x), Grown, NEW c \in Channels, queue[c] # <<>>,
           Effect(c), Moves(c), Single, Send(c)
    PROVE  Single'
<1>1. /\ Posted(c) /\ w[c].at = "send"
      /\ queue' = QueueAfterPost(c)
      /\ Do(c, [w[c] EXCEPT !.at = "link", !.id = Len(msgs')])
  BY DEF Send, Posted
<1>2. /\ Len(msgs) \in Nat /\ Len(msgs') = Len(msgs) + 1
      /\ \A k \in 1..Len(msgs) : msgs'[k] = msgs[k]
      /\ msgs'[Len(msgs) + 1].copyOf = Ev(c).msg /\ msgs'[Len(msgs) + 1].bot
  <2>1. PICK new : new = Message(Target(c), TRUE, w[c].parent, Ev(c).text, Ev(c).msg)
    OBVIOUS
  <2>2. new.copyOf = Ev(c).msg /\ new.bot
    BY <2>1 DEF Message
  <2> QED BY <1>1, <2>1, <2>2, PostedCopy
<1>3. \A k \in 1..Len(msgs') : k \in 1..Len(msgs) \/ k = Len(msgs) + 1
  BY <1>2
<1>4. PICK o \in 1..Len(msgs) : o = Ev(c).msg /\ msgs[o].chan = c /\ ~msgs[o].bot
  BY <1>1, OwnEvent
<1>5. Ev(c).kind = "created"
  BY <1>1 DEF Pending, Work, Creating
<1>6. ~Copied(o)
  <2>1. AwaitsKind(Range(queue[c]), o, "created")
    <3>1. queue[c] \in Seq(EventType)
      BY DEF Facts, Structure, Typed
    <3>2. Range(queue[c]) = {Head(queue[c])} \cup Range(Tail(queue[c]))
      BY <3>1, RangeTail
    <3> QED BY <1>4, <1>5, <3>2 DEF AwaitsKind, Ev
  <2> QED BY <1>1, <1>4, <2>1 DEF Single, JustPosted
<1>7. \A m : Copied(m)' => Copied(m) \/ m = o
  BY <1>2, <1>3, <1>4 DEF Copied
<1>8. w'[c].at = "link" /\ Ev(c)' = Ev(c)
  <2>1. w \in [Channels -> WorkType] /\ queue \in [Channels -> Seq(EventType)]
    BY DEF Facts, Structure, Typed
  <2>2. w'[c].at = "link"
    BY <1>1, <2>1 DEF Do, WorkType
  <2>3. Target(c) # c
    <3>1. w[c].todo \in Seq(Channels) /\ w[c].todo # <<>>
      BY <1>1, <2>1 DEF WorkType, Facts, Structure, Handler, Serving
    <3>2. Target(c) \in Range(w[c].todo)
      BY <3>1, RangeTail DEF Target
    <3>3. Range(w[c].todo) \subseteq Channels \ {c}
      BY <1>1 DEF Pending, Work, Serving
    <3> QED BY <3>2, <3>3
  <2>4. queue'[c] = queue[c]
    BY <1>1, <2>1, <2>3 DEF QueueAfterPost, Tell
  <2> QED BY <2>2, <2>4 DEF Ev
<1>9. ASSUME NEW m \in 1..Len(msgs), ~msgs[m].bot, NEW d \in Channels,
             Copied(m)', AwaitsKind(Range(queue'[d]), m, "created")
      PROVE  JustPosted(d, m)'
  <2>1. AwaitsKind(Range(queue[d]), m, "created")
    BY <1>9, NoneCreated
  <2>2. CASE m = o
    <3>1. d = c
      <4>1. queue[d] \in Seq(EventType)
        BY DEF Facts, Structure, Typed
      <4>2. PICK i \in 1..Len(queue[d]) : queue[d][i].msg = m
        BY <2>1, <4>1, LenProperties DEF AwaitsKind, Range
      <4> QED BY <1>4, <2>2, <4>2 DEF Facts, Structure, Known
    <3> QED BY <1>4, <1>5, <1>8, <2>2, <3>1 DEF JustPosted
  <2>3. CASE m # o
    <3>1. JustPosted(d, m)
      BY <1>7, <1>9, <2>1, <2>3 DEF Single
    <3>2. d # c
      BY <1>1, <3>1 DEF JustPosted
    <3>3. w'[d] = w[d]
      BY <1>1, <3>2 DEF Do, Facts, Structure, Typed
    <3> QED BY <3>1, <3>2, <3>3, JustPostedKept DEF Facts
  <2> QED BY <2>2, <2>3
<1>10. ASSUME NEW m \in 1..Len(msgs), ~msgs[m].bot,
              NEW i \in 1..Len(msgs'), NEW j \in 1..Len(msgs'),
              msgs'[i].copyOf = m, msgs'[j].copyOf = m
       PROVE  i = j
  <2>1. CASE m = o
    <3>1. \A k \in 1..Len(msgs) : msgs'[k].copyOf # o
      BY <1>2, <1>6 DEF Copied
    <3> QED BY <1>3, <1>10, <2>1, <3>1
  <2>2. CASE m # o
    <3>1. i \in 1..Len(msgs) /\ j \in 1..Len(msgs)
      BY <1>2, <1>3, <1>4, <1>10, <2>2
    <3> QED BY <1>2, <1>10, <3>1 DEF Single
  <2> QED BY <2>1, <2>2
<1>11. \A m \in 1..Len(msgs') : ~msgs'[m].bot => m \in 1..Len(msgs) /\ ~msgs[m].bot
  BY <1>2, <1>3
<1> QED BY <1>9, <1>10, <1>11 DEF Single

LEMMA SingleUser ==
    ASSUME Facts, Facts', Grown, NEW c \in Channels, NEW n \in 1..Len(msgs'), NEW ev \in EventType,
           News(c, n, ev), Single
    PROVE  Single'
<1>1. /\ Len(msgs) \in Nat /\ Len(msgs') \in Nat /\ Len(msgs') >= Len(msgs)
      /\ queue \in [Channels -> Seq(EventType)]
  BY LenProperties DEF Facts, Structure, Typed, Grown
<1>2. \A k \in 1..Len(msgs) : /\ msgs'[k].copyOf = msgs[k].copyOf
                              /\ msgs'[k].bot = msgs[k].bot
  BY DEF Grown
<1>3. (\A k \in 1..Len(msgs') : k \in 1..Len(msgs) \/ k = n) /\ msgs'[n].copyOf = 0
  BY DEF News, Facts, Guarded, Authors
<1>4. \A m \in 1..Len(msgs') : Copied(m)' => Copied(m) /\ m \in 1..Len(msgs)
  <2> SUFFICES ASSUME NEW m \in 1..Len(msgs'), NEW i \in 1..Len(msgs'), msgs'[i].copyOf = m
               PROVE  Copied(m) /\ m \in 1..Len(msgs)
    BY DEF Copied
  <2>1. i \in 1..Len(msgs)
    BY <1>3
  <2>2. msgs'[i].copyOf \in 0..(i - 1)
    BY DEF Facts, Structure, Threads
  <2>3. Copied(m)
    BY <1>2, <2>1 DEF Copied
  <2>4. m \in 1..Len(msgs)
    BY <1>1, <2>1, <2>2
  <2> QED BY <2>3, <2>4
<1>5. ASSUME NEW m \in 1..Len(msgs), ~msgs[m].bot, NEW d \in Channels,
             Copied(m)', AwaitsKind(Range(queue'[d]), m, "created")
      PROVE  JustPosted(d, m)'
  <2>1. \/ queue'[d] = queue[d]
        \/ queue'[d] = Append(queue[d], ev) /\ Range(queue'[d]) = Range(queue[d]) \cup {ev}
    <3>1. CASE d = c
      <4>1. queue[c] \in Seq(EventType) /\ queue'[c] = Append(queue[c], ev)
        BY <1>1 DEF News, Tell
      <4> QED BY <3>1, <4>1, RangeAppend
    <3>2. CASE d # c
      BY <1>1, <3>2 DEF News, Tell
    <3> QED BY <3>1, <3>2
  <2>2. AwaitsKind(Range(queue[d]), m, "created")
    BY <1>5, <2>1 DEF AwaitsKind, News
  <2>3. JustPosted(d, m)
    BY <1>4, <1>5, <2>2, <1>1 DEF Single
  <2>4. Ev(d)' = Ev(d)
    <3>1. PICK q \in Seq(EventType) : q = queue[d]
      BY <1>1
    <3>2. q # <<>>
      BY <2>3, <3>1, Busy DEF JustPosted, Facts
    <3>3. Head(Append(q, ev)) = Head(q)
      BY <3>2, AppendProperties, HeadTailProperties, EmptySeq, LenProperties
    <3> QED BY <2>1, <3>1, <3>3 DEF Ev
  <2> QED BY <2>3, <2>4 DEF JustPosted, News
<1>6. ASSUME NEW m \in 1..Len(msgs'), ~msgs'[m].bot,
             NEW i \in 1..Len(msgs'), NEW j \in 1..Len(msgs'),
             msgs'[i].copyOf = m, msgs'[j].copyOf = m
      PROVE  i = j
  <2>1. Copied(m)'
    BY <1>6 DEF Copied
  <2>2. m \in 1..Len(msgs) /\ ~msgs[m].bot /\ i \in 1..Len(msgs) /\ j \in 1..Len(msgs)
    BY <1>1, <1>2, <1>3, <1>4, <1>6, <2>1
  <2> QED BY <1>2, <1>6, <2>2 DEF Single
<1>7. \A m \in 1..Len(msgs) : ~msgs'[m].bot => ~msgs[m].bot
  BY <1>2
<1> QED BY <1>4, <1>5, <1>6, <1>7 DEF Single

LEMMA SingleSame ==
    ASSUME UNCHANGED <<msgs, queue, w>>, Single
    PROVE  Single'
BY DEF Single, Copied, JustPosted, Ev

LEMMA SinglesStep ==
    ASSUME SelfKnown \/ ~RelayBots, Len(Endpoints) <= 2
    PROVE  Revived /\ Turns /\ Singles /\ [RevivalNext]_allVars => Singles'
<1> SUFFICES ASSUME Revived, Turns, Singles, [RevivalNext]_allVars PROVE Singles'
  OBVIOUS
<1>1. /\ Facts /\ Shelved /\ Facts' /\ faults \in Nat /\ Short
      /\ requeues = 0 /\ faults = 0 => Single
  BY RevivedStep DEF Revived, Singles
<1>2. ASSUME Book, NEW c \in Channels, WorkerStep(c) \/ StepError(c) \/ SendReplyLost(c)
      PROVE  Singles'
  <2>1. Short'
    BY <1>1, <1>2, ShortStep DEF Facts
  <2>2. CASE StepError(c) \/ SendReplyLost(c)
    <3>1. faults' = faults + 1
      BY <2>2 DEF StepError, SendReplyLost, Fault
    <3> QED BY <1>1, <2>1, <3>1 DEF Singles
  <2>3. CASE WorkerStep(c)
    <3>1. UNCHANGED requeues /\ (faults' = faults \/ faults' = faults + 1)
      BY <1>2, <2>3, FaultsCounted DEF Book
    <3>2. PICK a, x, b, y : /\ a = EarlyEvents /\ x = Exempt
                            /\ b = EarlyEvents' /\ y = Exempt'
      OBVIOUS
    <3>3. Effect(c) /\ Grown /\ Moves(c) /\ queue[c] # <<>> /\ Pending(a, x)
      BY <1>1, <1>2, <3>2, WorkerBooks DEF Turns, Facts
    <3>4. UNCHANGED faults /\ Single => Single'
      BY <1>1, <2>3, <3>3, SingleNoPost, SingleSend
    <3> QED BY <1>1, <2>1, <3>1, <3>4 DEF Singles
  <2> QED BY <1>2, <2>2, <2>3
<1>3. CASE UserStep /\ Book
  <2>1. UNCHANGED <<faults, requeues, w>>
    BY <1>3 DEF Book, UserStep, UserPost, UserEdit, UserDelete
  <2>2. Grown /\ ANews
    BY <1>1, <1>3, UserTells
  <2>3. Single => Single'
    BY <1>1, <2>2, SingleUser DEF ANews
  <2> QED BY <1>1, <2>1, <2>3 DEF Singles, Short
<1>4. CASE Crash
  <2>1. faults' = faults + 1 /\ \A c \in Channels : w'[c] = Idle
    BY <1>4 DEF Crash, Die, Fault
  <2> QED BY <1>1, <2>1 DEF Singles, Short, Idle
<1>5. ASSUME NEW c \in Channels, Reorder(c) PROVE Singles'
  <2>1. UNCHANGED <<faults, requeues, w>> /\ requeues # 0
    BY <1>5 DEF Reorder, Turns
  <2> QED BY <1>1, <2>1 DEF Singles, Short
<1>6. CASE Revive
  <2>1. UNCHANGED <<faults, w>> /\ requeues' # 0
    <3>1. requeues \in {0, 1} /\ requeues' = requeues + 1 /\ UNCHANGED <<faults, w>>
      BY <1>6 DEF Revive, Turns
    <3> QED BY <3>1
  <2> QED BY <1>1, <2>1 DEF Singles, Short
<1>7. CASE UNCHANGED <<msgs, queue, w, faults, requeues>>
  BY <1>1, <1>7, SingleSame DEF Singles, Short
<1>8. ASSUME NEW c \in Channels, Resume(c) PROVE Singles'
  BY <1>7, <1>8 DEF Resume
<1>9. CASE UNCHANGED allVars
  BY <1>7, <1>9 DEF allVars, vars, revivalVars
<1> QED BY <1>2, <1>3, <1>4, <1>5, <1>6, <1>8, <1>9, RevivalCases DEF RelayCases

LEMMA SinglesInit == RevivalInit => Singles
<1> SUFFICES ASSUME RevivalInit PROVE Singles
  OBVIOUS
<1>1. faults = 0 /\ \A c \in Channels : w[c] = Idle /\ queue[c] = <<>>
  BY DEF RevivalInit, Init
<1>2. Short
  BY <1>1 DEF Short, Idle
<1>3. \A m \in 1..Len(msgs) : m = 1 /\ msgs[m].copyOf = 0
  <2>1. CASE OldPost
    <3>1. msgs = <<Message(Endpoints[1], FALSE, 0, 0, 0)>>
      BY <2>1 DEF RevivalInit, Init
    <3> QED BY <3>1 DEF Message
  <2>2. CASE ~OldPost
    <3>1. msgs = <<>>
      BY <2>2 DEF RevivalInit, Init
    <3> QED BY <3>1
  <2> QED BY <2>1, <2>2
<1>4. Single
  BY <1>3 DEF Single, Copied
<1> QED BY <1>1, <1>2, <1>4 DEF Singles

LEMMA SinglesDeliver == Structure /\ Turns /\ Singles => ExactlyOneCopy
<1> SUFFICES ASSUME Structure, Turns, Singles, requeues = 0, Quiet, faults = 0,
                    NEW m \in Relayed, NEW t \in Channels \ {msgs[m].chan}
             PROVE  \E k \in Copies(m, t) : Copies(m, t) = {k} /\ Alike(m, k)
  BY DEF ExactlyOneCopy, Converged
<1>1. PICK a, x : a = EarlyEvents /\ x = Exempt
  OBVIOUS
<1>2. m \in Promised(x) /\ ~Awaits(a, m) /\ Pending(a, x)
  BY <1>1 DEF Turns, Relayed, Promised, Structure, Typed, Exempt, Awaits
<1>3. PICK k \in Copies(m, t) : Alike(m, k)
  BY <1>2, PendingDelivers
<1>4. \A j \in Copies(m, t) : j = k
  <2>1. Single /\ m \in 1..Len(msgs) /\ ~msgs[m].bot
    BY <1>2 DEF Singles, Promised
  <2>2. DOMAIN msgs = 1..Len(msgs)
    BY LenProperties DEF Structure, Typed
  <2> QED BY <1>3, <2>1, <2>2 DEF Copies, Single
<1> QED BY <1>3, <1>4

\* In a bridge of two channels a post ends up with exactly one copy, as it is
\* now, if nothing has failed and nobody has requeued anything: its handler posts
\* once (relay.py).  With a third channel a reply that waits for its parent in
\* one target is posted again in the others.
THEOREM RevivalCopiesOnce ==
    ASSUME SelfKnown \/ ~RelayBots, Len(Endpoints) <= 2
    PROVE  RevivalSpec => []ExactlyOneCopy
<1>1. RevivalInit => Revived /\ Turns /\ Singles
  BY RevivedInit, TurnsInit, SinglesInit
<1>2. Revived /\ Turns /\ Singles /\ [RevivalNext]_allVars => (Revived /\ Turns /\ Singles)'
  BY RevivedStep, TurnsStep, SinglesStep
<1>3. Revived /\ Turns /\ Singles => ExactlyOneCopy
  BY SinglesDeliver DEF Revived, Facts
<1> QED BY <1>1, <1>2, <1>3, PTL DEF RevivalSpec

===============================================================================
