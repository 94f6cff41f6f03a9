------------------------------- MODULE Relay -------------------------------
(***************************************************************************)
(* What handling an event does: chbridge/relay.py (Relay.handle and its    *)
(* three branches), the message links it keeps (store/links.py), the loop  *)
(* guard (loopguard.py) and Router.targets, for one bridge.                *)
(*                                                                         *)
(* Every channel has one worker, which handles the events of its queue in  *)
(* order, retries a failed one and gives up on it in the end: the promise  *)
(* of DurableQueue, taken here for granted.  A step of a worker is one     *)
(* database statement or one call of a platform, so that the workers of    *)
(* several channels interleave as their awaits do.  The platforms send the *)
(* bridge an event for whatever happens in a channel, its own posts too.   *)
(*                                                                         *)
(* Attachments are left out; see the README.                               *)
(***************************************************************************)
EXTENDS Naturals, Sequences, FiniteSets, SequencesExt

CONSTANTS
    Endpoints,    \* the endpoints (channels) of the bridge, in its order
    SelfKnown,    \* does every adapter know its own id (guard 1)
    RelayBots,    \* option relay_bot_messages
    MaxAttempts,  \* settings.max_attempts
    OldPost,      \* is there a post that is older than the bridge
    MaxPosts,     \* bound: posts by users
    MaxRoots,     \* bound: users' messages at top level, the old post included
    MaxEdits,     \* bound: edits by users
    MaxDeletes,   \* bound: deletions by users
    MaxFaults     \* bound: crashes, failed statements and calls

ASSUME EndpointsAssumption ==
    /\ Endpoints \in Seq(Range(Endpoints))
    /\ Endpoints # <<>>
    /\ IsInjective(Endpoints)
ASSUME SwitchesAssumption == {SelfKnown, RelayBots, OldPost} \subseteq BOOLEAN
ASSUME BoundsAssumption ==
    /\ {MaxPosts, MaxRoots, MaxEdits, MaxDeletes, MaxFaults} \subseteq Nat
    /\ MaxAttempts \in Nat \ {0}

VARIABLES
    msgs,    \* all messages of the channels, in the order of posting
    links,   \* rows of message_links: [msg, group, origin]
    groups,  \* group ids drawn so far (uuid4)
    queue,   \* events of a channel that are not settled
    tries,   \* attempts at the first of them that have failed or were cut off
    dead,    \* events in the DLQ
    w,       \* what a channel's worker is doing
    posts, edits, deletes, faults   \* used up so far

vars == <<msgs, links, groups, queue, tries, dead, w, posts, edits, deletes,
          faults>>
users == <<posts, edits, deletes>>

Channels == Range(Endpoints)

Idle == [at |-> "idle", todo |-> <<>>, group |-> 0, parent |-> 0, id |-> 0]

\* parent is the root of the thread in the same channel, 0 at top level;
\* copyOf is a ghost: the message this one was made from, 0 for a user's.
Message(c, bot, parent, text, copyOf) ==
    [chan |-> c, bot |-> bot, parent |-> parent, text |-> text,
     copyOf |-> copyOf, gone |-> FALSE]

Init ==
    /\ msgs = IF OldPost THEN <<Message(Endpoints[1], FALSE, 0, 0, 0)>> ELSE <<>>
    /\ links = {}
    /\ groups = 0
    /\ queue = [c \in Channels |-> <<>>]
    /\ tries = [c \in Channels |-> 0]
    /\ dead = {}
    /\ w = [c \in Channels |-> Idle]
    /\ posts = 0 /\ edits = 0 /\ deletes = 0 /\ faults = 0

-----------------------------------------------------------------------------
(* Users and platforms.                                                    *)

\* A platform tells the bridge what happened to message m of channel c.
Event(kind, m, text) == [kind |-> kind, msg |-> m, text |-> text]
Tell(q, c, ev) == [q EXCEPT ![c] = Append(@, ev)]

UserRoots == {m \in DOMAIN msgs : ~msgs[m].bot /\ msgs[m].parent = 0}

\* Users post at top level or in a thread of the channel, below a user's
\* message or below a copy.
UserPost(c, parent) ==
    /\ posts < MaxPosts
    /\ parent = 0 => Cardinality(UserRoots) < MaxRoots
    /\ posts' = posts + 1
    /\ msgs' = Append(msgs, Message(c, FALSE, parent, 0, 0))
    /\ queue' = Tell(queue, c, Event("created", Len(msgs'), 0))
    /\ UNCHANGED <<links, groups, tries, dead, w, edits, deletes, faults>>

ThreadRoots(c) ==
    {m \in DOMAIN msgs : msgs[m].chan = c /\ msgs[m].parent = 0 /\ ~msgs[m].gone}

OwnPosts == {m \in DOMAIN msgs : ~msgs[m].bot /\ ~msgs[m].gone}

UserEdit(m) ==
    /\ edits < MaxEdits
    /\ edits' = edits + 1
    /\ msgs' = [msgs EXCEPT ![m].text = @ + 1]
    /\ queue' = Tell(queue, msgs[m].chan, Event("edited", m, msgs'[m].text))
    /\ UNCHANGED <<links, groups, tries, dead, w, posts, deletes, faults>>

UserDelete(m) ==
    /\ deletes < MaxDeletes
    /\ deletes' = deletes + 1
    /\ msgs' = [msgs EXCEPT ![m].gone = TRUE]
    /\ queue' = Tell(queue, msgs[m].chan, Event("deleted", m, 0))
    /\ UNCHANGED <<links, groups, tries, dead, w, posts, edits, faults>>

-----------------------------------------------------------------------------
(* Links.                                                                  *)

LinksOf(m) == {l \in links : l.msg = m}
GroupOf(m) == (CHOOSE l \in LinksOf(m) : TRUE).group
IsReplica(m) == \E l \in LinksOf(m) : ~l.origin

\* Mutant of InChannel: the channel is forgotten.
InChannel_Any(group, c) == {l.msg : l \in {l \in links : l.group = group}}

\* replica_in(): LIMIT 1 without an order, so any of these.
InChannel(group, c) == {l.msg : l \in {l \in links :
                                        l.group = group /\ msgs[l.msg].chan = c}}

Place(c) == CHOOSE i \in DOMAIN Endpoints : Endpoints[i] = c

\* Mutant of Targets: the first one only.
Targets_First(c) == SubSeq(RemoveAt(Endpoints, Place(c)), 1, 1)

\* Router.targets(): the other endpoints of the bridge, in order.
Targets(c) == RemoveAt(Endpoints, Place(c))

-----------------------------------------------------------------------------
(* The worker of channel c.                                                *)

Ev(c) == Head(queue[c])
Target(c) == Head(w[c].todo)
Do(c, state) == w' = [w EXCEPT ![c] = state]
Fault == faults < MaxFaults /\ faults' = faults + 1

\* The event is settled; q is the queue with what the step has appended.
Finish(c, q) ==
    /\ queue' = [q EXCEPT ![c] = Tail(@)]
    /\ tries' = [tries EXCEPT ![c] = 0]
    /\ Do(c, Idle)

\* Mutant of Fail: without a limit.
Fail_Forever(c, retryable, q) ==
    IF retryable THEN queue' = q /\ Do(c, Idle) /\ UNCHANGED <<tries, dead>>
    ELSE Finish(c, q) /\ dead' = dead \cup {Ev(c)}

\* The handler raises: another attempt, or the DLQ.
Fail(c, retryable, q) ==
    IF retryable /\ tries[c] + 1 < MaxAttempts
      THEN /\ tries' = [tries EXCEPT ![c] = @ + 1]
           /\ queue' = q
           /\ Do(c, Idle)
           /\ UNCHANGED dead
      ELSE Finish(c, q) /\ dead' = dead \cup {Ev(c)}

\* The process dies with the events of these channels in hand, which claim() has
\* counted as attempts; after the restart every queue starts at its head.
InHand == {c \in Channels : w[c] # Idle}
Die(cut, q) ==
    /\ queue' = q
    /\ w' = [c \in Channels |-> Idle]
    /\ tries' = [c \in Channels |-> IF c \in cut THEN tries[c] + 1 ELSE tries[c]]
    /\ UNCHANGED dead

\* The handler returns and mark_done() follows; if it fails or the process dies
\* before it, a handled event is handled again.
Return(c, q) ==
    \/ Finish(c, q) /\ UNCHANGED <<dead, faults>>
    \/ Fault /\ Fail(c, TRUE, q)
    \/ Fault /\ Die(InHand \cup {c}, q)

\* Mutant of Begin: without guard 1.
Begin_Unguarded(c) ==
    /\ w[c] = Idle
    /\ queue[c] # <<>>
    /\ Do(c, [Idle EXCEPT !.at = "guard"])
    /\ UNCHANGED <<msgs, links, groups, queue, tries, dead, users, faults>>

\* handle() and LoopGuard.evaluate up to its first await: guard 1.
Begin(c) ==
    /\ w[c] = Idle
    /\ queue[c] # <<>>
    /\ IF SelfKnown /\ msgs[Ev(c).msg].bot
         THEN Return(c, queue)
         ELSE /\ Do(c, [Idle EXCEPT !.at = "guard"])
              /\ UNCHANGED <<queue, tries, dead, faults>>
    /\ UNCHANGED <<msgs, links, groups, users>>

\* Guard 2, is_replica(), and the policy for bots.
Guard(c) ==
    /\ w[c].at = "guard"
    /\ IF IsReplica(Ev(c).msg) \/ (msgs[Ev(c).msg].bot /\ ~RelayBots)
            \/ Targets(c) = <<>>
         THEN Return(c, queue)
         ELSE /\ Do(c, [w[c] EXCEPT
                        !.at = IF Ev(c).kind = "created" THEN "record" ELSE "find",
                        !.todo = Targets(c)])
              /\ UNCHANGED <<queue, tries, dead, faults>>
    /\ UNCHANGED <<msgs, links, groups, users>>

\* The loop over the targets goes on, or the handler returns; a deletion
\* has its group removed first.
NextTarget(c, q, first) ==
    IF Len(w[c].todo) > 1
      THEN /\ Do(c, [w[c] EXCEPT !.at = first, !.todo = Tail(@)])
           /\ queue' = q /\ UNCHANGED <<tries, dead, faults>>
      ELSE IF Ev(c).kind = "deleted"
      THEN /\ Do(c, [w[c] EXCEPT !.at = "cleanup"])
           /\ queue' = q /\ UNCHANGED <<tries, dead, faults>>
      ELSE Return(c, q)

\* record_origin(): a new group, or the one of an earlier attempt.
RecordOrigin(c) ==
    LET m == Ev(c).msg IN
    /\ w[c].at = "record"
    /\ IF LinksOf(m) = {}
         THEN /\ groups' = groups + 1
              /\ links' = links \cup {[msg |-> m, group |-> groups', origin |-> TRUE]}
              /\ Do(c, [w[c] EXCEPT !.at = "parent", !.group = groups'])
         ELSE /\ Do(c, [w[c] EXCEPT !.at = "parent", !.group = GroupOf(m)])
              /\ UNCHANGED <<groups, links>>
    /\ UNCHANGED <<msgs, queue, tries, dead, users, faults>>

\* _resolve_parent(), first query: the group of the parent.
FindParent(c) ==
    LET p == msgs[Ev(c).msg].parent IN
    /\ w[c].at = "parent"
    /\ IF p = 0 THEN /\ Do(c, [w[c] EXCEPT !.at = "send", !.parent = 0])
                     /\ UNCHANGED <<queue, tries, dead>>
       ELSE IF LinksOf(p) = {} THEN Fail(c, TRUE, queue)
       ELSE /\ Do(c, [w[c] EXCEPT !.at = "mapped", !.parent = GroupOf(p)])
            /\ UNCHANGED <<queue, tries, dead>>
    /\ UNCHANGED <<msgs, links, groups, users, faults>>

\* Mutant of MapParent: top level if the parent has no counterpart yet.
MapParent_Flat(c) ==
    LET found == InChannel(w[c].parent, Target(c)) IN
    /\ w[c].at = "mapped"
    /\ \E p \in IF found = {} THEN {0} ELSE found :
         Do(c, [w[c] EXCEPT !.at = "send", !.parent = p])
    /\ UNCHANGED <<msgs, links, groups, queue, tries, dead, users, faults>>

\* _resolve_parent(), second query: the parent's counterpart in the target.
MapParent(c) ==
    LET found == InChannel(w[c].parent, Target(c)) IN
    /\ w[c].at = "mapped"
    /\ IF found = {} THEN Fail(c, TRUE, queue)
       ELSE /\ \E p \in found : Do(c, [w[c] EXCEPT !.at = "send", !.parent = p])
            /\ UNCHANGED <<queue, tries, dead>>
    /\ UNCHANGED <<msgs, links, groups, users, faults>>

\* The platform posts the copy and tells the bridge about it.
Posted(c) ==
    /\ w[c].at = "send"
    /\ msgs' = Append(msgs, Message(Target(c), TRUE, w[c].parent, Ev(c).text,
                                    Ev(c).msg))

QueueAfterPost(c) == Tell(queue, Target(c), Event("created", Len(msgs) + 1, Ev(c).text))

Send(c) ==
    /\ Posted(c)
    /\ queue' = QueueAfterPost(c)
    /\ Do(c, [w[c] EXCEPT !.at = "link", !.id = Len(msgs')])
    /\ UNCHANGED <<links, groups, tries, dead, users, faults>>

\* A platform refuses to post below a parent that was deleted.
SendRefused(c) ==
    /\ w[c].at = "send"
    /\ w[c].parent # 0 /\ msgs[w[c].parent].gone
    /\ Fail(c, FALSE, queue)
    /\ UNCHANGED <<msgs, links, groups, users, faults>>

RecordReplica(c) ==
    /\ w[c].at = "link"
    /\ links' = IF LinksOf(w[c].id) # {} THEN links
                ELSE links \cup {[msg |-> w[c].id, group |-> w[c].group,
                                  origin |-> FALSE]}
    /\ NextTarget(c, queue, "parent")
    /\ UNCHANGED <<msgs, groups, users>>

\* _on_edited and _on_deleted: the group of the event's message.
FindGroup(c) ==
    /\ w[c].at = "find"
    /\ IF LinksOf(Ev(c).msg) = {} THEN Return(c, queue)
       ELSE /\ Do(c, [w[c] EXCEPT !.at = "lookup", !.group = GroupOf(Ev(c).msg)])
            /\ UNCHANGED <<queue, tries, dead, faults>>
    /\ UNCHANGED <<msgs, links, groups, users>>

\* replica_in(): a target without a counterpart is skipped.
Lookup(c) ==
    LET found == InChannel(w[c].group, Target(c)) IN
    /\ w[c].at = "lookup"
    /\ IF found = {} THEN NextTarget(c, queue, "lookup")
       ELSE /\ \E m \in found : Do(c, [w[c] EXCEPT !.at = "apply", !.id = m])
            /\ UNCHANGED <<queue, tries, dead, faults>>
    /\ UNCHANGED <<msgs, links, groups, users>>

\* adapter.edit(): a message that is gone cannot be edited (404).
ApplyEdit(c) ==
    LET m == w[c].id IN
    /\ w[c].at = "apply" /\ Ev(c).kind = "edited"
    /\ IF msgs[m].gone THEN Fail(c, FALSE, queue) /\ UNCHANGED <<msgs, faults>>
       ELSE /\ msgs' = [msgs EXCEPT ![m].text = Ev(c).text]
            /\ NextTarget(c, Tell(queue, Target(c), Event("edited", m, Ev(c).text)),
                          "lookup")
    /\ UNCHANGED <<links, groups, users>>

\* adapter.delete(): a message that is gone already counts as deleted.
ApplyDelete(c) ==
    LET m == w[c].id IN
    /\ w[c].at = "apply" /\ Ev(c).kind = "deleted"
    /\ msgs' = [msgs EXCEPT ![m].gone = TRUE]
    /\ NextTarget(c, IF msgs[m].gone THEN queue
                     ELSE Tell(queue, Target(c), Event("deleted", m, 0)),
                  "lookup")
    /\ UNCHANGED <<links, groups, users>>

\* Mutant of Cleanup: the row of the deleted message only.
Cleanup_Origin(c) ==
    /\ w[c].at = "cleanup"
    /\ links' = links \ LinksOf(Ev(c).msg)
    /\ Return(c, queue)
    /\ UNCHANGED <<msgs, groups, users>>

\* delete_group().
Cleanup(c) ==
    /\ w[c].at = "cleanup"
    /\ links' = {l \in links : l.group # w[c].group}
    /\ Return(c, queue)
    /\ UNCHANGED <<msgs, groups, users>>

-----------------------------------------------------------------------------
(* Failures.                                                               *)

\* A platform's errors are retryable or not; a statement's always are.
Verdicts(c) == IF w[c].at \in {"send", "apply"} THEN BOOLEAN ELSE {TRUE}

\* A statement or a call fails without effect.
StepError(c) ==
    /\ w[c] # Idle
    /\ Fault
    /\ \E retryable \in Verdicts(c) : Fail(c, retryable, queue)
    /\ UNCHANGED <<msgs, links, groups, users>>

\* The copy is posted, but the reply of the platform is lost.
SendReplyLost(c) ==
    /\ Posted(c)
    /\ Fault
    /\ \E retryable \in BOOLEAN : Fail(c, retryable, QueueAfterPost(c))
    /\ UNCHANGED <<links, groups, users>>

\* The process dies while handlers run.
Crash ==
    /\ \E c \in Channels : w[c] # Idle
    /\ Fault
    /\ Die(InHand, queue)
    /\ UNCHANGED <<msgs, links, groups, users>>

-----------------------------------------------------------------------------
WorkerStep(c) ==
    \/ Begin(c) \/ Guard(c)
    \/ RecordOrigin(c) \/ FindParent(c) \/ MapParent(c)
    \/ Send(c) \/ SendRefused(c) \/ RecordReplica(c)
    \/ FindGroup(c) \/ Lookup(c) \/ ApplyEdit(c) \/ ApplyDelete(c) \/ Cleanup(c)

Next ==
    \/ \E c \in Channels :
         \/ WorkerStep(c) \/ StepError(c) \/ SendReplyLost(c)
         \/ \E parent \in ThreadRoots(c) \cup {0} : UserPost(c, parent)
    \/ \E m \in OwnPosts : UserEdit(m) \/ UserDelete(m)
    \/ Crash

Spec == Init /\ [][Next]_vars

-----------------------------------------------------------------------------
(* Properties.                                                             *)

\* Types; a message hangs below one of its own channel, a message has at most
\* one link (UNIQUE in 001_init.sql), and a busy worker has an event.
TypeOK ==
    /\ \A m \in DOMAIN msgs :
         /\ msgs[m].chan \in Channels
         /\ msgs[m].parent \in 0..(m - 1)
         /\ msgs[m].parent # 0 => msgs[msgs[m].parent].chan = msgs[m].chan
         /\ msgs[m].copyOf \in 0..(m - 1)
    /\ \A l \in links : l.msg \in DOMAIN msgs /\ l.group \in 1..groups
    /\ \A l, k \in links : l.msg = k.msg => l = k
    /\ \A c \in Channels : \A ev \in Range(queue[c]) \cup dead :
         ev.kind \in {"created", "edited", "deleted"} /\ ev.msg \in DOMAIN msgs
    /\ \A c \in Channels :
         tries[c] \in Nat /\ (w[c] # Idle => queue[c] # <<>>)

\* A copy is never copied (loopguard.py): every message the bridge posts was
\* made from a user's.
NoLoop == \A m \in DOMAIN msgs :
            msgs[m].copyOf # 0 => ~msgs[msgs[m].copyOf].bot

\* The rows of a group are an original and copies of it, through retries,
\* crashes and deletions that run while other channels post.
LinksSound ==
    \A l \in links :
        \E o \in links :
            /\ o.origin /\ o.group = l.group
            /\ l.msg = o.msg \/ (~l.origin /\ msgs[l.msg].copyOf = o.msg)

\* The user's message a message stands for.
Root(m) == IF msgs[m].copyOf = 0 THEN m ELSE msgs[m].copyOf

\* The copy of a reply hangs below the counterpart of the reply's parent, in
\* whichever channel either of them was written (relay.py:279).
ThreadsMatch ==
    \A m \in DOMAIN msgs :
        LET o == msgs[m].copyOf IN
        o # 0 => IF msgs[o].parent = 0 THEN msgs[m].parent = 0
                 ELSE /\ msgs[m].parent # 0
                      /\ Root(msgs[m].parent) = Root(msgs[o].parent)

Quiet == \A c \in Channels : queue[c] = <<>>
Copies(m, t) == {k \in DOMAIN msgs : msgs[k].copyOf = m /\ msgs[k].chan = t}
Alike(m, k) == msgs[k].gone = msgs[m].gone
               /\ (msgs[m].gone \/ msgs[k].text = msgs[m].text)

\* Users' posts the bridge has seen and given up nothing of.
Relayed ==
    {m \in DOMAIN msgs : ~msgs[m].bot /\ ~(OldPost /\ m = 1)
                         /\ \A ev \in dead : ev.msg # m}

\* When nothing is left to do and nothing has failed, every post has exactly
\* one copy in every other channel, and it follows the edits and the deletion
\* of the post.
Converged ==
    Quiet /\ faults = 0 =>
        \A m \in Relayed : \A t \in Channels \ {msgs[m].chan} :
            \E k \in Copies(m, t) : Copies(m, t) = {k} /\ Alike(m, k)

\* With failures, or with several targets, there may be more copies, but one
\* of them is up to date.
Delivered ==
    Quiet => \A m \in Relayed : \A t \in Channels \ {msgs[m].chan} :
               \E k \in Copies(m, t) : Alike(m, k)
=============================================================================
