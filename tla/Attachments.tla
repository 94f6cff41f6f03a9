------------------------------ MODULE Attachments ------------------------------
(***************************************************************************)
(* How the attachments of one message travel with it: _send_with_files and *)
(* _transfer_files of chbridge/relay.py, upload_file and open_file of both *)
(* adapters, and the notice of transform/files.py for what was left out.   *)
(*                                                                         *)
(* A target declares the order its platform forces on it (FileMode).  A    *)
(* PreUpload target (Mattermost) gets the files first and the post carries *)
(* their ids; the others (Slack) get the post first, and every file is     *)
(* hung on it in three calls.  What is known beforehand to fail goes into  *)
(* the text as a notice; what fails after the post is added by an edit.    *)
(*                                                                         *)
(* A step is one call, as in Relay, whose targets, links and retries this  *)
(* module takes for the one event.  Thread parents are left to Relay.      *)
(***************************************************************************)
EXTENDS Naturals, Sequences, SequencesExt

CONSTANTS
    Files,       \* event.files: [size, bytes], size 0 if the source told none
    Targets,     \* the targets of the fan-out, in order
    PreUpload,   \* those with FileMode.PRE_UPLOAD
    Cap,         \* the largest file a target accepts
    MaxAttempts, \* settings.max_attempts
    MaxFaults,   \* bound: faults
    MaxEdits     \* bound: edits of copies, after edits of the message

\* Faults that cost one file, and those that end the attempt.
FileFaults == {"transfer", "share_reply", "notice"}
HardFaults == {"escape", "send", "send_reply", "record", "mark_done", "crash"}

ASSUME FilesAssumption == Files \in Seq([size : Nat, bytes : Nat])
ASSUME TargetsAssumption ==
    Targets \in Seq(Range(Targets)) /\ Targets # <<>> /\ IsInjective(Targets)
ASSUME BoundsAssumption ==
    /\ {Cap, MaxFaults, MaxEdits} \subseteq Nat
    /\ MaxAttempts \in Nat \ {0}

Chans == Range(Targets)
Index == DOMAIN Files

VARIABLES
    relayFiles,  \* option relay_files of the bridge
    limit,       \* max_file_size() of a target, 0 if open() could not learn it
    posts,       \* target -> its copies: [files, notice, edited]
    linked,      \* target -> the copies record_replica() has recorded
    status,      \* of the event's row: "pending", "done" or "dead"
    tries,       \* attempts at the event that have failed or were cut off
    h,           \* the local variables of the handler
    edits,       \* edits so far
    faults       \* faults so far, by kind

vars == <<relayFiles, limit, posts, linked, status, tries, h, edits, faults>>
config == <<relayFiles, limit>>

\* t counts targets, next counts files; ids are the uploaded files, known and
\* failed the entries of the notice from before and after the post.
Idle == [at |-> "idle", t |-> 1, next |-> 1, ids |-> <<>>, known |-> <<>>,
         failed |-> <<>>, id |-> 0]

Init ==
    /\ relayFiles \in BOOLEAN
    /\ limit \in {l \in [Chans -> {0, Cap}] : \A t \in Chans \ PreUpload : l[t] = Cap}
    /\ posts = [t \in Chans |-> <<>>]
    /\ linked = [t \in Chans |-> {}]
    /\ status = "pending"
    /\ tries = 0
    /\ h = Idle
    /\ edits = 0
    /\ faults = [k \in FileFaults \cup HardFaults |-> 0]

-----------------------------------------------------------------------------
(* What can be told of a file before it is sent.                           *)

Entry(f, why) == [file |-> f, why |-> why]
Named(notice) == {notice[n].file : n \in DOMAIN notice}

\* _precheck(): both adapters support uploads, so "unsupported" never comes up.
Precheck(t, f) ==
    IF ~relayFiles THEN "relay_disabled"
    ELSE IF limit[t] # 0 /\ Files[f].size > limit[t] THEN "too_large"
    ELSE "none"

\* _precheck_all(): the entries of all files that fail it, in their order.
PrecheckAll(t) ==
    LET out[n \in 0..Len(Files)] ==
            IF n = 0 THEN <<>>
            ELSE IF Precheck(t, n) = "none" THEN out[n - 1]
            ELSE Append(out[n - 1], Entry(n, Precheck(t, n)))
    IN out[Len(Files)]

\* The platform refuses a file that is too large (413), and Slack's first
\* call needs to know the size.
Refused(t, f) ==
    Files[f].bytes > Cap \/ (t \notin PreUpload /\ Files[f].size = 0)

-----------------------------------------------------------------------------
(* The handler.                                                            *)

T == Targets[h.t]
Pre == T \in PreUpload
Goto(at) == h' = [h EXCEPT !.at = at]

Soft == faults["transfer"] + faults["share_reply"] + faults["notice"]
Hard == faults["escape"] + faults["send"] + faults["send_reply"] + faults["record"]
        + faults["mark_done"] + faults["crash"]
Fault(kind) ==
    /\ Soft + Hard < MaxFaults
    /\ faults' = [faults EXCEPT ![kind] = @ + 1]

\* The handler turns to its i-th target.
StartTarget(i) ==
    LET pre == Targets[i] \in PreUpload IN
    h' = [Idle EXCEPT !.t = i, !.at = IF pre THEN "files" ELSE "post",
                      !.known = IF pre THEN <<>> ELSE PrecheckAll(Targets[i])]

Begin ==
    /\ h.at = "idle" /\ status = "pending"
    /\ StartTarget(1)
    /\ UNCHANGED <<config, posts, linked, status, tries, edits, faults>>

\* The handler raises: another attempt, or the DLQ (worker.py, _fail).
Fail(retryable) ==
    /\ h' = Idle
    /\ IF retryable /\ tries + 1 < MaxAttempts
         THEN tries' = tries + 1 /\ UNCHANGED status
         ELSE status' = "dead" /\ UNCHANGED tries

\* A file the loop of _transfer_files passes over, announced before or not.
Passed(f) == f \in Named(h.known) \/ Precheck(T, f) # "none"

\* Mutant of PassOver: the list of announced files is not consulted.
PassOver_Again ==
    /\ h.at = "files" /\ h.next \in Index /\ Passed(h.next)
    /\ h' = [h EXCEPT !.next = @ + 1,
                      !.failed = Append(@, Entry(h.next, Precheck(T, h.next)))]
    /\ UNCHANGED <<config, posts, linked, status, tries, edits, faults>>

PassOver ==
    /\ h.at = "files" /\ h.next \in Index /\ Passed(h.next)
    /\ h' = [h EXCEPT !.next = @ + 1,
                      !.failed = IF h.next \in Named(h.known) THEN @
                                 ELSE Append(@, Entry(h.next, Precheck(T, h.next)))]
    /\ UNCHANGED <<config, posts, linked, status, tries, edits, faults>>

\* A file is opened at its source and the first call of its upload is made:
\* Mattermost needs that one only, Slack answers with a place to put it.
OpenFile ==
    /\ h.at = "files" /\ h.next \in Index /\ ~Passed(h.next)
    /\ Goto(IF Pre THEN "put" ELSE "url")
    /\ UNCHANGED <<config, posts, linked, status, tries, edits, faults>>

\* files.getUploadURLExternal: nothing shows at the target yet.
GetUploadURL ==
    /\ h.at = "url" /\ Files[h.next].size # 0
    /\ Goto("put")
    /\ UNCHANGED <<config, posts, linked, status, tries, edits, faults>>

\* The bytes run from the source to the target.  Mattermost answers with the
\* id of the file, Slack's file still has to be shared.
PutBytes ==
    /\ h.at = "put" /\ ~Refused(T, h.next)
    /\ IF Pre THEN h' = [h EXCEPT !.at = "files", !.next = @ + 1,
                                  !.ids = Append(@, h.next)]
       ELSE Goto("share")
    /\ UNCHANGED <<config, posts, linked, status, tries, edits, faults>>

\* files.completeUploadExternal hangs the file on the copy.
ShareFile ==
    /\ h.at = "share"
    /\ posts' = [posts EXCEPT ![T][h.id].files = Append(@, h.next)]
    /\ h' = [h EXCEPT !.at = "files", !.next = @ + 1]
    /\ UNCHANGED <<config, linked, status, tries, edits, faults>>

\* An AdapterError ends the transfer of this file, not the handler.
GiveUpFile ==
    h' = [h EXCEPT !.at = "files", !.next = @ + 1,
                   !.failed = Append(@, Entry(h.next, "failed"))]

FileRefused ==
    /\ \/ h.at = "url" /\ Files[h.next].size = 0
       \/ h.at = "put" /\ Refused(T, h.next)
    /\ GiveUpFile
    /\ UNCHANGED <<config, posts, linked, status, tries, edits, faults>>

\* Mutant of FileError: the error is not caught in the loop.
FileError_Uncaught ==
    /\ h.at \in {"url", "put", "share"}
    /\ Fault("transfer")
    /\ Fail(TRUE)
    /\ UNCHANGED <<config, posts, linked, edits>>

\* The download or a call of the upload fails without effect.
FileError ==
    /\ h.at \in {"url", "put", "share"}
    /\ Fault("transfer")
    /\ GiveUpFile
    /\ UNCHANGED <<config, posts, linked, status, tries, edits>>

\* The file is shared, but the answer to the third call is lost.
ShareReplyLost ==
    /\ h.at = "share"
    /\ Fault("share_reply")
    /\ posts' = [posts EXCEPT ![T][h.id].files = Append(@, h.next)]
    /\ GiveUpFile
    /\ UNCHANGED <<config, linked, status, tries, edits>>

\* An answer without the field that is read from it, or no JSON: the handler
\* raises something else than an AdapterError.
Escape ==
    /\ h.at \in {"url", "put"}
    /\ Fault("escape")
    /\ Fail(TRUE)
    /\ UNCHANGED <<config, posts, linked, edits>>

\* All files are through.  What failed after the post is told by an edit.
FilesDone ==
    /\ h.at = "files" /\ h.next \notin Index
    /\ Goto(IF Pre THEN "post" ELSE IF h.failed # <<>> THEN "notice" ELSE "link")
    /\ UNCHANGED <<config, posts, linked, status, tries, edits, faults>>

Posted ==
    posts' = [posts EXCEPT ![T] = Append(@, [files |-> h.ids,
                                            notice |-> h.known \o h.failed,
                                            edited |-> FALSE])]

\* Mutant of Send: the id of the post is not kept.
Send_NoId ==
    /\ h.at = "post"
    /\ Posted
    /\ Goto(IF Pre THEN "link" ELSE "files")
    /\ UNCHANGED <<config, linked, status, tries, edits, faults>>

\* dst.send() posts the body, with the ids of what is there already.
Send ==
    /\ h.at = "post"
    /\ Posted
    /\ h' = [h EXCEPT !.at = IF Pre THEN "link" ELSE "files", !.id = Len(posts'[T])]
    /\ UNCHANGED <<config, linked, status, tries, edits, faults>>

SendError ==
    /\ h.at = "post"
    /\ Fault("send")
    /\ \E retryable \in BOOLEAN : Fail(retryable)
    /\ UNCHANGED <<config, posts, linked, edits>>

SendReplyLost ==
    /\ h.at = "post"
    /\ Fault("send_reply")
    /\ Posted
    /\ \E retryable \in BOOLEAN : Fail(retryable)
    /\ UNCHANGED <<config, linked, edits>>

\* Mutant of EditNotice: the entries of the body are written over.
EditNotice_Replace ==
    /\ h.at = "notice"
    /\ posts' = [posts EXCEPT ![T][h.id].notice = h.failed]
    /\ Goto("link")
    /\ UNCHANGED <<config, linked, status, tries, edits, faults>>

\* dst.edit() with both parts of the notice.
EditNotice ==
    /\ h.at = "notice"
    /\ posts' = [posts EXCEPT ![T][h.id].notice = h.known \o h.failed]
    /\ Goto("link")
    /\ UNCHANGED <<config, linked, status, tries, edits, faults>>

\* An AdapterError of that edit is suppressed.
NoticeError ==
    /\ h.at = "notice"
    /\ Fault("notice")
    /\ Goto("link")
    /\ UNCHANGED <<config, posts, linked, status, tries, edits>>

\* record_replica(); then the next target, or the handler returns.
RecordReplica ==
    /\ h.at = "link"
    /\ linked' = [linked EXCEPT ![T] = @ \cup {h.id}]
    /\ IF h.t < Len(Targets) THEN StartTarget(h.t + 1) ELSE Goto("done")
    /\ UNCHANGED <<config, posts, status, tries, edits, faults>>

RecordError ==
    /\ h.at = "link"
    /\ Fault("record")
    /\ Fail(TRUE)
    /\ UNCHANGED <<config, posts, linked, edits>>

\* mark_done(), after the handler has returned.
MarkDone ==
    /\ h.at = "done"
    /\ h' = Idle
    /\ status' = "done"
    /\ UNCHANGED <<config, posts, linked, tries, edits, faults>>

\* It fails: the event is handled again, or goes to the DLQ though it has crossed.
MarkDoneError ==
    /\ h.at = "done"
    /\ Fault("mark_done")
    /\ Fail(TRUE)
    /\ UNCHANGED <<config, posts, linked, edits>>

\* The process dies and starts again with the event, whose attempt claim() has
\* counted before.
Crash ==
    /\ h.at # "idle"
    /\ Fault("crash")
    /\ h' = Idle
    /\ tries' = tries + 1
    /\ UNCHANGED <<config, posts, linked, status, edits>>

\* The author edits the message later: a call of the loop of _on_edited()
\* gives a target's linked copy the new text, and with the old text the notice
\* goes.
RelayEdit ==
    /\ status # "pending" /\ edits < MaxEdits
    /\ edits' = edits + 1
    /\ \E t \in Chans : \E k \in linked[t] :
         posts' = [posts EXCEPT ![t][k] = [@ EXCEPT !.notice = <<>>, !.edited = TRUE]]
    /\ UNCHANGED <<config, linked, status, tries, h, faults>>

-----------------------------------------------------------------------------
HandlerStep ==
    \/ Begin \/ PassOver \/ OpenFile \/ GetUploadURL \/ PutBytes \/ ShareFile
    \/ FileRefused \/ FilesDone \/ Send \/ EditNotice \/ RecordReplica
    \/ MarkDone

Next ==
    \/ HandlerStep
    \/ FileError \/ ShareReplyLost \/ Escape \/ SendError \/ SendReplyLost
    \/ NoticeError \/ RecordError \/ MarkDoneError \/ Crash
    \/ RelayEdit

Spec == Init /\ [][Next]_vars

-----------------------------------------------------------------------------
(* Properties.                                                             *)

\* A position in the list of files, and a copy.
IsNotice(n) == n \in Seq([file : Index, why : {"relay_disabled", "too_large", "failed"}])
IsCopy(p) == p.files \in Seq(Index) /\ IsNotice(p.notice) /\ p.edited \in BOOLEAN

TypeOK ==
    /\ relayFiles \in BOOLEAN /\ limit \in [Chans -> {0, Cap}]
    /\ \A t \in Chans : /\ \A k \in DOMAIN posts[t] : IsCopy(posts[t][k])
                        /\ linked[t] \subseteq DOMAIN posts[t]
    /\ status \in {"pending", "done", "dead"}
    /\ tries \in Nat
    /\ h.at \in {"idle", "files", "url", "put", "share", "post", "notice", "link", "done"}
    /\ h.t \in DOMAIN Targets /\ h.next \in 1..(Len(Files) + 1)
    /\ h.ids \in Seq(Index) /\ IsNotice(h.known) /\ IsNotice(h.failed)
    /\ h.at \in {"share", "notice", "link"} => h.id \in DOMAIN posts[T]

\* No attachment vanishes without a word (files.py:3-9, src/README.md:46):
\* what a recorded copy does not carry it names, as long as the edit that adds
\* to its notice has not failed and its author has not edited the text.
NothingVanishes ==
    faults["notice"] = 0 =>
        \A t \in Chans : \A k \in linked[t] :
            LET p == posts[t][k] IN
            ~p.edited => Range(p.files) \cup Named(p.notice) = Index

\* A notice names a file once (relay.py:236) and none that hangs on the message,
\* at whatever moment the channel is looked at, unless an answer to the sharing
\* of a file was lost.
NoticeTruthful ==
    \A t \in Chans : \A k \in DOMAIN posts[t] :
        LET p == posts[t][k] IN
        /\ \A i, j \in DOMAIN p.notice : p.notice[i].file = p.notice[j].file => i = j
        /\ faults["share_reply"] = 0 => Range(p.files) \cap Named(p.notice) = {}

\* However many files fail, the body goes out, and once (relay.py:139, 211-213):
\* attempts, and posts beyond the first, are spent on other faults only.
BodyCrosses ==
    /\ tries <= Hard
    /\ status = "dead" => Hard > 0
    /\ status = "done" => \A t \in Chans : linked[t] # {}
    /\ \A t \in Chans : Len(posts[t]) <= 1 + Hard
=============================================================================
