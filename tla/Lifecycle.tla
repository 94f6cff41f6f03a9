------------------------------- MODULE Lifecycle -------------------------------
(***************************************************************************)
(* A process of the bridge from its start to its end: build(), run() and   *)
(* _release() of chbridge/app.py, `chbridge status` of cli.py, open() and  *)
(* close() of the adapters and of store/db.py, and the supervisor that     *)
(* keeps the long-running jobs alive (supervisor.py).                      *)
(*                                                                         *)
(* What a job does while it runs is Pipeline and Intake; here it runs,     *)
(* returns or raises.  No job of app.py is added with restart=False.       *)
(* The client of Slack's Socket Mode is slack_sdk's: it stays open until   *)
(* its close() is called, and disconnect() does not do that.               *)
(***************************************************************************)
EXTENDS Naturals, Sequences, FiniteSets, SequencesExt

CONSTANTS
    Needed,      \* the workspaces with an endpoint, in the order of opening
    Mattermosts, \* those of them whose adapter keeps a session of its own
    MinBackoff, MaxBackoff,   \* seconds before a job is started again
    MaxShortRuns,\* bound: short runs of a job in a row
    MaxFaults    \* bound: failing calls and interrupts

ASSUME NeededAssumption ==
    /\ Needed \in Seq(Range(Needed)) /\ IsInjective(Needed)
    /\ Range(Needed) \cap {"pool", "pipeline", "reconcile"} = {}
ASSUME MattermostsAssumption == Mattermosts \subseteq Range(Needed)
ASSUME BackoffAssumption ==
    /\ MinBackoff \in Nat \ {0} /\ MaxBackoff \in Nat
    /\ MinBackoff <= MaxBackoff
ASSUME BoundsAssumption == {MaxShortRuns, MaxFaults} \subseteq Nat

VARIABLES
    command,     \* "run" or "status"
    at,          \* what the main task is doing
    pool,        \* is the connection pool open
    adapters,    \* the dict of opened adapters, in order
    sessions,    \* workspaces with an open HTTP session
    socket,      \* Slack workspaces whose adapter has a client in _socket
    abandoned,   \* those with an open client that nothing refers to any more
    halfOpen,    \* history: the session of an adapter whose open() has raised
    failed,      \* history: resources whose close() has raised or was cut off
    listened,    \* history: Slack workspaces whose listen() has made a client
    job,         \* the supervised jobs
    flag,        \* JobState.running
    consecutive, \* JobState.consecutive
    delay,       \* backoff of a job
    faults       \* used up so far

vars == <<command, at, pool, adapters, sessions, socket, abandoned, halfOpen, failed,
          listened, job, flag, consecutive, delay, faults>>
sockets == <<socket, abandoned, listened>>
resources == <<pool, adapters, sessions, sockets, halfOpen, failed>>
jobs == <<job, flag, consecutive, delay>>

\* A listener per workspace, the pipeline and the reconciler.
Jobs == Range(Needed) \cup {"pipeline", "reconcile"}
Slacks == Range(Needed) \ Mattermosts

Init ==
    /\ command \in {"run", "status"}
    /\ at = "connect"
    /\ pool = FALSE
    /\ adapters = <<>>
    /\ sessions = {} /\ socket = {} /\ abandoned = {}
    /\ halfOpen = {} /\ failed = {} /\ listened = {}
    /\ job = [j \in Jobs |-> "none"]
    /\ flag = [j \in Jobs |-> FALSE]
    /\ consecutive = [j \in Jobs |-> 0]
    /\ delay = [j \in Jobs |-> MinBackoff]
    /\ faults = 0

Fault == faults < MaxFaults /\ faults' = faults + 1
Goto(step) == at' = step

-----------------------------------------------------------------------------
(* build().                                                                *)

Connect ==
    /\ at = "connect"
    /\ pool' = TRUE
    /\ Goto("migrate")
    /\ UNCHANGED <<command, adapters, sessions, sockets, halfOpen, failed, jobs, faults>>

\* create_pool() fails, outside the try of build(): nothing is open yet.
ConnectError ==
    /\ at = "connect"
    /\ Fault
    /\ Goto("ended")
    /\ UNCHANGED <<command, resources, jobs>>

Opening == Needed[Len(adapters) + 1]

Migrate ==
    /\ at = "migrate"
    /\ Goto(IF Needed = <<>> THEN "router" ELSE "open")
    /\ UNCHANGED <<command, resources, jobs, faults>>

\* Mattermost's open() makes its session before it asks who it is.
OpenSession ==
    /\ at = "open"
    /\ sessions' = IF Opening \in Mattermosts THEN sessions \cup {Opening} ELSE sessions
    /\ Goto("identify")
    /\ UNCHANGED <<command, pool, adapters, sockets, halfOpen, failed, jobs, faults>>

\* The answer to "/users/me" or auth.test; the adapter enters the dict.
Opened ==
    /\ at = "identify"
    /\ adapters' = Append(adapters, Opening)
    /\ Goto(IF Len(adapters) + 1 < Len(Needed) THEN "open" ELSE "router")
    /\ UNCHANGED <<command, pool, sessions, sockets, halfOpen, failed, jobs, faults>>

\* Channels are resolved and the topology is stored; the jobs are added.
RouterBuilt ==
    /\ at = "router"
    /\ Goto(IF command = "run" THEN "up" ELSE "report")
    /\ UNCHANGED <<command, resources, jobs, faults>>

\* A step of build() fails or the user interrupts it: what is in the dict is
\* released, which the adapter that is being opened is not.
BuildError ==
    /\ at \in {"migrate", "open", "identify", "router"}
    /\ Fault
    /\ halfOpen' = IF at = "identify" THEN {Opening} \cap Mattermosts ELSE {}
    /\ Goto("unwind")
    /\ UNCHANGED <<command, pool, adapters, sessions, sockets, failed, jobs>>

-----------------------------------------------------------------------------
(* run(), and the end of `chbridge status`.                                *)

\* SIGINT or SIGTERM.
Stop ==
    /\ at = "up"
    /\ Goto("stopping")
    /\ UNCHANGED <<command, resources, jobs, faults>>

\* Mutant of Joined: the runner is cancelled and not awaited.
Joined_NoAwait ==
    /\ at = "stopping"
    /\ Goto("stats")
    /\ UNCHANGED <<command, resources, jobs, faults>>

\* `await runner`: the TaskGroup waits for every job.
Joined ==
    /\ at = "stopping"
    /\ \A j \in Jobs : job[j] = "over"
    /\ Goto("stats")
    /\ UNCHANGED <<command, resources, jobs, faults>>

\* _safe_stats() or the queries of `status`, which only read, answered or not:
\* the one swallows its error, that of the other ends in a finally.
Reported ==
    /\ at \in {"stats", "report"}
    /\ Goto(IF at = "stats" THEN "release" ELSE "finally")
    /\ UNCHANGED <<command, resources, jobs, faults>>

Closing == at \in {"unwind", "release", "finally"}

\* What is closed next, where its close() can fail: Slack's suppresses it.
Refusing == IF adapters = <<>> THEN {"pool"} ELSE {Head(adapters)} \cap Mattermosts

\* The adapters of the dict are closed in order, then the pool.
CloseAdapter ==
    /\ Closing /\ adapters # <<>>
    /\ sessions' = sessions \ {Head(adapters)}
    /\ socket' = socket \ {Head(adapters)}
    /\ adapters' = Tail(adapters)
    /\ UNCHANGED <<command, at, pool, abandoned, halfOpen, failed, listened, jobs, faults>>

ClosePool ==
    /\ Closing /\ adapters = <<>>
    /\ pool' = FALSE
    /\ Goto("ended")
    /\ UNCHANGED <<command, adapters, sessions, sockets, halfOpen, failed, jobs, faults>>

\* Mutant of CloseError: _release() does not catch it either.
CloseError_Raised ==
    /\ Closing /\ Refusing # {}
    /\ Fault
    /\ failed' = failed \cup Refusing
    /\ Goto("cut")
    /\ UNCHANGED <<command, pool, adapters, sessions, sockets, halfOpen, jobs>>

\* A close() raises: _release() goes on with the next, `status` is cut off.
CloseError ==
    /\ Closing /\ Refusing # {}
    /\ Fault
    /\ failed' = failed \cup Refusing
    /\ \/ at # "finally" /\ adapters # <<>> /\ adapters' = Tail(adapters) /\ UNCHANGED at
       \/ at # "finally" /\ adapters = <<>> /\ Goto("ended") /\ UNCHANGED adapters
       \/ at = "finally" /\ Goto("cut") /\ UNCHANGED adapters
    /\ UNCHANGED <<command, pool, sessions, sockets, halfOpen, jobs>>

\* The user interrupts the release: a cancellation is no Exception.  Once the
\* bridge is up, its signal handlers are there until the end.
CloseInterrupted ==
    /\ at \in {"unwind", "finally"} /\ Refusing # {}
    /\ Fault
    /\ failed' = failed \cup Refusing
    /\ Goto("cut")
    /\ UNCHANGED <<command, pool, adapters, sessions, sockets, halfOpen, jobs>>

-----------------------------------------------------------------------------
(* The supervisor: _supervise() of each job.                               *)

Supervising == at \in {"up", "stopping"}

\* A job starts, at first or after its delay.
StartJob(j) ==
    /\ Supervising
    /\ job[j] \in {"none", "sleep"}
    /\ job' = [job EXCEPT ![j] = "run"]
    /\ flag' = [flag EXCEPT ![j] = TRUE]
    /\ UNCHANGED <<command, at, resources, consecutive, delay, faults>>

\* Slack's listener has been through its backfill: listen() makes its client
\* and stays, unless connect() fails, until it is cancelled.
Listen(j) ==
    /\ Supervising
    /\ job[j] = "run"
    /\ j \in Slacks \ socket
    /\ socket' = socket \cup {j}
    /\ listened' = listened \cup {j}
    /\ UNCHANGED <<command, at, pool, adapters, sessions, abandoned, halfOpen, failed,
                   jobs, faults>>

\* The finally of listen(): the client is disconnected and let go of, not closed.
LetGo(j) ==
    /\ abandoned' = abandoned \cup ({j} \cap socket)
    /\ socket' = socket \ {j}
    /\ UNCHANGED <<pool, adapters, sessions, halfOpen, failed, listened>>

Doubled(d) == IF 2 * d < MaxBackoff THEN 2 * d ELSE MaxBackoff

\* Mutant of EndJob: a job that returns is not started again.
EndJob_Forgotten(j, long) ==
    /\ Supervising
    /\ job[j] = "run"
    /\ long \/ consecutive[j] < MaxShortRuns
    /\ job' = [job EXCEPT ![j] = IF long THEN "over" ELSE "sleep"]
    /\ flag' = [flag EXCEPT ![j] = FALSE]
    /\ consecutive' = [consecutive EXCEPT ![j] = IF long THEN 0 ELSE @ + 1]
    /\ delay' = [delay EXCEPT ![j] = IF long THEN MinBackoff ELSE Doubled(@)]
    /\ LetGo(j)
    /\ UNCHANGED <<command, at, faults>>

\* A job returns or raises; long says that it ran for more than a minute.
EndJob(j, long) ==
    /\ Supervising
    /\ job[j] = "run"
    /\ long \/ consecutive[j] < MaxShortRuns
    /\ job' = [job EXCEPT ![j] = "sleep"]
    /\ flag' = [flag EXCEPT ![j] = FALSE]
    /\ consecutive' = [consecutive EXCEPT ![j] = IF long THEN 0 ELSE @ + 1]
    /\ delay' = [delay EXCEPT ![j] = IF long THEN MinBackoff ELSE Doubled(@)]
    /\ LetGo(j)
    /\ UNCHANGED <<command, at, faults>>

\* Mutant of CancelJob: the cancellation is not seen during the delay.
CancelJob_Running(j) ==
    /\ at = "stopping"
    /\ job[j] = "run"
    /\ job' = [job EXCEPT ![j] = "over"]
    /\ flag' = [flag EXCEPT ![j] = FALSE]
    /\ LetGo(j)
    /\ UNCHANGED <<command, at, consecutive, delay, faults>>

\* The cancellation of the TaskGroup reaches a job where it waits.
CancelJob(j) ==
    /\ at = "stopping"
    /\ job[j] # "over"
    /\ job' = [job EXCEPT ![j] = "over"]
    /\ flag' = [flag EXCEPT ![j] = FALSE]
    /\ LetGo(j)
    /\ UNCHANGED <<command, at, consecutive, delay, faults>>

-----------------------------------------------------------------------------
MainStep ==
    \/ Connect \/ Migrate \/ OpenSession \/ Opened \/ RouterBuilt
    \/ Joined \/ Reported \/ CloseAdapter \/ ClosePool

Next ==
    \/ MainStep \/ Stop
    \/ ConnectError \/ BuildError \/ CloseError \/ CloseInterrupted
    \/ \E j \in Jobs : \/ StartJob(j) \/ Listen(j) \/ CancelJob(j)
                       \/ \E long \in BOOLEAN : EndJob(j, long)

Spec == Init /\ [][Next]_vars

\* Awaited calls return, delays pass, and a cancellation arrives.
FairSpec ==
    /\ Spec /\ WF_vars(MainStep)
    /\ \A j \in Jobs : WF_vars(StartJob(j)) /\ WF_vars(CancelJob(j))

-----------------------------------------------------------------------------
(* Properties.                                                             *)

\* Types of the state.
TypeOK ==
    /\ command \in {"run", "status"}
    /\ at \in {"connect", "migrate", "open", "identify", "router", "up", "report",
               "stopping", "stats", "unwind", "release", "finally", "cut", "ended"}
    /\ pool \in BOOLEAN
    /\ adapters \in Seq(Range(Needed))
    /\ {sessions, halfOpen} \subseteq SUBSET Mattermosts
    /\ {socket, abandoned, listened} \subseteq SUBSET Slacks
    /\ failed \subseteq Mattermosts \cup {"pool"}
    /\ job \in [Jobs -> {"none", "run", "sleep", "over"}]
    /\ flag \in [Jobs -> BOOLEAN]
    /\ consecutive \in [Jobs -> 0..MaxShortRuns]
    /\ delay \in [Jobs -> MinBackoff..MaxBackoff]
    /\ faults \in 0..MaxFaults

Open == sessions \cup socket \cup abandoned \cup (IF pool THEN {"pool"} ELSE {})

\* All that a process leaves open (app.py:92-96, 141-155).  Once the bridge is
\* up, however it ends: what has refused to close, and one client or more of
\* every Slack workspace that it has listened to, since listen() lets go of
\* its client before close() could close it (slack.py:271-274, 118-123).  A
\* start that fails leaves the session of the adapter whose open() has raised
\* (app.py:88), against app.py:93-95; a release that is cut off, by an
\* interrupt or in `status` by an error, also what it has not come to.
LeftOpen ==
    /\ at = "ended" => Open = failed \cup halfOpen \cup listened
    /\ at = "cut" =>
         /\ \A j \in Jobs : job[j] = "none"
         /\ Open = {"pool"} \cup failed \cup halfOpen \cup (Range(adapters) \cap Mattermosts)

\* No job runs after the release has begun to close what it works on.
UsedWhileOpen ==
    \A j \in Jobs : job[j] = "run" =>
        /\ pool /\ adapters = Needed
        /\ j \in Mattermosts => j \in sessions

\* health() tells the truth (supervisor.py:10): a job that waits for its next
\* start or was cancelled is not shown as running.
HealthTruthful == \A j \in Jobs : flag[j] = (job[j] = "run")

\* A job never dies for good while the bridge is up (supervisor.py:3-8).
JobsComeBack ==
    \A j \in Jobs : (at = "up" /\ job[j] # "run") ~> (job[j] = "run" \/ at # "up")

\* A signal ends the process, whatever the jobs are doing.
StopEnds == at = "stopping" ~> at = "ended"
=============================================================================
