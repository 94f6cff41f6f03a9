---------------------------- MODULE LifecycleProofs ----------------------------
(* Theorems about Lifecycle and their proofs.                              *)
EXTENDS Lifecycle, TLAPS

-----------------------------------------------------------------------------
(* The inductive invariants.                                               *)

\* How far the dict of adapters is filled at each step of the start.
AdaptersFilled ==
    /\ at \in {"connect", "migrate"} => adapters = <<>>
    /\ at \in {"open", "identify"} =>
         /\ Len(adapters) < Len(Needed)
         /\ \A i \in 1..Len(adapters) : adapters[i] = Needed[i]
    /\ at \in {"router", "up", "stopping", "stats", "report"} => adapters = Needed
    /\ at = "ended" => adapters = <<>>

\* An adapter is in the dict once.
AdaptersOnce == IsInjective(adapters)

Starting == {"connect", "migrate", "open", "identify", "router"}
BeforeRelease == Starting \cup {"up", "stopping", "stats", "report"}

\* The pool is open from its creation until it is closed, or fails to close.
PoolOpen ==
    /\ at = "connect" => ~pool
    /\ at \in (BeforeRelease \cup {"unwind", "release", "finally", "cut"}) \ {"connect"} => pool
    /\ at = "ended" => (pool <=> "pool" \in failed)

\* A session that is open belongs to an adapter of the dict or to the one that
\* is being opened, or it is half open or its close() has failed.
SessionsKnown ==
    \A w \in sessions :
        \/ w \in Range(adapters)
        \/ w \in failed \cup halfOpen
        \/ at = "identify" /\ w = Opening

\* The Mattermost adapters of the dict have their session.
SessionsOpen ==
    /\ Range(adapters) \cap Mattermosts \subseteq sessions
    /\ at = "identify" => {Opening} \cap Mattermosts \subseteq sessions

\* What has failed to open or to close is open and not in the dict.
FailedOpen ==
    /\ at \in BeforeRelease => failed = {} /\ halfOpen = {}
    /\ "pool" \in failed => at \in {"cut", "ended"}
    /\ (failed \ {"pool"}) \cup halfOpen \subseteq sessions
    /\ at # "cut" => Range(adapters) \cap (failed \cup halfOpen) = {}

\* Jobs run, and listeners have a client, under the supervisor only.
JobsSupervised ==
    /\ \A j \in Jobs : job[j] = "run" => Supervising
    /\ \A j \in socket : job[j] = "run"
    /\ at \in Starting \cup {"unwind", "finally", "report", "cut"} =>
         listened = {} /\ \A j \in Jobs : job[j] = "none"
    /\ at \in {"report", "finally"} => command = "status"
    /\ at \in {"up", "stopping", "stats", "release"} => command = "run"
    /\ socket \cup abandoned = listened

IInv == /\ TypeOK /\ AdaptersFilled /\ AdaptersOnce /\ PoolOpen
        /\ SessionsKnown /\ SessionsOpen /\ FailedOpen /\ JobsSupervised

-----------------------------------------------------------------------------
(* Sequences.                                                              *)

LEMMA RangeAppend ==
    ASSUME NEW S, NEW s \in Seq(S), NEW e \in S
    PROVE  /\ Append(s, e) \in Seq(S)
           /\ Range(Append(s, e)) = Range(s) \cup {e}
<1>1. Append(s, e) \in Seq(S) /\ DOMAIN Append(s, e) = DOMAIN s \cup {Len(s) + 1}
  OBVIOUS
<1>2. /\ \A i \in DOMAIN s : Append(s, e)[i] = s[i]
      /\ Append(s, e)[Len(s) + 1] = e
  OBVIOUS
<1> QED BY <1>1, <1>2 DEF Range

LEMMA RangeTail ==
    ASSUME NEW S, NEW s \in Seq(S), s # <<>>
    PROVE  /\ Tail(s) \in Seq(S) /\ Head(s) \in S
           /\ Range(s) = Range(Tail(s)) \cup {Head(s)}
<1>1. Tail(s) \in Seq(S) /\ Head(s) \in S /\ Head(s) = s[1] /\ 1 \in DOMAIN s
  OBVIOUS
<1>2. \A i \in DOMAIN Tail(s) : i + 1 \in DOMAIN s /\ Tail(s)[i] = s[i + 1]
  OBVIOUS
<1>3. \A i \in DOMAIN s : 
          i = 1 \/ (i - 1 \in DOMAIN Tail(s) /\ Tail(s)[i - 1] = s[i])
  <2>1. /\ Len(s) \in Nat /\ DOMAIN s = 1..Len(s) /\ Len(Tail(s)) = Len(s) - 1
        /\ DOMAIN Tail(s) = 1..(Len(s) - 1)
    OBVIOUS
  <2> SUFFICES ASSUME NEW i \in DOMAIN s, i # 1
      PROVE  i - 1 \in DOMAIN Tail(s) /\ Tail(s)[i - 1] = s[i]
    OBVIOUS
  <2>2. i - 1 \in DOMAIN Tail(s) /\ (i - 1) + 1 = i
    BY <2>1
  <2> QED BY <1>2, <2>2
<1>4. Range(s) \subseteq Range(Tail(s)) \cup {Head(s)}
  BY SMTT(40), <1>1, <1>3 DEF Range
<1>5. Range(Tail(s)) \cup {Head(s)} \subseteq Range(s)
  BY <1>1, <1>2 DEF Range
<1> QED BY <1>1, <1>4, <1>5

LEMMA NeededSeq == Needed \in Seq(Range(Needed))
BY NeededAssumption

\* The workspace that is being opened is a needed one.
LEMMA OpeningNeeded ==
    ASSUME TypeOK, Len(adapters) < Len(Needed)
    PROVE  Opening \in Range(Needed)
<1>1. Len(adapters) \in Nat /\ Len(Needed) \in Nat
  BY NeededSeq DEF TypeOK
<1>2. Len(adapters) + 1 \in DOMAIN Needed
  BY <1>1, NeededSeq
<1> QED BY <1>2 DEF Opening, Range

-----------------------------------------------------------------------------
(* One lemma per action, or per actions with the same effect.              *)

LEMMA Start == Init => IInv
<1> SUFFICES ASSUME Init PROVE IInv
  OBVIOUS
<1> USE BackoffAssumption, BoundsAssumption
<1>1. TypeOK
  <2>1. /\ MinBackoff \in MinBackoff..MaxBackoff
        /\ 0 \in 0..MaxShortRuns /\ 0 \in 0..MaxFaults
    OBVIOUS
  <2>2. <<>> \in Seq(Range(Needed))
    OBVIOUS
  <2> QED BY <2>1, <2>2 DEF Init, TypeOK
<1>2. Range(<<>>) = {} /\ IsInjective(<<>>)
  BY DEF Range, IsInjective
<1>3. AdaptersFilled /\ AdaptersOnce /\ PoolOpen /\ SessionsKnown /\ SessionsOpen
  BY <1>2 DEF Init, AdaptersFilled, AdaptersOnce, PoolOpen, SessionsKnown, SessionsOpen,
              BeforeRelease, Starting
<1>4. FailedOpen /\ JobsSupervised
  BY <1>2 DEF Init, FailedOpen, JobsSupervised, Starting, BeforeRelease
<1> QED BY <1>1, <1>3, <1>4 DEF IInv

\* Steps of the main task keep what is known of the jobs, if they move between
\* the phases as the code does.
LEMMA JobsKept ==
    ASSUME IInv, UNCHANGED <<command, job, listened>>,
           socket' \subseteq socket, socket' \cup abandoned' = listened,
           \/ at' = at
           \/ at \in Starting /\ at' \in Starting \cup {"unwind", "ended"}
           \/ at = "router" /\ command = "run" /\ at' = "up"
           \/ at = "router" /\ command = "status" /\ at' = "report"
           \/ at = "up" /\ at' = "stopping"
           \/ at = "stopping" /\ at' = "stats" /\ \A j \in Jobs : job[j] = "over"
           \/ at = "stats" /\ at' = "release"
           \/ at = "report" /\ at' = "finally"
           \/ at \in {"unwind", "finally"} /\ at' = "cut"
           \/ at \in {"unwind", "finally", "release"} /\ at' = "ended"
    PROVE  JobsSupervised'
BY DEF IInv, JobsSupervised, Starting, Supervising

\* Steps that leave every resource alone.
LEMMA ResourcesKept ==
    ASSUME IInv, UNCHANGED <<pool, adapters, sessions, halfOpen, failed>>,
           \/ at' = at
           \/ at = "migrate" /\ at' = IF Needed = <<>> THEN "router" ELSE "open"
           \/ at = "router" /\ at' \in {"up", "report"}
           \/ at = "up" /\ at' = "stopping"
           \/ at = "stopping" /\ at' = "stats"
           \/ at = "stats" /\ at' = "release"
           \/ at = "report" /\ at' = "finally"
    PROVE  /\ AdaptersFilled' /\ AdaptersOnce' /\ PoolOpen'
           /\ SessionsKnown' /\ SessionsOpen' /\ FailedOpen'
<1> USE DEF IInv
<1>1. at' # at => at \notin {"identify", "cut", "ended"} /\ at' \notin {"identify", "cut", "ended"}
  OBVIOUS
<1>2. Opening' = Opening
  BY DEF Opening
<1>3. AdaptersFilled'
  <2>1. CASE at = "migrate" /\ at' # at
    <3>1. adapters = <<>>
      BY <2>1 DEF AdaptersFilled
    <3>2. Needed # <<>> => Len(<<>>) < Len(Needed)
      BY NeededSeq
    <3> QED BY <2>1, <3>1, <3>2 DEF AdaptersFilled
  <2>2. CASE at # "migrate" \/ at' = at
    BY <2>2 DEF AdaptersFilled
  <2> QED BY <2>1, <2>2
<1>4. AdaptersOnce' /\ PoolOpen'
  BY <1>1 DEF AdaptersOnce, PoolOpen, BeforeRelease, Starting
<1>5. SessionsKnown' /\ SessionsOpen'
  BY <1>1, <1>2 DEF SessionsKnown, SessionsOpen
<1>6. FailedOpen'
  BY <1>1 DEF FailedOpen, BeforeRelease, Starting
<1> QED BY <1>3, <1>4, <1>5, <1>6

LEMMA ConnectStep ==
    ASSUME IInv, Connect \/ ConnectError
    PROVE  IInv'
<1> USE DEF IInv
<1>1. /\ at = "connect" /\ UNCHANGED <<adapters, sessions, sockets, halfOpen, failed, command, jobs>>
      /\ \/ at' = "migrate" /\ pool' = TRUE
         \/ at' = "ended" /\ pool' = pool
  BY DEF Connect, ConnectError, Goto, resources
<1>2. TypeOK'
  <2>1. faults' \in 0..MaxFaults
    BY BoundsAssumption DEF Connect, ConnectError, Fault, TypeOK
  <2> QED BY <1>1, <2>1 DEF TypeOK, jobs, sockets
<1>3. JobsSupervised'
  BY <1>1, JobsKept DEF JobsSupervised, Starting, sockets, jobs
<1>4. AdaptersFilled' /\ AdaptersOnce' /\ PoolOpen'
  BY <1>1 DEF AdaptersFilled, AdaptersOnce, PoolOpen, FailedOpen, BeforeRelease, Starting
<1>5. SessionsKnown' /\ SessionsOpen' /\ FailedOpen'
  BY <1>1 DEF SessionsKnown, SessionsOpen, FailedOpen, BeforeRelease, Starting
<1> QED BY <1>2, <1>3, <1>4, <1>5

LEMMA OpenSessionStep ==
    ASSUME IInv, OpenSession
    PROVE  IInv'
<1> USE DEF IInv
<1>1. /\ at = "open" /\ at' = "identify"
      /\ UNCHANGED <<pool, adapters, sockets, halfOpen, failed, command, jobs, faults>>
      /\ sessions' = IF Opening \in Mattermosts THEN sessions \cup {Opening} ELSE sessions
      /\ Opening' = Opening
  BY DEF OpenSession, Goto, Opening
<1>2. TypeOK'
  BY <1>1 DEF TypeOK, jobs, sockets
<1>3. JobsSupervised'
  BY <1>1, JobsKept DEF JobsSupervised, Starting, sockets, jobs
<1>4. AdaptersFilled' /\ AdaptersOnce' /\ PoolOpen'
  BY <1>1 DEF AdaptersFilled, AdaptersOnce, PoolOpen, BeforeRelease, Starting
<1>5. SessionsKnown' /\ SessionsOpen' /\ FailedOpen'
  BY <1>1 DEF SessionsKnown, SessionsOpen, FailedOpen, BeforeRelease, Starting
<1> QED BY <1>2, <1>3, <1>4, <1>5

\* An adapter enters the dict, which it was not in.
LEMMA OpenedStep ==
    ASSUME IInv, Opened
    PROVE  IInv'
<1> USE DEF IInv
<1>1. /\ Len(adapters) < Len(Needed) /\ at = "identify"
      /\ \A i \in 1..Len(adapters) : adapters[i] = Needed[i]
      /\ adapters \in Seq(Range(Needed)) /\ Opening \in Range(Needed)
      /\ UNCHANGED <<command, pool, sessions, sockets, halfOpen, failed, jobs, faults>>
      /\ at' \in {"open", "router"}
  BY OpeningNeeded DEF Opened, Goto, AdaptersFilled, TypeOK
<1>2. /\ adapters' = Append(adapters, Opening)
      /\ adapters' \in Seq(Range(Needed))
      /\ Range(adapters') = Range(adapters) \cup {Opening}
  BY <1>1, RangeAppend DEF Opened
<1>3. /\ Len(adapters') = Len(adapters) + 1
      /\ \A i \in 1..Len(adapters') : adapters'[i] = Needed[i]
  <2>1. Len(adapters') = Len(adapters) + 1
    BY <1>1, <1>2
  <2>2. ASSUME NEW i \in 1..Len(adapters') PROVE adapters'[i] = Needed[i]
    BY <1>1, <1>2, <2>1 DEF Opening
  <2> QED BY <2>1, <2>2
<1>4. TypeOK'
  BY <1>1, <1>2 DEF TypeOK, jobs, sockets
<1>5. AdaptersFilled'
  <2>1. CASE at' = "open"
    <3>1. Len(adapters) + 1 < Len(Needed)
      BY <2>1 DEF Opened, Goto
    <3> QED BY <1>3, <2>1, <3>1 DEF AdaptersFilled
  <2>2. CASE at' = "router"
    <3>1. ~(Len(adapters) + 1 < Len(Needed))
      BY <2>2 DEF Opened, Goto
    <3>2. Len(adapters') = Len(Needed)
      BY <1>1, <1>3, <3>1, NeededSeq
    <3>3. adapters' = Needed
      BY <1>2, <1>3, <3>2, NeededSeq
    <3> QED BY <2>2, <3>3 DEF AdaptersFilled
  <2> QED BY <1>1, <2>1, <2>2
<1>6. AdaptersOnce'
  <2>1. /\ DOMAIN adapters' = 1..Len(adapters') /\ DOMAIN Needed = 1..Len(Needed)
        /\ Len(adapters') <= Len(Needed) /\ Len(adapters') \in Nat /\ Len(Needed) \in Nat
    BY <1>1, <1>2, <1>3, NeededSeq
  <2>2. DOMAIN adapters' \subseteq DOMAIN Needed
    BY <2>1
  <2> QED BY <1>3, <2>1, <2>2, NeededAssumption DEF AdaptersOnce, IsInjective
<1>7. PoolOpen' /\ SessionsKnown' /\ SessionsOpen' /\ FailedOpen'
  BY <1>1, <1>2 DEF PoolOpen, SessionsKnown, SessionsOpen, FailedOpen, BeforeRelease, Starting
<1>8. JobsSupervised'
  BY <1>1, JobsKept DEF JobsSupervised, Starting, sockets, jobs
<1> QED BY <1>4, <1>5, <1>6, <1>7, <1>8

LEMMA BuildErrorStep ==
    ASSUME IInv, BuildError
    PROVE  IInv'
<1> USE DEF IInv
<1>1. /\ at \in {"migrate", "open", "identify", "router"} /\ at' = "unwind"
      /\ UNCHANGED <<pool, adapters, sessions, command, sockets, failed, jobs>>
      /\ halfOpen' = IF at = "identify" THEN {Opening} \cap Mattermosts ELSE {}
  BY DEF BuildError, Goto
<1>2. at = "identify" => Opening \in Range(Needed) /\ Opening \notin Range(adapters)
  <2> SUFFICES ASSUME at = "identify"
      PROVE  Opening \in Range(Needed) /\ Opening \notin Range(adapters)
    OBVIOUS
  <2>1. /\ Len(adapters) < Len(Needed) /\ adapters \in Seq(Range(Needed))
        /\ \A i \in 1..Len(adapters) : adapters[i] = Needed[i]
    BY DEF AdaptersFilled, TypeOK
  <2>2. /\ DOMAIN adapters = 1..Len(adapters) /\ DOMAIN Needed = 1..Len(Needed)
        /\ Len(adapters) \in Nat /\ Len(Needed) \in Nat
    BY <2>1, NeededSeq
  <2>3. Len(adapters) + 1 \in DOMAIN Needed
    BY <2>1, <2>2
  <2>4. \A i \in DOMAIN adapters : i \in DOMAIN Needed /\ i # Len(adapters) + 1
    BY <2>1, <2>2
  <2>5. \A i \in DOMAIN adapters : adapters[i] # Opening
    BY <2>1, <2>2, <2>3, <2>4, NeededAssumption DEF IsInjective, Opening
  <2> QED BY <2>1, <2>5, OpeningNeeded DEF Range
<1>3. TypeOK'
  BY <1>1, <1>2, BoundsAssumption DEF TypeOK, BuildError, Fault, jobs, sockets
<1>4. AdaptersFilled' /\ AdaptersOnce' /\ PoolOpen'
  BY <1>1 DEF AdaptersFilled, AdaptersOnce, PoolOpen, BeforeRelease, Starting
<1>5. failed = {} /\ halfOpen = {}
  BY <1>1 DEF FailedOpen, BeforeRelease, Starting
<1>6. SessionsKnown'
  <2>1. \A w \in sessions : w \in Range(adapters) \/ (at = "identify" /\ w = Opening)
    BY <1>5 DEF SessionsKnown
  <2>2. sessions \subseteq Mattermosts
    BY DEF TypeOK
  <2> QED BY <1>1, <2>1, <2>2 DEF SessionsKnown
<1>7. SessionsOpen'
  BY <1>1 DEF SessionsOpen
<1>8. FailedOpen'
  <2>1. halfOpen' \subseteq sessions /\ Range(adapters) \cap halfOpen' = {}
    BY <1>1, <1>2 DEF SessionsOpen
  <2> QED BY <1>1, <1>5, <2>1 DEF FailedOpen, BeforeRelease, Starting
<1>9. JobsSupervised'
  BY <1>1, JobsKept DEF JobsSupervised, Starting, sockets, jobs
<1> QED BY <1>3, <1>4, <1>6, <1>7, <1>8, <1>9

\* Taking the first adapter out of the dict.
LEMMA TakenOut ==
    ASSUME IInv, adapters # <<>>
    PROVE  /\ adapters \in Seq(Range(Needed)) /\ Tail(adapters) \in Seq(Range(Needed))
           /\ Head(adapters) \in Range(Needed)
           /\ Range(adapters) = Range(Tail(adapters)) \cup {Head(adapters)}
           /\ Head(adapters) \notin Range(Tail(adapters))
           /\ IsInjective(Tail(adapters))
<1>1. adapters \in Seq(Range(Needed)) /\ IsInjective(adapters)
  BY DEF IInv, TypeOK, AdaptersOnce
<1>2. /\ Tail(adapters) \in Seq(Range(Needed)) /\ Head(adapters) \in Range(Needed)
      /\ Range(adapters) = Range(Tail(adapters)) \cup {Head(adapters)}
  BY <1>1, RangeTail
<1>3. Head(adapters) = adapters[1] /\ 1 \in DOMAIN adapters
  BY <1>1
<1>4. \A i \in DOMAIN Tail(adapters) :
          /\ i \in Nat \ {0} /\ i + 1 \in DOMAIN adapters
          /\ Tail(adapters)[i] = adapters[i + 1]
  BY <1>1
<1>5. Head(adapters) \notin Range(Tail(adapters))
  <2> SUFFICES ASSUME NEW i \in DOMAIN Tail(adapters), Tail(adapters)[i] = Head(adapters)
      PROVE  FALSE
    BY DEF Range
  <2>1. i + 1 = 1
    BY <1>1, <1>3, <1>4 DEF IsInjective
  <2> QED BY <1>4, <2>1
<1>6. IsInjective(Tail(adapters))
  <2> SUFFICES ASSUME NEW i \in DOMAIN Tail(adapters), NEW k \in DOMAIN Tail(adapters),
                      Tail(adapters)[i] = Tail(adapters)[k]
      PROVE  i = k
    BY DEF IsInjective
  <2>1. i + 1 = k + 1
    BY <1>1, <1>4 DEF IsInjective
  <2> QED BY <1>4, <2>1
<1> QED BY <1>1, <1>2, <1>5, <1>6

\* An adapter leaves the dict, and its session is closed.
LEMMA CloseAdapterStep ==
    ASSUME IInv, CloseAdapter
    PROVE  IInv'
<1> USE DEF IInv
<1>1. /\ at \in {"unwind", "release", "finally"} /\ adapters # <<>> /\ at' = at
      /\ UNCHANGED <<command, pool, abandoned, halfOpen, failed, listened, jobs, faults>>
      /\ adapters' = Tail(adapters) /\ sessions' = sessions \ {Head(adapters)}
      /\ socket' = socket \ {Head(adapters)}
  BY DEF CloseAdapter, Closing
<1>2. /\ adapters' \in Seq(Range(Needed))
      /\ Range(adapters) = Range(adapters') \cup {Head(adapters)}
      /\ Head(adapters) \notin Range(adapters') /\ IsInjective(adapters')
  BY <1>1, TakenOut
<1>3. TypeOK'
  BY <1>1, <1>2 DEF TypeOK, jobs
<1>4. AdaptersFilled' /\ AdaptersOnce' /\ PoolOpen'
  BY <1>1, <1>2 DEF AdaptersFilled, AdaptersOnce, PoolOpen, BeforeRelease, Starting
<1>5. SessionsKnown' /\ SessionsOpen'
  BY <1>1, <1>2 DEF SessionsKnown, SessionsOpen
<1>6. FailedOpen'
  <2>1. Head(adapters) \notin failed \cup halfOpen
    BY <1>1, <1>2 DEF FailedOpen
  <2> QED BY <1>1, <1>2, <2>1 DEF FailedOpen, BeforeRelease, Starting
<1>7. JobsSupervised'
  <2>1. socket = {}
    BY <1>1 DEF JobsSupervised, Supervising, TypeOK, Jobs, Slacks
  <2> QED BY <1>1, <2>1, JobsKept DEF JobsSupervised, jobs
<1> QED BY <1>3, <1>4, <1>5, <1>6, <1>7

LEMMA ClosePoolStep ==
    ASSUME IInv, ClosePool
    PROVE  IInv'
<1> USE DEF IInv
<1>1. /\ at \in {"unwind", "release", "finally"} /\ adapters = <<>> /\ at' = "ended"
      /\ pool' = FALSE
      /\ UNCHANGED <<command, adapters, sessions, sockets, halfOpen, failed, jobs, faults>>
  BY DEF ClosePool, Closing, Goto
<1>2. TypeOK'
  BY <1>1 DEF TypeOK, jobs, sockets
<1>3. AdaptersFilled' /\ AdaptersOnce' /\ PoolOpen'
  BY <1>1 DEF AdaptersFilled, AdaptersOnce, PoolOpen, FailedOpen, BeforeRelease, Starting
<1>4. SessionsKnown' /\ SessionsOpen' /\ FailedOpen'
  BY <1>1 DEF SessionsKnown, SessionsOpen, FailedOpen, BeforeRelease, Starting
<1>5. JobsSupervised'
  BY <1>1, JobsKept DEF JobsSupervised, sockets, jobs
<1> QED BY <1>2, <1>3, <1>4, <1>5

\* What can refuse to close is open.
LEMMA RefusingOpen ==
    ASSUME IInv, Closing
    PROVE  /\ pool /\ Refusing \subseteq Mattermosts \cup {"pool"}
           /\ Refusing \ {"pool"} \subseteq sessions
           /\ adapters # <<>> => Refusing = {Head(adapters)} \cap Mattermosts
           /\ adapters = <<>> => Refusing = {"pool"}
           /\ adapters # <<>> => "pool" \notin Refusing
<1>1. pool
  BY DEF Closing, IInv, PoolOpen
<1>2. CASE adapters = <<>>
  BY <1>1, <1>2 DEF Refusing
<1>3. CASE adapters # <<>>
  <2>1. Head(adapters) \in Range(adapters) /\ Head(adapters) \in Range(Needed)
    BY <1>3, TakenOut
  <2> QED BY <1>1, <1>3, <2>1, NeededAssumption DEF IInv, SessionsOpen, Refusing
<1> QED BY <1>2, <1>3

\* The release goes on with the next.
LEMMA CloseErrorStep ==
    ASSUME IInv, CloseError, at # "finally"
    PROVE  IInv'
<1> USE DEF IInv
<1>1. /\ at \in {"unwind", "release"} /\ Refusing # {} /\ failed' = failed \cup Refusing
      /\ UNCHANGED <<command, pool, sessions, sockets, halfOpen, jobs>>
      /\ Closing
  BY DEF CloseError, Closing
<1>2. /\ faults' \in 0..MaxFaults /\ at' \in {at, "ended"} /\ failed' \subseteq Mattermosts \cup {"pool"}
  BY <1>1, RefusingOpen, BoundsAssumption DEF CloseError, Fault, TypeOK, Goto
<1>3. JobsSupervised'
  BY <1>1, <1>2, JobsKept DEF JobsSupervised, sockets, jobs
<1>4. CASE adapters # <<>>
  <2>1. /\ adapters' = Tail(adapters) /\ at' = at
        /\ Refusing = {Head(adapters)} /\ Head(adapters) \in sessions /\ Head(adapters) # "pool"
    BY <1>1, <1>4, RefusingOpen DEF CloseError
  <2>2. /\ adapters' \in Seq(Range(Needed))
        /\ Range(adapters) = Range(adapters') \cup {Head(adapters)}
        /\ Head(adapters) \notin Range(adapters') /\ IsInjective(adapters')
    BY <1>4, <2>1, TakenOut
  <2>3. TypeOK'
    BY <1>1, <1>2, <2>1, <2>2 DEF TypeOK, jobs, sockets
  <2>4. AdaptersFilled' /\ AdaptersOnce' /\ PoolOpen'
    BY <1>1, <2>1, <2>2 DEF AdaptersFilled, AdaptersOnce, PoolOpen, BeforeRelease, Starting
  <2>5. SessionsKnown' /\ SessionsOpen'
    BY <1>1, <2>1, <2>2 DEF SessionsKnown, SessionsOpen
  <2>6. FailedOpen'
    BY <1>1, <2>1, <2>2 DEF FailedOpen, BeforeRelease, Starting
  <2> QED BY <1>3, <2>3, <2>4, <2>5, <2>6
<1>5. CASE adapters = <<>>
  <2>1. adapters' = adapters /\ at' = "ended" /\ Refusing = {"pool"} /\ pool
    BY <1>1, <1>5, RefusingOpen DEF CloseError, Goto
  <2>2. TypeOK'
    BY <1>1, <1>2, <2>1 DEF TypeOK, jobs, sockets
  <2>3. AdaptersFilled' /\ AdaptersOnce' /\ PoolOpen'
    BY <1>1, <1>5, <2>1 DEF AdaptersFilled, AdaptersOnce, PoolOpen, BeforeRelease, Starting
  <2>4. SessionsKnown' /\ SessionsOpen'
    BY <1>1, <2>1 DEF SessionsKnown, SessionsOpen
  <2>5. FailedOpen'
    <3>1. Range(adapters') = {}
      BY <1>5, <2>1 DEF Range
    <3> QED BY <1>1, <2>1, <3>1 DEF FailedOpen, BeforeRelease, Starting
  <2> QED BY <1>3, <2>2, <2>3, <2>4, <2>5
<1> QED BY <1>4, <1>5

\* The release is cut off.
LEMMA CutOffStep ==
    ASSUME IInv, CloseInterrupted \/ (CloseError /\ at = "finally")
    PROVE  IInv'
<1> USE DEF IInv
<1>1. /\ at \in {"unwind", "finally"} /\ at' = "cut" /\ failed' = failed \cup Refusing
      /\ UNCHANGED <<command, pool, adapters, sessions, sockets, halfOpen, jobs>>
      /\ Closing
  BY DEF CloseInterrupted, CloseError, Goto, Closing
<1>2. /\ faults' \in 0..MaxFaults /\ failed' \subseteq Mattermosts \cup {"pool"}
      /\ Refusing \ {"pool"} \subseteq sessions
  BY <1>1, RefusingOpen, BoundsAssumption DEF CloseInterrupted, CloseError, Fault, TypeOK
<1>3. TypeOK'
  BY <1>1, <1>2 DEF TypeOK, jobs, sockets
<1>4. AdaptersFilled' /\ AdaptersOnce' /\ PoolOpen'
  BY <1>1 DEF AdaptersFilled, AdaptersOnce, PoolOpen, BeforeRelease, Starting
<1>5. SessionsKnown' /\ SessionsOpen' /\ FailedOpen'
  BY <1>1, <1>2 DEF SessionsKnown, SessionsOpen, FailedOpen, BeforeRelease, Starting
<1>6. JobsSupervised'
  BY <1>1, JobsKept DEF JobsSupervised, sockets, jobs
<1> QED BY <1>3, <1>4, <1>5, <1>6

\* Steps of the main task that leave all resources alone.
LEMMA MainStepKeeps ==
    ASSUME IInv, Migrate \/ RouterBuilt \/ Stop \/ Joined \/ Reported
    PROVE  IInv'
<1>1. UNCHANGED <<pool, adapters, sessions, socket, abandoned, listened, halfOpen, failed,
                  command, job, flag, consecutive, delay, faults>>
  BY DEF Migrate, RouterBuilt, Stop, Joined, Reported, resources, sockets, jobs
<1>2. \/ at = "migrate" /\ at' = IF Needed = <<>> THEN "router" ELSE "open"
      \/ at = "router" /\ at' = IF command = "run" THEN "up" ELSE "report"
      \/ at = "up" /\ at' = "stopping"
      \/ at = "stopping" /\ at' = "stats" /\ \A j \in Jobs : job[j] = "over"
      \/ at = "stats" /\ at' = "release"
      \/ at = "report" /\ at' = "finally"
  BY DEF Migrate, RouterBuilt, Stop, Joined, Reported, Goto
<1>3. TypeOK'
  BY <1>1, <1>2 DEF IInv, TypeOK
<1>4. /\ AdaptersFilled' /\ AdaptersOnce' /\ PoolOpen'
      /\ SessionsKnown' /\ SessionsOpen' /\ FailedOpen'
  BY <1>1, <1>2, ResourcesKept
<1>5. command \in {"run", "status"} /\ socket \cup abandoned = listened
  BY DEF IInv, TypeOK, JobsSupervised
<1>6. JobsSupervised'
  BY <1>1, <1>2, <1>5, JobsKept DEF Starting
<1> QED BY <1>3, <1>4, <1>6 DEF IInv

\* The jobs use the resources and leave them as they are; a listener on Slack
\* has its client while it runs.
LEMMA JobStepKeeps ==
    ASSUME IInv, NEW j \in Jobs,
           \/ StartJob(j) \/ Listen(j) \/ CancelJob(j)
           \/ \E long \in BOOLEAN : EndJob(j, long)
    PROVE  IInv'
<1>1. UNCHANGED <<command, at, pool, adapters, sessions, halfOpen, failed>>
  BY DEF StartJob, Listen, CancelJob, EndJob, LetGo, resources
<1>2. /\ AdaptersFilled' /\ AdaptersOnce' /\ PoolOpen'
      /\ SessionsKnown' /\ SessionsOpen' /\ FailedOpen'
  BY <1>1, ResourcesKept
<1>3. TypeOK'
  <2>1. CASE StartJob(j)
    BY <2>1 DEF IInv, TypeOK, StartJob, resources, sockets
  <2>2. CASE Listen(j)
    BY <2>2 DEF IInv, TypeOK, Listen, jobs
  <2>3. CASE CancelJob(j)
    BY <2>3 DEF IInv, TypeOK, CancelJob, LetGo
  <2>4. ASSUME NEW long \in BOOLEAN, EndJob(j, long) PROVE TypeOK'
    <3>1. /\ MinBackoff \in Nat /\ MaxBackoff \in Nat /\ MinBackoff <= MaxBackoff
          /\ MaxShortRuns \in Nat
      BY BackoffAssumption, BoundsAssumption
    <3>2. delay[j] \in MinBackoff..MaxBackoff /\ consecutive[j] \in 0..MaxShortRuns
      BY DEF IInv, TypeOK
    <3>3. Doubled(delay[j]) \in MinBackoff..MaxBackoff
      BY <3>1, <3>2 DEF Doubled
    <3>4. delay' \in [Jobs -> MinBackoff..MaxBackoff]
      BY <2>4, <3>1, <3>3 DEF IInv, TypeOK, EndJob
    <3>5. consecutive' \in [Jobs -> 0..MaxShortRuns]
      BY <2>4, <3>1, <3>2 DEF IInv, TypeOK, EndJob
    <3> QED BY <2>4, <3>4, <3>5 DEF IInv, TypeOK, EndJob, LetGo
  <2> QED BY <2>1, <2>2, <2>3, <2>4
<1>4. JobsSupervised'
  <2>1. at \in {"up", "stopping"} /\ at' = at /\ command' = command
    BY <1>1 DEF StartJob, Listen, CancelJob, EndJob, Supervising
  <2>2. \A k \in Jobs : job'[k] = "run" => Supervising'
    BY <2>1 DEF Supervising
  <2>3. job \in [Jobs -> {"none", "run", "sleep", "over"}]
    BY DEF IInv, TypeOK
  <2>4. \A k \in socket' : job'[k] = "run"
    <3>1. CASE StartJob(j)
      BY <2>3, <3>1 DEF IInv, TypeOK, JobsSupervised, StartJob, resources, sockets
    <3>2. CASE Listen(j)
      BY <3>2 DEF IInv, JobsSupervised, Listen, jobs
    <3>3. CASE CancelJob(j) \/ \E long \in BOOLEAN : EndJob(j, long)
      <4>1. socket' = socket \ {j} /\ \E state : job' = [job EXCEPT ![j] = state]
        BY <3>3 DEF CancelJob, EndJob, LetGo
      <4> QED BY <2>3, <4>1 DEF IInv, JobsSupervised
    <3> QED BY <3>1, <3>2, <3>3
  <2>5. socket' \cup abandoned' = listened'
    <3>1. socket \cup abandoned = listened
      BY DEF IInv, JobsSupervised
    <3> QED BY <3>1 DEF StartJob, Listen, CancelJob, EndJob, LetGo, resources, sockets
  <2>6. command = "run"
    BY <2>1 DEF IInv, JobsSupervised
  <2> QED BY <2>1, <2>2, <2>4, <2>5, <2>6 DEF JobsSupervised, Starting
<1> QED BY <1>2, <1>3, <1>4 DEF IInv

LEMMA Step == IInv /\ [Next]_vars => IInv'
<1> SUFFICES ASSUME IInv, [Next]_vars PROVE IInv'
  OBVIOUS
<1>1. CASE UNCHANGED vars
  <2>1. TypeOK'
    BY <1>1 DEF IInv, TypeOK, vars
  <2>2. /\ AdaptersFilled' /\ AdaptersOnce' /\ PoolOpen'
        /\ SessionsKnown' /\ SessionsOpen' /\ FailedOpen'
    BY <1>1, ResourcesKept DEF vars
  <2>3. JobsSupervised'
    BY <1>1 DEF IInv, JobsSupervised, Supervising, vars
  <2> QED BY <2>1, <2>2, <2>3 DEF IInv
<1>2. CASE Connect \/ ConnectError
  BY <1>2, ConnectStep
<1>3. CASE ClosePool
  BY <1>3, ClosePoolStep
<1>4. CASE Migrate \/ RouterBuilt \/ Stop \/ Joined \/ Reported
  BY <1>4, MainStepKeeps
<1>5. CASE OpenSession
  BY <1>5, OpenSessionStep
<1>6. CASE Opened
  BY <1>6, OpenedStep
<1>7. CASE CloseAdapter
  BY <1>7, CloseAdapterStep
<1>8. CASE BuildError
  BY <1>8, BuildErrorStep
<1>9. CASE CloseError \/ CloseInterrupted
  BY <1>9, CloseErrorStep, CutOffStep
<1>10. ASSUME NEW j \in Jobs,
              \/ StartJob(j) \/ Listen(j) \/ CancelJob(j)
              \/ \E long \in BOOLEAN : EndJob(j, long)
       PROVE  IInv'
  BY <1>10, JobStepKeeps
<1> QED BY <1>1, <1>2, <1>3, <1>4, <1>5, <1>6, <1>7, <1>8, <1>9, <1>10
        DEF Next, MainStep

-----------------------------------------------------------------------------
(* The theorems.                                                           *)

LEMMA Invariant == Spec => []IInv
BY Start, Step, PTL DEF Spec

\* The process's variables keep their types, for any workspaces and backoffs:
\* the backoff stays between its bounds (Lifecycle.TypeOK; supervisor.py, app.py).
THEOREM TypeCorrect == Spec => []TypeOK
<1>1. IInv => TypeOK
  BY DEF IInv
<1> QED BY <1>1, Invariant, PTL

\* What a process leaves open, for any number of adapters and of failing calls:
\* what has refused to close, the session of an adapter whose open() raised, and
\* a client for each Slack workspace listened to; where the release is cut off,
\* which happens only to a process that never came up or to `status`, also what
\* it has not come to (app.py:92-96, 141-155; slack.py:271-274).
THEOREM OpenAccounted == Spec => []LeftOpen
<1>1. IInv => LeftOpen
  <2> SUFFICES ASSUME IInv PROVE LeftOpen
    OBVIOUS
  <2> USE DEF IInv
  <2>1. Mattermosts \cap {"pool"} = {} /\ "pool" \notin sessions
    BY NeededAssumption, MattermostsAssumption DEF TypeOK
  <2>2. ASSUME at = "ended" PROVE Open = failed \cup halfOpen \cup listened
    <3>1. Range(adapters) = {}
      BY <2>2 DEF AdaptersFilled, Range
    <3>2. socket \cup abandoned = listened
      BY DEF JobsSupervised
    <3>3. sessions \subseteq failed \cup halfOpen
      BY <2>2, <3>1 DEF SessionsKnown
    <3>4. (failed \ {"pool"}) \cup halfOpen \subseteq sessions
      BY DEF FailedOpen
    <3>5. pool <=> "pool" \in failed
      BY <2>2 DEF PoolOpen
    <3> QED BY <3>2, <3>3, <3>4, <3>5 DEF Open
  <2>3. ASSUME at = "cut"
        PROVE  Open = {"pool"} \cup failed \cup halfOpen \cup (Range(adapters) \cap Mattermosts)
    <3>1. socket \cup abandoned = {}
      BY <2>3 DEF JobsSupervised
    <3>2. pool
      BY <2>3 DEF PoolOpen
    <3>3. sessions \subseteq failed \cup halfOpen \cup (Range(adapters) \cap Mattermosts)
      BY <2>3 DEF SessionsKnown, TypeOK
    <3>4. (failed \ {"pool"}) \cup halfOpen \cup (Range(adapters) \cap Mattermosts) \subseteq sessions
      BY DEF FailedOpen, SessionsOpen
    <3> QED BY <3>1, <3>2, <3>3, <3>4 DEF Open
  <2>4. at = "cut" => \A j \in Jobs : job[j] = "none"
    BY DEF JobsSupervised
  <2> QED BY <2>2, <2>3, <2>4 DEF LeftOpen
<1> QED BY <1>1, Invariant, PTL

\* No job runs on a closed adapter or pool, because the release begins only when
\* the TaskGroup has seen the end of each job (app.py:131-138).
THEOREM JobsUseOpenResources == Spec => []UsedWhileOpen
<1>1. IInv => UsedWhileOpen
  <2> SUFFICES ASSUME IInv, NEW j \in Jobs, job[j] = "run"
      PROVE  pool /\ adapters = Needed /\ (j \in Mattermosts => j \in sessions)
    BY DEF UsedWhileOpen
  <2>1. at \in {"up", "stopping"}
    BY DEF IInv, JobsSupervised, Supervising
  <2>2. pool /\ adapters = Needed
    BY <2>1 DEF IInv, PoolOpen, AdaptersFilled, BeforeRelease
  <2>3. j \in Mattermosts => j \in sessions
    BY <2>2, MattermostsAssumption DEF IInv, SessionsOpen
  <2> QED BY <2>2, <2>3
<1> QED BY <1>1, Invariant, PTL

\* The health report shows a job as running exactly while it runs, through
\* every return, delay and cancellation (supervisor.py:10).
THEOREM HealthReported == Spec => []HealthTruthful
<1>1. Init => HealthTruthful
  BY DEF Init, HealthTruthful
<1>2. IInv /\ HealthTruthful /\ [Next]_vars => HealthTruthful'
  <2> SUFFICES ASSUME IInv, HealthTruthful, [Next]_vars PROVE HealthTruthful'
    OBVIOUS
  <2>1. CASE UNCHANGED <<job, flag>>
    BY <2>1 DEF HealthTruthful
  <2>2. ASSUME NEW j \in Jobs,
               StartJob(j) \/ CancelJob(j) \/ \E long \in BOOLEAN : EndJob(j, long)
        PROVE  HealthTruthful'
    <3>1. \E state \in {"run", "sleep", "over"} :
            /\ job' = [job EXCEPT ![j] = state]
            /\ flag' = [flag EXCEPT ![j] = (state = "run")]
      BY <2>2 DEF StartJob, CancelJob, EndJob
    <3>2. job \in [Jobs -> {"none", "run", "sleep", "over"}] /\ flag \in [Jobs -> BOOLEAN]
      BY DEF IInv, TypeOK
    <3> QED BY <3>1, <3>2 DEF HealthTruthful
  <2>3. ASSUME NEW j \in Jobs, Listen(j) PROVE HealthTruthful'
    BY <2>1, <2>3 DEF Listen, jobs
  <2>4. MainStep \/ Stop \/ ConnectError \/ BuildError \/ CloseError \/ CloseInterrupted =>
            UNCHANGED <<job, flag>>
    BY DEF MainStep, Stop, Joined, Connect, Migrate, OpenSession, Opened, RouterBuilt,
           Reported, CloseAdapter, ClosePool, ConnectError, BuildError, CloseError,
           CloseInterrupted, jobs
  <2> QED BY <2>1, <2>2, <2>3, <2>4 DEF Next, vars
<1> QED BY <1>1, <1>2, Start, Step, PTL DEF Spec
===============================================================================
