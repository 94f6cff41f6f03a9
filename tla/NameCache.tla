------------------------------- MODULE NameCache -------------------------------
(***************************************************************************)
(* The display names an adapter gives to authors and mentions: the cache   *)
(* of adapters/names.py, the lookups that fill it and the profile events   *)
(* that refresh it (mattermost.py, slack.py).                              *)
(*                                                                         *)
(* A name is the number of times its user has changed it before.  Time is  *)
(* kept as ages, in units that divide the time to live.  A copy's          *)
(* override_username and a bot's username need no lookup and are left out. *)
(***************************************************************************)
EXTENDS Integers, Sequences, FiniteSets, SequencesExt

CONSTANTS
    Users,
    Readers,     \* tasks that build events and need names
    Listener,    \* the one of them that reads Mattermost's socket
    Ttl,         \* NameCache._ttl
    Latency,     \* age at most of an answer or an event when it is applied
    MaxSize,     \* NameCache._max_size
    MaxChanges,  \* bound: name changes of each user
    MaxFaults    \* bound: failing lookups and lost connections

ASSUME ReadersAssumption == Listener \in Readers
ASSUME CacheAssumption == {Ttl, MaxSize} \subseteq Nat \ {0}
ASSUME BoundsAssumption ==
    {Latency, MaxFaults} \subseteq Nat /\ MaxChanges \in [Users -> Nat]

VARIABLES
    platform,  \* "mattermost" or "slack"
    profile,   \* the current name of each user
    gone,      \* for each user and past name, how long it has been replaced
    entries,   \* NameCache._entries: user -> [name, age]
    lookup,    \* what each reader's call of _display_name waits for
    events,    \* profile events on their way, oldest first
    excused,   \* ghost: users whose entry a late answer or a lost event spoilt
    faults     \* used up so far

vars == <<platform, profile, gone, entries, lookup, events, excused, faults>>

Names == UNION {0 .. MaxChanges[u] : u \in Users}
Horizon == Ttl + Latency    \* the greatest age that matters
NoName == -1
Idle == [step |-> "idle"]
Older(age) == IF age < Horizon THEN age + 1 ELSE Horizon

Init ==
    /\ platform \in {"mattermost", "slack"}
    /\ profile = [u \in Users |-> 0]
    /\ gone = [u \in Users |-> [n \in {} |-> 0]]
    /\ entries = [u \in {} |-> 0]
    /\ lookup = [r \in Readers |-> Idle]
    /\ events = <<>>
    /\ excused = {}
    /\ faults = 0

Fault == faults < MaxFaults /\ faults' = faults + 1

-----------------------------------------------------------------------------
(* NameCache.                                                              *)

\* What get() answers.
Hit(u) ==
    IF u \in DOMAIN entries /\ entries[u].age < Ttl
    THEN entries[u].name ELSE NoName

Without(S) == [v \in DOMAIN entries \ S |-> entries[v]]

\* Mutant of Put: no bound on the number of entries.
Put_Unbounded(u, name) ==
    entries' = [v \in DOMAIN entries \cup {u} |->
                   IF v = u THEN [name |-> name, age |-> 0] ELSE entries[v]]

\* put(): a new user who finds the cache full empties it.
Put(u, name) ==
    LET full == Cardinality(DOMAIN entries) >= MaxSize /\ u \notin DOMAIN entries
        kept == IF full THEN Without(Users) ELSE Without({u})
    IN  entries' = [v \in DOMAIN kept \cup {u} |->
                       IF v = u THEN [name |-> name, age |-> 0] ELSE kept[v]]

-----------------------------------------------------------------------------
(* _display_name: a hit is returned at once; a miss suspends the reader.   *)

\* get() removes the entry it finds expired.
Ask(r, u) ==
    /\ lookup[r] = Idle
    /\ Hit(u) = NoName
    /\ entries' = Without({u})
    /\ lookup' = [lookup EXCEPT ![r] = [step |-> "asked", user |-> u]]
    /\ UNCHANGED <<platform, profile, gone, events, excused, faults>>

\* The platform reads the profile: "/users/{id}" or users.info.
Read(r) ==
    /\ lookup[r].step = "asked"
    /\ lookup' = [lookup EXCEPT ![r] =
                     [step |-> "read", user |-> lookup[r].user,
                      name |-> profile[lookup[r].user], age |-> 0]]
    /\ UNCHANGED <<platform, profile, gone, entries, events, excused, faults>>

\* The answer reaches the reader, which caches it whatever is there by then.
Answer(r) ==
    LET u == lookup[r].user
        name == lookup[r].name
    IN  /\ lookup[r].step = "read"
        /\ Put(u, name)
        /\ excused' = IF name = profile[u] THEN excused \ {u} ELSE excused \cup {u}
        /\ lookup' = [lookup EXCEPT ![r] = Idle]
        /\ UNCHANGED <<platform, profile, gone, events, faults>>

\* Mutant of LookupError: the fallback, the name a user began with, is cached.
LookupError_Kept(r) ==
    /\ lookup[r].step \in {"asked", "read"}
    /\ Fault
    /\ Put(lookup[r].user, 0)
    /\ lookup' = [lookup EXCEPT ![r] = Idle]
    /\ UNCHANGED <<platform, profile, gone, events, excused>>

\* The call raises an AdapterError: the message gets the fallback name, the
\* cache nothing.
LookupError(r) ==
    /\ lookup[r].step \in {"asked", "read"}
    /\ Fault
    /\ lookup' = [lookup EXCEPT ![r] = Idle]
    /\ UNCHANGED <<platform, profile, gone, entries, events, excused>>

-----------------------------------------------------------------------------
(* user_updated and user_change.                                           *)

\* A user takes another name and the platform says so to the adapter.
Rename(u) ==
    /\ profile[u] < MaxChanges[u]
    /\ profile' = [profile EXCEPT ![u] = @ + 1]
    /\ gone' = [gone EXCEPT ![u] =
                   [n \in DOMAIN @ \cup {profile[u]} |->
                       IF n = profile[u] THEN 0 ELSE @[n]]]
    /\ events' = Append(events, [user |-> u, name |-> profile[u] + 1, age |-> 0])
    /\ UNCHANGED <<platform, entries, lookup, excused, faults>>

\* Mutant of Refresh: user_updated is not handled.
Refresh_Ignored(i) ==
    /\ i \in DOMAIN events
    /\ platform = "mattermost" => i = 1 /\ lookup[Listener] = Idle
    /\ events' = RemoveAt(events, i)
    /\ UNCHANGED <<platform, profile, gone, entries, lookup, excused, faults>>

\* Mattermost's listener takes one payload after the other and none while it
\* waits for a name; a Slack envelope has a task of its own, which acknowledges
\* first, so a later one may be applied before it.
Refresh(i) ==
    /\ i \in DOMAIN events
    /\ platform = "mattermost" => i = 1 /\ lookup[Listener] = Idle
    /\ LET u == events[i].user
           name == events[i].name
           last == \A j \in DOMAIN events : j # i => events[j].user # u
       IN  /\ Put(u, name)
           /\ excused' = CASE name = profile[u] -> excused \ {u}
                           [] name # profile[u] /\ last /\ platform = "slack" ->
                                excused \cup {u}
                           [] OTHER -> excused
    /\ events' = RemoveAt(events, i)
    /\ UNCHANGED <<platform, profile, gone, lookup, faults>>

\* The socket is lost with what is on its way.
Disconnect ==
    /\ events # <<>>
    /\ Fault
    /\ excused' = excused \cup {events[i].user : i \in DOMAIN events}
    /\ events' = <<>>
    /\ UNCHANGED <<platform, profile, gone, entries, lookup>>

-----------------------------------------------------------------------------
\* Time passes, which no answer and no event outlives by more than Latency.
Tick ==
    /\ \A i \in DOMAIN events : events[i].age < Latency
    /\ \A r \in Readers : lookup[r].step = "read" => lookup[r].age < Latency
    /\ gone' = [u \in Users |-> [n \in DOMAIN gone[u] |-> Older(gone[u][n])]]
    /\ entries' = [u \in DOMAIN entries |-> [entries[u] EXCEPT !.age = IF @ < Ttl THEN @ + 1 ELSE Ttl]]
    /\ lookup' = [r \in Readers |->
                     IF lookup[r].step = "read"
                     THEN [lookup[r] EXCEPT !.age = @ + 1] ELSE lookup[r]]
    /\ events' = [i \in DOMAIN events |-> [events[i] EXCEPT !.age = @ + 1]]
    /\ UNCHANGED <<platform, profile, excused, faults>>

Next ==
    \/ \E r \in Readers, u \in Users : Ask(r, u)
    \/ \E r \in Readers : Read(r)
    \/ \E r \in Readers : Answer(r)
    \/ \E r \in Readers : LookupError(r)
    \/ \E u \in Users : Rename(u)
    \/ \E i \in DOMAIN events : Refresh(i)
    \/ Disconnect
    \/ Tick

Spec == Init /\ [][Next]_vars

-----------------------------------------------------------------------------
(* Properties.                                                             *)

\* Types of the state.
TypeOK ==
    /\ platform \in {"mattermost", "slack"}
    /\ profile \in [Users -> Nat]
    /\ \A u \in Users : profile[u] <= MaxChanges[u]
    /\ DOMAIN entries \subseteq Users
    /\ \A u \in DOMAIN entries :
           entries[u] \in [name : Names, age : 0 .. Ttl]
    /\ DOMAIN gone = Users /\ DOMAIN lookup = Readers
    /\ \A u \in Users : /\ DOMAIN gone[u] = 0 .. profile[u] - 1
                        /\ \A n \in DOMAIN gone[u] : gone[u][n] \in 0 .. Horizon
    /\ \A r \in Readers : \/ lookup[r] = Idle
                          \/ lookup[r] \in [step : {"asked"}, user : Users]
                          \/ lookup[r] \in [step : {"read"}, user : Users,
                                            name : Names, age : 0 .. Latency]
    /\ events \in Seq([user : Users, name : Names, age : 0 .. Latency])
    /\ faults \in 0 .. MaxFaults

\* The cache never outgrows its limit, whoever fills it (names.py:24-26, 50).
CacheBounded == Cardinality(DOMAIN entries) <= MaxSize

\* A name the cache gives out was its user's name at most one time to live and
\* one latency ago, however lookups, events and their losses interleave
\* (names.py:8, 20-21: no more than five minutes of a wrong name).
NamesRecent ==
    \A u \in Users :
        LET name == Hit(u)
        IN  name \notin {NoName, profile[u]} => gone[u][name] < Ttl + Latency

\* A name is wrong only while the event of its change is on its way, or because
\* an event was lost or applied in the wrong order, or because the answer to a
\* lookup was overtaken by a change: otherwise an event shows at once
\* (names.py:9).
StaleIsExplained ==
    \A u \in Users :
        Hit(u) \notin {NoName, profile[u]} =>
            \/ u \in excused
            \/ \E i \in DOMAIN events : events[i].user = u
===============================================================================
