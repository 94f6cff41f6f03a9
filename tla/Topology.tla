------------------------------- MODULE Topology -------------------------------
(***************************************************************************)
(* Which channels are bridged with which: the configuration file and its   *)
(* validation (chbridge/config.py), build_router() and _persist() of       *)
(* router.py, the tables they write, and the migrations that make these    *)
(* tables (store/db.py).                                                   *)
(*                                                                         *)
(* The file is edited and the bridge started again with it, again and      *)
(* again, on the same database; `chbridge status` and `chbridge migrate`   *)
(* do a part of what a start does, from a process of their own.            *)
(***************************************************************************)
EXTENDS Naturals, Sequences, FiniteSets, SequencesExt

CONSTANTS
    Channels,    \* channels, as their ids tell them apart
    Names,       \* channel -> its name, which is unique in a team only
    Configs,     \* contents of the file: bridges [id, endpoints], whose
                 \* endpoints are [chan, by], by "name" or by "id"
    Files,       \* number of migration files
    MaxEdits,    \* bound: edits of the file
    MaxFaults    \* bound: crashes and failing calls

EndpointConfig == [chan : Channels, by : {"name", "id"}]

ASSUME NamesAssumption == DOMAIN Names = Channels
ASSUME ConfigsAssumption ==
    \A c \in Configs : /\ c \in Seq(Range(c))
                       /\ \A i \in DOMAIN c : c[i].endpoints \in Seq(EndpointConfig)
ASSUME BoundsAssumption == {Files, MaxEdits, MaxFaults} \subseteq Nat

VARIABLES
    file,        \* the configuration file
    applied,     \* migrations that were run, in order (schema_migrations)
    endpoints,   \* table endpoints: <<bridge, channel>>, which is its id too
    cursors,     \* table sync_cursors: endpoints that have a cursor
    stored,      \* ghost: the configuration stored last
    proc,        \* the processes: the bridge and a command
    edits, faults

vars == <<file, applied, endpoints, cursors, stored, proc, edits, faults>>
tables == <<applied, endpoints, cursors, stored>>

Procs == {"run", "status"}
Off == [at |-> "off", config |-> <<>>, seen |-> {}]

-----------------------------------------------------------------------------
(* Configurations.                                                         *)

\* What the validator takes for the channel: its name as it stands, without
\* the team, or else its id.
Ref(e) == IF e.by = "name" THEN <<"name", Names[e.chan]>> ELSE <<"id", e.chan>>

Ids(c) == {c[i].id : i \in DOMAIN c}
ChannelsOf(b) == {b.endpoints[n].chan : n \in DOMAIN b.endpoints}
EndpointsOf(c) == UNION {{<<c[i].id, t>> : t \in ChannelsOf(c[i])} : i \in DOMAIN c}

\* The validators of BridgeConfig and AppConfig.
Valid(c) ==
    /\ Cardinality(Ids(c)) = Len(c)
    /\ \A i \in DOMAIN c : Len(c[i].endpoints) >= 2
    /\ \A i, j \in DOMAIN c : \A n \in DOMAIN c[i].endpoints, k \in DOMAIN c[j].endpoints :
         Ref(c[i].endpoints[n]) = Ref(c[j].endpoints[k]) => i = j /\ n = k

\* Mutants of Conflict: the constraint has bridge_id among its columns; a row
\* that is there already is not updated (no ON CONFLICT).
Conflict_PerBridge(c, rows) == FALSE
Conflict_Insert(c, rows) ==
    \E i \in DOMAIN c : \E t \in ChannelsOf(c[i]) :
        \/ \E r \in rows : r[2] = t /\ (r[1] = c[i].id \/ r[1] \notin {c[k].id : k \in 1..i})
        \/ \E k \in 1..(i - 1) : t \in ChannelsOf(c[k])

\* Another one: the rows that are left over are removed after all insertions.
Conflict_DeleteLast(c, rows) ==
    \E i \in DOMAIN c : \E t \in ChannelsOf(c[i]) :
        \/ \E r \in rows : r[2] = t /\ r[1] # c[i].id
        \/ \E k \in 1..(i - 1) : t \in ChannelsOf(c[k])

\* UNIQUE (channel) is violated while _persist() goes through the bridges in
\* order: it has removed the rows only of those it has come to.
Conflict(c, rows) ==
    \E i \in DOMAIN c : \E t \in ChannelsOf(c[i]) :
        \/ \E r \in rows : r[2] = t /\ r[1] \notin {c[k].id : k \in 1..i}
        \/ \E k \in 1..(i - 1) : t \in ChannelsOf(c[k])

Init ==
    /\ file \in Configs
    /\ applied = <<>>
    /\ endpoints = {}
    /\ cursors = {}
    /\ stored = <<>>
    /\ proc = [p \in Procs |-> Off]
    /\ edits = 0 /\ faults = 0

Fault == faults < MaxFaults /\ faults' = faults + 1
Become(p, state) == proc' = [proc EXCEPT ![p] = state]
Goto(p, at) == Become(p, [proc[p] EXCEPT !.at = at])

-----------------------------------------------------------------------------
(* Starting.                                                               *)

\* The operator writes another configuration.
EditFile ==
    /\ edits < MaxEdits
    /\ edits' = edits + 1
    /\ \E c \in Configs \ {file} : file' = c
    /\ UNCHANGED <<tables, proc, faults>>

\* AppConfig.load(): an invalid file ends the process at once.
Load(p) ==
    /\ proc[p].at = "off"
    /\ Valid(file)
    /\ Become(p, [at |-> "migrate", config |-> file, seen |-> {}])
    /\ UNCHANGED <<file, tables, edits, faults>>

\* apply_migrations() makes its table, unless it exists, and reads it.
ReadApplied(p) ==
    /\ proc[p].at = "migrate"
    /\ Become(p, [at |-> "apply", config |-> proc[p].config, seen |-> Range(applied)])
    /\ UNCHANGED <<file, tables, edits, faults>>

Missing(p) == (1..Files) \ proc[p].seen
NextFile(p) == CHOOSE f \in Missing(p) : \A g \in Missing(p) : f <= g

\* Mutant of Apply: the file can be run twice (IF NOT EXISTS, DO NOTHING).
Apply_Again(p) ==
    /\ proc[p].at = "apply" /\ Missing(p) # {}
    /\ applied' = Append(applied, NextFile(p))
    /\ Become(p, [proc[p] EXCEPT !.seen = @ \cup {NextFile(p)}])
    /\ UNCHANGED <<file, endpoints, cursors, stored, edits, faults>>

\* A file and its entry in one transaction.  If another process has been
\* faster the transaction fails, and the start with it.
Apply(p) ==
    /\ proc[p].at = "apply" /\ Missing(p) # {}
    /\ IF NextFile(p) \in Range(applied)
         THEN Become(p, Off) /\ UNCHANGED applied
         ELSE /\ applied' = Append(applied, NextFile(p))
              /\ Become(p, [proc[p] EXCEPT !.seen = @ \cup {NextFile(p)}])
    /\ UNCHANGED <<file, endpoints, cursors, stored, edits, faults>>

\* All files are applied: the adapters are opened and the names resolved.
\* `chbridge migrate` ends here.
Resolve(p) ==
    /\ proc[p].at = "apply" /\ Missing(p) = {}
    /\ Goto(p, "persist")
    /\ UNCHANGED <<file, tables, edits, faults>>

MigrateEnds ==
    /\ proc["status"].at = "apply" /\ Missing("status") = {}
    /\ Become("status", Off)
    /\ UNCHANGED <<file, tables, edits, faults>>

\* Any step of a start can fail: a call, a name that is not found, a crash.
StartFails(p) ==
    /\ proc[p].at \in {"migrate", "apply", "persist"}
    /\ Fault
    /\ Become(p, Off)
    /\ UNCHANGED <<file, tables, edits>>

\* Mutant of Persist: all rows of a bridge are removed and written again.
Persist_Rewrite(p) ==
    LET c == proc[p].config
        kept == {r \in endpoints : r[1] \notin Ids(c)} IN
    /\ proc[p].at = "persist"
    /\ IF Conflict(c, endpoints)
         THEN Become(p, Off) /\ UNCHANGED <<endpoints, cursors, stored>>
         ELSE /\ endpoints' = kept \cup EndpointsOf(c)
              /\ cursors' = cursors \cap kept
              /\ stored' = c
              /\ IF p = "run" THEN Goto(p, "up") ELSE Become(p, Off)
    /\ UNCHANGED <<file, applied, edits, faults>>
\* _persist(), in one transaction.  The rows of bridges that are not in the
\* file are left alone; a cursor goes with its endpoint (ON DELETE CASCADE).
Persist(p) ==
    LET c == proc[p].config
        kept == {r \in endpoints : r[1] \notin Ids(c)} IN
    /\ proc[p].at = "persist"
    /\ IF Conflict(c, endpoints)
         THEN Become(p, Off) /\ UNCHANGED <<endpoints, cursors, stored>>
         ELSE /\ endpoints' = kept \cup EndpointsOf(c)
              /\ cursors' = cursors \cap endpoints'
              /\ stored' = c
              /\ IF p = "run" THEN Goto(p, "up") ELSE Become(p, Off)
    /\ UNCHANGED <<file, applied, edits, faults>>

-----------------------------------------------------------------------------
(* The bridge in operation.                                                *)

\* Router.endpoint_for(): what the running bridge takes the channel for.
Routed == IF proc["run"].at = "up" THEN EndpointsOf(proc["run"].config) ELSE {}

\* An event of a channel: submit() stores the cursor of the endpoint, which
\* must have its row (a foreign key).
Advance(e) ==
    /\ e \in Routed \cap endpoints
    /\ cursors' = cursors \cup {e}
    /\ UNCHANGED <<file, applied, endpoints, stored, proc, edits, faults>>

\* The bridge is stopped or dies.
Down ==
    /\ proc["run"].at = "up"
    /\ Fault
    /\ Become("run", Off)
    /\ UNCHANGED <<file, tables, edits>>

StartStep(p) ==
    Load(p) \/ ReadApplied(p) \/ Apply(p) \/ Resolve(p) \/ Persist(p)

Next ==
    \/ EditFile \/ MigrateEnds \/ Down
    \/ \E p \in Procs : StartStep(p) \/ StartFails(p)
    \/ \E e \in Routed : Advance(e)

Spec == Init /\ [][Next]_vars

\* A bridge that is not up is started again.
FairSpec == Spec /\ WF_vars(StartStep("run"))

-----------------------------------------------------------------------------
(* Properties.                                                             *)

\* Types and foreign keys; a process works with a configuration that passed
\* the validators.
TypeOK ==
    /\ file \in Configs
    /\ applied \in Seq(1..Files)
    /\ endpoints \subseteq UNION {EndpointsOf(c) : c \in Configs}
    /\ cursors \subseteq endpoints
    /\ stored \in Configs \cup {<<>>}
    /\ proc \in [Procs -> [at : {"off", "migrate", "apply", "persist", "up"},
                           config : Configs \cup {<<>>}, seen : SUBSET (1..Files)]]
    /\ \A p \in Procs :
         proc[p].at # "off" => proc[p].config \in Configs /\ Valid(proc[p].config)
    /\ edits \in 0..MaxEdits /\ faults \in 0..MaxFaults

\* A channel belongs to one bridge (PRD 5.1, 001_init.sql:28-31), in the table
\* and in the routes of the running process, also where the validator does not
\* see that a name and an id are the same channel.
OneBridgePerChannel ==
    /\ \A r, s \in endpoints : r[2] = s[2] => r = s
    /\ \A r, s \in Routed : r[2] = s[2] => r = s

\* What is routed has its row, without which no cursor can be stored, and the
\* bridges of the file have no row of a channel they have lost (router.py:167),
\* as long as no other process has stored another configuration.
RoutesHaveRows ==
    Routed # {} /\ stored = proc["run"].config =>
        Routed = {r \in endpoints : r[1] \in Ids(stored)}

\* A configuration that was stored can be started again, until another one is
\* stored: _persist() does not stand in its own way.
StartRepeatable == stored # <<>> => ~Conflict(stored, endpoints)

\* A start takes away the cursors of channels that have left their bridge only;
\* the outage of every other channel can be backfilled.
CursorsKept == [][\A e \in cursors \ cursors' : e \notin EndpointsOf(stored')]_vars

\* Every migration is run once and in order, whichever processes start at the
\* same time, and none goes on without them (db.py:88-92).
MigrationsOnce ==
    /\ \A i \in DOMAIN applied : applied[i] = i
    /\ \A p \in Procs : proc[p].at \in {"persist", "up"} => Len(applied) = Files

Precedes(a, b) == \E i, j \in DOMAIN file : i < j /\ file[i].id = a /\ file[j].id = b

\* Some channel of the file is in two of its bridges, or has its row in a
\* bridge that is not in the file or comes after the one it has moved to.
Blocked ==
    \E e \in EndpointsOf(file) :
        \/ \E d \in EndpointsOf(file) \ {e} : d[2] = e[2]
        \/ \E r \in endpoints \ {e} : r[2] = e[2] /\ ~Precedes(r[1], e[1])

\* The bridge comes up in the end, whatever other processes do to the database
\* in between, unless the file cannot be started with.
ComesUp == <>[](proc["run"].at = "up" \/ ~Valid(file) \/ Blocked)
=============================================================================
