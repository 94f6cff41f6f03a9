---------------------------- MODULE TopologyProofs ----------------------------
(* Theorems about Topology and their proofs.                               *)
EXTENDS Topology, TLAPS

-----------------------------------------------------------------------------
(* The inductive invariants.                                               *)

\* No channel stands twice in a set of rows.
Unique(rows) == \A r, s \in rows : r[2] = s[2] => r = s

\* OneBridgePerChannel alone is not inductive: that a configuration can be
\* stored at all says that its own rows are unique, too, and they stay in the
\* routes of a bridge when the table has changed.
Rows ==
    /\ Unique(endpoints)
    /\ proc["run"].at = "up" => Unique(EndpointsOf(proc["run"].config))
    /\ {r \in endpoints : r[1] \in Ids(stored)} = EndpointsOf(stored)

\* The migrations run so far are the first ones, and a process has seen some of
\* these from the first on.
Migrated ==
    /\ Len(applied) <= Files
    /\ \A i \in DOMAIN applied : applied[i] = i
    /\ \A p \in Procs : \E n \in 0..Len(applied) : proc[p].seen = 1..n
    /\ \A p \in Procs : proc[p].at \in {"persist", "up"} => Len(applied) = Files

-----------------------------------------------------------------------------
(* Configurations and rows.                                                *)

LEMMA ConfigSeq ==
    ASSUME NEW c \in Configs
    PROVE  c \in Seq(Range(c)) /\ DOMAIN c = 1..Len(c) /\ Len(c) \in Nat
BY ConfigsAssumption

\* A row of a configuration comes from one of its bridges.
LEMMA RowOf ==
    ASSUME NEW c, NEW r
    PROVE  r \in EndpointsOf(c) <=>
               \E i \in DOMAIN c : \E t \in ChannelsOf(c[i]) : r = <<c[i].id, t>>
BY DEF EndpointsOf

LEMMA NothingStored == Ids(<<>>) = {} /\ EndpointsOf(<<>>) = {}
BY DEF Ids, EndpointsOf

\* Without a conflict no channel is in two bridges of the configuration.
LEMMA OwnRowsUnique ==
    ASSUME NEW c \in Configs, NEW rows, ~Conflict(c, rows)
    PROVE  Unique(EndpointsOf(c))
<1> SUFFICES ASSUME NEW r \in EndpointsOf(c), NEW s \in EndpointsOf(c), r[2] = s[2]
    PROVE  r = s
  BY DEF Unique
<1>1. PICK i \in DOMAIN c : \E t \in ChannelsOf(c[i]) : r = <<c[i].id, t>>
  BY RowOf
<1>2. PICK j \in DOMAIN c : \E t \in ChannelsOf(c[j]) : s = <<c[j].id, t>>
  BY RowOf
<1>3. PICK t \in ChannelsOf(c[i]) : r = <<c[i].id, t>>
  BY <1>1
<1>4. t \in ChannelsOf(c[j]) /\ s = <<c[j].id, t>>
  BY <1>2, <1>3
<1>5. i \in Nat \ {0} /\ j \in Nat \ {0}
  BY ConfigSeq
<1>6. ~(i < j)
  <2>1. i < j => i \in 1..(j - 1)
    BY <1>5
  <2> QED BY <1>3, <1>4, <2>1 DEF Conflict
<1>7. ~(j < i)
  <2>1. j < i => j \in 1..(i - 1)
    BY <1>5
  <2> QED BY <1>3, <1>4, <2>1 DEF Conflict
<1>8. i = j
  BY <1>5, <1>6, <1>7
<1> QED BY <1>3, <1>4, <1>8

\* The rows of bridges that are not in the configuration.
Others(c, rows) == {r \in rows : r[1] \notin Ids(c)}

\* Without a conflict, rows that were unique are so when c is stored.
LEMMA StoredRowsUnique ==
    ASSUME NEW c \in Configs, NEW rows, Unique(rows), ~Conflict(c, rows)
    PROVE  Unique(Others(c, rows) \cup EndpointsOf(c))
<1>1. Unique(EndpointsOf(c))
  BY OwnRowsUnique
<1>2. ASSUME NEW r \in Others(c, rows), NEW s \in EndpointsOf(c) PROVE r[2] # s[2]
  <2>1. PICK i \in DOMAIN c : \E t \in ChannelsOf(c[i]) : s = <<c[i].id, t>>
    BY RowOf
  <2>2. PICK t \in ChannelsOf(c[i]) : s = <<c[i].id, t>>
    BY <2>1
  <2>3. r \in rows /\ r[1] \notin {c[k].id : k \in 1..i}
    BY ConfigSeq DEF Others, Ids
  <2> QED BY <2>2, <2>3 DEF Conflict
<1> QED BY <1>1, <1>2 DEF Unique, Others

\* What was stored can be stored again.
LEMMA StoredAgain ==
    ASSUME NEW c \in Configs, NEW rows, ~Conflict(c, rows)
    PROVE  ~Conflict(c, Others(c, rows) \cup EndpointsOf(c))
<1> SUFFICES ASSUME NEW i \in DOMAIN c, NEW t \in ChannelsOf(c[i]),
                    NEW r \in Others(c, rows) \cup EndpointsOf(c),
                    r[2] = t, r[1] \notin {c[k].id : k \in 1..i}
    PROVE  FALSE
  BY DEF Conflict
<1>1. r \notin rows
  BY DEF Conflict
<1>2. r \in EndpointsOf(c)
  BY <1>1 DEF Others
<1>3. PICK j \in DOMAIN c : \E u \in ChannelsOf(c[j]) : r = <<c[j].id, u>>
  BY <1>2, RowOf
<1>4. t \in ChannelsOf(c[j]) /\ r[1] = c[j].id
  BY <1>3
<1>5. i \in Nat \ {0} /\ j \in Nat \ {0} /\ j \notin 1..i
  BY <1>4, ConfigSeq
<1>6. i \in 1..(j - 1)
  BY <1>5
<1> QED BY <1>4, <1>6 DEF Conflict

\* The rows of the bridges of c are those of c, once it is stored.
LEMMA RowsOfStored ==
    ASSUME NEW c, NEW rows
    PROVE  {r \in Others(c, rows) \cup EndpointsOf(c) : r[1] \in Ids(c)} = EndpointsOf(c)
<1>1. \A r \in EndpointsOf(c) : r[1] \in Ids(c)
  BY RowOf DEF Ids
<1> QED BY <1>1 DEF Others

-----------------------------------------------------------------------------
(* Types and migrations.                                                   *)

LEMMA Start == Init => TypeOK /\ Migrated
<1> SUFFICES ASSUME Init PROVE TypeOK /\ Migrated
  OBVIOUS
<1>1. TypeOK
  BY BoundsAssumption DEF Init, TypeOK, Off
<1>2. Migrated
  <2>1. Len(applied) = 0 /\ DOMAIN applied = {} /\ Files \in Nat
    BY BoundsAssumption DEF Init
  <2>2. \A p \in Procs : proc[p].seen = 1..0 /\ proc[p].at = "off"
    BY DEF Init, Off
  <2> QED BY <2>1, <2>2 DEF Migrated
<1> QED BY <1>1, <1>2

\* The next migration of a process is the one after those it has seen.
LEMMA NextAfterSeen ==
    ASSUME NEW p \in Procs, NEW n \in Nat, proc[p].seen = 1..n, Missing(p) # {}
    PROVE  NextFile(p) = n + 1 /\ n + 1 \in 1..Files
<1> USE BoundsAssumption
<1>1. PICK f \in Missing(p) : TRUE
  OBVIOUS
<1>2. f \in 1..Files /\ n < f
  BY <1>1 DEF Missing
<1>3. n + 1 \in Missing(p) /\ \A g \in Missing(p) : n + 1 <= g
  BY <1>2 DEF Missing
<1>4. /\ NextFile(p) \in Missing(p)
      /\ \A g \in Missing(p) : NextFile(p) <= g
  BY <1>3 DEF NextFile
<1>5. Missing(p) \subseteq Nat
  BY DEF Missing
<1>6. NextFile(p) <= n + 1 /\ n + 1 <= NextFile(p) /\ NextFile(p) \in Nat
  BY <1>3, <1>4, <1>5
<1> QED BY <1>2, <1>6

\* A process whose configuration and migrations are what they were may go on to
\* any step that needs no more of the schema.
LEMMA AppliedOrNot ==
    ASSUME TypeOK, Migrated, NEW p \in Procs, Apply(p)
    PROVE  TypeOK' /\ Migrated'
<1> USE BoundsAssumption
<1>1. PICK n \in 0..Len(applied) : proc[p].seen = 1..n
  BY DEF Migrated
<1>2. /\ NextFile(p) = n + 1 /\ n + 1 \in 1..Files /\ n \in Nat /\ Len(applied) \in Nat
      /\ applied \in Seq(1..Files) /\ Files \in Nat
  BY <1>1, NextAfterSeen DEF Apply, TypeOK
<1>3. CASE NextFile(p) \in Range(applied)
  <2>1. /\ UNCHANGED <<file, applied, endpoints, cursors, stored, edits, faults>>
        /\ proc' = [proc EXCEPT ![p] = Off]
    BY <1>3 DEF Apply, Become
  <2>2. TypeOK'
    BY <2>1 DEF TypeOK, Off
  <2>3. Migrated'
    <3>1. \A q \in Procs : \/ proc'[q].seen = proc[q].seen /\ proc'[q].at = proc[q].at
                           \/ proc'[q].seen = 1..0 /\ proc'[q].at = "off"
      BY <2>1 DEF TypeOK, Off
    <3>2. 0 \in 0..Len(applied)
      BY <1>2
    <3> QED BY <2>1, <3>1, <3>2 DEF Migrated
  <2> QED BY <2>2, <2>3
<1>4. CASE NextFile(p) \notin Range(applied)
  <2>1. /\ UNCHANGED <<file, endpoints, cursors, stored, edits, faults>>
        /\ applied' = Append(applied, n + 1)
        /\ proc' = [proc EXCEPT ![p] = [proc[p] EXCEPT !.seen = @ \cup {n + 1}]]
    BY <1>2, <1>4 DEF Apply, Become
  <2>2. n = Len(applied)
    <3>1. n + 1 \notin DOMAIN applied
      BY <1>2, <1>4 DEF Migrated, Range
    <3> QED BY <1>1, <1>2, <3>1
  <2>3. /\ applied' \in Seq(1..Files) /\ Len(applied') = n + 1
        /\ \A i \in DOMAIN applied' : applied'[i] = i
    <3>1. \A i \in DOMAIN applied : applied[i] = i
      BY DEF Migrated
    <3> QED BY <1>2, <2>1, <2>2, <3>1
  <2>4. /\ proc'[p].seen = 1..(n + 1) /\ proc'[p].at = "apply"
        /\ proc'[p].config = proc[p].config
        /\ \A q \in Procs \ {p} : proc'[q] = proc[q]
        /\ proc[p].at = "apply"
    <3>1. proc[p] \in [at : {"off", "migrate", "apply", "persist", "up"},
                       config : Configs \cup {<<>>}, seen : SUBSET (1..Files)]
      BY DEF TypeOK
    <3>2. proc'[p] = [proc[p] EXCEPT !.seen = @ \cup {n + 1}]
      BY <2>1 DEF TypeOK
    <3>3. (1..n) \cup {n + 1} = 1..(n + 1)
      BY <1>2
    <3>4. \A q \in Procs \ {p} : proc'[q] = proc[q]
      BY <2>1 DEF TypeOK
    <3> QED BY <1>1, <3>1, <3>2, <3>3, <3>4 DEF Apply
  <2>5. TypeOK'
    <3>1. proc' \in [Procs -> [at : {"off", "migrate", "apply", "persist", "up"},
                               config : Configs \cup {<<>>}, seen : SUBSET (1..Files)]]
      BY <1>2, <2>1 DEF TypeOK
    <3> QED BY <2>1, <2>3, <2>4, <3>1 DEF TypeOK
  <2>6. Migrated'
    <3>1. \A q \in Procs : \E m \in 0..Len(applied') : proc'[q].seen = 1..m
      <4>1. n + 1 \in 0..Len(applied') /\ \A m \in 0..Len(applied) : m \in 0..Len(applied')
        BY <1>2, <2>2, <2>3
      <4> QED BY <2>4, <4>1 DEF Migrated
    <3>2. \A q \in Procs : proc'[q].at \notin {"persist", "up"}
      <4>1. Len(applied) # Files
        BY <1>2, <2>2
      <4>2. \A q \in Procs : proc[q].at \notin {"persist", "up"}
        BY <4>1 DEF Migrated
      <4> QED BY <2>4, <4>2
    <3>3. Len(applied') <= Files
      BY <1>2, <2>3
    <3> QED BY <2>3, <3>1, <3>2, <3>3, Zenon DEF Migrated
  <2> QED BY <2>5, <2>6
<1> QED BY <1>3, <1>4

\* A process that only moves on, or stops, with the schema it needs.
LEMMA MovesOn ==
    ASSUME TypeOK, Migrated, UNCHANGED applied, NEW p \in Procs, NEW state,
           proc' = [proc EXCEPT ![p] = state],
           \/ state.seen = {}
           \/ state.seen = proc[p].seen
           \/ state.seen = Range(applied),
           \/ state.at \in {"off", "migrate", "apply"}
           \/ state.at \in {"persist", "up"} /\ Len(applied) = Files
    PROVE  Migrated'
<1>1. Range(applied) = 1..Len(applied) /\ Len(applied) \in 0..Len(applied)
  BY DEF TypeOK, Migrated, Range
<1>2. {} = 1..0 /\ 0 \in 0..Len(applied)
  BY <1>1
<1>3. proc'[p] = state /\ \A q \in Procs \ {p} : proc'[q] = proc[q]
  BY DEF TypeOK
<1>4. \A q \in Procs : \E n \in 0..Len(applied) : proc'[q].seen = 1..n
  BY <1>1, <1>2, <1>3 DEF Migrated
<1>5. \A q \in Procs : proc'[q].at \in {"persist", "up"} => Len(applied) = Files
  BY <1>3 DEF Migrated
<1> QED BY <1>4, <1>5 DEF Migrated

\* Nothing is missing only if all files are applied.
LEMMA NothingMissing ==
    ASSUME TypeOK, Migrated, NEW p \in Procs, Missing(p) = {}
    PROVE  Len(applied) = Files
<1>1. PICK n \in 0..Len(applied) : proc[p].seen = 1..n
  BY DEF Migrated
<1>2. Len(applied) \in Nat /\ Len(applied) <= Files /\ Files \in Nat
  BY BoundsAssumption DEF TypeOK, Migrated
<1>3. Files \in 1..n \/ Files = 0
  BY <1>1, <1>2 DEF Missing
<1> QED BY <1>2, <1>3

\* What the processes are, but for their number of files.
ProcType == [at : {"off", "migrate", "apply", "persist", "up"},
             config : Configs \cup {<<>>}, seen : SUBSET (1..Files)]

\* The steps of a start but Apply and Persist, and its end at any of them.
LEMMA ProcessStep ==
    ASSUME TypeOK, Migrated, NEW p \in Procs,
           Load(p) \/ ReadApplied(p) \/ Resolve(p) \/ StartFails(p)
    PROVE  TypeOK' /\ Migrated'
<1> USE BoundsAssumption
<1>1. proc[p] \in ProcType /\ proc \in [Procs -> ProcType]
  BY DEF TypeOK, ProcType
<1>2. UNCHANGED <<file, applied, endpoints, cursors, stored, edits>> /\ faults' \in 0..MaxFaults
  BY DEF Load, ReadApplied, Resolve, StartFails, Fault, tables, TypeOK
<1>3. CASE Load(p)
  <2> DEFINE state == [at |-> "migrate", config |-> file, seen |-> {}]
  <2>1. /\ proc' = [proc EXCEPT ![p] = state] /\ Valid(file) /\ file \in Configs
        /\ state.at = "migrate" /\ state.config = file /\ state.seen = {}
        /\ state \in [at : {"migrate"}, config : {file}, seen : {{}}]
    BY <1>3 DEF Load, Become, Off, TypeOK
  <2> HIDE DEF state
  <2>2. TypeOK'
    <3>1. state \in ProcType
      BY <2>1 DEF ProcType
    <3>2. proc' \in [Procs -> ProcType]
      BY <1>1, <2>1, <3>1
    <3>3. proc'[p] = state /\ \A q \in Procs \ {p} : proc'[q] = proc[q]
      BY <1>1, <2>1
    <3> QED BY <1>2, <2>1, <3>2, <3>3 DEF TypeOK, ProcType
  <2> QED BY <1>2, <2>1, <2>2, MovesOn
<1>4. CASE ReadApplied(p)
  <2> DEFINE state == [at |-> "apply", config |-> proc[p].config, seen |-> Range(applied)]
  <2>1. /\ proc' = [proc EXCEPT ![p] = state] /\ proc[p].at = "migrate"
        /\ state.at = "apply" /\ state.config = proc[p].config /\ state.seen = Range(applied)
        /\ state \in [at : {"apply"}, config : {proc[p].config}, seen : {Range(applied)}]
    BY <1>4 DEF ReadApplied, Become
  <2> HIDE DEF state
  <2>2. TypeOK'
    <3>1. Range(applied) \subseteq 1..Files
      BY DEF TypeOK, Range
    <3>2. state \in ProcType
      BY <1>1, <2>1, <3>1 DEF ProcType
    <3>3. proc' \in [Procs -> ProcType]
      BY <1>1, <2>1, <3>2
    <3>4. proc'[p] = state /\ \A q \in Procs \ {p} : proc'[q] = proc[q]
      BY <1>1, <2>1
    <3> QED BY <1>2, <2>1, <3>3, <3>4 DEF TypeOK, ProcType
  <2> QED BY <1>2, <2>1, <2>2, MovesOn
<1>5. CASE Resolve(p)
  <2> DEFINE state == [at |-> "persist", config |-> proc[p].config, seen |-> proc[p].seen]
  <2>1. /\ proc' = [proc EXCEPT ![p] = state] /\ proc[p].at = "apply" /\ Missing(p) = {}
        /\ state.at = "persist" /\ state.config = proc[p].config /\ state.seen = proc[p].seen
        /\ state \in [at : {"persist"}, config : {proc[p].config}, seen : {proc[p].seen}]
    <3>1. [proc[p] EXCEPT !.at = "persist"] = state
      BY <1>1 DEF ProcType
    <3> QED BY <1>5, <3>1 DEF Resolve, Goto, Become
  <2> HIDE DEF state
  <2>2. TypeOK'
    <3>1. state \in ProcType
      BY <1>1, <2>1 DEF ProcType
    <3>2. proc' \in [Procs -> ProcType]
      BY <1>1, <2>1, <3>1
    <3>3. proc'[p] = state /\ \A q \in Procs \ {p} : proc'[q] = proc[q]
      BY <1>1, <2>1
    <3> QED BY <1>2, <2>1, <3>2, <3>3 DEF TypeOK, ProcType
  <2>3. Len(applied) = Files
    BY <2>1, NothingMissing
  <2> QED BY <1>2, <2>1, <2>2, <2>3, MovesOn
<1>6. CASE StartFails(p)
  <2>1. proc' = [proc EXCEPT ![p] = Off]
    BY <1>6 DEF StartFails, Become
  <2>2. Off \in ProcType /\ Off.at = "off" /\ Off.seen = {}
    BY DEF Off, ProcType
  <2> HIDE DEF Off
  <2>3. TypeOK'
    <3>1. proc' \in [Procs -> ProcType]
      BY <1>1, <2>1, <2>2
    <3>2. proc'[p] = Off /\ \A q \in Procs \ {p} : proc'[q] = proc[q]
      BY <1>1, <2>1
    <3> QED BY <1>2, <2>2, <3>1, <3>2 DEF TypeOK, ProcType
  <2> QED BY <1>2, <2>1, <2>2, <2>3, MovesOn
<1> QED BY <1>3, <1>4, <1>5, <1>6

\* The end of `chbridge migrate`, and of a bridge in operation.
LEMMA EndStep ==
    ASSUME TypeOK, Migrated, MigrateEnds \/ Down
    PROVE  TypeOK' /\ Migrated'
<1>1. PICK p \in Procs : proc' = [proc EXCEPT ![p] = Off]
  BY DEF MigrateEnds, Down, Become, Procs
<1>2. UNCHANGED <<file, applied, endpoints, cursors, stored, edits>> /\ faults' \in 0..MaxFaults
  BY BoundsAssumption DEF MigrateEnds, Down, Fault, tables, TypeOK
<1>3. Off \in ProcType /\ Off.at = "off" /\ Off.seen = {}
  BY DEF Off, ProcType
<1> HIDE DEF Off
<1>4. proc \in [Procs -> ProcType]
  BY DEF TypeOK, ProcType
<1>5. proc' \in [Procs -> ProcType]
  BY <1>1, <1>3, <1>4
<1>6. proc'[p] = Off /\ \A q \in Procs \ {p} : proc'[q] = proc[q]
  BY <1>1, <1>4
<1>7. TypeOK'
  BY <1>2, <1>3, <1>5, <1>6 DEF TypeOK, ProcType
<1> QED BY <1>1, <1>2, <1>3, <1>7, MovesOn

\* What a process does when it stores its configuration.
LEMMA Persisted ==
    ASSUME TypeOK, NEW p \in Procs, Persist(p)
    PROVE  LET c == proc[p].config IN
           /\ c \in Configs /\ UNCHANGED <<file, applied, edits, faults>>
           /\ \/ /\ Conflict(c, endpoints)
                 /\ UNCHANGED <<endpoints, cursors, stored>>
                 /\ proc' = [proc EXCEPT ![p] = Off]
              \/ /\ ~Conflict(c, endpoints)
                 /\ endpoints' = Others(c, endpoints) \cup EndpointsOf(c)
                 /\ cursors' = cursors \cap endpoints'
                 /\ stored' = c
                 /\ \/ proc' = [proc EXCEPT ![p] = Off]
                    \/ proc' = [proc EXCEPT ![p] =
                                    [at |-> "up", config |-> c, seen |-> proc[p].seen]]
<1>1. proc[p] \in ProcType /\ proc[p].config \in Configs
  BY DEF Persist, TypeOK, ProcType
<1>2. [proc[p] EXCEPT !.at = "up"] =
          [at |-> "up", config |-> proc[p].config, seen |-> proc[p].seen]
  BY <1>1 DEF ProcType
<1> QED BY <1>1, <1>2 DEF Persist, Goto, Become, Others

LEMMA PersistStep ==
    ASSUME TypeOK, Migrated, NEW p \in Procs, Persist(p)
    PROVE  TypeOK' /\ Migrated'
<1> DEFINE c == proc[p].config
           up == [at |-> "up", config |-> c, seen |-> proc[p].seen]
<1>1. c \in Configs /\ UNCHANGED <<file, applied, edits, faults>> /\ Valid(c)
      /\ Len(applied) = Files
  BY Persisted DEF Persist, TypeOK, Migrated
<1>2. PICK state \in {Off, up} : proc' = [proc EXCEPT ![p] = state]
  BY Persisted
<1>3. proc[p] \in ProcType /\ proc \in [Procs -> ProcType]
  BY DEF TypeOK, ProcType
<1>4. /\ state \in ProcType /\ state.at \in {"off", "up"}
      /\ state.seen = {} \/ state.seen = proc[p].seen
      /\ state.at # "off" => state.config = c
  BY <1>1, <1>3 DEF Off, ProcType
<1> HIDE DEF up, Off
<1>5. Migrated'
  BY <1>1, <1>2, <1>4, MovesOn
<1>6. /\ endpoints' \subseteq UNION {EndpointsOf(d) : d \in Configs}
      /\ cursors' \subseteq endpoints' /\ stored' \in Configs \cup {<<>>}
  BY <1>1, Persisted DEF TypeOK, Others
<1>7. proc' \in [Procs -> ProcType]
  BY <1>2, <1>3, <1>4
<1>8. proc'[p] = state /\ \A q \in Procs \ {p} : proc'[q] = proc[q]
  BY <1>2, <1>3
<1> HIDE DEF c
<1>9. TypeOK'
  BY <1>1, <1>4, <1>6, <1>7, <1>8 DEF TypeOK, ProcType
<1> QED BY <1>5, <1>9

LEMMA Step == TypeOK /\ Migrated /\ [Next]_vars => TypeOK' /\ Migrated'
<1> SUFFICES ASSUME TypeOK, Migrated, [Next]_vars PROVE TypeOK' /\ Migrated'
  OBVIOUS
<1>1. CASE UNCHANGED vars
  BY <1>1 DEF TypeOK, Migrated, vars
<1>2. CASE EditFile
  BY <1>2, BoundsAssumption DEF EditFile, TypeOK, Migrated, tables
<1>3. CASE MigrateEnds \/ Down
  BY <1>3, EndStep
<1>4. ASSUME NEW p \in Procs, StartStep(p) \/ StartFails(p) PROVE TypeOK' /\ Migrated'
  BY <1>4, ProcessStep, AppliedOrNot, PersistStep DEF StartStep
<1>5. ASSUME NEW e \in Routed, Advance(e) PROVE TypeOK' /\ Migrated'
  BY <1>5 DEF Advance, TypeOK, Migrated
<1> QED BY <1>1, <1>2, <1>3, <1>4, <1>5 DEF Next

-----------------------------------------------------------------------------
(* Rows.                                                                   *)

LEMMA RowsStart == Init => Rows
<1> SUFFICES ASSUME Init PROVE Rows
  OBVIOUS
<1>1. endpoints = {} /\ stored = <<>> /\ proc["run"].at = "off"
  BY DEF Init, Off, Procs
<1>2. {r \in endpoints : r[1] \in Ids(stored)} = {}
  BY <1>1
<1>3. EndpointsOf(stored) = {}
  BY <1>1, NothingStored
<1> QED BY <1>1, <1>2, <1>3 DEF Rows, Unique

\* A step that leaves the tables alone and brings no bridge up.
LEMMA RowsKept ==
    ASSUME Rows, UNCHANGED <<endpoints, stored>>,
           proc'["run"].at = "up" => proc'["run"] = proc["run"]
    PROVE  Rows'
BY DEF Rows, Unique, EndpointsOf, Ids, ChannelsOf

LEMMA RowsPersist ==
    ASSUME TypeOK, Rows, NEW p \in Procs, Persist(p)
    PROVE  Rows'
<1> DEFINE c == proc[p].config
<1>1. c \in Configs /\ "run" \in Procs /\ Off.at = "off"
  BY Persisted DEF Procs, Off
<1>2. proc \in [Procs -> ProcType]
  BY DEF TypeOK, ProcType
<1> HIDE DEF Off
<1>3. CASE Conflict(c, endpoints)
  <2>1. UNCHANGED <<endpoints, stored>> /\ proc' = [proc EXCEPT ![p] = Off]
    BY <1>3, Persisted
  <2>2. proc'["run"].at = "up" => proc'["run"] = proc["run"]
    BY <1>1, <1>2, <2>1
  <2> QED BY <2>1, <2>2, RowsKept
<1>4. CASE ~Conflict(c, endpoints)
  <2>1. endpoints' = Others(c, endpoints) \cup EndpointsOf(c) /\ stored' = c
    BY <1>4, Persisted
  <2>2. Unique(endpoints)' /\ Unique(EndpointsOf(c))
    BY <1>1, <1>4, <2>1, StoredRowsUnique, OwnRowsUnique DEF Rows
  <2>3. {r \in endpoints' : r[1] \in Ids(c)} = EndpointsOf(c)
    BY <2>1, RowsOfStored
  <2>4. proc'["run"].at = "up" =>
            proc'["run"].config = c \/ proc'["run"] = proc["run"]
    <3>1. \/ proc' = [proc EXCEPT ![p] = Off]
          \/ proc' = [proc EXCEPT ![p] =
                          [at |-> "up", config |-> c, seen |-> proc[p].seen]]
      BY <1>4, Persisted
    <3> QED BY <1>1, <1>2, <3>1
  <2>5. proc'["run"].at = "up" => Unique(EndpointsOf(proc'["run"].config))
    BY <2>2, <2>4 DEF Rows
  <2> QED BY <2>1, <2>2, <2>3, <2>5 DEF Rows
<1> QED BY <1>3, <1>4

LEMMA RowsStep == TypeOK /\ Rows /\ [Next]_vars => Rows'
<1> SUFFICES ASSUME TypeOK, Rows, [Next]_vars PROVE Rows'
  OBVIOUS
<1>1. CASE UNCHANGED vars
  BY <1>1, RowsKept DEF vars
<1>2. CASE EditFile
  BY <1>2, RowsKept DEF EditFile, tables
<1>3. CASE MigrateEnds \/ Down
  BY <1>3, RowsKept DEF MigrateEnds, Down, Become, Off, Procs, TypeOK, tables
<1>4. ASSUME NEW p \in Procs, Persist(p) PROVE Rows'
  BY <1>4, RowsPersist
<1>5. ASSUME NEW p \in Procs, Load(p) \/ ReadApplied(p) \/ Apply(p) \/ Resolve(p) \/ StartFails(p)
      PROVE  Rows'
  <2>1. UNCHANGED <<endpoints, stored>>
    BY <1>5 DEF Load, ReadApplied, Apply, Resolve, StartFails, tables
  <2>2. proc \in [Procs -> ProcType] /\ "run" \in Procs
    BY DEF TypeOK, ProcType, Procs
  <2>3. PICK state : proc' = [proc EXCEPT ![p] = state] /\ state.at # "up"
    BY <1>5, <2>2 DEF Load, ReadApplied, Apply, Resolve, StartFails, Become, Goto, Off, ProcType
  <2> QED BY <2>1, <2>2, <2>3, RowsKept
<1>6. ASSUME NEW e \in Routed, Advance(e) PROVE Rows'
  BY <1>6, RowsKept DEF Advance
<1> QED BY <1>1, <1>2, <1>3, <1>4, <1>5, <1>6 DEF Next, StartStep

-----------------------------------------------------------------------------
(* The theorems.                                                           *)

\* The tables and the processes keep their types, for any configurations: a
\* cursor has its endpoint (Topology.TypeOK; router.py, config.py, 001_init.sql).
THEOREM TypeCorrect == Spec => []TypeOK
BY Start, Step, PTL DEF Spec

\* Every migration is run once and in order, whichever processes start together,
\* for any number of files (db.py:88-92).
THEOREM MigrationsRunOnce == Spec => []MigrationsOnce
<1>1. Migrated => MigrationsOnce
  BY DEF Migrated, MigrationsOnce
<1> QED BY <1>1, Start, Step, PTL DEF Spec

\* A channel belongs to one bridge, in the table and in the routes, for any
\* sequence of configurations (001_init.sql:28-31, router.py:174).
THEOREM ChannelsUnique == Spec => []OneBridgePerChannel
<1>1. Rows => OneBridgePerChannel
  BY DEF Rows, Unique, OneBridgePerChannel, Routed
<1> QED BY <1>1, Start, Step, RowsStart, RowsStep, PTL DEF Spec

\* What is routed has its row, and a bridge of the file no other rows, as long
\* as no other process has stored another configuration (router.py:167).
THEOREM RoutesStored == Spec => []RoutesHaveRows
<1>1. Rows => RoutesHaveRows
  BY DEF Rows, RoutesHaveRows, Routed
<1> QED BY <1>1, Start, Step, RowsStart, RowsStep, PTL DEF Spec

\* _persist() never stands in its own way: what it stored it can store again.
THEOREM StartsRepeatable == Spec => []StartRepeatable
<1>1. Init => StartRepeatable
  BY DEF Init, StartRepeatable
<1>2. TypeOK /\ StartRepeatable /\ [Next]_vars => StartRepeatable'
  <2> SUFFICES ASSUME TypeOK, StartRepeatable, [Next]_vars PROVE StartRepeatable'
    OBVIOUS
  <2>1. CASE UNCHANGED <<endpoints, stored>>
    BY <2>1 DEF StartRepeatable, Conflict, ChannelsOf
  <2>2. ASSUME NEW p \in Procs, Persist(p) PROVE StartRepeatable'
    <3> DEFINE c == proc[p].config
    <3>1. CASE Conflict(c, endpoints)
      BY <2>1, <2>2, <3>1, Persisted
    <3>2. CASE ~Conflict(c, endpoints)
      <4>1. /\ c \in Configs /\ stored' = c
            /\ endpoints' = Others(c, endpoints) \cup EndpointsOf(c)
        BY <2>2, <3>2, Persisted
      <4>2. ~Conflict(c, endpoints')
        BY <3>2, <4>1, StoredAgain
      <4> QED BY <4>1, <4>2 DEF StartRepeatable
    <3> QED BY <3>1, <3>2
  <2>3. ASSUME Next PROVE UNCHANGED <<endpoints, stored>> \/ \E p \in Procs : Persist(p)
    BY <2>3 DEF Next, EditFile, MigrateEnds, Down, StartStep, Load, ReadApplied, Apply,
                Resolve, StartFails, Advance, tables
  <2> QED BY <2>1, <2>2, <2>3 DEF vars
<1> QED BY <1>1, <1>2, Start, Step, PTL DEF Spec

\* A start takes away the cursors only of channels that have left their bridge,
\* and nothing else takes away any (router.py, _persist).
THEOREM CursorsStay == Spec => CursorsKept
<1>1. TypeOK /\ [Next]_vars => [\A e \in cursors \ cursors' : e \notin EndpointsOf(stored')]_vars
  <2> SUFFICES ASSUME TypeOK, Next
      PROVE  \A e \in cursors \ cursors' : e \notin EndpointsOf(stored')
    OBVIOUS
  <2>1. ASSUME NEW p \in Procs, Persist(p)
        PROVE  \A e \in cursors \ cursors' : e \notin EndpointsOf(stored')
    BY <2>1, Persisted
  <2>2. cursors \subseteq cursors' \/ \E p \in Procs : Persist(p)
    BY DEF Next, EditFile, MigrateEnds, Down, StartStep, Load, ReadApplied, Apply,
           Resolve, StartFails, Advance, tables
  <2> QED BY <2>1, <2>2
<1> QED BY <1>1, TypeCorrect, PTL DEF Spec, CursorsKept
===============================================================================
