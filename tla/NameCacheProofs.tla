---------------------------- MODULE NameCacheProofs ----------------------------
(* Theorems about NameCache and their proofs.                              *)
EXTENDS NameCache, FiniteSetTheorems, TLAPS

-----------------------------------------------------------------------------
(* The inductive invariants.                                               *)

\* The profile of u has not had this name for longer than age.
NotOlder(u, name, age) ==
    /\ name \in 0 .. profile[u]
    /\ name # profile[u] => gone[u][name] <= age

\* A name that waits in an answer or an event was read from the profile when it
\* set out; one that is in the cache was up to Latency old when it got there.
Ages ==
    /\ \A u \in DOMAIN entries :
         entries[u].age = Ttl \/ NotOlder(u, entries[u].name, entries[u].age + Latency)
    /\ \A r \in Readers : lookup[r].step = "read" =>
         NotOlder(lookup[r].user, lookup[r].name, lookup[r].age)
    /\ \A i \in DOMAIN events : NotOlder(events[i].user, events[i].name, events[i].age)

\* A wrong name has an excuse, or the event that corrects it is on its way; on
\* Mattermost's socket the last event of a user says the current name.
Explained ==
    /\ \A u \in DOMAIN entries : entries[u].name # profile[u] =>
         \/ u \in excused
         \/ \E i \in DOMAIN events : events[i].user = u
    /\ platform = "mattermost" =>
         \A i \in DOMAIN events :
             \/ events[i].name = profile[events[i].user]
             \/ \E j \in DOMAIN events : i < j /\ events[j].user = events[i].user

\* The cache holds a finite number of names, within its limit.
Bounded == IsFiniteSet(DOMAIN entries) /\ Cardinality(DOMAIN entries) <= MaxSize

ReadLookup == [step : {"read"}, user : Users, name : Names, age : 0 .. Latency]
AskedLookup == [step : {"asked"}, user : Users]
Event == [user : Users, name : Names, age : 0 .. Latency]
Entry == [name : Names, age : 0 .. Ttl]

-----------------------------------------------------------------------------
(* Facts about the operators.                                              *)

LEMMA Numbers ==
    /\ Ttl \in Nat \ {0} /\ MaxSize \in Nat \ {0} /\ Latency \in Nat /\ MaxFaults \in Nat
    /\ Horizon = Ttl + Latency /\ Horizon \in Nat
    /\ \A u \in Users : MaxChanges[u] \in Nat
    /\ Names \subseteq Nat
    /\ \A u \in Users : \A n \in 0 .. MaxChanges[u] : n \in Names
BY CacheAssumption, BoundsAssumption DEF Horizon, Names

LEMMA Aging ==
    ASSUME NEW a \in 0 .. Horizon
    PROVE  Older(a) \in 0 .. Horizon /\ a <= Older(a) /\ Older(a) <= a + 1
BY Numbers DEF Older

\* What put() changes: one name is there and new, others may go.
LEMMA PutEntries ==
    ASSUME NEW u, NEW name, Put(u, name)
    PROVE  /\ u \in DOMAIN entries' /\ entries'[u] = [name |-> name, age |-> 0]
           /\ \A v \in DOMAIN entries' \ {u} : v \in DOMAIN entries /\ entries'[v] = entries[v]
<1> DEFINE full == Cardinality(DOMAIN entries) >= MaxSize /\ u \notin DOMAIN entries
           kept == IF full THEN Without(Users) ELSE Without({u})
<1>1. entries' = [v \in DOMAIN kept \cup {u} |->
                     IF v = u THEN [name |-> name, age |-> 0] ELSE kept[v]]
  BY DEF Put
<1>2. DOMAIN kept \subseteq DOMAIN entries /\ \A v \in DOMAIN kept : kept[v] = entries[v]
  BY DEF Without
<1> HIDE DEF kept
<1> QED BY <1>1, <1>2

\* put() keeps to the limit: it empties a cache that is full before it adds.
LEMMA PutBounded ==
    ASSUME TypeOK, Bounded, NEW u \in Users, NEW name, Put(u, name)
    PROVE  Bounded'
<1> DEFINE full == Cardinality(DOMAIN entries) >= MaxSize /\ u \notin DOMAIN entries
           left == IF full THEN {} ELSE DOMAIN entries \ {u}
<1>1. DOMAIN entries' = left \cup {u}
  BY DEF Put, Without, TypeOK
<1>2. /\ IsFiniteSet(left) /\ u \notin left
      /\ Cardinality(left) \in Nat /\ Cardinality(left) + 1 <= MaxSize
  <2>1. IsFiniteSet(DOMAIN entries) /\ Cardinality(DOMAIN entries) \in Nat
    BY FS_CardinalityType DEF Bounded
  <2>2. CASE full
    BY <2>2, FS_EmptySet, Numbers
  <2>3. CASE ~full /\ u \in DOMAIN entries
    <3>1. /\ IsFiniteSet(DOMAIN entries \ {u})
          /\ Cardinality(DOMAIN entries \ {u}) = Cardinality(DOMAIN entries) - 1
      BY <2>1, <2>3, FS_RemoveElement
    <3>2. Cardinality(DOMAIN entries \ {u}) \in Nat
      BY <3>1, FS_CardinalityType
    <3> QED BY <2>1, <2>3, <3>1, <3>2, Numbers DEF Bounded
  <2>4. CASE ~full /\ u \notin DOMAIN entries
    <3>1. left = DOMAIN entries
      BY <2>4
    <3> QED BY <2>1, <2>4, <3>1, Numbers
  <2> QED BY <2>2, <2>3, <2>4
<1> HIDE DEF left
<1>3. IsFiniteSet(left \cup {u}) /\ Cardinality(left \cup {u}) = Cardinality(left) + 1
  BY <1>2, FS_AddElement
<1> QED BY <1>1, <1>2, <1>3 DEF Bounded

\* RemoveAt takes one element out and keeps the order of the others.
LEMMA Removed ==
    ASSUME NEW S, NEW s \in Seq(S), NEW i \in DOMAIN s
    PROVE  /\ RemoveAt(s, i) \in Seq(S) /\ Len(RemoveAt(s, i)) = Len(s) - 1
           /\ \A j \in DOMAIN RemoveAt(s, i) :
                  /\ j < i => j \in DOMAIN s /\ RemoveAt(s, i)[j] = s[j]
                  /\ j >= i => j + 1 \in DOMAIN s /\ RemoveAt(s, i)[j] = s[j + 1]
           /\ \A j \in DOMAIN RemoveAt(s, i) : \E k \in DOMAIN s : RemoveAt(s, i)[j] = s[k]
<1> DEFINE front == SubSeq(s, 1, i - 1)
           back == SubSeq(s, i + 1, Len(s))
<1>1. i \in 1 .. Len(s) /\ Len(s) \in Nat
  OBVIOUS
<1>2. /\ front \in Seq(S) /\ Len(front) = i - 1
      /\ \A j \in 1 .. i - 1 : front[j] = s[j]
  BY <1>1
<1>3. /\ back \in Seq(S) /\ Len(back) = Len(s) - i
      /\ \A j \in 1 .. Len(s) - i : back[j] = s[i + j]
  BY <1>1
<1>4. RemoveAt(s, i) = front \o back
  BY DEF RemoveAt
<1> HIDE DEF front, back
<1>5. /\ front \o back \in Seq(S) /\ Len(front \o back) = Len(s) - 1
      /\ \A j \in 1 .. Len(s) - 1 :
             (front \o back)[j] = IF j < i THEN front[j] ELSE back[j - (i - 1)]
  BY SMTT(40), <1>1, <1>2, <1>3
<1>6. ASSUME NEW j \in DOMAIN (front \o back)
      PROVE  /\ j \in 1 .. Len(s) - 1
             /\ j < i => j \in DOMAIN s /\ (front \o back)[j] = s[j]
             /\ j >= i => j + 1 \in DOMAIN s /\ (front \o back)[j] = s[j + 1]
  <2>1. j \in 1 .. Len(s) - 1
    BY <1>5, <1>6
  <2>2. CASE j < i
    BY <1>1, <1>2, <1>5, <2>1, <2>2
  <2>3. CASE j >= i
    <3>1. j - (i - 1) \in 1 .. Len(s) - i /\ i + (j - (i - 1)) = j + 1
      BY <1>1, <2>1, <2>3
    <3> QED BY SMTT(40), <1>1, <1>3, <1>5, <2>1, <2>3, <3>1
  <2> QED BY <1>1, <2>1, <2>2, <2>3
<1>7. \A j \in DOMAIN (front \o back) : \E k \in DOMAIN s : (front \o back)[j] = s[k]
  BY <1>1, <1>6
<1> QED BY <1>4, <1>5, <1>6, <1>7

-----------------------------------------------------------------------------
(* Types and the limit of the cache.                                       *)

IInv == TypeOK /\ Bounded /\ Ages

LEMMA Start == Init => IInv
<1> SUFFICES ASSUME Init PROVE IInv
  OBVIOUS
<1>1. DOMAIN entries = {} /\ DOMAIN events = {} /\ events = <<>>
  BY DEF Init
<1>2. TypeOK
  BY <1>1, Numbers DEF Init, TypeOK, Idle
<1>3. Bounded
  BY <1>1, FS_EmptySet, Numbers DEF Bounded
<1>4. \A r \in Readers : lookup[r].step = "idle"
  BY DEF Init, Idle
<1>5. Ages
  BY <1>1, <1>4 DEF Ages
<1> QED BY <1>2, <1>3, <1>5 DEF IInv

LEMMA AskStep ==
    ASSUME IInv, NEW r \in Readers, NEW u \in Users, Ask(r, u)
    PROVE  IInv'
<1> USE DEF IInv
<1>1. /\ UNCHANGED <<platform, profile, gone, events, faults>>
      /\ entries' = [v \in DOMAIN entries \ {u} |-> entries[v]]
      /\ \A q \in Readers : \/ lookup'[q] = lookup[q]
                            \/ lookup'[q] \in AskedLookup /\ lookup'[q].step = "asked"
      /\ DOMAIN lookup' = DOMAIN lookup
  BY DEF Ask, Without, AskedLookup
<1>2. DOMAIN entries' = DOMAIN entries \ {u} /\ \A v \in DOMAIN entries' : entries'[v] = entries[v]
  BY <1>1
<1>3. TypeOK'
  BY <1>1, <1>2 DEF TypeOK, AskedLookup
<1>4. Bounded'
  <2>1. /\ IsFiniteSet(DOMAIN entries')
        /\ Cardinality(DOMAIN entries') <= Cardinality(DOMAIN entries)
    BY <1>2, FS_Subset DEF Bounded
  <2>2. Cardinality(DOMAIN entries') \in Nat /\ Cardinality(DOMAIN entries) \in Nat
    BY <2>1, FS_CardinalityType DEF Bounded
  <2> QED BY <2>1, <2>2, Numbers DEF Bounded
<1>5. Ages'
  BY <1>1, <1>2 DEF Ages, NotOlder
<1> QED BY <1>3, <1>4, <1>5

LEMMA ReadStep ==
    ASSUME IInv, NEW r \in Readers, Read(r)
    PROVE  IInv'
<1> USE DEF IInv
<1> DEFINE u == lookup[r].user
           answer == [step |-> "read", user |-> u, name |-> profile[u], age |-> 0]
<1>1. UNCHANGED <<platform, profile, gone, entries, events, faults>> /\ lookup[r].step = "asked"
  BY DEF Read
<1>2. /\ \A q \in Readers : lookup'[q] = lookup[q] \/ lookup'[q] = answer
      /\ DOMAIN lookup' = DOMAIN lookup
  BY DEF Read
<1>3. lookup[r] \in AskedLookup \/ lookup[r] \in ReadLookup
  BY <1>1 DEF TypeOK, Idle, AskedLookup, ReadLookup
<1>4. u \in Users /\ profile[u] \in Nat /\ profile[u] <= MaxChanges[u] /\ MaxChanges[u] \in Nat
  BY <1>3, Numbers DEF TypeOK, AskedLookup, ReadLookup
<1>5. profile[u] \in Names /\ profile[u] \in 0 .. profile[u]
  BY <1>4, Numbers
<1> HIDE DEF u
<1>6. answer \in ReadLookup
  BY <1>4, <1>5, Numbers DEF ReadLookup
<1>7. TypeOK'
  BY <1>1, <1>2, <1>6 DEF TypeOK, ReadLookup
<1>8. Bounded'
  BY <1>1 DEF Bounded
<1>9. NotOlder(answer.user, answer.name, answer.age)
  BY <1>5 DEF NotOlder
<1>10. Ages'
  <2>1. \A v, n, a : NotOlder(v, n, a)' <=> NotOlder(v, n, a)
    BY <1>1 DEF NotOlder
  <2>2. ASSUME NEW q \in Readers, lookup'[q].step = "read"
        PROVE  NotOlder(lookup'[q].user, lookup'[q].name, lookup'[q].age)
    BY <1>2, <1>9, <2>2 DEF Ages
  <2> QED BY <1>1, <2>1, <2>2 DEF Ages, NotOlder
<1> QED BY <1>7, <1>8, <1>10

\* A name that is not older than an answer or event can be is put into the cache.
LEMMA PutStep ==
    ASSUME IInv, NEW u \in Users, NEW name \in Names, NEW age \in 0 .. Latency,
           NotOlder(u, name, age), Put(u, name), UNCHANGED <<profile, gone>>
    PROVE  /\ DOMAIN entries' \subseteq Users
           /\ \A v \in DOMAIN entries' : entries'[v] \in Entry
           /\ \A v \in DOMAIN entries' : \/ entries'[v].age = Ttl
                                         \/ NotOlder(v, entries'[v].name, entries'[v].age + Latency)
<1>1. /\ u \in DOMAIN entries' /\ entries'[u] = [name |-> name, age |-> 0]
      /\ \A v \in DOMAIN entries' \ {u} : v \in DOMAIN entries /\ entries'[v] = entries[v]
  BY PutEntries
<1>2. DOMAIN entries' \subseteq Users
  BY <1>1 DEF IInv, TypeOK
<1>3. \A v \in DOMAIN entries' : entries'[v] \in Entry
  <2>1. [name |-> name, age |-> 0] \in Entry
    BY Numbers DEF Entry
  <2>2. \A v \in DOMAIN entries : entries[v] \in Entry
    BY DEF IInv, TypeOK, Entry
  <2> QED BY <1>1, <2>1, <2>2
<1>4. NotOlder(u, name, Latency)
  <2>1. name # profile[u] => gone[u][name] \in Nat
    <3>1. profile[u] \in Nat
      BY DEF IInv, TypeOK
    <3>2. name # profile[u] => name \in 0 .. profile[u] - 1
      BY <3>1 DEF NotOlder
    <3> QED BY <3>2, Numbers DEF IInv, TypeOK
  <2> QED BY <2>1, Numbers DEF NotOlder
<1>5. ASSUME NEW v \in DOMAIN entries'
      PROVE  \/ entries'[v].age = Ttl
             \/ NotOlder(v, entries'[v].name, entries'[v].age + Latency)
  <2>1. CASE v = u
    <3>1. entries'[v].name = name /\ entries'[v].age + Latency = Latency
      BY <1>1, <2>1, Numbers
    <3> QED BY <1>4, <2>1, <3>1
  <2>2. CASE v # u
    BY <1>1, <2>2 DEF IInv, Ages
  <2> QED BY <2>1, <2>2
<1> QED BY <1>2, <1>3, <1>5

LEMMA AnswerStep ==
    ASSUME IInv, NEW r \in Readers, Answer(r)
    PROVE  IInv'
<1> DEFINE u == lookup[r].user
           name == lookup[r].name
<1>1. /\ UNCHANGED <<platform, profile, gone, events, faults>> /\ Put(u, name)
      /\ lookup[r].step = "read"
  BY DEF Answer
<1>2. lookup[r] \in ReadLookup
  BY <1>1 DEF IInv, TypeOK, Idle, ReadLookup
<1>3. u \in Users /\ name \in Names /\ lookup[r].age \in 0 .. Latency
  BY <1>2 DEF ReadLookup
<1>4. NotOlder(u, name, lookup[r].age)
  BY <1>1 DEF IInv, Ages
<1> HIDE DEF u, name
<1>5. /\ DOMAIN entries' \subseteq Users
      /\ \A v \in DOMAIN entries' : entries'[v] \in Entry
      /\ \A v \in DOMAIN entries' : \/ entries'[v].age = Ttl
                                    \/ NotOlder(v, entries'[v].name, entries'[v].age + Latency)
  BY <1>1, <1>3, <1>4, PutStep
<1>6. /\ \A q \in Readers : lookup'[q] = lookup[q] \/ (lookup'[q] = Idle /\ Idle.step = "idle")
      /\ DOMAIN lookup' = DOMAIN lookup
  BY DEF Answer, Idle
<1>7. TypeOK'
  BY <1>1, <1>5, <1>6 DEF IInv, TypeOK, Entry
<1>8. Bounded'
  BY <1>1, <1>3, PutBounded DEF IInv
<1>9. Ages'
  <2>1. \A v \in DOMAIN entries' :
            \/ entries'[v].age = Ttl
            \/ NotOlder(v, entries[v].name, entries[v].age + Latency)'
    BY <1>1, <1>5 DEF NotOlder
  <2>2. \A q \in Readers : lookup'[q].step = "read" =>
            NotOlder(lookup[q].user, lookup[q].name, lookup[q].age)'
    BY <1>1, <1>6 DEF IInv, Ages, NotOlder
  <2>3. \A j \in DOMAIN events' :
            NotOlder(events[j].user, events[j].name, events[j].age)'
    BY <1>1, <1>6 DEF IInv, Ages, NotOlder
  <2> QED BY <2>1, <2>2, <2>3 DEF Ages
<1> QED BY <1>7, <1>8, <1>9 DEF IInv

LEMMA RefreshStep ==
    ASSUME IInv, NEW i \in DOMAIN events, Refresh(i)
    PROVE  IInv'
<1> DEFINE u == events[i].user
           name == events[i].name
<1>1. /\ UNCHANGED <<platform, profile, gone, lookup, faults>> /\ Put(u, name)
      /\ events' = RemoveAt(events, i)
  BY DEF Refresh
<1>2. events \in Seq(Event)
  BY DEF IInv, TypeOK, Event
<1>3. u \in Users /\ name \in Names /\ events[i].age \in 0 .. Latency
  <2>1. events[i] \in Event
    BY <1>2
  <2> QED BY <2>1 DEF Event
<1>4. NotOlder(u, name, events[i].age)
  BY DEF IInv, Ages
<1> HIDE DEF u, name
<1>5. /\ DOMAIN entries' \subseteq Users
      /\ \A v \in DOMAIN entries' : entries'[v] \in Entry
      /\ \A v \in DOMAIN entries' : \/ entries'[v].age = Ttl
                                    \/ NotOlder(v, entries'[v].name, entries'[v].age + Latency)
  BY <1>1, <1>3, <1>4, PutStep
<1>6. /\ events' \in Seq(Event)
      /\ \A j \in DOMAIN events' : \E k \in DOMAIN events : events'[j] = events[k]
  BY <1>1, <1>2, Removed
<1>7. TypeOK'
  BY <1>1, <1>5, <1>6 DEF IInv, TypeOK, Entry, Event
<1>8. Bounded'
  BY <1>1, <1>3, PutBounded DEF IInv
<1>9. Ages'
  <2>1. \A v \in DOMAIN entries' :
            \/ entries'[v].age = Ttl
            \/ NotOlder(v, entries[v].name, entries[v].age + Latency)'
    BY <1>1, <1>5 DEF NotOlder
  <2>2. \A q \in Readers : lookup'[q].step = "read" =>
            NotOlder(lookup[q].user, lookup[q].name, lookup[q].age)'
    BY <1>1, <1>6 DEF IInv, Ages, NotOlder
  <2>3. \A j \in DOMAIN events' :
            NotOlder(events[j].user, events[j].name, events[j].age)'
    BY <1>1, <1>6 DEF IInv, Ages, NotOlder
  <2> QED BY <2>1, <2>2, <2>3 DEF Ages
<1> QED BY <1>7, <1>8, <1>9 DEF IInv

LEMMA LookupErrorStep ==
    ASSUME IInv, NEW r \in Readers, LookupError(r)
    PROVE  IInv'
<1>1. /\ UNCHANGED <<platform, profile, gone, entries, events>> /\ faults' \in 0 .. MaxFaults
      /\ \A q \in Readers : lookup'[q] = lookup[q] \/ (lookup'[q] = Idle /\ Idle.step = "idle")
      /\ DOMAIN lookup' = DOMAIN lookup
  BY Numbers DEF LookupError, Fault, Idle, IInv, TypeOK
<1>2. TypeOK'
  BY <1>1 DEF IInv, TypeOK
<1>3. Bounded' /\ Ages'
  BY <1>1 DEF IInv, Bounded, Ages, NotOlder
<1> QED BY <1>2, <1>3 DEF IInv

LEMMA DisconnectStep ==
    ASSUME IInv, Disconnect
    PROVE  IInv'
<1>1. /\ UNCHANGED <<platform, profile, gone, entries, lookup>> /\ faults' \in 0 .. MaxFaults
      /\ events' = <<>> /\ DOMAIN events' = {}
  BY Numbers DEF Disconnect, Fault, IInv, TypeOK
<1>2. TypeOK'
  BY <1>1 DEF IInv, TypeOK
<1>3. Bounded' /\ Ages'
  BY <1>1 DEF IInv, Bounded, Ages, NotOlder
<1> QED BY <1>2, <1>3 DEF IInv

\* A change makes the name before it an old one, of age 0.
LEMMA RenameStep ==
    ASSUME IInv, NEW u \in Users, Rename(u)
    PROVE  IInv'
<1> DEFINE event == [user |-> u, name |-> profile[u] + 1, age |-> 0]
<1>1. /\ UNCHANGED <<platform, entries, lookup, faults>> /\ events' = Append(events, event)
      /\ profile[u] < MaxChanges[u] /\ profile[u] \in Nat /\ MaxChanges[u] \in Nat
  BY Numbers DEF Rename, IInv, TypeOK
<1>2. /\ profile' \in [Users -> Nat] /\ profile'[u] = profile[u] + 1
      /\ \A v \in Users \ {u} : profile'[v] = profile[v]
  BY <1>1 DEF Rename, IInv, TypeOK
<1>3. /\ \A v \in Users \ {u} : gone'[v] = gone[v]
      /\ DOMAIN gone'[u] = 0 .. profile[u]
      /\ gone'[u][profile[u]] = 0
      /\ \A n \in 0 .. profile[u] - 1 : gone'[u][n] = gone[u][n]
  <2>1. DOMAIN gone[u] = 0 .. profile[u] - 1
    BY DEF IInv, TypeOK
  <2>2. u \in DOMAIN gone
    BY DEF IInv, TypeOK
  <2> QED BY <1>1, <2>1, <2>2 DEF Rename
<1>4. events \in Seq(Event) /\ event \in Event
  <2>1. profile[u] + 1 \in Names
    BY <1>1, Numbers
  <2> QED BY <2>1, Numbers DEF IInv, TypeOK, Event
<1>5. TypeOK'
  <2>1. ASSUME NEW v \in Users
        PROVE  /\ profile'[v] <= MaxChanges[v]
               /\ DOMAIN gone'[v] = 0 .. profile'[v] - 1
               /\ \A n \in DOMAIN gone'[v] : gone'[v][n] \in 0 .. Horizon
    <3>1. CASE v = u
      <4>1. profile'[u] <= MaxChanges[u] /\ DOMAIN gone'[u] = 0 .. profile'[u] - 1
        BY <1>1, <1>2, <1>3
      <4>2. ASSUME NEW n \in 0 .. profile[u] PROVE gone'[u][n] \in 0 .. Horizon
        <5>1. n \in 0 .. profile[u] - 1 => gone[u][n] \in 0 .. Horizon
          BY DEF IInv, TypeOK
        <5> QED BY <1>1, <1>3, <5>1, Numbers
      <4> QED BY <1>3, <3>1, <4>1, <4>2
    <3>2. CASE v # u
      BY <1>2, <1>3, <3>2 DEF IInv, TypeOK
    <3> QED BY <3>1, <3>2
  <2>2. DOMAIN gone' = Users
    BY DEF Rename, IInv, TypeOK
  <2>3. events' \in Seq(Event)
    BY <1>1, <1>4
  <2> QED BY <1>1, <1>2, <2>1, <2>2, <2>3 DEF IInv, TypeOK, Event
<1>6. Bounded'
  BY <1>1 DEF IInv, Bounded
<1>7. ASSUME NEW v \in Users, NEW n, NEW a \in Nat, NotOlder(v, n, a)
      PROVE  NotOlder(v, n, a)'
  <2>1. CASE v # u
    BY <1>2, <1>3, <1>7, <2>1 DEF NotOlder
  <2>2. CASE v = u
    BY <1>1, <1>2, <1>3, <1>7, <2>2 DEF NotOlder
  <2> QED BY <2>1, <2>2
<1>8. ASSUME NEW e, e = event PROVE NotOlder(e.user, e.name, e.age)'
  BY <1>1, <1>2, <1>8 DEF NotOlder
<1>9. Ages'
  <2>1. \A v \in DOMAIN entries' : v \in Users /\ entries[v].age + Latency \in Nat
    BY SMTT(40), <1>1, Numbers DEF IInv, TypeOK
  <2>2. \A v \in DOMAIN entries' :
            entries'[v].age = Ttl \/ NotOlder(v, entries[v].name, entries[v].age + Latency)'
    BY <1>1, <1>7, <2>1 DEF IInv, Ages
  <2>3. ASSUME NEW q \in Readers, lookup'[q].step = "read"
        PROVE  NotOlder(lookup[q].user, lookup[q].name, lookup[q].age)'
    <3>1. lookup[q] \in ReadLookup
      BY <1>1, <2>3 DEF IInv, TypeOK, Idle, ReadLookup
    <3>2. lookup[q].user \in Users /\ lookup[q].age \in Nat
      BY <3>1, Numbers DEF ReadLookup
    <3>3. NotOlder(lookup[q].user, lookup[q].name, lookup[q].age)
      BY <1>1, <2>3 DEF IInv, Ages
    <3> QED BY <1>1, <1>7, <3>2, <3>3
  <2>4. ASSUME NEW j \in DOMAIN events'
        PROVE  NotOlder(events[j].user, events[j].name, events[j].age)'
    <3>1. CASE j \in DOMAIN events
      <4>1. events'[j] = events[j] /\ events[j] \in Event
        BY <1>1, <1>4, <3>1
      <4>2. events[j].user \in Users /\ events[j].age \in Nat
        BY <4>1, Numbers DEF Event
      <4>3. NotOlder(events[j].user, events[j].name, events[j].age)
        BY <3>1 DEF IInv, Ages
      <4> QED BY <1>7, <4>1, <4>2, <4>3 DEF NotOlder
    <3>2. CASE j \notin DOMAIN events
      <4>1. events'[j] = event
        BY <1>1, <1>4, <2>4, <3>2
      <4> QED BY <1>8, <4>1 DEF NotOlder
    <3> QED BY <3>1, <3>2
  <2> QED BY <2>2, <2>3, <2>4 DEF Ages
<1> QED BY <1>5, <1>6, <1>9 DEF IInv

LEMMA TickStep ==
    ASSUME IInv, Tick
    PROVE  IInv'
<1>1. UNCHANGED <<platform, profile, faults>> /\ DOMAIN entries' = DOMAIN entries
  BY DEF Tick
<1>2. \A v \in Users : /\ DOMAIN gone'[v] = DOMAIN gone[v]
                       /\ \A n \in DOMAIN gone[v] : gone'[v][n] = Older(gone[v][n])
  BY DEF Tick
<1>3. \A v \in DOMAIN entries :
          /\ entries[v] \in Entry /\ entries'[v] \in Entry
          /\ entries'[v].name = entries[v].name
          /\ entries'[v].age = IF entries[v].age < Ttl THEN entries[v].age + 1 ELSE Ttl
  <2>1. ASSUME NEW v \in DOMAIN entries
        PROVE  /\ entries[v] \in Entry /\ entries'[v] \in Entry
               /\ entries'[v].name = entries[v].name
               /\ entries'[v].age = IF entries[v].age < Ttl THEN entries[v].age + 1 ELSE Ttl
    <3>1. entries[v] \in Entry
      BY DEF IInv, TypeOK, Entry
    <3>2. entries'[v] = [entries[v] EXCEPT !.age = IF @ < Ttl THEN @ + 1 ELSE Ttl]
      BY DEF Tick
    <3> QED BY <3>1, <3>2, Numbers DEF Entry
  <2> QED BY <2>1
<1>4. \A q \in Readers :
          \/ lookup'[q] = lookup[q] /\ lookup[q].step # "read"
          \/ /\ lookup[q].step = "read"
             /\ lookup[q] \in ReadLookup /\ lookup'[q] \in ReadLookup
             /\ lookup'[q].user = lookup[q].user /\ lookup'[q].name = lookup[q].name
             /\ lookup'[q].age = lookup[q].age + 1
  <2> SUFFICES ASSUME NEW q \in Readers, lookup[q].step = "read"
      PROVE  /\ lookup[q] \in ReadLookup /\ lookup'[q] \in ReadLookup
             /\ lookup'[q].user = lookup[q].user /\ lookup'[q].name = lookup[q].name
             /\ lookup'[q].age = lookup[q].age + 1
    BY DEF Tick
  <2>1. lookup[q] \in ReadLookup
    BY DEF IInv, TypeOK, Idle, ReadLookup
  <2>2. lookup'[q] = [lookup[q] EXCEPT !.age = @ + 1] /\ lookup[q].age < Latency
    BY DEF Tick
  <2> QED BY <2>1, <2>2, Numbers DEF ReadLookup
<1>5. /\ events \in Seq(Event) /\ events' \in Seq(Event) /\ DOMAIN events' = DOMAIN events
      /\ \A i \in DOMAIN events :
             /\ events'[i].user = events[i].user /\ events'[i].name = events[i].name
             /\ events'[i].age = events[i].age + 1
  <2>1. events \in Seq(Event)
    BY DEF IInv, TypeOK, Event
  <2>2. events' = [i \in 1 .. Len(events) |-> [events[i] EXCEPT !.age = @ + 1]]
    BY <2>1 DEF Tick
  <2>3. ASSUME NEW i \in DOMAIN events
        PROVE  /\ events'[i] \in Event
               /\ events'[i].user = events[i].user /\ events'[i].name = events[i].name
               /\ events'[i].age = events[i].age + 1
    <3>1. events[i] \in Event /\ events[i].age < Latency
      BY <2>1 DEF Tick
    <3>2. events'[i] = [events[i] EXCEPT !.age = @ + 1]
      BY <2>1, <2>2
    <3> QED BY <3>1, <3>2, Numbers DEF Event
  <2>4. events' \in [1 .. Len(events) -> Event] /\ Len(events) \in Nat
    <3>1. Len(events) \in Nat /\ DOMAIN events = 1 .. Len(events)
      BY <2>1
    <3>2. \A i \in 1 .. Len(events) : events'[i] \in Event
      BY <2>3, <3>1
    <3>3. events' = [i \in 1 .. Len(events) |-> events'[i]]
      BY <2>2
    <3> QED BY <3>1, <3>2, <3>3
  <2>5. events' \in Seq(Event) /\ DOMAIN events' = DOMAIN events
    BY <2>1, <2>4
  <2> QED BY <2>1, <2>3, <2>5
<1>6. TypeOK'
  <2>1. \A v \in Users : /\ DOMAIN gone'[v] = 0 .. profile'[v] - 1
                         /\ \A n \in DOMAIN gone'[v] : gone'[v][n] \in 0 .. Horizon
    BY <1>1, <1>2, Aging DEF IInv, TypeOK
  <2>2. DOMAIN gone' = Users /\ DOMAIN lookup' = Readers
    BY DEF Tick
  <2>3. \A q \in Readers : \/ lookup'[q] = Idle
                           \/ lookup'[q] \in AskedLookup
                           \/ lookup'[q] \in ReadLookup
    BY <1>4 DEF IInv, TypeOK, AskedLookup, ReadLookup
  <2>4. \A v \in DOMAIN entries' : entries'[v] \in Entry
    BY <1>1, <1>3
  <2> QED BY <1>1, <1>5, <2>1, <2>2, <2>3, <2>4
          DEF IInv, TypeOK, Entry, Event, AskedLookup, ReadLookup
<1>7. Bounded'
  BY <1>1 DEF IInv, Bounded
<1>8. ASSUME NEW v \in Users, NEW n, NEW a \in Nat, NotOlder(v, n, a)
      PROVE  NotOlder(v, n, a + 1)'
  <2>1. profile[v] \in Nat /\ profile'[v] = profile[v]
    BY <1>1 DEF IInv, TypeOK
  <2>2. CASE n = profile[v]
    BY <1>8, <2>1, <2>2 DEF NotOlder
  <2>3. CASE n # profile[v]
    <3>1. n \in 0 .. profile[v] - 1 /\ gone[v][n] <= a
      BY <1>8, <2>1, <2>3 DEF NotOlder
    <3>2. gone[v][n] \in 0 .. Horizon /\ gone'[v][n] = Older(gone[v][n])
      BY <1>2, <3>1 DEF IInv, TypeOK
    <3>3. Older(gone[v][n]) <= gone[v][n] + 1 /\ Older(gone[v][n]) \in 0 .. Horizon
      BY <3>2, Aging
    <3> QED BY <1>8, <2>1, <3>1, <3>2, <3>3, Numbers DEF NotOlder
  <2> QED BY <2>2, <2>3
<1>9. Ages'
  <2>1. ASSUME NEW v \in DOMAIN entries', entries'[v].age # Ttl
        PROVE  NotOlder(v, entries[v].name, entries[v].age + Latency)'
    <3>1. /\ entries[v].age \in Nat /\ entries[v].age # Ttl
          /\ entries'[v].age + Latency = (entries[v].age + Latency) + 1
          /\ entries[v].age + Latency \in Nat /\ v \in Users
      <4>1. v \in DOMAIN entries /\ v \in Users /\ entries[v].age \in 0 .. Ttl
        BY <1>1, <1>3 DEF Entry, IInv, TypeOK
      <4>2. entries'[v].age = entries[v].age + 1
        BY <1>3, <2>1, <4>1
      <4>3. entries[v].age # Ttl
        BY <1>3, <2>1, <4>1
      <4> QED BY <4>1, <4>2, <4>3, Numbers
    <3>2. NotOlder(v, entries[v].name, entries[v].age + Latency)
      BY <1>1, <2>1, <3>1 DEF IInv, Ages
    <3>3. NotOlder(v, entries'[v].name, entries'[v].age + Latency) <=>
              NotOlder(v, entries[v].name, (entries[v].age + Latency) + 1)
      BY <1>1, <1>3, <3>1
    <3> QED BY <1>1, <1>3, <1>8, <3>1, <3>2 DEF NotOlder
  <2>2. ASSUME NEW q \in Readers, lookup'[q].step = "read"
        PROVE  NotOlder(lookup[q].user, lookup[q].name, lookup[q].age)'
    <3>1. lookup[q].step = "read" /\ lookup[q].user \in Users /\ lookup[q].age \in Nat
      BY <1>4, <2>2, Numbers DEF ReadLookup
    <3>2. NotOlder(lookup[q].user, lookup[q].name, lookup[q].age)
      BY <3>1 DEF IInv, Ages
    <3> QED BY <1>4, <1>8, <2>2, <3>1, <3>2 DEF NotOlder
  <2>3. ASSUME NEW i \in DOMAIN events'
        PROVE  NotOlder(events[i].user, events[i].name, events[i].age)'
    <3>1. i \in DOMAIN events /\ events[i] \in Event
      BY <1>5
    <3>2. events[i].user \in Users /\ events[i].age \in Nat
      BY <3>1, Numbers DEF Event
    <3>3. NotOlder(events[i].user, events[i].name, events[i].age)
      BY <3>1 DEF IInv, Ages
    <3> QED BY <1>5, <1>8, <3>1, <3>2, <3>3 DEF NotOlder
  <2> QED BY <2>1, <2>2, <2>3 DEF Ages
<1> QED BY <1>6, <1>7, <1>9 DEF IInv

LEMMA Step == IInv /\ [Next]_vars => IInv'
<1> SUFFICES ASSUME IInv, [Next]_vars PROVE IInv'
  OBVIOUS
<1>1. CASE UNCHANGED vars
  BY <1>1 DEF IInv, TypeOK, Bounded, Ages, NotOlder, vars
<1>2. CASE \E r \in Readers, u \in Users : Ask(r, u)
  BY <1>2, AskStep
<1>3. CASE \E r \in Readers : Read(r)
  BY <1>3, ReadStep
<1>4. CASE \E r \in Readers : Answer(r)
  BY <1>4, AnswerStep
<1>5. CASE \E r \in Readers : LookupError(r)
  BY <1>5, LookupErrorStep
<1>6. CASE \E u \in Users : Rename(u)
  BY <1>6, RenameStep
<1>7. CASE \E i \in DOMAIN events : Refresh(i)
  BY <1>7, RefreshStep
<1>8. CASE Disconnect
  BY <1>8, DisconnectStep
<1>9. CASE Tick
  BY <1>9, TickStep
<1> QED BY <1>1, <1>2, <1>3, <1>4, <1>5, <1>6, <1>7, <1>8, <1>9 DEF Next

-----------------------------------------------------------------------------
(* Wrong names and their excuses.                                          *)

LEMMA ExplainedStart == Init => Explained
<1> SUFFICES ASSUME Init PROVE Explained
  OBVIOUS
<1>1. DOMAIN entries = {} /\ DOMAIN events = {}
  BY DEF Init
<1> QED BY <1>1 DEF Explained

LEMMA ExplainedAnswer ==
    ASSUME TypeOK, Explained, NEW r \in Readers, Answer(r)
    PROVE  Explained'
<1> DEFINE u == lookup[r].user
           name == lookup[r].name
<1>1. /\ UNCHANGED <<platform, profile, events>> /\ Put(u, name)
      /\ excused' = IF name = profile[u] THEN excused \ {u} ELSE excused \cup {u}
  BY DEF Answer
<1> HIDE DEF u, name
<1>2. /\ entries'[u] = [name |-> name, age |-> 0]
      /\ \A v \in DOMAIN entries' \ {u} : v \in DOMAIN entries /\ entries'[v] = entries[v]
  BY <1>1, PutEntries
<1>3. entries'[u].name = name
  BY <1>2
<1>4. ASSUME NEW v \in DOMAIN entries', entries'[v].name # profile'[v]
      PROVE  v \in excused' \/ \E i \in DOMAIN events' : events'[i].user = v
  <2>1. CASE v = u
    BY <1>1, <1>3, <1>4, <2>1
  <2>2. CASE v # u
    <3>1. v \in DOMAIN entries /\ entries[v].name # profile[v]
      BY <1>1, <1>2, <1>4, <2>2
    <3>2. v \in excused => v \in excused'
      BY <1>1, <2>2
    <3> QED BY <1>1, <3>1, <3>2 DEF Explained
  <2> QED BY <2>1, <2>2
<1> QED BY <1>1, <1>4 DEF Explained

\* The event that is applied was the last of its user, and then an excuse is
\* needed on Slack only, or another one is still on its way.
LEMMA ExplainedRefresh ==
    ASSUME TypeOK, Explained, NEW i \in DOMAIN events, Refresh(i)
    PROVE  Explained'
<1> DEFINE u == events[i].user
           name == events[i].name
           last == \A j \in DOMAIN events : j # i => events[j].user # u
<1>1. /\ UNCHANGED <<platform, profile>> /\ Put(u, name)
      /\ events' = RemoveAt(events, i) /\ (platform = "mattermost" => i = 1)
      /\ excused' = CASE name = profile[u] -> excused \ {u}
                      [] name # profile[u] /\ last /\ platform = "slack" -> excused \cup {u}
                      [] OTHER -> excused
  BY DEF Refresh
<1>2. /\ entries'[u].name = name
      /\ \A v \in DOMAIN entries' \ {u} : v \in DOMAIN entries /\ entries'[v] = entries[v]
  <2> HIDE DEF u, name
  <2>1. /\ entries'[u] = [name |-> name, age |-> 0]
        /\ \A v \in DOMAIN entries' \ {u} : v \in DOMAIN entries /\ entries'[v] = entries[v]
    BY <1>1, PutEntries
  <2> QED BY <2>1
<1>3. events \in Seq(Event)
  BY DEF TypeOK, Event
<1>4. \A j \in DOMAIN events' :
          /\ j < i => j \in DOMAIN events /\ events'[j] = events[j]
          /\ j >= i => j + 1 \in DOMAIN events /\ events'[j] = events[j + 1]
  BY <1>1, <1>3, Removed
<1>5. \A j \in DOMAIN events : j # i =>
          \E k \in DOMAIN events' : /\ events'[k] = events[j]
                                    /\ k = IF j < i THEN j ELSE j - 1
  <2>1. Len(events') = Len(events) - 1 /\ events' \in Seq(Event)
    BY <1>1, <1>3, Removed
  <2> SUFFICES ASSUME NEW j \in DOMAIN events, j # i
      PROVE  \E k \in DOMAIN events' : /\ events'[k] = events[j]
                                       /\ k = IF j < i THEN j ELSE j - 1
    OBVIOUS
  <2>2. /\ j \in Nat /\ i \in Nat /\ j >= 1 /\ i >= 1
        /\ j <= Len(events) /\ i <= Len(events) /\ Len(events) \in Nat
    BY <1>3
  <2>3. CASE j < i
    <3>1. j \in DOMAIN events'
      BY <2>1, <2>2, <2>3
    <3> QED BY <1>4, <2>3, <3>1
  <2>4. CASE j > i
    <3>1. j - 1 \in DOMAIN events' /\ j - 1 >= i /\ (j - 1) + 1 = j
      BY <2>1, <2>2, <2>4
    <3> QED BY <1>4, <2>2, <2>4, <3>1
  <2> QED BY <2>2, <2>3, <2>4
<1>6. ASSUME NEW v \in DOMAIN entries', entries'[v].name # profile'[v]
      PROVE  v \in excused' \/ \E j \in DOMAIN events' : events'[j].user = v
  <2>1. CASE v = u
    <3>1. name # profile[u]
      BY <1>1, <1>2, <1>6, <2>1
    <3>2. CASE last /\ platform = "slack"
      <4> HIDE DEF u, name, last
      <4>1. excused' = excused \cup {u}
        BY <1>1, <3>1, <3>2
      <4> QED BY <2>1, <4>1
    <3>3. CASE ~last
      BY <1>5, <2>1, <3>3
    <3>4. CASE last /\ platform = "mattermost"
      <4>1. PICK j \in DOMAIN events : i < j /\ events[j].user = u
        BY <3>1, <3>4 DEF Explained
      <4>2. i \in Nat /\ j \in Nat /\ j # i
        BY <1>3, <4>1
      <4> QED BY <3>4, <4>1, <4>2
    <3>5. platform \in {"mattermost", "slack"}
      BY DEF TypeOK
    <3> QED BY <3>2, <3>3, <3>4, <3>5
  <2>2. CASE v # u
    <3>1. v \in excused \/ \E j \in DOMAIN events : events[j].user = v
      BY <1>1, <1>2, <1>6, <2>2 DEF Explained
    <3>2. v \in excused => v \in excused'
      <4> HIDE DEF u, name, last
      <4> QED BY <1>1, <2>2
    <3>3. \A j \in DOMAIN events : events[j].user = v => j # i
      BY <2>2
    <3> QED BY <1>5, <3>1, <3>2, <3>3
  <2> QED BY <2>1, <2>2
<1>7. ASSUME platform' = "mattermost", NEW k \in DOMAIN events'
      PROVE  \/ events'[k].name = profile'[events'[k].user]
             \/ \E l \in DOMAIN events' : k < l /\ events'[l].user = events'[k].user
  <2>1. i = 1 /\ k \in Nat /\ k >= i
    <3>1. events' \in Seq(Event)
      BY <1>1, <1>3, Removed
    <3> QED BY <1>1, <1>7, <3>1
  <2>2. k + 1 \in DOMAIN events /\ events'[k] = events[k + 1]
    BY <1>4, <2>1
  <2>3. CASE events[k + 1].name = profile[events[k + 1].user]
    BY <1>1, <2>2, <2>3
  <2>4. CASE events[k + 1].name # profile[events[k + 1].user]
    <3>1. PICK j \in DOMAIN events : k + 1 < j /\ events[j].user = events[k + 1].user
      BY <1>1, <1>7, <2>2, <2>4 DEF Explained
    <3>2. j \in Nat /\ j # i /\ ~(j < i)
      BY <1>3, <2>1, <3>1
    <3>3. j - 1 \in DOMAIN events' /\ events'[j - 1] = events[j]
      BY <1>5, <3>2
    <3>4. k < j - 1
      BY <2>1, <3>1, <3>2
    <3> QED BY <2>2, <3>1, <3>3, <3>4
  <2> QED BY <2>3, <2>4
<1> QED BY <1>6, <1>7 DEF Explained

LEMMA ExplainedRename ==
    ASSUME TypeOK, Explained, NEW u \in Users, Rename(u)
    PROVE  Explained'
<1> DEFINE n == Len(events)
<1>1. /\ UNCHANGED <<platform, entries, excused>> /\ profile[u] \in Nat
      /\ \A v \in Users : profile'[v] = IF v = u THEN profile[u] + 1 ELSE profile[v]
      /\ events' = Append(events, [user |-> u, name |-> profile[u] + 1, age |-> 0])
  BY DEF Rename, TypeOK
<1>2. events \in Seq(Event) /\ DOMAIN events = 1 .. n /\ n \in Nat
  BY DEF TypeOK, Event
<1>3. /\ DOMAIN events' = 1 .. n + 1 /\ n + 1 \in DOMAIN events'
      /\ events'[n + 1].user = u /\ events'[n + 1].name = profile[u] + 1
      /\ \A i \in DOMAIN events : i \in DOMAIN events' /\ events'[i] = events[i] /\ i < n + 1
  BY <1>1, <1>2
<1> HIDE DEF n
<1>4. ASSUME NEW v \in DOMAIN entries', entries'[v].name # profile'[v]
      PROVE  v \in excused' \/ \E i \in DOMAIN events' : events'[i].user = v
  <2>1. CASE v = u
    BY <1>3, <2>1
  <2>2. CASE v # u
    <3>1. entries[v].name # profile[v] /\ v \in DOMAIN entries
      BY <1>1, <1>4, <2>2 DEF TypeOK
    <3> QED BY <1>1, <1>3, <3>1 DEF Explained
  <2> QED BY <2>1, <2>2
<1>5. ASSUME platform' = "mattermost", NEW i \in DOMAIN events'
      PROVE  \/ events'[i].name = profile'[events'[i].user]
             \/ \E j \in DOMAIN events' : i < j /\ events'[j].user = events'[i].user
  <2>1. CASE i = n + 1
    BY <1>1, <1>3, <2>1
  <2>2. CASE i # n + 1
    <3>1. i \in DOMAIN events /\ events'[i] = events[i] /\ events[i] \in Event
      BY <1>2, <1>3, <1>5, <2>2
    <3>2. CASE events[i].user = u
      BY <1>3, <3>1, <3>2
    <3>3. CASE events[i].user # u
      <4>1. profile'[events[i].user] = profile[events[i].user]
        BY <1>1, <3>1, <3>3 DEF Event
      <4> QED BY <1>1, <1>3, <1>5, <3>1, <4>1 DEF Explained
    <3> QED BY <3>2, <3>3
  <2> QED BY <2>1, <2>2
<1> QED BY <1>4, <1>5 DEF Explained

LEMMA ExplainedStep == TypeOK /\ Explained /\ [Next]_vars => Explained'
<1> SUFFICES ASSUME TypeOK, Explained, [Next]_vars PROVE Explained'
  OBVIOUS
<1>1. CASE UNCHANGED vars
  BY <1>1 DEF Explained, vars
<1>2. ASSUME NEW r \in Readers, NEW u \in Users, Ask(r, u) PROVE Explained'
  BY <1>2 DEF Ask, Without, Explained
<1>3. ASSUME NEW r \in Readers, Read(r) \/ LookupError(r) PROVE Explained'
  BY <1>3 DEF Read, LookupError, Explained
<1>4. ASSUME NEW r \in Readers, Answer(r) PROVE Explained'
  BY <1>4, ExplainedAnswer
<1>5. ASSUME NEW u \in Users, Rename(u) PROVE Explained'
  BY <1>5, ExplainedRename
<1>6. ASSUME NEW i \in DOMAIN events, Refresh(i) PROVE Explained'
  BY <1>6, ExplainedRefresh
<1>7. CASE Disconnect
  <2>1. /\ UNCHANGED <<platform, profile, entries>> /\ DOMAIN events' = {}
        /\ excused' = excused \cup {events[i].user : i \in DOMAIN events}
    BY <1>7 DEF Disconnect
  <2> QED BY <2>1 DEF Explained
<1>8. CASE Tick
  <2>1. /\ UNCHANGED <<platform, profile, excused>> /\ DOMAIN entries' = DOMAIN entries
        /\ \A u \in DOMAIN entries : entries'[u].name = entries[u].name
    BY <1>8 DEF Tick, TypeOK
  <2>2. /\ DOMAIN events' = DOMAIN events
        /\ \A i \in DOMAIN events : /\ events'[i].user = events[i].user
                                    /\ events'[i].name = events[i].name
    <3>1. events \in Seq(Event)
      BY DEF TypeOK, Event
    <3>2. \A i \in DOMAIN events :
              events'[i] = [events[i] EXCEPT !.age = @ + 1] /\ events[i] \in Event
      BY <1>8, <3>1 DEF Tick
    <3> QED BY <1>8, <3>2 DEF Tick, Event
  <2> QED BY <2>1, <2>2 DEF Explained
<1> QED BY <1>1, <1>2, <1>3, <1>4, <1>5, <1>6, <1>7, <1>8 DEF Next

-----------------------------------------------------------------------------
(* The theorems.                                                           *)

LEMMA Invariant == Spec => [](IInv /\ Explained)
<1>1. IInv => TypeOK
  BY DEF IInv
<1> QED BY <1>1, Start, Step, ExplainedStart, ExplainedStep, PTL DEF Spec

\* The cache's variables keep their types, for any users, readers, times and
\* sizes (NameCache.TypeOK; names.py, mattermost.py, slack.py).
THEOREM TypeCorrect == Spec => []TypeOK
<1>1. IInv => TypeOK
  BY DEF IInv
<1> QED BY <1>1, Invariant, PTL

\* The cache never outgrows its limit (names.py:24-26, 50).
THEOREM CacheLimited == Spec => []CacheBounded
<1>1. IInv => CacheBounded
  BY DEF IInv, Bounded, CacheBounded
<1> QED BY <1>1, Invariant, PTL

\* No name is given out for longer than a time to live and a latency after its
\* user has given it up (names.py:8, 20-21).
THEOREM WrongNamesEnd == Spec => []NamesRecent
<1>1. IInv => NamesRecent
  <2> SUFFICES ASSUME IInv, NEW u \in Users, Hit(u) \notin {NoName, profile[u]}
      PROVE  gone[u][Hit(u)] < Ttl + Latency
    BY DEF NamesRecent
  <2>1. u \in DOMAIN entries /\ entries[u].age < Ttl /\ Hit(u) = entries[u].name
    BY DEF Hit
  <2>2. entries[u].age \in 0 .. Ttl /\ profile[u] \in Nat
    BY <2>1 DEF IInv, TypeOK
  <2>3. NotOlder(u, entries[u].name, entries[u].age + Latency)
    BY <2>1, <2>2, Numbers DEF IInv, Ages
  <2>4. /\ entries[u].name \in 0 .. profile[u] - 1
        /\ gone[u][entries[u].name] <= entries[u].age + Latency
    BY <2>1, <2>2, <2>3 DEF NotOlder
  <2>5. gone[u][entries[u].name] \in Nat
    BY <2>4, Numbers DEF IInv, TypeOK
  <2> QED BY <2>1, <2>2, <2>4, <2>5, Numbers
<1> QED BY <1>1, Invariant, PTL

\* A wrong name has a reason: its event is still on its way, was lost or
\* overtaken, or an answer came late (names.py:9).
THEOREM WrongNamesExplained == Spec => []StaleIsExplained
<1>1. Explained => StaleIsExplained
  BY DEF Explained, StaleIsExplained, Hit
<1> QED BY <1>1, Invariant, PTL
===============================================================================
