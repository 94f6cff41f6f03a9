-------------------------- MODULE AttachmentsProofs --------------------------
(* Theorems about Attachments and their proofs.                             *)
EXTENDS Attachments, SequenceTheorems, NaturalsInduction, WellFoundedInduction,
        TLAPS

-----------------------------------------------------------------------------
(* Types.                                                                  *)

Reasons == {"relay_disabled", "too_large", "failed"}
EntryType == [file : Index, why : Reasons]
CopyType == [files : Seq(Index), notice : Seq(EntryType), edited : BOOLEAN]
Steps == {"idle", "files", "url", "put", "share", "post", "notice", "link", "done"}
Resting == {"idle", "done"}
HandlerType ==
    [at : Steps, t : DOMAIN Targets, next : 1..(Len(Files) + 1), ids : Seq(Index),
     known : Seq(EntryType), failed : Seq(EntryType), id : Nat]

Typed ==
    /\ relayFiles \in BOOLEAN
    /\ limit \in [Chans -> {0, Cap}]
    /\ posts \in [Chans -> Seq(CopyType)]
    /\ linked \in [Chans -> SUBSET Nat]
    /\ status \in {"pending", "done", "dead"}
    /\ tries \in Nat
    /\ h \in HandlerType
    /\ faults \in [FileFaults \cup HardFaults -> Nat]

LEMMA Lengths ==
    /\ Len(Files) \in Nat /\ Index = 1..Len(Files)
    /\ Len(Targets) \in Nat \ {0} /\ DOMAIN Targets = 1..Len(Targets)
<1>1. Files \in Seq([size : Nat, bytes : Nat]) /\ Targets \in Seq(Range(Targets))
  BY FilesAssumption, TargetsAssumption
<1>2. Len(Files) \in Nat /\ DOMAIN Files = 1..Len(Files)
  BY <1>1
<1>3. Len(Targets) \in Nat /\ DOMAIN Targets = 1..Len(Targets)
  BY <1>1
<1>4. Len(Targets) # 0
  BY <1>1, EmptySeq, TargetsAssumption
<1> QED BY <1>2, <1>3, <1>4 DEF Index

LEMMA TargetsIndexed ==
    /\ \A i \in DOMAIN Targets : Targets[i] \in Chans
    /\ \A t \in Chans : \E i \in DOMAIN Targets : t = Targets[i]
    /\ \A i, j \in DOMAIN Targets : Targets[i] = Targets[j] => i = j
BY TargetsAssumption DEF Chans, Range, IsInjective

-----------------------------------------------------------------------------
(* Sequences of entries.                                                   *)

\* The entries of a notice are of different files.
Once(n) == \A i, j \in DOMAIN n : n[i].file = n[j].file => i = j

LEMMA RangeAppend ==
    ASSUME NEW S, NEW s \in Seq(S), NEW e \in S
    PROVE  /\ Append(s, e) \in Seq(S)
           /\ Range(Append(s, e)) = Range(s) \cup {e}
<1>1. /\ Append(s, e) \in Seq(S) /\ Len(Append(s, e)) = Len(s) + 1
      /\ \A i \in 1..Len(s) : Append(s, e)[i] = s[i]
      /\ Append(s, e)[Len(s) + 1] = e
  BY AppendProperties
<1>2. DOMAIN Append(s, e) = 1..(Len(s) + 1) /\ DOMAIN s = 1..Len(s) /\ Len(s) \in Nat
  BY <1>1, LenProperties
<1> QED BY <1>1, <1>2 DEF Range

LEMMA NamedAppend ==
    ASSUME NEW s \in Seq(EntryType), NEW e \in EntryType
    PROVE  /\ Append(s, e) \in Seq(EntryType)
           /\ Named(Append(s, e)) = Named(s) \cup {e.file}
           /\ Once(s) /\ e.file \notin Named(s) => Once(Append(s, e))
<1>1. /\ Append(s, e) \in Seq(EntryType) /\ Len(Append(s, e)) = Len(s) + 1
      /\ \A i \in 1..Len(s) : Append(s, e)[i] = s[i]
      /\ Append(s, e)[Len(s) + 1] = e
  BY AppendProperties
<1>2. DOMAIN Append(s, e) = 1..(Len(s) + 1) /\ DOMAIN s = 1..Len(s) /\ Len(s) \in Nat
  BY <1>1, LenProperties
<1> HIDE DEF EntryType
<1>3. \A i \in 1..(Len(s) + 1) : i \in 1..Len(s) \/ i = Len(s) + 1
  BY <1>2
<1> DEFINE a == Append(s, e)
<1> HIDE DEF a
<1>4. Named(a) = Named(s) \cup {e.file}
  BY <1>1, <1>2, <1>3 DEF Named, a
<1>5. Once(s) /\ e.file \notin Named(s) => Once(a)
  BY <1>1, <1>2, <1>3 DEF Named, Once, a
<1> QED BY <1>1, <1>4, <1>5 DEF a

LEMMA NamedConcat ==
    ASSUME NEW s \in Seq(EntryType), NEW q \in Seq(EntryType)
    PROVE  /\ s \o q \in Seq(EntryType)
           /\ Named(s \o q) = Named(s) \cup Named(q)
           /\ Once(s) /\ Once(q) /\ Named(s) \cap Named(q) = {} => Once(s \o q)
<1> DEFINE c == s \o q
           m == Len(s)
           n == Len(q)
<1>1. /\ c \in Seq(EntryType) /\ Len(c) = m + n
      /\ \A i \in 1..(m + n) : c[i] = IF i <= m THEN s[i] ELSE q[i - m]
  BY ConcatProperties
<1>2. /\ DOMAIN c = 1..(m + n) /\ DOMAIN s = 1..m /\ DOMAIN q = 1..n
      /\ m \in Nat /\ n \in Nat
  BY <1>1, LenProperties
<1> HIDE DEF c, m, n, EntryType
<1>3. \A i \in 1..m : i \in DOMAIN c /\ c[i] = s[i]
  BY <1>1, <1>2
<1>4. \A i \in 1..n : m + i \in DOMAIN c /\ c[m + i] = q[i]
  BY <1>1, <1>2
<1>5. \A i \in DOMAIN c : \/ i \in DOMAIN s /\ c[i] = s[i]
                          \/ i - m \in DOMAIN q /\ c[i] = q[i - m]
  BY <1>1, <1>2
<1>6. Named(c) = Named(s) \cup Named(q)
  <2>1. Named(s) \subseteq Named(c)
    BY <1>2, <1>3 DEF Named
  <2>2. Named(q) \subseteq Named(c)
    BY <1>2, <1>4 DEF Named
  <2>3. Named(c) \subseteq Named(s) \cup Named(q)
    BY <1>5 DEF Named
  <2> QED BY <2>1, <2>2, <2>3
<1>7. ASSUME Once(s), Once(q), Named(s) \cap Named(q) = {} PROVE Once(c)
  <2> SUFFICES ASSUME NEW i \in DOMAIN c, NEW j \in DOMAIN c, c[i].file = c[j].file
               PROVE  i = j
    BY DEF Once
  <2>1. CASE i \in DOMAIN s /\ j \in DOMAIN s /\ c[i] = s[i] /\ c[j] = s[j]
    BY <1>7, <2>1 DEF Once
  <2>2. CASE /\ i - m \in DOMAIN q /\ c[i] = q[i - m]
             /\ j - m \in DOMAIN q /\ c[j] = q[j - m]
    <3>1. i - m = j - m
      BY <1>7, <2>2 DEF Once
    <3> QED BY <1>2, <3>1
  <2>3. CASE i \in DOMAIN s /\ c[i] = s[i] /\ j - m \in DOMAIN q /\ c[j] = q[j - m]
    <3>1. c[i].file \in Named(s) /\ c[j].file \in Named(q)
      BY <2>3 DEF Named
    <3> QED BY <1>7, <3>1
  <2>4. CASE j \in DOMAIN s /\ c[j] = s[j] /\ i - m \in DOMAIN q /\ c[i] = q[i - m]
    <3>1. c[j].file \in Named(s) /\ c[i].file \in Named(q)
      BY <2>4 DEF Named
    <3> QED BY <1>7, <3>1
  <2> QED BY <1>5, <2>1, <2>2, <2>3, <2>4
<1> QED BY <1>1, <1>6, <1>7 DEF c

LEMMA NamedEmpty == Named(<<>>) = {} /\ Once(<<>>) /\ Range(<<>>) = {}
BY DEF Named, Once, Range

-----------------------------------------------------------------------------
(* What _precheck_all() returns, by induction over the files.              *)

LEMMA LeastNumber ==
    ASSUME NEW S \in SUBSET Nat, S # {}
    PROVE  \E n \in S : \A m \in S : n <= m
<1> DEFINE R == {ss \in Nat \X Nat : ss[1] < ss[2]}
<1>1. IsWellFoundedOn(R, Nat)
  BY NatLessThanWellFounded, Zenon DEF OpToRel
<1>2. PICK n \in S : \A m \in S : ~(<<m, n>> \in R)
  <2> HIDE DEF R
  <2> QED BY <1>1, WFMin
<1>3. \A m \in S : ~ (m < n)
  BY <1>2
<1> QED BY <1>3

\* Induction, for a set in the place of a predicate.
LEMMA SetInduction ==
    ASSUME NEW S, 0 \in S, \A n \in Nat : n \in S => n + 1 \in S
    PROVE  \A n \in Nat : n \in S
<1> SUFFICES ASSUME Nat \ S # {} PROVE FALSE
  OBVIOUS
<1>1. PICK n \in Nat \ S : \A m \in Nat \ S : n <= m
  BY LeastNumber
<1>2. n # 0 /\ n - 1 \in Nat /\ n - 1 \in S
  BY <1>1
<1> QED BY <1>1, <1>2

\* The list while n files have been looked at.
Looked(t, n, out) ==
    IF n = 0 THEN <<>>
    ELSE IF Precheck(t, n) = "none" THEN out[n - 1]
    ELSE Append(out[n - 1], Entry(n, Precheck(t, n)))

LEMMA PrecheckAllDefined ==
    ASSUME NEW t
    PROVE  \E out : /\ out = [n \in 0..Len(Files) |-> Looked(t, n, out)]
                    /\ PrecheckAll(t) = out[Len(Files)]
<1> DEFINE L == Len(Files)
           Is(out, k) == out = [n \in 0..k |-> Looked(t, n, out)]
           S == {k \in Nat : \E out : Is(out, k)}
<1>1. L \in Nat
  BY Lengths
<1>2. 0 \in S
  <2> DEFINE out == [n \in 0..0 |-> <<>>]
  <2>1. Is(out, 0)
    BY DEF Looked
  <2> QED BY <2>1
<1>3. ASSUME NEW k \in Nat, k \in S PROVE k + 1 \in S
  <2>1. PICK out : Is(out, k)
    BY <1>3
  <2> DEFINE new == [n \in 0..(k + 1) |->
                        IF n = k + 1 THEN Looked(t, k + 1, out) ELSE out[n]]
  <2>2. \A n \in 0..k : new[n] = out[n] /\ out[n] = Looked(t, n, out)
    BY <2>1
  <2>3. new[k + 1] = Looked(t, k + 1, out)
    OBVIOUS
  <2> HIDE DEF new
  <2>4. \A n \in 0..(k + 1) : Looked(t, n, new) = Looked(t, n, out)
    BY <2>2 DEF Looked
  <2>5. \A n \in 0..(k + 1) : new[n] = Looked(t, n, new)
    <3> TAKE n \in 0..(k + 1)
    <3>1. n \in 0..k \/ n = k + 1
      OBVIOUS
    <3> QED BY <2>2, <2>3, <2>4, <3>1
  <2>6. new = [n \in 0..(k + 1) |-> new[n]]
    BY DEF new
  <2>7. Is(new, k + 1)
    BY <2>5, <2>6
  <2> QED BY <2>7
<1>4. L \in S
  <2> HIDE DEF S
  <2> QED BY <1>1, <1>2, <1>3, SetInduction
<1> DEFINE f == CHOOSE out : Is(out, L)
<1>5. Is(f, L)
  BY <1>4
<1>6. PrecheckAll(t) = f[L]
  BY DEF PrecheckAll, Looked
<1> QED BY <1>5, <1>6

LEMMA PrecheckReasons ==
    ASSUME NEW t, NEW f
    PROVE  Precheck(t, f) \in {"none", "relay_disabled", "too_large"}
BY DEF Precheck

\* The list names the files that fail the test, each once.
LEMMA PrecheckAllNames ==
    ASSUME NEW t
    PROVE  /\ PrecheckAll(t) \in Seq(EntryType)
           /\ Named(PrecheckAll(t)) = {f \in Index : Precheck(t, f) # "none"}
           /\ Once(PrecheckAll(t))
<1> DEFINE L == Len(Files)
           Fails(n) == {f \in 1..n : Precheck(t, f) # "none"}
           Good(n, s) == /\ s \in Seq(EntryType)
                         /\ Named(s) = Fails(n)
                         /\ Once(s)
<1>1. PICK out : /\ out = [n \in 0..L |-> Looked(t, n, out)]
                 /\ PrecheckAll(t) = out[L]
  BY PrecheckAllDefined
<1>2. L \in Nat /\ Index = 1..L
  BY Lengths
<1>3. \A n \in 0..L : out[n] = Looked(t, n, out)
  BY <1>1
<1> DEFINE S == {n \in Nat : n <= L => Good(n, out[n])}
<1>4. 0 \in S
  <2>1. out[0] = <<>>
    BY <1>2, <1>3 DEF Looked
  <2>2. <<>> \in Seq(EntryType)
    OBVIOUS
  <2>3. Fails(0) = {}
    OBVIOUS
  <2> HIDE DEF Fails
  <2>4. Good(0, out[0])
    BY <2>1, <2>2, <2>3, NamedEmpty
  <2> QED BY <2>4
<1>5. ASSUME NEW n \in Nat, n \in S PROVE n + 1 \in S
  <2> SUFFICES ASSUME n + 1 <= L PROVE Good(n + 1, out[n + 1])
    OBVIOUS
  <2> DEFINE e == Entry(n + 1, Precheck(t, n + 1))
  <2>1. Good(n, out[n])
    BY <1>2, <1>5
  <2>2. n + 1 # 0 /\ (n + 1) - 1 = n /\ n + 1 \in 0..L /\ n + 1 \in Index
    BY <1>2
  <2>3. out[n + 1] = IF Precheck(t, n + 1) = "none" THEN out[n] ELSE Append(out[n], e)
    BY <1>3, <2>2 DEF Looked
  <2>4. CASE Precheck(t, n + 1) = "none"
    <3>1. Fails(n + 1) = Fails(n)
      BY <2>4
    <3> HIDE DEF Fails
    <3> QED BY <2>1, <2>3, <2>4, <3>1
  <2>5. CASE Precheck(t, n + 1) # "none"
    <3>1. Fails(n + 1) = Fails(n) \cup {n + 1} /\ n + 1 \notin Fails(n)
      BY <2>5
    <3>2. e \in EntryType /\ e.file = n + 1
      BY <2>2, <2>5, PrecheckReasons DEF Entry, EntryType, Reasons
    <3> HIDE DEF Fails, e
    <3> QED BY <2>1, <2>3, <2>5, <3>1, <3>2, NamedAppend
  <2> QED BY <2>4, <2>5
<1>6. L \in S
  <2> HIDE DEF S
  <2> QED BY <1>2, <1>4, <1>5, SetInduction
<1>7. Good(L, out[L])
  BY <1>2, <1>6
<1> QED BY <1>1, <1>2, <1>7
-----------------------------------------------------------------------------
(* The inductive invariant.                                                *)

Transferring == {"files", "url", "put", "share"}

\* The handler has posted a copy in its target, and has not recorded it.
HasCopy == h.at \in {"notice", "link"} \/ (h.at \in Transferring /\ ~Pre)
Copy == posts[T][h.id]
Done == 1..(h.next - 1)

Working ==
    /\ h.at # "idle" => status = "pending"
    /\ h.at \in {"url", "share", "notice"} => ~Pre
    /\ h.at \in {"url", "put", "share"} => h.next \in Index
    /\ \A t \in Chans : linked[t] \subseteq DOMAIN posts[t]
    /\ HasCopy => h.id \in DOMAIN posts[T] /\ h.id \notin linked[T]

\* Before the post: a file that is done has an id or an entry.
FilesFirst ==
    /\ h.known = <<>> /\ Once(h.failed)
    /\ Range(h.ids) \cup Named(h.failed) = Done
    /\ Range(h.ids) \cap Named(h.failed) = {}
    /\ h.at = "post" => Done = Index

\* After the post: a file that is done hangs on the copy, or is named in the
\* notice of the body or among those to be added.
PostFirst ==
    /\ Named(h.known) = {f \in Index : Precheck(T, f) # "none"}
    /\ h.ids = <<>> /\ Once(h.known) /\ Once(h.failed)
    /\ h.at = "post" => h.failed = <<>> /\ h.next = 1
    /\ h.at \in {"url", "put", "share"} => h.next \notin Named(h.known)
    /\ h.at # "post" =>
         /\ Copy.notice = h.known
         /\ Range(Copy.files) \cup Named(h.failed) = Done \ Named(h.known)
         /\ faults["share_reply"] = 0 => Range(Copy.files) \cap Named(h.failed) = {}
    /\ h.at = "notice" => Done = Index

Accounted ==
    /\ h.at \in Transferring \cup {"post"} /\ Pre => FilesFirst
    /\ h.at \in Transferring \cup {"post", "notice"} /\ ~Pre => PostFirst
    /\ h.at = "link" /\ faults["notice"] = 0 =>
         Range(Copy.files) \cup Named(Copy.notice) = Index

\* This attempt has posted in the i-th target.
Sent(i) == \/ status = "done"
           \/ h.at = "done"
           \/ h.at # "idle" /\ (i < h.t \/ (i = h.t /\ HasCopy))

Counted ==
    /\ tries <= Hard
    /\ status = "dead" => Hard > 0
    /\ \A i \in DOMAIN Targets :
         /\ Sent(i) /\ (h.at \in Resting \/ i < h.t) => linked[Targets[i]] # {}
         /\ Len(posts[Targets[i]]) <= Hard + (IF Sent(i) THEN 1 ELSE 0)

IInv == Typed /\ Working /\ Accounted /\ NothingVanishes /\ NoticeTruthful /\ Counted

-----------------------------------------------------------------------------
(* What steps have in common.                                              *)

\* No kind of fault is uncounted.
MoreFaults == \A k \in FileFaults \cup HardFaults : faults'[k] >= faults[k]

LEMMA FaultCounted ==
    ASSUME Typed, NEW k \in FileFaults \cup HardFaults, Fault(k)
    PROVE  /\ faults' \in [FileFaults \cup HardFaults -> Nat]
           /\ MoreFaults
           /\ Hard \in Nat
           /\ Hard' = IF k \in HardFaults THEN Hard + 1 ELSE Hard
           /\ faults'[k] > 0
<1>1. faults \in [FileFaults \cup HardFaults -> Nat]
  BY DEF Typed
<1>2. faults' = [faults EXCEPT ![k] = @ + 1]
  BY DEF Fault
<1>3. /\ faults'[k] = faults[k] + 1
      /\ \A i \in FileFaults \cup HardFaults : i # k => faults'[i] = faults[i]
      /\ faults' \in [FileFaults \cup HardFaults -> Nat]
  BY <1>1, <1>2
<1>4. \A i \in FileFaults \cup HardFaults : faults[i] \in Nat
  BY <1>1
<1>5. MoreFaults /\ faults'[k] > 0
  BY <1>3, <1>4 DEF MoreFaults
<1>6. Hard \in Nat /\ Hard' = IF k \in HardFaults THEN Hard + 1 ELSE Hard
  BY <1>3, <1>4 DEF Hard, FileFaults, HardFaults
<1> QED BY <1>3, <1>5, <1>6

LEMMA NoFault ==
    ASSUME Typed, faults' = faults
    PROVE  /\ faults' \in [FileFaults \cup HardFaults -> Nat]
           /\ MoreFaults
           /\ Hard \in Nat /\ Hard' = Hard
BY DEF Typed, MoreFaults, Hard, FileFaults, HardFaults

LEMMA CopyAdded ==
    ASSUME Typed, NEW t \in Chans, NEW p \in CopyType,
           posts' = [posts EXCEPT ![t] = Append(@, p)]
    PROVE  /\ posts' \in [Chans -> Seq(CopyType)]
           /\ Len(posts[t]) \in Nat /\ DOMAIN posts[t] = 1..Len(posts[t])
           /\ Len(posts'[t]) = Len(posts[t]) + 1
           /\ DOMAIN posts'[t] = 1..(Len(posts[t]) + 1)
           /\ \A k \in DOMAIN posts[t] : posts'[t][k] = posts[t][k]
           /\ posts'[t][Len(posts[t]) + 1] = p
           /\ \A u \in Chans \ {t} : posts'[u] = posts[u]
<1> HIDE DEF CopyType
<1>1. posts[t] \in Seq(CopyType) /\ posts'[t] = Append(posts[t], p)
  BY DEF Typed
<1>2. /\ posts'[t] \in Seq(CopyType) /\ Len(posts'[t]) = Len(posts[t]) + 1
      /\ \A k \in 1..Len(posts[t]) : posts'[t][k] = posts[t][k]
      /\ posts'[t][Len(posts[t]) + 1] = p
  BY <1>1, AppendProperties
<1>3. /\ Len(posts[t]) \in Nat /\ DOMAIN posts[t] = 1..Len(posts[t])
      /\ DOMAIN posts'[t] = 1..(Len(posts[t]) + 1)
  BY <1>1, <1>2, LenProperties
<1>4. \A u \in Chans \ {t} : posts'[u] = posts[u]
  BY DEF Typed
<1>5. posts' \in [Chans -> Seq(CopyType)]
  BY <1>1, <1>2 DEF Typed
<1> QED BY <1>2, <1>3, <1>4, <1>5

LEMMA CopyRewritten ==
    ASSUME Typed, NEW t \in Chans, NEW i \in DOMAIN posts[t], NEW p \in CopyType,
           posts' = [posts EXCEPT ![t][i] = p]
    PROVE  /\ posts' \in [Chans -> Seq(CopyType)]
           /\ Len(posts'[t]) = Len(posts[t])
           /\ DOMAIN posts'[t] = DOMAIN posts[t]
           /\ \A k \in DOMAIN posts[t] \ {i} : posts'[t][k] = posts[t][k]
           /\ posts'[t][i] = p
           /\ \A u \in Chans \ {t} : posts'[u] = posts[u]
<1> HIDE DEF CopyType
<1> DEFINE s == posts[t]
           q == [s EXCEPT ![i] = p]
<1>1. s \in Seq(CopyType) /\ Len(s) \in Nat /\ DOMAIN s = 1..Len(s)
  BY LenProperties DEF Typed
<1>2. posts'[t] = q
  BY DEF Typed
<1> HIDE DEF s
<1>3. q \in [1..Len(s) -> CopyType]
  <2>1. s \in [1..Len(s) -> CopyType]
    BY <1>1
  <2> QED BY <2>1
<1>4. /\ DOMAIN q = 1..Len(s) /\ q[i] = p
      /\ \A k \in DOMAIN s \ {i} : q[k] = s[k]
  BY <1>1, <1>3 DEF s
<1> HIDE DEF q
<1>5. q \in Seq(CopyType)
  BY <1>1, <1>3, SeqDef
<1>6. Len(q) = Len(s)
  BY <1>1, <1>4, <1>5, LenProperties
<1>7. \A u \in Chans \ {t} : posts'[u] = posts[u]
  BY DEF Typed
<1>8. posts' \in [Chans -> Seq(CopyType)]
  BY <1>2, <1>5 DEF Typed
<1> QED BY <1>1, <1>2, <1>4, <1>6, <1>7, <1>8 DEF s

\* A copy that is new, or changed, is truthful: then all are.
LEMMA TruthfulKept ==
    ASSUME Typed, NoticeTruthful, MoreFaults,
           faults' \in [FileFaults \cup HardFaults -> Nat],
           \A u \in Chans : \A k \in DOMAIN posts'[u] :
             \/ k \in DOMAIN posts[u] /\ posts'[u][k] = posts[u][k]
             \/ /\ Once(posts'[u][k].notice)
                /\ faults'["share_reply"] = 0 =>
                     Range(posts'[u][k].files) \cap Named(posts'[u][k].notice) = {}
    PROVE  NoticeTruthful'
<1> DEFINE Fine(p) == /\ Once(p.notice)
                      /\ faults'["share_reply"] = 0 =>
                           Range(p.files) \cap Named(p.notice) = {}
<1>1. faults'["share_reply"] = 0 => faults["share_reply"] = 0
  BY DEF MoreFaults, Typed, FileFaults
<1>2. \A u \in Chans : \A k \in DOMAIN posts[u] : Fine(posts[u][k])
  BY <1>1 DEF NoticeTruthful, Once
<1>3. \A u \in Chans : \A k \in DOMAIN posts'[u] :
        \/ k \in DOMAIN posts[u] /\ posts'[u][k] = posts[u][k]
        \/ Fine(posts'[u][k])
  OBVIOUS
<1> HIDE DEF Fine
<1>4. \A u \in Chans : \A k \in DOMAIN posts'[u] : Fine(posts'[u][k])
  BY <1>2, <1>3
<1> QED BY <1>4 DEF NoticeTruthful, Fine, Once, Named, Range

\* Recorded copies stay as they are, or are edited, or account for all files.
LEMMA VanishingKept ==
    ASSUME Typed, NothingVanishes, MoreFaults,
           faults' \in [FileFaults \cup HardFaults -> Nat],
           \A u \in Chans : \A k \in linked'[u] :
             \/ k \in linked[u] /\ posts'[u][k] = posts[u][k]
             \/ posts'[u][k].edited
             \/ faults'["notice"] = 0 =>
                  Range(posts'[u][k].files) \cup Named(posts'[u][k].notice) = Index
    PROVE  NothingVanishes'
<1>1. faults'["notice"] = 0 => faults["notice"] = 0
  BY DEF MoreFaults, Typed, FileFaults
<1> DEFINE All(p) == Range(p.files) \cup Named(p.notice) = Index
<1>2. ASSUME faults["notice"] = 0, NEW u \in Chans, NEW k \in linked[u]
      PROVE  ~posts[u][k].edited => All(posts[u][k])
  BY <1>2 DEF NothingVanishes
<1>3. ASSUME faults'["notice"] = 0, NEW u \in Chans, NEW k \in linked'[u]
      PROVE  ~posts'[u][k].edited => All(posts'[u][k])
  <2> HIDE DEF All
  <2>1. CASE k \in linked[u] /\ posts'[u][k] = posts[u][k]
    BY <1>1, <1>2, <1>3, <2>1
  <2>2. CASE posts'[u][k].edited
    BY <2>2
  <2>3. CASE ~posts'[u][k].edited /\ ~(k \in linked[u] /\ posts'[u][k] = posts[u][k])
    BY <1>3, <2>3 DEF All
  <2> QED BY <2>1, <2>2, <2>3
<1> QED BY <1>3 DEF NothingVanishes, Named, Range, Index

-----------------------------------------------------------------------------
(* Steps of the handler that leave the channels alone.                     *)

Turn(at, next, ids, failed) ==
    /\ h' = [at |-> at, t |-> h.t, next |-> next, ids |-> ids, known |-> h.known,
             failed |-> failed, id |-> h.id]
    /\ UNCHANGED <<config, posts, linked, status, tries>>

Unfailing == faults' = faults \/ \E k \in FileFaults : Fault(k)

LEMMA UnfailingCounted ==
    ASSUME Typed, Unfailing
    PROVE  /\ faults' \in [FileFaults \cup HardFaults -> Nat]
           /\ MoreFaults
           /\ Hard \in Nat /\ Hard' = Hard
<1>1. ASSUME NEW k \in FileFaults PROVE k \notin HardFaults
  BY <1>1 DEF FileFaults, HardFaults
<1> QED BY <1>1, FaultCounted, NoFault DEF Unfailing

LEMMA TurnFacts ==
    ASSUME IInv, h.at \notin Resting, Unfailing,
           NEW at \in Steps \ Resting, NEW next \in 1..(Len(Files) + 1),
           NEW ids \in Seq(Index), NEW failed \in Seq(EntryType),
           Turn(at, next, ids, failed),
           at \in {"notice", "link"} \/ (at \in Transferring /\ ~Pre) <=> HasCopy,
           at \in {"url", "share", "notice"} => ~Pre,
           at \in {"url", "put", "share"} => next \in Index
    PROVE  /\ Typed' /\ Working' /\ NothingVanishes' /\ NoticeTruthful' /\ Counted'
           /\ h'.at = at /\ h'.next = next /\ h'.ids = ids /\ h'.known = h.known
           /\ h'.failed = failed
           /\ T' = T /\ (Pre' <=> Pre) /\ Copy' = Copy
           /\ \A f : Precheck(T, f)' = Precheck(T, f)
           /\ MoreFaults
<1>1. /\ h'.at = at /\ h'.t = h.t /\ h'.next = next /\ h'.ids = ids
      /\ h'.known = h.known /\ h'.failed = failed /\ h'.id = h.id
  BY DEF Turn
<1>2. UNCHANGED <<relayFiles, limit, posts, linked, status, tries>>
  BY DEF Turn, config
<1>3. /\ faults' \in [FileFaults \cup HardFaults -> Nat]
      /\ MoreFaults
      /\ Hard \in Nat /\ Hard' = Hard
  BY UnfailingCounted DEF IInv
<1>4. T' = T /\ (Pre' <=> Pre)
  BY <1>1 DEF T, Pre
<1>5. Copy' = Copy /\ (HasCopy' <=> HasCopy)
  BY <1>1, <1>2, <1>4 DEF Copy, HasCopy
<1>6. Typed'
  <2>1. h' \in HandlerType
    BY DEF Turn, IInv, Typed, HandlerType, Steps
  <2> QED BY <1>2, <1>3, <2>1 DEF IInv, Typed
<1>7. Working'
  BY <1>1, <1>2, <1>4, <1>5 DEF IInv, Working, Resting
<1>8. NothingVanishes'
  BY <1>2, <1>3, VanishingKept DEF IInv
<1>9. NoticeTruthful'
  <2>1. \A u \in Chans : \A k \in DOMAIN posts'[u] :
          k \in DOMAIN posts[u] /\ posts'[u][k] = posts[u][k]
    BY <1>2
  <2> QED BY <1>3, <2>1, TruthfulKept DEF IInv
<1>10. \A i : Sent(i)' <=> Sent(i)
  BY <1>1, <1>2, <1>5 DEF Sent, Resting
<1>11. Counted'
  BY <1>1, <1>2, <1>3, <1>10 DEF IInv, Counted
<1>12. \A f : Precheck(T, f)' = Precheck(T, f)
  BY <1>2, <1>4 DEF Precheck
<1> QED BY <1>1, <1>3, <1>4, <1>5, <1>6, <1>7, <1>8, <1>9, <1>11, <1>12

\* The fields of a handler after a step.
LEMMA TurnOf ==
    ASSUME Typed
    PROVE  /\ \A at : [h EXCEPT !.at = at]
                = [at |-> at, t |-> h.t, next |-> h.next, ids |-> h.ids,
                   known |-> h.known, failed |-> h.failed, id |-> h.id]
           /\ \A at, next, failed : [h EXCEPT !.at = at, !.next = next, !.failed = failed]
                = [at |-> at, t |-> h.t, next |-> next, ids |-> h.ids,
                   known |-> h.known, failed |-> failed, id |-> h.id]
           /\ \A at, next, ids : [h EXCEPT !.at = at, !.next = next, !.ids = ids]
                = [at |-> at, t |-> h.t, next |-> next, ids |-> ids,
                   known |-> h.known, failed |-> h.failed, id |-> h.id]
           /\ \A next, failed : [h EXCEPT !.next = next, !.failed = failed]
                = [at |-> h.at, t |-> h.t, next |-> next, ids |-> h.ids,
                   known |-> h.known, failed |-> failed, id |-> h.id]
<1> DEFINE Rec(at, next, ids, failed) ==
             [at |-> at, t |-> h.t, next |-> next, ids |-> ids, known |-> h.known,
              failed |-> failed, id |-> h.id]
<1>1. h = Rec(h.at, h.next, h.ids, h.failed)
  BY DEF Typed, HandlerType
<1>2. ASSUME NEW at
      PROVE  [h EXCEPT !.at = at] = Rec(at, h.next, h.ids, h.failed)
  BY <1>1
<1>3. ASSUME NEW next
      PROVE  [h EXCEPT !.next = next] = Rec(h.at, next, h.ids, h.failed)
  BY <1>1
<1>4. ASSUME NEW at, NEW next, NEW failed
      PROVE  [h EXCEPT !.at = at, !.next = next, !.failed = failed]
               = Rec(at, next, h.ids, failed)
  <2> DEFINE a == [h EXCEPT !.at = at]
             b == [a EXCEPT !.next = next]
  <2>1. a = Rec(at, h.next, h.ids, h.failed)
    BY <1>2
  <2> HIDE DEF a
  <2>2. b = Rec(at, next, h.ids, h.failed)
    BY <2>1
  <2> HIDE DEF b
  <2>3. [b EXCEPT !.failed = failed] = Rec(at, next, h.ids, failed)
    BY <2>2
  <2> QED BY <2>3 DEF a, b
<1>5. ASSUME NEW at, NEW next, NEW ids
      PROVE  [h EXCEPT !.at = at, !.next = next, !.ids = ids]
               = Rec(at, next, ids, h.failed)
  <2> DEFINE a == [h EXCEPT !.at = at]
             b == [a EXCEPT !.next = next]
  <2>1. a = Rec(at, h.next, h.ids, h.failed)
    BY <1>2
  <2> HIDE DEF a
  <2>2. b = Rec(at, next, h.ids, h.failed)
    BY <2>1
  <2> HIDE DEF b
  <2>3. [b EXCEPT !.ids = ids] = Rec(at, next, ids, h.failed)
    BY <2>2
  <2> QED BY <2>3 DEF a, b
<1>6. ASSUME NEW next, NEW failed
      PROVE  [h EXCEPT !.next = next, !.failed = failed]
               = Rec(h.at, next, h.ids, failed)
  <2> DEFINE a == [h EXCEPT !.next = next]
  <2>1. a = Rec(h.at, next, h.ids, h.failed)
    BY <1>3
  <2> HIDE DEF a
  <2>2. [a EXCEPT !.failed = failed] = Rec(h.at, next, h.ids, failed)
    BY <2>1
  <2> QED BY <2>2 DEF a
<1> QED BY <1>2, <1>4, <1>5, <1>6

LEMMA TurnNext ==
    ASSUME Typed, NEW at, NEW next
    PROVE  [h EXCEPT !.at = at, !.next = next]
             = [at |-> at, t |-> h.t, next |-> next, ids |-> h.ids, known |-> h.known,
                failed |-> h.failed, id |-> h.id]
<1> DEFINE a == [h EXCEPT !.at = at]
<1>1. a = [at |-> at, t |-> h.t, next |-> h.next, ids |-> h.ids, known |-> h.known,
           failed |-> h.failed, id |-> h.id]
  BY TurnOf
<1> HIDE DEF a
<1>2. [a EXCEPT !.next = next]
        = [at |-> at, t |-> h.t, next |-> next, ids |-> h.ids, known |-> h.known,
           failed |-> h.failed, id |-> h.id]
  BY <1>1
<1> QED BY <1>2 DEF a

\* One more file is done.
LEMMA DoneGrows ==
    ASSUME Typed, h.next \in Index
    PROVE  /\ h.next \in Nat /\ h.next + 1 \in 1..(Len(Files) + 1)
           /\ h.next \notin Done
           /\ h'.next = h.next + 1 => Done' = Done \cup {h.next}
<1>1. h.next \in 1..Len(Files) /\ Len(Files) \in Nat
  BY Lengths
<1> QED BY <1>1 DEF Done

\* All files are done.
LEMMA AllDone ==
    ASSUME Typed, h.next \notin Index
    PROVE  Done = Index
<1>1. h.next \in 1..(Len(Files) + 1) /\ Index = 1..Len(Files) /\ Len(Files) \in Nat
  BY Lengths DEF Typed, HandlerType
<1>2. h.next = Len(Files) + 1
  BY <1>1
<1> QED BY <1>1, <1>2 DEF Done

\* A file that the loop has not passed over is named nowhere yet.
LEMMA NextUnnamed ==
    ASSUME IInv, h.at \in Transferring, h.next \in Index
    PROVE  /\ h.next \notin Named(h.failed)
           /\ Pre => h.next \notin Range(h.ids) /\ h.next \notin Named(h.known)
           /\ ~Pre => h.next \notin Range(Copy.files)
<1>1. h.next \notin Done
  BY DoneGrows DEF IInv
<1>2. CASE Pre
  <2>1. FilesFirst
    BY <1>2 DEF IInv, Accounted
  <2> QED BY <1>1, <1>2, <2>1, NamedEmpty DEF FilesFirst
<1>3. CASE ~Pre
  <2>1. PostFirst /\ h.at # "post"
    BY <1>3 DEF IInv, Accounted, Transferring
  <2> QED BY <1>1, <1>3, <2>1 DEF PostFirst
<1> QED BY <1>2, <1>3

LEMMA PassOverStep == IInv /\ PassOver => IInv'
<1> SUFFICES ASSUME IInv, PassOver PROVE IInv'
  OBVIOUS
<1> DEFINE f == h.next
           e == Entry(f, Precheck(T, f))
           failed == IF f \in Named(h.known) THEN h.failed ELSE Append(h.failed, e)
<1>1. h.at = "files" /\ f \in Index /\ Passed(f)
  BY DEF PassOver
<1>2. Typed /\ h.ids \in Seq(Index) /\ h.failed \in Seq(EntryType)
  BY DEF IInv, Typed, HandlerType
<1>3. f \notin Named(h.known) => e \in EntryType /\ e.file = f
  BY <1>1, PrecheckReasons DEF Passed, Entry, EntryType, Reasons
<1>4. failed \in Seq(EntryType)
  BY <1>2, <1>3, NamedAppend
<1>5. Turn("files", f + 1, h.ids, failed) /\ faults' = faults
  <2>1. h' = [h EXCEPT !.next = f + 1, !.failed = failed]
    BY DEF PassOver
  <2> HIDE DEF f, failed
  <2> QED BY <1>1, <1>2, <2>1, TurnOf DEF PassOver, Turn
<1> HIDE DEF e, failed
<1>6. f + 1 \in 1..(Len(Files) + 1)
  BY <1>1, <1>2, DoneGrows
<1>7. "files" \in Transferring /\ "files" \in Steps
  BY DEF Transferring, Steps
<1>8. /\ Typed' /\ Working' /\ NothingVanishes' /\ NoticeTruthful' /\ Counted'
      /\ h'.at = "files" /\ h'.next = f + 1 /\ h'.ids = h.ids /\ h'.known = h.known
      /\ h'.failed = failed
      /\ T' = T /\ (Pre' <=> Pre) /\ Copy' = Copy
      /\ \A i : Precheck(T, i)' = Precheck(T, i)
      /\ MoreFaults
  BY <1>1, <1>2, <1>4, <1>5, <1>6, <1>7, TurnFacts DEF Unfailing, HasCopy, Resting
<1>9. Done' = Done \cup {f}
  BY <1>1, <1>2, <1>8, DoneGrows
<1>10. /\ f \notin Named(h.failed)
       /\ Pre => f \notin Range(h.ids) /\ f \notin Named(h.known)
       /\ ~Pre => f \notin Range(Copy.files)
  BY <1>1, <1>7, NextUnnamed
<1>11. /\ f \in Named(h.known) => failed = h.failed
       /\ f \notin Named(h.known) => /\ Named(failed) = Named(h.failed) \cup {f}
                                     /\ Once(h.failed) => Once(failed)
  BY <1>2, <1>3, <1>10, NamedAppend DEF failed
<1>12. CASE Pre
  <2>1. FilesFirst
    BY <1>1, <1>7, <1>12 DEF IInv, Accounted
  <2>2. FilesFirst'
    BY <1>8, <1>9, <1>10, <1>11, <1>12, <2>1 DEF FilesFirst
  <2> QED BY <1>8, <1>12, <2>2 DEF IInv, Accounted
<1>13. CASE ~Pre
  <2>1. PostFirst
    BY <1>1, <1>7, <1>13 DEF IInv, Accounted
  <2>2. f \in Named(h.known)
    BY <1>1, <2>1 DEF Passed, PostFirst
  <2>3. faults'["share_reply"] = 0 => faults["share_reply"] = 0
    BY <1>5
  <2>4. PostFirst'
    BY <1>1, <1>8, <1>9, <1>11, <2>1, <2>2, <2>3 DEF PostFirst
  <2> QED BY <1>8, <1>13, <2>4 DEF IInv, Accounted
<1> QED BY <1>12, <1>13

\* Between two calls for one file nothing is accounted for.
LEMMA StillAccounted ==
    ASSUME IInv, h.at \in Transferring, Unfailing,
           NEW at \in Transferring, Turn(at, h.next, h.ids, h.failed),
           at \in {"url", "share"} => ~Pre,
           at \in {"url", "put", "share"} => h.next \in Index /\ h.next \notin Named(h.known)
    PROVE  IInv'
<1>1. h.next \in 1..(Len(Files) + 1) /\ h.ids \in Seq(Index) /\ h.failed \in Seq(EntryType)
  BY DEF IInv, Typed, HandlerType
<1>2. at \in Steps \ Resting /\ h.at \notin Resting /\ at # "post" /\ h.at # "post"
      /\ at \notin {"notice", "link"} /\ h.at \notin {"notice", "link"}
  BY DEF Transferring, Steps, Resting
<1>3. /\ Typed' /\ Working' /\ NothingVanishes' /\ NoticeTruthful' /\ Counted'
      /\ h'.at = at /\ h'.next = h.next /\ h'.ids = h.ids /\ h'.known = h.known
      /\ h'.failed = h.failed
      /\ T' = T /\ (Pre' <=> Pre) /\ Copy' = Copy
      /\ \A i : Precheck(T, i)' = Precheck(T, i)
      /\ MoreFaults
  BY <1>1, <1>2, TurnFacts DEF HasCopy
<1>4. Done' = Done
  BY <1>3 DEF Done
<1>5. CASE Pre
  <2>1. FilesFirst
    BY <1>5 DEF IInv, Accounted
  <2>2. FilesFirst'
    BY <1>2, <1>3, <1>4, <2>1 DEF FilesFirst
  <2> QED BY <1>2, <1>3, <1>5, <2>2 DEF IInv, Accounted
<1>6. CASE ~Pre
  <2>1. PostFirst
    BY <1>6 DEF IInv, Accounted
  <2>2. faults'["share_reply"] = 0 => faults["share_reply"] = 0
    BY <1>3 DEF MoreFaults, IInv, Typed, FileFaults
  <2>3. PostFirst'
    BY <1>2, <1>3, <1>4, <2>1, <2>2 DEF PostFirst
  <2> QED BY <1>2, <1>3, <1>6, <2>3 DEF IInv, Accounted
<1> QED BY <1>5, <1>6

LEMMA OpenFileStep == IInv /\ OpenFile => IInv'
<1> SUFFICES ASSUME IInv, OpenFile PROVE IInv'
  OBVIOUS
<1> DEFINE at == IF Pre THEN "put" ELSE "url"
<1>1. h.at = "files" /\ h.next \in Index /\ ~Passed(h.next)
  BY DEF OpenFile
<1>2. Turn(at, h.next, h.ids, h.failed) /\ faults' = faults
  BY TurnOf DEF OpenFile, Goto, Turn, IInv
<1>3. h.at \in Transferring /\ at \in Transferring /\ (at = "url" <=> ~Pre) /\ at # "share"
  BY <1>1 DEF Transferring
<1> HIDE DEF at
<1> QED BY <1>1, <1>2, <1>3, StillAccounted DEF Passed, Unfailing

LEMMA GetUploadURLStep == IInv /\ GetUploadURL => IInv'
<1> SUFFICES ASSUME IInv, GetUploadURL PROVE IInv'
  OBVIOUS
<1>1. h.at = "url" /\ h.at \in Transferring /\ "put" \in Transferring
  BY DEF GetUploadURL, Transferring
<1>2. h.next \in Index /\ ~Pre
  BY <1>1 DEF IInv, Working
<1>3. h.next \notin Named(h.known)
  BY <1>1, <1>2 DEF IInv, Accounted, PostFirst
<1>4. Turn("put", h.next, h.ids, h.failed) /\ faults' = faults
  BY TurnOf DEF GetUploadURL, Goto, Turn, IInv
<1> QED BY <1>1, <1>2, <1>3, <1>4, StillAccounted DEF Unfailing

LEMMA PutBytesStep == IInv /\ PutBytes => IInv'
<1> SUFFICES ASSUME IInv, PutBytes PROVE IInv'
  OBVIOUS
<1> DEFINE f == h.next
           ids == Append(h.ids, f)
<1>1. h.at = "put" /\ h.at \in Transferring /\ f \in Index
  BY DEF PutBytes, Transferring, IInv, Working
<1>2. CASE ~Pre
  <2>1. f \notin Named(h.known)
    BY <1>1, <1>2 DEF IInv, Accounted, PostFirst
  <2>2. Turn("share", h.next, h.ids, h.failed) /\ faults' = faults
    BY <1>2, TurnOf DEF PutBytes, Goto, Turn, IInv
  <2> QED BY <1>1, <1>2, <2>1, <2>2, StillAccounted DEF Transferring, Unfailing
<1>3. CASE Pre
  <2>1. Typed /\ h.ids \in Seq(Index) /\ h.failed \in Seq(EntryType)
    BY DEF IInv, Typed, HandlerType
  <2>2. ids \in Seq(Index) /\ Range(ids) = Range(h.ids) \cup {f}
    BY <1>1, <2>1, RangeAppend
  <2>3. Turn("files", f + 1, ids, h.failed) /\ faults' = faults
    <3>1. h' = [h EXCEPT !.at = "files", !.next = f + 1, !.ids = ids]
      BY <1>3 DEF PutBytes
    <3> HIDE DEF f, ids
    <3> QED BY <2>1, <3>1, TurnOf DEF PutBytes, Turn
  <2> HIDE DEF ids
  <2>4. f + 1 \in 1..(Len(Files) + 1)
    BY <1>1, <2>1, DoneGrows
  <2>5. "files" \in Transferring /\ "files" \in Steps
    BY DEF Transferring, Steps
  <2>6. /\ Typed' /\ Working' /\ NothingVanishes' /\ NoticeTruthful' /\ Counted'
        /\ h'.at = "files" /\ h'.next = f + 1 /\ h'.ids = ids /\ h'.known = h.known
        /\ h'.failed = h.failed
        /\ T' = T /\ (Pre' <=> Pre)
    BY <1>1, <1>3, <2>1, <2>2, <2>3, <2>4, <2>5, TurnFacts DEF Unfailing, HasCopy, Resting
  <2>7. Done' = Done \cup {f}
    BY <1>1, <2>1, <2>6, DoneGrows
  <2>8. f \notin Named(h.failed)
    BY <1>1, NextUnnamed
  <2>9. FilesFirst
    BY <1>1, <1>3 DEF IInv, Accounted
  <2>10. FilesFirst'
    BY <2>2, <2>6, <2>7, <2>8, <2>9 DEF FilesFirst
  <2> QED BY <1>3, <2>6, <2>10 DEF IInv, Accounted
<1> QED BY <1>2, <1>3

\* A file that fails gets its entry.
LEMMA GiveUpFileStep ==
    ASSUME IInv, h.at \in {"url", "put", "share"}, Unfailing, GiveUpFile,
           UNCHANGED <<config, posts, linked, status, tries>>
    PROVE  IInv'
<1> DEFINE f == h.next
           e == Entry(f, "failed")
           failed == Append(h.failed, e)
<1>1. h.at \in Transferring /\ f \in Index /\ h.at \notin {"idle", "notice", "link", "post"}
  BY DEF Transferring, IInv, Working
<1>2. Typed /\ h.ids \in Seq(Index) /\ h.failed \in Seq(EntryType)
  BY DEF IInv, Typed, HandlerType
<1>3. e \in EntryType /\ e.file = f
  BY <1>1 DEF Entry, EntryType, Reasons
<1>4. Turn("files", f + 1, h.ids, failed)
  <2>1. h' = [h EXCEPT !.at = "files", !.next = f + 1, !.failed = failed]
    BY DEF GiveUpFile
  <2> HIDE DEF f, failed
  <2> QED BY <1>2, <2>1, TurnOf DEF Turn
<1>5. f \notin Named(h.failed) /\ (~Pre => f \notin Range(Copy.files))
      /\ (Pre => f \notin Range(h.ids))
  BY <1>1, NextUnnamed
<1>6. /\ failed \in Seq(EntryType) /\ Named(failed) = Named(h.failed) \cup {f}
      /\ Once(h.failed) => Once(failed)
  BY <1>2, <1>3, <1>5, NamedAppend
<1> HIDE DEF e, failed
<1>7. f + 1 \in 1..(Len(Files) + 1)
  BY <1>1, <1>2, DoneGrows
<1>8. "files" \in Transferring /\ "files" \in Steps
  BY DEF Transferring, Steps
<1>9. /\ Typed' /\ Working' /\ NothingVanishes' /\ NoticeTruthful' /\ Counted'
      /\ h'.at = "files" /\ h'.next = f + 1 /\ h'.ids = h.ids /\ h'.known = h.known
      /\ h'.failed = failed
      /\ T' = T /\ (Pre' <=> Pre) /\ Copy' = Copy
      /\ \A i : Precheck(T, i)' = Precheck(T, i)
      /\ MoreFaults
  BY <1>1, <1>2, <1>4, <1>6, <1>7, <1>8, TurnFacts DEF HasCopy, Resting
<1>10. Done' = Done \cup {f}
  BY <1>1, <1>2, <1>9, DoneGrows
<1>11. CASE Pre
  <2>1. FilesFirst
    BY <1>1, <1>11 DEF IInv, Accounted
  <2> HIDE DEF f
  <2>2. /\ Range(h.ids) \cup Named(failed) = Done \cup {f}
        /\ Range(h.ids) \cap Named(failed) = {}
        /\ Once(failed) /\ h.known = <<>>
    BY <1>5, <1>6, <1>11, <2>1 DEF FilesFirst
  <2>3. FilesFirst'
    BY <1>9, <1>10, <2>2 DEF FilesFirst
  <2> QED BY <1>9, <1>11, <2>3 DEF IInv, Accounted
<1>12. CASE ~Pre
  <2>1. PostFirst /\ f \notin Named(h.known)
    BY <1>1, <1>12 DEF IInv, Accounted, PostFirst
  <2>2. faults'["share_reply"] = 0 => faults["share_reply"] = 0
    BY <1>9 DEF MoreFaults, IInv, Typed, FileFaults
  <2> HIDE DEF f
  <2>3. /\ Range(Copy.files) \cup Named(failed) = (Done \cup {f}) \ Named(h.known)
        /\ faults["share_reply"] = 0 => Range(Copy.files) \cap Named(failed) = {}
        /\ Once(failed) /\ Copy.notice = h.known /\ h.ids = <<>> /\ Once(h.known)
    BY <1>1, <1>5, <1>6, <1>12, <2>1 DEF PostFirst
  <2>4. Named(h.known)' = {i \in Index : Precheck(T, i)' # "none"}
    BY <1>9, <2>1 DEF PostFirst
  <2>5. PostFirst'
    BY <1>9, <1>10, <2>2, <2>3, <2>4 DEF PostFirst
  <2> QED BY <1>9, <1>12, <2>5 DEF IInv, Accounted
<1> QED BY <1>11, <1>12

LEMMA FileLostStep == IInv /\ (FileRefused \/ FileError) => IInv'
<1> SUFFICES ASSUME IInv, FileRefused \/ FileError PROVE IInv'
  OBVIOUS
<1>1. CASE FileRefused
  <2>1. h.at \in {"url", "put", "share"} /\ faults' = faults
    BY <1>1 DEF FileRefused
  <2> QED BY <1>1, <2>1, GiveUpFileStep DEF FileRefused, Unfailing
<1>2. CASE FileError
  <2>1. \E k \in FileFaults : Fault(k)
    BY <1>2 DEF FileError, FileFaults
  <2> QED BY <1>2, <2>1, GiveUpFileStep DEF FileError, Unfailing
<1> QED BY <1>1, <1>2

LEMMA FilesDoneStep == IInv /\ FilesDone => IInv'
<1> SUFFICES ASSUME IInv, FilesDone PROVE IInv'
  OBVIOUS
<1> DEFINE at == IF Pre THEN "post" ELSE IF h.failed # <<>> THEN "notice" ELSE "link"
<1>1. h.at = "files" /\ h.at \in Transferring /\ h.next \notin Index
  BY DEF FilesDone, Transferring
<1>2. Typed /\ h.ids \in Seq(Index) /\ h.failed \in Seq(EntryType)
      /\ h.next \in 1..(Len(Files) + 1)
  BY DEF IInv, Typed, HandlerType
<1>3. Turn(at, h.next, h.ids, h.failed) /\ faults' = faults
  BY <1>2, TurnOf DEF FilesDone, Goto, Turn
<1>4. at \in Steps \ {"idle"} /\ (at = "post" <=> Pre) /\ at \in {"post", "notice", "link"}
  BY DEF Steps
<1>5. /\ Typed' /\ Working' /\ NothingVanishes' /\ NoticeTruthful' /\ Counted'
      /\ h'.at = at /\ h'.next = h.next /\ h'.ids = h.ids /\ h'.known = h.known
      /\ h'.failed = h.failed
      /\ T' = T /\ (Pre' <=> Pre) /\ Copy' = Copy
      /\ \A i : Precheck(T, i)' = Precheck(T, i)
  <2> HIDE DEF at
  <2> QED BY <1>1, <1>2, <1>3, <1>4, TurnFacts DEF Unfailing, HasCopy, Transferring, Resting
<1>6. Done = Index /\ Done' = Index
  <2>1. Done = Index
    BY <1>1, <1>2, AllDone
  <2> QED BY <1>5, <2>1 DEF Done
<1>7. CASE Pre
  <2>1. FilesFirst
    BY <1>1, <1>7 DEF IInv, Accounted
  <2>2. FilesFirst'
    BY <1>5, <1>6, <2>1 DEF FilesFirst
  <2> QED BY <1>4, <1>5, <1>7, <2>2 DEF IInv, Accounted
<1>8. CASE ~Pre
  <2>1. PostFirst
    BY <1>1, <1>8 DEF IInv, Accounted
  <2>2. at \in {"notice", "link"} /\ (at = "link" => h.failed = <<>>)
    BY <1>8
  <2>3. faults'["share_reply"] = faults["share_reply"]
    BY <1>3
  <2> HIDE DEF at
  <2>4. PostFirst'
    BY <1>1, <1>5, <1>6, <2>1, <2>2, <2>3 DEF PostFirst
  <2>5. at = "link" => Range(Copy.files) \cup Named(Copy.notice) = Index
    <3> SUFFICES ASSUME at = "link"
        PROVE  Range(Copy.files) \cup Named(Copy.notice) = Index
      OBVIOUS
    <3>1. Named(h.failed) = {}
      BY <2>2, NamedEmpty
    <3>2. Named(h.known) \subseteq Index
      BY <2>1 DEF PostFirst
    <3> QED BY <1>1, <1>6, <2>1, <3>1, <3>2 DEF PostFirst
  <2>6. (Range(Copy.files) \cup Named(Copy.notice))' = Range(Copy.files) \cup Named(Copy.notice)
    BY <1>5 DEF Range, Named
  <2>7. Accounted'
    BY <1>5, <1>8, <2>2, <2>4, <2>5, <2>6 DEF Accounted, Transferring, Index
  <2> QED BY <1>5, <2>7 DEF IInv
<1> QED BY <1>7, <1>8

LEMMA NoticeErrorStep == IInv /\ NoticeError => IInv'
<1> SUFFICES ASSUME IInv, NoticeError PROVE IInv'
  OBVIOUS
<1>1. h.at = "notice" /\ ~Pre
  BY DEF NoticeError, IInv, Working
<1>2. Typed /\ h.ids \in Seq(Index) /\ h.failed \in Seq(EntryType)
      /\ h.next \in 1..(Len(Files) + 1)
  BY DEF IInv, Typed, HandlerType
<1>3. Turn("link", h.next, h.ids, h.failed)
  BY <1>2, TurnOf DEF NoticeError, Goto, Turn
<1>4. Fault("notice") /\ "notice" \in FileFaults
  BY DEF NoticeError, FileFaults
<1>5. /\ Typed' /\ Working' /\ NothingVanishes' /\ NoticeTruthful' /\ Counted'
      /\ h'.at = "link"
  <2>1. "link" \in Steps \ {"idle"}
    BY DEF Steps
  <2> QED BY <1>1, <1>2, <1>3, <1>4, <2>1, TurnFacts DEF Unfailing, HasCopy, Resting
<1>6. faults'["notice"] > 0
  BY <1>2, <1>4, FaultCounted
<1>7. Accounted'
  BY <1>5, <1>6 DEF Accounted, Transferring
<1> QED BY <1>5, <1>7 DEF IInv

-----------------------------------------------------------------------------
(* Steps of the handler that change its copy.                              *)

CopyTurn(at, next, failed, p) ==
    /\ h' = [at |-> at, t |-> h.t, next |-> next, ids |-> h.ids, known |-> h.known,
             failed |-> failed, id |-> h.id]
    /\ posts' = [posts EXCEPT ![T][h.id] = p]
    /\ UNCHANGED <<config, linked, status, tries>>

LEMMA CopyTurnFacts ==
    ASSUME IInv, h.at \notin Resting, HasCopy, ~Pre, Unfailing, NEW at \in {"files", "link"},
           NEW next \in 1..(Len(Files) + 1), NEW failed \in Seq(EntryType),
           NEW p \in CopyType, CopyTurn(at, next, failed, p),
           Once(p.notice),
           faults'["share_reply"] = 0 => Range(p.files) \cap Named(p.notice) = {}
    PROVE  /\ Typed' /\ Working' /\ NothingVanishes' /\ NoticeTruthful' /\ Counted'
           /\ h'.at = at /\ h'.next = next /\ h'.ids = h.ids /\ h'.known = h.known
           /\ h'.failed = failed
           /\ T' = T /\ (Pre' <=> Pre) /\ Copy' = p
           /\ \A f : Precheck(T, f)' = Precheck(T, f)
           /\ MoreFaults
<1>1. /\ h'.at = at /\ h'.t = h.t /\ h'.next = next /\ h'.ids = h.ids
      /\ h'.known = h.known /\ h'.failed = failed /\ h'.id = h.id
  BY DEF CopyTurn
<1>2. UNCHANGED <<relayFiles, limit, linked, status, tries>>
      /\ posts' = [posts EXCEPT ![T][h.id] = p]
  BY DEF CopyTurn, config
<1>3. /\ faults' \in [FileFaults \cup HardFaults -> Nat]
      /\ MoreFaults
      /\ Hard \in Nat /\ Hard' = Hard
  BY UnfailingCounted DEF IInv
<1>4. T' = T /\ (Pre' <=> Pre)
  BY <1>1 DEF T, Pre
<1>5. T \in Chans /\ h.id \in DOMAIN posts[T] /\ h.id \notin linked[T]
  BY TargetsIndexed DEF T, IInv, Typed, HandlerType, Working
<1>6. /\ posts' \in [Chans -> Seq(CopyType)]
      /\ \A u \in Chans : Len(posts'[u]) = Len(posts[u])
                          /\ DOMAIN posts'[u] = DOMAIN posts[u]
      /\ \A u \in Chans : \A k \in DOMAIN posts[u] :
           (u # T \/ k # h.id) => posts'[u][k] = posts[u][k]
      /\ posts'[T][h.id] = p
  <2>1. Typed
    BY DEF IInv
  <2> HIDE DEF T
  <2>2. /\ posts' \in [Chans -> Seq(CopyType)]
        /\ Len(posts'[T]) = Len(posts[T])
        /\ DOMAIN posts'[T] = DOMAIN posts[T]
        /\ \A k \in DOMAIN posts[T] \ {h.id} : posts'[T][k] = posts[T][k]
        /\ posts'[T][h.id] = p
        /\ \A u \in Chans \ {T} : posts'[u] = posts[u]
    BY <1>2, <1>5, <2>1, CopyRewritten
  <2> QED BY <2>2
<1>7. Copy' = p /\ HasCopy'
  BY <1>1, <1>4, <1>6 DEF Copy, HasCopy, Transferring
<1>8. Typed'
  <2>1. h' \in HandlerType
    BY DEF CopyTurn, IInv, Typed, HandlerType, Steps
  <2> QED BY <1>2, <1>3, <1>6, <2>1 DEF IInv, Typed
<1>9. Working'
  <2>1. \A u \in Chans : linked'[u] \subseteq DOMAIN posts'[u]
    BY <1>2, <1>6 DEF IInv, Working
  <2> HIDE DEF T
  <2>2. h'.id \in DOMAIN posts'[T'] /\ h'.id \notin linked'[T']
    BY <1>1, <1>2, <1>4, <1>5, <1>6
  <2> QED BY <1>1, <1>2, <1>4, <1>7, <2>1, <2>2 DEF IInv, Working, Resting
<1>10. NothingVanishes'
  <2>1. \A u \in Chans : \A k \in linked'[u] : /\ k \in linked[u]
                                               /\ posts'[u][k] = posts[u][k]
    BY <1>2, <1>5, <1>6 DEF IInv, Working
  <2> QED BY <1>3, <2>1, VanishingKept DEF IInv
<1>11. NoticeTruthful'
  <2>1. \A u \in Chans : \A k \in DOMAIN posts'[u] :
          \/ k \in DOMAIN posts[u] /\ posts'[u][k] = posts[u][k]
          \/ posts'[u][k] = p
    BY <1>6
  <2>2. \A u \in Chans : \A k \in DOMAIN posts'[u] :
          \/ k \in DOMAIN posts[u] /\ posts'[u][k] = posts[u][k]
          \/ /\ Once(posts'[u][k].notice)
             /\ faults'["share_reply"] = 0 =>
                  Range(posts'[u][k].files) \cap Named(posts'[u][k].notice) = {}
    BY <2>1
  <2> QED BY <1>3, <2>2, TruthfulKept DEF IInv
<1>12. \A i : Sent(i)' <=> Sent(i)
  BY <1>1, <1>2, <1>7 DEF Sent, Resting
<1>13. Counted'
  <2>1. \A i \in DOMAIN Targets : Len(posts'[Targets[i]]) = Len(posts[Targets[i]])
    BY <1>6, TargetsIndexed
  <2> QED BY <1>1, <1>2, <1>3, <1>12, <2>1 DEF IInv, Counted, Resting
<1>14. \A f : Precheck(T, f)' = Precheck(T, f)
  BY <1>2, <1>4 DEF Precheck
<1> QED BY <1>1, <1>3, <1>4, <1>7, <1>8, <1>9, <1>10, <1>11, <1>13, <1>14

\* The file hangs on the copy; whether the handler knows is another matter.
LEMMA SharedStep ==
    ASSUME IInv, h.at = "share", Unfailing,
           posts' = [posts EXCEPT ![T][h.id].files = Append(@, h.next)],
           UNCHANGED <<config, linked, status, tries>>,
           \/ h' = [h EXCEPT !.at = "files", !.next = @ + 1]
           \/ GiveUpFile /\ faults'["share_reply"] > 0
    PROVE  IInv'
<1> DEFINE f == h.next
           p == [Copy EXCEPT !.files = Append(@, f)]
           e == Entry(f, "failed")
           failed == IF h' = [h EXCEPT !.at = "files", !.next = @ + 1] THEN h.failed
                     ELSE Append(h.failed, e)
<1>1. /\ h.at \in Transferring /\ ~Pre /\ HasCopy /\ f \in Index
      /\ h.at \notin {"idle", "post", "notice", "link"}
  BY DEF Transferring, HasCopy, IInv, Working
<1>2. Typed /\ h.failed \in Seq(EntryType)
  BY DEF IInv, Typed, HandlerType
<1>3. PostFirst /\ f \notin Named(h.known)
  BY <1>1 DEF IInv, Accounted, PostFirst
<1>4. Copy \in CopyType
  <2>1. T \in Chans /\ h.id \in DOMAIN posts[T]
    BY <1>1, TargetsIndexed DEF T, IInv, Typed, HandlerType, Working
  <2>2. posts[T] \in Seq(CopyType)
    BY <1>2, <2>1 DEF Typed
  <2> QED BY <2>1, <2>2 DEF Copy
<1>5. f \notin Range(Copy.files) /\ f \notin Named(h.failed)
  BY <1>1, NextUnnamed
<1>6. /\ p \in CopyType /\ p.notice = Copy.notice
      /\ Range(p.files) = Range(Copy.files) \cup {f}
  <2>1. Copy.files \in Seq(Index)
    BY <1>4 DEF CopyType
  <2>2. /\ Append(Copy.files, f) \in Seq(Index)
        /\ Range(Append(Copy.files, f)) = Range(Copy.files) \cup {f}
    BY <1>1, <2>1, RangeAppend
  <2>3. p.files = Append(Copy.files, f)
    BY <1>4 DEF CopyType
  <2> QED BY <1>4, <2>2, <2>3 DEF CopyType
<1>7. /\ failed \in Seq(EntryType) /\ Once(failed)
      /\ Named(failed) \subseteq Named(h.failed) \cup {f}
      /\ Named(h.failed) \subseteq Named(failed)
      /\ faults'["share_reply"] = 0 => failed = h.failed
  <2>1. Once(h.failed)
    BY <1>3 DEF PostFirst
  <2>2. e \in EntryType /\ e.file = f
    BY <1>1 DEF Entry, EntryType, Reasons
  <2>3. /\ Append(h.failed, e) \in Seq(EntryType) /\ Once(Append(h.failed, e))
        /\ Named(Append(h.failed, e)) = Named(h.failed) \cup {f}
    BY <1>2, <1>5, <2>1, <2>2, NamedAppend
  <2>4. failed = h.failed \/ (faults'["share_reply"] > 0 /\ failed = Append(h.failed, e))
    OBVIOUS
  <2> HIDE DEF failed, e
  <2>5. CASE failed = h.failed
    BY <1>2, <2>1, <2>5
  <2>6. CASE faults'["share_reply"] > 0 /\ failed = Append(h.failed, e)
    <3>1. ~ (faults'["share_reply"] = 0)
      BY <2>6
    <3> QED BY <2>3, <2>6, <3>1
  <2> QED BY <2>4, <2>5, <2>6
<1>8. CopyTurn("files", f + 1, failed, p)
  <2>1. h' = [h EXCEPT !.at = "files", !.next = f + 1, !.failed = failed]
    <3>1. CASE h' = [h EXCEPT !.at = "files", !.next = @ + 1]
      <4>1. failed = h.failed
        BY <3>1
      <4>2. h' = [at |-> "files", t |-> h.t, next |-> f + 1, ids |-> h.ids,
                  known |-> h.known, failed |-> h.failed, id |-> h.id]
        BY <1>2, <3>1, TurnNext
      <4> HIDE DEF failed
      <4> QED BY <1>2, <4>1, <4>2, TurnOf
    <3>2. CASE h' # [h EXCEPT !.at = "files", !.next = @ + 1]
      BY <3>2 DEF GiveUpFile
    <3> QED BY <3>1, <3>2
  <2>2. h' = [at |-> "files", t |-> h.t, next |-> f + 1, ids |-> h.ids,
              known |-> h.known, failed |-> failed, id |-> h.id]
    <3> HIDE DEF failed, f
    <3> QED BY <1>2, <2>1, TurnOf
  <2>3. posts' = [posts EXCEPT ![T][h.id] = p]
    BY DEF Copy
  <2> HIDE DEF failed, f, p
  <2> QED BY <2>2, <2>3 DEF CopyTurn
<1> HIDE DEF e, failed, p
<1>9. Range(p.files) \cap Named(p.notice) = {} /\ Once(p.notice)
  BY <1>1, <1>3, <1>6 DEF PostFirst
<1>10. f + 1 \in 1..(Len(Files) + 1)
  BY <1>1, <1>2, DoneGrows
<1>11. /\ Typed' /\ Working' /\ NothingVanishes' /\ NoticeTruthful' /\ Counted'
       /\ h'.at = "files" /\ h'.next = f + 1 /\ h'.ids = h.ids /\ h'.known = h.known
       /\ h'.failed = failed
       /\ T' = T /\ (Pre' <=> Pre) /\ Copy' = p
       /\ \A i : Precheck(T, i)' = Precheck(T, i)
       /\ MoreFaults
  BY <1>1, <1>6, <1>7, <1>8, <1>9, <1>10, CopyTurnFacts DEF Resting
<1>12. Done' = Done \cup {f}
  BY <1>1, <1>2, <1>11, DoneGrows
<1>13. faults'["share_reply"] = 0 => faults["share_reply"] = 0
  BY <1>2, <1>11 DEF MoreFaults, Typed, FileFaults
<1>14. PostFirst'
  <2> HIDE DEF f
  <2>1. /\ Range(p.files) \cup Named(failed) = (Done \cup {f}) \ Named(h.known)
        /\ faults'["share_reply"] = 0 => Range(p.files) \cap Named(failed) = {}
        /\ p.notice = h.known /\ h.ids = <<>> /\ Once(h.known)
    BY <1>1, <1>3, <1>5, <1>6, <1>7, <1>13 DEF PostFirst
  <2>2. Named(h.known)' = {i \in Index : Precheck(T, i)' # "none"}
    BY <1>3, <1>11 DEF PostFirst
  <2> QED BY <1>7, <1>11, <1>12, <2>1, <2>2 DEF PostFirst
<1> QED BY <1>1, <1>11, <1>14 DEF IInv, Accounted
LEMMA ShareStep == IInv /\ (ShareFile \/ ShareReplyLost) => IInv'
<1> SUFFICES ASSUME IInv, ShareFile \/ ShareReplyLost PROVE IInv'
  OBVIOUS
<1>1. CASE ShareFile
  <2>1. Unfailing /\ h.at = "share"
    BY <1>1 DEF ShareFile, Unfailing
  <2> QED BY <1>1, <2>1, SharedStep DEF ShareFile
<1>2. CASE ShareReplyLost
  <2>1. Fault("share_reply") /\ "share_reply" \in FileFaults /\ h.at = "share"
    BY <1>2 DEF ShareReplyLost, FileFaults
  <2>2. Unfailing /\ faults'["share_reply"] > 0
    BY <2>1, FaultCounted DEF Unfailing, IInv
  <2> QED BY <1>2, <2>1, <2>2, SharedStep DEF ShareReplyLost
<1> QED BY <1>1, <1>2

LEMMA EditNoticeStep == IInv /\ EditNotice => IInv'
<1> SUFFICES ASSUME IInv, EditNotice PROVE IInv'
  OBVIOUS
<1> DEFINE notice == h.known \o h.failed
           p == [Copy EXCEPT !.notice = notice]
<1>1. h.at = "notice" /\ ~Pre /\ HasCopy /\ faults' = faults
  BY DEF EditNotice, IInv, Working, HasCopy
<1>2. Typed /\ h.failed \in Seq(EntryType) /\ h.known \in Seq(EntryType)
      /\ h.next \in 1..(Len(Files) + 1)
  BY DEF IInv, Typed, HandlerType
<1>3. /\ Range(Copy.files) \cup Named(h.failed) = Index \ Named(h.known)
      /\ faults["share_reply"] = 0 => Range(Copy.files) \cap Named(h.failed) = {}
      /\ Once(h.known) /\ Once(h.failed)
      /\ Named(h.known) \subseteq Index
  BY <1>1 DEF IInv, Accounted, PostFirst
<1>4. Copy \in CopyType
  <2>1. T \in Chans /\ h.id \in DOMAIN posts[T]
    BY <1>1, TargetsIndexed DEF T, IInv, Typed, HandlerType, Working
  <2>2. posts[T] \in Seq(CopyType)
    BY <1>2, <2>1 DEF Typed
  <2> QED BY <2>1, <2>2 DEF Copy
<1>5. /\ notice \in Seq(EntryType) /\ Once(notice)
      /\ Named(notice) = Named(h.known) \cup Named(h.failed)
  <2>1. Named(h.known) \cap Named(h.failed) = {}
    BY <1>3
  <2> QED BY <1>2, <1>3, <2>1, NamedConcat
<1> HIDE DEF notice
<1>6. p \in CopyType /\ p.notice = notice /\ p.files = Copy.files
  BY <1>4, <1>5 DEF CopyType
<1>7. CopyTurn("link", h.next, h.failed, p)
  <2>1. h' = [at |-> "link", t |-> h.t, next |-> h.next, ids |-> h.ids,
              known |-> h.known, failed |-> h.failed, id |-> h.id]
    BY <1>2, TurnOf DEF EditNotice, Goto
  <2>2. posts' = [posts EXCEPT ![T][h.id] = p]
    BY DEF EditNotice, Copy, notice
  <2> HIDE DEF p
  <2> QED BY <2>1, <2>2 DEF CopyTurn, EditNotice
<1> HIDE DEF p
<1>8. faults["share_reply"] = 0 => Range(p.files) \cap Named(p.notice) = {}
  BY <1>3, <1>5, <1>6
<1>9. Range(p.files) \cup Named(p.notice) = Index
  BY <1>3, <1>5, <1>6
<1>10. /\ Typed' /\ Working' /\ NothingVanishes' /\ NoticeTruthful' /\ Counted'
       /\ h'.at = "link" /\ Copy' = p
  BY <1>1, <1>2, <1>5, <1>6, <1>7, <1>8, CopyTurnFacts DEF Unfailing, Resting
<1>11. (Range(Copy.files) \cup Named(Copy.notice))' = Index
  BY <1>9, <1>10 DEF Range, Named
<1>12. Accounted'
  BY <1>10, <1>11 DEF Accounted, Transferring, Index
<1> QED BY <1>10, <1>12 DEF IInv

-----------------------------------------------------------------------------
(* The post.                                                               *)

NewCopy == [files |-> h.ids, notice |-> h.known \o h.failed, edited |-> FALSE]

\* The body is truthful, and with files that go first it is complete.
LEMMA NewCopyFacts ==
    ASSUME IInv, h.at = "post"
    PROVE  /\ NewCopy \in CopyType /\ Once(NewCopy.notice)
           /\ Range(NewCopy.files) \cap Named(NewCopy.notice) = {}
           /\ Pre => Range(NewCopy.files) \cup Named(NewCopy.notice) = Index
           /\ ~Pre => /\ PostFirst /\ h.failed = <<>> /\ h.next = 1
                      /\ NewCopy.notice = h.known /\ NewCopy.files = <<>>
<1> DEFINE notice == h.known \o h.failed
<1>1. /\ h.ids \in Seq(Index) /\ h.known \in Seq(EntryType) /\ h.failed \in Seq(EntryType)
      /\ Typed
  BY DEF IInv, Typed, HandlerType
<1>2. Pre => FilesFirst
  BY DEF IInv, Accounted
<1>3. ~Pre => PostFirst
  BY DEF IInv, Accounted
<1>4. /\ Once(h.known) /\ Once(h.failed)
      /\ h.known = <<>> \/ h.failed = <<>>
  BY <1>2, <1>3, NamedEmpty DEF FilesFirst, PostFirst
<1>5. Named(h.known) \cap Named(h.failed) = {}
  BY <1>4, NamedEmpty
<1>6. /\ notice \in Seq(EntryType) /\ Once(notice)
      /\ Named(notice) = Named(h.known) \cup Named(h.failed)
  BY <1>1, <1>4, <1>5, NamedConcat
<1>7. h.failed = <<>> => notice = h.known
  BY <1>1
<1>8. NewCopy.files = h.ids /\ NewCopy.notice = notice
  BY DEF NewCopy
<1>9. NewCopy \in CopyType
  BY <1>1, <1>6 DEF NewCopy, CopyType
<1> HIDE DEF notice
<1>10. CASE Pre
  <2>1. Named(notice) = Named(h.failed)
    BY <1>2, <1>6, <1>10, NamedEmpty DEF FilesFirst
  <2> QED BY <1>2, <1>6, <1>8, <1>9, <1>10, <2>1 DEF FilesFirst
<1>11. CASE ~Pre
  <2>1. h.ids = <<>> /\ h.failed = <<>> /\ h.next = 1
    BY <1>3, <1>11 DEF PostFirst
  <2> QED BY <1>3, <1>6, <1>7, <1>8, <1>9, <1>11, <2>1, NamedEmpty
<1> QED BY <1>10, <1>11

LEMMA PostedFacts ==
    ASSUME IInv, h.at = "post", Posted, MoreFaults, UNCHANGED linked,
           faults' \in [FileFaults \cup HardFaults -> Nat]
    PROVE  /\ T \in Chans /\ posts' \in [Chans -> Seq(CopyType)]
           /\ Len(posts[T]) \in Nat /\ Len(posts'[T]) = Len(posts[T]) + 1
           /\ posts'[T][Len(posts'[T])] = NewCopy
           /\ Len(posts'[T]) \in DOMAIN posts'[T] /\ Len(posts'[T]) \notin linked[T]
           /\ \A u \in Chans : linked'[u] \subseteq DOMAIN posts'[u]
           /\ \A u \in Chans \ {T} : posts'[u] = posts[u]
           /\ NothingVanishes' /\ NoticeTruthful'
<1> DEFINE n == Len(posts[T])
<1>1. Typed /\ T \in Chans
  BY TargetsIndexed DEF T, IInv, Typed, HandlerType
<1>2. /\ NewCopy \in CopyType /\ Once(NewCopy.notice)
      /\ Range(NewCopy.files) \cap Named(NewCopy.notice) = {}
  BY NewCopyFacts
<1>3. posts' = [posts EXCEPT ![T] = Append(@, NewCopy)]
  BY DEF Posted, NewCopy
<1> HIDE DEF T
<1>4. /\ posts' \in [Chans -> Seq(CopyType)]
      /\ n \in Nat /\ DOMAIN posts[T] = 1..n
      /\ Len(posts'[T]) = n + 1
      /\ DOMAIN posts'[T] = 1..(n + 1)
      /\ \A k \in DOMAIN posts[T] : posts'[T][k] = posts[T][k]
      /\ posts'[T][n + 1] = NewCopy
      /\ \A u \in Chans \ {T} : posts'[u] = posts[u]
  BY <1>1, <1>2, <1>3, CopyAdded
<1>5. \A u \in Chans : linked[u] \subseteq DOMAIN posts[u]
  BY DEF IInv, Working
<1>6. \A u \in Chans : linked'[u] \subseteq DOMAIN posts'[u]
  <2> SUFFICES ASSUME NEW u \in Chans PROVE linked[u] \subseteq DOMAIN posts'[u]
    OBVIOUS
  <2>1. CASE u = T
    BY <1>4, <1>5, <2>1
  <2>2. CASE u # T
    <3>1. posts'[u] = posts[u]
      BY <1>4, <2>2
    <3> QED BY <1>5, <3>1
  <2> QED BY <2>1, <2>2
<1>7. NothingVanishes'
  <2>1. \A u \in Chans : \A k \in linked'[u] :
          k \in linked[u] /\ posts'[u][k] = posts[u][k]
    BY <1>4, <1>5
  <2> QED BY <1>1, <2>1, VanishingKept DEF IInv
<1>8. NoticeTruthful'
  <2> SUFFICES ASSUME NEW u \in Chans, NEW k \in DOMAIN posts'[u]
               PROVE  \/ k \in DOMAIN posts[u] /\ posts'[u][k] = posts[u][k]
                      \/ posts'[u][k] = NewCopy
    BY <1>1, <1>2, TruthfulKept DEF IInv
  <2>1. CASE u = T
    <3>1. k \in 1..n \/ k = n + 1
      BY <1>4, <2>1
    <3> QED BY <1>4, <2>1, <3>1
  <2>2. CASE u # T
    <3>1. posts'[u] = posts[u]
      BY <1>4, <2>2
    <3> QED BY <3>1
  <2> QED BY <2>1, <2>2
<1> QED BY <1>1, <1>4, <1>5, <1>6, <1>7, <1>8

LEMMA SendStep == IInv /\ Send => IInv'
<1> SUFFICES ASSUME IInv, Send PROVE IInv'
  OBVIOUS
<1> DEFINE at == IF Pre THEN "link" ELSE "files"
           n == Len(posts'[T])
<1>1. h.at = "post" /\ Posted /\ faults' = faults /\ Typed
  BY DEF Send, IInv
<1>2. UNCHANGED <<relayFiles, limit, linked, status, tries>>
  BY DEF Send, config
<1>3. /\ faults' \in [FileFaults \cup HardFaults -> Nat]
      /\ MoreFaults
      /\ Hard \in Nat /\ Hard' = Hard
  BY <1>1, NoFault
<1>4. /\ T \in Chans /\ posts' \in [Chans -> Seq(CopyType)]
      /\ Len(posts[T]) \in Nat /\ n = Len(posts[T]) + 1
      /\ posts'[T][n] = NewCopy
      /\ n \in DOMAIN posts'[T] /\ n \notin linked[T]
      /\ \A u \in Chans : linked'[u] \subseteq DOMAIN posts'[u]
      /\ \A u \in Chans \ {T} : posts'[u] = posts[u]
      /\ NothingVanishes' /\ NoticeTruthful'
  BY <1>1, <1>2, <1>3, PostedFacts
<1>5. h' = [at |-> at, t |-> h.t, next |-> h.next, ids |-> h.ids, known |-> h.known,
            failed |-> h.failed, id |-> n]
  <2> DEFINE a == [h EXCEPT !.at = at]
  <2>1. a = [at |-> at, t |-> h.t, next |-> h.next, ids |-> h.ids, known |-> h.known,
             failed |-> h.failed, id |-> h.id]
    BY <1>1, TurnOf
  <2>2. h' = [a EXCEPT !.id = n]
    BY DEF Send
  <2> HIDE DEF a, at, n
  <2> QED BY <2>1, <2>2
<1>6. /\ h'.at = at /\ h'.t = h.t /\ h'.next = h.next /\ h'.ids = h.ids
      /\ h'.known = h.known /\ h'.failed = h.failed /\ h'.id = n
  BY <1>5
<1>7. T' = T /\ (Pre' <=> Pre)
  BY <1>6 DEF T, Pre
<1>8. Copy' = NewCopy
  <2>1. Copy' = posts'[T'][h'.id]
    BY DEF Copy
  <2> HIDE DEF n, T
  <2> QED BY <1>4, <1>6, <1>7, <2>1
<1>9. HasCopy' /\ ~HasCopy
  BY <1>1, <1>6, <1>7 DEF HasCopy, Transferring
<1>10. Typed'
  <2>1. h' \in HandlerType
    <3>1. n \in Nat
      BY <1>4
    <3> HIDE DEF n
    <3> QED BY <1>5, <3>1 DEF IInv, Typed, HandlerType, Steps
  <2> QED BY <1>2, <1>3, <1>4, <2>1 DEF IInv, Typed
<1>11. Working'
  <2>1. h'.id \in DOMAIN posts'[T'] /\ h'.id \notin linked'[T']
    <3> HIDE DEF n, T
    <3> QED BY <1>2, <1>4, <1>6, <1>7
  <2>2. status' = "pending"
    BY <1>1, <1>2 DEF IInv, Working
  <2> QED BY <1>4, <1>6, <1>7, <2>1, <2>2 DEF Working
<1>12. Counted'
  <2>1. status = "pending" /\ h.t \in DOMAIN Targets
    BY <1>1 DEF IInv, Working, Typed, HandlerType
  <2>2. \A i \in DOMAIN Targets : i = h.t => ~Sent(i) /\ Sent(i)'
    BY <1>1, <1>6, <1>9, <2>1, Lengths DEF Sent
  <2>3. \A i \in DOMAIN Targets : i # h.t => (Sent(i)' <=> Sent(i))
    BY <1>1, <1>2, <1>6, <2>1 DEF Sent
  <2>4. Len(posts'[Targets[h.t]]) = Len(posts[Targets[h.t]]) + 1
        /\ Len(posts[Targets[h.t]]) \in Nat
    BY <1>4 DEF T
  <2>5. \A i \in DOMAIN Targets : i # h.t => posts'[Targets[i]] = posts[Targets[i]]
    BY <1>4, <2>1, TargetsIndexed DEF T
  <2>6. tries' <= Hard' /\ status' # "dead"
    BY <1>2, <1>3, <2>1 DEF IInv, Counted
  <2>7. ASSUME NEW i \in DOMAIN Targets
        PROVE  /\ Sent(i)' /\ (h'.at \in Resting \/ i < h'.t) => linked'[Targets[i]] # {}
               /\ Len(posts'[Targets[i]]) <= Hard' + (IF Sent(i)' THEN 1 ELSE 0)
    <3>1. CASE i = h.t
      <4>1. Len(posts[Targets[i]]) <= Hard
        BY <1>3, <2>2, <3>1 DEF IInv, Counted
      <4>2. ~(i < h'.t) /\ h'.at \notin Resting
        BY <1>6, <2>1, <3>1, Lengths DEF Resting
      <4> QED BY <1>3, <2>2, <2>4, <3>1, <4>1, <4>2
    <3>2. CASE i # h.t
      <4>1. /\ Sent(i) /\ (h.at \in Resting \/ i < h.t) => linked[Targets[i]] # {}
            /\ Len(posts[Targets[i]]) <= Hard + (IF Sent(i) THEN 1 ELSE 0)
        BY DEF IInv, Counted
      <4>2. h'.at \notin Resting
        BY <1>6 DEF Resting
      <4> QED BY <1>2, <1>3, <1>6, <2>3, <2>5, <3>2, <4>1, <4>2
    <3> QED BY <3>1, <3>2
  <2> QED BY <2>6, <2>7 DEF Counted
<1>13. /\ Pre => Range(NewCopy.files) \cup Named(NewCopy.notice) = Index
       /\ ~Pre => /\ PostFirst /\ h.failed = <<>> /\ h.next = 1
                  /\ NewCopy.notice = h.known /\ NewCopy.files = <<>>
  BY <1>1, NewCopyFacts
<1>14. CASE Pre
  <2>1. (Range(Copy.files) \cup Named(Copy.notice))' = Index
    BY <1>8, <1>13, <1>14 DEF Range, Named
  <2>2. Accounted'
    BY <1>6, <1>7, <1>14, <2>1 DEF Accounted, Transferring, Index
  <2> QED BY <1>4, <1>10, <1>11, <1>12, <2>2 DEF IInv
<1>15. CASE ~Pre
  <2>1. Done' = {} /\ h'.at = "files"
    BY <1>6, <1>13, <1>15 DEF Done
  <2>2. \A i : Precheck(T, i)' = Precheck(T, i)
    BY <1>2, <1>7 DEF Precheck
  <2>3. Named(h.known)' = {i \in Index : Precheck(T, i)' # "none"}
    BY <1>6, <1>13, <1>15, <2>2 DEF PostFirst, Named
  <2>4. /\ Copy'.notice = h'.known /\ Copy'.files = <<>> /\ h'.failed = <<>>
        /\ Range(<<>>) = {} /\ Named(<<>>) = {} /\ h'.ids = <<>>
        /\ Once(h'.known) /\ Once(h'.failed)
    BY <1>6, <1>8, <1>13, <1>15, NamedEmpty DEF PostFirst
  <2>5. PostFirst'
    BY <2>1, <2>3, <2>4 DEF PostFirst
  <2>6. Accounted'
    BY <1>7, <1>15, <2>1, <2>5 DEF Accounted, Transferring
  <2> QED BY <1>4, <1>10, <1>11, <1>12, <2>6 DEF IInv
<1> QED BY <1>14, <1>15

-----------------------------------------------------------------------------
(* The end of an attempt, and of the handler.                              *)

\* A handler that ends otherwise than with mark_done has met a fault that
\* counts; one more copy than linked ones is what it may leave behind.
LEMMA EndStep ==
    ASSUME IInv, h.at # "idle", h' = Idle, UNCHANGED <<config, linked>>,
           faults' \in [FileFaults \cup HardFaults -> Nat],
           Hard' = Hard + 1, Hard \in Nat,
           posts' \in [Chans -> Seq(CopyType)],
           \A u \in Chans : linked'[u] \subseteq DOMAIN posts'[u],
           \A u \in Chans : Len(posts'[u]) <= Hard + 1,
           NothingVanishes', NoticeTruthful',
           \/ tries' = tries /\ status' \in {"pending", "dead"}
           \/ tries' = tries + 1 /\ status' = status
    PROVE  IInv'
<1>1. status = "pending" /\ tries \in Nat /\ tries <= Hard
  BY DEF IInv, Working, Typed, Counted
<1>2. /\ h'.at = "idle" /\ ~HasCopy'
      /\ status' \in {"pending", "dead"}
  BY <1>1 DEF Idle, HasCopy, Transferring
<1>3. tries' \in Nat /\ tries' <= Hard'
  BY <1>1
<1>4. h' \in HandlerType
  BY Lengths DEF Idle, HandlerType, Steps
<1>5. Typed'
  BY <1>2, <1>3, <1>4 DEF IInv, Typed, config
<1>6. Working'
  BY <1>2 DEF Working
<1>7. Accounted'
  BY <1>2 DEF Accounted, Transferring
<1>8. Counted'
  <2>1. \A i \in DOMAIN Targets : ~Sent(i)' /\ Len(posts'[Targets[i]]) <= Hard'
    BY <1>2, TargetsIndexed DEF Sent
  <2> QED BY <1>3, <2>1 DEF Counted
<1> QED BY <1>5, <1>6, <1>7, <1>8 DEF IInv

\* How many copies there are while the handler has not posted, or has.
LEMMA CopiesCounted ==
    ASSUME IInv
    PROVE  /\ Hard \in Nat
           /\ \A u \in Chans : Len(posts[u]) \in Nat /\ Len(posts[u]) <= Hard + 1
           /\ h.at = "post" => T \in Chans /\ Len(posts[T]) <= Hard
<1>1. Hard \in Nat
  BY DEF IInv, Typed, Hard, FileFaults, HardFaults
<1>2. ASSUME NEW u \in Chans PROVE Len(posts[u]) \in Nat /\ Len(posts[u]) <= Hard + 1
  <2>1. PICK i \in DOMAIN Targets : u = Targets[i]
    BY TargetsIndexed
  <2>2. Len(posts[u]) <= Hard + (IF Sent(i) THEN 1 ELSE 0)
    BY <2>1 DEF IInv, Counted
  <2>3. Len(posts[u]) \in Nat
    <3>1. posts[u] \in Seq(CopyType)
      BY DEF IInv, Typed
    <3> HIDE DEF CopyType
    <3> QED BY <3>1, LenProperties
  <2> QED BY <1>1, <2>2, <2>3
<1>3. ASSUME h.at = "post" PROVE T \in Chans /\ Len(posts[T]) <= Hard
  <2>1. h.t \in DOMAIN Targets /\ h.t \in Nat /\ status = "pending"
    BY <1>3, Lengths DEF IInv, Typed, HandlerType, Working
  <2>2. ~Sent(h.t)
    BY <1>3, <2>1 DEF Sent, HasCopy, Transferring
  <2> QED BY <1>1, <2>1, <2>2, TargetsIndexed DEF IInv, Counted, T
<1> QED BY <1>1, <1>2, <1>3

\* The channels do not change, or the body is posted by the way.
LEMMA FaultEnds ==
    ASSUME IInv, h.at # "idle", NEW k \in HardFaults, Fault(k), h' = Idle,
           UNCHANGED <<config, linked>>,
           posts' = posts \/ (h.at = "post" /\ Posted),
           \/ tries' = tries /\ status' \in {"pending", "dead"}
           \/ tries' = tries + 1 /\ status' = status
    PROVE  IInv'
<1>1. /\ faults' \in [FileFaults \cup HardFaults -> Nat]
      /\ MoreFaults
      /\ Hard \in Nat /\ Hard' = Hard + 1
  BY FaultCounted DEF IInv
<1>2. /\ \A u \in Chans : Len(posts[u]) \in Nat /\ Len(posts[u]) <= Hard + 1
      /\ h.at = "post" => T \in Chans /\ Len(posts[T]) <= Hard
  BY CopiesCounted
<1>3. CASE posts' = posts
  <2>1. NothingVanishes'
    BY <1>1, <1>3, VanishingKept DEF IInv
  <2>2. NoticeTruthful'
    <3>1. \A u \in Chans : \A i \in DOMAIN posts'[u] :
            i \in DOMAIN posts[u] /\ posts'[u][i] = posts[u][i]
      BY <1>3
    <3> QED BY <1>1, <3>1, TruthfulKept DEF IInv
  <2>3. /\ posts' \in [Chans -> Seq(CopyType)]
        /\ \A u \in Chans : linked'[u] \subseteq DOMAIN posts'[u]
    BY <1>3 DEF IInv, Typed, Working
  <2>4. \A u \in Chans : Len(posts'[u]) <= Hard + 1
    BY <1>2, <1>3
  <2> QED BY <1>1, <2>1, <2>2, <2>3, <2>4, EndStep
<1>4. CASE h.at = "post" /\ Posted
  <2>1. /\ T \in Chans /\ posts' \in [Chans -> Seq(CopyType)]
        /\ Len(posts[T]) \in Nat /\ Len(posts'[T]) = Len(posts[T]) + 1
        /\ \A u \in Chans : linked'[u] \subseteq DOMAIN posts'[u]
        /\ \A u \in Chans \ {T} : posts'[u] = posts[u]
        /\ NothingVanishes' /\ NoticeTruthful'
    BY <1>1, <1>4, PostedFacts
  <2>2. \A u \in Chans : Len(posts'[u]) <= Hard + 1
    <3> HIDE DEF T
    <3>1. Len(posts'[T]) <= Hard + 1
      BY <1>1, <1>2, <1>4, <2>1
    <3> QED BY <1>2, <2>1, <3>1
  <2> QED BY <1>1, <2>1, <2>2, EndStep
<1> QED BY <1>3, <1>4

LEMMA FailSteps ==
    IInv /\ (\/ Escape \/ SendError \/ SendReplyLost \/ RecordError \/ MarkDoneError
             \/ Crash) => IInv'
<1> SUFFICES ASSUME IInv, \/ Escape \/ SendError \/ SendReplyLost \/ RecordError
                          \/ MarkDoneError \/ Crash
             PROVE  IInv'
  OBVIOUS
<1> DEFINE Over == \/ tries' = tries /\ status' \in {"pending", "dead"}
                   \/ tries' = tries + 1 /\ status' = status
<1>1. h.at # "idle" => status = "pending"
  BY DEF IInv, Working
<1>2. ASSUME NEW r \in BOOLEAN, Fail(r), h.at # "idle" PROVE h' = Idle /\ Over
  BY <1>1, <1>2 DEF Fail
<1>3. HardFaults = {"escape", "send", "send_reply", "record", "mark_done", "crash"}
  BY DEF HardFaults
<1> HIDE DEF Over
<1>4. CASE Escape
  <2>1. h.at # "idle" /\ Fault("escape") /\ UNCHANGED <<config, linked>> /\ posts' = posts
    BY <1>4 DEF Escape
  <2>2. h' = Idle /\ Over
    BY <1>2, <1>4, <2>1 DEF Escape
  <2> QED BY <1>3, <2>1, <2>2, FaultEnds DEF Over
<1>5. CASE SendError
  <2>1. h.at # "idle" /\ Fault("send") /\ UNCHANGED <<config, linked>> /\ posts' = posts
    BY <1>5 DEF SendError
  <2>2. h' = Idle /\ Over
    BY <1>2, <1>5, <2>1 DEF SendError
  <2> QED BY <1>3, <2>1, <2>2, FaultEnds DEF Over
<1>6. CASE SendReplyLost
  <2>1. h.at = "post" /\ Fault("send_reply") /\ UNCHANGED <<config, linked>> /\ Posted
    BY <1>6 DEF SendReplyLost
  <2>2. h' = Idle /\ Over
    BY <1>2, <1>6, <2>1 DEF SendReplyLost
  <2> QED BY <1>3, <2>1, <2>2, FaultEnds DEF Over
<1>7. CASE RecordError
  <2>1. h.at # "idle" /\ Fault("record") /\ UNCHANGED <<config, linked>> /\ posts' = posts
    BY <1>7 DEF RecordError
  <2>2. h' = Idle /\ Over
    BY <1>2, <1>7, <2>1 DEF RecordError
  <2> QED BY <1>3, <2>1, <2>2, FaultEnds DEF Over
<1>8. CASE Crash
  <2>1. h.at # "idle" /\ Fault("crash") /\ UNCHANGED <<config, linked>> /\ posts' = posts
        /\ h' = Idle
    BY <1>8 DEF Crash
  <2>2. Over
    BY <1>8 DEF Crash, Over
  <2> QED BY <1>3, <2>1, <2>2, FaultEnds DEF Over
<1>9. CASE MarkDoneError
  <2>1. /\ h.at # "idle" /\ Fault("mark_done") /\ UNCHANGED <<config, linked>>
        /\ posts' = posts
    BY <1>9 DEF MarkDoneError
  <2>2. h' = Idle /\ Over
    BY <1>2, <1>9, <2>1 DEF MarkDoneError
  <2> QED BY <1>3, <2>1, <2>2, FaultEnds DEF Over
<1> QED BY <1>4, <1>5, <1>6, <1>7, <1>8, <1>9

-----------------------------------------------------------------------------
(* The handler turns to a target, and leaves it.                           *)

LEMMA StartFacts ==
    ASSUME Typed, NEW i \in DOMAIN Targets, StartTarget(i), UNCHANGED config
    PROVE  /\ h' \in HandlerType /\ h'.t = i /\ h'.at \in {"files", "post"}
           /\ ~HasCopy' /\ Accounted'
<1> DEFINE pre == Targets[i] \in PreUpload
           at == IF pre THEN "files" ELSE "post"
           known == IF pre THEN <<>> ELSE PrecheckAll(Targets[i])
<1>1. h' = [at |-> at, t |-> i, next |-> 1, ids |-> <<>>, known |-> known,
            failed |-> <<>>, id |-> 0]
  <2> DEFINE a == [Idle EXCEPT !.t = i]
             b == [a EXCEPT !.at = at]
  <2>1. h' = [Idle EXCEPT !.t = i, !.at = at, !.known = known]
    BY DEF StartTarget
  <2> HIDE DEF at, known
  <2>2. a = [at |-> "idle", t |-> i, next |-> 1, ids |-> <<>>, known |-> <<>>,
             failed |-> <<>>, id |-> 0]
    BY DEF Idle
  <2> HIDE DEF a
  <2>3. b = [at |-> at, t |-> i, next |-> 1, ids |-> <<>>, known |-> <<>>,
             failed |-> <<>>, id |-> 0]
    BY <2>2
  <2> HIDE DEF b
  <2>4. [b EXCEPT !.known = known]
          = [at |-> at, t |-> i, next |-> 1, ids |-> <<>>, known |-> known,
             failed |-> <<>>, id |-> 0]
    BY <2>3
  <2> QED BY <2>1, <2>4 DEF a, b
<1>2. known \in Seq(EntryType)
  BY PrecheckAllNames
<1>3. at \in {"files", "post"} /\ (at = "files" <=> pre)
  OBVIOUS
<1>4. pre => known = <<>>
  OBVIOUS
<1>5. ~pre => known = PrecheckAll(Targets[i])
  OBVIOUS
<1> HIDE DEF known, at, pre
<1>6. h' \in HandlerType
  BY <1>1, <1>2, <1>3, Lengths DEF HandlerType, Steps
<1>7. /\ h'.at = at /\ h'.t = i /\ h'.next = 1 /\ h'.ids = <<>> /\ h'.known = known
      /\ h'.failed = <<>>
  BY <1>1
<1>8. T' = Targets[i] /\ (Pre' <=> pre)
  BY <1>7 DEF T, Pre, pre
<1>9. ~HasCopy'
  BY <1>3, <1>7, <1>8 DEF HasCopy, Transferring
<1>10. Done' = {}
  BY <1>7 DEF Done
<1>11. CASE pre
  <2>1. FilesFirst'
    BY <1>3, <1>4, <1>7, <1>10, <1>11, NamedEmpty DEF FilesFirst
  <2> QED BY <1>3, <1>6, <1>7, <1>8, <1>9, <1>11, <2>1 DEF Accounted
<1>12. CASE ~pre
  <2>1. \A f : Precheck(T, f)' = Precheck(Targets[i], f)
    BY <1>8 DEF Precheck, config
  <2>2. Named(known) = {f \in Index : Precheck(Targets[i], f) # "none"} /\ Once(known)
    BY <1>5, <1>12, PrecheckAllNames
  <2>3. h'.at = "post"
    BY <1>3, <1>7, <1>12
  <2>4. PostFirst'
    BY <1>7, <2>1, <2>2, <2>3, NamedEmpty DEF PostFirst
  <2> QED BY <1>6, <1>7, <1>8, <1>9, <1>12, <2>3, <2>4 DEF Accounted
<1> QED BY <1>11, <1>12

LEMMA BeginStep == IInv /\ Begin => IInv'
<1> SUFFICES ASSUME IInv, Begin PROVE IInv'
  OBVIOUS
<1>1. /\ h.at = "idle" /\ status = "pending" /\ faults' = faults
      /\ UNCHANGED <<relayFiles, limit, posts, linked, status, tries>>
  BY DEF Begin, config
<1>2. /\ faults' \in [FileFaults \cup HardFaults -> Nat]
      /\ MoreFaults
      /\ Hard \in Nat /\ Hard' = Hard
  BY <1>1, NoFault DEF IInv
<1>3. /\ h' \in HandlerType /\ h'.t = 1 /\ h'.at \in {"files", "post"}
      /\ ~HasCopy' /\ Accounted'
  <2>1. 1 \in DOMAIN Targets
    BY Lengths
  <2> QED BY <2>1, StartFacts DEF Begin, IInv
<1>4. Typed'
  BY <1>1, <1>2, <1>3 DEF IInv, Typed
<1>5. Working'
  BY <1>1, <1>3 DEF IInv, Working
<1>6. NothingVanishes'
  BY <1>1, <1>2, VanishingKept DEF IInv
<1>7. NoticeTruthful'
  <2>1. \A u \in Chans : \A k \in DOMAIN posts'[u] :
          k \in DOMAIN posts[u] /\ posts'[u][k] = posts[u][k]
    BY <1>1
  <2> QED BY <1>2, <2>1, TruthfulKept DEF IInv
<1>8. \A i \in DOMAIN Targets : ~Sent(i) /\ ~Sent(i)'
  BY <1>1, <1>3, Lengths DEF Sent
<1>9. Counted'
  BY <1>1, <1>2, <1>8 DEF IInv, Counted
<1> QED BY <1>3, <1>4, <1>5, <1>6, <1>7, <1>9 DEF IInv

LEMMA RecordReplicaStep == IInv /\ RecordReplica => IInv'
<1> SUFFICES ASSUME IInv, RecordReplica PROVE IInv'
  OBVIOUS
<1>1. /\ h.at = "link" /\ HasCopy /\ status = "pending" /\ faults' = faults /\ Typed
      /\ UNCHANGED <<relayFiles, limit, posts, status, tries>>
  BY DEF RecordReplica, config, HasCopy, IInv, Working
<1>2. /\ faults' \in [FileFaults \cup HardFaults -> Nat]
      /\ MoreFaults
      /\ Hard \in Nat /\ Hard' = Hard
  BY <1>1, NoFault
<1>3. /\ T \in Chans /\ h.t \in DOMAIN Targets /\ h.id \in Nat
      /\ h.id \in DOMAIN posts[T] /\ h.id \notin linked[T]
  BY <1>1, TargetsIndexed DEF T, IInv, Typed, HandlerType, Working
<1>4. /\ linked' \in [Chans -> SUBSET Nat]
      /\ linked'[T] = linked[T] \cup {h.id}
      /\ \A u \in Chans \ {T} : linked'[u] = linked[u]
  <2>1. linked' = [linked EXCEPT ![T] = @ \cup {h.id}]
    BY DEF RecordReplica
  <2> HIDE DEF T
  <2> QED BY <1>1, <1>3, <2>1 DEF Typed
<1>5. \A u \in Chans : linked'[u] \subseteq DOMAIN posts'[u] /\ linked[u] \subseteq linked'[u]
  <2> HIDE DEF T
  <2>1. \A u \in Chans : linked[u] \subseteq DOMAIN posts[u]
    BY DEF IInv, Working
  <2> QED BY <1>1, <1>3, <1>4, <2>1
<1>6. NothingVanishes'
  <2>1. faults["notice"] = 0 => Range(Copy.files) \cup Named(Copy.notice) = Index
    BY <1>1 DEF IInv, Accounted
  <2>2. ASSUME NEW u \in Chans, NEW k \in linked'[u]
        PROVE  \/ k \in linked[u] /\ posts'[u][k] = posts[u][k]
               \/ faults'["notice"] = 0 =>
                    Range(posts'[u][k].files) \cup Named(posts'[u][k].notice) = Index
    <3>1. CASE u = T /\ k = h.id
      BY <1>1, <2>1, <3>1 DEF Copy
    <3>2. CASE ~(u = T /\ k = h.id)
      <4> HIDE DEF T
      <4> QED BY <1>1, <1>4, <2>2, <3>2
    <3> QED BY <3>1, <3>2
  <2> QED BY <1>1, <1>2, <2>2, VanishingKept DEF IInv
<1>7. NoticeTruthful'
  <2>1. \A u \in Chans : \A k \in DOMAIN posts'[u] :
          k \in DOMAIN posts[u] /\ posts'[u][k] = posts[u][k]
    BY <1>1
  <2> QED BY <1>1, <1>2, <2>1, TruthfulKept DEF IInv
<1>8. \A i \in DOMAIN Targets : Sent(i) <=> i <= h.t
  BY <1>1, <1>3, Lengths DEF Sent
<1>9. \A i \in DOMAIN Targets : i <= h.t => linked'[Targets[i]] # {}
  <2> SUFFICES ASSUME NEW i \in DOMAIN Targets, i <= h.t PROVE linked'[Targets[i]] # {}
    OBVIOUS
  <2>1. CASE i = h.t
    BY <1>4, <2>1 DEF T
  <2>2. CASE i < h.t
    <3>1. linked[Targets[i]] # {}
      BY <1>8, <2>2 DEF IInv, Counted
    <3> QED BY <1>5, <3>1, TargetsIndexed
  <2> QED BY <1>3, <2>1, <2>2, Lengths
<1>10. \A i \in DOMAIN Targets :
         Len(posts'[Targets[i]]) <= Hard' + (IF i <= h.t THEN 1 ELSE 0)
  BY <1>1, <1>2, <1>8 DEF IInv, Counted
<1>11. tries' <= Hard'
  BY <1>1, <1>2 DEF IInv, Counted
<1>12. CASE h.t < Len(Targets)
  <2>1. h.t + 1 \in DOMAIN Targets
    BY <1>3, <1>12, Lengths
  <2>2. StartTarget(h.t + 1)
    BY <1>12 DEF RecordReplica
  <2>3. /\ h' \in HandlerType /\ h'.t = h.t + 1 /\ h'.at \in {"files", "post"}
        /\ ~HasCopy' /\ Accounted'
    <3>1. UNCHANGED config
      BY DEF RecordReplica
    <3>2. PICK i \in DOMAIN Targets : i = h.t + 1
      BY <2>1
    <3> QED BY <1>1, <2>2, <3>1, <3>2, StartFacts
  <2>4. Typed'
    BY <1>1, <1>2, <1>4, <2>2, <2>3 DEF IInv, Typed
  <2>5. Working'
    BY <1>1, <1>5, <2>2, <2>3 DEF Working
  <2>6. \A i \in DOMAIN Targets : Sent(i)' <=> i <= h.t
    BY <1>1, <1>3, <2>2, <2>3, Lengths DEF Sent
  <2>7. Counted'
    BY <1>1, <1>9, <1>10, <1>11, <2>3, <2>6 DEF Counted, Resting
  <2> QED BY <1>6, <1>7, <2>3, <2>4, <2>5, <2>7 DEF IInv
<1>13. CASE ~(h.t < Len(Targets))
  <2>1. h' = [h EXCEPT !.at = "done"] /\ h \in HandlerType
    BY <1>1, <1>13 DEF RecordReplica, Goto, Typed
  <2>2. \A i \in DOMAIN Targets : i <= h.t
    BY <1>3, <1>13, Lengths
  <2>3. h' \in HandlerType /\ h'.at = "done"
    BY <2>1 DEF HandlerType, Steps
  <2>4. Typed'
    BY <1>1, <1>2, <1>4, <2>3 DEF IInv, Typed
  <2>5. Working' /\ Accounted'
    BY <1>1, <1>5, <2>3 DEF Working, Accounted, HasCopy, Transferring
  <2>6. Counted'
    <3>1. \A i \in DOMAIN Targets : Sent(i)'
      BY <2>3 DEF Sent
    <3> QED BY <1>1, <1>9, <1>10, <1>11, <2>2, <3>1 DEF Counted
  <2> QED BY <1>6, <1>7, <2>4, <2>5, <2>6 DEF IInv
<1> QED BY <1>12, <1>13

LEMMA MarkDoneStep == IInv /\ MarkDone => IInv'
<1> SUFFICES ASSUME IInv, MarkDone PROVE IInv'
  OBVIOUS
<1>1. /\ h.at = "done" /\ h' = Idle /\ h'.at = "idle" /\ status' = "done"
      /\ faults' = faults
      /\ UNCHANGED <<relayFiles, limit, posts, linked, tries>>
  BY DEF MarkDone, config, Idle
<1>2. /\ faults' \in [FileFaults \cup HardFaults -> Nat]
      /\ MoreFaults
      /\ Hard \in Nat /\ Hard' = Hard
  BY <1>1, NoFault DEF IInv
<1>3. Typed'
  <2>1. h' \in HandlerType
    BY <1>1, Lengths DEF Idle, HandlerType, Steps
  <2> QED BY <1>1, <1>2, <2>1 DEF IInv, Typed
<1>4. Working' /\ Accounted'
  <2>1. \A u \in Chans : linked[u] \subseteq DOMAIN posts[u]
    BY DEF IInv, Working
  <2> QED BY <1>1, <2>1 DEF Working, Accounted, HasCopy, Transferring
<1>5. NothingVanishes'
  BY <1>1, <1>2, VanishingKept DEF IInv
<1>6. NoticeTruthful'
  <2>1. \A u \in Chans : \A k \in DOMAIN posts'[u] :
          k \in DOMAIN posts[u] /\ posts'[u][k] = posts[u][k]
    BY <1>1
  <2> QED BY <1>2, <2>1, TruthfulKept DEF IInv
<1>7. Counted'
  <2>1. \A i : Sent(i) /\ Sent(i)'
    BY <1>1 DEF Sent
  <2> QED BY <1>1, <1>2, <2>1 DEF IInv, Counted, Resting
<1> QED BY <1>3, <1>4, <1>5, <1>6, <1>7 DEF IInv

\* An edit of the message rewrites copies that are recorded; the handler works
\* on none of them any more.
LEMMA RelayEditStep == IInv /\ RelayEdit => IInv'
<1> SUFFICES ASSUME IInv, RelayEdit PROVE IInv'
  OBVIOUS
<1>1. /\ status # "pending" /\ h.at = "idle" /\ faults' = faults /\ Typed
      /\ UNCHANGED <<relayFiles, limit, linked, status, tries, h>>
  BY DEF RelayEdit, config, IInv, Working
<1>2. /\ faults' \in [FileFaults \cup HardFaults -> Nat]
      /\ MoreFaults
      /\ Hard \in Nat /\ Hard' = Hard
  BY <1>1, NoFault
<1>3. PICK t \in Chans : \E k \in linked[t] :
        posts' = [posts EXCEPT ![t][k] = [@ EXCEPT !.notice = <<>>, !.edited = TRUE]]
  BY DEF RelayEdit
<1>4. PICK k \in linked[t] :
        posts' = [posts EXCEPT ![t][k] = [@ EXCEPT !.notice = <<>>, !.edited = TRUE]]
  BY <1>3
<1> DEFINE c == posts[t][k]
           p == [c EXCEPT !.notice = <<>>, !.edited = TRUE]
<1>5. k \in DOMAIN posts[t] /\ c \in CopyType
  <2>1. k \in DOMAIN posts[t]
    BY <1>3 DEF IInv, Working
  <2>2. posts[t] \in Seq(CopyType)
    BY <1>1 DEF Typed
  <2> QED BY <2>1, <2>2
<1>6. posts' = [posts EXCEPT ![t][k] = p]
  BY <1>4
<1>7. p \in CopyType /\ p.notice = <<>> /\ p.edited = TRUE
  <2> HIDE DEF c
  <2> DEFINE a == [c EXCEPT !.notice = <<>>]
  <2>1. a \in CopyType /\ a.notice = <<>>
    <3>1. <<>> \in Seq(EntryType)
      OBVIOUS
    <3> HIDE DEF EntryType
    <3> QED BY <1>5, <3>1 DEF CopyType
  <2>2. p = [a EXCEPT !.edited = TRUE]
    OBVIOUS
  <2> HIDE DEF a, p
  <2> QED BY <2>1, <2>2 DEF CopyType
<1> HIDE DEF p, c
<1>8. /\ posts' \in [Chans -> Seq(CopyType)]
      /\ Len(posts'[t]) = Len(posts[t])
      /\ DOMAIN posts'[t] = DOMAIN posts[t]
      /\ \A i \in DOMAIN posts[t] \ {k} : posts'[t][i] = posts[t][i]
      /\ posts'[t][k] = p
      /\ \A u \in Chans \ {t} : posts'[u] = posts[u]
  BY <1>1, <1>5, <1>6, <1>7, CopyRewritten
<1>9. \A u \in Chans : /\ Len(posts'[u]) = Len(posts[u])
                       /\ DOMAIN posts'[u] = DOMAIN posts[u]
                       /\ \A i \in DOMAIN posts[u] :
                            posts'[u][i] = posts[u][i] \/ posts'[u][i] = p
  BY <1>8
<1>10. \A u \in Chans : linked[u] \subseteq DOMAIN posts[u]
  BY DEF IInv, Working
<1>11. NothingVanishes'
  <2>1. ASSUME NEW u \in Chans, NEW i \in linked'[u]
        PROVE  \/ i \in linked[u] /\ posts'[u][i] = posts[u][i]
               \/ posts'[u][i].edited
    BY <1>1, <1>7, <1>9, <1>10, <2>1
  <2> QED BY <1>1, <1>2, <2>1, VanishingKept DEF IInv
<1>12. NoticeTruthful'
  <2>1. Once(p.notice) /\ Range(p.files) \cap Named(p.notice) = {}
    BY <1>7, NamedEmpty
  <2>2. ASSUME NEW u \in Chans, NEW i \in DOMAIN posts'[u]
        PROVE  \/ i \in DOMAIN posts[u] /\ posts'[u][i] = posts[u][i]
               \/ posts'[u][i] = p
    BY <1>9, <2>2
  <2> QED BY <1>1, <1>2, <2>1, <2>2, TruthfulKept DEF IInv
<1>13. Typed'
  BY <1>1, <1>2, <1>8 DEF Typed
<1>14. Working' /\ Accounted'
  <2>1. h'.at = "idle"
    BY <1>1
  <2> QED BY <1>1, <1>9, <1>10, <2>1 DEF Working, Accounted, HasCopy, Transferring
<1>15. Counted'
  <2>1. \A i : Sent(i)' <=> Sent(i)
    BY <1>1 DEF Sent
  <2>2. \A i \in DOMAIN Targets : Len(posts'[Targets[i]]) = Len(posts[Targets[i]])
    BY <1>9, TargetsIndexed
  <2> QED BY <1>1, <1>2, <2>1, <2>2 DEF IInv, Counted
<1> QED BY <1>11, <1>12, <1>13, <1>14, <1>15 DEF IInv

-----------------------------------------------------------------------------
(* The theorems.                                                           *)

LEMMA InitIInv == Init => IInv
<1> SUFFICES ASSUME Init PROVE IInv
  OBVIOUS
<1>1. /\ h = Idle /\ h.at = "idle" /\ status = "pending" /\ tries = 0
      /\ faults = [k \in FileFaults \cup HardFaults |-> 0]
      /\ \A t \in Chans : posts[t] = <<>> /\ linked[t] = {}
  BY DEF Init, Idle
<1>2. Typed
  <2>1. h \in HandlerType
    BY <1>1, Lengths DEF Idle, HandlerType, Steps
  <2>2. posts \in [Chans -> Seq(CopyType)] /\ linked \in [Chans -> SUBSET Nat]
    BY DEF Init
  <2>3. tries \in Nat
    BY <1>1
  <2> QED BY <1>1, <2>1, <2>2, <2>3 DEF Init, Typed
<1>3. Working /\ Accounted
  BY <1>1 DEF Working, Accounted, HasCopy, Transferring
<1>4. NothingVanishes
  BY <1>1 DEF NothingVanishes
<1>5. NoticeTruthful
  BY <1>1 DEF NoticeTruthful
<1>6. Counted
  <2>1. Hard = 0
    BY <1>1 DEF Hard, FileFaults, HardFaults
  <2>2. \A i \in DOMAIN Targets : ~Sent(i) /\ Len(posts[Targets[i]]) = 0
    BY <1>1, TargetsIndexed DEF Sent
  <2> QED BY <1>1, <2>1, <2>2 DEF Counted
<1> QED BY <1>2, <1>3, <1>4, <1>5, <1>6 DEF IInv

LEMMA StutterStep == IInv /\ UNCHANGED vars => IInv'
<1> SUFFICES ASSUME IInv, UNCHANGED vars PROVE IInv'
  OBVIOUS
<1> USE DEF vars
<1>1. Typed' /\ NothingVanishes' /\ NoticeTruthful'
  <2>1. Typed'
    BY DEF IInv, Typed
  <2>2. NothingVanishes'
    BY DEF IInv, NothingVanishes
  <2>3. NoticeTruthful'
    BY DEF IInv, NoticeTruthful
  <2> QED BY <2>1, <2>2, <2>3
<1>2. Working'
  BY DEF IInv, Working, HasCopy, Pre, T
<1>3. Accounted'
  BY DEF IInv, Accounted, FilesFirst, PostFirst, Copy, Done, Pre, T, Precheck
<1>4. Counted'
  BY DEF IInv, Counted, Sent, HasCopy, Pre, T, Hard
<1> QED BY <1>1, <1>2, <1>3, <1>4 DEF IInv

LEMMA NextIInv == IInv /\ [Next]_vars => IInv'
BY BeginStep, PassOverStep, OpenFileStep, GetUploadURLStep, PutBytesStep, ShareStep,
   FileLostStep, FilesDoneStep, SendStep, EditNoticeStep, RecordReplicaStep, MarkDoneStep,
   NoticeErrorStep, FailSteps, RelayEditStep, StutterStep
   DEF Next, HandlerStep

LEMMA Invariance == Spec => []IInv
BY InitIInv, NextIInv, PTL DEF Spec

\* Every copy, every list and every count has its type, and what the handler
\* is about to write to exists (relay.py:205-250).
THEOREM TypeCorrect == Spec => []TypeOK
<1>1. IInv => TypeOK
  <2> SUFFICES ASSUME IInv PROVE TypeOK
    OBVIOUS
  <2>1. \A s : s \in Seq(EntryType) <=> IsNotice(s)
    BY DEF EntryType, Reasons, IsNotice
  <2>2. \A p \in CopyType : IsCopy(p)
    BY <2>1 DEF CopyType, IsCopy
  <2>3. ASSUME NEW t \in Chans, NEW k \in DOMAIN posts[t] PROVE IsCopy(posts[t][k])
    <3>1. posts[t] \in Seq(CopyType)
      BY DEF IInv, Typed
    <3>2. posts[t][k] \in CopyType
      <4> HIDE DEF CopyType
      <4> QED BY <2>3, <3>1
    <3> QED BY <2>2, <3>2
  <2>4. /\ relayFiles \in BOOLEAN /\ limit \in [Chans -> {0, Cap}]
        /\ status \in {"pending", "done", "dead"} /\ tries \in Nat
        /\ h \in HandlerType
    BY DEF IInv, Typed
  <2>5. /\ h.at \in Steps /\ h.t \in DOMAIN Targets /\ h.next \in 1..(Len(Files) + 1)
        /\ h.ids \in Seq(Index) /\ IsNotice(h.known) /\ IsNotice(h.failed)
    BY <2>1, <2>4 DEF HandlerType
  <2>6. \A t \in Chans : linked[t] \subseteq DOMAIN posts[t]
    BY DEF IInv, Working
  <2>7. h.at \in {"share", "notice", "link"} => h.id \in DOMAIN posts[T]
    BY DEF IInv, Working, HasCopy, Transferring
  <2> QED BY <2>3, <2>4, <2>5, <2>6, <2>7 DEF TypeOK, Steps
<1> QED BY <1>1, Invariance, PTL

\* No attachment vanishes without a word: what a recorded copy does not carry
\* its notice names, for every list of files, every limit and every order of
\* failures (_send_with_files and _transfer_files, relay.py:205-250).
THEOREM FilesAccounted == Spec => []NothingVanishes
<1>1. IInv => NothingVanishes
  BY DEF IInv
<1> QED BY <1>1, Invariance, PTL

\* A notice names a file once, and none that hangs on the message.
THEOREM NoticesTrue == Spec => []NoticeTruthful
<1>1. IInv => NoticeTruthful
  BY DEF IInv
<1> QED BY <1>1, Invariance, PTL

\* Files that fail cost no attempt and no second post: only other faults do.
THEOREM BodySent == Spec => []BodyCrosses
<1>1. IInv => BodyCrosses
  <2> SUFFICES ASSUME IInv PROVE BodyCrosses
    OBVIOUS
  <2>1. \A t \in Chans : Len(posts[t]) <= 1 + Hard
    <3>1. Hard \in Nat /\ \A t \in Chans : Len(posts[t]) \in Nat /\ Len(posts[t]) <= Hard + 1
      BY CopiesCounted
    <3> QED BY <3>1
  <2>2. status = "done" => \A t \in Chans : linked[t] # {}
    <3> SUFFICES ASSUME status = "done", NEW t \in Chans PROVE linked[t] # {}
      OBVIOUS
    <3>1. PICK i \in DOMAIN Targets : t = Targets[i]
      BY TargetsIndexed
    <3>2. h.at = "idle" /\ Sent(i)
      BY DEF IInv, Working, Sent
    <3> QED BY <3>1, <3>2 DEF IInv, Counted, Resting
  <2> QED BY <2>1, <2>2 DEF IInv, Counted, BodyCrosses
<1> QED BY <1>1, Invariance, PTL

=============================================================================
