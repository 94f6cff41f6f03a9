---------------------------- MODULE RateGateProofs ----------------------------
(* Theorems about RateGate and their proofs.                               *)
EXTENDS RateGate, TLAPS

-----------------------------------------------------------------------------
(* The inductive invariants.                                               *)

\* What a holder has left to sleep is at least what is missing to the interval,
\* and nobody but a sender who passes starts the interval anew.
SleepCovers ==
    \A c \in Channels :
        /\ since[c] = quiet[c]
        /\ holder[c] # None => since[c] = Interval \/ left[c] + since[c] >= Interval

\* A sender stands at one place of one channel only.
OnePlace ==
    /\ \A c, d \in Channels : \A k \in DOMAIN queue[c], l \in DOMAIN queue[d] :
           queue[c][k] = queue[d][l] => c = d /\ k = l
    /\ \A c, d \in Channels :
           /\ holder[c] # None => \A l \in DOMAIN queue[d] : queue[d][l] # holder[c]
           /\ holder[c] # None /\ holder[c] = holder[d] => c = d

\* The time one turn takes at most, and how long the holder of c has had it.
Turn == Interval + Lateness
Held(c) == IF holder[c] = None THEN 0 ELSE 1
Elapsed(c) == IF holder[c] = None THEN 0 ELSE Interval - left[c]

\* WaitBounded is not inductive: a turn has passed for everybody who was before
\* a sender and is not any more, and a part of one for the holder.
TurnsPassed ==
    /\ \A c \in Channels : \A k \in DOMAIN queue[c] :
           LET s == queue[c][k]
               passed == ahead[s] - (k - 1 + Held(c))
           IN  passed >= 0 /\ waited[s] <= passed * Turn + Elapsed(c)
    /\ \A c \in Channels : holder[c] # None =>
           waited[holder[c]] <= ahead[holder[c]] * Turn + Elapsed(c)
    /\ \A s \in Senders : ~Queued(s) /\ ~Holding(s) => waited[s] = 0

-----------------------------------------------------------------------------
(* Type correctness.                                                       *)

LEMMA TypeInit == Init => TypeOK
BY IntervalAssumption, BoundsAssumption DEF Init, TypeOK

LEMMA TypeStep == TypeOK /\ [Next]_vars => TypeOK'
<1> USE IntervalAssumption, BoundsAssumption, NoneAssumption
<1> SUFFICES ASSUME TypeOK, [Next]_vars PROVE TypeOK'
  OBVIOUS
<1>1. CASE UNCHANGED vars
  BY <1>1 DEF TypeOK, vars
<1>2. ASSUME NEW s \in Senders, NEW c \in Channels, Arrive(s, c) PROVE TypeOK'
  <2>1. AtGate(c) \in Nat
    BY DEF TypeOK, AtGate
  <2> QED BY SMTT(40), <1>2, <2>1 DEF TypeOK, Arrive
<1>3. ASSUME NEW c \in Channels, Acquire(c) PROVE TypeOK'
  <2>1. queue[c] \in Seq(Senders) /\ queue[c] # <<>>
    BY <1>3 DEF TypeOK, Acquire
  <2>2. Head(queue[c]) \in Senders /\ Tail(queue[c]) \in Seq(Senders)
    BY <2>1
  <2>3. Interval - since[c] \in -Lateness .. Interval
    BY DEF TypeOK
  <2> QED BY <1>3, <2>2, <2>3 DEF TypeOK, Acquire
<1>4. ASSUME NEW c \in Channels, Pass(c) PROVE TypeOK'
  BY SMTT(40), <1>4 DEF TypeOK, Pass
<1>5. ASSUME NEW s \in Senders, Posted(s) PROVE TypeOK'
  BY <1>5 DEF TypeOK, Posted
<1>6. CASE Cancel
  BY <1>6 DEF TypeOK, Cancel
<1>7. CASE Tick
  BY SMTT(40), <1>7 DEF TypeOK, Tick
<1> QED BY <1>1, <1>2, <1>3, <1>4, <1>5, <1>6, <1>7 DEF Next

\* The gate's variables keep their types, for any senders, channels, interval
\* and lateness (RateGate.TypeOK; slack.py, _rate_gate).
THEOREM TypeCorrect == Spec => []TypeOK
BY TypeInit, TypeStep, PTL DEF Spec

-----------------------------------------------------------------------------
(* Spacing.                                                                *)

LEMMA SleepInit == Init => SleepCovers
BY NoneAssumption DEF Init, SleepCovers

LEMMA SleepStep == TypeOK /\ SleepCovers /\ [Next]_vars => SleepCovers'
<1> USE IntervalAssumption, BoundsAssumption, NoneAssumption
<1> SUFFICES ASSUME TypeOK, SleepCovers, [Next]_vars PROVE SleepCovers'
  OBVIOUS
<1>1. CASE UNCHANGED vars
  BY <1>1 DEF SleepCovers, vars
<1>2. ASSUME NEW s \in Senders, NEW c \in Channels, Arrive(s, c) PROVE SleepCovers'
  BY <1>2 DEF SleepCovers, Arrive
<1>3. ASSUME NEW c \in Channels, Acquire(c) PROVE SleepCovers'
  BY SMTT(40), <1>3 DEF TypeOK, SleepCovers, Acquire
<1>4. ASSUME NEW c \in Channels, Pass(c) PROVE SleepCovers'
  BY <1>4 DEF TypeOK, SleepCovers, Pass
<1>5. ASSUME NEW s \in Senders, Posted(s) PROVE SleepCovers'
  BY <1>5 DEF SleepCovers, Posted
<1>6. CASE Cancel
  BY <1>6 DEF SleepCovers, Cancel
<1>7. CASE Tick
  <2> SUFFICES ASSUME NEW c \in Channels
      PROVE  /\ since'[c] = quiet'[c]
             /\ holder'[c] # None =>
                    since'[c] = Interval \/ left'[c] + since'[c] >= Interval
    BY DEF SleepCovers
  <2>1. /\ since'[c] = IF since[c] < Interval THEN since[c] + 1 ELSE Interval
        /\ quiet'[c] = IF quiet[c] < Interval THEN quiet[c] + 1 ELSE Interval
        /\ holder'[c] = holder[c]
        /\ holder[c] # None => left'[c] = left[c] - 1
    BY <1>7 DEF Tick
  <2>2. since[c] \in 0 .. Interval /\ left[c] \in -Lateness .. Interval
    BY DEF TypeOK
  <2> QED BY <2>1, <2>2 DEF SleepCovers
<1> QED BY <1>1, <1>2, <1>3, <1>4, <1>5, <1>6, <1>7 DEF Next

\* Posts to a channel pass an interval apart, whoever makes them (slack.py:148).
THEOREM PostsSpaced == Spec => []Spaced
<1>1. TypeOK /\ SleepCovers => Spaced
  BY IntervalAssumption, BoundsAssumption DEF TypeOK, SleepCovers, Spaced
<1> QED BY <1>1, TypeInit, TypeStep, SleepInit, SleepStep, PTL DEF Spec

-----------------------------------------------------------------------------
(* One place for each sender.                                              *)

LEMMA PlaceInit == Init => OnePlace
BY NoneAssumption DEF Init, OnePlace

LEMMA PlaceStep == TypeOK /\ OnePlace /\ [Next]_vars => OnePlace'
<1> USE NoneAssumption
<1> SUFFICES ASSUME TypeOK, OnePlace, [Next]_vars PROVE OnePlace'
  OBVIOUS
<1>1. CASE UNCHANGED vars
  BY <1>1 DEF OnePlace, vars
<1>2. ASSUME NEW s \in Senders, NEW c \in Channels, Arrive(s, c) PROVE OnePlace'
  <2>1. \A d \in Channels : queue[d] \in Seq(Senders)
    BY DEF TypeOK
  <2>2. \A d \in Channels : \A k \in DOMAIN queue[d] : queue[d][k] # s
    BY <1>2, <2>1 DEF Arrive, Queued, Contains
  <2>3. \A d \in Channels : holder[d] # s
    BY <1>2 DEF Arrive, Holding
  <2>4. holder' = holder
    BY <1>2 DEF Arrive
  <2>5. \A d \in Channels : \A k \in DOMAIN queue'[d] :
            \/ k \in DOMAIN queue[d] /\ queue'[d][k] = queue[d][k]
            \/ d = c /\ k = Len(queue[c]) + 1 /\ queue'[d][k] = s
    BY <1>2, <2>1 DEF TypeOK, Arrive
  <2>6. ASSUME NEW d \in Channels, NEW e \in Channels,
               NEW k \in DOMAIN queue'[d], NEW l \in DOMAIN queue'[e],
               queue'[d][k] = queue'[e][l]
        PROVE  d = e /\ k = l
    BY <2>2, <2>5, <2>6 DEF OnePlace
  <2>7. ASSUME NEW d \in Channels, NEW e \in Channels, holder'[d] # None
        PROVE  /\ \A l \in DOMAIN queue'[e] : queue'[e][l] # holder'[d]
               /\ holder'[d] = holder'[e] => d = e
    BY <2>3, <2>4, <2>5, <2>7 DEF OnePlace
  <2> QED BY <2>6, <2>7 DEF OnePlace
<1>3. ASSUME NEW c \in Channels, Acquire(c) PROVE OnePlace'
  <2>1. \A d \in Channels : queue[d] \in Seq(Senders)
    BY DEF TypeOK
  <2>2. queue[c] # <<>> /\ holder[c] = None
    BY <1>3 DEF Acquire
  <2>3. /\ holder'[c] = queue[c][1] /\ 1 \in DOMAIN queue[c]
        /\ \A d \in Channels \ {c} : holder'[d] = holder[d]
    BY <1>3, <2>1, <2>2 DEF TypeOK, Acquire
  <2>4. /\ \A d \in Channels \ {c} : queue'[d] = queue[d]
        /\ \A k \in DOMAIN queue'[c] :
               k + 1 \in DOMAIN queue[c] /\ queue'[c][k] = queue[c][k + 1] /\ k \in Nat \ {0}
    <3>1. queue'[c] = Tail(queue[c]) /\ \A d \in Channels \ {c} : queue'[d] = queue[d]
      BY <1>3 DEF TypeOK, Acquire
    <3>2. ASSUME NEW k \in DOMAIN Tail(queue[c])
          PROVE  /\ k \in Nat \ {0} /\ k + 1 \in DOMAIN queue[c]
                 /\ Tail(queue[c])[k] = queue[c][k + 1]
      BY <2>1, <2>2
    <3> QED BY <3>1, <3>2
  <2>5. ASSUME NEW d \in Channels, NEW e \in Channels,
               NEW k \in DOMAIN queue'[d], NEW l \in DOMAIN queue'[e],
               queue'[d][k] = queue'[e][l]
        PROVE  d = e /\ k = l
    BY <2>4, <2>5 DEF OnePlace
  <2>6. ASSUME NEW d \in Channels, NEW e \in Channels, holder'[d] # None
        PROVE  /\ \A l \in DOMAIN queue'[e] : queue'[e][l] # holder'[d]
               /\ holder'[d] = holder'[e] => d = e
    BY <2>3, <2>4, <2>6 DEF OnePlace
  <2> QED BY <2>5, <2>6 DEF OnePlace
<1>4. ASSUME NEW c \in Channels, Pass(c) PROVE OnePlace'
  <2>1. queue' = queue
    BY <1>4 DEF Pass
  <2>2. \A d \in Channels : holder'[d] = IF d = c THEN None ELSE holder[d]
    BY <1>4 DEF TypeOK, Pass
  <2> QED BY <2>1, <2>2 DEF OnePlace
<1>5. ASSUME NEW s \in Senders, Posted(s) PROVE OnePlace'
  BY <1>5 DEF OnePlace, Posted
<1>6. CASE Cancel
  BY <1>6 DEF OnePlace, Cancel
<1>7. CASE Tick
  BY <1>7 DEF OnePlace, Tick
<1> QED BY <1>1, <1>2, <1>3, <1>4, <1>5, <1>6, <1>7 DEF Next

-----------------------------------------------------------------------------
(* The bound of the waiting time.                                          *)

\* A turn more is a turn longer, and more turns are no shorter.
LEMMA Turns ==
    ASSUME NEW a \in Int, NEW b \in Int, a <= b
    PROVE  /\ Turn \in Nat
           /\ a * Turn <= b * Turn
           /\ (a + 1) * Turn = a * Turn + Turn
           /\ a * Turn \in Int
<1>1. Turn \in Nat
  BY IntervalAssumption, BoundsAssumption DEF Turn
<1> HIDE DEF Turn
<1>2. \A t \in Nat : a * t <= b * t /\ (a + 1) * t = a * t + t /\ a * t \in Int
  OBVIOUS
<1> QED BY <1>1, <1>2

\* Nobody holds a lock for longer than a turn.
LEMMA ElapsedBound ==
    ASSUME TypeOK, NEW c \in Channels
    PROVE  Elapsed(c) \in 0 .. Turn /\ Held(c) \in {0, 1}
BY IntervalAssumption, BoundsAssumption DEF TypeOK, Elapsed, Held, Turn

\* The bound for one place in a queue, and for a holder.
QueuedBound(c, k) ==
    LET s == queue[c][k]
        passed == ahead[s] - (k - 1 + Held(c))
    IN  passed >= 0 /\ waited[s] <= passed * Turn + Elapsed(c)
HolderBound(c) ==
    holder[c] # None =>
        waited[holder[c]] <= ahead[holder[c]] * Turn + Elapsed(c)

LEMMA TurnsInit == Init => TurnsPassed
BY DEF Init, TurnsPassed, Queued, Holding, Contains

LEMMA TurnsArrive ==
    ASSUME TypeOK, OnePlace, TurnsPassed,
           NEW s \in Senders, NEW c \in Channels, Arrive(s, c)
    PROVE  TurnsPassed'
<1> USE NoneAssumption
<1>1. \A d \in Channels : queue[d] \in Seq(Senders)
  BY DEF TypeOK
<1>2. \A d \in Channels : \A k \in DOMAIN queue[d] : queue[d][k] # s
  BY <1>1 DEF Arrive, Queued, Contains
<1>3. \A d \in Channels : holder[d] # s
  BY DEF Arrive, Holding
<1>4. \A d \in Channels : \A k \in DOMAIN queue'[d] :
          \/ k \in DOMAIN queue[d] /\ queue'[d][k] = queue[d][k]
          \/ d = c /\ k = Len(queue[c]) + 1 /\ queue'[d][k] = s
  BY <1>1 DEF TypeOK, Arrive
<1>5. \A d \in Channels : Held(d)' = Held(d) /\ Elapsed(d)' = Elapsed(d)
  BY DEF Arrive, Held, Elapsed
<1>6. /\ \A r \in Senders \ {s} : waited'[r] = waited[r] /\ ahead'[r] = ahead[r]
      /\ waited'[s] = 0 /\ ahead'[s] = Len(queue[c]) + Held(c)
  BY DEF TypeOK, Arrive, AtGate, Held
<1>7. ASSUME NEW d \in Channels, NEW k \in DOMAIN queue'[d] PROVE QueuedBound(d, k)'
  <2>1. CASE k \in DOMAIN queue[d] /\ queue'[d][k] = queue[d][k]
    <3>1. queue[d][k] \in Senders \ {s}
      BY <1>1, <1>2, <2>1
    <3> QED BY <1>5, <1>6, <2>1, <3>1 DEF TurnsPassed, QueuedBound
  <2>2. CASE d = c /\ k = Len(queue[c]) + 1 /\ queue'[d][k] = s
    <3>1. Len(queue[c]) \in Nat /\ Held(c) \in {0, 1} /\ Elapsed(c) \in 0 .. Turn
      BY <1>1, ElapsedBound
    <3>2. ahead'[s] - (k - 1 + Held(c)) = 0
      BY <1>6, <2>2, <3>1
    <3>3. 0 * Turn = 0 /\ Turn \in Nat
      BY Turns
    <3> QED BY <1>5, <1>6, <2>2, <3>1, <3>2, <3>3 DEF QueuedBound
  <2> QED BY <1>4, <2>1, <2>2
<1>8. ASSUME NEW d \in Channels PROVE HolderBound(d)'
  <2>1. holder' = holder /\ (holder[d] # None => holder[d] \in Senders \ {s})
    BY <1>3 DEF TypeOK, Arrive
  <2> QED BY <1>5, <1>6, <2>1 DEF TurnsPassed, HolderBound
<1>9. ASSUME NEW r \in Senders, ~Queued(r)', ~Holding(r)' PROVE waited'[r] = 0
  <2>1. CASE r = s
    BY <1>6, <2>1
  <2>2. CASE r # s
    <3>1. ~Holding(r)
      BY <1>9 DEF Arrive, Holding
    <3>2. \A d \in Channels : \A k \in DOMAIN queue[d] :
              k \in DOMAIN queue'[d] /\ queue'[d][k] = queue[d][k]
      BY SMTT(40), <1>1 DEF TypeOK, Arrive
    <3>3. \A d \in Channels : queue'[d] \in Seq(Senders)
      BY <1>1 DEF TypeOK, Arrive
    <3>4. ~Queued(r)
      BY <1>1, <1>9, <3>2, <3>3 DEF Queued, Contains
    <3> QED BY <1>6, <2>2, <3>1, <3>4 DEF TurnsPassed
  <2> QED BY <2>1, <2>2
<1> QED BY <1>7, <1>8, <1>9 DEF TurnsPassed, QueuedBound, HolderBound

LEMMA TurnsAcquire ==
    ASSUME TypeOK, OnePlace, TurnsPassed, NEW c \in Channels, Acquire(c)
    PROVE  TurnsPassed'
<1> USE NoneAssumption
<1>1. \A d \in Channels : queue[d] \in Seq(Senders)
  BY DEF TypeOK
<1>2. queue[c] # <<>> /\ holder[c] = None /\ waited' = waited /\ ahead' = ahead
  BY DEF Acquire
<1>3. /\ holder'[c] = queue[c][1] /\ 1 \in DOMAIN queue[c] /\ queue[c][1] \in Senders
      /\ queue'[c] = Tail(queue[c])
      /\ Held(c) = 0 /\ Held(c)' = 1 /\ Elapsed(c) = 0 /\ Elapsed(c)' = since[c]
      /\ since[c] \in Nat
  BY SMTT(40), <1>1, <1>2, IntervalAssumption, BoundsAssumption DEF TypeOK, Acquire, Held, Elapsed
<1>4. \A d \in Channels \ {c} :
          /\ queue'[d] = queue[d] /\ holder'[d] = holder[d]
          /\ Held(d)' = Held(d) /\ Elapsed(d)' = Elapsed(d)
  BY DEF TypeOK, Acquire, Held, Elapsed
<1>5. ASSUME NEW k \in DOMAIN Tail(queue[c])
      PROVE  /\ k \in Nat \ {0} /\ k + 1 \in DOMAIN queue[c]
             /\ Tail(queue[c])[k] = queue[c][k + 1]
  BY <1>1, <1>2
<1>6. ASSUME NEW d \in Channels, NEW k \in DOMAIN queue'[d] PROVE QueuedBound(d, k)'
  <2>1. CASE d = c
    <3>1. QueuedBound(c, k + 1) /\ queue'[d][k] = queue[c][k + 1] /\ k \in Nat \ {0}
      BY <1>3, <1>5, <1>6, <2>1 DEF TurnsPassed, QueuedBound
    <3>2. queue[c][k + 1] \in Senders
      <4>1. k + 1 \in DOMAIN queue[c]
        BY <1>3, <1>5, <1>6, <2>1
      <4> QED BY <1>1, <4>1
    <3>3. waited[queue[c][k + 1]] \in Nat /\ ahead[queue[c][k + 1]] \in Nat
      BY <3>2 DEF TypeOK
    <3> DEFINE passed == ahead[queue[c][k + 1]] - k
    <3>4. passed >= 0 /\ waited[queue[c][k + 1]] <= passed * Turn + 0
      <4>1. (k + 1) - 1 + Held(c) = k
        BY <1>3, <3>1
      <4> QED BY <1>3, <3>1, <4>1 DEF QueuedBound
    <3>5. passed * Turn \in Int
      <4>1. passed \in Int
        BY <3>1, <3>3
      <4>2. \A n \in Int : n * Turn \in Int
        BY Turns
      <4> QED BY <4>1, <4>2
    <3>6. k - 1 + Held(c)' = k
      BY <1>3, <3>1
    <3>7. waited[queue[c][k + 1]] <= passed * Turn + since[c]
      BY <1>3, <3>3, <3>4, <3>5
    <3> QED BY <1>2, <1>3, <2>1, <3>1, <3>4, <3>6, <3>7 DEF QueuedBound
  <2>2. CASE d # c
    BY <1>2, <1>4, <1>6, <2>2 DEF TurnsPassed, QueuedBound
  <2> QED BY <2>1, <2>2
<1>7. ASSUME NEW d \in Channels PROVE HolderBound(d)'
  <2>1. CASE d = c
    <3> DEFINE s == queue[c][1]
    <3>1. waited[s] \in Nat /\ ahead[s] \in Nat /\ QueuedBound(c, 1)
      BY <1>3 DEF TypeOK, TurnsPassed, QueuedBound
    <3>2. waited[s] <= ahead[s] * Turn + 0
      <4>1. ahead[s] - (1 - 1 + Held(c)) = ahead[s]
        BY <1>3, <3>1
      <4> QED BY <1>3, <3>1, <4>1 DEF QueuedBound
    <3>3. ahead[s] * Turn \in Int
      <4>1. \A n \in Nat : n * Turn \in Int
        BY Turns
      <4> QED BY <3>1, <4>1
    <3>4. waited[s] <= ahead[s] * Turn + since[c]
      BY <1>3, <3>1, <3>2, <3>3
    <3> QED BY <1>2, <1>3, <2>1, <3>4 DEF HolderBound
  <2>2. CASE d # c
    BY <1>2, <1>4, <2>2 DEF TurnsPassed, HolderBound
  <2> QED BY <2>1, <2>2
<1>8. ASSUME NEW r \in Senders, ~Queued(r)', ~Holding(r)' PROVE waited'[r] = 0
  <2>1. r # queue[c][1]
    BY <1>3, <1>8 DEF Holding
  <2>2. ~Holding(r)
    BY <1>2, <1>4, <1>8, r # None DEF Holding
  <2>3. ASSUME NEW d \in Channels, NEW k \in DOMAIN queue[d], queue[d][k] = r PROVE FALSE
    <3>1. CASE d = c
      <4>1. k # 1
        BY <2>1, <2>3, <3>1
      <4>2. k - 1 \in DOMAIN Tail(queue[c]) /\ Tail(queue[c])[k - 1] = queue[c][k]
        BY <1>1, <1>2, <2>3, <3>1, <4>1
      <4>3. k - 1 \in 1 .. Len(queue'[c])
        BY <1>1, <1>2, <1>3, <4>2
      <4> QED BY <1>3, <1>8, <2>3, <3>1, <4>2, <4>3 DEF Queued, Contains
    <3>2. CASE d # c
      <4>1. k \in 1 .. Len(queue'[d])
        BY <1>1, <1>4, <2>3, <3>2
      <4> QED BY <1>4, <1>8, <2>3, <3>2, <4>1 DEF Queued, Contains
    <3> QED BY <3>1, <3>2
  <2>4. ~Queued(r)
    BY <1>1, <2>3 DEF Queued, Contains
  <2> QED BY <1>2, <2>2, <2>4 DEF TurnsPassed
<1> QED BY <1>6, <1>7, <1>8 DEF TurnsPassed, QueuedBound, HolderBound

LEMMA TurnsPass ==
    ASSUME TypeOK, OnePlace, TurnsPassed, NEW c \in Channels, Pass(c)
    PROVE  TurnsPassed'
<1> USE NoneAssumption
<1> DEFINE h == holder[c]
<1>1. \A d \in Channels : queue[d] \in Seq(Senders)
  BY DEF TypeOK
<1>2. queue' = queue /\ h # None /\ h \in Senders
  BY DEF TypeOK, Pass
<1>3. /\ \A r \in Senders \ {h} : waited'[r] = waited[r] /\ ahead'[r] = ahead[r]
      /\ waited'[h] = 0
  BY <1>2 DEF TypeOK, Pass
<1>4. /\ \A d \in Channels \ {c} : /\ holder'[d] = holder[d]
                                   /\ Held(d)' = Held(d) /\ Elapsed(d)' = Elapsed(d)
      /\ holder'[c] = None /\ Held(c) = 1 /\ Held(c)' = 0 /\ Elapsed(c)' = 0
  BY <1>2 DEF TypeOK, Pass, Held, Elapsed
<1>5. ASSUME NEW d \in Channels, NEW k \in DOMAIN queue'[d] PROVE QueuedBound(d, k)'
  <2> DEFINE q == queue[d][k]
  <2>1. q \in Senders \ {h} /\ k \in Nat \ {0} /\ QueuedBound(d, k)
    BY <1>1, <1>2, <1>5 DEF OnePlace, TurnsPassed, QueuedBound
  <2>2. waited'[q] = waited[q] /\ ahead'[q] = ahead[q] /\ queue'[d][k] = q
    BY <1>2, <1>3, <2>1
  <2>3. CASE d = c
    <3> DEFINE passed == ahead[q] - k
    <3>1. waited[q] \in Nat /\ ahead[q] \in Nat
      BY <2>1 DEF TypeOK
    <3>2. passed >= 0 /\ waited[q] <= passed * Turn + Elapsed(c)
      <4>1. k - 1 + Held(c) = k
        BY <1>4, <2>1
      <4> QED BY <2>1, <2>3, <4>1 DEF QueuedBound
    <3>3. /\ passed \in Int /\ passed * Turn \in Int /\ Turn \in Nat
          /\ (passed + 1) * Turn = passed * Turn + Turn
      <4>1. passed \in Int
        BY <2>1, <3>1
      <4>2. \A a \in Int : /\ a * Turn \in Int /\ Turn \in Nat
                           /\ (a + 1) * Turn = a * Turn + Turn
        BY Turns
      <4> QED BY <4>1, <4>2
    <3>4. Elapsed(c) \in 0 .. Turn
      BY ElapsedBound
    <3> HIDE DEF passed
    <3>5. waited[q] <= (passed + 1) * Turn + 0
      BY <3>1, <3>2, <3>3, <3>4
    <3>6. ahead[q] - (k - 1 + Held(c)') = passed + 1 /\ passed + 1 >= 0
      BY <1>4, <2>1, <3>1, <3>2, <3>3 DEF passed
    <3> QED BY <1>4, <2>2, <2>3, <3>5, <3>6 DEF QueuedBound
  <2>4. CASE d # c
    BY <1>4, <2>1, <2>2, <2>4 DEF QueuedBound
  <2> QED BY <2>3, <2>4
<1>6. ASSUME NEW d \in Channels, holder'[d] # None PROVE HolderBound(d)'
  <2>1. d # c /\ holder'[d] = holder[d]
    BY <1>4, <1>6
  <2>2. holder[d] \in Senders \ {h}
    BY <1>2, <1>6, <2>1 DEF TypeOK, OnePlace
  <2> QED BY <1>3, <1>4, <2>1, <2>2 DEF TurnsPassed, HolderBound
<1>7. ASSUME NEW r \in Senders, ~Queued(r)', ~Holding(r)' PROVE waited'[r] = 0
  <2>1. CASE r = h
    BY <1>3, <2>1
  <2>2. CASE r # h
    <3>1. ~Queued(r)
      BY <1>2, <1>7 DEF Queued
    <3>2. ~Holding(r)
      BY <1>4, <1>7, <2>2 DEF Holding
    <3> QED BY <1>3, <2>2, <3>1, <3>2 DEF TurnsPassed
  <2> QED BY <2>1, <2>2
<1> QED BY <1>5, <1>6, <1>7 DEF TurnsPassed, QueuedBound, HolderBound

LEMMA TurnsTick ==
    ASSUME TypeOK, TurnsPassed, Tick
    PROVE  TurnsPassed'
<1> USE NoneAssumption
<1>1. \A d \in Channels : queue[d] \in Seq(Senders)
  BY DEF TypeOK
<1>2. queue' = queue /\ holder' = holder /\ ahead' = ahead
  BY DEF Tick
<1>3. \A r \in Senders :
          /\ waited'[r] = waited[r] \/ waited'[r] = waited[r] + 1
          /\ ~Queued(r) /\ ~Holding(r) => waited'[r] = waited[r]
  BY DEF TypeOK, Tick
<1>4. \A d \in Channels : /\ Held(d)' = Held(d)
                          /\ holder[d] # None => Elapsed(d)' = Elapsed(d) + 1
  <2> SUFFICES ASSUME NEW d \in Channels
      PROVE  /\ Held(d)' = Held(d)
             /\ holder[d] # None => Elapsed(d)' = Elapsed(d) + 1
    OBVIOUS
  <2>1. Held(d)' = Held(d)
    BY <1>2 DEF Held
  <2>2. ASSUME holder[d] # None PROVE Elapsed(d)' = Elapsed(d) + 1
    <3>1. left'[d] = left[d] - 1 /\ left[d] \in Int /\ Interval \in Int
      BY <2>2, IntervalAssumption, BoundsAssumption DEF TypeOK, Tick
    <3>2. Elapsed(d) = Interval - left[d] /\ Elapsed(d)' = Interval - left'[d]
      BY <1>2, <2>2 DEF Elapsed
    <3> QED BY <3>1, <3>2
  <2> QED BY <2>1, <2>2
<1>5. ASSUME NEW d \in Channels, NEW k \in DOMAIN queue'[d] PROVE QueuedBound(d, k)'
  <2> DEFINE q == queue[d][k]
             passed == ahead[q] - (k - 1 + Held(d))
  <2>1. q \in Senders /\ k \in Nat \ {0} /\ holder[d] # None
    BY <1>1, <1>2, <1>5 DEF Tick
  <2>2. waited[q] \in Nat /\ ahead[q] \in Nat /\ Held(d) \in {0, 1} /\ Elapsed(d) \in Nat
    BY SMTT(40), <2>1, ElapsedBound, IntervalAssumption, BoundsAssumption DEF TypeOK, Turn
  <2>3. passed >= 0 /\ waited[q] <= passed * Turn + Elapsed(d)
    BY <1>2, <1>5 DEF TurnsPassed
  <2>4. passed * Turn \in Int
    <3>1. passed \in Int
      BY <2>1, <2>2
    <3>2. \A a \in Int : a * Turn \in Int
      BY Turns
    <3> QED BY <3>1, <3>2
  <2> HIDE DEF passed
  <2>5. waited'[q] <= passed * Turn + (Elapsed(d) + 1)
    BY <1>3, <2>1, <2>2, <2>3, <2>4
  <2> QED BY <1>2, <1>4, <2>1, <2>3, <2>5 DEF QueuedBound, passed
<1>6. ASSUME NEW d \in Channels, holder'[d] # None PROVE HolderBound(d)'
  <2> DEFINE q == holder[d]
  <2>1. q \in Senders /\ q # None
    BY <1>2, <1>6 DEF TypeOK
  <2>2. waited[q] \in Nat /\ ahead[q] \in Nat /\ Elapsed(d) \in Nat
    BY SMTT(40), <2>1, ElapsedBound, IntervalAssumption, BoundsAssumption DEF TypeOK, Turn
  <2>3. waited[q] <= ahead[q] * Turn + Elapsed(d)
    BY <2>1 DEF TurnsPassed
  <2>4. ahead[q] * Turn \in Int
    <3>1. \A a \in Nat : a * Turn \in Int
      BY Turns
    <3> QED BY <2>2, <3>1
  <2>5. waited'[q] <= ahead[q] * Turn + (Elapsed(d) + 1)
    BY <1>3, <2>1, <2>2, <2>3, <2>4
  <2> QED BY <1>2, <1>4, <2>1, <2>5 DEF HolderBound
<1>7. ASSUME NEW r \in Senders, ~Queued(r)', ~Holding(r)' PROVE waited'[r] = 0
  BY <1>2, <1>3, <1>7 DEF TurnsPassed, Queued, Holding
<1> QED BY <1>5, <1>6, <1>7 DEF TurnsPassed, QueuedBound, HolderBound

LEMMA TurnsStep == TypeOK /\ OnePlace /\ TurnsPassed /\ [Next]_vars => TurnsPassed'
<1> SUFFICES ASSUME TypeOK, OnePlace, TurnsPassed, [Next]_vars PROVE TurnsPassed'
  OBVIOUS
<1>1. CASE UNCHANGED vars
  BY <1>1 DEF TurnsPassed, Queued, Holding, Held, Elapsed, vars
<1>2. CASE \E s \in Senders, c \in Channels : Arrive(s, c)
  BY <1>2, TurnsArrive
<1>3. CASE \E c \in Channels : Acquire(c)
  BY <1>3, TurnsAcquire
<1>4. CASE \E c \in Channels : Pass(c)
  BY <1>4, TurnsPass
<1>5. ASSUME NEW s \in Senders, Posted(s) PROVE TurnsPassed'
  BY <1>5 DEF Posted, TurnsPassed, Queued, Holding, Held, Elapsed
<1>6. CASE Cancel
  BY <1>6 DEF Cancel, TurnsPassed, Queued, Holding, Contains
<1>7. CASE Tick
  BY <1>7, TurnsTick
<1> QED BY <1>1, <1>2, <1>3, <1>4, <1>5, <1>6, <1>7 DEF Next

LEMMA TurnsBound == TypeOK /\ TurnsPassed => WaitBounded
<1> SUFFICES ASSUME TypeOK, TurnsPassed, NEW s \in Senders
    PROVE  waited[s] <= (ahead[s] + 1) * Turn
  BY DEF WaitBounded, Turn
<1>1. waited[s] \in Nat /\ ahead[s] \in Nat
  BY DEF TypeOK
<1>2. \A a, b \in Int : a <= b => /\ Turn \in Nat /\ a * Turn <= b * Turn
                                  /\ (a + 1) * Turn = a * Turn + Turn
                                  /\ a * Turn \in Int /\ b * Turn \in Int
  BY Turns
<1>3. ahead[s] * Turn \in Nat /\ Turn \in Nat /\ (ahead[s] + 1) * Turn = ahead[s] * Turn + Turn
  <2>1. Turn \in Nat
    BY <1>2
  <2>2. \A n, t \in Nat : n * t \in Nat
    OBVIOUS
  <2>3. ahead[s] * Turn \in Nat
    BY <1>1, <2>1, <2>2
  <2> QED BY <1>1, <1>2, <2>1, <2>3
<1>4. CASE Queued(s)
  <2>1. PICK c \in Channels : \E k \in 1 .. Len(queue[c]) : queue[c][k] = s
    BY <1>4 DEF Queued, Contains
  <2>2. PICK k \in 1 .. Len(queue[c]) : queue[c][k] = s
    BY <2>1
  <2>3. k \in DOMAIN queue[c] /\ k \in Nat \ {0}
    BY <2>2 DEF TypeOK
  <2> DEFINE passed == ahead[s] - (k - 1 + Held(c))
  <2>4. passed >= 0 /\ waited[s] <= passed * Turn + Elapsed(c)
    <3>1. QueuedBound(c, k)
      BY <2>3 DEF TurnsPassed, QueuedBound
    <3> QED BY <2>2, <3>1 DEF QueuedBound
  <2>5. Held(c) \in {0, 1} /\ Elapsed(c) \in 0 .. Turn
    BY ElapsedBound
  <2>6. passed \in Int /\ passed <= ahead[s] /\ ahead[s] \in Int
    BY <1>1, <2>3, <2>5
  <2> HIDE DEF passed
  <2>7. passed * Turn <= ahead[s] * Turn /\ passed * Turn \in Int
    BY <1>2, <2>6
  <2> QED BY <1>1, <1>3, <2>4, <2>5, <2>7
<1>5. CASE Holding(s)
  <2>1. PICK c \in Channels : holder[c] = s
    BY <1>5 DEF Holding
  <2>2. waited[s] <= ahead[s] * Turn + Elapsed(c)
    BY <2>1, NoneAssumption DEF TurnsPassed
  <2>3. Elapsed(c) \in 0 .. Turn
    BY ElapsedBound
  <2> QED BY <1>1, <1>3, <2>2, <2>3
<1>6. CASE ~Queued(s) /\ ~Holding(s)
  BY <1>1, <1>3, <1>6 DEF TurnsPassed
<1> QED BY <1>4, <1>5, <1>6

\* A post waits a turn for each one that was at the gate before it, and its own,
\* whoever is cancelled and however late sleepers wake (slack.py:150-155).
THEOREM WaitsBounded == Spec => []WaitBounded
BY TypeInit, TypeStep, PlaceInit, PlaceStep, TurnsInit, TurnsStep, TurnsBound, PTL DEF Spec
===============================================================================
