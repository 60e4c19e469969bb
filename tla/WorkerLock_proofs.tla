------------------------- MODULE WorkerLock_proofs --------------------------
(***************************************************************************)
(* Proofs about the worker locks, for any workers and any times that       *)
(* satisfy RenewedInTime.                                                  *)
(*                                                                         *)
(* OneRunner is not inductive: a worker may start when the key has gone,   *)
(* so the proof needs that the key does not go while a worker runs that is *)
(* not open.  WorkerTime relates what the key has left to the time since   *)
(* that worker's last renewal; Counted then charges every runner that has  *)
(* not been stopped to a failure or to the key, and TasksEnd says that     *)
(* only the scheduler has others.                                          *)
(***************************************************************************)
EXTENDS WorkerLock, FiniteSetTheorems, TLAPS

\* The time m failed renewals can take.
Missed(k, m) == m * (Refresh[k] + Lag)

WorkerTime(w) ==
  /\ Timed(w) => timer[w] <= Deadline(w)
  /\ miss[w] <= MaxMiss[kind]
  /\ pc[w] \in {"work", "stop"} /\ ~open[w] /\ key > 0
       => key + timer[w] + Missed(kind, miss[w]) >= TTL

TimeInv == \A w \in Workers : WorkerTime(w)

Opened == {w \in Workers : open[w]}

\* Only the scheduler's lock is given away by a worker that still runs loops.
TasksEnd == kind = "task" => \A w \in Workers : pc[w] \notin {"stop", "linger"}

Counted == /\ Opened \subseteq Holding
           /\ Cardinality(Opened) <= outages
           /\ Cardinality(Holding) <= outages + (IF key > 0 THEN 1 ELSE 0)

\* What a worker that waits knows of the time nobody has worked.
Waiting == /\ idle > 0 => Holding = {} /\ (key > 0 => key + idle <= TTL)
           /\ \A w \in Standby : timer[w] + TTL >= idle
           /\ TakeoverInTime
-----------------------------------------------------------------------------
LEMMA ConstantFacts ==
  /\ TTL \in Nat /\ TTL > 0 /\ Retry \in Nat /\ Lag \in Nat /\ MaxOutages \in Nat
  /\ \A k \in Kinds : Refresh[k] \in Nat /\ MaxMiss[k] \in Nat
  /\ IsFiniteSet(Workers)
<1>1. /\ TTL \in Nat /\ Retry \in Nat /\ Lag \in Nat /\ MaxOutages \in Nat
      /\ \A k \in Kinds : Refresh[k] \in Nat /\ MaxMiss[k] \in Nat
  BY TimesAssumption
<1>2. TTL > 0
  <2>1. "task" \in Kinds
    BY DEF Kinds
  <2>2. \A p, q \in Nat : p * q \in Nat
    BY SMT
  <2>3. MaxMiss["task"] * (Refresh["task"] + Lag) \in Nat
    BY <1>1, <2>1, <2>2
  <2> QED
    BY <1>1, <2>1, <2>3, RenewedInTime
<1> QED
  BY <1>1, <1>2, WorkersAssumption

\* What the proofs use of the product in Missed.
LEMMA MissedFacts ==
  ASSUME NEW k \in Kinds
  PROVE  /\ Missed(k, 0) = 0
         /\ \A m \in Nat : /\ Missed(k, m) \in Nat
                            /\ Missed(k, m + 1) = Missed(k, m) + Refresh[k] + Lag
         /\ \A m \in Nat :
              m <= MaxMiss[k] => Missed(k, m) + Refresh[k] + 2 * Lag < TTL
<1>1. MaxMiss[k] \in Nat /\ Lag \in Nat /\ TTL \in Nat /\ Refresh[k] \in Nat
  BY ConstantFacts
<1>2. Missed(k, 0) = 0
  BY <1>1, SMT DEF Missed
<1>3. ASSUME NEW m \in Nat
      PROVE  Missed(k, m) \in Nat /\ Missed(k, m + 1) = Missed(k, m) + Refresh[k] + Lag
  BY <1>1, SMT DEF Missed
<1>4. ASSUME NEW m \in Nat, m <= MaxMiss[k]
      PROVE  Missed(k, m) + Refresh[k] + 2 * Lag < TTL
  <2>1. \A p, q, c \in Nat : p <= q => p * c <= q * c
    BY SMT
  <2>2. Missed(k, m) <= Missed(k, MaxMiss[k])
    BY <1>1, <1>4, <2>1 DEF Missed
  <2>3. Missed(k, MaxMiss[k]) + Refresh[k] + 2 * Lag < TTL
    BY RenewedInTime DEF Missed
  <2> QED
    BY <1>1, <1>3, <2>2, <2>3
<1> QED
  BY <1>2, <1>3, <1>4

LEMMA HoldingFinite ==
  /\ IsFiniteSet(Holding) /\ IsFiniteSet(Opened)
  /\ Cardinality(Holding) \in Nat /\ Cardinality(Opened) \in Nat
<1>1. Holding \subseteq Workers /\ Opened \subseteq Workers
  BY DEF Holding, Opened
<1>2. IsFiniteSet(Holding) /\ IsFiniteSet(Opened)
  BY <1>1, ConstantFacts, FS_Subset
<1> QED
  BY <1>2, FS_CardinalityType

\* How the number of elements of a finite set changes with a step.
LEMMA SetChange ==
  ASSUME NEW S, NEW T, NEW w, IsFiniteSet(S), IsFiniteSet(T)
  PROVE  /\ Cardinality(S) \in Nat /\ Cardinality(T) \in Nat
         /\ T \subseteq S => Cardinality(T) <= Cardinality(S)
         /\ T \subseteq S \cup {w} => Cardinality(T) <= Cardinality(S) + 1
         /\ w \in S /\ T \subseteq S \ {w} => Cardinality(T) <= Cardinality(S) - 1
<1>1. Cardinality(S) \in Nat /\ Cardinality(T) \in Nat
  BY FS_CardinalityType
<1>2. T \subseteq S => Cardinality(T) <= Cardinality(S)
  BY FS_Subset
<1>3. ASSUME T \subseteq S \cup {w}
      PROVE  Cardinality(T) <= Cardinality(S) + 1
  <2>1. IsFiniteSet(S \cup {w}) /\ Cardinality(S \cup {w}) <= Cardinality(S) + 1
    BY <1>1, FS_AddElement
  <2>2. Cardinality(T) <= Cardinality(S \cup {w})
    BY <1>3, <2>1, FS_Subset
  <2>3. Cardinality(S \cup {w}) \in Nat
    BY <2>1, FS_CardinalityType
  <2> QED
    BY <1>1, <2>1, <2>2, <2>3
<1>4. ASSUME w \in S, T \subseteq S \ {w}
      PROVE  Cardinality(T) <= Cardinality(S) - 1
  <2>1. IsFiniteSet(S \ {w}) /\ Cardinality(S \ {w}) = Cardinality(S) - 1
    BY <1>4, FS_RemoveElement
  <2> QED
    BY <1>4, <2>1, FS_Subset
<1> QED
  BY <1>1, <1>2, <1>3, <1>4

-----------------------------------------------------------------------------
(* Type correctness                                                        *)

LEMMA TypeInit == Init => TypeOK
BY ConstantFacts DEF Init, TypeOK, Places

LEMMA TypeNext == TypeOK /\ [Next]_vars => TypeOK'
<1> SUFFICES ASSUME TypeOK, [Next]_vars
             PROVE  TypeOK'
  OBVIOUS
<1> USE ConstantFacts DEF TypeOK, GoTo, Places
<1>1. ASSUME NEW w \in Workers, Start(w)
      PROVE  TypeOK'
  BY <1>1 DEF Start
<1>2. ASSUME NEW w \in Workers, Acquire(w)
      PROVE  TypeOK'
  BY <1>2 DEF Acquire
<1>3. ASSUME NEW w \in Workers, Lose(w)
      PROVE  TypeOK'
  BY <1>3 DEF Lose
<1>4. ASSUME NEW w \in Workers, AcquireError(w)
      PROVE  TypeOK'
  BY <1>4 DEF AcquireError
<1>5. ASSUME NEW w \in Workers, Renew(w)
      PROVE  TypeOK'
  BY <1>5 DEF Renew, Renewed
<1>6. ASSUME NEW w \in Workers, RenewError(w)
      PROVE  TypeOK'
  <2>1. key' \in 0 .. TTL /\ timer' \in [Workers -> Nat]
    BY <1>6 DEF RenewError, Renewed
  <2>2. CASE miss[w] < MaxMiss[kind]
    BY <1>6, <2>1, <2>2 DEF RenewError
  <2>3. CASE ~(miss[w] < MaxMiss[kind])
    <3>1. /\ miss' = [miss EXCEPT ![w] = 0]
          /\ open' = [open EXCEPT ![w] = TRUE]
          /\ outages' = IF open[w] THEN outages ELSE outages + 1
          /\ outages' <= MaxOutages
      BY <1>6, <2>3 DEF RenewError
    <3>2. outages' \in 0 .. MaxOutages
      <4>1. CASE open[w]
        BY <3>1, <4>1
      <4>2. CASE ~open[w]
        BY <3>1, <4>2
      <4> QED
        BY <4>1, <4>2
    <3> QED
      BY <1>6, <2>1, <3>1, <3>2 DEF RenewError
  <2> QED
    BY <2>2, <2>3
<1>7. ASSUME NEW w \in Workers, Stop(w)
      PROVE  TypeOK'
  BY <1>7 DEF Stop
<1>8. ASSUME NEW w \in Workers, Release(w)
      PROVE  TypeOK'
  BY <1>8 DEF Release
<1>9. ASSUME NEW w \in Workers, WorkEnds(w)
      PROVE  TypeOK'
  BY <1>9 DEF WorkEnds
<1>10. ASSUME NEW w \in Workers, Die(w)
      PROVE  TypeOK'
  BY <1>10 DEF Die
<1>11. CASE Tick
  BY <1>11 DEF Tick, Idle
<1>12. CASE UNCHANGED vars
  BY <1>12 DEF vars
<1> HIDE DEF TypeOK, GoTo, Places
<1> QED
  BY <1>1, <1>2, <1>3, <1>4, <1>5, <1>6, <1>7, <1>8, <1>9, <1>10, <1>11, <1>12 DEF Next

\* The variables stay in their types: the model of start_scheduler,
\* run_exclusively and their refresh loops never writes a key's time, a
\* counter or a place that is none.
THEOREM TypeCorrect == Spec => []TypeOK
<1>1. Init => TypeOK
  BY TypeInit
<1>2. TypeOK /\ [Next]_vars => TypeOK'
  BY TypeNext
<1> QED
  BY <1>1, <1>2, PTL DEF Spec
-----------------------------------------------------------------------------
(* The timing of renewals                                                  *)

LEMMA Typed ==
  ASSUME TypeOK, NEW w \in Workers
  PROVE  /\ kind \in Kinds /\ key \in 0 .. TTL /\ outages \in Nat /\ idle \in Nat
         /\ timer[w] \in Nat /\ miss[w] \in Nat /\ open[w] \in BOOLEAN
         /\ Refresh[kind] \in Nat /\ MaxMiss[kind] \in Nat /\ Lag \in Nat
         /\ Retry \in Nat /\ TTL \in Nat /\ TTL > 0
BY ConstantFacts DEF TypeOK

\* A worker that does nothing, while the key stays, is set anew or goes.
LEMMA TimeOfOther ==
  ASSUME TypeOK, TimeInv, NEW x \in Workers, kind' = kind, key' \in {0, key, TTL},
         pc'[x] = pc[x], timer'[x] = timer[x], miss'[x] = miss[x], open'[x] = open[x]
  PROVE  WorkerTime(x)'
<1>1. WorkerTime(x)
  BY DEF TimeInv
<1>2. Missed(kind, miss[x]) \in Nat
  BY Typed, MissedFacts
<1>3. (Timed(x) => timer[x] <= Deadline(x))' /\ (miss[x] <= MaxMiss[kind])'
  BY <1>1 DEF WorkerTime, Timed, Deadline
<1>4. ASSUME pc'[x] \in {"work", "stop"}, ~open'[x], key' > 0
      PROVE  key' + timer'[x] + Missed(kind', miss'[x]) >= TTL
  BY <1>1, <1>2, <1>4, Typed DEF WorkerTime
<1> QED
  BY <1>3, <1>4 DEF WorkerTime

\* A worker that begins a timed step, open or with a key that is new or none.
LEMMA TimeOfReset ==
  ASSUME TypeOK, NEW x \in Workers, kind' = kind, timer'[x] = 0, miss'[x] = 0,
         pc'[x] \in {"work", "stop"} => open'[x] \/ key' \in {0, TTL}
  PROVE  WorkerTime(x)'
<1>1. Missed(kind, 0) = 0
  BY Typed, MissedFacts
<1>2. (Timed(x) => timer[x] <= Deadline(x))' /\ (miss[x] <= MaxMiss[kind])'
  BY Typed DEF Timed, Deadline
<1>3. ASSUME pc'[x] \in {"work", "stop"}, ~open'[x], key' > 0
      PROVE  key' + timer'[x] + Missed(kind', miss'[x]) >= TTL
  BY <1>1, <1>3, Typed
<1> QED
  BY <1>2, <1>3 DEF WorkerTime

LEMMA TimeInit == Init => TimeInv
<1> SUFFICES ASSUME Init, NEW w \in Workers
             PROVE  WorkerTime(w)
  BY DEF TimeInv
<1> QED
  BY ConstantFacts DEF Init, WorkerTime, Timed

LEMMA TimeNext == TypeOK /\ TimeInv /\ [Next]_vars => TimeInv'
<1> SUFFICES ASSUME TypeOK, TimeInv, [Next]_vars, NEW x \in Workers
             PROVE  WorkerTime(x)'
  BY DEF TimeInv
<1>1. ASSUME NEW w \in Workers, Start(w) \/ Lose(w) \/ WorkEnds(w) \/ Die(w)
      PROVE  WorkerTime(x)'
  <2>1. /\ kind' = kind /\ key' = key
        /\ x # w => /\ pc'[x] = pc[x] /\ timer'[x] = timer[x]
                    /\ miss'[x] = miss[x] /\ open'[x] = open[x]
        /\ x = w => /\ timer'[x] = 0 /\ miss'[x] = 0
                    /\ pc'[x] \in {"ask", "standby", "done", "down"}
    BY <1>1 DEF TypeOK, Start, Lose, WorkEnds, Die, GoTo
  <2> QED
    BY <2>1, TimeOfOther, TimeOfReset
<1>2. ASSUME NEW w \in Workers, Acquire(w) \/ AcquireError(w)
      PROVE  WorkerTime(x)'
  <2>1. /\ kind' = kind /\ key' \in {0, key, TTL}
        /\ x # w => /\ pc'[x] = pc[x] /\ timer'[x] = timer[x]
                    /\ miss'[x] = miss[x] /\ open'[x] = open[x]
        /\ x = w => /\ timer'[x] = 0 /\ miss'[x] = 0
                    /\ open'[x] \/ key' = TTL
    BY <1>2 DEF TypeOK, Acquire, AcquireError, GoTo
  <2> QED
    BY <2>1, TimeOfOther, TimeOfReset
<1>3. ASSUME NEW w \in Workers, Renew(w) \/ Release(w)
      PROVE  WorkerTime(x)'
  <2>1. /\ kind' = kind /\ key' \in {0, key, TTL}
        /\ x # w => /\ pc'[x] = pc[x] /\ timer'[x] = timer[x]
                    /\ miss'[x] = miss[x] /\ open'[x] = open[x]
        /\ x = w => /\ timer'[x] = 0 /\ miss'[x] = 0
                    /\ pc'[x] \in {"work", "stop"} => key' \in {0, TTL}
    BY <1>3 DEF TypeOK, Renew, Renewed, Release, GoTo
  <2> QED
    BY <2>1, TimeOfOther, TimeOfReset
<1>4. ASSUME NEW w \in Workers, RenewError(w)
      PROVE  WorkerTime(x)'
  <2>1. /\ kind' = kind /\ key' \in {0, key, TTL} /\ pc' = pc
        /\ timer' = [timer EXCEPT ![w] = 0] /\ pc[w] = "work"
        /\ key > 0 => key' \in {key, TTL}
        /\ key = 0 => key' = 0
    BY <1>4, Typed DEF RenewError, Renewed, RefreshDue
  <2>2. CASE miss[w] < MaxMiss[kind]
    <3>1. miss' = [miss EXCEPT ![w] = miss[w] + 1] /\ open' = open
      BY <1>4, <2>2 DEF RenewError
    <3>2. CASE x # w
      BY <2>1, <3>1, <3>2, TimeOfOther DEF TypeOK
    <3>3. CASE x = w
      <4>1. WorkerTime(w) /\ Deadline(w) = Refresh[kind] + Lag /\ Timed(w)
        BY <2>1 DEF TimeInv, Deadline, Timed
      <4>2. timer'[w] = 0 /\ miss'[w] = miss[w] + 1 /\ open'[w] = open[w]
        BY <2>1, <3>1 DEF TypeOK
      <4>3. /\ Missed(kind, miss[w]) \in Nat
            /\ Missed(kind, miss[w] + 1) = Missed(kind, miss[w]) + Refresh[kind] + Lag
        BY Typed, MissedFacts
      <4>4. timer[w] <= Refresh[kind] + Lag
        BY <4>1 DEF WorkerTime
      <4>5. (Timed(w) => timer[w] <= Deadline(w))'
        BY <2>1, <4>2, Typed DEF Timed, Deadline
      <4>6. (miss[w] <= MaxMiss[kind])'
        BY <2>1, <2>2, <4>2, Typed
      <4>7. ASSUME ~open'[w], key' > 0
            PROVE  key' + timer'[w] + Missed(kind', miss'[w]) >= TTL
        <5>1. key + timer[w] + Missed(kind, miss[w]) >= TTL /\ key' \in {key, TTL}
          BY <2>1, <4>1, <4>2, <4>7, Typed DEF WorkerTime
        <5> QED
          BY <2>1, <4>2, <4>3, <4>4, <5>1, Typed
      <4> QED
        BY <3>3, <4>5, <4>6, <4>7 DEF WorkerTime
    <3> QED
      BY <3>2, <3>3
  <2>3. CASE ~(miss[w] < MaxMiss[kind])
    <3>1. miss' = [miss EXCEPT ![w] = 0] /\ open' = [open EXCEPT ![w] = TRUE]
      BY <1>4, <2>3 DEF RenewError
    <3> QED
      BY <2>1, <3>1, TimeOfOther, TimeOfReset DEF TypeOK
  <2> QED
    BY <2>2, <2>3
<1>5. ASSUME NEW w \in Workers, Stop(w)
      PROVE  WorkerTime(x)'
  <2>1. CASE x # w
    BY <1>5, <2>1, TimeOfOther DEF TypeOK, Stop
  <2>2. CASE x = w
    <3>1. WorkerTime(w) /\ Missed(kind, miss[w]) \in Nat
      BY Typed, MissedFacts DEF TimeInv
    <3>2. /\ pc[w] = "work" /\ pc'[w] = "stop" /\ kind' = kind /\ key' = key
          /\ timer' = timer /\ miss' = miss /\ open' = open
      BY <1>5 DEF Stop, TypeOK
    <3>3. timer[w] <= Refresh[kind] + Lag
      BY <3>1, <3>2 DEF WorkerTime, Timed, Deadline
    <3>4. (Timed(w) => timer[w] <= Deadline(w))'
      BY <3>2, <3>3, Typed DEF Timed, Deadline
    <3> QED
      BY <2>2, <3>1, <3>2, <3>4 DEF WorkerTime
  <2> QED
    BY <2>1, <2>2
<1>6. CASE Tick
  <2>1. /\ kind' = kind /\ pc' = pc /\ open' = open /\ miss' = miss
        /\ key > 0 => key' = key - 1
        /\ key = 0 => key' = 0
        /\ timer'[x] = IF Timed(x) THEN timer[x] + 1 ELSE timer[x]
        /\ Timed(x) => timer[x] < Deadline(x)
    BY <1>6, Typed DEF Tick, InTime
  <2>2. WorkerTime(x) /\ Missed(kind, miss[x]) \in Nat
    BY Typed, MissedFacts DEF TimeInv
  <2>3. Deadline(x) \in Nat
    BY Typed DEF Deadline
  <2>4. (Timed(x) => timer[x] <= Deadline(x))'
    BY <2>1, <2>3, Typed DEF Timed, Deadline
  <2>5. ASSUME pc'[x] \in {"work", "stop"}, ~open'[x], key' > 0
        PROVE  key' + timer'[x] + Missed(kind', miss'[x]) >= TTL
    <3>1. key > 0 /\ key' = key - 1 /\ timer'[x] = timer[x] + 1
      BY <2>1, <2>5, Typed DEF Timed
    <3>2. key + timer[x] + Missed(kind, miss[x]) >= TTL
      BY <2>1, <2>2, <2>5, <3>1 DEF WorkerTime
    <3> QED
      BY <2>1, <2>2, <3>1, <3>2, Typed
  <2> QED
    BY <2>1, <2>2, <2>4, <2>5 DEF WorkerTime
<1>7. CASE UNCHANGED vars
  BY <1>7, TimeOfOther DEF vars
<1> QED
  BY <1>1, <1>2, <1>3, <1>4, <1>5, <1>6, <1>7 DEF Next
-----------------------------------------------------------------------------
(* One runner                                                              *)

LEMMA CountedInit == Init => Counted
<1> SUFFICES ASSUME Init
             PROVE  Counted
  OBVIOUS
<1>1. Holding = {} /\ Opened = {}
  BY DEF Init, Holding, Opened
<1> QED
  BY <1>1, FS_EmptySet DEF Init, Counted

\* The key only expires when every runner is open.
LEMMA ExpiryIsOpen ==
  ASSUME TypeOK, TimeInv, Tick, key = 1
  PROVE  Holding \subseteq Opened
<1> SUFFICES ASSUME NEW w \in Holding, ~open[w]
             PROVE  FALSE
  BY DEF Opened, Holding
<1>1. w \in Workers /\ pc[w] \in {"work", "stop"}
  BY DEF Holding
<1>2. 1 + timer[w] + Missed(kind, miss[w]) >= TTL /\ miss[w] <= MaxMiss[kind]
  BY <1>1 DEF TimeInv, WorkerTime
<1>3. Missed(kind, miss[w]) \in Nat
      /\ Missed(kind, miss[w]) + Refresh[kind] + 2 * Lag < TTL
  BY <1>1, <1>2, Typed, MissedFacts
<1>4. timer[w] < Refresh[kind] + 2 * Lag
  BY <1>1, Typed DEF Tick, InTime, Timed, Deadline
<1> QED
  BY <1>1, <1>2, <1>3, <1>4, Typed

LEMMA CountedNext ==
  TypeOK /\ TimeInv /\ Counted /\ [Next]_vars => Counted'
<1> SUFFICES ASSUME TypeOK, TimeInv, Counted, [Next]_vars
             PROVE  Counted'
  OBVIOUS
<1> DEFINE N == Cardinality(Holding)
           M == Cardinality(Opened)
           N1 == Cardinality(Holding')
           M1 == Cardinality(Opened')
           Goal == /\ Opened' \subseteq Holding'
                   /\ M1 <= outages'
                   /\ key' > 0 => N1 <= outages' + 1
                   /\ key' = 0 => N1 <= outages'
<1>1. /\ IsFiniteSet(Holding) /\ IsFiniteSet(Opened)
      /\ IsFiniteSet(Holding') /\ IsFiniteSet(Opened')
      /\ N \in Nat /\ M \in Nat /\ N1 \in Nat /\ M1 \in Nat
  <2>1. /\ Holding \subseteq Workers /\ Opened \subseteq Workers
        /\ Holding' \subseteq Workers /\ Opened' \subseteq Workers
    BY DEF Holding, Opened
  <2> QED
    BY <2>1, ConstantFacts, FS_Subset, FS_CardinalityType
<1>2. outages \in Nat /\ outages' \in Nat /\ key \in Nat /\ key' \in Nat
  BY TypeNext, ConstantFacts DEF TypeOK
<1>3. /\ Opened \subseteq Holding /\ M <= outages
      /\ key > 0 => N <= outages + 1
      /\ key = 0 => N <= outages
  BY <1>1, <1>2 DEF Counted
<1>4. SUFFICES Goal
  BY <1>1, <1>2 DEF Counted
<1>5. ASSUME Holding' \subseteq Holding, Opened' \subseteq Opened, outages' = outages
      PROVE  N1 <= N /\ M1 <= M
  BY <1>1, <1>5, SetChange
<1>6. ASSUME Opened' \subseteq Holding', Holding' \subseteq Holding, Opened' \subseteq Opened,
             outages' = outages, key > 0 <=> key' > 0
      PROVE  Goal
  BY <1>1, <1>2, <1>3, <1>5, <1>6
<1>7. ASSUME NEW w \in Workers, Start(w) \/ Lose(w) \/ WorkEnds(w) \/ Die(w)
      PROVE  Goal
  <2>1. key' = key /\ outages' = outages
    BY <1>7 DEF Start, Lose, WorkEnds, Die
  <2>2. Holding' \subseteq Holding /\ Opened' \subseteq Opened
    BY <1>7 DEF TypeOK, Start, Lose, WorkEnds, Die, GoTo, Holding, Opened
  <2>3. Opened' \subseteq Holding'
    BY <1>3, <1>7 DEF TypeOK, Start, Lose, Asks, WorkEnds, Die, GoTo, Holding, Opened
  <2> QED
    BY <2>1, <2>2, <2>3, <1>6
<1>8. ASSUME NEW w \in Workers, Acquire(w)
      PROVE  Goal
  <2>1. /\ key = 0 /\ key' = TTL /\ outages' = outages /\ Opened' = Opened
        /\ Holding' = Holding \cup {w}
    BY <1>8 DEF TypeOK, Acquire, GoTo, Holding, Opened
  <2>2. N1 <= N + 1
    BY <1>1, <2>1, FS_AddElement
  <2> QED
    BY <1>1, <1>2, <1>3, <2>1, <2>2, ConstantFacts
<1>9. ASSUME NEW w \in Workers, AcquireError(w)
      PROVE  Goal
  <2>1. /\ key > 0 => key' = key
        /\ outages' = outages + 1 /\ Opened' = Opened \cup {w}
        /\ Holding' = Holding \cup {w}
    BY <1>9 DEF TypeOK, AcquireError, GoTo, Holding, Opened
  <2>2. N1 <= N + 1
    BY <1>1, <2>1, FS_AddElement
  <2>3. M1 <= M + 1
    BY <1>1, <2>1, FS_AddElement
  <2> QED
    BY <1>1, <1>2, <1>3, <2>1, <2>2, <2>3
<1>10. ASSUME NEW w \in Workers, Renew(w)
       PROVE  Goal
  <2>1. /\ key > 0 <=> key' > 0
        /\ outages' = outages /\ Opened' = Opened /\ Holding' = Holding
    BY <1>2, <1>10, ConstantFacts DEF TypeOK, Renew, Renewed, RefreshDue, GoTo, Holding, Opened
  <2> QED
    BY <2>1, <1>3, <1>6
<1>11. ASSUME NEW w \in Workers, RenewError(w)
       PROVE  Goal
  <2>1. (key > 0 <=> key' > 0) /\ pc' = pc /\ pc[w] = "work"
    BY <1>2, <1>11, ConstantFacts DEF RenewError, Renewed, RefreshDue
  <2>2. Holding' = Holding /\ w \in Holding
    BY <2>1 DEF Holding
  <2>3. CASE open' = open /\ outages' = outages
    <3>1. Opened' = Opened
      BY <2>3 DEF Opened
    <3> QED
      BY <2>1, <2>2, <2>3, <3>1, <1>3, <1>6
  <2>4. CASE open' = [open EXCEPT ![w] = TRUE]
             /\ outages' = IF open[w] THEN outages ELSE outages + 1
    <3>1. Opened' = Opened \cup {w}
      BY <2>4 DEF Opened, TypeOK
    <3>2. M1 = IF w \in Opened THEN M ELSE M + 1
      BY <1>1, <3>1, FS_AddElement
    <3>3. M1 <= outages' /\ outages <= outages'
      <4>1. CASE open[w]
        BY <4>1, <2>4, <1>1, <1>2, <1>3, <3>2 DEF Opened
      <4>2. CASE ~open[w]
        BY <4>2, <2>4, <1>1, <1>2, <1>3, <3>2 DEF Opened
      <4> QED
        BY <4>1, <4>2
    <3>4. N1 = N
      BY <2>2
    <3> QED
      BY <1>1, <1>2, <1>3, <2>1, <2>2, <3>1, <3>3, <3>4
  <2> QED
    BY <1>11, <2>3, <2>4 DEF RenewError
<1>12. ASSUME NEW w \in Workers, Stop(w)
       PROVE  Goal
  <2>1. /\ key' = key /\ outages' = outages /\ Opened' = Opened /\ Holding' = Holding
    BY <1>12 DEF TypeOK, Stop, Holding, Opened
  <2> QED
    BY <2>1, <1>3, <1>6
<1>13. ASSUME NEW w \in Workers, Release(w)
       PROVE  Goal
  <2>1. /\ key' \in {0, key} /\ outages' = outages /\ w \in Holding
        /\ Opened' = Opened \ {w} /\ Holding' = Holding \ {w}
    BY <1>13 DEF TypeOK, Release, GoTo, Holding, Opened
  <2>2. N1 = N - 1 /\ M1 <= M
    BY <1>1, <2>1, FS_RemoveElement
  <2> QED
    BY <1>1, <1>2, <1>3, <2>1, <2>2
<1>14. CASE Tick
  <2>1. /\ outages' = outages /\ Opened' = Opened /\ Holding' = Holding
        /\ key > 0 => key' = key - 1
        /\ key = 0 => key' = 0
    BY <1>2, <1>14 DEF Tick, Holding, Opened
  <2>2. CASE key = 1
    <3>1. N <= M
      BY <1>1, <1>14, <2>2, ExpiryIsOpen, FS_Subset
    <3> QED
      BY <1>1, <1>2, <1>3, <2>1, <2>2, <3>1
  <2>3. CASE key # 1
    <3>1. key > 0 <=> key' > 0
      BY <1>2, <2>1, <2>3
    <3> QED
      BY <2>1, <3>1, <1>3, <1>6
  <2> QED
    BY <2>2, <2>3
<1>15. CASE UNCHANGED vars
  BY <1>15, <1>3, <1>6 DEF vars, Holding, Opened
<1> HIDE DEF Goal
<1> QED
  BY <1>7, <1>8, <1>9, <1>10, <1>11, <1>12, <1>13, <1>14, <1>15 DEF Next

LEMMA TasksEndInit == Init => TasksEnd
BY DEF Init, TasksEnd

LEMMA TasksEndNext == TypeOK /\ TasksEnd /\ [Next]_vars => TasksEnd'
<1> SUFFICES ASSUME TypeOK, TasksEnd, [Next]_vars
             PROVE  TasksEnd'
  OBVIOUS
<1> USE DEF TypeOK, TasksEnd, GoTo
<1>1. ASSUME NEW w \in Workers, Start(w) \/ Acquire(w) \/ Lose(w) \/ AcquireError(w)
      PROVE  TasksEnd'
  BY <1>1 DEF Start, Acquire, Lose, AcquireError
<1>2. ASSUME NEW w \in Workers, Renew(w) \/ RenewError(w)
      PROVE  TasksEnd'
  BY <1>2 DEF Renew, RenewError
<1>3. ASSUME NEW w \in Workers, Stop(w) \/ Release(w) \/ WorkEnds(w) \/ Die(w)
      PROVE  TasksEnd'
  BY <1>3 DEF Stop, Release, WorkEnds, Die
<1>4. CASE Tick
  BY <1>4 DEF Tick
<1>5. CASE UNCHANGED vars
  BY <1>5 DEF vars
<1> HIDE DEF TypeOK, TasksEnd, GoTo
<1> QED
  BY <1>1, <1>2, <1>3, <1>4, <1>5 DEF Next

\* start_scheduler's lock and run_exclusively's: a failure of Redis adds at
\* most one worker that runs the work, a stopped scheduler that has not exited
\* is the only other one beside the holder, and for run_exclusively there is
\* none.
THEOREM OneRunnerHolds == Spec => []OneRunner
<1>1. Init => TypeOK /\ TimeInv /\ Counted /\ TasksEnd
  BY TypeInit, TimeInit, CountedInit, TasksEndInit
<1>2. TypeOK /\ TimeInv /\ Counted /\ TasksEnd /\ [Next]_vars
        => (TypeOK /\ TimeInv /\ Counted /\ TasksEnd)'
  BY TypeNext, TimeNext, CountedNext, TasksEndNext
<1>3. TypeOK /\ Counted /\ TasksEnd => OneRunner
  <2> SUFFICES ASSUME TypeOK, Counted, TasksEnd
               PROVE  OneRunner
    OBVIOUS
  <2>1. outages \in Nat /\ key \in Nat
    BY ConstantFacts DEF TypeOK
  <2>2. Cardinality(Holding) \in Nat /\ Cardinality(Holding) <= 1 + outages
    BY <2>1, HoldingFinite DEF Counted
  <2>3. Leftover \subseteq Workers /\ IsFiniteSet(Leftover) /\ Cardinality(Leftover) \in Nat
    BY ConstantFacts, FS_Subset, FS_CardinalityType DEF Leftover
  <2>4. Holding \cap Leftover = {}
    BY DEF Holding, Leftover
  <2>5. Cardinality(Running) = Cardinality(Holding) + Cardinality(Leftover)
    <3>1. Cardinality(Holding \cup Leftover)
            = Cardinality(Holding) + Cardinality(Leftover) - Cardinality(Holding \cap Leftover)
      BY <2>3, HoldingFinite, FS_Union
    <3>2. Cardinality(Holding \cap Leftover) = 0
      BY <2>4, FS_EmptySet
    <3> QED
      BY <2>2, <2>3, <3>1, <3>2 DEF Running
  <2>6. kind = "task" => Cardinality(Leftover) = 0
    <3>1. kind = "task" => Leftover = {}
      BY DEF TasksEnd, Leftover
    <3> QED
      BY <3>1, FS_EmptySet
  <2> QED
    BY <2>1, <2>2, <2>3, <2>5, <2>6 DEF OneRunner
<1> QED
  BY <1>1, <1>2, <1>3, PTL DEF Spec
-----------------------------------------------------------------------------
(* Takeover                                                                *)

LEMMA WaitingInit == Init => Waiting
BY ConstantFacts DEF Init, Waiting, TakeoverInTime, Holding, Standby

LEMMA WaitingNext == TypeOK /\ TimeInv /\ Waiting /\ [Next]_vars => Waiting'
<1> SUFFICES ASSUME TypeOK, TimeInv, Waiting, [Next]_vars
             PROVE  Waiting'
  OBVIOUS
<1>1. /\ idle \in Nat /\ key \in 0 .. TTL /\ TTL \in Nat /\ TTL > 0
      /\ Retry \in Nat /\ Lag \in Nat /\ timer \in [Workers -> Nat]
  BY ConstantFacts DEF TypeOK
<1>2. ASSUME NEW w \in Workers, Acquire(w) \/ AcquireError(w)
      PROVE  Waiting'
  <2>1. idle' = 0 /\ \A x \in Workers : timer'[x] \in Nat
    BY <1>1, <1>2 DEF Acquire, AcquireError, GoTo
  <2> QED
    BY <1>1, <2>1 DEF Waiting, TakeoverInTime, Standby
<1>3. ASSUME idle' = idle, Holding' \subseteq Holding,
             idle > 0 => key' \in {0, key},
             \A x \in Standby' : timer'[x] \in Nat /\
               (idle <= TTL \/ (x \in Standby /\ timer'[x] = timer[x]))
      PROVE  Waiting'
  BY <1>1, <1>3 DEF Waiting, TakeoverInTime
<1>4. ASSUME NEW w \in Workers, Start(w) \/ WorkEnds(w) \/ Die(w) \/ Release(w)
      PROVE  Waiting'
  <2>1. idle' = idle /\ key' \in {0, key}
    BY <1>4 DEF Start, WorkEnds, Die, Release
  <2>2. Holding' \subseteq Holding
    BY <1>4 DEF Start, WorkEnds, Die, Release, GoTo, Holding, TypeOK
  <2>3. \A x \in Standby' : x \in Standby /\ timer'[x] = timer[x]
    BY <1>1, <1>4 DEF Start, WorkEnds, Die, Release, GoTo, Standby, TypeOK
  <2> QED
    BY <1>1, <1>3, <2>1, <2>2, <2>3 DEF Standby
<1>5. ASSUME NEW w \in Workers, Lose(w)
      PROVE  Waiting'
  <2>1. idle' = idle /\ key' = key /\ key > 0
    BY <1>5 DEF Lose
  <2>2. Holding' \subseteq Holding
    BY <1>5 DEF Lose, GoTo, Holding, TypeOK
  <2>3. idle <= TTL
    BY <1>1, <2>1 DEF Waiting
  <2>4. \A x \in Workers : timer'[x] \in Nat
    BY <1>1, <1>5 DEF Lose, GoTo
  <2>5. \A x \in Standby' : timer'[x] \in Nat
    BY <2>4 DEF Standby
  <2>6. Waiting /\ idle' = idle /\ key' = key
    BY <2>1
  <2> QED
    BY <1>1, <2>2, <2>3, <2>5, <2>6 DEF Waiting, TakeoverInTime
<1>6. ASSUME NEW w \in Workers, Renew(w) \/ RenewError(w) \/ Stop(w)
      PROVE  Waiting'
  <2>1. pc[w] = "work" /\ idle' = idle
    BY <1>6 DEF Renew, RenewError, RefreshDue, Stop
  <2>2. idle = 0
    BY <1>1, <2>1 DEF Waiting, Holding
  <2>3. \A x \in Standby' : x \in Standby /\ timer'[x] = timer[x]
    BY <1>1, <1>6, <2>1 DEF Renew, RenewError, Stop, GoTo, Standby, TypeOK
  <2>4. Holding' \subseteq Holding
    BY <1>6, <2>1 DEF Renew, RenewError, Stop, GoTo, Holding, TypeOK
  <2> QED
    BY <1>1, <1>3, <2>1, <2>2, <2>3, <2>4 DEF Standby
<1>7. CASE Tick
  <2>1. Holding' = Holding /\ Standby' = Standby
    BY <1>7 DEF Tick, Holding, Standby
  <2>2. CASE kind = "task" /\ Standby # {} /\ Holding = {}
    <3>1. idle' = idle + 1 /\ (key > 0 => key' = key - 1) /\ (key = 0 => key' = 0)
      BY <1>1, <1>7, <2>2 DEF Tick, Idle
    <3>2. \A x \in Standby : timer'[x] = timer[x] + 1 /\ timer[x] < Retry + Lag
      BY <1>7, <2>2 DEF Tick, InTime, Timed, Deadline, Standby
    <3>3. \A x \in Standby : timer'[x] + TTL >= idle'
      BY <1>1, <3>1, <3>2 DEF Waiting, Standby
    <3>4. idle' <= TTL + Retry + Lag
      <4>1. PICK x \in Standby : TRUE
        BY <2>2
      <4>2. x \in Workers
        BY DEF Standby
      <4> QED
        BY <1>1, <3>1, <3>2, <4>1, <4>2 DEF Waiting
    <3>5. key' > 0 => key' + idle' <= TTL
      BY <1>1, <3>1 DEF Waiting
    <3> QED
      BY <2>1, <2>2, <3>1, <3>3, <3>4, <3>5 DEF Waiting, TakeoverInTime
  <2>3. CASE ~(kind = "task" /\ Standby # {} /\ Holding = {})
    <3>1. idle' = 0
      BY <1>7, <2>3 DEF Tick, Idle
    <3>2. \A x \in Standby' : timer'[x] \in Nat
      BY <1>1, <1>7 DEF Tick, Standby
    <3> QED
      BY <1>1, <3>1, <3>2 DEF Waiting, TakeoverInTime
  <2> QED
    BY <2>2, <2>3
<1>8. CASE UNCHANGED vars
  BY <1>8 DEF vars, Waiting, TakeoverInTime, Holding, Standby
<1> QED
  BY <1>2, <1>4, <1>5, <1>6, <1>7, <1>8 DEF Next

\* run_exclusively: while a worker waits, nobody works for no longer than the
\* TTL and one retry.
THEOREM TakeoverHolds == Spec => []TakeoverInTime
<1>1. Init => TypeOK /\ TimeInv /\ Waiting
  BY TypeInit, TimeInit, WaitingInit
<1>2. TypeOK /\ TimeInv /\ Waiting /\ [Next]_vars => (TypeOK /\ TimeInv /\ Waiting)'
  BY TypeNext, TimeNext, WaitingNext
<1>3. Waiting => TakeoverInTime
  BY DEF Waiting
<1> QED
  BY <1>1, <1>2, <1>3, PTL DEF Spec
=============================================================================
