------------------------ MODULE SandboxSlots_proofs ------------------------
(***************************************************************************)
(* Proofs about the sandbox slots for any set of runs, any cap and any     *)
(* timing that satisfies TTLAssumption.                                    *)
(*                                                                         *)
(* Cap is not inductive: a new run is counted against the members of the   *)
(* sorted set, so the proof needs that every run that holds a slot still   *)
(* has its member, which is a fact about time.  TimeInv relates what is    *)
(* left of a lease to the time since it was last written and the           *)
(* heartbeats that failed since then.                                      *)
(***************************************************************************)
EXTENDS SandboxSlots, FiniteSetTheorems, TLAPS

\* The time m failed heartbeats can take.
Late(m) == m * (Beat + Lag)

Timed == Acquiring \cup {"hold"}

LeaseTime(r) ==
  /\ pc[r] \in {"count", "expire"} => lease[r] + timer[r] >= SlotTTL
  /\ pc[r] = "hold" =>
       /\ lease[r] + timer[r] + Late(miss[r]) >= SlotTTL - Lag
       /\ hb[r] # "sleep" => timer[r] >= Beat
       /\ hb[r] = "lock" => lease[r] + timer[r] >= SlotTTL + Beat

LockTime(r) ==
  r \in LockRuns =>
    /\ pc[r] = "sweep" => lock[r] + timer[r] >= LockTTL
    /\ pc[r] \in Acquiring => lock[r] + timer[r] >= LockTTL - Lag
    /\ pc[r] = "hold" => lock[r] + timer[r] + Late(miss[r]) >= LockTTL - 2 * Lag

TimerInv(r) ==
  /\ pc[r] \in Acquiring => timer[r] <= Lag
  /\ pc[r] \notin Timed => timer[r] = 0
  /\ pc[r] # "hold" => miss[r] = 0 /\ hb[r] = "sleep"

RunTime(r) == TimerInv(r) /\ LeaseTime(r) /\ LockTime(r)

TimeInv == \A r \in Runs : RunTime(r)

CapInv == Cap /\ LowCap

IInv == TypeOK /\ TimeInv /\ CapInv
-----------------------------------------------------------------------------
LEMMA ConstantFacts ==
  /\ SlotTTL \in Nat /\ LockTTL \in Nat /\ Beat \in Nat /\ Lag \in Nat
  /\ MaxMiss \in Nat /\ Limit \in Nat /\ Limit > 0
  /\ IsFiniteSet(Runs) /\ LowRuns \subseteq Runs /\ LockRuns \subseteq Runs
BY SlotsAssumption

\* What the proofs use of the product in Late.
LEMMA LateFacts ==
  /\ Late(0) = 0
  /\ \A m \in Nat : Late(m) \in Nat /\ Late(m + 1) = Late(m) + Beat + Lag
  /\ \A m \in 0 .. MaxMiss : /\ SlotTTL > Late(m) + Beat + 2 * Lag
                             /\ LockTTL > Late(m) + Beat + 3 * Lag
<1>1. Late(0) = 0
  BY ConstantFacts, SMT DEF Late
<1>2. ASSUME NEW m \in Nat
      PROVE  Late(m) \in Nat /\ Late(m + 1) = Late(m) + Beat + Lag
  BY ConstantFacts, SMT DEF Late
<1>3. ASSUME NEW m \in 0 .. MaxMiss
      PROVE  SlotTTL > Late(m) + Beat + 2 * Lag /\ LockTTL > Late(m) + Beat + 3 * Lag
  <2>1. m \in Nat /\ MaxMiss \in Nat /\ m <= MaxMiss /\ Beat + Lag \in Nat
    BY ConstantFacts
  <2>2. \A p \in Nat : m * p <= MaxMiss * p
    BY <2>1, SMT
  <2>3. Late(m) <= Late(MaxMiss)
    BY <2>1, <2>2 DEF Late
  <2>4. /\ SlotTTL > Lag + Late(MaxMiss + 1)
        /\ LockTTL > 2 * Lag + Late(MaxMiss + 1)
    BY TTLAssumption DEF Late
  <2>5. Late(MaxMiss + 1) = Late(MaxMiss) + Beat + Lag
    BY <2>1, <1>2
  <2> QED
    BY <2>1, <2>3, <2>4, <2>5, <1>2, ConstantFacts
<1> QED
  BY <1>1, <1>2, <1>3

\* A run that was counted, or holds, has a live lease, and its lock.
LEMMA HeldIsLive ==
  ASSUME TypeOK, TimeInv, NEW r \in Runs
  PROVE  /\ pc[r] \in {"count", "expire", "hold"} => lease[r] > 0
         /\ r \in LockRuns /\ pc[r] \in Timed => lock[r] > 0
<1>1. miss[r] \in 0 .. MaxMiss /\ timer[r] \in 0 .. Beat + Lag
      /\ lease[r] \in -1 .. SlotTTL /\ lock[r] \in 0 .. LockTTL
  BY DEF TypeOK, Absent
<1>2. TimerInv(r) /\ LeaseTime(r) /\ LockTime(r)
  BY DEF TimeInv, RunTime
<1>3. SlotTTL > Late(miss[r]) + Beat + 2 * Lag /\ LockTTL > Late(miss[r]) + Beat + 3 * Lag
      /\ Late(miss[r]) \in Nat
  BY <1>1, LateFacts, ConstantFacts
<1> QED
  BY <1>1, <1>2, <1>3, ConstantFacts DEF TimerInv, LeaseTime, LockTime, Timed, Acquiring
\* A score written Lag after the clock was read is still in the future.
LEMMA TTLBound == SlotTTL > Lag
BY LateFacts, ConstantFacts

-----------------------------------------------------------------------------
(* Type correctness.                                                       *)

LEMMA TypeInit == Init => TypeOK
BY ConstantFacts DEF Init, TypeOK, Absent

\* The leases the sweep and a ZREM leave behind are leases.
LEMMA LeaseTypes ==
  ASSUME TypeOK
  PROVE  /\ Swept \in [Runs -> Absent .. SlotTTL]
         /\ \A r \in Runs : Without(r) \in [Runs -> Absent .. SlotTTL]
BY ConstantFacts DEF TypeOK, Swept, Without, Absent

LEMMA TypeStep == TypeOK /\ TimeInv /\ [Next]_vars => TypeOK'
<1> SUFFICES ASSUME TypeOK, TimeInv, [Next]_vars
             PROVE  TypeOK'
  OBVIOUS
<1> USE ConstantFacts, LeaseTypes
<1>1. CASE Tick
  BY <1>1 DEF TypeOK, Tick, InTime, CountDown, Absent, Acquiring
<1>2. CASE Watchdog
  BY <1>2 DEF TypeOK, Watchdog
<1>3. ASSUME NEW r \in Runs,
             Begin(r) \/ Step(r) \/ Heartbeat(r) \/ Finish(r) \/ FinishOpen(r) \/ Fault(r)
      PROVE  TypeOK'
  <2>0. timer[r] \in 0 .. Beat + Lag /\ lease[r] \in -1 .. SlotTTL /\ TimerInv(r)
    BY DEF TypeOK, TimeInv, RunTime, Absent
  <2>1. CASE SweepExpired(r)
    BY <2>1 DEF TypeOK, SweepExpired, At, Acquiring
  <2>2. CASE Add(r)
    BY <2>0, TTLBound, <2>2 DEF TypeOK, Add, At, TimerInv, Acquiring, Absent
  <2>3. CASE CountReject(r)
    BY <2>3 DEF TypeOK, CountReject, At, Forget, Acquiring
  <2>4. CASE CountAccept(r)
    BY <2>4 DEF TypeOK, CountAccept, At, Acquiring
  <2>5. CASE Undo(r)
    BY <2>5 DEF TypeOK, Undo, At, Acquiring
  <2>6. CASE Expire(r)
    BY <2>6 DEF TypeOK, Expire, At, Forget, Acquiring
  <2>7. CASE Unlock(r)
    BY <2>7 DEF TypeOK, Unlock, At, Acquiring
  <2>8. CASE Release(r)
    BY <2>8 DEF TypeOK, Release, Acquiring
  <2>9. CASE Begin(r)
    BY <2>9 DEF TypeOK, Begin, At, Acquiring
  <2>10. CASE BeatCheck(r)
    <3>1. CASE lease[r] # Absent
      BY <2>10, <3>1 DEF TypeOK, BeatCheck
    <3>2. CASE lease[r] = Absent
      BY <2>10, <3>2 DEF TypeOK, BeatCheck
    <3> QED
      BY <3>1, <3>2
  <2>11. CASE BeatExtend(r)
    BY <2>11 DEF TypeOK, BeatExtend, Absent, Acquiring
  <2>12. CASE BeatLock(r)
    BY <2>12 DEF TypeOK, BeatLock, Forget, Acquiring
  <2>13. CASE BeatFail(r)
    <3>1. lease' \in [Runs -> Absent .. SlotTTL]
      BY <2>13 DEF TypeOK, BeatFail, Absent
    <3>2. miss' \in [Runs -> 0 .. MaxMiss]
      BY <2>13 DEF TypeOK, BeatFail
    <3>3. timer' \in [Runs -> 0 .. Beat + Lag] /\ hb' \in [Runs -> {"sleep", "seen", "lock"}]
      BY <2>13 DEF TypeOK, BeatFail
    <3> QED
      BY <2>13, <3>1, <3>2, <3>3 DEF TypeOK, BeatFail
  <2>14. CASE Finish(r)
    BY <2>14 DEF TypeOK, Finish, Forget, Acquiring
  <2>15. CASE FinishOpen(r)
    BY <2>15 DEF TypeOK, FinishOpen, Acquiring
  <2>16. CASE AcquireError(r)
    BY <2>0, TTLBound, <2>16 DEF TypeOK, AcquireError, Forget, TimerInv, Acquiring, Absent
  <2>17. CASE ShutdownRelease(r)
    BY <2>17 DEF TypeOK, ShutdownRelease, At, Forget, Acquiring
  <2>18. CASE Crash(r)
    BY <2>18 DEF TypeOK, Crash, Forget, Acquiring
  <2> QED
    BY <1>3, <2>1, <2>2, <2>3, <2>4, <2>5, <2>6, <2>7, <2>8, <2>9, <2>10, <2>11, <2>12, <2>13, <2>14, <2>15, <2>16, <2>17, <2>18 DEF Step, Heartbeat, Fault
<1>4. CASE UNCHANGED vars
  BY <1>4 DEF TypeOK, vars
<1> QED
  BY <1>1, <1>2, <1>3, <1>4 DEF Next
-----------------------------------------------------------------------------
(* Time.                                                                   *)

Action(r) ==
  Begin(r) \/ Step(r) \/ Heartbeat(r) \/ Finish(r) \/ FinishOpen(r) \/ Fault(r)

\* A step that is not about run q: at most a sweep of an expired lease.
Undisturbed(q) ==
  /\ pc'[q] = pc[q] /\ timer'[q] = timer[q] /\ hb'[q] = hb[q]
  /\ miss'[q] = miss[q] /\ lock'[q] = lock[q]
  /\ lease[q] # 0 => lease'[q] = lease[q]

LEMMA UndisturbedTime ==
  ASSUME TypeOK, TimeInv, NEW q \in Runs, Undisturbed(q)
  PROVE  RunTime(q)'
<1>1. RunTime(q)
  BY DEF TimeInv
<1>2. pc[q] \in {"count", "expire", "hold"} => lease'[q] = lease[q]
  BY HeldIsLive DEF Undisturbed
<1> QED
  BY <1>1, <1>2 DEF Undisturbed, RunTime, TimerInv, LeaseTime, LockTime, Timed, Acquiring

\* A step of run r disturbs no other run.
LEMMA OthersUndisturbed ==
  ASSUME TypeOK, NEW r \in Runs, Action(r), NEW q \in Runs, q # r
  PROVE  Undisturbed(q)
<1> USE DEF Undisturbed
<1>1. CASE SweepExpired(r)
  BY <1>1 DEF TypeOK, SweepExpired, At, Swept
<1>2. CASE Add(r)
  BY <1>2 DEF TypeOK, Add, At
<1>3. CASE CountReject(r)
  BY <1>3 DEF TypeOK, CountReject, At, Forget
<1>4. CASE CountAccept(r)
  BY <1>4 DEF TypeOK, CountAccept, At
<1>5. CASE Undo(r)
  BY <1>5 DEF TypeOK, Undo, At, Without
<1>6. CASE Expire(r)
  BY <1>6 DEF TypeOK, Expire, At, Forget
<1>7. CASE Unlock(r)
  BY <1>7 DEF TypeOK, Unlock, At
<1>8. CASE Release(r)
  BY <1>8 DEF TypeOK, Release, Without
<1>9. CASE Begin(r)
  BY <1>9 DEF TypeOK, Begin, At
<1>10. CASE BeatCheck(r)
  BY <1>10 DEF TypeOK, BeatCheck
<1>11. CASE BeatExtend(r)
  BY <1>11 DEF TypeOK, BeatExtend
<1>12. CASE BeatLock(r)
  BY <1>12 DEF TypeOK, BeatLock, Forget
<1>13. CASE BeatFail(r)
  BY <1>13 DEF TypeOK, BeatFail
<1>14. CASE Finish(r)
  BY <1>14 DEF TypeOK, Finish, Forget
<1>15. CASE FinishOpen(r)
  BY <1>15 DEF TypeOK, FinishOpen
<1>16. CASE AcquireError(r)
  BY <1>16 DEF TypeOK, AcquireError, Forget, Swept, Without
<1>17. CASE ShutdownRelease(r)
  BY <1>17 DEF TypeOK, ShutdownRelease, At, Forget, Without
<1>18. CASE Crash(r)
  BY <1>18 DEF TypeOK, Crash, Forget
<1> QED
  BY <1>1, <1>2, <1>3, <1>4, <1>5, <1>6, <1>7, <1>8, <1>9, <1>10, <1>11, <1>12, <1>13, <1>14, <1>15, <1>16, <1>17, <1>18 DEF Action, Step, Heartbeat, Fault

\* A step of run r keeps its own times in order.
LEMMA OwnTime ==
  ASSUME TypeOK, TimeInv, NEW r \in Runs, Action(r)
  PROVE  RunTime(r)'
<1>1. RunTime(r) /\ (pc[r] \in {"count", "expire", "hold"} => lease[r] > 0)
      /\ (r \in LockRuns /\ pc[r] \in Timed => lock[r] > 0)
  BY HeldIsLive DEF TimeInv
<1>2. /\ miss[r] \in 0 .. MaxMiss /\ timer[r] \in 0 .. Beat + Lag
      /\ lease[r] \in -1 .. SlotTTL /\ lock[r] \in 0 .. LockTTL
      /\ pc[r] \in Timed \cup {"idle", "undo", "open", "release", "cancelled", "unlock"}
      /\ hb[r] \in {"sleep", "seen", "lock"}
  BY DEF TypeOK, Absent, Timed
<1>3. Late(0) = 0 /\ Late(miss[r]) \in Nat /\ Late(miss[r] + 1) = Late(miss[r]) + Beat + Lag
  BY <1>2, LateFacts, ConstantFacts
<1> USE <1>1, <1>2, <1>3, ConstantFacts, TTLBound
<1> USE DEF RunTime, TimerInv, LeaseTime, LockTime, Timed, Acquiring
<1>4. CASE SweepExpired(r)
  BY <1>4 DEF TypeOK, SweepExpired, At, Swept
<1>5. CASE Add(r)
  BY <1>5 DEF TypeOK, Add, At
<1>6. CASE CountReject(r)
  BY <1>6 DEF TypeOK, CountReject, At, Forget
<1>7. CASE CountAccept(r)
  BY <1>7 DEF TypeOK, CountAccept, At
<1>8. CASE Undo(r)
  BY <1>8 DEF TypeOK, Undo, At, Without
<1>9. CASE Expire(r)
  BY <1>9 DEF TypeOK, Expire, At, Forget
<1>10. CASE Unlock(r)
  BY <1>10 DEF TypeOK, Unlock, At
<1>11. CASE Release(r)
  BY <1>11 DEF TypeOK, Release, Without
<1>12. CASE Begin(r)
  BY <1>12 DEF TypeOK, Begin, At
<1>13. CASE BeatCheck(r)
  <2>1. pc[r] = "hold" /\ timer[r] >= Beat /\ hb[r] = "sleep" /\ lease[r] # Absent
    BY <1>13 DEF BeatCheck, Absent
  <2>2. hb' = [hb EXCEPT ![r] = "seen"] /\ UNCHANGED <<pc, lease, lock, timer, miss>>
    BY <1>13, <2>1 DEF BeatCheck
  <2> QED
    BY <2>1, <2>2 DEF TypeOK
<1>14. CASE BeatExtend(r)
  <2>1. pc[r] = "hold" /\ hb[r] = "seen" /\ timer[r] >= Beat
    BY <1>14 DEF BeatExtend
  <2>2. lease'[r] = SlotTTL /\ hb'[r] = "lock"
    BY <1>14, <2>1 DEF BeatExtend, TypeOK, Absent
  <2>3. pc'[r] = pc[r] /\ timer'[r] = timer[r] /\ miss'[r] = miss[r] /\ lock'[r] = lock[r]
    BY <1>14 DEF BeatExtend
  <2> QED
    BY <2>1, <2>2, <2>3
<1>15. CASE BeatLock(r)
  BY <1>15 DEF TypeOK, BeatLock, Forget
<1>16. CASE BeatFail(r)
  <2>1. pc[r] = "hold" /\ timer[r] >= Beat /\ pc'[r] = "hold" /\ lock'[r] = lock[r]
    BY <1>16 DEF BeatFail
  <2>2. timer'[r] = 0 /\ miss'[r] = miss[r] + 1 /\ hb'[r] = "sleep"
    BY <1>16 DEF BeatFail, TypeOK
  <2>3. lease'[r] = lease[r] \/ lease'[r] = SlotTTL
    BY <1>16 DEF BeatFail, TypeOK
  <2>4. Late(miss'[r]) = Late(miss[r]) + Beat + Lag
    BY <2>2
  <2> QED
    BY <2>1, <2>2, <2>3, <2>4
<1>17. CASE Finish(r)
  BY <1>17 DEF TypeOK, Finish, Forget
<1>18. CASE FinishOpen(r)
  BY <1>18 DEF TypeOK, FinishOpen
<1>19. CASE AcquireError(r)
  BY <1>19 DEF TypeOK, AcquireError, Forget, Swept, Without
<1>20. CASE ShutdownRelease(r)
  BY <1>20 DEF TypeOK, ShutdownRelease, At, Forget, Without
<1>21. CASE Crash(r)
  BY <1>21 DEF TypeOK, Crash, Forget
<1> QED
  BY <1>4, <1>5, <1>6, <1>7, <1>8, <1>9, <1>10, <1>11, <1>12, <1>13, <1>14, <1>15, <1>16, <1>17, <1>18, <1>19, <1>20, <1>21 DEF Action, Step, Heartbeat, Fault
\* Time passes: what is left falls as the timer rises.
LEMMA TickTime ==
  ASSUME TypeOK, TimeInv, Tick, NEW r \in Runs
  PROVE  RunTime(r)'
<1>1. RunTime(r) /\ (pc[r] \in {"count", "expire", "hold"} => lease[r] > 0)
      /\ (r \in LockRuns /\ pc[r] \in Timed => lock[r] > 0) /\ InTime(r)
  BY HeldIsLive DEF TimeInv, Tick
<1>2. /\ miss[r] \in 0 .. MaxMiss /\ timer[r] \in 0 .. Beat + Lag
      /\ lease[r] \in -1 .. SlotTTL /\ lock[r] \in 0 .. LockTTL
  BY DEF TypeOK, Absent
<1>3. Late(miss[r]) \in Nat
  BY <1>2, LateFacts, ConstantFacts
<1>4. /\ lease'[r] = CountDown(lease[r]) /\ lock'[r] = CountDown(lock[r])
      /\ timer'[r] = IF pc[r] \in Timed THEN timer[r] + 1 ELSE timer[r]
      /\ pc'[r] = pc[r] /\ hb'[r] = hb[r] /\ miss'[r] = miss[r]
  BY DEF Tick, Timed
<1> QED
  BY <1>1, <1>2, <1>3, <1>4, ConstantFacts
  DEF RunTime, TimerInv, LeaseTime, LockTime, CountDown, Timed, Acquiring, InTime

LEMMA TimeInit == Init => TimeInv
BY LateFacts, ConstantFacts
DEF Init, TimeInv, RunTime, TimerInv, LeaseTime, LockTime, Timed, Acquiring

LEMMA TimeStep == TypeOK /\ TimeInv /\ [Next]_vars => TimeInv'
<1> SUFFICES ASSUME TypeOK, TimeInv, [Next]_vars, NEW q \in Runs
             PROVE  RunTime(q)'
  BY DEF TimeInv
<1>1. CASE Tick
  BY <1>1, TickTime
<1>2. CASE Watchdog \/ UNCHANGED vars
  <2>1. Undisturbed(q)
    BY <1>2 DEF Watchdog, vars, Undisturbed, Swept
  <2> QED
    BY <2>1, UndisturbedTime
<1>3. ASSUME NEW r \in Runs, Action(r)
      PROVE  RunTime(q)'
  BY <1>3, OwnTime, OthersUndisturbed, UndisturbedTime
<1> QED
  BY <1>1, <1>2, <1>3 DEF Next, Action
-----------------------------------------------------------------------------
(* The cap.                                                                *)

LEMMA LeasedFacts ==
  ASSUME TypeOK, TimeInv
  PROVE  /\ IsFiniteSet(Leased) /\ IsFiniteSet(Members)
         /\ Cardinality(Leased) \in Nat /\ Cardinality(Members) \in Nat
         /\ \A r \in Runs : pc[r] \in {"count", "expire", "hold"} => r \in Members
         /\ Leased \subseteq Members
<1>1. IsFiniteSet(Leased) /\ IsFiniteSet(Members)
  BY FS_Subset, ConstantFacts DEF Leased, Members
<1>2. \A r \in Runs : pc[r] \in {"count", "expire", "hold"} => r \in Members
  BY HeldIsLive DEF Members, Absent
<1> QED
  BY <1>1, <1>2, FS_CardinalityType DEF Leased

\* Counting admits r: every holder, and r itself, is among the members counted.
LEMMA AcceptHasRoom ==
  ASSUME TypeOK, TimeInv, NEW r \in Runs, CountAccept(r)
  PROVE  /\ r \notin Leased
         /\ Leased' = Leased \cup {r}
         /\ Cardinality(Leased) + 1 + FreeAfter(r) <= Limit
<1>1. pc[r] = "count" /\ pc' = [pc EXCEPT ![r] = "expire"] /\ ~CapReached(r)
  BY DEF CountAccept, At
<1>2. r \notin Leased /\ Leased' = Leased \cup {r}
  BY <1>1 DEF Leased, TypeOK
<1>3. Leased \cup {r} \in SUBSET Members
  BY <1>1, LeasedFacts
<1>4. Cardinality(Leased \cup {r}) <= Cardinality(Members)
  BY <1>3, LeasedFacts, FS_Subset
<1>5. Cardinality(Leased \cup {r}) = Cardinality(Leased) + 1
  BY <1>2, LeasedFacts, FS_AddElement
<1>6. FreeAfter(r) \in Nat
  BY DEF FreeAfter
<1>7. Cardinality(Members) <= Limit - FreeAfter(r)
  BY <1>1, <1>6, LeasedFacts, ConstantFacts DEF CapReached
<1> QED
  BY <1>2, <1>4, <1>5, <1>6, <1>7, LeasedFacts, ConstantFacts

\* Any other step leaves the holders alone or takes one away.
LEMMA OtherSteps ==
  ASSUME TypeOK, [Next]_vars, \A r \in Runs : ~CountAccept(r)
  PROVE  Leased' = Leased \/ \E r \in Leased : Leased' = Leased \ {r}
<1> USE DEF Leased
<1>1. CASE Tick \/ Watchdog \/ UNCHANGED vars
  BY <1>1 DEF Tick, Watchdog, vars
<1>2. ASSUME NEW r \in Runs, Action(r)
      PROVE  Leased' = Leased \/ \E q \in Leased : Leased' = Leased \ {q}
  <2>1. CASE Expire(r)
    BY <2>1 DEF Expire, At, TypeOK
  <2>2. CASE Heartbeat(r) \/ BeatFail(r)
    BY <2>2 DEF Heartbeat, BeatCheck, BeatExtend, BeatLock, BeatFail
  <2>3. CASE SweepExpired(r) \/ Add(r) \/ CountReject(r) \/ Undo(r) \/ Unlock(r) \/ Begin(r)
    BY <2>3 DEF SweepExpired, Add, CountReject, Undo, Unlock, Begin, At, TypeOK
  <2>4. CASE Release(r) \/ FinishOpen(r)
    BY <2>4 DEF Release, FinishOpen, TypeOK
  <2>5. CASE Finish(r) \/ ShutdownRelease(r) \/ AcquireError(r) \/ Crash(r)
    <3>1. PICK p : p \notin {"expire", "hold"} /\ pc' = [pc EXCEPT ![r] = p]
      BY <2>5 DEF Finish, ShutdownRelease, AcquireError, Crash, At
    <3>2. Leased' = Leased \ {r}
      BY <3>1 DEF TypeOK
    <3> QED
      BY <3>2
  <2> QED
    BY <1>2, <2>1, <2>2, <2>3, <2>4, <2>5 DEF Action, Step, Fault, Heartbeat
<1> QED
  BY <1>1, <1>2 DEF Next, Action
LEMMA CapInit == Init => CapInv
<1> SUFFICES ASSUME Init PROVE CapInv
  OBVIOUS
<1>1. Leased = {}
  BY DEF Init, Leased
<1> QED
  BY <1>1, FS_EmptySet, ConstantFacts DEF CapInv, Cap, LowCap

LEMMA CapStep == IInv /\ [Next]_vars => CapInv'
<1> SUFFICES ASSUME IInv, [Next]_vars
             PROVE  CapInv'
  OBVIOUS
<1> USE ConstantFacts
<1>0. TypeOK /\ TimeInv /\ Cap /\ LowCap
  BY DEF IInv, CapInv
<1>1. IsFiniteSet(Leased) /\ Cardinality(Leased) \in Nat
  BY <1>0, LeasedFacts
<1>2. IsFiniteSet(Leased \cap LowRuns) /\ Cardinality(Leased \cap LowRuns) \in Nat
      /\ Cardinality(Leased \cap LowRuns) <= Cardinality(Leased)
  BY <1>1, FS_Subset, FS_CardinalityType
<1>3. CASE \A r \in Runs : ~CountAccept(r)
  <2>1. Leased' \in SUBSET Leased
    BY <1>0, <1>3, OtherSteps
  <2>2. Cardinality(Leased') <= Cardinality(Leased) /\ Cardinality(Leased') \in Nat
    BY <2>1, <1>1, FS_Subset, FS_CardinalityType
  <2>3. Leased' \cap LowRuns \in SUBSET (Leased \cap LowRuns)
    BY <2>1
  <2>4. /\ Cardinality(Leased' \cap LowRuns) <= Cardinality(Leased \cap LowRuns)
        /\ Cardinality(Leased' \cap LowRuns) \in Nat
    BY <2>3, <1>2, FS_Subset, FS_CardinalityType
  <2> QED
    BY <2>2, <2>3, <2>4, <1>0, <1>1, <1>2 DEF CapInv, Cap, LowCap
<1>4. ASSUME NEW r \in Runs, CountAccept(r)
      PROVE  CapInv'
  <2>1. /\ r \notin Leased /\ Leased' = Leased \cup {r}
        /\ Cardinality(Leased) + 1 + FreeAfter(r) <= Limit
    BY <1>0, <1>4, AcceptHasRoom
  <2>2. Cardinality(Leased') = Cardinality(Leased) + 1
    BY <2>1, <1>1, FS_AddElement
  <2>3. CASE r \in LowRuns
    <3>1. IsFiniteSet(Leased') /\ (Leased' \cap LowRuns) \in SUBSET Leased'
      BY <2>1, <1>1, FS_AddElement
    <3>2. /\ Cardinality(Leased' \cap LowRuns) <= Cardinality(Leased')
          /\ Cardinality(Leased' \cap LowRuns) \in Nat
      BY <3>1, FS_Subset, FS_CardinalityType
    <3> QED
      BY <2>1, <2>2, <2>3, <3>2, <1>1 DEF FreeAfter, CapInv, Cap, LowCap
  <2>4. CASE r \notin LowRuns
    <3>1. Leased' \cap LowRuns = Leased \cap LowRuns
      BY <2>1, <2>4
    <3> QED
      BY <2>1, <2>2, <2>4, <3>1, <1>0, <1>1 DEF FreeAfter, CapInv, Cap, LowCap
  <2> QED
    BY <2>3, <2>4
<1> QED
  BY <1>3, <1>4
-----------------------------------------------------------------------------
(* The theorems.                                                           *)

LEMMA Inductive == Spec => []IInv
<1>1. Init => IInv
  BY TypeInit, TimeInit, CapInit DEF IInv
<1>2. IInv /\ [Next]_vars => IInv'
  BY TypeStep, TimeStep, CapStep DEF IInv
<1> QED
  BY <1>1, <1>2, PTL DEF Spec

\* Every variable of the slots keeps its type: in particular a timer never runs
\* past the next heartbeat and no score lies more than SLOT_TTL ahead.
THEOREM TypeCorrect == Spec => []TypeOK
<1>1. IInv => TypeOK
  BY DEF IInv
<1> QED
  BY <1>1, Inductive, PTL

\* acquire_slot's add-then-count never lets more than Limit leased runs into the
\* sandbox, for any number of takers, whatever fails or dies.
THEOREM CapHolds == Spec => []Cap
<1>1. IInv => Cap
  BY DEF IInv, CapInv
<1> QED
  BY <1>1, Inductive, PTL

\* acquire_slot's free_after: low priority runs never fill the sandbox.
THEOREM LowCapHolds == Spec => []LowCap
<1>1. IInv => LowCap
  BY DEF IInv, CapInv
<1> QED
  BY <1>1, Inductive, PTL

\* A run in the sandbox keeps its lease through MaxMiss failed heartbeats.
THEOREM LeaseKept == Spec => []RunningKeepsLease
<1>1. IInv => RunningKeepsLease
  BY HeldIsLive DEF IInv, RunningKeepsLease
<1> QED
  BY <1>1, Inductive, PTL

\* A run in the sandbox keeps its coordinate lock as long.
THEOREM LockKept == Spec => []RunningKeepsLock
<1>1. IInv => RunningKeepsLock
  BY HeldIsLive, ConstantFacts DEF IInv, RunningKeepsLock, Timed
<1> QED
  BY <1>1, Inductive, PTL

\* The lease protocol implements the abstract slot pool.
THEOREM ImplementsPool == Spec => PoolSpec
<1>1. Init => Pool!Init
  BY DEF Init, Pool!Init, Leased
<1>2. IInv /\ [Next]_vars => [Pool!Next]_Leased
  <2> SUFFICES ASSUME IInv, [Next]_vars
               PROVE  [Pool!Next]_Leased
    OBVIOUS
  <2>0. TypeOK /\ TimeInv
    BY DEF IInv
  <2>1. CASE \A r \in Runs : ~CountAccept(r)
    <3>1. Leased' = Leased \/ \E r \in Leased : Leased' = Leased \ {r}
      BY <2>0, <2>1, OtherSteps
    <3>2. ASSUME NEW r \in Leased, Leased' = Leased \ {r}
          PROVE  Pool!Next
      <4>1. r \in Runs /\ Pool!Leave(r)
        BY <3>2 DEF Pool!Leave, Leased
      <4> QED
        BY <4>1 DEF Pool!Next
    <3> QED
      BY <3>1, <3>2
  <2>2. ASSUME NEW r \in Runs, CountAccept(r)
        PROVE  Pool!Next
    <3>1. Pool!Cardinality(Leased) = Cardinality(Leased)
      BY DEF Pool!Cardinality, Cardinality, Pool!IsFiniteSet, IsFiniteSet
    <3>2. Pool!Grant(r)
      BY <2>0, <2>2, <3>1, AcceptHasRoom DEF Pool!Grant, Pool!HasRoom, Pool!FreeAfter, FreeAfter
    <3> QED
      BY <3>2 DEF Pool!Next
  <2> QED
    BY <2>1, <2>2
<1> QED
  BY <1>1, <1>2, Inductive, PTL DEF Spec, PoolSpec, Pool!Spec
=============================================================================
