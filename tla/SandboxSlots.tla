---------------------------- MODULE SandboxSlots ----------------------------
(***************************************************************************)
(* The sandbox slots of src/scanner/behavioral/slots.py: a Redis sorted    *)
(* set of leases, one per run, each with the time it expires.              *)
(*                                                                         *)
(* Every Redis command is one atomic step; the commands of concurrent      *)
(* takers, heartbeats and releases interleave.  A command may fail (the    *)
(* handlers catch everything) and may then have been applied or not; a     *)
(* process may die at any await.                                           *)
(*                                                                         *)
(* Time is what is left: lease[r] is the time until the score of r's       *)
(* member is in the past, so the state space is finite with no bound on    *)
(* the clock.  Tick is one unit of time for everybody.  Two bounds of the  *)
(* environment stand in its guard, Lag and MaxMiss; the code sets neither. *)
(***************************************************************************)
EXTENDS Integers, FiniteSets

CONSTANTS
  Runs,      \* run ids; a taker draws a fresh uuid
  LowRuns,   \* the runs that ask with priority "low"
  LockRuns,  \* the runs whose handle carries a coordinate lock key
  Limit,     \* max_slots()
  SlotTTL,   \* SLOT_TTL: what a lease is worth when it is written
  LockTTL,   \* _BEHAVIORAL_LOCK_TTL: what the coordinate lock is worth
  Beat,      \* HEARTBEAT_SEC
  Lag,       \* longest time one handler spends on its Redis commands
  MaxMiss    \* heartbeats in a row that may fail

ASSUME SlotsAssumption ==
  /\ IsFiniteSet(Runs)
  /\ LowRuns \subseteq Runs
  /\ LockRuns \subseteq Runs
  /\ Limit \in Nat \ {0}
  /\ {SlotTTL, LockTTL, Beat, Lag, MaxMiss} \subseteq Nat

\* What makes 600 s enough for a 120 s heartbeat: a lease survives MaxMiss
\* failed heartbeats, each of them Lag late.
ASSUME TTLAssumption ==
  /\ SlotTTL > Lag + (MaxMiss + 1) * (Beat + Lag)
  /\ LockTTL > 2 * Lag + (MaxMiss + 1) * (Beat + Lag)

VARIABLES
  pc,     \* where the run's task stands
  lease,  \* the sorted set: time left of the run's member, or Absent
  lock,   \* time left of the coordinate lock of the run, 0 = no lock
  timer,  \* time since `now` was read, or since the last heartbeat ended
  hb,     \* where the run's heartbeat stands
  miss    \* heartbeats that failed since the last good one

vars == <<pc, lease, lock, timer, hb, miss>>

Absent == -1

Members == {r \in Runs : lease[r] # Absent}

\* acquire_slot between reading the clock and its return.
Acquiring == {"sweep", "add", "count", "expire"}

TypeOK ==
  /\ pc \in [Runs -> Acquiring \cup {"idle", "undo", "hold", "open", "release",
                                     "cancelled", "unlock"}]
  /\ lease \in [Runs -> Absent .. SlotTTL]
  /\ lock \in [Runs -> 0 .. LockTTL]
  /\ timer \in [Runs -> 0 .. Beat + Lag]
  /\ hb \in [Runs -> {"sleep", "seen", "lock"}]
  /\ miss \in [Runs -> 0 .. MaxMiss]

Init ==
  /\ pc = [r \in Runs |-> "idle"]
  /\ lease = [r \in Runs |-> Absent]
  /\ lock = [r \in Runs |-> 0]
  /\ timer = [r \in Runs |-> 0]
  /\ hb = [r \in Runs |-> "sleep"]
  /\ miss = [r \in Runs |-> 0]

NoneFree(r) == 0  \* mutant of FreeAfter: low runs may take every slot
FreeAfter(r) == IF r \in LowRuns THEN 1 ELSE 0

\* ZREMRANGEBYSCORE -inf now, and ZREM of one member.
\* SweptEarly is a mutant of Swept: it also drops leases that are still live.
SweptEarly == [q \in Runs |-> IF lease[q] <= Beat THEN Absent ELSE lease[q]]
Swept == [q \in Runs |-> IF lease[q] = 0 THEN Absent ELSE lease[q]]
Without(r) == [lease EXCEPT ![r] = Absent]

At(r, here, there) == pc[r] = here /\ pc' = [pc EXCEPT ![r] = there]

\* The acquire or the heartbeat is over; its locals are gone.
Forget(r) ==
  /\ timer' = [timer EXCEPT ![r] = 0]
  /\ hb' = [hb EXCEPT ![r] = "sleep"]
  /\ miss' = [miss EXCEPT ![r] = 0]
-----------------------------------------------------------------------------
(* acquire_slot: sweep, add, count, and then undo or keep.                 *)

\* The caller has taken the coordinate lock (SET NX EX) when there is one. A
\* run id is reused only when no lease of its last use is left: a new uuid.
Begin(r) ==
  /\ lease[r] = Absent
  /\ r \in LockRuns => lock[r] = 0
  /\ Limit - FreeAfter(r) >= 1
  /\ At(r, "idle", "sweep")
  /\ lock' = [lock EXCEPT ![r] = IF r \in LockRuns THEN LockTTL ELSE @]
  /\ UNCHANGED <<lease, timer, hb, miss>>

\* `now` is read here and goes into the score that Add writes.
SweepExpired(r) ==
  /\ At(r, "sweep", "add")
  /\ lease' = Swept
  /\ timer' = [timer EXCEPT ![r] = 0]
  /\ UNCHANGED <<lock, hb, miss>>

\* A mutant of Add: the lease is the key's TTL, which every taker renews.
AddSharedTTL(r) ==
  /\ At(r, "add", "count")
  /\ lease' = [q \in Runs |-> IF q = r \/ lease[q] # Absent THEN SlotTTL ELSE Absent]
  /\ UNCHANGED <<lock, timer, hb, miss>>

Add(r) ==
  /\ At(r, "add", "count")
  /\ lease' = [lease EXCEPT ![r] = SlotTTL - timer[r]]
  /\ UNCHANGED <<lock, timer, hb, miss>>

CapReachedByOthers(r) == Cardinality(Members \ {r}) > Limit - FreeAfter(r)  \* mutant
CapReached(r) == Cardinality(Members) > Limit - FreeAfter(r)

CountReject(r) ==
  /\ CapReached(r)
  /\ At(r, "count", "undo")
  /\ Forget(r)
  /\ UNCHANGED <<lease, lock>>

CountAccept(r) ==
  /\ ~CapReached(r)
  /\ At(r, "count", "expire")
  /\ UNCHANGED <<lease, lock, timer, hb, miss>>

Undo(r) ==
  /\ At(r, "undo", "unlock")
  /\ lease' = Without(r)
  /\ UNCHANGED <<lock, timer, hb, miss>>

\* The key's own TTL is refreshed, acquire_slot returns the handle and
\* `holding` starts the heartbeat.
Expire(r) ==
  /\ At(r, "expire", "hold")
  /\ Forget(r)
  /\ UNCHANGED <<lease, lock>>

\* Any command of acquire_slot raises, applied or not: a normal taker runs
\* fail-open without a lease, a low one is refused.
AcquireError(r) ==
  /\ pc[r] \in Acquiring \cup {"undo"}
  /\ \/ UNCHANGED lease
     \/ pc[r] = "sweep" /\ lease' = Swept
     \/ pc[r] = "add" /\ lease' = [lease EXCEPT ![r] = SlotTTL - timer[r]]
     \/ pc[r] = "undo" /\ lease' = Without(r)
  /\ pc' = [pc EXCEPT ![r] = IF r \in LowRuns THEN "unlock" ELSE "open"]
  /\ Forget(r)
  /\ UNCHANGED lock

\* _release_behavioral_lock: the taker got no slot, or its run was cancelled.
Unlock(r) ==
  /\ At(r, "unlock", "idle")
  /\ lock' = [lock EXCEPT ![r] = IF r \in LockRuns THEN 0 ELSE @]
  /\ UNCHANGED <<lease, timer, hb, miss>>
-----------------------------------------------------------------------------
(* The heartbeat of a run that holds its slot (refresh_slot).              *)

\* ZSCORE; a lease that is gone is never written again.
BeatCheck(r) ==
  /\ pc[r] = "hold" /\ hb[r] = "sleep" /\ timer[r] >= Beat
  /\ IF lease[r] # Absent
       THEN hb' = [hb EXCEPT ![r] = "seen"] /\ UNCHANGED timer
       ELSE timer' = [timer EXCEPT ![r] = 0] /\ UNCHANGED hb
  /\ UNCHANGED <<pc, lease, lock, miss>>

\* Mutants of BeatExtend: the score is not moved; the TTL goes on top of it.
BeatExtendNothing(r) ==
  /\ pc[r] = "hold" /\ hb[r] = "seen"
  /\ hb' = [hb EXCEPT ![r] = "lock"]
  /\ UNCHANGED <<pc, lease, lock, timer, miss>>

BeatExtendOnTop(r) ==
  /\ pc[r] = "hold" /\ hb[r] = "seen"
  /\ lease' = [lease EXCEPT ![r] = IF @ = Absent THEN Absent ELSE @ + SlotTTL]
  /\ hb' = [hb EXCEPT ![r] = "lock"]
  /\ UNCHANGED <<pc, lock, timer, miss>>

\* ZADD XX: only a member that is still there is extended.
BeatExtend(r) ==
  /\ pc[r] = "hold" /\ hb[r] = "seen"
  /\ lease' = [lease EXCEPT ![r] = IF @ = Absent THEN Absent ELSE SlotTTL]
  /\ hb' = [hb EXCEPT ![r] = "lock"]
  /\ UNCHANGED <<pc, lock, timer, miss>>

\* A mutant of BeatLock: refresh_slot without lock_ttl.
BeatLockNothing(r) ==
  /\ pc[r] = "hold" /\ hb[r] = "lock"
  /\ Forget(r)
  /\ UNCHANGED <<pc, lease, lock>>

\* EXPIRE of the coordinate lock, a no-op on a key that is gone.
BeatLock(r) ==
  /\ pc[r] = "hold" /\ hb[r] = "lock"
  /\ lock' = [lock EXCEPT ![r] = IF r \in LockRuns /\ @ > 0 THEN LockTTL ELSE @]
  /\ Forget(r)
  /\ UNCHANGED <<pc, lease>>

\* A command of refresh_slot raises; the next attempt is a period later.
BeatFail(r) ==
  /\ pc[r] = "hold" /\ timer[r] >= Beat /\ miss[r] < MaxMiss
  /\ \/ UNCHANGED lease
     \/ hb[r] = "seen" /\ lease[r] # Absent /\ lease' = [lease EXCEPT ![r] = SlotTTL]
  /\ hb' = [hb EXCEPT ![r] = "sleep"]
  /\ timer' = [timer EXCEPT ![r] = 0]
  /\ miss' = [miss EXCEPT ![r] = @ + 1]
  /\ UNCHANGED <<pc, lock>>
-----------------------------------------------------------------------------
(* The end of a run.                                                       *)

\* The body of `holding` returns, raises or is cancelled: the heartbeat stops.
Finish(r) ==
  /\ pc[r] = "hold"
  /\ pc' \in {[pc EXCEPT ![r] = "release"], [pc EXCEPT ![r] = "cancelled"]}
  /\ Forget(r)
  /\ UNCHANGED <<lease, lock>>

\* release_slot: ZREM of our own member, or an error that leaves it there. The
\* coordinate lock is freed by a cancelled run only.
Release(r) ==
  /\ pc[r] \in {"release", "cancelled"}
  /\ pc' = [pc EXCEPT ![r] = IF @ = "release" THEN "idle" ELSE "unlock"]
  /\ lease' \in {lease, Without(r)}
  /\ UNCHANGED <<lock, timer, hb, miss>>

\* A run without a lease ends: release_slot does nothing.
FinishOpen(r) ==
  /\ pc[r] = "open"
  /\ pc' \in {[pc EXCEPT ![r] = "idle"], [pc EXCEPT ![r] = "unlock"]}
  /\ UNCHANGED <<lease, lock, timer, hb, miss>>

\* shutdown() releases what is still in _HELD after its timeout, although the
\* run (a forced one, which is no task of _RUN_TASKS) may still be going.
ShutdownRelease(r) ==
  /\ At(r, "hold", "open")
  /\ lease' = Without(r)
  /\ Forget(r)
  /\ UNCHANGED lock

\* The container is killed: nothing is given back.
Crash(r) ==
  /\ pc[r] # "idle"
  /\ pc' = [pc EXCEPT ![r] = "idle"]
  /\ Forget(r)
  /\ UNCHANGED <<lease, lock>>

\* slot_holders, which the queue loop's watchdog calls on every pass.
Watchdog ==
  /\ lease' = Swept
  /\ UNCHANGED <<pc, lock, timer, hb, miss>>
-----------------------------------------------------------------------------
InTime(r) ==
  /\ pc[r] \in Acquiring => timer[r] < Lag
  /\ pc[r] = "hold" => timer[r] < Beat + Lag

CountDown(left) == IF left > 0 THEN left - 1 ELSE left

Tick ==
  /\ \A r \in Runs : InTime(r)
  /\ lease' = [r \in Runs |-> CountDown(lease[r])]
  /\ lock' = [r \in Runs |-> CountDown(lock[r])]
  /\ timer' = [r \in Runs |-> IF pc[r] \in Acquiring \cup {"hold"}
                                THEN timer[r] + 1 ELSE timer[r]]
  /\ UNCHANGED <<pc, hb, miss>>

\* What a live task does next by itself.
Step(r) ==
  \/ SweepExpired(r) \/ Add(r) \/ CountReject(r) \/ CountAccept(r) \/ Undo(r)
  \/ Expire(r) \/ Unlock(r) \/ Release(r)

Heartbeat(r) == BeatCheck(r) \/ BeatExtend(r) \/ BeatLock(r)

Fault(r) == AcquireError(r) \/ BeatFail(r) \/ ShutdownRelease(r) \/ Crash(r)

Next ==
  \/ Tick
  \/ Watchdog
  \/ \E r \in Runs : Begin(r) \/ Step(r) \/ Heartbeat(r) \/ Finish(r)
                       \/ FinishOpen(r) \/ Fault(r)

Spec == Init /\ [][Next]_vars

\* The event loop runs what is ready, time passes, the queue loop makes its
\* pass. Nothing forces a run to end, a caller to come or a fault to happen.
Fairness ==
  /\ WF_vars(Tick)
  /\ WF_vars(Watchdog)
  /\ \A r \in Runs : WF_vars(Step(r)) /\ WF_vars(Heartbeat(r))

FairSpec == Spec /\ Fairness
-----------------------------------------------------------------------------
\* The runs that are in, or entitled to enter, the sandbox with a lease.
Leased == {r \in Runs : pc[r] \in {"expire", "hold"}}

\* "Add-then-count keeps the cap exact under races" (slots.py): however many
\* takers interleave their four commands with expiry, heartbeats and failures,
\* no more than Limit runs hold a lease.
Cap == Cardinality(Leased) <= Limit

\* acquire_slot's free_after: low priority runs never hold every slot, also
\* when several of them count at the same moment.
LowCap == Leased \cap LowRuns # {} => Cardinality(Leased \cap LowRuns) < Limit

\* refresh_slot: a run that is in the sandbox never loses its lease, although
\* its heartbeat is periodic, late and may fail MaxMiss times in a row.
RunningKeepsLease == \A r \in Runs : pc[r] = "hold" => lease[r] > 0

\* refresh_slot with lock_ttl: the coordinate lock outlives the run, so nobody
\* starts a second run of the coordinate while a leased one is going.
RunningKeepsLock == \A r \in LockRuns : pc[r] = "hold" => lock[r] > 0

\* The reason for leases ("Sandbox slots that cannot leak"): what a dead holder,
\* a lost release or a failed acquire left behind is freed, whatever traffic
\* of takers goes on meanwhile.
LeftoverFreed == \A r \in Runs : (pc[r] = "idle" /\ lease[r] # Absent)
                                    ~> lease[r] = Absent

\* The leases implement the slot pool: each step grants, gives back or leaves
\* alone one slot of the abstract pool.
Pool == INSTANCE SlotPool WITH holders <- Leased
PoolSpec == Pool!Spec
=============================================================================
