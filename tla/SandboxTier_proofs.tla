------------------------- MODULE SandboxTier_proofs -------------------------
(***************************************************************************)
(* Theorems about SandboxTier, for any number of tasks and coordinates:    *)
(* type correctness, one background run per coordinate, no held lock       *)
(* without a task under it, every slot with its run, and the bounds of the *)
(* sandbox and the queue.                                                  *)
(*                                                                         *)
(* The invariant ties each held lock to exactly one owner.  An owner hands *)
(* its lock to the run it starts, gives it back, or leaves it to its TTL;  *)
(* every other step keeps owners and locks as they are.                    *)
(*                                                                         *)
(* Slots are easier: a run has one from its launch to its end, and every   *)
(* step of the tier is one of SlotPool, whose bound is then the sandbox's. *)
(***************************************************************************)
EXTENDS SandboxTier, SequenceTheorems, FiniteSetTheorems, TLAPS

\* A task past its start has its locals, and a loop over the excess has some left.
JobInv ==
  \A t \in Tasks : /\ pc[t] \notin {"idle", "peek", "dead"} => job[t] # NoJob
                   /\ pc[t] = "drop" => job[t].excess > 0

OwnerHolds == \A t \in Tasks : OwnsLock(t) => lock[Coord(t)] = "held"

OneOwner ==
  \A t, u \in Tasks : OwnsLock(t) /\ OwnsLock(u) /\ Coord(t) = Coord(u) => t = u

LockInv == OwnerHolds /\ OneOwner /\ HeldLockHasOwner

Inv == TypeOK /\ JobInv /\ LockInv

-----------------------------------------------------------------------------
(* Facts about the operators.                                              *)

LEMMA WithoutType ==
  ASSUME NEW band \in Seq(Coords), NEW c
  PROVE  Without(band, c) \in Seq(Coords)
<1>1. CASE Contains(band, c)
  <2> DEFINE i == CHOOSE j \in DOMAIN band : band[j] = c
  <2>1. i \in 1 .. Len(band)
    BY <1>1 DEF Contains
  <2> HIDE DEF i
  <2>2. SubSeq(band, 1, i - 1) \in Seq(Coords) /\ SubSeq(band, i + 1, Len(band)) \in Seq(Coords)
    BY <2>1
  <2> QED
    BY <1>1, <2>2 DEF Without, RemoveAt, i
<1>2. CASE ~Contains(band, c)
  BY <1>2 DEF Without
<1> QED
  BY <1>1, <1>2

LEMMA AfterPlaces ==
  \A t, outcome : After(t, outcome) \in {"idle", "zrem", "hget"}
BY DEF After

LEMMA QueueFacts ==
  ASSUME TypeOK
  PROVE  /\ queue["normal"] \in Seq(Coords) /\ queue["low"] \in Seq(Coords)
         /\ QueueLength \in Nat
         /\ QueueLength # 0 => queue[LowestBand] # <<>>
         /\ LowestBand \in Priorities
BY DEF TypeOK, Priorities, QueueLength, LowestBand

\* Control: where the tasks stand, and their locals.
Control ==
  /\ pc \in [Tasks -> Places]
  /\ job \in [Tasks -> Jobs \cup {NoJob}]
  /\ JobInv

LEMMA Facts ==
  ASSUME TypeOK, JobInv
  PROVE  /\ Control
         /\ \A t \in Tasks : pc[t] \notin {"idle", "peek", "dead"} => job[t] \in Jobs /\ Coord(t) \in Coords
         /\ NoJob \notin Jobs
         /\ Runs \subseteq Tasks /\ Loop \in Tasks /\ Handlers \subseteq Tasks
         /\ MaxVersion \in Nat \ {0} /\ MaxAsks \in Nat /\ MaxFaults \in Nat /\ QueueMax \in Nat
BY TierAssumption DEF TypeOK, Control, JobInv, Tasks, Coord, Jobs

-----------------------------------------------------------------------------
(* Control is kept by every way a task moves.                              *)

LEMMA MoveControl ==
  ASSUME Control, NEW t \in Tasks, NEW p \in Places, NEW j \in Jobs \cup {NoJob},
         pc' = [pc EXCEPT ![t] = p], job' = [job EXCEPT ![t] = j],
         p \notin {"idle", "peek", "dead"} => j # NoJob,
         p = "drop" => j.excess > 0
  PROVE  Control'
BY DEF Control, JobInv

LEMMA GotoControl ==
  ASSUME Control, NEW t \in Tasks, NEW p \in Places \ {"drop"},
         pc[t] \notin {"idle", "peek", "dead"}, Goto(t, p)
  PROVE  Control'
<1>1. job[t] # NoJob /\ job[t] \in Jobs \cup {NoJob}
  BY DEF Control, JobInv
<1> QED
  BY <1>1, MoveControl DEF Goto

LEMMA AtControl ==
  ASSUME Control, NEW t \in Tasks, NEW p \in Places \ {"drop"},
         pc[t] \notin {"idle", "peek", "dead"}, pc' = [pc EXCEPT ![t] = p], UNCHANGED job
  PROVE  Control'
BY DEF Control, JobInv

\* A request enters with a fresh job.
LEMMA EnterControl ==
  ASSUME Control, NEW t \in Tasks, NEW p \in Places \ {"drop"}, NEW j \in Jobs,
         Enter(t, p, j), NoJob \notin Jobs
  PROVE  Control'
BY MoveControl DEF Enter

LEMMA NewJobType ==
  ASSUME NEW c \in Coords, NEW p \in Priorities, NEW f \in BOOLEAN,
         NEW v \in {"request", "trigger", "backfill", "drain", "run"}
  PROVE  NewJob(c, p, f, v) \in Jobs
BY TierAssumption DEF NewJob, Jobs

LEMMA LaunchControl ==
  ASSUME TypeOK, JobInv, NEW t \in Tasks, NEW r \in Runs, NEW prio,
         NEW place \in {"run", "inline"}, NEW there \in Places \ {"drop"},
         pc[t] \notin {"idle", "peek", "dead"}, Launch(t, r, prio, place, there)
  PROVE  Control'
<1> DEFINE j == [job[t] EXCEPT !.via = "run", !.force = FALSE, !.ver = version[Coord(t)]]
           k == IF there = "idle" THEN NoJob ELSE job[t]
<1>1. r \in Tasks /\ r # t /\ job[t] \in Jobs /\ Coord(t) \in Coords /\ NoJob \notin Jobs
  BY Facts DEF Launch
<1>2. version[Coord(t)] \in 0 .. MaxVersion
  BY <1>1, Facts DEF TypeOK
<1>3. j \in Jobs
  BY <1>1, <1>2 DEF Jobs
<1>4. k \in Jobs \cup {NoJob} /\ (there # "idle" => k # NoJob)
  BY <1>1
<1>5. /\ pc' = [pc EXCEPT ![r] = place, ![t] = there]
      /\ job' = [job EXCEPT ![r] = j, ![t] = k]
  BY <1>1 DEF Launch, TypeOK
<1>6. Control /\ place \in Places
  BY Facts DEF Places
<1> HIDE DEF j, k
<1> QED
  BY <1>1, <1>3, <1>4, <1>5, <1>6 DEF Control, JobInv

\* Requests and triggers.
LEMMA AskControl ==
  ASSUME TypeOK, JobInv, NEW t \in Handlers, Ask(t)
  PROVE  Control'
<1>1. PICK c \in Coords, p \in Priorities :
        \/ Enter(t, "forced", NewJob(c, "normal", TRUE, "request"))
        \/ Enter(t, "lock", NewJob(c, p, FALSE, "request"))
        \/ Enter(t, "start", NewJob(c, p, FALSE, "trigger"))
        \/ Enter(t, "start", NewJob(c, "normal", FALSE, "trigger"))
  BY DEF Ask, ForceRerun, WatchMissing, View, ScanChange, Priorities
<1>2. "normal" \in Priorities
  BY DEF Priorities
<1>3. {"forced", "lock", "start"} \subseteq Places \ {"drop"}
  BY DEF Places
<1> QED
  BY <1>1, <1>2, <1>3, NewJobType, EnterControl, Facts

\* _start_behavioral_payload.
LEMMA StartControl ==
  ASSUME TypeOK, JobInv, NEW t \in Tasks,
         \/ CheckCache(t) \/ TakeLock(t) \/ FindLocked(t) \/ FindNoSlot(t) \/ Unlock(t)
         \/ QueueForced(t)
         \/ \E r \in Runs : StartRun(t, r) \/ StartInline(t, r)
  PROVE  Control'
<1>1. \A o : After(t, o) \in Places \ {"drop"}
  BY AfterPlaces DEF Places
<1>2. {"lock", "slot", "unlock", "hget", "idle"} \subseteq Places \ {"drop"}
  BY DEF Places
<1>3. CASE CheckCache(t)
  BY <1>1, <1>2, <1>3, GotoControl, Facts DEF CheckCache
<1>4. CASE TakeLock(t) \/ FindLocked(t) \/ Unlock(t)
  BY <1>1, <1>2, <1>4, GotoControl, Facts DEF TakeLock, FindLocked, Unlock
<1>5. CASE FindNoSlot(t) \/ QueueForced(t)
  BY <1>2, <1>5, AtControl, Facts DEF FindNoSlot, QueueForced, At
<1>6. CASE \E r \in Runs : StartRun(t, r) \/ StartInline(t, r)
  <2>1. PICK r \in Runs : StartRun(t, r) \/ StartInline(t, r)
    BY <1>6
  <2>2. CASE StartRun(t, r)
    BY <1>1, <2>2, LaunchControl DEF StartRun
  <2>3. CASE StartInline(t, r)
    BY <1>2, <2>3, LaunchControl DEF StartInline
  <2> QED
    BY <2>1, <2>2, <2>3
<1> QED
  BY <1>3, <1>4, <1>5, <1>6

\* enqueue.
LEMMA EnqueueControl ==
  ASSUME TypeOK, JobInv, NEW t \in Tasks,
         ReadPayload(t) \/ WritePayload(t) \/ AddMember(t) \/ CheckBound(t) \/ DropOne(t)
  PROVE  Control'
<1>1. Control /\ NoJob \notin Jobs
  BY Facts
<1>2. CASE ReadPayload(t)
  <2> DEFINE j == [job[t] EXCEPT !.force = @ \/ payload[Coord(t)] = "force"]
  <2>1. job[t] \in Jobs
    BY <1>2, Facts DEF ReadPayload, At
  <2>2. j \in Jobs
    BY <2>1 DEF Jobs
  <2>3. pc' = [pc EXCEPT ![t] = "hset"] /\ job' = [job EXCEPT ![t] = j] /\ "hset" \in Places
    BY <1>2 DEF ReadPayload, At, Places
  <2> HIDE DEF j
  <2> QED
    BY <1>1, <2>2, <2>3, MoveControl
<1>3. CASE WritePayload(t) \/ AddMember(t)
  BY <1>1, <1>3, AtControl DEF WritePayload, AddMember, At, Places
<1>4. CASE CheckBound(t)
  <2>1. job[t] \in Jobs /\ QueueLength \in Nat /\ QueueMax \in Nat
    BY <1>4, Facts, QueueFacts DEF CheckBound
  <2>2. CASE QueueLength > QueueMax
    <3> DEFINE j == [job[t] EXCEPT !.excess = QueueLength - QueueMax]
    <3>1. j \in Jobs /\ j.excess > 0
      BY <2>1, <2>2 DEF Jobs
    <3>2. pc' = [pc EXCEPT ![t] = "drop"] /\ job' = [job EXCEPT ![t] = j] /\ "drop" \in Places
      BY <1>4, <2>2 DEF CheckBound, Places
    <3> HIDE DEF j
    <3> QED
      BY <1>1, <3>1, <3>2, MoveControl
  <2>3. CASE ~(QueueLength > QueueMax)
    BY <1>1, <1>4, <2>3, GotoControl DEF CheckBound, Places
  <2> QED
    BY <2>2, <2>3
<1>5. CASE DropOne(t)
  <2>1. job[t] \in Jobs /\ pc[t] = "drop" /\ job[t].excess > 0
    BY <1>5, Facts DEF DropOne, JobInv
  <2>2. CASE QueueLength = 0 \/ job[t].excess = 1
    BY <1>1, <1>5, <2>2, GotoControl DEF DropOne, Places
  <2>3. CASE ~(QueueLength = 0 \/ job[t].excess = 1)
    <3> DEFINE j == [job[t] EXCEPT !.excess = @ - 1]
    <3>1. j \in Jobs /\ j.excess > 0
      BY <2>1, <2>3 DEF Jobs
    <3>2. pc' = [pc EXCEPT ![t] = "drop"] /\ job' = [job EXCEPT ![t] = j] /\ "drop" \in Places
      BY <1>1, <1>5, <2>1, <2>3 DEF DropOne, Places, Control
    <3> HIDE DEF j
    <3> QED
      BY <1>1, <3>1, <3>2, MoveControl
  <2> QED
    BY <2>2, <2>3
<1> QED
  BY <1>2, <1>3, <1>4, <1>5

\* drain.
LEMMA DrainControl ==
  ASSUME TypeOK, JobInv, NEW t \in Tasks,
         Peek(t) \/ Load(t) \/ RemoveMember(t) \/ RemovePayload(t)
  PROVE  Control'
<1>1. Control /\ NoJob \notin Jobs
  BY Facts
<1>2. CASE Peek(t)
  <2>1. CASE QueueLength = 0
    BY <1>1, <1>2, <2>1, MoveControl DEF Peek, Goto, Places
  <2>2. CASE QueueLength # 0
    <3> DEFINE band == IF queue["normal"] # <<>> THEN "normal" ELSE "low"
               j == NewJob(Head(queue[band]), band, FALSE, "drain")
    <3>1. Head(queue[band]) \in Coords /\ band \in Priorities
      BY <2>2, QueueFacts DEF QueueLength, Priorities
    <3>2. j \in Jobs
      BY <3>1, NewJobType
    <3>3. pc' = [pc EXCEPT ![t] = "load"] /\ job' = [job EXCEPT ![t] = j] /\ "load" \in Places
      BY <1>2, <2>2 DEF Peek, Places
    <3> HIDE DEF j
    <3> QED
      BY <1>1, <3>2, <3>3, MoveControl
  <2> QED
    BY <2>1, <2>2
<1>3. CASE Load(t)
  <2> DEFINE j == [job[t] EXCEPT !.force = payload[Coord(t)] = "force"]
             p == IF payload[Coord(t)] = "none" THEN "zrem" ELSE "start"
  <2>1. job[t] \in Jobs
    BY <1>3, Facts DEF Load, At
  <2>2. j \in Jobs
    BY <2>1 DEF Jobs
  <2>3. pc' = [pc EXCEPT ![t] = p] /\ job' = [job EXCEPT ![t] = j] /\ p \in Places /\ p # "drop"
    BY <1>3 DEF Load, At, Places
  <2> HIDE DEF j, p
  <2> QED
    BY <1>1, <2>2, <2>3, MoveControl
<1>4. CASE RemoveMember(t)
  BY <1>1, <1>4, AtControl DEF RemoveMember, At, Places
<1>5. CASE RemovePayload(t)
  BY <1>1, <1>5, MoveControl DEF RemovePayload, At, Places
<1> QED
  BY <1>2, <1>3, <1>4, <1>5

\* Runs, cancellation, crashes and expiry.
LEMMA RunControl ==
  ASSUME TypeOK, JobInv, NEW r \in Runs, RunStep(r) \/ Cancel(r) \/ LeaseExpire(r)
  PROVE  Control'
<1>1. Control /\ r \in Tasks
  BY Facts
<1>2. CASE EndRun(r)
  BY <1>1, <1>2, AtControl DEF EndRun, At, Places
<1>3. CASE LeaveSlot(r)
  BY <1>1, <1>3, MoveControl DEF LeaveSlot, At, Places
<1>4. CASE ReturnInline(r) \/ LeaseExpire(r)
  BY <1>1, <1>4, MoveControl DEF ReturnInline, LeaseExpire, Goto, Places
<1>5. CASE CancelUnlock(r) \/ Cancel(r)
  BY <1>1, <1>5, AtControl DEF CancelUnlock, Cancel, At, Places
<1> QED
  BY <1>2, <1>3, <1>4, <1>5 DEF RunStep

LEMMA CrashControl ==
  ASSUME TypeOK, JobInv, NEW t \in Tasks, Crash(t)
  PROVE  Control'
<1>1. Control /\ pc[t] \in Places /\ {"dead", "idle"} \subseteq Places \ {"drop"}
  BY Facts DEF Control, Places
<1>2. CASE t \in holders
  BY <1>1, <1>2 DEF Crash, Control, JobInv
<1>3. CASE t \notin holders
  BY <1>1, <1>3, MoveControl DEF Crash, Goto
<1> QED
  BY <1>2, <1>3

LEMMA ControlInit == Init => Control
BY DEF Init, Control, JobInv, Places

-----------------------------------------------------------------------------
(* Locks and their owners.                                                 *)

Owning == {"slot", "unlock", "run", "leave", "cunlock"}

\* A task moves and neither takes nor gives up a lock.
LEMMA MoveLocks ==
  ASSUME TypeOK, LockInv, NEW t \in Tasks, NEW p,
         pc' = [pc EXCEPT ![t] = p], UNCHANGED lock,
         \A u \in Tasks \ {t} : job'[u] = job[u],
         \/ pc[t] \notin Owning /\ p \notin Owning
         \/ pc[t] \in Owning /\ p \in Owning /\ job'[t] = job[t]
  PROVE  LockInv'
<1>1. \A u \in Tasks : OwnsLock(u)' = OwnsLock(u)
  BY DEF OwnsLock, Owning, TypeOK
<1>2. \A u \in Tasks : OwnsLock(u) => Coord(u)' = Coord(u)
  BY DEF OwnsLock, Owning, Coord, TypeOK
<1>3. OwnerHolds'
  <2> SUFFICES ASSUME NEW u \in Tasks, OwnsLock(u)'
               PROVE  lock'[Coord(u)'] = "held"
    BY DEF OwnerHolds
  <2>1. OwnsLock(u) /\ Coord(u)' = Coord(u)
    BY <1>1, <1>2
  <2> QED
    BY <2>1 DEF LockInv, OwnerHolds
<1>4. OneOwner'
  <2> SUFFICES ASSUME NEW u \in Tasks, NEW v \in Tasks,
                      OwnsLock(u)', OwnsLock(v)', Coord(u)' = Coord(v)'
               PROVE  u = v
    BY DEF OneOwner
  <2>1. OwnsLock(u) /\ OwnsLock(v) /\ Coord(u)' = Coord(u) /\ Coord(v)' = Coord(v)
    BY <1>1, <1>2
  <2> QED
    BY <2>1 DEF LockInv, OneOwner
<1>5. HeldLockHasOwner'
  <2> SUFFICES ASSUME NEW c \in Coords, lock'[c] = "held"
               PROVE  \E u \in Tasks : OwnsLock(u)' /\ Coord(u)' = c
    BY DEF HeldLockHasOwner
  <2>1. PICK u \in Tasks : OwnsLock(u) /\ Coord(u) = c
    BY DEF LockInv, HeldLockHasOwner
  <2> QED
    BY <1>1, <1>2, <2>1
<1> QED
  BY <1>3, <1>4, <1>5 DEF LockInv

\* An owner gives its lock back, or leaves it to its TTL.
LEMMA GiveUpLocks ==
  ASSUME TypeOK, LockInv, NEW t \in Tasks, NEW p, NEW x,
         OwnsLock(t), Coord(t) \in Coords, p \notin Owning, x # "held",
         pc' = [pc EXCEPT ![t] = p],
         lock' = [lock EXCEPT ![Coord(t)] = x],
         \A u \in Tasks \ {t} : job'[u] = job[u]
  PROVE  LockInv'
<1>1. ~OwnsLock(t)'
  BY DEF OwnsLock, Owning, TypeOK
<1>2. \A u \in Tasks \ {t} : /\ OwnsLock(u)' <=> OwnsLock(u)
                             /\ Coord(u)' = Coord(u)
                             /\ OwnsLock(u) => Coord(u) # Coord(t)
  BY DEF OwnsLock, Coord, TypeOK, LockInv, OneOwner
<1>3. lock'[Coord(t)] # "held" /\ \A c \in Coords \ {Coord(t)} : lock'[c] = lock[c]
  BY DEF TypeOK
<1>4. OwnerHolds'
  <2> SUFFICES ASSUME NEW u \in Tasks, OwnsLock(u)'
               PROVE  lock'[Coord(u)'] = "held"
    BY DEF OwnerHolds
  <2>1. u # t /\ OwnsLock(u) /\ Coord(u)' = Coord(u) /\ Coord(u) # Coord(t)
    BY <1>1, <1>2
  <2>2. lock[Coord(u)] = "held"
    BY <2>1 DEF LockInv, OwnerHolds
  <2> QED
    BY <2>1, <2>2 DEF TypeOK
<1>5. OneOwner'
  BY <1>1, <1>2 DEF LockInv, OneOwner
<1>6. HeldLockHasOwner'
  <2> SUFFICES ASSUME NEW c \in Coords, lock'[c] = "held"
               PROVE  \E u \in Tasks : OwnsLock(u)' /\ Coord(u)' = c
    BY DEF HeldLockHasOwner
  <2>1. c # Coord(t) /\ lock[c] = "held"
    BY <1>3
  <2>2. PICK u \in Tasks : OwnsLock(u) /\ Coord(u) = c
    BY <2>1 DEF LockInv, HeldLockHasOwner
  <2> QED
    BY <1>2, <2>1, <2>2
<1> QED
  BY <1>4, <1>5, <1>6 DEF LockInv

LEMMA TakeLocks ==
  ASSUME TypeOK, LockInv, NEW t \in Tasks, Coord(t) \in Coords, TakeLock(t)
  PROVE  LockInv'
<1>1. /\ pc[t] = "lock" /\ lock[Coord(t)] = "free"
      /\ pc' = [pc EXCEPT ![t] = "slot"] /\ lock' = [lock EXCEPT ![Coord(t)] = "held"]
      /\ job' = job
  BY DEF TakeLock, Goto, TypeOK
<1>2. OwnsLock(t)' /\ \A u \in Tasks \ {t} : OwnsLock(u)' = OwnsLock(u)
  BY <1>1 DEF OwnsLock, TypeOK
<1>3. \A u \in Tasks : Coord(u)' = Coord(u)
  BY <1>1 DEF Coord
<1>4. \A u \in Tasks : OwnsLock(u) => lock[Coord(u)] = "held" /\ Coord(u) # Coord(t)
  BY <1>1 DEF LockInv, OwnerHolds
<1>5. lock'[Coord(t)] = "held" /\ \A c \in Coords \ {Coord(t)} : lock'[c] = lock[c]
  BY <1>1 DEF TypeOK
<1>6. OwnerHolds'
  <2> SUFFICES ASSUME NEW u \in Tasks, OwnsLock(u)'
               PROVE  lock'[Coord(u)'] = "held"
    BY DEF OwnerHolds
  <2>1. CASE u = t
    BY <1>3, <1>5, <2>1
  <2>2. CASE u # t
    <3>1. Coord(u)' = Coord(u) /\ Coord(u) # Coord(t) /\ lock[Coord(u)] = "held"
      BY <1>2, <1>3, <1>4, <2>2
    <3> QED
      BY <1>1, <3>1 DEF TypeOK
  <2> QED
    BY <2>1, <2>2
<1>7. OneOwner'
  <2> SUFFICES ASSUME NEW u \in Tasks, NEW v \in Tasks,
                      OwnsLock(u)', OwnsLock(v)', Coord(u)' = Coord(v)'
               PROVE  u = v
    BY DEF OneOwner
  <2>1. Coord(u) = Coord(v)
    BY <1>3
  <2>2. (u = t \/ OwnsLock(u)) /\ (v = t \/ OwnsLock(v))
    BY <1>2
  <2> QED
    BY <1>4, <2>1, <2>2 DEF LockInv, OneOwner
<1>8. HeldLockHasOwner'
  <2> SUFFICES ASSUME NEW c \in Coords, lock'[c] = "held"
               PROVE  \E u \in Tasks : OwnsLock(u)' /\ Coord(u)' = c
    BY DEF HeldLockHasOwner
  <2>1. CASE c = Coord(t)
    BY <1>2, <1>3, <2>1
  <2>2. CASE c # Coord(t)
    <3>1. PICK u \in Tasks : OwnsLock(u) /\ Coord(u) = c
      BY <1>5, <2>2 DEF LockInv, HeldLockHasOwner
    <3> QED
      BY <1>1, <1>2, <1>3, <3>1, <2>2
  <2> QED
    BY <2>1, <2>2
<1> QED
  BY <1>6, <1>7, <1>8 DEF LockInv

\* A starter hands its lock to the run it starts.
LEMMA HandOverLocks ==
  ASSUME TypeOK, JobInv, LockInv, NEW t \in Tasks, NEW r \in Runs, StartRun(t, r)
  PROVE  LockInv'
<1>1. /\ r \in Tasks /\ job[t] \in Jobs /\ pc[t] = "slot" /\ pc[r] = "idle"
  BY Facts DEF StartRun, Launch
<1>2. r # t /\ OwnsLock(t) /\ ~OwnsLock(r)
  BY <1>1 DEF OwnsLock
<1>3. After(t, "started") \notin Owning
  BY AfterPlaces DEF Owning
<1>4. /\ pc' = [pc EXCEPT ![r] = "run", ![t] = After(t, "started")]
      /\ \A u \in Tasks \ {t, r} : job'[u] = job[u]
      /\ Coord(r)' = Coord(t)
      /\ lock' = lock
  BY <1>1, <1>2 DEF StartRun, Launch, TypeOK, Coord, Jobs
<1>5. OwnsLock(r)' /\ ~OwnsLock(t)'
  BY <1>1, <1>2, <1>3, <1>4 DEF OwnsLock, Owning, TypeOK
<1>6. \A u \in Tasks \ {t, r} : (OwnsLock(u)' <=> OwnsLock(u)) /\ Coord(u)' = Coord(u)
  BY <1>4 DEF OwnsLock, Coord, TypeOK
<1>7. OwnerHolds'
  BY <1>1, <1>2, <1>4, <1>5, <1>6 DEF LockInv, OwnerHolds
<1>8. OneOwner'
  BY <1>1, <1>2, <1>4, <1>5, <1>6 DEF LockInv, OneOwner
<1>9. HeldLockHasOwner'
  <2> SUFFICES ASSUME NEW c \in Coords, lock'[c] = "held"
               PROVE  \E u \in Tasks : OwnsLock(u)' /\ Coord(u)' = c
    BY DEF HeldLockHasOwner
  <2>1. PICK u \in Tasks : OwnsLock(u) /\ Coord(u) = c
    BY <1>4 DEF LockInv, HeldLockHasOwner
  <2> QED
    BY <1>1, <1>2, <1>4, <1>5, <1>6, <2>1
<1> QED
  BY <1>7, <1>8, <1>9 DEF LockInv

\* A forced run starts; neither it nor its request is under a lock.
LEMMA InlineLocks ==
  ASSUME TypeOK, LockInv, NEW t \in Tasks, NEW r \in Runs, StartInline(t, r)
  PROVE  LockInv'
<1>1. r \in Tasks /\ pc[t] = "forced" /\ pc[r] = "idle" /\ lock' = lock
  BY DEF StartInline, Launch, Tasks
<1>2. \A u \in Tasks : OwnsLock(u)' = OwnsLock(u)
  BY <1>1 DEF StartInline, Launch, OwnsLock, TypeOK
<1>3. \A u \in Tasks : OwnsLock(u) => u # t /\ u # r
  BY <1>1 DEF OwnsLock
<1>4. \A u \in Tasks : OwnsLock(u) => Coord(u)' = Coord(u)
  BY <1>1, <1>3 DEF StartInline, Launch, Coord, TypeOK
<1>5. OwnerHolds'
  <2> SUFFICES ASSUME NEW u \in Tasks, OwnsLock(u)'
               PROVE  lock'[Coord(u)'] = "held"
    BY DEF OwnerHolds
  <2> QED
    BY <1>1, <1>2, <1>4 DEF LockInv, OwnerHolds
<1>6. OneOwner'
  <2> SUFFICES ASSUME NEW u \in Tasks, NEW v \in Tasks,
                      OwnsLock(u)', OwnsLock(v)', Coord(u)' = Coord(v)'
               PROVE  u = v
    BY DEF OneOwner
  <2> QED
    BY <1>2, <1>4 DEF LockInv, OneOwner
<1>7. HeldLockHasOwner'
  <2> SUFFICES ASSUME NEW c \in Coords, lock'[c] = "held"
               PROVE  \E u \in Tasks : OwnsLock(u)' /\ Coord(u)' = c
    BY DEF HeldLockHasOwner
  <2>1. PICK u \in Tasks : OwnsLock(u) /\ Coord(u) = c
    BY <1>1 DEF LockInv, HeldLockHasOwner
  <2> QED
    BY <1>2, <1>4, <2>1
<1> QED
  BY <1>5, <1>6, <1>7 DEF LockInv

\* Requests, triggers, the backfill and the queue tick.
LEMMA EnterLocks ==
  ASSUME TypeOK, LockInv, NEW t \in Tasks, NEW p, NEW j,
         Enter(t, p, j), p \notin Owning, lock' = lock
  PROVE  LockInv'
BY MoveLocks DEF Enter, Owning, TypeOK

LEMMA AskLocks ==
  ASSUME TypeOK, LockInv, NEW t \in Handlers,
         Ask(t) \/ (\E c \in Coords : Backfill(c)) \/ DrainTick
  PROVE  LockInv'
<1>1. t \in Tasks /\ Loop \in Tasks
  BY TierAssumption DEF Tasks
<1>2. CASE Ask(t)
  <2>1. PICK p \in {"forced", "lock", "start"} : \E j : Enter(t, p, j) /\ lock' = lock
    BY <1>2 DEF Ask, ForceRerun, WatchMissing, View, ScanChange
  <2> QED
    BY <1>1, <2>1, EnterLocks DEF Owning
<1>3. CASE \E c \in Coords : Backfill(c)
  BY <1>1, <1>3, EnterLocks DEF Backfill, Owning
<1>4. CASE DrainTick
  BY <1>1, <1>4, MoveLocks DEF DrainTick, Owning
<1> QED
  BY <1>2, <1>3, <1>4

\* _start_behavioral_payload.
LEMMA StartLocks ==
  ASSUME TypeOK, JobInv, LockInv, NEW t \in Tasks,
         \/ CheckCache(t) \/ TakeLock(t) \/ FindLocked(t) \/ FindNoSlot(t) \/ Unlock(t)
         \/ QueueForced(t)
         \/ \E r \in Runs : StartRun(t, r) \/ StartInline(t, r)
  PROVE  LockInv'
<1>1. \A o : After(t, o) \notin Owning
  BY AfterPlaces DEF Owning
<1>2. CASE CheckCache(t) \/ FindLocked(t)
  <2>1. PICK p : p \notin Owning /\ pc[t] \notin Owning /\ Goto(t, p) /\ lock' = lock
    BY <1>1, <1>2 DEF CheckCache, FindLocked, Owning
  <2> QED
    BY <2>1, MoveLocks DEF Goto, TypeOK
<1>3. CASE TakeLock(t)
  BY <1>3, TakeLocks, Facts DEF TakeLock
<1>4. CASE FindNoSlot(t)
  BY <1>4, MoveLocks DEF FindNoSlot, At, Owning
<1>5. CASE QueueForced(t)
  BY <1>5, MoveLocks DEF QueueForced, At, Owning
<1>6. CASE Unlock(t)
  <2>1. OwnsLock(t) /\ Coord(t) \in Coords
    BY <1>6, Facts DEF Unlock, OwnsLock
  <2> QED
    BY <1>1, <1>6, <2>1, GiveUpLocks DEF Unlock, Goto, TypeOK
<1>7. CASE \E r \in Runs : StartRun(t, r)
  BY <1>7, HandOverLocks
<1>8. CASE \E r \in Runs : StartInline(t, r)
  BY <1>8, InlineLocks
<1> QED
  BY <1>2, <1>3, <1>4, <1>5, <1>6, <1>7, <1>8

\* enqueue and drain.
LEMMA QueueLocks ==
  ASSUME TypeOK, LockInv, NEW t \in Tasks,
         \/ ReadPayload(t) \/ WritePayload(t) \/ AddMember(t) \/ CheckBound(t) \/ DropOne(t)
         \/ Peek(t) \/ Load(t) \/ RemoveMember(t) \/ RemovePayload(t)
  PROVE  LockInv'
<1>1. PICK p : /\ pc' = [pc EXCEPT ![t] = p] /\ p \notin Owning
               /\ pc[t] \notin Owning /\ lock' = lock
  <2>1. CASE ReadPayload(t) \/ WritePayload(t) \/ AddMember(t)
    BY <2>1 DEF ReadPayload, WritePayload, AddMember, At, Owning
  <2>2. CASE CheckBound(t) \/ Peek(t)
    BY <2>2 DEF CheckBound, Peek, Goto, Owning
  <2>3. CASE DropOne(t)
    <3>1. pc' = [pc EXCEPT ![t] = "idle"] \/ pc' = [pc EXCEPT ![t] = "drop"]
      BY <2>3 DEF DropOne, Goto, TypeOK
    <3> QED
      BY <2>3, <3>1 DEF DropOne, Owning
  <2>4. CASE Load(t) \/ RemoveMember(t) \/ RemovePayload(t)
    BY <2>4 DEF Load, RemoveMember, RemovePayload, At, Owning
  <2> QED
    BY <2>1, <2>2, <2>3, <2>4
<1>2. \A u \in Tasks \ {t} : job'[u] = job[u]
  <2>1. CASE ReadPayload(t) \/ WritePayload(t) \/ AddMember(t) \/ Load(t)
    BY <2>1 DEF ReadPayload, WritePayload, AddMember, Load, TypeOK
  <2>2. CASE CheckBound(t) \/ DropOne(t)
    BY <2>2 DEF CheckBound, DropOne, Goto, TypeOK
  <2>3. CASE Peek(t) \/ RemoveMember(t) \/ RemovePayload(t)
    BY <2>3 DEF Peek, RemoveMember, RemovePayload, Goto, TypeOK
  <2> QED
    BY <2>1, <2>2, <2>3
<1> QED
  BY <1>1, <1>2, MoveLocks

\* Runs, cancellation and expiry.
LEMMA RunLocks ==
  ASSUME TypeOK, JobInv, LockInv, NEW r \in Runs, RunStep(r) \/ Cancel(r) \/ LeaseExpire(r)
  PROVE  LockInv'
<1>1. r \in Tasks
  BY DEF Tasks
<1>2. CASE EndRun(r)
  BY <1>1, <1>2, MoveLocks DEF EndRun, At, Owning
<1>3. CASE LeaveSlot(r)
  <2>1. OwnsLock(r) /\ Coord(r) \in Coords
    BY <1>1, <1>3, Facts DEF LeaveSlot, At, OwnsLock
  <2> QED
    BY <1>1, <1>3, <2>1, GiveUpLocks DEF LeaveSlot, At, Owning, TypeOK
<1>4. CASE ReturnInline(r) \/ LeaseExpire(r)
  BY <1>1, <1>4, MoveLocks DEF ReturnInline, LeaseExpire, Goto, Owning, TypeOK
<1>5. CASE Cancel(r)
  BY <1>1, <1>5, MoveLocks DEF Cancel, Owning
<1>6. CASE CancelUnlock(r)
  <2>1. OwnsLock(r) /\ Coord(r) \in Coords
    BY <1>1, <1>6, Facts DEF CancelUnlock, At, OwnsLock
  <2> QED
    BY <1>1, <1>6, <2>1, GiveUpLocks DEF CancelUnlock, At, Owning
<1> QED
  BY <1>2, <1>3, <1>4, <1>5, <1>6 DEF RunStep

LEMMA CrashLocks ==
  ASSUME TypeOK, JobInv, LockInv, NEW t \in Tasks, Crash(t)
  PROVE  LockInv'
<1>1. PICK p \in {"dead", "idle"} : pc' = [pc EXCEPT ![t] = p]
  BY DEF Crash, Goto
<1>2. \A u \in Tasks \ {t} : job'[u] = job[u]
  BY DEF Crash, Goto, TypeOK
<1>3. p \notin Owning
  BY DEF Owning
<1>4. CASE OwnsLock(t)
  <2>1. Coord(t) \in Coords /\ lock' = [lock EXCEPT ![Coord(t)] = "left"]
    BY <1>4, Facts DEF Crash, OwnsLock
  <2> QED
    BY <1>1, <1>2, <1>3, <1>4, <2>1, GiveUpLocks
<1>5. CASE ~OwnsLock(t)
  BY <1>1, <1>2, <1>3, <1>5, MoveLocks DEF Crash, OwnsLock, Owning
<1> QED
  BY <1>4, <1>5

LEMMA ExpiryLocks ==
  ASSUME TypeOK, JobInv, LockInv, NEW c \in Coords, LockExpire(c) \/ CacheExpire(c)
  PROVE  LockInv'
<1>1. \A t \in Tasks : OwnsLock(t)' = OwnsLock(t) /\ Coord(t)' = Coord(t)
  BY DEF LockExpire, CacheExpire, OwnsLock, Coord
<1>2. \A d \in Coords : (lock'[d] = "held") = (lock[d] = "held")
  BY DEF LockExpire, CacheExpire, TypeOK
<1>3. \A t \in Tasks : OwnsLock(t) => lock'[Coord(t)] = "held"
  <2> SUFFICES ASSUME NEW t \in Tasks, OwnsLock(t)
               PROVE  lock'[Coord(t)] = "held"
    OBVIOUS
  <2>1. Coord(t) \in Coords
    BY Facts DEF OwnsLock
  <2> QED
    BY <1>2, <2>1 DEF LockInv, OwnerHolds
<1>4. OwnerHolds'
  BY <1>1, <1>3 DEF OwnerHolds
<1>5. OneOwner'
  <2> SUFFICES ASSUME NEW u \in Tasks, NEW v \in Tasks,
                      OwnsLock(u)', OwnsLock(v)', Coord(u)' = Coord(v)'
               PROVE  u = v
    BY DEF OneOwner
  <2> QED
    BY <1>1 DEF LockInv, OneOwner
<1>6. HeldLockHasOwner'
  <2> SUFFICES ASSUME NEW d \in Coords, lock'[d] = "held"
               PROVE  \E u \in Tasks : OwnsLock(u)' /\ Coord(u)' = d
    BY DEF HeldLockHasOwner
  <2>1. PICK u \in Tasks : OwnsLock(u) /\ Coord(u) = d
    BY <1>2 DEF LockInv, HeldLockHasOwner
  <2> QED
    BY <1>1, <2>1
<1> QED
  BY <1>4, <1>5, <1>6 DEF LockInv

-----------------------------------------------------------------------------
(* The data: slots, locks, blocks, queue and payloads keep their types.    *)

Data ==
  /\ Pool!TypeOK
  /\ lock \in [Coords -> Locks]
  /\ cache \in [Coords -> 0 .. MaxVersion]
  /\ version \in [Coords -> 1 .. MaxVersion]
  /\ queue \in [Priorities -> Seq(Coords)]
  /\ payload \in [Coords -> Payloads]
  /\ asks \in 0 .. MaxAsks
  /\ faults \in 0 .. MaxFaults

LEMMA TypeParts ==
  TypeOK <=> /\ pc \in [Tasks -> Places] /\ job \in [Tasks -> Jobs \cup {NoJob}] /\ Data
BY DEF TypeOK, Data

LEMMA AskData ==
  ASSUME TypeOK, JobInv,
         (\E t \in Handlers : Ask(t)) \/ (\E c \in Coords : Backfill(c)) \/ DrainTick
  PROVE  Data'
<1>1. asks' \in 0 .. MaxAsks
  <2>1. UNCHANGED asks \/ (asks < MaxAsks /\ asks' = asks + 1)
    BY DEF Ask, ForceRerun, WatchMissing, View, ScanChange, Backfill, DrainTick, Enter
  <2> QED
    BY <2>1, Facts DEF TypeOK
<1>2. /\ UNCHANGED <<holders, lock, queue, payload, faults>>
      /\ cache' \in [Coords -> 0 .. MaxVersion]
      /\ version' \in [Coords -> 1 .. MaxVersion]
  <2>1. CASE UNCHANGED <<holders, lock, cache, version, queue, payload, faults>>
    BY <2>1 DEF TypeOK
  <2>2. CASE \E t \in Handlers, c \in Coords, p \in Priorities : ScanChange(t, c, p)
    BY <2>2, Facts DEF ScanChange, TypeOK
  <2> QED
    BY <2>1, <2>2 DEF Ask, ForceRerun, WatchMissing, View, Backfill, DrainTick
<1> QED
  BY <1>1, <1>2 DEF TypeOK, Data, Pool!TypeOK

LEMMA StartData ==
  ASSUME TypeOK, JobInv, NEW t \in Tasks,
         \/ CheckCache(t) \/ TakeLock(t) \/ FindLocked(t) \/ FindNoSlot(t) \/ Unlock(t)
         \/ QueueForced(t)
         \/ \E r \in Runs : StartRun(t, r) \/ StartInline(t, r)
  PROVE  Data'
<1>1. UNCHANGED <<cache, version, queue, payload, asks, faults>>
  BY DEF CheckCache, TakeLock, FindLocked, FindNoSlot, Unlock, QueueForced, StartRun, StartInline
<1>2. lock' \in [Coords -> Locks]
  BY DEF CheckCache, TakeLock, FindLocked, FindNoSlot, Unlock, QueueForced, StartRun,
         StartInline, TypeOK, Locks
<1>3. Pool!TypeOK'
  BY DEF CheckCache, TakeLock, FindLocked, FindNoSlot, Unlock, QueueForced, StartRun,
         StartInline, Launch, TypeOK, Pool!TypeOK, Pool!Grant
<1> QED
  BY <1>1, <1>2, <1>3 DEF TypeOK, Data

LEMMA QueueData ==
  ASSUME TypeOK, JobInv, NEW t \in Tasks,
         \/ ReadPayload(t) \/ WritePayload(t) \/ AddMember(t) \/ CheckBound(t) \/ DropOne(t)
         \/ Peek(t) \/ Load(t) \/ RemoveMember(t) \/ RemovePayload(t)
  PROVE  Data'
<1>1. UNCHANGED <<holders, lock, cache, version, asks, faults>>
  BY DEF ReadPayload, WritePayload, AddMember, CheckBound, DropOne, Peek, Load,
         RemoveMember, RemovePayload
<1>2. payload' \in [Coords -> Payloads]
  BY DEF ReadPayload, WritePayload, AddMember, CheckBound, DropOne, Peek, Load,
         RemoveMember, RemovePayload, TypeOK, Payloads
<1>3. queue' \in [Priorities -> Seq(Coords)]
  <2>1. CASE AddMember(t)
    <3>1. /\ queue["normal"] \in Seq(Coords) /\ queue["low"] \in Seq(Coords)
          /\ Coord(t) \in Coords
      BY <2>1, QueueFacts, Facts DEF AddMember, At
    <3>2. /\ Append(queue["normal"], Coord(t)) \in Seq(Coords)
          /\ Append(queue["low"], Coord(t)) \in Seq(Coords)
          /\ Without(queue["low"], Coord(t)) \in Seq(Coords)
      BY <3>1, WithoutType
    <3> QED
      BY <2>1, <3>2 DEF AddMember, TypeOK, Priorities
  <2>2. CASE RemoveMember(t)
    BY <2>2, WithoutType DEF RemoveMember, TypeOK
  <2>3. CASE DropOne(t)
    <3>1. CASE QueueLength = 0
      BY <2>3, <3>1 DEF DropOne, TypeOK
    <3>2. CASE QueueLength # 0
      <4>1. /\ LowestBand \in Priorities /\ queue[LowestBand] \in Seq(Coords)
            /\ queue[LowestBand] # <<>>
        BY <3>2, QueueFacts DEF TypeOK
      <4>2. Tail(queue[LowestBand]) \in Seq(Coords)
        BY <4>1
      <4>3. queue' = [queue EXCEPT ![LowestBand] = Tail(queue[LowestBand])]
        BY <2>3, <3>2 DEF DropOne
      <4> QED
        BY <4>1, <4>2, <4>3 DEF TypeOK
    <3> QED
      BY <3>1, <3>2
  <2>4. CASE UNCHANGED queue
    BY <2>4 DEF TypeOK
  <2> QED
    BY <2>1, <2>2, <2>3, <2>4 DEF ReadPayload, WritePayload, CheckBound, Peek, Load, RemovePayload
<1> QED
  BY <1>1, <1>2, <1>3 DEF TypeOK, Data, Pool!TypeOK

LEMMA RunData ==
  ASSUME TypeOK, JobInv, NEW r \in Runs, RunStep(r) \/ Cancel(r) \/ LeaseExpire(r)
  PROVE  Data'
<1>1. UNCHANGED <<version, queue, payload, asks>>
  BY DEF RunStep, EndRun, LeaveSlot, ReturnInline, CancelUnlock, Cancel, LeaseExpire
<1>2. Pool!TypeOK' /\ lock' \in [Coords -> Locks]
  BY DEF RunStep, EndRun, LeaveSlot, ReturnInline, CancelUnlock, Cancel, LeaseExpire,
         Pool!Leave, Pool!TypeOK, TypeOK, Locks
<1>3. faults' \in 0 .. MaxFaults
  BY Facts DEF RunStep, EndRun, LeaveSlot, ReturnInline, CancelUnlock, Cancel, LeaseExpire, TypeOK
<1>4. cache' \in [Coords -> 0 .. MaxVersion]
  <2>1. CASE EndRun(r)
    <3>1. job[r] \in Jobs
      BY <2>1, Facts DEF EndRun, At, Tasks
    <3>2. job[r].ver \in 0 .. MaxVersion
      BY <3>1 DEF Jobs
    <3> QED
      BY <2>1, <3>2 DEF EndRun, TypeOK
  <2>2. CASE UNCHANGED cache
    BY <2>2 DEF TypeOK
  <2> QED
    BY <2>1, <2>2 DEF RunStep, LeaveSlot, ReturnInline, CancelUnlock, Cancel, LeaseExpire
<1> QED
  BY <1>1, <1>2, <1>3, <1>4 DEF TypeOK, Data

LEMMA CrashData ==
  ASSUME TypeOK, JobInv,
         \/ \E t \in Tasks : Crash(t)
         \/ \E c \in Coords : LockExpire(c) \/ CacheExpire(c)
  PROVE  Data'
<1>1. UNCHANGED <<holders, version, queue, payload, asks>>
  BY DEF Crash, LockExpire, CacheExpire
<1>2. lock' \in [Coords -> Locks]
  BY DEF Crash, LockExpire, CacheExpire, TypeOK, Locks
<1>3. cache' \in [Coords -> 0 .. MaxVersion] /\ faults' \in 0 .. MaxFaults
  BY Facts DEF Crash, LockExpire, CacheExpire, TypeOK
<1> QED
  BY <1>1, <1>2, <1>3 DEF TypeOK, Data, Pool!TypeOK

-----------------------------------------------------------------------------
(* The bound of the queue.  QueueBounded is inductive: an entry comes with *)
(* a task that will look at the length, and leaves before its task does.   *)

Trimming == {t \in Tasks : pc[t] \in {"bound", "drop"}}

LEMMA TrimmingFinite ==
  /\ IsFiniteSet(Trimming) /\ Cardinality(Trimming) \in Nat
  /\ IsFiniteSet(Trimming') /\ Cardinality(Trimming') \in Nat
<1>1. IsFiniteSet(Tasks)
  BY TierAssumption, FS_Union DEF Tasks
<1>2. Trimming \subseteq Tasks /\ Trimming' \subseteq Tasks
  BY DEF Trimming
<1> QED
  BY <1>1, <1>2, FS_Subset, FS_CardinalityType

LEMMA WithoutLength ==
  ASSUME NEW band \in Seq(Coords), NEW c
  PROVE  Without(band, c) \in Seq(Coords) /\ Len(Without(band, c)) <= Len(band)
<1>1. CASE Contains(band, c)
  <2> DEFINE i == CHOOSE j \in DOMAIN band : band[j] = c
  <2>1. i \in 1 .. Len(band)
    BY <1>1 DEF Contains
  <2> HIDE DEF i
  <2>2. /\ SubSeq(band, 1, i - 1) \in Seq(Coords) /\ Len(SubSeq(band, 1, i - 1)) = i - 1
        /\ SubSeq(band, i + 1, Len(band)) \in Seq(Coords)
        /\ Len(SubSeq(band, i + 1, Len(band))) = Len(band) - i
    BY <2>1
  <2>3. Without(band, c) = SubSeq(band, 1, i - 1) \o SubSeq(band, i + 1, Len(band))
    BY <1>1 DEF Without, RemoveAt, i
  <2> QED
    <3> DEFINE s == SubSeq(band, 1, i - 1)
               u == SubSeq(band, i + 1, Len(band))
    <3> HIDE DEF s, u
    <3>1. s \o u \in Seq(Coords) /\ Len(s \o u) = Len(s) + Len(u)
      BY <2>2, ConcatProperties DEF s, u
    <3>2. Len(s) = i - 1 /\ Len(u) = Len(band) - i
      BY <2>2 DEF s, u
    <3>3. Without(band, c) = s \o u
      BY <2>3 DEF s, u
    <3>4. Len(band) \in Nat
      OBVIOUS
    <3>5. i \in Nat
      BY <2>1
    <3> QED
      BY <3>1, <3>2, <3>3, <3>4, <3>5
<1>2. CASE ~Contains(band, c)
  BY <1>2 DEF Without
<1> QED
  BY <1>1, <1>2

LEMMA LenType ==
  ASSUME NEW s \in Seq(Coords)
  PROVE  Len(s) \in Nat
OBVIOUS

LEMMA LengthFacts ==
  ASSUME TypeOK, TypeOK'
  PROVE  /\ QueueLength \in Nat /\ QueueLength' \in Nat /\ QueueMax \in Nat
         /\ faults \in Nat /\ faults' \in Nat
<1>1. /\ queue["normal"] \in Seq(Coords) /\ queue["low"] \in Seq(Coords)
      /\ queue'["normal"] \in Seq(Coords) /\ queue'["low"] \in Seq(Coords)
  BY DEF TypeOK, Priorities
<1>2. QueueLength \in Nat /\ QueueLength' \in Nat
  <2>1. /\ Len(queue["normal"]) \in Nat /\ Len(queue["low"]) \in Nat
        /\ Len(queue'["normal"]) \in Nat /\ Len(queue'["low"]) \in Nat
    BY <1>1, LenType
  <2>2. \A m, n \in Nat : m + n \in Nat
    OBVIOUS
  <2> QED
    BY <2>1, <2>2 DEF QueueLength
<1>3. QueueMax \in Nat /\ MaxFaults \in Nat
  BY TierAssumption
<1>4. faults \in 0 .. MaxFaults /\ faults' \in 0 .. MaxFaults
  BY DEF TypeOK
<1> QED
  BY <1>2, <1>3, <1>4

\* The lengths of the bands before and after a step, as numbers.
LEMMA BandLengths ==
  ASSUME TypeOK, TypeOK'
  PROVE  \E x, y, u, v \in Nat :
           /\ Len(queue["normal"]) = x /\ Len(queue["low"]) = y /\ QueueLength = x + y
           /\ Len(queue'["normal"]) = u /\ Len(queue'["low"]) = v /\ QueueLength' = u + v
<1>1. /\ queue["normal"] \in Seq(Coords) /\ queue["low"] \in Seq(Coords)
      /\ queue'["normal"] \in Seq(Coords) /\ queue'["low"] \in Seq(Coords)
  BY DEF TypeOK, Priorities
<1>2. /\ Len(queue["normal"]) \in Nat /\ Len(queue["low"]) \in Nat
      /\ Len(queue'["normal"]) \in Nat /\ Len(queue'["low"]) \in Nat
  BY <1>1, LenType
<1> QED
  BY <1>2, Zenon DEF QueueLength

\* Nobody stops trimming, and nothing is added.
LEMMA TrimmingStays ==
  ASSUME TypeOK, TypeOK', QueueBounded,
         Trimming \subseteq Trimming', QueueLength' <= QueueLength, faults' >= faults
  PROVE  QueueBounded'
<1>1. Cardinality(Trimming) <= Cardinality(Trimming')
  BY TrimmingFinite, FS_Subset
<1>2. /\ QueueLength \in Nat /\ QueueMax \in Nat /\ faults \in Nat
      /\ QueueLength' \in Nat /\ faults' \in Nat
  BY LengthFacts
<1>3. QueueLength <= QueueMax + faults + Cardinality(Trimming)
  BY DEF QueueBounded, Trimming
<1>4. QueueLength' <= QueueMax + faults' + Cardinality(Trimming')
  BY <1>1, <1>2, <1>3, TrimmingFinite
<1> QED
  BY <1>4 DEF QueueBounded, Trimming

\* A task adds an entry and goes on to look at the length.
LEMMA TrimmingBegins ==
  ASSUME TypeOK, TypeOK', QueueBounded, NEW t \in Tasks,
         t \notin Trimming, Trimming' = Trimming \cup {t},
         QueueLength' <= QueueLength + 1, faults' = faults
  PROVE  QueueBounded'
<1>1. Cardinality(Trimming') = Cardinality(Trimming) + 1
  BY TrimmingFinite, FS_AddElement
<1>2. /\ QueueLength \in Nat /\ QueueMax \in Nat /\ faults \in Nat
      /\ QueueLength' \in Nat
  BY LengthFacts
<1>3. QueueLength <= QueueMax + faults + Cardinality(Trimming)
  BY DEF QueueBounded, Trimming
<1>4. QueueLength' <= QueueMax + faults' + Cardinality(Trimming')
  BY <1>1, <1>2, <1>3, TrimmingFinite
<1> QED
  BY <1>4 DEF QueueBounded, Trimming

\* A task stops trimming: it dropped an entry, found the queue within its
\* bound, or died.
LEMMA TrimmingEnds ==
  ASSUME TypeOK, TypeOK', QueueBounded, NEW t \in Tasks, Trimming' = Trimming \ {t},
         \/ QueueLength' <= QueueLength - 1 /\ faults' = faults
         \/ QueueLength' <= QueueMax
         \/ QueueLength' <= QueueLength /\ faults' = faults + 1
  PROVE  QueueBounded'
<1>1. Cardinality(Trimming') >= Cardinality(Trimming) - 1
  BY TrimmingFinite, FS_RemoveElement
<1>2. /\ QueueLength \in Nat /\ QueueMax \in Nat /\ faults \in Nat
      /\ QueueLength' \in Nat /\ faults' \in Nat
  BY LengthFacts
<1>3. QueueLength <= QueueMax + faults + Cardinality(Trimming)
  BY DEF QueueBounded, Trimming
<1>4. QueueLength' <= QueueMax + faults' + Cardinality(Trimming')
  BY <1>1, <1>2, <1>3, TrimmingFinite
<1> QED
  BY <1>4 DEF QueueBounded, Trimming

\* Every step that leaves the queue alone and touches nobody who trims.
Elsewhere ==
  /\ queue' = queue
  /\ faults' >= faults
  /\ \A u \in Tasks : pc[u] \in {"bound", "drop"} => pc'[u] = pc[u]

LEMMA ElsewhereBound ==
  ASSUME TypeOK, TypeOK', QueueBounded, Elsewhere
  PROVE  QueueBounded'
<1>1. Trimming \subseteq Trimming'
  BY DEF Elsewhere, Trimming
<1>2. QueueLength' = QueueLength
  BY DEF Elsewhere, QueueLength
<1>3. QueueLength' <= QueueLength /\ faults' >= faults
  BY <1>2, LengthFacts DEF Elsewhere
<1> QED
  BY <1>1, <1>3, TrimmingStays

LEMMA AskElsewhere ==
  ASSUME TypeOK,
         (\E t \in Handlers : Ask(t)) \/ (\E c \in Coords : Backfill(c)) \/ DrainTick
  PROVE  Elsewhere
<1>1. queue' = queue /\ faults' = faults
  BY DEF Ask, ForceRerun, WatchMissing, View, ScanChange, Backfill, DrainTick
<1>2. PICK t, p : pc[t] = "idle" /\ pc' = [pc EXCEPT ![t] = p]
  BY DEF Ask, ForceRerun, WatchMissing, View, ScanChange, Backfill, DrainTick, Enter
<1> QED
  BY <1>1, <1>2, TierAssumption DEF Elsewhere, TypeOK

LEMMA StartElsewhere ==
  ASSUME TypeOK, NEW t \in Tasks,
         \/ CheckCache(t) \/ TakeLock(t) \/ FindLocked(t) \/ FindNoSlot(t) \/ Unlock(t)
         \/ QueueForced(t)
         \/ \E r \in Runs : StartRun(t, r) \/ StartInline(t, r)
  PROVE  Elsewhere
<1>1. queue' = queue /\ faults' = faults
  BY DEF CheckCache, TakeLock, FindLocked, FindNoSlot, Unlock, QueueForced, StartRun,
         StartInline
<1>2. CASE \E r \in Runs : StartRun(t, r) \/ StartInline(t, r)
  <2>1. PICK r, x, y : /\ pc[r] = "idle" /\ pc' = [pc EXCEPT ![r] = x, ![t] = y]
                       /\ pc[t] \notin {"bound", "drop"}
    BY <1>2 DEF StartRun, StartInline, Launch
  <2> QED
    BY <1>1, <2>1, TierAssumption DEF Elsewhere, TypeOK
<1>3. CASE \/ CheckCache(t) \/ TakeLock(t) \/ FindLocked(t) \/ FindNoSlot(t) \/ Unlock(t)
           \/ QueueForced(t)
  <2>1. pc[t] \notin {"bound", "drop"} /\ \A u \in Tasks \ {t} : pc'[u] = pc[u]
    BY <1>3 DEF CheckCache, TakeLock, FindLocked, FindNoSlot, Unlock, QueueForced, At, Goto,
                TypeOK
  <2> QED
    BY <1>1, <2>1, TierAssumption DEF Elsewhere, TypeOK
<1> QED
  BY <1>2, <1>3

LEMMA RunElsewhere ==
  ASSUME TypeOK, NEW r \in Runs, RunStep(r) \/ Cancel(r) \/ LeaseExpire(r)
  PROVE  Elsewhere
<1>1. queue' = queue /\ (faults' = faults \/ faults' = faults + 1) /\ faults \in Nat
  BY TierAssumption DEF RunStep, EndRun, LeaveSlot, ReturnInline, CancelUnlock, Cancel, LeaseExpire,
                        TypeOK
<1>2. pc[r] \notin {"bound", "drop"} /\ \A u \in Tasks \ {r} : pc'[u] = pc[u]
  BY DEF RunStep, EndRun, LeaveSlot, ReturnInline, CancelUnlock, Cancel, LeaseExpire, At, Goto,
         TypeOK
<1> QED
  BY <1>1, <1>2 DEF Elsewhere

\* enqueue.
LEMMA EnqueueBound ==
  ASSUME TypeOK, JobInv, TypeOK', QueueBounded, NEW t \in Tasks,
         ReadPayload(t) \/ WritePayload(t) \/ AddMember(t) \/ CheckBound(t) \/ DropOne(t)
  PROVE  QueueBounded'
<1>1. faults' = faults /\ faults \in Nat /\ QueueLength \in Nat /\ QueueLength' \in Nat
      /\ QueueMax \in Nat
  BY LengthFacts DEF ReadPayload, WritePayload, AddMember, CheckBound, DropOne
<1>2. CASE ReadPayload(t) \/ WritePayload(t)
  <2>1. Elsewhere
    BY <1>1, <1>2 DEF ReadPayload, WritePayload, At, Elsewhere, TypeOK
  <2> QED
    BY <2>1, ElsewhereBound
<1>3. CASE AddMember(t)
  <2>1. t \notin Trimming /\ Trimming' = Trimming \cup {t}
    BY <1>3 DEF AddMember, At, Trimming, TypeOK
  <2>2. /\ queue["normal"] \in Seq(Coords) /\ queue["low"] \in Seq(Coords)
        /\ queue \in [Priorities -> Seq(Coords)] /\ Coord(t) \in Coords
    BY <1>3, Facts, QueueFacts DEF AddMember, At, TypeOK
  <2> DEFINE n == queue["normal"]
             l == queue["low"]
             c == Coord(t)
  <2>3. /\ Len(Append(n, c)) = Len(n) + 1 /\ Len(Append(l, c)) = Len(l) + 1
        /\ Len(Without(l, c)) <= Len(l) /\ Len(Without(l, c)) \in Nat
        /\ Len(n) \in Nat /\ Len(l) \in Nat
    BY <2>2, WithoutLength, LenType, AppendProperties
  <2>4. \/ Len(queue'["normal"]) = Len(n) /\ Len(queue'["low"]) = Len(l)
        \/ Len(queue'["normal"]) = Len(n) + 1 /\ Len(queue'["low"]) = Len(Without(l, c))
        \/ Len(queue'["normal"]) = Len(n) /\ Len(queue'["low"]) = Len(l) + 1
    BY <1>3, <2>2, <2>3 DEF AddMember, Priorities
  <2>5. PICK x, y, u, v \in Nat :
           /\ Len(queue["normal"]) = x /\ Len(queue["low"]) = y /\ QueueLength = x + y
           /\ Len(queue'["normal"]) = u /\ Len(queue'["low"]) = v /\ QueueLength' = u + v
    BY BandLengths
  <2> HIDE DEF n, l, c
  <2>6. Len(n) = x /\ Len(l) = y
    BY <2>5 DEF n, l
  <2>7. QueueLength' <= QueueLength + 1
    BY <2>3, <2>4, <2>5, <2>6
  <2> QED
    BY <1>1, <2>1, <2>7, TrimmingBegins
<1>4. CASE CheckBound(t)
  <2>1. QueueLength' = QueueLength
    BY <1>4 DEF CheckBound, QueueLength
  <2>2. CASE QueueLength > QueueMax
    <3>1. Trimming' = Trimming
      BY <1>4, <2>2 DEF CheckBound, Trimming, TypeOK
    <3> QED
      BY <1>1, <2>1, <3>1, TrimmingStays
  <2>3. CASE ~(QueueLength > QueueMax)
    <3>1. Trimming' = Trimming \ {t}
      BY <1>4, <2>3 DEF CheckBound, Goto, Trimming, TypeOK
    <3> QED
      BY <1>1, <2>1, <2>3, <3>1, TrimmingEnds
  <2> QED
    BY <2>2, <2>3
<1>5. CASE DropOne(t)
  <2>1. t \in Trimming /\ pc[t] = "drop"
    BY <1>5 DEF DropOne, Trimming
  <2>2. CASE QueueLength = 0
    <3>1. QueueLength' = QueueLength
      BY <1>5, <2>2 DEF DropOne, QueueLength
    <3>2. Trimming' = Trimming \ {t}
      BY <1>5, <2>2 DEF DropOne, Goto, Trimming, TypeOK
    <3> QED
      BY <1>1, <2>2, <3>1, <3>2, TrimmingEnds
  <2>3. CASE QueueLength # 0
    <3>1. /\ LowestBand \in Priorities /\ queue[LowestBand] \in Seq(Coords)
          /\ queue[LowestBand] # <<>> /\ queue \in [Priorities -> Seq(Coords)]
      BY <2>3, QueueFacts DEF TypeOK
    <3>2. Len(Tail(queue[LowestBand])) = Len(queue[LowestBand]) - 1
      BY <3>1, HeadTailProperties
    <3>3. queue' = [queue EXCEPT ![LowestBand] = Tail(queue[LowestBand])]
      BY <1>5, <2>3 DEF DropOne
    <3>4. \/ /\ Len(queue'["normal"]) = Len(queue["normal"]) - 1
             /\ Len(queue'["low"]) = Len(queue["low"])
          \/ /\ Len(queue'["normal"]) = Len(queue["normal"])
             /\ Len(queue'["low"]) = Len(queue["low"]) - 1
      BY <3>1, <3>2, <3>3 DEF Priorities
    <3>5. PICK x, y, u, v \in Nat :
           /\ Len(queue["normal"]) = x /\ Len(queue["low"]) = y /\ QueueLength = x + y
           /\ Len(queue'["normal"]) = u /\ Len(queue'["low"]) = v /\ QueueLength' = u + v
      BY BandLengths
    <3>6. QueueLength' = QueueLength - 1
      BY <3>4, <3>5
    <3>7. Trimming' = Trimming \/ Trimming' = Trimming \ {t}
      BY <1>5, <2>1 DEF DropOne, Goto, Trimming, TypeOK
    <3> QED
      BY <1>1, <3>6, <3>7, TrimmingStays, TrimmingEnds
  <2> QED
    BY <2>2, <2>3
<1> QED
  BY <1>2, <1>3, <1>4, <1>5

\* drain.
LEMMA DrainBound ==
  ASSUME TypeOK, TypeOK', QueueBounded, NEW t \in Tasks,
         Peek(t) \/ Load(t) \/ RemoveMember(t) \/ RemovePayload(t)
  PROVE  QueueBounded'
<1>1. /\ faults' = faults /\ faults \in Nat
      /\ pc[t] \notin {"bound", "drop"} /\ \A u \in Tasks \ {t} : pc'[u] = pc[u]
  BY LengthFacts DEF Peek, Load, RemoveMember, RemovePayload, At, Goto, TypeOK
<1>2. CASE RemoveMember(t)
  <2>1. Trimming \subseteq Trimming'
    BY <1>1 DEF Trimming
  <2>2. queue["normal"] \in Seq(Coords) /\ queue["low"] \in Seq(Coords)
    BY QueueFacts
  <2> DEFINE n == Without(queue["normal"], Coord(t))
             l == Without(queue["low"], Coord(t))
  <2>3. /\ Len(n) <= Len(queue["normal"]) /\ Len(l) <= Len(queue["low"])
        /\ Len(n) \in Nat /\ Len(l) \in Nat
        /\ Len(queue["normal"]) \in Nat /\ Len(queue["low"]) \in Nat
    BY <2>2, WithoutLength, LenType
  <2>4. queue'["normal"] = n /\ queue'["low"] = l
    BY <1>2 DEF RemoveMember, Priorities
  <2> HIDE DEF n, l
  <2>5. PICK x, y, u, v \in Nat :
           /\ Len(queue["normal"]) = x /\ Len(queue["low"]) = y /\ QueueLength = x + y
           /\ Len(queue'["normal"]) = u /\ Len(queue'["low"]) = v /\ QueueLength' = u + v
    BY BandLengths
  <2>6. QueueLength' <= QueueLength
    BY <2>3, <2>4, <2>5
  <2> QED
    BY <1>1, <2>1, <2>6, TrimmingStays
<1>3. CASE Peek(t) \/ Load(t) \/ RemovePayload(t)
  <2>1. Elsewhere
    <3>1. queue' = queue
      BY <1>3 DEF Peek, Load, RemovePayload
    <3>2. faults' >= faults
      BY <1>1
    <3> QED
      BY <1>1, <3>1, <3>2 DEF Elsewhere
  <2> QED
    BY <2>1, ElsewhereBound
<1> QED
  BY <1>2, <1>3

LEMMA CrashBound ==
  ASSUME TypeOK, TypeOK', QueueBounded, NEW t \in Tasks, Crash(t)
  PROVE  QueueBounded'
<1>1. QueueLength' = QueueLength /\ faults' = faults + 1
  BY DEF Crash, QueueLength
<1>2. Trimming' = Trimming \ {t}
  BY DEF Crash, Goto, Trimming, TypeOK
<1> QED
  BY <1>1, <1>2, LengthFacts, TrimmingEnds

-----------------------------------------------------------------------------
(* Slots and their runs.                                                   *)

InSlot == {"run", "inline", "leave", "return", "dead"}

\* A task moves and neither takes nor gives back a slot.
LEMMA MoveSlots ==
  ASSUME TypeOK, SlotsAccounted, NEW t \in Tasks, NEW p,
         pc' = [pc EXCEPT ![t] = p], holders' = holders,
         pc[t] \in InSlot <=> p \in InSlot
  PROVE  SlotsAccounted'
<1>1. \A r \in Runs : pc'[r] \in InSlot <=> pc[r] \in InSlot
  BY DEF TypeOK, Tasks
<1> QED
  BY <1>1 DEF SlotsAccounted, InSandbox, InSlot

\* A run gives its slot back.
LEMMA LeaveSlots ==
  ASSUME TypeOK, SlotsAccounted, NEW r \in Runs, NEW p,
         pc' = [pc EXCEPT ![r] = p], Pool!Leave(r), p \notin InSlot
  PROVE  SlotsAccounted'
<1>1. holders' = holders \ {r}
  BY DEF Pool!Leave
<1>2. pc'[r] \notin InSlot /\ \A s \in Runs \ {r} : pc'[s] = pc[s]
  BY DEF TypeOK, Tasks
<1> QED
  BY <1>1, <1>2 DEF SlotsAccounted, InSandbox, InSlot

\* A run is granted a slot and starts in the sandbox.
LEMMA LaunchSlots ==
  ASSUME TypeOK, SlotsAccounted, NEW t \in Tasks, NEW r \in Runs, NEW prio,
         NEW place \in {"run", "inline"}, NEW there,
         pc[t] \in {"slot", "forced"}, there \notin InSlot, Launch(t, r, prio, place, there)
  PROVE  SlotsAccounted'
<1>1. r # t /\ holders' = holders \cup {r} /\ pc' = [pc EXCEPT ![r] = place, ![t] = there]
  BY DEF Launch, Pool!Grant
<1>2. /\ pc'[r] \in InSlot
      /\ t \in Runs => pc[t] \notin InSlot /\ pc'[t] \notin InSlot
      /\ \A s \in Runs \ {r, t} : pc'[s] = pc[s]
  BY <1>1 DEF TypeOK, Tasks, InSlot
<1> QED
  BY <1>1, <1>2 DEF SlotsAccounted, InSandbox, InSlot

LEMMA AskSlots ==
  ASSUME TypeOK, SlotsAccounted,
         (\E t \in Handlers : Ask(t)) \/ (\E c \in Coords : Backfill(c)) \/ DrainTick
  PROVE  SlotsAccounted'
<1>1. PICK t \in Tasks, p \in {"forced", "lock", "start", "peek"} :
         pc[t] = "idle" /\ pc' = [pc EXCEPT ![t] = p] /\ holders' = holders
  BY TierAssumption DEF Ask, ForceRerun, WatchMissing, View, ScanChange, Backfill, DrainTick,
                        Enter, Tasks
<1> QED
  BY <1>1, MoveSlots DEF InSlot

\* _start_behavioral_payload.
LEMMA StartSlots ==
  ASSUME TypeOK, SlotsAccounted, NEW t \in Tasks,
         \/ CheckCache(t) \/ TakeLock(t) \/ FindLocked(t) \/ FindNoSlot(t) \/ Unlock(t)
         \/ QueueForced(t)
         \/ \E r \in Runs : StartRun(t, r) \/ StartInline(t, r)
  PROVE  SlotsAccounted'
<1>1. \A o : After(t, o) \notin InSlot
  BY AfterPlaces DEF InSlot
<1>2. CASE CheckCache(t) \/ TakeLock(t) \/ FindLocked(t) \/ Unlock(t)
  <2>1. PICK p : p \notin InSlot /\ pc[t] \notin InSlot /\ Goto(t, p) /\ holders' = holders
    BY <1>1, <1>2 DEF CheckCache, TakeLock, FindLocked, Unlock, InSlot
  <2> QED
    BY <2>1, MoveSlots DEF Goto
<1>3. CASE FindNoSlot(t) \/ QueueForced(t)
  BY <1>3, MoveSlots DEF FindNoSlot, QueueForced, At, InSlot
<1>4. CASE \E r \in Runs : StartRun(t, r)
  BY <1>1, <1>4, LaunchSlots DEF StartRun
<1>5. CASE \E r \in Runs : StartInline(t, r)
  BY <1>5, LaunchSlots DEF StartInline, InSlot
<1> QED
  BY <1>2, <1>3, <1>4, <1>5

\* enqueue and drain.
LEMMA QueueSlots ==
  ASSUME TypeOK, SlotsAccounted, NEW t \in Tasks,
         \/ ReadPayload(t) \/ WritePayload(t) \/ AddMember(t) \/ CheckBound(t) \/ DropOne(t)
         \/ Peek(t) \/ Load(t) \/ RemoveMember(t) \/ RemovePayload(t)
  PROVE  SlotsAccounted'
<1>1. PICK p : pc' = [pc EXCEPT ![t] = p] /\ p \notin InSlot /\ pc[t] \notin InSlot
               /\ holders' = holders
  <2>1. CASE ReadPayload(t) \/ WritePayload(t) \/ AddMember(t)
    BY <2>1 DEF ReadPayload, WritePayload, AddMember, At, InSlot
  <2>2. CASE CheckBound(t) \/ Peek(t)
    BY <2>2 DEF CheckBound, Peek, Goto, InSlot
  <2>3. CASE DropOne(t)
    <3>1. pc' = [pc EXCEPT ![t] = "idle"] \/ pc' = [pc EXCEPT ![t] = "drop"]
      BY <2>3 DEF DropOne, Goto, TypeOK
    <3> QED
      BY <2>3, <3>1 DEF DropOne, InSlot
  <2>4. CASE Load(t) \/ RemoveMember(t) \/ RemovePayload(t)
    BY <2>4 DEF Load, RemoveMember, RemovePayload, At, InSlot
  <2> QED
    BY <2>1, <2>2, <2>3, <2>4
<1> QED
  BY <1>1, MoveSlots

\* Runs, cancellation, crashes and expiry.
LEMMA RunSlots ==
  ASSUME TypeOK, SlotsAccounted, NEW r \in Runs, RunStep(r) \/ Cancel(r) \/ LeaseExpire(r)
  PROVE  SlotsAccounted'
<1>1. r \in Tasks
  BY DEF Tasks
<1>2. CASE EndRun(r) \/ CancelUnlock(r)
  BY <1>1, <1>2, MoveSlots DEF EndRun, CancelUnlock, At, InSlot
<1>3. CASE LeaveSlot(r) \/ Cancel(r)
  BY <1>3, LeaveSlots DEF LeaveSlot, Cancel, At, InSlot
<1>4. CASE ReturnInline(r) \/ LeaseExpire(r)
  BY <1>4, LeaveSlots DEF ReturnInline, LeaseExpire, Goto, InSlot
<1> QED
  BY <1>2, <1>3, <1>4 DEF RunStep

\* Whoever dies with a slot leaves it to its lease.
LEMMA CrashSlots ==
  ASSUME TypeOK, SlotsAccounted, NEW t \in Tasks, Crash(t)
  PROVE  SlotsAccounted'
<1>1. CASE t \in holders
  <2>1. pc[t] \in InSlot /\ pc' = [pc EXCEPT ![t] = "dead"] /\ holders' = holders
    BY <1>1 DEF Crash, SlotsAccounted, InSandbox, InSlot
  <2> QED
    BY <2>1, MoveSlots DEF InSlot
<1>2. CASE t \notin holders
  <2>1. pc' = [pc EXCEPT ![t] = "idle"] /\ holders' = holders
    BY <1>2 DEF Crash, Goto
  <2>2. CASE t \in Runs
    <3>1. pc[t] \notin InSlot
      BY <1>2, <2>2 DEF SlotsAccounted, InSandbox, InSlot
    <3> QED
      BY <2>1, <3>1, MoveSlots DEF InSlot
  <2>3. CASE t \notin Runs
    BY <2>1, <2>3 DEF SlotsAccounted, InSandbox, TypeOK, Tasks
  <2> QED
    BY <2>2, <2>3
<1> QED
  BY <1>1, <1>2

\* The tier uses the pool as the pool is meant to be used.
LEMMA UsesPool == [Next]_vars => [Pool!Next]_holders
<1> SUFFICES ASSUME [Next]_vars, holders' # holders PROVE Pool!Next
  OBVIOUS
<1>1. CASE (\E t \in Handlers : Ask(t)) \/ (\E c \in Coords : Backfill(c)) \/ DrainTick
  BY <1>1 DEF Ask, ForceRerun, WatchMissing, View, ScanChange, Backfill, DrainTick
<1>2. ASSUME NEW t \in Tasks, Step(t) PROVE Pool!Next
  <2>1. PICK r \in Runs : StartRun(t, r) \/ StartInline(t, r)
    BY <1>2 DEF Step, CheckCache, TakeLock, FindLocked, FindNoSlot, Unlock, QueueForced,
                ReadPayload, WritePayload, AddMember, CheckBound, DropOne, Peek, Load,
                RemoveMember, RemovePayload
  <2> QED
    BY <2>1 DEF StartRun, StartInline, Launch, Pool!Next
<1>3. ASSUME NEW r \in Runs, RunStep(r) \/ Cancel(r) \/ LeaseExpire(r) PROVE Pool!Next
  BY <1>3 DEF RunStep, EndRun, CancelUnlock, LeaveSlot, ReturnInline, Cancel, LeaseExpire,
              Pool!Next
<1>4. CASE (\E t \in Tasks : Crash(t)) \/ (\E c \in Coords : LockExpire(c) \/ CacheExpire(c))
  BY <1>4 DEF Crash, LockExpire, CacheExpire
<1>5. CASE UNCHANGED vars
  BY <1>5 DEF vars
<1> QED
  BY <1>1, <1>2, <1>3, <1>4, <1>5 DEF Next, Expiry

\* What SlotPool promises: a low run is let in only beside a free slot.
PoolBounded ==
  /\ Cardinality(holders) <= Limit
  /\ Cardinality(holders \cap LowRuns) < Limit

LEMMA PoolBoundedStep ==
  ASSUME Pool!TypeOK, PoolBounded, [Pool!Next]_holders
  PROVE  PoolBounded'
<1>1. Limit \in Nat \ {0} /\ IsFiniteSet(holders) /\ IsFiniteSet(holders \cap LowRuns)
  BY TierAssumption, FS_Subset DEF Pool!TypeOK
<1>2. Cardinality(holders) \in Nat /\ Cardinality(holders \cap LowRuns) \in Nat
  BY <1>1, FS_CardinalityType
<1>3. ASSUME NEW r \in Runs, Pool!Grant(r) PROVE PoolBounded'
  <2>0. Pool!Cardinality(holders) = Cardinality(holders)
    BY DEF Pool!Cardinality, Cardinality, Pool!IsFiniteSet, IsFiniteSet
  <2>1. Cardinality(holders') = Cardinality(holders) + 1
    BY <1>1, <1>3, FS_AddElement DEF Pool!Grant
  <2>2. CASE r \in LowRuns
    <3>1. Cardinality(holders) + 2 <= Limit
      BY <1>2, <1>3, <2>0, <2>2 DEF Pool!Grant, Pool!HasRoom, Pool!FreeAfter
    <3>2. IsFiniteSet(holders') /\ holders' \cap LowRuns \subseteq holders'
      BY <1>1, <1>3, FS_AddElement DEF Pool!Grant
    <3>3. /\ Cardinality(holders' \cap LowRuns) <= Cardinality(holders')
          /\ Cardinality(holders' \cap LowRuns) \in Nat
      BY <3>2, FS_Subset, FS_CardinalityType
    <3> QED
      BY <1>1, <1>2, <2>1, <3>1, <3>3 DEF PoolBounded
  <2>3. CASE r \notin LowRuns
    <3>1. Cardinality(holders) + 1 <= Limit
      BY <1>2, <1>3, <2>0, <2>3 DEF Pool!Grant, Pool!HasRoom, Pool!FreeAfter
    <3>2. holders' \cap LowRuns = holders \cap LowRuns
      BY <1>3, <2>3 DEF Pool!Grant
    <3> QED
      BY <2>1, <3>1, <3>2 DEF PoolBounded
  <2> QED
    BY <2>2, <2>3
<1>4. ASSUME NEW r \in Runs, Pool!Leave(r) PROVE PoolBounded'
  <2>1. holders' \subseteq holders /\ holders' \cap LowRuns \subseteq holders \cap LowRuns
    BY <1>4 DEF Pool!Leave
  <2>2. /\ Cardinality(holders') <= Cardinality(holders)
        /\ Cardinality(holders' \cap LowRuns) <= Cardinality(holders \cap LowRuns)
        /\ Cardinality(holders') \in Nat /\ Cardinality(holders' \cap LowRuns) \in Nat
    BY <1>1, <2>1, FS_Subset, FS_CardinalityType
  <2> QED
    BY <1>1, <1>2, <2>2 DEF PoolBounded
<1> QED
  BY <1>3, <1>4 DEF Pool!Next, PoolBounded

-----------------------------------------------------------------------------
(* The invariant and the theorems.                                         *)

LEMMA EnterTick ==
  ASSUME TypeOK, JobInv, (\E c \in Coords : Backfill(c)) \/ DrainTick
  PROVE  Control'
<1>1. Control /\ Loop \in Tasks /\ NoJob \notin Jobs /\ {"start", "peek"} \subseteq Places \ {"drop"}
  BY Facts DEF Places
<1>2. CASE \E c \in Coords : Backfill(c)
  <2>1. PICK c \in Coords : Enter(Loop, "start", NewJob(c, "low", FALSE, "backfill"))
    BY <1>2 DEF Backfill
  <2>2. NewJob(c, "low", FALSE, "backfill") \in Jobs
    BY NewJobType DEF Priorities
  <2> QED
    BY <1>1, <2>1, <2>2, EnterControl
<1>3. CASE DrainTick
  BY <1>1, <1>3 DEF DrainTick, Control, JobInv
<1> QED
  BY <1>2, <1>3

LEMMA InvInit == Init => Inv
<1> SUFFICES ASSUME Init PROVE Inv
  OBVIOUS
<1>1. Control
  BY ControlInit
<1>2. Data
  BY TierAssumption DEF Init, Data, Pool!Init, Pool!TypeOK, Locks, Payloads, Priorities
<1>3. LockInv
  BY DEF Init, LockInv, OwnerHolds, OneOwner, HeldLockHasOwner, OwnsLock
<1> QED
  BY <1>1, <1>2, <1>3, TypeParts DEF Control, Inv

LEMMA InvStep == Inv /\ [Next]_vars => Inv'
<1> SUFFICES ASSUME TypeOK, JobInv, LockInv, [Next]_vars PROVE Control' /\ Data' /\ LockInv'
  BY TypeParts DEF Inv, Control, Data, TypeOK
<1>1. CASE \E t \in Handlers \ {Loop} : Ask(t)
  BY <1>1, AskControl, AskData, AskLocks
<1>2. CASE (\E c \in Coords : Backfill(c)) \/ DrainTick
  <2>1. Loop \in Handlers
    BY TierAssumption
  <2> QED
    BY <1>2, <2>1, EnterTick, AskData, AskLocks
<1>3. ASSUME NEW t \in Tasks, Step(t) PROVE Control' /\ Data' /\ LockInv'
  <2>1. \/ \/ CheckCache(t) \/ TakeLock(t) \/ FindLocked(t) \/ FindNoSlot(t) \/ Unlock(t)
           \/ QueueForced(t)
           \/ \E r \in Runs : StartRun(t, r) \/ StartInline(t, r)
        \/ ReadPayload(t) \/ WritePayload(t) \/ AddMember(t) \/ CheckBound(t) \/ DropOne(t)
        \/ Peek(t) \/ Load(t) \/ RemoveMember(t) \/ RemovePayload(t)
    BY <1>3 DEF Step
  <2>2. Control'
    BY <2>1, StartControl, EnqueueControl, DrainControl
  <2>3. Data'
    BY <2>1, StartData, QueueData
  <2>4. LockInv'
    BY <2>1, StartLocks, QueueLocks
  <2> QED
    BY <2>2, <2>3, <2>4
<1>4. ASSUME NEW t \in Tasks, Crash(t) PROVE Control' /\ Data' /\ LockInv'
  BY <1>4, CrashControl, CrashData, CrashLocks
<1>5. ASSUME NEW r \in Runs, RunStep(r) \/ Cancel(r) \/ LeaseExpire(r)
      PROVE  Control' /\ Data' /\ LockInv'
  BY <1>5, RunControl, RunData, RunLocks
<1>6. ASSUME NEW c \in Coords, LockExpire(c) \/ CacheExpire(c)
      PROVE  Control' /\ Data' /\ LockInv'
  <2>1. Control'
    BY <1>6, Facts DEF LockExpire, CacheExpire, Control, JobInv
  <2> QED
    BY <1>6, <2>1, CrashData, ExpiryLocks
<1>7. CASE UNCHANGED vars
  BY <1>7, Facts DEF vars, Control, JobInv, Data, TypeOK, Pool!TypeOK, LockInv, OwnerHolds,
                     OneOwner, HeldLockHasOwner, OwnsLock, Coord
<1> QED
  BY <1>1, <1>2, <1>3, <1>4, <1>5, <1>6, <1>7 DEF Next, Expiry

LEMMA Invariance == Spec => []Inv
BY InvInit, InvStep, PTL DEF Spec

\* Every reachable state of the tier is well typed: the locals of the tasks, the
\* slot pool of slots.py, the locks, the queue with its payloads and the blocks.
THEOREM TypeCorrect == Spec => []TypeOK
<1>1. Inv => TypeOK
  BY DEF Inv
<1> QED
  BY <1>1, Invariance, PTL

\* _acquire_behavioral_lock: no two background runs detonate one coordinate at
\* once, for any number of requests, triggers, drains, cancellations and crashes.
THEOREM OneBackgroundRunHolds == Spec => []OneBackgroundRun
<1>1. Inv => OneBackgroundRun
  BY DEF Inv, LockInv, OneOwner, OneBackgroundRun, OwnsLock, Tasks
<1> QED
  BY <1>1, Invariance, PTL

\* No way out of _start_behavioral_payload or _run_in_slot forgets a lock that it
\* still refreshes.
THEOREM HeldLockHasOwnerHolds == Spec => []HeldLockHasOwner
<1>1. Inv => HeldLockHasOwner
  BY DEF Inv, LockInv
<1> QED
  BY <1>1, Invariance, PTL

LEMMA SlotsStep == Inv /\ SlotsAccounted /\ [Next]_vars => SlotsAccounted'
<1> SUFFICES ASSUME TypeOK, SlotsAccounted, [Next]_vars PROVE SlotsAccounted'
  BY DEF Inv
<1>1. CASE (\E t \in Handlers \ {Loop} : Ask(t)) \/ (\E c \in Coords : Backfill(c)) \/ DrainTick
  BY <1>1, AskSlots
<1>2. ASSUME NEW t \in Tasks, Step(t) PROVE SlotsAccounted'
  BY <1>2, StartSlots, QueueSlots DEF Step
<1>3. ASSUME NEW t \in Tasks, Crash(t) PROVE SlotsAccounted'
  BY <1>3, CrashSlots
<1>4. ASSUME NEW r \in Runs, RunStep(r) \/ Cancel(r) \/ LeaseExpire(r) PROVE SlotsAccounted'
  BY <1>4, RunSlots
<1>5. ASSUME NEW c \in Coords, LockExpire(c) \/ CacheExpire(c) PROVE SlotsAccounted'
  BY <1>5 DEF LockExpire, CacheExpire, SlotsAccounted, InSandbox
<1>6. CASE UNCHANGED vars
  BY <1>6 DEF vars, SlotsAccounted, InSandbox
<1> QED
  BY <1>1, <1>2, <1>3, <1>4, <1>5, <1>6 DEF Next, Expiry

\* No early return, cancellation, failed runner or crash of the tier leaks a slot or
\* gives one back while its run is in the sandbox.
THEOREM SlotsAccountedHolds == Spec => []SlotsAccounted
<1>1. Init => SlotsAccounted
  BY DEF Init, Pool!Init, SlotsAccounted, InSandbox, Tasks
<1> QED
  BY <1>1, SlotsStep, Invariance, PTL DEF Spec

\* slots.py's "at most N sandbox runs at once" and "slot 0 stays open for user-facing
\* runs", for any limit and any number of runs, background and forced ones together.
THEOREM SandboxBoundedHolds == Spec => []SandboxBounded
<1>1. Init => PoolBounded
  BY TierAssumption, FS_EmptySet DEF Init, Pool!Init, PoolBounded
<1>2. Inv /\ PoolBounded /\ [Next]_vars => PoolBounded'
  BY UsesPool, PoolBoundedStep DEF Inv, TypeOK
<1>3. Inv /\ SlotsAccounted /\ PoolBounded => SandboxBounded
  <2> SUFFICES ASSUME Inv, SlotsAccounted, PoolBounded PROVE SandboxBounded
    OBVIOUS
  <2> DEFINE all == {r \in Runs : InSandbox(r)}
             low == {r \in LowRuns : InSandbox(r)}
  <2>1. all \subseteq holders /\ low \subseteq holders \cap LowRuns
    BY TierAssumption DEF SlotsAccounted
  <2>2. IsFiniteSet(holders) /\ IsFiniteSet(holders \cap LowRuns) /\ Limit \in Nat
    BY TierAssumption, FS_Subset DEF Inv, TypeOK, Pool!TypeOK
  <2> HIDE DEF all, low
  <2>3. /\ Cardinality(all) <= Cardinality(holders)
        /\ Cardinality(low) <= Cardinality(holders \cap LowRuns)
        /\ Cardinality(all) \in Nat /\ Cardinality(low) \in Nat
        /\ Cardinality(holders) \in Nat /\ Cardinality(holders \cap LowRuns) \in Nat
    BY <2>1, <2>2, FS_Subset, FS_CardinalityType
  <2>4. Cardinality(all) <= Limit /\ Cardinality(low) < Limit
    BY <2>2, <2>3 DEF PoolBounded
  <2> QED
    BY <2>4 DEF SandboxBounded, all, low
<1> QED
  BY <1>1, <1>2, <1>3, SlotsAccountedHolds, Invariance, PTL DEF Spec

LEMMA BoundStep == Inv /\ Inv' /\ QueueBounded /\ [Next]_vars => QueueBounded'
<1> SUFFICES ASSUME TypeOK, JobInv, TypeOK', QueueBounded, [Next]_vars PROVE QueueBounded'
  BY DEF Inv
<1>1. CASE (\E t \in Handlers \ {Loop} : Ask(t)) \/ (\E c \in Coords : Backfill(c)) \/ DrainTick
  BY <1>1, AskElsewhere, ElsewhereBound
<1>2. ASSUME NEW t \in Tasks, Step(t) PROVE QueueBounded'
  <2>1. \/ \/ CheckCache(t) \/ TakeLock(t) \/ FindLocked(t) \/ FindNoSlot(t) \/ Unlock(t)
           \/ QueueForced(t)
           \/ \E r \in Runs : StartRun(t, r) \/ StartInline(t, r)
        \/ ReadPayload(t) \/ WritePayload(t) \/ AddMember(t) \/ CheckBound(t) \/ DropOne(t)
        \/ Peek(t) \/ Load(t) \/ RemoveMember(t) \/ RemovePayload(t)
    BY <1>2 DEF Step
  <2> QED
    BY <2>1, StartElsewhere, ElsewhereBound, EnqueueBound, DrainBound
<1>3. ASSUME NEW t \in Tasks, Crash(t) PROVE QueueBounded'
  BY <1>3, CrashBound
<1>4. ASSUME NEW r \in Runs, RunStep(r) \/ Cancel(r) \/ LeaseExpire(r) PROVE QueueBounded'
  BY <1>4, RunElsewhere, ElsewhereBound
<1>5. ASSUME NEW c \in Coords, LockExpire(c) \/ CacheExpire(c) PROVE QueueBounded'
  <2>1. Elsewhere
    BY <1>5, LengthFacts DEF LockExpire, CacheExpire, Elsewhere
  <2> QED
    BY <2>1, ElsewhereBound
<1>6. CASE UNCHANGED vars
  <2>1. Elsewhere
    BY <1>6, LengthFacts DEF vars, Elsewhere
  <2> QED
    BY <2>1, ElsewhereBound
<1> QED
  BY <1>1, <1>2, <1>3, <1>4, <1>5, <1>6 DEF Next, Expiry

\* slots.py's "Bounded at QUEUE_MAX": for any bound and any number of writers the
\* queue exceeds it by no more than those who are about to trim it and those
\* who died before they could.
THEOREM QueueBoundedHolds == Spec => []QueueBounded
<1>1. Init => QueueBounded
  <2> SUFFICES ASSUME Init PROVE QueueBounded
    OBVIOUS
  <2>1. QueueLength = 0 /\ faults = 0
    BY DEF Init, QueueLength, Priorities
  <2>2. QueueMax \in Nat
    BY TierAssumption
  <2> QED
    BY <2>1, <2>2, TrimmingFinite DEF QueueBounded, Trimming
<1>2. Inv /\ Inv' /\ QueueBounded /\ [Next]_vars => QueueBounded'
  BY BoundStep
<1> QED
  BY <1>1, <1>2, Invariance, PTL DEF Spec
=============================================================================
