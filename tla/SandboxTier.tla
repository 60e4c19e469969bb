---------------------------- MODULE SandboxTier -----------------------------
(***************************************************************************)
(* The behavioral sandbox tier: who asks for a sandbox run of a package    *)
(* coordinate, the coordinate lock, the wait queue, the drain, the runs    *)
(* and the cached observation.                                             *)
(*                                                                         *)
(*   src/api/public_scan_router.py           _behavioral_block ff.         *)
(*   src/scanner/behavioral/slots.py         enqueue, drain                *)
(*   src/scanner/behavioral/trigger.py       on_scan_change, enqueue_...   *)
(*   src/jobs/behavioral_backfill.py         the backfill, the queue tick  *)
(*                                                                         *)
(* A task is a request handler, a scheduler loop or a background run; it   *)
(* takes one step per await, so the steps of tasks interleave as they do   *)
(* on the event loops of several workers.  Slots are those of SlotPool,    *)
(* which SandboxSlots implements.                                          *)
(***************************************************************************)
EXTENDS Naturals, Sequences, FiniteSets, SequencesExt

CONSTANTS
  Coords,      \* package coordinates (surface, name, declared egress, plan)
  Handlers,    \* request handlers and scheduler loops
  Loop,        \* the handler that runs behavioral_queue_tick
  Runs,        \* sandbox runs; a run is a task of its own
  LowRuns,     \* the runs that are started with low priority
  Limit,       \* max_slots()
  QueueMax,    \* QUEUE_MAX
  MaxAsks,     \* bound: requests, triggers and backfill calls
  MaxFaults,   \* bound: cancellations, runner errors and crashes
  MaxVersion,  \* bound: published versions of a coordinate
  NoJob        \* the job of an idle task

Tasks == Handlers \cup Runs

VARIABLES
  pc,       \* where a task stands
  job,      \* the locals of a task
  holders,  \* the runs that hold a slot
  lock,     \* the coordinate lock, "<cache key>:lock"
  cache,    \* the version the cached block was observed on, 0 = no block
  version,  \* the version the registry serves
  queue,    \* behavioral:queue, a band per priority, oldest first
  payload,  \* behavioral:queue:payload
  asks,     \* requests so far (bounds the model)
  faults    \* faults so far (bounds the model)

vars == <<pc, job, holders, lock, cache, version, queue, payload, asks, faults>>

Pool == INSTANCE SlotPool

Priorities == {"normal", "low"}

\* A lock is "held" by a task that is at work, or "left" to its TTL by a run
\* that ended or a task that died.
Locks == {"free", "held", "left"}

Payloads == {"none", "plain", "force"}

\* via: who wants the run, and so where the task goes on.
Jobs == [coord : Coords, prio : Priorities, force : BOOLEAN, excess : Nat,
         ver : 0 .. MaxVersion,
         via : {"request", "trigger", "backfill", "drain", "run"}]

ASSUME TierAssumption ==
  /\ IsFiniteSet(Runs) /\ IsFiniteSet(Handlers)
  /\ Handlers \cap Runs = {}
  /\ Loop \in Handlers
  /\ LowRuns \subseteq Runs
  /\ Limit \in Nat \ {0}
  /\ {QueueMax, MaxAsks, MaxFaults} \subseteq Nat
  /\ MaxVersion \in Nat \ {0}
  /\ NoJob \notin Jobs

Places == {"idle", "start", "lock", "slot", "unlock", "forced", "hget", "hset", "zadd",
           "bound", "drop", "peek", "load", "zrem", "hdel", "run", "leave", "cunlock",
           "inline", "return", "dead"}

TypeOK ==
  /\ pc \in [Tasks -> Places]
  /\ job \in [Tasks -> Jobs \cup {NoJob}]
  /\ Pool!TypeOK
  /\ lock \in [Coords -> Locks]
  /\ cache \in [Coords -> 0 .. MaxVersion]
  /\ version \in [Coords -> 1 .. MaxVersion]
  /\ queue \in [Priorities -> Seq(Coords)]
  /\ payload \in [Coords -> Payloads]
  /\ asks \in 0 .. MaxAsks
  /\ faults \in 0 .. MaxFaults

Init ==
  /\ pc = [t \in Tasks |-> "idle"]
  /\ job = [t \in Tasks |-> NoJob]
  /\ Pool!Init
  /\ lock = [c \in Coords |-> "free"]
  /\ cache = [c \in Coords |-> 0]
  /\ version = [c \in Coords |-> 1]
  /\ queue = [p \in Priorities |-> <<>>]
  /\ payload = [c \in Coords |-> "none"]
  /\ asks = 0
  /\ faults = 0
-----------------------------------------------------------------------------
(* Moving a task.                                                          *)

At(t, here, there) == pc[t] = here /\ pc' = [pc EXCEPT ![t] = there]

NewJob(c, p, f, via) ==
  [coord |-> c, prio |-> p, force |-> f, excess |-> 0, ver |-> 0, via |-> via]

\* The handler of a request begins at place `there`.
Enter(t, there, j) ==
  /\ pc[t] = "idle"
  /\ asks < MaxAsks
  /\ asks' = asks + 1
  /\ pc' = [pc EXCEPT ![t] = there]
  /\ job' = [job EXCEPT ![t] = j]

\* The task goes on at `there`; "idle" ends it.
Goto(t, there) ==
  /\ pc' = [pc EXCEPT ![t] = there]
  /\ job' = [job EXCEPT ![t] = IF there = "idle" THEN NoJob ELSE @]

\* A mutant of After: the drain removes an entry only when its run was started.
AfterStartedOnly(t, outcome) ==
  IF job[t].via = "drain"
    THEN IF outcome = "started" THEN "zrem" ELSE "idle"
    ELSE IF outcome # "no_slot" \/ job[t].via = "backfill" THEN "idle" ELSE "hget"

\* Where the caller of _start_behavioral_payload goes on: a drain removes the
\* entry on every outcome but no_slot, a request that finds no slot is queued,
\* the backfill (queue=False) and a low trigger on a single slot are deferred.
After(t, outcome) ==
  IF job[t].via = "drain"
    THEN IF outcome = "no_slot" THEN "idle" ELSE "zrem"
    ELSE IF \/ outcome # "no_slot"
            \/ job[t].via = "backfill"
            \/ job[t].via = "trigger" /\ job[t].prio = "low" /\ Limit < 2
           THEN "idle"
           ELSE "hget"

Coord(t) == job[t].coord

\* Some task is at work on c.
Handled(c) == \E t \in Tasks : job[t] # NoJob /\ Coord(t) = c

Queued == ToSet(queue["normal"]) \cup ToSet(queue["low"])
QueueLength == Len(queue["normal"]) + Len(queue["low"])

\* A band without member c, which is there at most once (it is a sorted set).
Without(band, c) ==
  IF Contains(band, c) THEN RemoveAt(band, CHOOSE i \in DOMAIN band : band[i] = c) ELSE band
-----------------------------------------------------------------------------
(* Requests.                                                               *)

\* _behavioral_block for a viewer, or for the catalog re-score under
\* low_priority(): a cached block is served, else a run is started.
View(t, c, p) ==
  /\ cache[c] = 0
  /\ Enter(t, "lock", NewJob(c, p, FALSE, "request"))
  /\ UNCHANGED <<holders, lock, cache, version, queue, payload, faults>>

\* _behavioral_block(force=True), the re-run button.
ForceRerun(t, c) ==
  /\ Enter(t, "forced", NewJob(c, "normal", TRUE, "request"))
  /\ UNCHANGED <<holders, lock, cache, version, queue, payload, faults>>

\* A version is published and the next re-scan sees it: on_scan_change drops
\* the cached block and enqueues, normal for a watched coordinate, else low.
ScanChange(t, c, p) ==
  /\ version[c] < MaxVersion
  /\ version' = [version EXCEPT ![c] = @ + 1]
  /\ cache' = [cache EXCEPT ![c] = 0]
  /\ Enter(t, "start", NewJob(c, p, FALSE, "trigger"))
  /\ UNCHANGED <<holders, lock, queue, payload, faults>>

\* on_scan_change for a watched coordinate that has no block.
WatchMissing(t, c) ==
  /\ cache[c] = 0
  /\ Enter(t, "start", NewJob(c, "normal", FALSE, "trigger"))
  /\ UNCHANGED <<holders, lock, cache, version, queue, payload, faults>>

\* run_behavioral_backfill for a coordinate with no cached block; it runs in the
\* loop that also drains the queue.
Backfill(c) ==
  /\ cache[c] = 0
  /\ Enter(Loop, "start", NewJob(c, "low", FALSE, "backfill"))
  /\ UNCHANGED <<holders, lock, cache, version, queue, payload, faults>>

\* The block lives 24 h: it outlives every lock, queue entry and task that was
\* there when it was written.
CacheExpire(c) ==
  /\ cache[c] # 0
  /\ lock[c] = "free" /\ c \notin Queued /\ ~Handled(c)
  /\ cache' = [cache EXCEPT ![c] = 0]
  /\ UNCHANGED <<pc, job, holders, lock, version, queue, payload, asks, faults>>
-----------------------------------------------------------------------------
(* _start_behavioral_payload.                                              *)

CheckCache(t) ==
  /\ pc[t] = "start"
  /\ Goto(t, IF cache[Coord(t)] # 0 /\ ~job[t].force THEN After(t, "cached") ELSE "lock")
  /\ UNCHANGED <<holders, lock, cache, version, queue, payload, asks, faults>>

\* A mutant of TakeLock: SET without NX.
TakeAnyLock(t) ==
  /\ pc[t] = "lock"
  /\ lock' = [lock EXCEPT ![Coord(t)] = "held"]
  /\ Goto(t, "slot")
  /\ UNCHANGED <<holders, cache, version, queue, payload, asks, faults>>

\* _acquire_behavioral_lock, SET NX EX.
TakeLock(t) ==
  /\ pc[t] = "lock"
  /\ lock[Coord(t)] = "free"
  /\ lock' = [lock EXCEPT ![Coord(t)] = "held"]
  /\ Goto(t, "slot")
  /\ UNCHANGED <<holders, cache, version, queue, payload, asks, faults>>

FindLocked(t) ==
  /\ pc[t] = "lock"
  /\ lock[Coord(t)] # "free"
  /\ Goto(t, After(t, "locked"))
  /\ UNCHANGED <<holders, lock, cache, version, queue, payload, asks, faults>>

\* A slot is granted to the idle run r, which becomes a task of its own.
Launch(t, r, prio, place, there) ==
  /\ pc[r] = "idle"
  /\ (r \in LowRuns) = (prio = "low")
  /\ Pool!Grant(r)
  /\ pc' = [pc EXCEPT ![r] = place, ![t] = there]
  /\ job' = [job EXCEPT ![r] = [job[t] EXCEPT !.via = "run", !.force = FALSE,
                                              !.ver = version[Coord(t)]],
                        ![t] = IF there = "idle" THEN NoJob ELSE @]

\* acquire_slot says no when the slots are taken, or when a concurrent taker has
\* its lease in the set for a moment (see SandboxSlots).  The model also says no
\* when it has no idle run of this priority left.
NoRoom(t) ==
  \/ \A r \in Runs : pc[r] = "idle" /\ (r \in LowRuns) = (job[t].prio = "low")
                       => ~Pool!HasRoom(r)
  \/ \E u \in Tasks \ {t} : pc[u] \in {"slot", "forced"}

StartRun(t, r) ==
  /\ pc[t] = "slot"
  /\ Launch(t, r, job[t].prio, "run", After(t, "started"))
  /\ UNCHANGED <<lock, cache, version, queue, payload, asks, faults>>

\* A mutant of FindNoSlot: the early return forgets the lock.
FindNoSlotKeepLock(t) ==
  /\ pc[t] = "slot"
  /\ Goto(t, After(t, "no_slot"))
  /\ NoRoom(t)
  /\ UNCHANGED <<holders, lock, cache, version, queue, payload, asks, faults>>

FindNoSlot(t) ==
  /\ At(t, "slot", "unlock")
  /\ NoRoom(t)
  /\ UNCHANGED <<job, holders, lock, cache, version, queue, payload, asks, faults>>

\* _release_behavioral_lock, a plain DEL.
Unlock(t) ==
  /\ pc[t] = "unlock"
  /\ lock' = [lock EXCEPT ![Coord(t)] = "free"]
  /\ Goto(t, After(t, "no_slot"))
  /\ UNCHANGED <<holders, cache, version, queue, payload, asks, faults>>

\* A forced run takes a slot but no coordinate lock and runs in its request.
StartInline(t, r) ==
  /\ pc[t] = "forced"
  /\ Launch(t, r, "normal", "inline", "idle")
  /\ UNCHANGED <<lock, cache, version, queue, payload, asks, faults>>

QueueForced(t) ==
  /\ At(t, "forced", "hget")
  /\ NoRoom(t)
  /\ UNCHANGED <<job, holders, lock, cache, version, queue, payload, asks, faults>>
-----------------------------------------------------------------------------
(* enqueue.                                                                *)

ReadPayload(t) ==
  /\ At(t, "hget", "hset")
  /\ job' = [job EXCEPT ![t].force = @ \/ payload[Coord(t)] = "force"]
  /\ UNCHANGED <<holders, lock, cache, version, queue, payload, asks, faults>>

WritePayload(t) ==
  /\ At(t, "hset", "zadd")
  /\ payload' = [payload EXCEPT ![Coord(t)] = IF job[t].force THEN "force" ELSE "plain"]
  /\ UNCHANGED <<job, holders, lock, cache, version, queue, asks, faults>>

\* ZADD LT: a member keeps its better score, a low one may become normal.
AddMember(t) ==
  /\ At(t, "zadd", "bound")
  /\ \/ /\ Coord(t) \in Queued
        /\ Contains(queue["normal"], Coord(t)) \/ job[t].prio = "low"
        /\ UNCHANGED queue
     \/ /\ ~Contains(queue["normal"], Coord(t)) /\ job[t].prio = "normal"
        /\ queue' = [queue EXCEPT !["normal"] = Append(@, Coord(t)),
                                  !["low"] = Without(@, Coord(t))]
     \/ /\ Coord(t) \notin Queued /\ job[t].prio = "low"
        /\ queue' = [queue EXCEPT !["low"] = Append(@, Coord(t))]
  /\ UNCHANGED <<job, holders, lock, cache, version, payload, asks, faults>>

\* A mutant of CheckBound: off by one.
CheckBoundLate(t) ==
  /\ pc[t] = "bound"
  /\ IF QueueLength > QueueMax + 1
       THEN /\ pc' = [pc EXCEPT ![t] = "drop"]
            /\ job' = [job EXCEPT ![t].excess = QueueLength - QueueMax]
       ELSE Goto(t, "idle")
  /\ UNCHANGED <<holders, lock, cache, version, queue, payload, asks, faults>>

\* ZCARD is read once; one entry is dropped for each that is over.
CheckBound(t) ==
  /\ pc[t] = "bound"
  /\ IF QueueLength > QueueMax
       THEN /\ pc' = [pc EXCEPT ![t] = "drop"]
            /\ job' = [job EXCEPT ![t].excess = QueueLength - QueueMax]
       ELSE Goto(t, "idle")
  /\ UNCHANGED <<holders, lock, cache, version, queue, payload, asks, faults>>

\* _drop_one: the oldest entry of the lowest band that is present.
LowestBand == IF queue["low"] # <<>> THEN "low" ELSE "normal"

\* A mutant of DropOne: the loop of the excess ends on an empty queue only.
DropOneForever(t) ==
  /\ pc[t] = "drop"
  /\ IF QueueLength = 0
       THEN UNCHANGED <<queue, payload>>
       ELSE /\ queue' = [queue EXCEPT ![LowestBand] = Tail(@)]
            /\ payload' = [payload EXCEPT ![Head(queue[LowestBand])] = "none"]
  /\ IF QueueLength = 0
       THEN Goto(t, "idle")
       ELSE job' = [job EXCEPT ![t].excess = @ - 1] /\ UNCHANGED pc
  /\ UNCHANGED <<holders, lock, cache, version, asks, faults>>

DropOne(t) ==
  /\ pc[t] = "drop"
  /\ IF QueueLength = 0
       THEN UNCHANGED <<queue, payload>>
       ELSE /\ queue' = [queue EXCEPT ![LowestBand] = Tail(@)]
            /\ payload' = [payload EXCEPT ![Head(queue[LowestBand])] = "none"]
  /\ IF QueueLength = 0 \/ job[t].excess = 1
       THEN Goto(t, "idle")
       ELSE job' = [job EXCEPT ![t].excess = @ - 1] /\ UNCHANGED pc
  /\ UNCHANGED <<holders, lock, cache, version, asks, faults>>
-----------------------------------------------------------------------------
(* drain.                                                                  *)

\* behavioral_queue_tick, and the drain at startup.
DrainTick ==
  /\ pc[Loop] = "idle"
  /\ QueueLength > 0
  /\ pc' = [pc EXCEPT ![Loop] = "peek"]
  /\ UNCHANGED <<job, holders, lock, cache, version, queue, payload, asks, faults>>

Peek(t) ==
  /\ pc[t] = "peek"
  /\ IF QueueLength = 0
       THEN Goto(t, "idle")
       ELSE LET band == IF queue["normal"] # <<>> THEN "normal" ELSE "low"
            IN  /\ pc' = [pc EXCEPT ![t] = "load"]
                /\ job' = [job EXCEPT ![t] = NewJob(Head(queue[band]), band, FALSE, "drain")]
  /\ UNCHANGED <<holders, lock, cache, version, queue, payload, asks, faults>>

\* HGET of the payload; an entry without one is skipped.
Load(t) ==
  /\ At(t, "load", IF payload[Coord(t)] = "none" THEN "zrem" ELSE "start")
  /\ job' = [job EXCEPT ![t].force = payload[Coord(t)] = "force"]
  /\ UNCHANGED <<holders, lock, cache, version, queue, payload, asks, faults>>

\* ZREM after the start, whatever was queued meanwhile.
RemoveMember(t) ==
  /\ At(t, "zrem", "hdel")
  /\ queue' = [p \in Priorities |-> Without(queue[p], Coord(t))]
  /\ UNCHANGED <<job, holders, lock, cache, version, payload, asks, faults>>

RemovePayload(t) ==
  /\ At(t, "hdel", "peek")
  /\ payload' = [payload EXCEPT ![Coord(t)] = "none"]
  /\ job' = [job EXCEPT ![t] = NoJob]
  /\ UNCHANGED <<holders, lock, cache, version, queue, asks, faults>>
-----------------------------------------------------------------------------
(* Runs: _run_in_slot and the inline forced run.                           *)

\* The run ends; its block is cached unless the runner raised.
EndRun(r) ==
  /\ \/ At(r, "run", "leave")
     \/ At(r, "inline", "return")
  /\ \/ cache' = [cache EXCEPT ![Coord(r)] = job[r].ver] /\ UNCHANGED faults
     \/ faults < MaxFaults /\ faults' = faults + 1 /\ UNCHANGED cache
  /\ UNCHANGED <<job, holders, lock, version, queue, payload, asks>>

\* The slot is given back, the queue drained.  The coordinate lock stays until
\* its TTL: only cancellation frees it.
LeaveSlot(r) ==
  /\ At(r, "leave", "peek")
  /\ Pool!Leave(r)
  /\ lock' = [lock EXCEPT ![Coord(r)] = "left"]
  /\ job' = [job EXCEPT ![r] = NoJob]
  /\ UNCHANGED <<cache, version, queue, payload, asks, faults>>

ReturnInline(r) ==
  /\ pc[r] = "return"
  /\ Pool!Leave(r)
  /\ Goto(r, "idle")
  /\ UNCHANGED <<lock, cache, version, queue, payload, asks, faults>>

\* A mutant of Cancel: the handler of the cancellation forgets the slot.
CancelKeepSlot(r) ==
  /\ faults < MaxFaults
  /\ faults' = faults + 1
  /\ pc[r] \in {"run", "leave"}
  /\ pc' = [pc EXCEPT ![r] = "cunlock"]
  /\ UNCHANGED <<holders, job, lock, cache, version, queue, payload, asks>>

\* shutdown() cancels a background run, in its body or while it gives its slot
\* back: the slot is returned, then the lock is freed and the coordinate queued,
\* with a plain payload.
Cancel(r) ==
  /\ faults < MaxFaults
  /\ faults' = faults + 1
  /\ pc[r] \in {"run", "leave"}
  /\ pc' = [pc EXCEPT ![r] = "cunlock"]
  /\ Pool!Leave(r)
  /\ UNCHANGED <<job, lock, cache, version, queue, payload, asks>>

\* A mutant of CancelUnlock: the handler of the cancellation forgets the lock.
CancelKeepLock(r) ==
  /\ At(r, "cunlock", "hget")
  /\ UNCHANGED <<job, holders, lock, cache, version, queue, payload, asks, faults>>

CancelUnlock(r) ==
  /\ At(r, "cunlock", "hget")
  /\ lock' = [lock EXCEPT ![Coord(r)] = "free"]
  /\ UNCHANGED <<job, holders, cache, version, queue, payload, asks, faults>>
-----------------------------------------------------------------------------
(* Crashes and expiry.                                                     *)

\* Task t is between SET NX and the end of what the lock protects.
OwnsLock(t) == pc[t] \in {"slot", "unlock", "run", "leave", "cunlock"}

\* The container is killed; a lease and a lock are left to their TTLs.
Crash(t) ==
  /\ pc[t] \notin {"idle", "dead"}
  /\ faults < MaxFaults
  /\ faults' = faults + 1
  /\ IF t \in holders
       THEN pc' = [pc EXCEPT ![t] = "dead"] /\ UNCHANGED job
       ELSE Goto(t, "idle")
  /\ lock' = IF OwnsLock(t) THEN [lock EXCEPT ![Coord(t)] = "left"] ELSE lock
  /\ UNCHANGED <<holders, cache, version, queue, payload, asks>>

LeaseExpire(r) ==
  /\ pc[r] = "dead"
  /\ Pool!Leave(r)
  /\ Goto(r, "idle")
  /\ UNCHANGED <<lock, cache, version, queue, payload, asks, faults>>

\* The heartbeat of a live run keeps its lock (SandboxSlots!RunningKeepsLock).
LockExpire(c) ==
  /\ lock[c] = "left"
  /\ lock' = [lock EXCEPT ![c] = "free"]
  /\ UNCHANGED <<pc, job, holders, cache, version, queue, payload, asks, faults>>
-----------------------------------------------------------------------------
Ask(t) ==
  \E c \in Coords :
    \/ ForceRerun(t, c) \/ WatchMissing(t, c)
    \/ \E p \in Priorities : View(t, c, p) \/ ScanChange(t, c, p)

Step(t) ==
  \/ CheckCache(t) \/ TakeLock(t) \/ FindLocked(t) \/ FindNoSlot(t) \/ Unlock(t)
  \/ QueueForced(t)
  \/ \E r \in Runs : StartRun(t, r) \/ StartInline(t, r)
  \/ ReadPayload(t) \/ WritePayload(t) \/ AddMember(t) \/ CheckBound(t) \/ DropOne(t)
  \/ Peek(t) \/ Load(t) \/ RemoveMember(t) \/ RemovePayload(t)

RunStep(r) == EndRun(r) \/ LeaveSlot(r) \/ ReturnInline(r) \/ CancelUnlock(r)

Expiry == \/ \E r \in Runs : LeaseExpire(r)
          \/ \E c \in Coords : LockExpire(c) \/ CacheExpire(c)

Next ==
  \/ \E t \in Handlers \ {Loop} : Ask(t)
  \/ \E c \in Coords : Backfill(c)
  \/ \E t \in Tasks : Step(t) \/ Crash(t)
  \/ \E r \in Runs : RunStep(r) \/ Cancel(r)
  \/ DrainTick
  \/ Expiry

Spec == Init /\ [][Next]_vars

\* Tasks run, a run has a wall clock limit, the queue loop passes every few
\* minutes and TTLs run out; no request, fault or cache expiry is owed.
Fairness ==
  /\ \A t \in Tasks : WF_vars(Step(t))
  /\ \A r \in Runs : WF_vars(RunStep(r)) /\ WF_vars(LeaseExpire(r))
  /\ \A c \in Coords : WF_vars(LockExpire(c))
  /\ WF_vars(DrainTick)

FairSpec == Spec /\ Fairness
-----------------------------------------------------------------------------
\* _acquire_behavioral_lock: no coordinate is detonated by two background runs
\* at once, whichever requests, triggers and drains race for it, and whoever
\* dies or is cancelled.
OneBackgroundRun ==
  \A r, s \in Runs :
    pc[r] = "run" /\ pc[s] = "run" /\ Coord(r) = Coord(s) => r = s

\* A lock that nobody is at work under is on its way out: no early return of
\* _start_behavioral_payload or of _run_in_slot leaves a lock that never expires
\* because it is still being refreshed.
HeldLockHasOwner ==
  \A c \in Coords : lock[c] = "held" => \E t \in Tasks : OwnsLock(t) /\ Coord(t) = c

\* slots.py: a slot belongs to a run from its start to the end of `holding`, or, if
\* it died, to its lease.  Whichever way a run ends or is never started, no slot
\* leaks, and none is given back while its run is still in the sandbox.
InSandbox(r) == pc[r] \in {"run", "inline"}

SlotsAccounted == holders = {r \in Runs : InSandbox(r) \/ pc[r] \in {"leave", "return", "dead"}}

\* "At most N sandbox runs at once" and "low-priority work can never occupy the
\* whole sandbox": of everything that runs, whoever started it and however, also
\* the forced runs that take no coordinate lock.
SandboxBounded ==
  /\ Cardinality({r \in Runs : InSandbox(r)}) <= Limit
  /\ Cardinality({r \in LowRuns : InSandbox(r)}) < Limit

\* "Bounded at QUEUE_MAX": the queue is over its bound only while those who put
\* the excess there are about to drop it, or died before they could.
QueueBounded ==
  QueueLength <= QueueMax + faults
                   + Cardinality({t \in Tasks : pc[t] \in {"bound", "drop"}})

\* "A request that finds no slot is QUEUED and starts when a slot frees".  The
\* code does less.  An entry leaves the queue when its run starts, and also when
\* the coordinate is found cached or locked, by a left lock too, and when the
\* bound drops it.  And it leaves for sure only if requests stop coming: one that
\* asks for a slot itself takes it past the queue, and a low entry needs a second
\* one free.  Then, on two slots or more, the queue runs empty, although
\* the drain stops at the first entry that gets no slot, cancelled runs come back
\* to it, and there may be no run left to drain it.  MaxAsks makes them stop.
RequestsEnd == <>[][asks' = asks]_vars

QueueEmptied == RequestsEnd /\ Limit > 1 => <>[](Queued = {})
=============================================================================
