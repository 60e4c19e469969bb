----------------------------- MODULE ScanRefresh ----------------------------
(***************************************************************************)
(* The cache of package scans and its background refresh                   *)
(* (scan_package_endpoint, _package_badge_data and _refresh_package of     *)
(* api/public_scan_router.py, _rescan_catalog_row of jobs/scheduler.py).   *)
(*                                                                         *)
(* A scan is kept twice, for an hour and for a week.  Stored reads and     *)
(* badges never wait for a scan when there is a copy: they schedule a      *)
(* refresh, of which each worker has so many pending and scans a few at a  *)
(* time, and Redis one per coordinate.  A refresh that ends in an error    *)
(* leaves it for a day, and stored reads are answered with it.  The        *)
(* catalog's re-scans write the same copies, without a timeout.            *)
(***************************************************************************)
EXTENDS Integers, FiniteSets

CONSTANTS Coords,      \* packages: surface, name and version
          Workers,     \* processes
          Tasks,       \* places of background refreshes, numbered
          Callers,     \* requests
          Home,        \* task or request -> its worker
          Slots,       \* _refresh_sem
          MaxPending,  \* _REFRESH_MAX_PENDING
          FreshTTL, StaleTTL, ErrorTTL, LockTTL,
          ScanTime,    \* the timeout of a scan, and time to save it
          MaxVersion,  \* bound: what is published under a coordinate
          MaxFaults,   \* bound: lost Redis commands, dead workers
          None         \* no coordinate

Scanners == Tasks \cup Callers

ASSUME RefreshAssumption ==
  /\ Tasks \subseteq Nat /\ IsFiniteSet(Tasks)
  /\ Tasks \cap Callers = {}
  /\ Home \in [Scanners -> Workers]
  /\ {Slots, FreshTTL, StaleTTL, ErrorTTL, LockTTL, MaxVersion} \subseteq Nat \ {0}
  /\ {MaxPending, ScanTime, MaxFaults} \subseteq Nat
  /\ None \notin Coords

\* 7 days and 24 hours.
ASSUME TTLAssumption == StaleTTL >= ErrorTTL

VARIABLES fresh,    \* coordinate -> its copy for an hour: time left, what it shows, and
                    \*   whether the scan had a timeout
          stale,    \* coordinate -> time left of its copy for a week
          error,    \* coordinate -> time left of its remembered error
          lock,     \* coordinate -> time left of its refresh lock
          version,  \* coordinate -> what is published
          age,      \* coordinate -> version -> time since it was published
          pc, job,  \* where a task or a request stands, and its locals
          pending,  \* worker -> _refresh_pending
          outcome,  \* coordinate -> what was last kept for long: a scan, an error, or an
                    \*   error after which a scan's copy was lost
          excused,  \* requests whose GET of the long copy failed, or came before one
          faults

vars == <<fresh, stale, error, lock, version, age, pc, job, pending, outcome, excused, faults>>
kept == <<fresh, stale, error, outcome, excused>>
packages == <<version, age>>

\* Ages beyond this are not told apart.
Old == FreshTTL + ScanTime + 1

Kinds == {"stored", "badge", "plain", "force", "catalog", "refresh"}

\* These ask no cache.
Direct == {"force", "catalog"}
NoJob == [coord |-> None, kind |-> "refresh", seen |-> 0, timer |-> 0]

NoCopy == [left |-> 0, version |-> 0, timed |-> FALSE]

Init ==
  /\ fresh = [c \in Coords |-> NoCopy]
  /\ stale = [c \in Coords |-> 0]
  /\ error = [c \in Coords |-> 0]
  /\ lock = [c \in Coords |-> 0]
  /\ version = [c \in Coords |-> 1]
  /\ age = [c \in Coords |-> [v \in 1 .. MaxVersion |-> Old]]
  /\ pc = [p \in Scanners |-> "idle"]
  /\ job = [p \in Scanners |-> NoJob]
  /\ pending = [w \in Workers |-> 0]
  /\ outcome = [c \in Coords |-> "none"]
  /\ excused = {}
  /\ faults = 0

Coord(p) == job[p].coord
Kind(p) == job[p].kind
At(p, place) == pc[p] = place
GoTo(p, place) == pc' = [pc EXCEPT ![p] = place]
Fault == faults < MaxFaults /\ faults' = faults + 1

\* A Redis command that answers, or fails and is taken for a miss.
Found(key) == key > 0 /\ UNCHANGED faults
Missed(key) == IF key > 0 THEN Fault ELSE UNCHANGED faults

Alive(w) == {t \in Tasks : Home[t] = w /\ pc[t] # "idle"}
Busy(w) == {t \in Tasks : Home[t] = w /\ pc[t] \in {"scan", "keep", "record"}}

\* A scan begins: it sees what is published now.
Begun(p) == [job EXCEPT ![p].seen = version[Coord(p)], ![p].timer = 0]

\* What the scan saw, and how long it took, matters no longer.
Seen(p) == [job EXCEPT ![p].seen = 0, ![p].timer = 0]

-----------------------------------------------------------------------------
(* The tasks                                                               *)

EndRequest(q) ==
  /\ GoTo(q, "idle")
  /\ job' = [job EXCEPT ![q] = NoJob]
  /\ UNCHANGED pending

\* The finally of _refresh_package_counted.
EndTask(t) ==
  /\ GoTo(t, "idle")
  /\ job' = [job EXCEPT ![t] = NoJob]
  /\ pending' = [pending EXCEPT ![Home[t]] = IF pending[Home[t]] > 0 THEN @ - 1 ELSE 0]

End(p) == IF p \in Tasks THEN EndTask(p) ELSE EndRequest(p)

\* Mutant of HasRoom: one too many.
HasRoomForOne(w) == pending[w] <= MaxPending

HasRoom(w) == pending[w] < MaxPending

\* Request q ends and has scheduled a refresh, unless too many are pending.  A
\* task differs from others in its place only and takes the first that is free.
Schedule(q) ==
  LET w == Home[q]
  IN  IF HasRoom(w)
      THEN \E t \in Tasks :
             /\ Home[t] = w
             /\ At(t, "idle")
             /\ \A s \in Tasks : Home[s] = w /\ At(s, "idle") => t <= s
             /\ pc' = [pc EXCEPT ![q] = "idle", ![t] = "lock"]
             /\ job' = [job EXCEPT ![q] = NoJob, ![t] = [NoJob EXCEPT !.coord = Coord(q)]]
             /\ pending' = [pending EXCEPT ![w] = @ + 1]
      ELSE EndRequest(q)

\* SET NX EX; nobody gives the lock back.
TakeLock(t) ==
  /\ At(t, "lock")
  /\ IF lock[Coord(t)] = 0
     THEN /\ lock' = [lock EXCEPT ![Coord(t)] = LockTTL]
          /\ GoTo(t, "queue")
          /\ UNCHANGED <<job, pending>>
     ELSE EndTask(t) /\ UNCHANGED lock
  /\ UNCHANGED <<kept, packages, faults>>

\* "no Redis: still refresh, just without the dedupe"; the SET may have been done.
LockError(t) ==
  /\ At(t, "lock")
  /\ Fault
  /\ lock' \in {lock, [lock EXCEPT ![Coord(t)] = IF @ = 0 THEN LockTTL ELSE @]}
  /\ GoTo(t, "queue")
  /\ UNCHANGED <<kept, packages, job, pending>>

\* The semaphore; the scan reads the registry only now.
Enter(t) ==
  /\ At(t, "queue")
  /\ Cardinality(Busy(Home[t])) < Slots
  /\ GoTo(t, "scan")
  /\ job' = Begun(t)
  /\ UNCHANGED <<kept, packages, lock, pending, faults>>

-----------------------------------------------------------------------------
(* A scan and what becomes of it, in a task or in a request                *)

\* result.error, whatever its reason: a task remembers it, a request answers.
ScanError(p) ==
  /\ At(p, "scan")
  /\ IF p \in Tasks
     THEN GoTo(p, "record") /\ job' = Seen(p) /\ UNCHANGED pending
     ELSE EndRequest(p)
  /\ UNCHANGED <<kept, packages, lock, faults>>

\* The timeout, or an exception: nothing is remembered.  A package may be such
\* that every scan of it ends like this.
ScanFails(p) ==
  /\ At(p, "scan")
  /\ End(p)
  /\ UNCHANGED <<kept, packages, lock, faults>>

\* The scan is done.  _set_cached: the copy for an hour ...
Save(p) ==
  /\ At(p, "scan")
  /\ \/ fresh' = [fresh EXCEPT ![Coord(p)] = [left |-> FreshTTL, version |-> job[p].seen,
                                              timed |-> Kind(p) # "catalog"]]
        /\ UNCHANGED faults
     \/ Fault /\ UNCHANGED fresh
  /\ GoTo(p, "keep")
  /\ job' = Seen(p)
  /\ UNCHANGED <<stale, error, outcome, excused, packages, lock, pending>>

\* Requests that looked for the copy for a week and go on to the error.
Looking(c) == {q \in Callers : At(q, "error") /\ Coord(q) = c}

\* Mutant of Keep: both copies live an hour.
KeepAnHour(p) ==
  /\ At(p, "keep")
  /\ stale' = [stale EXCEPT ![Coord(p)] = FreshTTL]
  /\ outcome' = [outcome EXCEPT ![Coord(p)] = "scan"]
  /\ excused' = excused \cup Looking(Coord(p))
  /\ End(p)
  /\ UNCHANGED <<fresh, error, packages, lock, faults>>

\* ... and the one for a week, which may be lost.
Keep(p) ==
  /\ At(p, "keep")
  /\ \/ /\ stale' = [stale EXCEPT ![Coord(p)] = StaleTTL]
        /\ outcome' = [outcome EXCEPT ![Coord(p)] = "scan"]
        /\ excused' = excused \cup Looking(Coord(p))
        /\ UNCHANGED faults
     \/ /\ Fault
        /\ outcome' = [outcome EXCEPT ![Coord(p)] = IF @ = "error" THEN "lost" ELSE @]
        /\ UNCHANGED <<stale, excused>>
  /\ End(p)
  /\ UNCHANGED <<fresh, error, packages, lock>>

\* Mutant of Record: an error is not remembered.
RecordNothing(t) ==
  /\ At(t, "record")
  /\ EndTask(t)
  /\ UNCHANGED <<kept, packages, lock, faults>>

\* _set_refresh_error.
Record(t) ==
  /\ At(t, "record")
  /\ \/ /\ error' = [error EXCEPT ![Coord(t)] = ErrorTTL]
        /\ outcome' = [outcome EXCEPT ![Coord(t)] = "error"]
        /\ UNCHANGED faults
     \/ Fault /\ UNCHANGED <<error, outcome>>
  /\ EndTask(t)
  /\ UNCHANGED <<fresh, stale, excused, packages, lock>>

-----------------------------------------------------------------------------
(* Requests                                                                *)

\* The catalog's re-scan is nobody's request, and a loop's rather than a caller's.
Call(q, kind, c) ==
  /\ At(q, "idle")
  /\ job' = [job EXCEPT ![q] = [NoJob EXCEPT !.coord = c, !.kind = kind,
                                 !.seen = IF kind \in Direct THEN version[c] ELSE 0]]
  /\ GoTo(q, IF kind \in Direct THEN "scan" ELSE "fresh")
  /\ UNCHANGED <<kept, packages, lock, pending, faults>>

ReadFresh(q) ==
  /\ At(q, "fresh")
  /\ \/ /\ Found(fresh[Coord(q)].left)
        /\ EndRequest(q)
     \/ /\ Missed(fresh[Coord(q)].left)
        /\ UNCHANGED pending
        /\ \/ Kind(q) # "plain" /\ GoTo(q, "stale") /\ UNCHANGED job
           \/ Kind(q) = "plain" /\ GoTo(q, "scan") /\ job' = Begun(q)
  /\ UNCHANGED <<kept, packages, lock>>

\* The fresh-scan limit refuses a request that would scan.
Refuse(q) ==
  /\ At(q, "fresh")
  /\ Kind(q) = "plain"
  /\ Missed(fresh[Coord(q)].left)
  /\ EndRequest(q)
  /\ UNCHANGED <<kept, packages, lock>>

\* A badge without any copy is scanned at once.
ReadStale(q) ==
  /\ At(q, "stale")
  /\ \/ /\ Found(stale[Coord(q)])
        /\ Schedule(q)
        /\ UNCHANGED excused
     \/ /\ Missed(stale[Coord(q)])
        /\ UNCHANGED pending
        /\ \/ /\ Kind(q) = "stored"
              /\ excused' = IF stale[Coord(q)] > 0 THEN excused \cup {q} ELSE excused
              /\ GoTo(q, "error") /\ UNCHANGED job
           \/ /\ Kind(q) = "badge"
              /\ GoTo(q, "scan") /\ job' = Begun(q) /\ UNCHANGED excused
  /\ UNCHANGED <<fresh, stale, error, outcome, packages, lock>>

\* 422, "Not scannable", with the remembered error.
NotScannable(q) ==
  /\ At(q, "error")
  /\ Found(error[Coord(q)])
  /\ EndRequest(q)
  /\ excused' = excused \ {q}
  /\ UNCHANGED <<fresh, stale, error, outcome, packages, lock>>

\* 202, "queued", also when the refresh was dropped.
SayQueued(q) ==
  /\ At(q, "error")
  /\ Missed(error[Coord(q)])
  /\ Schedule(q)
  /\ excused' = excused \ {q}
  /\ UNCHANGED <<fresh, stale, error, outcome, packages, lock>>

-----------------------------------------------------------------------------
(* The world                                                               *)

Publish(c) ==
  /\ version[c] < MaxVersion
  /\ version' = [version EXCEPT ![c] = @ + 1]
  /\ age' = [age EXCEPT ![c][version[c] + 1] = 0]
  /\ UNCHANGED <<kept, lock, pc, job, pending, faults>>

\* A worker dies: its tasks, its requests and its counter are gone.
Crash(w) ==
  /\ Fault
  /\ pc' = [p \in Scanners |-> IF Home[p] = w THEN "idle" ELSE pc[p]]
  /\ job' = [p \in Scanners |-> IF Home[p] = w THEN NoJob ELSE job[p]]
  /\ pending' = [pending EXCEPT ![w] = 0]
  /\ excused' = {q \in excused : Home[q] # w}
  /\ UNCHANGED <<fresh, stale, error, outcome, packages, lock>>

Less(n) == IF n > 0 THEN n - 1 ELSE 0
More(n, most) == IF n < most THEN n + 1 ELSE most

\* "wait_for": the catalog's re-scan has none, and looks up adoption before it saves.
Timed(p) == At(p, "scan") /\ Kind(p) # "catalog"

\* Mutant of InTime: a scan has no timeout.
InTimeAlways(p) == TRUE

\* A scan times out, and what it found is saved in time; all else may be slow.
InTime(p) == Timed(p) => job[p].timer < ScanTime

Tick ==
  /\ \A p \in Scanners : InTime(p)
  /\ fresh' = [c \in Coords |->
                 IF fresh[c].left > 1 THEN [fresh[c] EXCEPT !.left = @ - 1] ELSE NoCopy]
  /\ stale' = [c \in Coords |-> Less(stale[c])]
  /\ error' = [c \in Coords |-> Less(error[c])]
  /\ lock' = [c \in Coords |-> Less(lock[c])]
  /\ age' = [c \in Coords |-> [v \in 1 .. MaxVersion |-> More(age[c][v], Old)]]
  /\ job' = [p \in Scanners |->
               IF Timed(p) THEN [job[p] EXCEPT !.timer = More(@, ScanTime)] ELSE job[p]]
  /\ UNCHANGED <<version, pc, pending, outcome, excused, faults>>

-----------------------------------------------------------------------------
Scan(p) == ScanError(p) \/ ScanFails(p) \/ Save(p) \/ Keep(p)
TaskStep(t) == TakeLock(t) \/ LockError(t) \/ Scan(t) \/ Record(t)
RequestStep(q) == \/ ReadFresh(q) \/ Refuse(q) \/ ReadStale(q)
                  \/ NotScannable(q) \/ SayQueued(q) \/ Scan(q)

Next ==
  \/ \E t \in Tasks : TaskStep(t) \/ Enter(t)
  \/ \E q \in Callers : \/ RequestStep(q)
                        \/ \E kind \in Kinds \ {"refresh"}, c \in Coords : Call(q, kind, c)
  \/ \E c \in Coords : Publish(c)
  \/ \E w \in Workers : Crash(w)
  \/ Tick

Spec == Init /\ [][Next]_vars

\* The event loop runs what is ready and the semaphore serves in turn;
\* time passes, however many requests come; somebody goes on to ask for each
\* coordinate in stored mode.
FairSpec ==
  /\ Spec
  /\ \A t \in Tasks : WF_vars(TaskStep(t)) /\ SF_vars(Enter(t))
  /\ \A q \in Callers : WF_vars(RequestStep(q))
  /\ \A c \in Coords : SF_vars(\E q \in Callers : Call(q, "stored", c))
  /\ SF_vars(Tick)

-----------------------------------------------------------------------------
(* Properties                                                              *)

\* Every key, task and request has its type, and no counter passes its limit.
TypeOK ==
  /\ fresh \in [Coords -> [left : 0 .. FreshTTL, version : 0 .. MaxVersion, timed : BOOLEAN]]
  /\ stale \in [Coords -> 0 .. StaleTTL]
  /\ error \in [Coords -> 0 .. ErrorTTL]
  /\ lock \in [Coords -> 0 .. LockTTL]
  /\ version \in [Coords -> 1 .. MaxVersion]
  /\ age \in [Coords -> [1 .. MaxVersion -> 0 .. Old]]
  /\ pc \in [Scanners -> {"idle", "lock", "queue", "scan", "keep", "record",
                           "fresh", "stale", "error"}]
  /\ job \in [Scanners -> [coord : Coords \cup {None}, kind : Kinds,
                            seen : 0 .. MaxVersion, timer : 0 .. ScanTime]]
  /\ pending \in [Workers -> 0 .. MaxPending]
  /\ outcome \in [Coords -> {"none", "scan", "error", "lost"}]
  /\ excused \subseteq Callers
  /\ faults \in 0 .. MaxFaults

\* scan_package_endpoint: "Cached 1h".  What a request or a refresh has saved and
\* is served as fresh misses only versions published within the hour and the
\* time of a scan, however long the refresh had to wait and whatever scans, the
\* catalog's too, it overlapped.
FreshMeansAnHour ==
  \A c \in Coords :
    fresh[c].left > 0 /\ fresh[c].timed /\ fresh[c].version < version[c]
      => age[c][fresh[c].version + 1] <= FreshTTL - fresh[c].left + ScanTime

\* A stored read is answered "Not scannable" with an error that no later scan
\* has made obsolete, although nothing deletes the error: the copy for a week
\* outlives it.  The answer takes three GETs, and these alone can make it tell
\* an obsolete one: the copy of the scan was never written, the request's own
\* GET of it failed, or the scan ended between that GET and the error's.
NotScannableIsNews ==
  [][\A q \in Callers :
       NotScannable(q) => outcome[Coord(q)] \in {"error", "lost"} \/ q \in excused]_vars

\* "cap how much background work they can queue in one process": a worker never
\* has more refreshes than the cap, across lock losers, failures and crashes.
BackgroundBounded == \A w \in Workers : Cardinality(Alive(w)) <= MaxPending

\* "remembered for a day, so stored mode answers with that reason instead of
\* "queued" forever" and "a scan has been queued. Ask again shortly": who goes
\* on asking is answered with a grade or a reason, although a failed refresh
\* keeps its lock and its errors are swallowed.  Two things can prevent it, and
\* the code does nothing about either: refreshes of the package that go on to
\* time out or to raise, since these are not remembered, and a worker that is
\* always full of other packages' refreshes.
Known(c) == fresh[c].left > 0 \/ stale[c] > 0 \/ error[c] > 0
HasRoomBesides(c) ==
  \A w \in Workers : Cardinality({t \in Alive(w) : Coord(t) # c}) < MaxPending
ScansEnd(c) == <>[][\A t \in Tasks : Coord(t) = c => ~ScanFails(t)]_vars

Answered ==
  \A c \in Coords : <>[]HasRoomBesides(c) /\ ScansEnd(c) => (~Known(c) ~> Known(c))
=============================================================================
