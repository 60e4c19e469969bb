----------------------------- MODULE WorkerLock -----------------------------
(***************************************************************************)
(* The two locks that keep background work in one uvicorn worker, both a   *)
(* Redis key taken with SET NX EX and renewed by a loop that calls EXPIRE  *)
(* without asking whose key it is:                                         *)
(*                                                                         *)
(*   "scheduler"  start_scheduler / stop_scheduler / _lock_refresh_loop    *)
(*                (jobs/scheduler.py): a loser never asks again, a holder  *)
(*                that is stopped deletes the key;                         *)
(*   "task"       run_exclusively (worker_lock.py): a loser asks again     *)
(*                every Retry, and the key of work that ended is left to   *)
(*                expire.                                                  *)
(*                                                                         *)
(* Both go on without the lock when the SET fails.  A worker is "open"     *)
(* when nothing says that the key is there because of it: its SET failed,  *)
(* or more of its renewals in a row than the TTL allows for.  Time is      *)
(* counted in ticks; Lag bounds how late a step of a live worker is.       *)
(***************************************************************************)
EXTENDS Integers, FiniteSets

CONSTANTS Workers,     \* uvicorn worker processes
          TTL,         \* SCHEDULER_LOCK_TTL, run_exclusively's ttl
          Refresh,     \* per kind: SCHEDULER_LOCK_REFRESH, ttl // 3
          Retry,       \* run_exclusively's retry
          Lag,         \* how late a live worker's step is at most
          MaxMiss,     \* per kind: failed renewals in a row the TTL allows for
          MaxOutages   \* bound: SETs that fail and renewals missed beyond MaxMiss

Kinds == {"scheduler", "task"}

ASSUME WorkersAssumption == IsFiniteSet(Workers)

ASSUME TimesAssumption ==
  /\ TTL \in Nat
  /\ Refresh \in [Kinds -> Nat]
  /\ Retry \in Nat
  /\ Lag \in Nat
  /\ MaxMiss \in [Kinds -> Nat]
  /\ MaxOutages \in Nat

\* The key outlives MaxMiss failed renewals and the late one after them.
ASSUME RenewedInTime ==
  \A k \in Kinds : MaxMiss[k] * (Refresh[k] + Lag) + Refresh[k] + 2 * Lag < TTL

VARIABLES kind,     \* which of the two locks this is
          pc,       \* worker -> where it is
          open,     \* worker -> it works on no evidence of a key
          key,      \* ticks the Redis key has left, 0 when there is none
          timer,    \* worker -> ticks since its last timed step
          miss,     \* worker -> renewals that failed in a row
          outages,  \* failures so far that made a worker open
          idle      \* ticks since a worker began to wait with nobody working

vars == <<kind, pc, open, key, timer, miss, outages, idle>>

Places == {"down", "ask", "standby", "work", "stop", "linger", "done"}

Init ==
  /\ kind \in Kinds
  /\ pc = [w \in Workers |-> "down"]
  /\ open = [w \in Workers |-> FALSE]
  /\ key = 0
  /\ timer = [w \in Workers |-> 0]
  /\ miss = [w \in Workers |-> 0]
  /\ outages = 0
  /\ idle = 0

\* Workers that nobody has stopped, or whose stop has not run its course.
Holding == {w \in Workers : pc[w] \in {"work", "stop"}}

\* Workers that were stopped and whose process is not gone: seven loops of
\* start_scheduler have no handle that stop_scheduler could cancel.
Leftover == {w \in Workers : pc[w] = "linger"}

\* Workers in which some background loop runs.
Running == Holding \cup Leftover
Standby == {w \in Workers : pc[w] = "standby"}

\* Places a worker leaves within a given time, and that time.
Timed(w) == \/ pc[w] \in {"ask", "work", "stop"}
            \/ kind = "task" /\ pc[w] = "standby"
Deadline(w) == CASE pc[w] = "ask" -> Lag
                 [] pc[w] = "standby" -> Retry + Lag
                 [] pc[w] = "work" -> Refresh[kind] + Lag
                 [] OTHER -> Refresh[kind] + 2 * Lag

GoTo(w, place) ==
  /\ pc' = [pc EXCEPT ![w] = place]
  /\ timer' = [timer EXCEPT ![w] = 0]
  /\ miss' = [miss EXCEPT ![w] = 0]

-----------------------------------------------------------------------------
(* Start, SET NX, and the loser                                            *)

\* The lifespan hook starts the scheduler or the task.
Start(w) ==
  /\ pc[w] = "down"
  /\ GoTo(w, "ask")
  /\ UNCHANGED <<kind, open, key, outages, idle>>

\* A first SET, or the next one of a loser: only run_exclusively has that.
Asks(w) == \/ pc[w] = "ask"
           \/ kind = "task" /\ pc[w] = "standby" /\ timer[w] >= Retry

\* Mutant of Acquire: SET without NX.
AcquireAnyway(w) ==
  /\ Asks(w)
  /\ key' = TTL
  /\ GoTo(w, "work")
  /\ idle' = 0
  /\ UNCHANGED <<kind, open, outages>>

Acquire(w) ==
  /\ Asks(w)
  /\ key = 0
  /\ key' = TTL
  /\ GoTo(w, "work")
  /\ idle' = 0
  /\ UNCHANGED <<kind, open, outages>>

\* Mutant of Lose: a SET without NX that is undone by nothing renews the key.
LoseRenews(w) ==
  /\ Asks(w)
  /\ key > 0
  /\ key' = TTL
  /\ GoTo(w, "standby")
  /\ UNCHANGED <<kind, open, outages, idle>>

Lose(w) ==
  /\ Asks(w)
  /\ key > 0
  /\ GoTo(w, "standby")
  /\ UNCHANGED <<kind, open, key, outages, idle>>

\* Redis fails; it may have done the SET before.
AcquireError(w) ==
  /\ Asks(w)
  /\ outages < MaxOutages
  /\ outages' = outages + 1
  /\ open' = [open EXCEPT ![w] = TRUE]
  /\ key' \in IF key = 0 THEN {0, TTL} ELSE {key}
  /\ GoTo(w, "work")
  /\ idle' = 0
  /\ UNCHANGED kind

-----------------------------------------------------------------------------
(* The refresh loop                                                        *)

\* Mutant of Renewed: the TTL is added to what the key has left.
RenewedTwice == IF key > 0 THEN key + TTL ELSE 0

\* EXPIRE renews a key that is there, whoever set it, and creates none.
Renewed == IF key > 0 THEN TTL ELSE 0

RefreshDue(w) == pc[w] = "work" /\ timer[w] >= Refresh[kind]

Renew(w) ==
  /\ RefreshDue(w)
  /\ key' = Renewed
  /\ GoTo(w, "work")
  /\ UNCHANGED <<kind, open, outages, idle>>

\* The error is caught, whether or not Redis did the EXPIRE.
RenewError(w) ==
  /\ RefreshDue(w)
  /\ key' \in {key, Renewed}
  /\ timer' = [timer EXCEPT ![w] = 0]
  /\ IF miss[w] < MaxMiss[kind]
     THEN /\ miss' = [miss EXCEPT ![w] = miss[w] + 1]
          /\ UNCHANGED <<open, outages>>
     ELSE /\ miss' = [miss EXCEPT ![w] = 0]
          /\ open' = [open EXCEPT ![w] = TRUE]
          /\ outages' = IF open[w] THEN outages ELSE outages + 1
          /\ outages' <= MaxOutages
  /\ UNCHANGED <<kind, pc, idle>>

-----------------------------------------------------------------------------
(* The end of the work                                                     *)

\* stop_scheduler cancels the loops and the refresh loop.
Stop(w) ==
  /\ kind = "scheduler"
  /\ pc[w] = "work"
  /\ pc' = [pc EXCEPT ![w] = "stop"]
  /\ UNCHANGED <<kind, open, key, timer, miss, outages, idle>>

\* The cancelled refresh loop deletes the key, whoever set it; an error is
\* ignored.  The loops without a handle run on while the rest of the shutdown
\* hook is awaited, until the process is gone.
Release(w) ==
  /\ pc[w] = "stop"
  /\ key' \in {0, key}
  /\ GoTo(w, "linger")
  /\ open' = [open EXCEPT ![w] = FALSE]
  /\ UNCHANGED <<kind, outages, idle>>

\* work() returns, raises or is cancelled: run_exclusively ends for good.
WorkEnds(w) ==
  /\ kind = "task"
  /\ pc[w] = "work"
  /\ GoTo(w, "done")
  /\ open' = [open EXCEPT ![w] = FALSE]
  /\ UNCHANGED <<kind, key, outages, idle>>

\* The process ends, killed at any point or after its shutdown.
Die(w) ==
  /\ pc[w] # "down"
  /\ GoTo(w, "down")
  /\ open' = [open EXCEPT ![w] = FALSE]
  /\ UNCHANGED <<kind, key, outages, idle>>

-----------------------------------------------------------------------------
(* Time                                                                    *)

InTime == \A w \in Workers : Timed(w) => timer[w] < Deadline(w)

Idle == IF kind = "task" /\ Standby # {} /\ Holding = {} THEN idle + 1 ELSE 0

Tick ==
  /\ InTime
  /\ key' = IF key > 0 THEN key - 1 ELSE 0
  /\ timer' = [w \in Workers |-> IF Timed(w) THEN timer[w] + 1 ELSE timer[w]]
  /\ idle' = Idle
  /\ UNCHANGED <<kind, pc, open, miss, outages>>

Next ==
  \/ \E w \in Workers :
       \/ Start(w) \/ Acquire(w) \/ Lose(w) \/ AcquireError(w)
       \/ Renew(w) \/ RenewError(w)
       \/ Stop(w) \/ Release(w) \/ WorkEnds(w) \/ Die(w)
  \/ Tick

\* The supervisor restarts a worker, the event loop runs every step that is
\* due, and time passes.
Fairness ==
  /\ \A w \in Workers : /\ WF_vars(Start(w))
                        /\ WF_vars(Acquire(w) \/ Lose(w))
                        /\ WF_vars(Renew(w))
                        /\ WF_vars(Release(w))
  /\ WF_vars(Tick)

Spec == Init /\ [][Next]_vars
FairSpec == Spec /\ Fairness

-----------------------------------------------------------------------------
(* Properties                                                              *)

\* Every variable stays in its type: in particular the key has between 0 and
\* TTL ticks left, and the failures stay within their bound.
TypeOK ==
  /\ kind \in Kinds
  /\ pc \in [Workers -> Places]
  /\ open \in [Workers -> BOOLEAN]
  /\ key \in 0 .. TTL
  /\ timer \in [Workers -> Nat]
  /\ miss \in [Workers -> Nat]
  /\ outages \in 0 .. MaxOutages
  /\ idle \in Nat

\* start_scheduler's docstring: "only one uvicorn worker runs the scheduler";
\* run_exclusively runs the work "in whichever worker holds key".  Two things
\* add a runner: a failure of Redis, and for the scheduler a worker that was
\* stopped and is still shutting down, since it gives the key away while its
\* loops without a handle run.  Nothing else does: although EXPIRE and DEL ask
\* nobody whose key it is, a restarted worker, an expiry or another worker's
\* release never adds one.
OneRunner ==
  /\ Cardinality(Running) <= 1 + outages + Cardinality(Leftover)
  /\ kind = "task" => Cardinality(Running) <= 1 + outages

\* run_exclusively's docstring: "if the holder dies the work moves to another
\* worker within about ttl seconds".  No worker waits longer than the TTL and
\* one retry while nobody works, whatever died, ended or failed before.
TakeoverInTime == idle <= TTL + Retry + Lag

\* scheduler.py:53 and :893: the key "auto-expires if worker dies" and is
\* released "so another worker can take over": once the workers stay up, one
\* of them runs the scheduler again and again.
SchedulerTakenOver ==
  <>[](kind = "scheduler" /\ \A w \in Workers : pc[w] \in {"ask", "standby", "work"})
    => []<>(Running # {})
=============================================================================
