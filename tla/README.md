# AgentAvow: a verification project

AgentAvow scans agent tools (npm, PyPI, Docker, MCP servers, skills, repositories),
signs a trust score for each, and runs many of them in a sandbox to see what they do.
It is one FastAPI application that runs as several worker processes, with PostgreSQL for
records and Redis for everything the processes coordinate with: leases, locks, queues,
caches. The sandbox itself is one small machine.

The part that is hardest to get right, and hardest to test, is the coordination: who may
use the sandbox, when, and what happens to the others. The project starts there. The second
is the money: a marketplace purchase whose rows and whose payment are in two systems that
share no transaction. Then come the parts that keep the rest going in the background: the
single-worker locks, the daily re-scan of watched tools, webhook delivery, and the cache of
package scans with its refresh.

## Inventory

| Part | State | Operations | What is hard, and what makes it correct |
|---|---|---|---|
| Sandbox slots, `scanner/behavioral/slots.py` | `behavioral:slots:leases` (Redis sorted set of leases), `_HELD`, `_RUN_TASKS` | `acquire_slot`, `release_slot`, `refresh_slot`, `holding`, `shutdown`, `slot_holders` | four Redis commands per acquire interleave with everybody's; late heartbeats, errors, killed containers. The caps are exact; a live run keeps its lease; nothing leaks |
| Sandbox tier, `api/public_scan_router.py`, `behavioral/trigger.py`, `jobs/behavioral_backfill.py` | coordinate lock, cached block, `behavioral:queue` and its payload hash | `_behavioral_block`, `_start_behavioral_payload`, `enqueue`, `drain`, `_run_in_slot`, `on_scan_change`, the backfill and the queue tick | many starters of one coordinate, stale locks, drains that race with enqueues. One run per coordinate; no lock or slot is lost; the queue keeps its bound and runs empty when requests stop |
| Pending-age markers, `slots.py` | `behavioral:pending_since:*` | `pending_age`, `clear_pending`, `check_health` | stale markers, warnings over two reads |
| Behavioral eval and watchdog, `jobs/behavioral_eval.py`, `jobs/sandbox_watchdog.py` | running flag, corpus overrides, alert dedupe | `hold_slot`, `mark_running`, `apply_corpus_edit`, `run_watchdog` | waiting for a slot with a deadline; unlocked read-modify-write of the corpus overrides |
| Single-worker locks, `worker_lock.py`, `jobs/scheduler.py` | `SET NX` keys with a TTL | `try_acquire`, `_refresh_loop`, `run_exclusively`, `start_scheduler`, `stop_scheduler` | refresh without an owner check, plain deletes, losers that never ask again. One worker runs the work but for failures of Redis and a shutdown under way, and it moves on when that worker dies |
| Watches and alerts, `jobs/scheduler.py`, `jobs/watch_alert_hold.py`, `api/watch_router.py` | baselines of a `ToolWatch`, the hold key | `_run_watch_rescan` | alerts before the commit of the baseline; a snapshot that goes stale during the pass; scans that fail or show nothing; fingerprints that keep only digests and counts. Each change is told, and for cause |
| Escrow and disputes, `api/marketplace_router.py`, `api/disputes_router.py`, `payments/escrow.py` | transaction and dispute rows, payment intents | purchase, confirm, cancel, refund, dispute, resolve, adjudicate, Stripe's events | row locks taken after checks; an external payment before the commit; repeated events. The rows say what happened to the money |
| Webhook delivery, `jobs/webhook_worker.py`, `events.py` | subscription health | `dispatch_webhooks`, `process_event`, `deliver_with_retries`, the owner's handlers, suspension and appeal | counters computed from rows read minutes ago, written inside the session of the request. Off for failures in a row when sessions do not overlap, and for as many failures in any case; never on by a delivery |
| Public scan cache, `api/public_scan_router.py` | scan cache (a copy for an hour, one for a week), remembered errors, refresh locks, a semaphore and a counter per worker | `scan_package_endpoint`, `_package_badge_data`, `_refresh_package`, `_rescan_catalog_row` | overlapping scans that overwrite each other, a lock nobody gives back, swallowed errors. Bounded work, no obsolete answer but where a copy was lost, an answer in the end when some scan ends |
| Accounts, agents, delegation | rows, tokens | claims, key rotation, delegation states | mostly single-row transactions |
| MCP health, email queue, GitHub token cache | counters, a list, a cached token | probes, `enqueue`, refresh | alert hysteresis, retry, one refresh at a time |
| Static scanner, trust score, graders, preflight | none (functions) | file contents to findings, rows to a number | pattern tables and weights; no protocol |
| Signing, DIDs, attestations | keys | sign, verify | cryptography over documents |
| Social, feed, messages, moderation, bridges, marketing, UI, SDKs | rows | create / read / update | single-row operations and translations |

The parts meet in few places. The tier takes slots and gives them back. The scheduler's
loops (watch re-scan, catalog re-scan, backfill) trigger the tier, and run in the worker that
holds the scheduler's lock: the watch re-scan relies on it for one pass at a time. The watch
re-scan reads the tier's cached block for its alerts, and the catalog's re-scan writes the
copies that the scan endpoints serve. Marketplace and webhooks share only the event channel
with the rest.

## Modules

| Module | What it is |
|---|---|
| `SlotPool` | the abstract promise of the slots: a set of holders, a run joins only when there is room for it and for the slot that must stay free |
| `SandboxSlots` | the lease protocol, one action per Redis command |
| `SandboxSlots_proofs` | its theorems |
| `SandboxTier` | who asks for a run, the coordinate lock, queue, drain, runs, cache; its slots are `SlotPool` (`INSTANCE`), which `SandboxSlots` implements |
| `SandboxTier_proofs` | type correctness, one run per coordinate, owners of locks and slots, the bounds of the sandbox and the queue |
| `Settlement` | the abstract promise of a purchase: money that moves once, a record that follows it, a dispute that is decided by a true entry |
| `Escrow` | one purchase: its transaction row, its dispute row, its payment at Stripe, and every request and event that touches them |
| `Escrow_proofs` | type correctness, that the row agrees with the payment, that `Escrow` implements `Settlement` |
| `WorkerLock` | the two renewed locks, the scheduler's and `run_exclusively`'s, as two kinds of one protocol |
| `WorkerLock_proofs` | one runner, takeover in time |
| `WatchRescan` | the daily pass over the watches beside the users who add and remove them |
| `WatchRescan_proofs` | alerts mean something new, have their cause, and none is swallowed |
| `WebhookDelivery` | the subscription rows and everybody who writes them |
| `WebhookDelivery_proofs` | off for cause, and off stays off |
| `ScanRefresh` | the package scan cache, its readers and writers, the background refresh |
| `ScanRefresh_proofs` | the cap, the hour, the remembered error |
| `MC...` | one per module above `SlotPool`: model values, data and symmetry for TLC |

### SandboxSlots

`lease` is the sorted set. A score is the time the lease expires; the model keeps the time
that is left, so the state space is finite without a bound on the clock. `pc` says between
which two awaits a run's task stands, `timer` how long ago it read the clock or ended its
last heartbeat, `hb` where its heartbeat stands, `miss` how many heartbeats failed in a row.
`lock` is what is left of the coordinate lock, which the heartbeat renews as well.

| Code | Actions |
|---|---|
| `acquire_slot` | `Begin`, `SweepExpired`, `Add`, `CountReject` / `CountAccept`, `Undo`, `Expire`; `AcquireError` for an exception anywhere in it, the command applied or not |
| `refresh_slot` | `BeatCheck` (ZSCORE), `BeatExtend` (ZADD XX), `BeatLock` (EXPIRE), `BeatFail` |
| `holding`, `release_slot` | `Finish`, `Release`, `FinishOpen` (a run without a lease) |
| `_release_behavioral_lock` | `Unlock` |
| `shutdown` | `Finish` (cancellation), `ShutdownRelease` |
| `slot_holders` | `Watchdog` |
| nothing: the world | `Crash`, `Tick` |

Two numbers of the environment are in the guard of `Tick`: `Lag`, the longest time a handler
needs for its Redis commands, and `MaxMiss`, how many heartbeats may fail in a row. The code
sets neither (its Redis client has no socket timeout). `TTLAssumption` is what the constants
must satisfy for them; 600 s and 120 s do for `MaxMiss` = 2 and a `Lag` under a minute.

### SandboxTier

A task is a request handler, a scheduler loop or a background run, and takes one step per
await. `pc` is the await it stands at, `job` its locals: the coordinate, the priority, force,
and `via`, the caller that decides what an outcome leads to (`After`). A run is a task of its
own: it ends in `LeaveSlot` and goes on as a drain, as `_run_in_slot` does.

| Code | Actions |
|---|---|
| `_behavioral_block` | `View`, `ForceRerun`, `StartInline`, `QueueForced`, `ReturnInline` |
| `on_scan_change`, `on_watch_rescan`, `enqueue_behavioral` | `ScanChange`, `WatchMissing` and `After` |
| `run_behavioral_backfill`, `behavioral_queue_tick` | `Backfill`, `DrainTick`, both by the task `Loop` |
| `_start_behavioral_payload` | `CheckCache`, `TakeLock` / `FindLocked`, `StartRun` / `FindNoSlot`, `Unlock` |
| `enqueue`, `_drop_one` | `ReadPayload`, `WritePayload`, `AddMember`, `CheckBound`, `DropOne` |
| `drain` | `Peek`, `Load`, (start), `RemoveMember`, `RemovePayload` |
| `_run_in_slot` | `EndRun`, `LeaveSlot`; `Cancel`, `CancelUnlock` and then enqueue |
| the world | `Crash`, `LeaseExpire`, `LockExpire`, `CacheExpire` |

The queue is kept as one sequence per priority band, oldest first: a score is
`band * BAND + time`, so bands never mix and a new member goes to the end of its band.
`lock[c]` is `held` while a task works under it and `left` when it only waits for its TTL;
the code cannot tell them apart, and no guard does. `cache[c]` is the version the block was
observed on.

### Escrow

A request (or a delivery of an event) is one database session, as `get_db` makes it. `pc` says
what it waits for: a row lock (`lock`), Stripe (`call`), the lock its UPDATE needs (`write`),
the commit (`commit`); `op` what it does. `status`, `amount` and `dispute` are the *committed*
rows. The dispute handlers read them without a lock, so what they read may be old when they
write; the transaction handlers use SELECT FOR UPDATE. `pi` and `paid` are Stripe's and no
rollback reaches them. `unacked` are the events Stripe still has to deliver.

| Code | Actions |
|---|---|
| `purchase_listing`, the MCP purchase tool | `Purchase` |
| `confirm_purchase`, `cancel_transaction`, `refund_transaction` | `LockAndCheck`, `Call` / `CallRefused`, `Commit` |
| `open_dispute` | `OpenDispute`, `WriteTransaction`, `Commit` |
| `add_dispute_message`, `escalate_dispute` | `Message`, `Escalate`, `WriteDispute`, `Commit` |
| `resolve_dispute`, `admin_adjudicate_dispute` | `Resolve`, `LockTransaction`, `Call` / `CallRefused`, `WriteDispute`, `Commit` |
| `stripe_webhook` | `Deliver`, `WriteTransaction`, `Commit` |
| `cascade_deactivate` | `Deactivate` |
| `get_db`'s rollback, a dead worker | `Rollback`, `Abort` |
| Stripe and the buyer's browser | `Authorize`, `HoldExpire`, `Accepts`, `Emitted` |

`Settles` says that this is a `Settlement` (`INSTANCE ... WITH`): `Money` forgets whether a
payment is authorized yet, `Book` which of the open states the row is in, `Shown` is the amount of
a completed row, `Verdict` whether the dispute is resolved. Requests, locks, Stripe's events and
what a session has not committed yet are not in the abstract state at all. What it adds to the
invariants is about steps: no step moves both money and record (a call of Stripe and the commit
after it are two, and the second may fail), the record becomes `cancelled` or `refunded` only
when the money is back at that moment, or never was there, and a verdict comes in the commit that writes such an
entry. A disputed purchase counts as open again, whatever it was before (see the finding
`escrow_dispute`), and a message or an escalation may reopen a decided dispute (`Reopen`).

### WorkerLock

`kind` says which of the two locks a behaviour is about; both are a key taken with SET NX EX
that a loop renews with a plain EXPIRE. `pc` is where a worker stands, `timer` how long since
its last timed step, `key` what the key has left. A worker is `open` when it works although
nothing says that the key is there because of it: its SET failed, or more renewals in a row
than the TTL allows for. `Holding` are the workers whose work nobody has stopped to the end.
`Leftover` are stopped schedulers whose process is not gone: seven loops of `start_scheduler` are
created without a handle, `stop_scheduler` cannot cancel them, and they run on while the shutdown
hook awaits the rest of its work. `Running` is both. A tick is about six seconds: TTL 10 (60 s), renewal 7 or 3 (45 s,
20 s), retry 5 (30 s).

| Code | Actions |
|---|---|
| `lifespan` (a worker starts) | `Start` |
| `start_scheduler`, `run_exclusively` (the SET) | `Acquire`, `Lose`, `AcquireError` |
| `_lock_refresh_loop`, `_refresh_loop` | `Renew`, `RenewError` |
| `stop_scheduler`, the cancelled refresh loop | `Stop`, `Release` |
| work of `run_exclusively` that returns | `WorkEnds` |
| the world | `Die`, `Tick` |

### WatchRescan

A pass has read the rows it works on (`base`), then takes one watch after the other: `Check`
is the scan, the comparison and the alerts that leave at once, `Save` the commit of the new
baseline with the notification. `row[w]` has an id of its own, so that a watch that was
removed and added again is another row, as in the database. A finding is a member of a set;
the code keeps a digest and a count of each set and guesses from those (`Grew`, `Shrank`).
`last`, `sent`, `stored` and `overlaps` are history: what the watcher was last told, the
alerts that left, the notifications that were committed, and passes begun beside another.

| Code | Actions |
|---|---|
| `add_watch`, `remove_watch` | `AddWatch`, `RemoveWatch` |
| `_run_watch_rescan` | `Begin` (the query, the hold), `Check` or `ScanFail`, `Save` (`Commit`, `Discard` when the row is gone, `Abort` when the session was spoilt), `End` |
| `_watch_rescan_loop` (its except) | `Abort`, `End` |
| the world | `Change` (a new version), `Crash` |

### WebhookDelivery

A session is a request that dispatches, or the worker. It reads the rows once (`Read`), posts
to one subscription after the other (`Deliver`: all retries are one outcome), and writes the
columns it has changed (`Write`). Three variables are history. `failed` counts the failed
deliveries since a subscription last had a clean start, which is a counter of zero with nothing
under way; `streak` those since its last success; `upset` are the subscriptions of which, since
their clean start, two sessions overlapped or one that had delivered was lost (`Settle`).

| Code | Actions |
|---|---|
| `dispatch_webhooks`, `process_event`, `deliver_with_retries` | `Read`, `Deliver`, `Write`, `WriteFails` |
| `get_db`'s rollback | `Rollback` |
| `create_webhook`, `delete_webhook` | `Create`, `Delete` |
| `activate_webhook`, `deactivate_webhook` | `OwnerReads`, `OwnerWrites` |
| `cascade_deactivate`, `resolve_appeal` | `Suspend`, `Overturn` |
| the world | `Break` (an endpoint goes for good) |

### ScanRefresh

A scan runs in a background refresh (`Tasks`) or in a request (`Callers`, the catalog's loop
among them), and ends the same way in both (`Scan`). What a scan saw of the registry is what
was published when it began, the oldest it can be; `age` says how long ago each version was
published. Every key is kept as the time it has left. Two variables are history: `outcome` is
what a coordinate's last scan left for long, `excused` the requests that are about to read the
error and missed a copy for a week that was there, or was written after they had looked.

| Code | Actions |
|---|---|
| `scan_package_endpoint`, stored | `Call`, `ReadFresh`, `ReadStale`, `NotScannable` (422) or `SayQueued` (202), `Schedule` |
| `scan_package_endpoint`, plain and forced | `Call`, `ReadFresh`, `Refuse`, `Scan` |
| `_package_badge_data` | `Call`, `ReadFresh`, `ReadStale` with `Schedule` or `Scan` |
| `_rescan_catalog_row` | `Call`, `Scan` |
| `_refresh_package`, `_refresh_package_counted` | `TakeLock` or `LockError`, `Enter` (the semaphore), `Scan`, `Record`; `EndTask` |
| a scan: done, `result.error`, timeout or exception | `Save` and `Keep` (`_set_cached`), `ScanError`, `ScanFails` |
| the world | `Publish`, `Crash`, `Tick` |

### Simplifications, and why they are sound for what is checked

- `SandboxTier` takes a slot in one step. `NoRoom` lets it be refused also when another task
  is acquiring at the same moment, which is what the interleaved commands can do.
- The commands of `_drop_one` are one step, as are the SCAN and DELs of the invalidation.
- The tier assumes that Redis answers; `SandboxSlots` models its errors.
- `CacheExpire` is enabled only when no lock, queue entry or task of the coordinate is left:
  the block lives a day, the others minutes.
- The TTL of the lease *key* (twice a lease, renewed by each successful acquire and each
  heartbeat) is left out; so is an event loop that stalls for minutes (`Tick`'s guard).
- A starter holds the lock for moments, so a `held` lock does not expire; one drain may start
  any number of entries (the code stops at 500).
- `Escrow` is one purchase; who a caller is only decides which resolutions it may choose, and
  every resolution is open to somebody. That Stripe refuses to capture or cancel a payment that
  is not in a state for it is its documented behaviour, and an assumption.
- The status, audit, notification and webhook rows that a handler writes after Stripe's answer
  are one commit. A message that finds the dispute past "open" writes no modelled row.
- `WorkerLock`: a worker runs its loops or does not; which of them are left after a stop does not
  matter to a property. They end with the process (`Die`), which may take any time. The
  backfill's own pass lock, which nobody renews, is left out.
- `WatchRescan`: a scan is one step, and sees the version published at that moment. Whether the
  hold is on is chosen at `Begin`. Failures of e-mail and webhook are swallowed by the code and
  change no modelled state. A pass reads any `Limit` of the watches; the runs keep within it.
- `WebhookDelivery`: one event type and one entity, whose subscriptions all get each event. A
  request dispatches once. Flush and commit are one step: a flush that fails is `WriteFails`.
  An owner's request is not held back while the owner is suspended. A change of a URL, its
  signature and the cap of subscriptions are left out. The passing run has one subscription;
  that two rows may share an UPDATE statement, whose count of rows is then not checked
  (`Alike`), is in the model and the theorems only.
- `ScanRefresh`: one coordinate is a surface, a name and a version as the cache has it. The
  rate limiter is a refusal at any time. `ScanTime` is a scan's timeout and the time to write
  the first copy; of the copy for a week only its age matters to a property. A place for a
  refresh is numbered and the first free one is taken, since they differ in nothing. The
  catalog's scans begin at any time, in any worker; the code has one loop for them.
- Metrics, logging, the returned blocks and the queue position are left out.

## What the runs show

Properties are stated in the modules with the comment or docstring they come from.

| Run | Instance | Result |
|---|---|---|
| `slots_cap` | 2 normal + 2 low takers, 2 slots | `Cap`, `LowCap`: add-then-count is exact under every interleaving of the commands, with errors, expiry, crashes. `PoolSpec`: the leases implement `SlotPool` |
| `slots_heartbeat` | 2 runs with locks, beat 2, lag 1, one missed beat | `RunningKeepsLease`, `RunningKeepsLock`: a live run loses neither; `LeftoverFreed`: what a dead holder left is swept |
| `tier` | 2 coordinates, 3 handlers with the queue's loop, 1 normal and 2 low runs, 2 slots, a queue of 1, 2 asks, 2 versions, no fault | `OneBackgroundRun`, `HeldLockHasOwner`, `QueueBounded`: starters of every kind and drains keep one run per coordinate, a lock always has an owner or only its TTL, the queue its bound; `SandboxBounded`: the low runs never fill the sandbox |
| `tier_served` | 2 coordinates, both priorities, 2 slots, 2 asks, 1 fault | `OneBackgroundRun` and `HeldLockHasOwner` when a run is cancelled or a task dies; `SlotsAccounted`: no such end leaks a slot or frees one early; `QueueEmptied`: once requests stop, nothing stays in the queue |
| `escrow` | 2 requests, 2 deliveries, a price of 2, 1 failed commit | `StatusBacked`, `AmountPaid`: the row never claims what Stripe did not do, nor another amount; `StripeOwes`, `Recorded`: a capture or cancellation whose commit failed is still owed as an event and reaches the row through its event; `Settles`: all of it is a `Settlement` |
| `worker_lock` | 3 workers, either lock, 2 outages | `OneRunner`: although EXPIRE and DEL ask nobody whose key it is, only a failure of Redis adds a runner, and a stopped scheduler that is still shutting down no more than itself; `TakeoverInTime`: work that stopped is taken over within the TTL and one retry |
| `watch` | 1 watch, 2 passes that may overlap, 3 versions, 2 adds, 1 fault | `BehaviorAlertMeansNew`, `AlertsHaveCause`: no alert without something new; `ToldOfEveryChange`, `ChangeNoticed`: no change is swallowed, and each is found |
| `webhooks` | 1 subscription, 1 request, the worker, an owner, a threshold of 3, 1 fault | `TurnedOffForCause`: only as many failures as the threshold turn it off, and in a row unless sessions overlapped or a successful one was lost; `StaysOff`: lost updates undo no switch; `BrokenLeftAlone`: a dead endpoint is off in the end |
| `refresh` | 1 coordinate, 1 worker, room for 2 refreshes and 1 scan, a request, 2 versions, 1 fault | `FreshMeansAnHour`: a copy is as new as it says; `NotScannableIsNews`: an answer "Not scannable" is obsolete only in three named cases; `BackgroundBounded`: bounded work; `Answered`: who goes on asking is answered, unless every refresh times out or other packages fill the worker |

Three runs show where the code and what is written about it disagree (PROJECT.json
"findings" has the quotes). TLC finds a counterexample in each:

| Run | What happens |
|---|---|
| `escrow_dispute` | A dispute is opened; before its UPDATE the purchase is confirmed or cancelled; the UPDATE overwrites that with "disputed". Nothing can end the dispute: Stripe refuses every resolution. |
| `scheduler_takeover` | The leader dies; its restarted process asks before the key has expired and loses. Both workers stand by, and nobody asks again: the scheduler runs nowhere. |
| `webhooks_best_effort` | A subscription is deleted while a request posts to it. The flush of its counter fails, the caller swallows that, and the request's own writes are rolled back with it. |

Other behaviours of the code that came up while modelling. The models have them, and no run is
spent on them. The properties above hold in spite of them, or have them as a condition that their
statement and comment name, where it says so.

- Tier: a run that ends normally leaves its coordinate lock to the TTL, so for up to ten
  minutes every start is answered "locked" with nothing in flight, a queued forced re-run too.
- Tier: a drain drops a queued entry that meets the lock of a backfill which then finds no slot.
- Tier: an enqueue between a drain's ZREM and HDEL leaves a member without its arguments, and
  the next drain discards it.
- Tier: a run of the old version in flight caches its block after the invalidation.
- Tier: while requests go on, each takes a freed slot past the queue
  (`public_scan_router.py:787-796`), the drain stops at the first entry without a slot
  (`slots.py:355-356`), and a low entry needs a second slot free: a queued request may wait for
  ever, although it is told that it "starts when a slot frees". On a single slot a low entry never
  starts: `trigger.py:261` asks for room before it queues one, `public_scan_router.py:722-730`
  does not. `QueueEmptied` has both as its conditions.
- Scheduler: after a graceful stop the next worker's loops run beside the seven that were not
  cancelled (`scheduler.py:1921-1965`), until the old process is gone; the docstring of
  `start_scheduler` says "only one uvicorn worker runs the scheduler". `OneRunner` counts them.
- Disputes: an escalation or a message that read an open dispute reopens a resolved one.
- Payments: a late "succeeded" event that read the row in escrow may write COMPLETED over a
  refund that committed meanwhile, for good when the refund's own event came before.
- Watches: a name that does not fit a notification ends every pass at its watch (`Spoilt`,
  `Abort`); `ChangeNoticed` fails for it and the watches after it, so the run has none.
- Webhooks: "10 consecutive failures" (`events.py:127`, `webhook_worker.py:7`) is not what counts
  when sessions overlap: one reads 9, another delivers and writes 0, the first fails and writes
  10, and the subscription is off after one failure in a row. A request that delivered and is then
  rolled back loses its zero as well. `TurnedOffForCause` has these as its two exceptions.
- Webhooks: an activation is undone by a delivery that began before it and fails; a success
  that read a counter of zero does not reset what others have counted since; an overturned
  appeal also turns on what the owner had switched off, and keeps the counter.
- Refresh: the lock (300 s) is shorter than the wait behind a full semaphore, so two refreshes
  of one package can run; every error is remembered for a day, transient ones too.
- Refresh: a remembered error is never deleted, so an obsolete one is told ("Not scannable") when
  the copy for a week was not written, when the GET of it fails, or when the scan ends between
  that GET and the error's. `NotScannableIsNews` has these three as its exceptions.
- Refresh: a timeout or an exception is not remembered (`public_scan_router.py:1654-1660`), so a
  package whose every scan takes over 90 s is "queued" for ever, against the comment at 1585-1587;
  so is one whose refreshes are always dropped because others fill the cap. `Answered` has both
  as its conditions.
- Refresh: the catalog's re-scan has no timeout and may overwrite a newer copy. What
  `FreshMeansAnHour` says, it says of the copies of scans that have one.

**Bounds.** Two takers of each priority are enough for one to be counting while another is
between its ZADD and its count, a third expired and a fourth holding; the theorems below say
that more change nothing. The TTLs of the slots are the smallest that satisfy `TTLAssumption`.
In the tier `MaxAsks` bounds how many requests come (so that they stop, which `QueueEmptied`
says of itself), `MaxFaults` cancellations, errors and
crashes, `MaxVersion` the published versions; two asks are enough for a race and, when both are
told that there is no slot, for a queue of one that overflows; the faults are in `tier_served`,
with a queue that does not. Two coordinates let one wait behind the other, and two low runs are
what could fill two slots. The tier's runs may stop when the asks are used up, so deadlock is
not checked there; it is for the slots, which never stop. A purchase ends too. It needs two
sessions for each of its races, a second delivery for an event that comes twice or beside
another, a price of 2 for a partial capture of 1 between nothing and everything; `MaxFaults` = 1
loses any one commit. A third worker is one that asks while the other two hold and renew; two
outages let a second runner in and cost a third its renewals. A watch needs three versions for
an alert, the next, and one that hides its definitions in between; two passes overlap, and a
second add makes another row of the same watch. A threshold of 3 is one more than the two
sessions that can overwrite each other's count. A refresh needs room for one more than scans at
a time, so that one waits, and a place beyond the cap; its TTLs are the smallest with the order
that `TTLAssumption` asks for, so the hour and a scan are one tick each. The theorems hold for
all of these numbers.

**Fairness.** `SandboxSlots`: the event loop runs ready tasks, time passes, and the queue
loop calls `slot_holders` on every pass (`check_health`). Nothing forces a run to end.
`SandboxTier`: tasks take their next step, a run ends (the sandbox has a wall clock limit),
leases and locks expire, the queue loop ticks. No request, fault or cache expiry is owed.
`Escrow`: a session goes on, and PostgreSQL serves those who wait for a row in the order they
came (strong fairness, since the row is locked again and again); Stripe repeats an event until
it gets a 200. No user owes a request, and failed commits are finitely many.
`WorkerLock`: the supervisor restarts a worker, due steps run, time passes.
`WatchRescan`: a pass begins every day and goes on, which assumes that some worker runs the
scheduler; `scheduler_takeover` is about when none does.
`WebhookDelivery`: events keep coming, sessions and the owner's requests go on.
`ScanRefresh`: the event loop runs ready tasks; the semaphore serves in the order of arrival
(strong fairness of `Enter`, which others disable in between); time passes however many requests
come; and somebody goes on asking for the package in stored mode, which is what the answer
"Ask again shortly" tells the caller to do. No scan is owed a success or an end: every scan may
time out, without a bound, and `Answered` says of itself that it is about packages some of whose
scans do not. Its other condition, room besides the refreshes of other packages, is always met in
the run, which has one package: the bound on the work of several is `BackgroundBounded`'s.

**Mutants.** The definitions marked "mutant" in the modules are the code with a plausible bug
(the old shared TTL, a missing NX, a bound off by one, an early return that forgets the lock,
an error that is not remembered, an event acknowledged too early, a swallowed refusal, a
renewal without a limit, a whole row written back, a counter no success sets back). They are
used by no specification; each is what one property rules out.

## What is proved

`SandboxSlots_proofs`, for every set of runs, every limit and all TTLs that satisfy the two
assumptions of the module:

| Theorem | States |
|---|---|
| `TypeCorrect` | `[]TypeOK` |
| `CapHolds`, `LowCapHolds` | at most `Limit` leased runs; low ones leave a slot free |
| `LeaseKept`, `LockKept` | a run in the sandbox keeps its lease and its lock |
| `ImplementsPool` | `Spec => PoolSpec` |

`Cap` is not inductive: a run that is counted and then loses its lease would let another in.
So the argument goes through time first. `TimeInv` bounds, for each run, what is left of its
lease and lock by where it stands, how long ago it read the clock and how many heartbeats it
has missed; each action keeps it (`TimeStep`), `TTLAssumption` is used in `LateFacts` only,
and from it every leased run has a live lease (`HeldIsLive`). Then a leased run is a member of
the set, so the count of an accepted taker bounds the leased runs including itself
(`AcceptHasRoom`), and the two caps and the refinement follow (`CapStep`, `OtherSteps`).

`SandboxTier_proofs`, for every set of handlers, runs and coordinates and every bound:

| Theorem | States |
|---|---|
| `TypeCorrect` | `[]TypeOK` |
| `OneBackgroundRunHolds` | one background run per coordinate |
| `HeldLockHasOwnerHolds` | no lock is held without a task under it |
| `SlotsAccountedHolds` | a slot is taken exactly while its run works, ends or is dead with its lease |
| `SandboxBoundedHolds` | at most `Limit` runs in the sandbox, and fewer low ones, forced ones included |
| `QueueBoundedHolds` | the queue is over its limit by those only who are about to trim it, or died before |

`OneBackgroundRun` alone is not inductive: a run starts from a task that holds the lock, not
from another run. `LockInv` speaks of every place between `SET NX` and the end of what the lock
protects (`OwnsLock`): an owner's lock is `held`, a coordinate has one owner, a held lock has
one. There are four ways to touch a lock (`TakeLocks`, `HandOverLocks` from the starter to its
run, `GiveUpLocks`, `ExpiryLocks`), and `MoveLocks` covers every other step. `JobInv` says that
a task past its start has its locals; the lemmas `...Control` and `...Data` are type correctness
in two halves. `SlotsAccounted` is inductive with `TypeOK`; that every step of the tier is a
step of `SlotPool` (`UsesPool`) carries the pool's bound over (`PoolBoundedStep`), and the two
together bound what is in the sandbox. TLC challenges the bound for low runs only: with the two
asks of the run no third run is ever wanted. `QueueBounded` is inductive: an entry comes with a
task that goes on to trim, a task that stops trimming has found the queue within its limit, and
one that died counts as a fault; there are finitely many tasks to count (`TierAssumption`).

`Escrow_proofs`, for every set of requests and deliveries, every price and number of faults:

| Theorem | States |
|---|---|
| `TypeCorrect` | `[]TypeOK`; needs `Claims`, since the row's amount is what a session brings along |
| `StatusBackedHolds` | completed, cancelled and refunded rows are backed by the payment |
| `AmountPaidHolds` | a completed row shows the captured amount |
| `StripeOwesHolds` | while a row in escrow is behind its payment, the event that closes it is outstanding |
| `ImplementsSettlement` | `Spec => Settles` |

The rows alone are not inductive: a session between Stripe's answer and its commit has not
written yet, and by then others may have. `Claim` says what each session may count on where it
stands ("what I captured is captured, or refunded since"), `Rows` what the committed rows say.
A call moves the payment only from states no claim is about (`CallKeeps`), so nobody's claim is
broken, and a commit turns its own claim into a row (`CommitKeeps`). No lock is in this
invariant: the two properties rest on Stripe's refusals and on calling it before writing, not on
SELECT FOR UPDATE. It is the properties about the dispute, which Stripe does not guard, that
the finding and the reopened dispute break.

`StripeOwes` is inductive, since nothing writes "escrow" again and an event is let go only by its own
commit or past a row that is not in escrow. It is the safety half of `Recorded`, which adds the
fairness of deliveries and is checked by TLC.

The refinement goes step by step: what moves neither the payment nor a committed row is a stutter
(`Stutters`), Stripe's side and the calls are `Capture`, `Cancel` or `Refund` (`MoneyMoves`), and
of the commits (`CommitFollows`) each is `Enter`, `Decide` or `Reopen` by what its session may
claim (`BookFollows`). Here one lock matters: that a commit of `open_dispute` overwrites no
verdict needs that it holds the transaction's row and is the first dispute (`Openings`).

`WorkerLock_proofs`, for any workers, and any times that satisfy `RenewedInTime`:

| Theorem | States |
|---|---|
| `TypeCorrect` | `[]TypeOK` |
| `OneRunnerHolds` | at most one runner more than failures of Redis and stopped schedulers that are not gone |
| `TakeoverHolds` | nobody waits longer than the TTL and one retry while nobody works |

`OneRunner` is not inductive: a worker starts when the key is gone, so the key must not go while
a worker runs that is not `open`. `WorkerTime` bounds what the key has left from below, by that
worker's timer and the renewals it has missed. `Counted` then charges every runner that has
not been stopped to a failure or to the key, and `TasksEnd` says that work of `run_exclusively`
leaves nothing running; `WorkersAssumption` (finitely many) is there to count them. `Waiting` says what a
worker that waits may know of the time nobody has worked.

`WatchRescan_proofs`, for any watches, passes, tools and findings:

| Theorem | States |
|---|---|
| `TypeCorrect` | `[]TypeOK` |
| `AlertsMeanNew` | `[]BehaviorAlertMeansNew` |
| `ChangesTold` | `ToldOfEveryChange` |
| `AlertsHaveCauseHolds` | `AlertsHaveCause`, with any number of passes side by side |

`AlertsMeanNew` is a pigeonhole argument: a set that differs and is not smaller has a member the
other has not (`NoSmaller`), which is why digests and counts are enough. `ChangesTold` needs that
what a pass compares with is what the watcher was last told, across failed scans, scans without
definitions and rows that were removed. `CauseInv` does the accounting of alerts, for passes that
overlap as well: those sent, one for each pass that holds the row and has not compared it
(`Waiting`), and one while the row, or what a pass is going to write there, is behind its tool
(`Behind`). While several passes hold a row, all of that is paid for. A pass that is alone with
the row needs less, since it posts before it saves: then only what will be due once it has saved
(`AfterSave`) counts. A pass that begins beside another brings two causes, its own alert and the
old baseline that the last to save may leave; one that begins alone brings nothing, because an idle
pass holds no rows (`Rested`). The passes are finitely many, which `WatchAssumption` says.

`WebhookDelivery_proofs`, for any subscriptions, sessions and owners:

| Theorem | States |
|---|---|
| `TypeCorrect` | `[]TypeOK` |
| `OffForCause` | `TurnedOffForCause` |
| `StaysOffHolds` | `StaysOff` |

`Caused` is the heart: below the threshold no counter, nor one that a session is about to write,
is ahead of the deliveries that failed. `InARow` says the same of the failures in a row, for a
subscription that is not `upset`; it needs `Calm`, that such a one has one session under way at
most. `Fresh` says what a session may have read, `Bounded` how
far a counter can pass the threshold (`Slack`: once for every return of its subscription).

`ScanRefresh_proofs`, for any packages, workers, places, limits and times:

| Theorem | States |
|---|---|
| `TypeCorrect` | `[]TypeOK` |
| `BackgroundBoundedHolds` | no worker has more refreshes than the cap |
| `NotScannableIsNewsHolds` | `NotScannableIsNews`: no obsolete error is the answer, but for the three cases |
| `FreshMeansAnHourHolds` | a copy of a timed scan misses an hour and a scan's time |

`Counted`: the counter of a worker is the number of its refreshes, through lock losers, failures
and crashes, so the cap on one caps the other; `Tasks` is finite for that. `NewsInv`: the copy
for a week of the last scan has at least the time left of any error written before
(`TTLAssumption`, and both lose a tick at a time). `Looked` carries that to the request: one that
has looked for the copy, and is not excused, goes on to an error only if that is the latest
outcome or has run out. `Timely`: what a scan under way
has missed was published since it began; a copy inherits that when it is saved, and both grow by
one with each tick. `Moved` collects what every step does to control, counter and scans under way.

Model-checked only: every liveness property (`LeftoverFreed`, `QueueEmptied`, `Recorded`,
`ChangeNoticed`, `BrokenLeftAlone`, `Answered`), which is out of the prover's reach.

## Not modelled, and the plan

Not modelled for good: the static scanner, graders and trust score (functions over pattern
tables and weights; they are most of the lines of this repository), cryptography, the social
features and bridges (single-row operations and translations), marketing, front ends and SDKs.
PROJECT.json "components" lists each with its reason, "hazards" what is known to be delicate and
not covered by a property.

Left, in this order:

1. Pending-age markers and the eval's `hold_slot`, composed with the tier; Redis errors in
   the tier (the lock fails open); the corpus overrides, which two editors can overwrite.
2. `Escrow` with several purchases of one listing (the unlocked check for a pending one).
3. The backfill's pass lock, which nobody renews, beside `WorkerLock`.
4. `ScanRefresh` for skills, MCP servers and repositories, which have the two copies but no
   background refresh, and with the GitHub budget that makes repository scans serve stale ones.
