-------------------------- MODULE WebhookDelivery ---------------------------
(***************************************************************************)
(* Delivery of events to webhook subscriptions, and the subscription rows. *)
(*                                                                         *)
(*   events.py              dispatch_webhooks, inside a request            *)
(*   jobs/webhook_worker.py process_event, in the worker                   *)
(*   api/webhook_router.py  the owner: create, activate, deactivate, delete*)
(*   api/deactivation.py, api/moderation_router.py  suspension and appeal  *)
(*                                                                         *)
(* A delivery session reads the rows once, posts to one endpoint after the *)
(* other and then writes the failure counters, each computed from what it  *)
(* READ, without a lock: sessions overwrite each other and the owner.  The *)
(* ORM writes a column only when the session changed it, and all rows of a *)
(* session in one transaction.                                             *)
(***************************************************************************)
EXTENDS Naturals

CONSTANTS Subs,           \* subscriptions to the event, of one entity
          Requests,       \* requests that dispatch webhooks
          Worker,         \* the process of webhook_worker.py
          Owners,         \* requests of the owner to (de)activate
          None,           \* nothing read, no subscription
          Threshold,      \* AUTO_DEACTIVATE_THRESHOLD
          MaxActivations, \* bound: activations that are written
          MaxSuspensions, \* bound: suspensions of the entity
          MaxFaults       \* bound: sessions that fail by themselves

Sessions == Requests \cup {Worker}

ASSUME WebhookAssumption ==
  /\ Worker \notin Requests
  /\ Threshold \in Nat \ {0}
  /\ {MaxActivations, MaxSuspensions, MaxFaults} \subseteq Nat
  /\ None \notin Nat /\ None \notin Subs

VARIABLES row,         \* subscription -> its row: state and consecutive_failures
          session,     \* session -> where it stands, what it read and found
          owner,       \* owner's request -> its subscription, wish and what it read
          broken,      \* subs whose endpoint will never answer with a 2xx again
          undone,      \* requests whose own writes went with those of the webhooks
          failed,      \* sub -> failed deliveries since its last clean start
          streak,      \* sub -> those since its last success, zero when it is upset
          upset,       \* subs whose sessions overlapped or were lost since a clean start
          activations, suspensions, appeals, faults

counts == <<failed, streak, upset>>
vars == <<row, session, owner, broken, undone, counts, activations, suspensions, appeals, faults>>
bounds == <<activations, suspensions, appeals, faults>>

\* A session that has nothing to deliver.
Free == [at |-> "idle", read |-> [s \in Subs |-> None], outcome |-> [s \in Subs |-> "none"]]

Init ==
  /\ row = [s \in Subs |-> [state |-> "new", failures |-> 0]]
  /\ session = [d \in Sessions |-> Free]
  /\ owner = [o \in Owners |-> [sub |-> None, wish |-> "on", state |-> "off", failures |-> 0]]
  /\ broken = {}
  /\ undone = {}
  /\ failed = [s \in Subs |-> 0]
  /\ streak = [s \in Subs |-> 0]
  /\ upset = {}
  /\ activations = 0
  /\ suspensions = 0
  /\ appeals = 0
  /\ faults = 0

-----------------------------------------------------------------------------
(* A delivery session                                                      *)

\* The subscriptions a session has read, and those it has not posted to.
Batch(d) == {s \in Subs : session[d].read[s] # None}
UnderWay(s) == \E d \in Sessions : s \in Batch(d)
Left(d) == {s \in Batch(d) : session[d].outcome[s] = "none"}

\* An event is published: the session reads the active subscriptions.
Read(d) ==
  /\ session[d].at = "idle"
  /\ \E s \in Subs : row[s].state = "on"
  /\ session' = [session EXCEPT
       ![d].at = "deliver",
       ![d].read = [s \in Subs |-> IF row[s].state = "on" THEN row[s].failures ELSE None]]
  /\ upset' = upset \cup {s \in Subs : row[s].state = "on" /\ UnderWay(s)}
  /\ streak' = [s \in Subs |-> IF s \in upset' THEN 0 ELSE streak[s]]
  /\ UNCHANGED <<row, owner, broken, undone, failed, bounds>>

\* More than the threshold is not told apart.
OneMore(n) == IF n < Threshold THEN n + 1 ELSE n

\* One POST, or the worker's up to MAX_RETRIES ones with their pauses.
Deliver(d, s) ==
  /\ session[d].at = "deliver"
  /\ s \in Left(d)
  /\ \E result \in {"ok", "failed"} :
       /\ s \in broken => result = "failed"
       /\ session' = [session EXCEPT ![d].outcome[s] = result]
       /\ failed' = [failed EXCEPT ![s] = IF result = "failed" THEN OneMore(@) ELSE @]
       /\ streak' = [streak EXCEPT ![s] = IF result = "failed" /\ s \notin upset
                                               THEN OneMore(@) ELSE 0]
  /\ UNCHANGED <<row, owner, broken, undone, upset, bounds>>

\* Mutant of Counted: every retry counts.
CountedRetries(d, s) == IF session[d].outcome[s] = "failed" THEN session[d].read[s] + 2 ELSE 0

\* Mutant of Counted: a success does not set the counter back.
CountedForever(d, s) ==
  IF session[d].outcome[s] = "failed" THEN session[d].read[s] + 1 ELSE session[d].read[s]

\* The counter the session computes from the one it read.
Counted(d, s) == IF session[d].outcome[s] = "failed" THEN session[d].read[s] + 1 ELSE 0

\* The session turns the subscription off.
Spent(d, s) == session[d].outcome[s] = "failed" /\ Counted(d, s) >= Threshold

\* Mutant of Dirty: process_event closes its session without a commit.
DirtyUncommitted(d) ==
  {s \in Batch(d) : d # Worker /\ (session[d].outcome[s] = "failed" \/ session[d].read[s] > 0)}

\* The rows a session changes; it leaves a counter of zero at zero.
Dirty(d) == {s \in Batch(d) : session[d].outcome[s] = "failed" \/ session[d].read[s] > 0}

\* Mutant of Written: all columns are written, as they were read.
WrittenWhole(d, s) ==
  [state |-> IF Spent(d, s) THEN "off" ELSE "on", failures |-> Counted(d, s)]

\* is_active is written only when it is turned off here.
Written(d, s) ==
  [state |-> IF Spent(d, s) THEN "off" ELSE row[s].state, failures |-> Counted(d, s)]

\* The columns an UPDATE sets.  Rows that set the same columns may share one
\* statement (neighbours in key order do), and the driver counts the rows it
\* hit only when it has one.
Columns(d, s) ==
  IF Spent(d, s)
  THEN {"consecutive_failures", "is_active"} ELSE {"consecutive_failures"}

Alike(d, s) == {u \in Dirty(d) \ {s} : Columns(d, u) = Columns(d, s)}

\* Rows deleted since they were read.  The worker's delivery log needs every
\* subscription it posted to; a request's UPDATE fails when it is counted.
Missed(d) == {s \in IF d = Worker THEN Batch(d) ELSE Dirty(d) : row[s].state = "gone"}

MayFail(d) ==
  \E s \in Missed(d) : d = Worker \/ Alike(d, s) = {} \/ Alike(d, s) # Dirty(d) \ {s}

MayPass(d) == \A s \in Missed(d) : d # Worker /\ Alike(d, s) # {}

\* Subscriptions that start cleanly after this step: the counter is zero, and
\* nothing is under way.  Before that, the successes of a lost session upset.
Clean == {s \in Subs : row'[s].failures = 0 /\ \A d \in Sessions : session'[d].read[s] = None}

Settle(lost) ==
  /\ failed' = [s \in Subs |-> IF s \in Clean THEN 0 ELSE failed[s]]
  /\ streak' = [s \in Subs |-> IF s \in Clean \cup lost THEN 0 ELSE streak[s]]
  /\ upset' = (upset \cup lost) \ Clean

Delivered(d) == {s \in Batch(d) : session[d].outcome[s] = "ok"}

\* The flush and the commit after it: the rows are locked in between.
Write(d) ==
  /\ session[d].at = "deliver"
  /\ Left(d) = {}
  /\ MayPass(d)
  /\ row' = [s \in Subs |-> IF s \in Dirty(d) \ Missed(d) THEN Written(d, s) ELSE row[s]]
  /\ session' = [session EXCEPT ![d] = Free]
  /\ Settle({})
  /\ UNCHANGED <<owner, broken, undone, bounds>>

\* A deleted row: nothing of the session is written.  The caller of
\* dispatch_webhooks swallows the error, but the session it shares is lost, and
\* what the request itself had written with it.
WriteFails(d) ==
  /\ session[d].at = "deliver"
  /\ Left(d) = {}
  /\ MayFail(d)
  /\ undone' = IF d = Worker THEN undone ELSE undone \cup {d}
  /\ session' = [session EXCEPT ![d] = Free]
  /\ UNCHANGED <<row, owner, broken, bounds>>
  /\ Settle(Delivered(d))

\* The request fails for a reason of its own, or its process ends.
Rollback(d) ==
  /\ session[d].at = "deliver"
  /\ faults < MaxFaults
  /\ faults' = faults + 1
  /\ session' = [session EXCEPT ![d] = Free]
  /\ UNCHANGED <<row, owner, broken, undone, activations, suspensions, appeals>>
  /\ Settle(Delivered(d))

\* The environment: an endpoint goes away for good.
Break(s) ==
  /\ s \notin broken
  /\ broken' = broken \cup {s}
  /\ UNCHANGED <<row, session, owner, undone, counts, bounds>>

-----------------------------------------------------------------------------
(* The owner and the moderators                                            *)

Create(s) ==
  /\ row[s].state = "new"
  /\ row' = [row EXCEPT ![s].state = "on"]
  /\ UNCHANGED <<session, owner, broken, undone, counts, bounds>>

Delete(s) ==
  /\ row[s].state \in {"on", "off"}
  /\ row' = [row EXCEPT ![s].state = "gone"]
  /\ UNCHANGED <<session, owner, broken, undone, counts, bounds>>

\* activate_webhook and deactivate_webhook read the row ...
OwnerReads(o, s) ==
  /\ owner[o].sub = None
  /\ row[s].state \in {"on", "off"}
  /\ \E wish \in {"on", "off"} :
       /\ wish = "on" => activations < MaxActivations
       /\ owner' = [owner EXCEPT ![o] = [sub |-> s, wish |-> wish, state |-> row[s].state,
                                         failures |-> row[s].failures]]
  /\ UNCHANGED <<row, session, broken, undone, counts, bounds>>

\* ... and write what they changed of it: the state, and an activation the
\* counter, unless it was as wished when it was read.
Changed(o) ==
  LET own == owner[o]
  IN  [state |-> IF own.state # own.wish THEN own.wish ELSE row[own.sub].state,
       failures |-> IF own.wish = "on" /\ own.failures > 0 THEN 0 ELSE row[own.sub].failures]

OwnerWrites(o) ==
  LET s == owner[o].sub
  IN  /\ s # None
      /\ row' = [row EXCEPT ![s] = IF row[s].state = "gone" THEN row[s] ELSE Changed(o)]
      /\ activations' = IF owner[o].wish = "on" THEN activations + 1 ELSE activations
      /\ activations' <= MaxActivations
      /\ owner' = [owner EXCEPT ![o].sub = None, ![o].failures = 0]
  /\ UNCHANGED <<session, broken, undone, suspensions, appeals, faults>>
  /\ Settle({})

\* cascade_deactivate.  A suspension may end by itself at any time, which
\* gives the entity back but not its webhooks, so the owner is not held back.
Suspend ==
  /\ suspensions < MaxSuspensions
  /\ suspensions' = suspensions + 1
  /\ appeals' = appeals + 1
  /\ row' = [s \in Subs |-> IF row[s].state = "on" THEN [row[s] EXCEPT !.state = "off"]
                            ELSE row[s]]
  /\ UNCHANGED <<session, owner, broken, undone, counts, activations, faults>>

\* resolve_appeal: every webhook of the entity that is off comes back, with its
\* counter as it was.
Overturn ==
  /\ appeals > 0
  /\ appeals' = appeals - 1
  /\ row' = [s \in Subs |-> IF row[s].state = "off" THEN [row[s] EXCEPT !.state = "on"]
                            ELSE row[s]]
  /\ UNCHANGED <<session, owner, broken, undone, counts, activations, suspensions, faults>>

-----------------------------------------------------------------------------
Event == \E d \in Sessions : Read(d)

Step(d) == (\E s \in Subs : Deliver(d, s)) \/ Write(d) \/ WriteFails(d)

Next ==
  \/ \E d \in Sessions : Read(d) \/ Step(d) \/ Rollback(d)
  \/ \E s \in Subs : Create(s) \/ Delete(s) \/ Break(s) \/ \E o \in Owners : OwnerReads(o, s)
  \/ \E o \in Owners : OwnerWrites(o)
  \/ Suspend \/ Overturn

Spec == Init /\ [][Next]_vars

\* Events keep coming, a session goes on (every POST has a timeout), and so does
\* a request of the owner.  Nobody has to create, activate or delete anything.
Fairness ==
  /\ WF_vars(Event)
  /\ \A d \in Sessions : WF_vars(Step(d))
  /\ \A o \in Owners : WF_vars(OwnerWrites(o))

FairSpec == Spec /\ Fairness

-----------------------------------------------------------------------------
(* Properties                                                              *)

States == {"new", "on", "off", "gone"}

\* Every row, session and counter has its type; no counter runs away, although
\* sessions overwrite each other's: it passes the threshold only when an
\* overturned suspension, or an activation that read a zero in between, brings a
\* subscription back with its old counter.
TypeOK ==
  /\ row \in [Subs -> [state : States, failures : Nat]]
  /\ \A s \in Subs : row[s].failures <= Threshold + suspensions + activations
  /\ session \in [Sessions -> [at : {"idle", "deliver"}, read : [Subs -> Nat \cup {None}],
                               outcome : [Subs -> {"none", "ok", "failed"}]]]
  /\ owner \in [Owners -> [sub : Subs \cup {None}, wish : {"on", "off"},
                           state : {"on", "off"}, failures : Nat]]
  /\ broken \subseteq Subs
  /\ undone \subseteq Requests
  /\ failed \in [Subs -> 0 .. Threshold]
  /\ streak \in [Subs -> 0 .. Threshold]
  /\ upset \subseteq Subs
  /\ activations \in 0 .. MaxActivations
  /\ suspensions \in 0 .. MaxSuspensions
  /\ appeals \in 0 .. suspensions
  /\ faults \in 0 .. MaxFaults

\* "Auto-deactivate after 10 consecutive failures".  The code keeps to that as
\* long as the sessions of a subscription come one after the other and are
\* committed: then only Threshold failed deliveries in a row turn it off.  It
\* does not when they overlap, or one that delivered is lost: a success's zero
\* is overwritten by a count read before it, or never written, and a later
\* failure is taken for one more in a row.  What is left in every case is that
\* Threshold deliveries failed since the counter was last zero with nothing
\* under way: lost updates miss successes, and never make up a failure.
TurnedOffForCause ==
  [][\A d \in Sessions, s \in Subs :
       Write(d) /\ row[s].state = "on" /\ row'[s].state = "off"
         => /\ failed[s] = Threshold
            /\ s \notin upset => streak[s] = Threshold]_vars

\* A subscription that is off stays off, whatever deliveries that read it
\* before still write: only an activation by its owner or an overturned
\* suspension brings it back.
StaysOff ==
  [][\A s \in Subs :
       row[s].state = "off" /\ row'[s].state = "on"
         => Overturn \/ \E o \in Owners : OwnerWrites(o) /\ owner[o].sub = s
                                           /\ owner[o].wish = "on"]_vars

\* "Webhooks auto-deactivate after consecutive failures": an endpoint that never
\* answers is left alone in the end, although concurrent sessions may set its
\* counter back, and deleted subscriptions and failed requests lose counts.
BrokenLeftAlone == \A s \in Subs : s \in broken ~> [](row[s].state # "on")

\* "Webhook delivery is best-effort": no request loses its own writes to it.
BestEffort == undone = {}
=============================================================================
