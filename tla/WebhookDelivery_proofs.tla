----------------------- MODULE WebhookDelivery_proofs -----------------------
(***************************************************************************)
(* Proofs about webhook delivery, for any subscriptions and sessions.      *)
(*                                                                         *)
(* Slack bounds the counter of a row: sessions overwrite each other, but   *)
(* each writes one more than a counter it read in a row that was on, and   *)
(* only an overturned suspension or an activation turns a row on that has  *)
(* its counter at the bound.  Caused ties every counter, in a row or about *)
(* to be written, to the deliveries that failed, and InARow to those that  *)
(* failed in a row, as long as one session is under way at a time.         *)
(***************************************************************************)
EXTENDS WebhookDelivery, TLAPS

SessionType == [at : {"idle", "deliver"}, read : [Subs -> Nat \cup {None}],
                outcome : [Subs -> {"none", "ok", "failed"}]]
OwnerType == [sub : Subs \cup {None}, wish : {"on", "off"},
              state : {"on", "off"}, failures : Nat]

\* TypeOK, without the bound on the counters.
Types ==
  /\ row \in [Subs -> [state : States, failures : Nat]]
  /\ session \in [Sessions -> SessionType]
  /\ owner \in [Owners -> OwnerType]
  /\ broken \subseteq Subs
  /\ undone \subseteq Requests
  /\ failed \in [Subs -> 0 .. Threshold]
  /\ streak \in [Subs -> 0 .. Threshold]
  /\ upset \subseteq Subs
  /\ activations \in 0 .. MaxActivations
  /\ suspensions \in 0 .. MaxSuspensions
  /\ appeals \in 0 .. suspensions
  /\ faults \in 0 .. MaxFaults

\* The threshold and what brought a subscription back with its counter.
Slack == Threshold + (suspensions - appeals) + activations

\* A session without work has read nothing; nobody has read a row before it
\* was made, and a row that is made starts at zero.
Fresh ==
  /\ \A d \in Sessions : session[d].at = "idle" => session[d] = Free
  /\ \A s \in Subs :
       row[s].state = "new" => /\ row[s].failures = 0
                               /\ \A d \in Sessions : session[d].read[s] = None
                               /\ \A o \in Owners : owner[o].sub # s

Bounded ==
  \A s \in Subs :
    /\ row[s].failures <= Slack
    /\ row[s].state = "on" => row[s].failures < Slack
    /\ \A d \in Sessions : session[d].read[s] # None => session[d].read[s] < Slack

\* Below the threshold no counter, nor one to be written, is ahead of the
\* deliveries that failed.
Caused ==
  \A s \in Subs :
    failed[s] < Threshold =>
      /\ row[s].failures <= failed[s]
      /\ \A d \in Sessions :
           session[d].read[s] # None =>
             /\ session[d].read[s] <= failed[s]
             /\ session[d].outcome[s] = "failed" => session[d].read[s] + 1 <= failed[s]

\* A subscription that is not upset has one session under way at most, which
\* nobody overtakes; below the threshold its counter is not ahead of the row of
\* failures, before the session and after it.
Calm(s) ==
  /\ \A d, e \in Sessions : session[d].read[s] # None /\ session[e].read[s] # None => d = e
  /\ \A d \in Sessions : session[d].read[s] # None => row[s].failures <= session[d].read[s]
  /\ streak[s] < Threshold =>
       /\ (\A d \in Sessions : session[d].read[s] = None) => row[s].failures <= streak[s]
       /\ \A d \in Sessions :
            session[d].read[s] # None =>
              /\ session[d].outcome[s] = "none" => session[d].read[s] <= streak[s]
              /\ session[d].outcome[s] = "failed" => session[d].read[s] + 1 <= streak[s]

InARow == \A s \in Subs \ upset : row[s].state # "gone" => Calm(s)

IInv == Types /\ Fresh /\ Bounded /\ Caused /\ InARow

-----------------------------------------------------------------------------
(* Type correctness, with the invariant it needs                           *)

LEMMA Consts ==
  /\ Threshold \in Nat /\ Threshold > 0
  /\ MaxActivations \in Nat /\ MaxSuspensions \in Nat /\ MaxFaults \in Nat
  /\ None \notin Nat /\ None \notin Subs
  /\ Worker \in Sessions /\ Requests \subseteq Sessions
  BY WebhookAssumption DEF Sessions

LEMMA FreeType == Free \in SessionType /\ \A s \in Subs : Free.read[s] = None
  BY DEF Free, SessionType

LEMMA InitInv == Init => IInv
<1> SUFFICES ASSUME Init PROVE IInv
  OBVIOUS
<1>1. Types
  BY Consts, FreeType DEF Init, Types, OwnerType, States
<1>2. Fresh
  BY Consts DEF Init, Fresh, Free
<1> \A d \in Sessions, s \in Subs : session[d].read[s] = None
  BY FreeType DEF Init
<1> \A s \in Subs : row[s].failures = 0 /\ row[s].state = "new" /\ failed[s] = 0
  BY DEF Init
<1>3. Bounded
  <2>1. Slack = Threshold
    BY Consts DEF Init, Slack
  <2>2. 0 < Slack /\ 0 <= Slack
    BY <2>1, Consts
  <2> SUFFICES ASSUME NEW s \in Subs
               PROVE  /\ row[s].failures <= Slack
                      /\ row[s].state = "on" => row[s].failures < Slack
                      /\ \A d \in Sessions : session[d].read[s] = None
    BY DEF Bounded
  <2> QED
    BY <2>2
<1>4. Caused
  BY Consts DEF Caused
<1>5. InARow
  BY Consts DEF Init, InARow, Calm
<1> QED
  BY <1>1, <1>2, <1>3, <1>4, <1>5 DEF IInv

LEMMA ReadInv ==
  ASSUME IInv, NEW d \in Sessions, Read(d)
  PROVE  IInv'
<1> DEFINE got == [s \in Subs |-> IF row[s].state = "on" THEN row[s].failures ELSE None]
<1>1. session[d] = Free /\ session' = [session EXCEPT ![d] = [Free EXCEPT !.at = "deliver", !.read = got]]
  <2>1. session[d] = Free
    BY DEF Read, IInv, Fresh
  <2>2. session' = [session EXCEPT ![d].at = "deliver", ![d].read = got]
    BY DEF Read
  <2> QED
    BY <2>1, <2>2 DEF IInv, Types
<1>2. [Free EXCEPT !.at = "deliver", !.read = got] \in SessionType
  BY DEF IInv, Types, SessionType, Free
<1>3. Types'
  <2>1. session' \in [Sessions -> SessionType]
    BY <1>1, <1>2 DEF IInv, Types
  <2>2. upset' \subseteq Subs
    BY DEF Read, IInv, Types
  <2>3. streak' \in [Subs -> 0 .. Threshold]
    BY Consts DEF Read, IInv, Types
  <2> QED
    BY <2>1, <2>2, <2>3 DEF Read, IInv, Types, bounds
<1>4. /\ session'[d].at = "deliver"
      /\ \A s \in Subs : /\ session'[d].outcome[s] = "none"
                         /\ session'[d].read[s] # None =>
                              row[s].state = "on" /\ session'[d].read[s] = row[s].failures
  BY <1>1 DEF IInv, Types, Free
<1>5. \A e \in Sessions \ {d} : session'[e] = session[e]
  BY <1>1 DEF IInv, Types
<1>9. row' = row /\ owner' = owner /\ failed' = failed /\ Slack' = Slack
  BY DEF Read, bounds, Slack
<1>10. \A e \in Sessions, s \in Subs : session'[e].read[s] # None =>
          \/ /\ session[e].read[s] = session'[e].read[s]
             /\ session[e].outcome[s] = session'[e].outcome[s]
          \/ /\ row[s].state = "on" /\ session'[e].read[s] = row[s].failures
             /\ session'[e].outcome[s] = "none"
  BY <1>4, <1>5
<1>6. Fresh'
  <2>1. \A e \in Sessions : session'[e].at = "idle" => session'[e] = Free
    BY <1>4, <1>5 DEF IInv, Fresh, Types
  <2>2. ASSUME NEW s \in Subs, row[s].state = "new"
        PROVE  \A e \in Sessions : session'[e].read[s] = None
    BY <2>2, <1>10 DEF IInv, Fresh
  <2> QED
    BY <2>1, <2>2, <1>9 DEF IInv, Fresh
<1>7. Bounded'
  BY <1>9, <1>10 DEF IInv, Bounded
<1>8. Caused'
  BY <1>9, <1>10 DEF IInv, Caused
<1>11. InARow'
  <2> SUFFICES ASSUME NEW s \in Subs, s \notin upset', row[s].state # "gone"
               PROVE  Calm(s)'
    BY <1>9 DEF InARow
  <2>1. s \notin upset /\ Calm(s) /\ streak'[s] = streak[s]
        /\ (row[s].state = "on" => \A e \in Sessions : session[e].read[s] = None)
    BY DEF Read, UnderWay, Batch, IInv, InARow
  <2>2. \A e \in Sessions \ {d} : session'[e] = session[e]
    BY <1>5
  <2>3. session[d].read[s] = None
    BY <1>1, FreeType
  <2>4. CASE row[s].state = "on"
    <3>1. \A e \in Sessions \ {d} : session'[e].read[s] = None
      BY <2>1, <2>2, <2>4
    <3>2. session'[d].read[s] = row[s].failures /\ row[s].failures \in Nat
          /\ session'[d].outcome[s] = "none"
      BY <1>1, <2>4 DEF IInv, Types, Free
    <3>3. streak[s] < Threshold => row[s].failures <= streak[s]
      BY <2>1, <2>4 DEF Calm
    <3> QED
      BY <3>1, <3>2, <3>3, <2>1, <1>9, Consts DEF Calm
  <2>5. CASE row[s].state # "on"
    <3>1. session'[d].read[s] = None
      BY <1>4, <2>5
    <3> QED
      BY <3>1, <2>1, <2>2, <2>3, <1>9 DEF Calm
  <2> QED
    BY <2>4, <2>5
<1> QED
  BY <1>3, <1>6, <1>7, <1>8, <1>11 DEF IInv

LEMMA DeliverInv ==
  ASSUME IInv, NEW d \in Sessions, NEW s \in Subs, Deliver(d, s)
  PROVE  IInv'
<1>1. PICK result \in {"ok", "failed"} :
        /\ session' = [session EXCEPT ![d].outcome[s] = result]
        /\ failed' = [failed EXCEPT ![s] = IF result = "failed" THEN OneMore(@) ELSE @]
        /\ streak' = [streak EXCEPT ![s] = IF result = "failed" /\ s \notin upset
                                           THEN OneMore(@) ELSE 0]
  BY DEF Deliver
<1>2. session[d].outcome[s] = "none" /\ session[d].read[s] # None
      /\ session[d].at = "deliver"
  BY DEF Deliver, Left, Batch
<1>3. \A e \in Sessions :
        /\ session'[e].read = session[e].read /\ session'[e].at = session[e].at
        /\ e # d => session'[e] = session[e]
  BY <1>1 DEF IInv, Types, SessionType
<1>4. /\ session'[d].outcome[s] = result
      /\ \A u \in Subs \ {s} : session'[d].outcome[u] = session[d].outcome[u]
  BY <1>1 DEF IInv, Types, SessionType
<1>5. Types'
  <2>1. session' \in [Sessions -> SessionType]
    BY <1>1 DEF IInv, Types, SessionType
  <2>2. failed' \in [Subs -> 0 .. Threshold]
    BY <1>1, Consts DEF IInv, Types, OneMore
  <2>3. streak' \in [Subs -> 0 .. Threshold]
    BY <1>1, Consts DEF IInv, Types, OneMore
  <2> QED
    BY <2>1, <2>2, <2>3 DEF Deliver, IInv, Types, bounds
<1>6. Fresh'
  BY <1>2, <1>3 DEF Deliver, IInv, Fresh
<1>7. Bounded'
  <2>1. Slack' = Slack /\ row' = row
    BY DEF Deliver, bounds, Slack
  <2> QED
    BY <2>1, <1>3 DEF IInv, Bounded
<1>8. Caused'
  <2> SUFFICES ASSUME NEW u \in Subs, failed'[u] < Threshold
               PROVE  /\ row'[u].failures <= failed'[u]
                      /\ \A e \in Sessions :
                           session'[e].read[u] # None =>
                             /\ session'[e].read[u] <= failed'[u]
                             /\ session'[e].outcome[u] = "failed"
                                  => session'[e].read[u] + 1 <= failed'[u]
    BY DEF Caused
  <2>1. failed[u] \in Nat /\ row[u].failures \in Nat /\ row' = row
        /\ \A e \in Sessions : session[e].read[u] \in Nat \cup {None}
    BY Consts DEF Deliver, IInv, Types, SessionType
  <2>2. CASE u # s
    BY <2>1, <2>2, <1>1, <1>3, <1>4 DEF IInv, Types, Caused
  <2>3. CASE u = s
    <3>1. failed'[s] = IF result = "failed" /\ failed[s] < Threshold
                       THEN failed[s] + 1 ELSE failed[s]
      BY <1>1 DEF IInv, Types, OneMore
    <3>2. failed[s] < Threshold
      BY <2>1, <2>3, <3>1, Consts
    <3> QED
      BY <2>1, <2>3, <3>1, <3>2, <1>3, <1>4, Consts DEF IInv, Caused
  <2> QED
    BY <2>2, <2>3
<1>9. InARow'
  <2>1. row' = row /\ upset' = upset
    BY DEF Deliver
  <2> SUFFICES ASSUME NEW u \in Subs, u \notin upset, row[u].state # "gone"
               PROVE  Calm(u)'
    BY <2>1 DEF InARow
  <2>2. Calm(u)
    BY DEF IInv, InARow
  <2>3. CASE u # s
    <3>1. streak'[u] = streak[u]
      BY <1>1, <2>3 DEF IInv, Types
    <3>2. \A e \in Sessions : session'[e].read[u] = session[e].read[u]
                             /\ session'[e].outcome[u] = session[e].outcome[u]
      BY <1>3, <1>4, <2>3
    <3> QED
      BY <2>1, <2>2, <3>1, <3>2 DEF Calm
  <2>4. CASE u = s
    <3>1. /\ streak[s] \in Nat
          /\ streak'[s] = IF result = "failed" THEN OneMore(streak[s]) ELSE 0
          /\ session[d].read[s] \in Nat
      BY <1>1, <1>2, <2>4, Consts DEF IInv, Types, SessionType
    <3>2. \A e \in Sessions : session'[e].read[s] = session[e].read[s]
      BY <1>3
    <3>3. \A e \in Sessions : session[e].read[s] # None => e = d
      BY <1>2, <2>2, <2>4 DEF Calm
    <3>4. session'[d].outcome[s] = result
      BY <1>4
    <3>5. streak[s] < Threshold => session[d].read[s] <= streak[s]
      BY <1>2, <2>2, <2>4 DEF Calm
    <3>6. result = "failed" /\ streak'[s] < Threshold => session[d].read[s] + 1 <= streak'[s]
      BY <3>1, <3>5, Consts DEF OneMore
    <3> QED
      BY <2>1, <2>2, <2>4, <3>2, <3>3, <3>4, <3>6, <1>2 DEF Calm
  <2> QED
    BY <2>3, <2>4
<1> QED
  BY <1>5, <1>6, <1>7, <1>8, <1>9 DEF IInv

\* What a step leaves of the counts when nothing is read and no row counts up.
LEMMA SettleFacts ==
  ASSUME IInv, NEW lost \in SUBSET Subs, Settle(lost)
  PROVE  /\ failed' \in [Subs -> 0 .. Threshold]
         /\ streak' \in [Subs -> 0 .. Threshold]
         /\ upset' \subseteq Subs
         /\ \A s \in Subs :
              \/ /\ row'[s].failures = 0
                 /\ \A d \in Sessions : session'[d].read[s] = None
                 /\ failed'[s] = 0
              \/ /\ failed'[s] = failed[s]
                 /\ s \notin upset' => s \notin upset /\ s \notin lost /\ streak'[s] = streak[s]
<1>1. 0 \in 0 .. Threshold
  BY Consts
<1> QED
  BY <1>1 DEF Settle, Clean, IInv, Types

\* A clean start is as good as any other.
LEMMA CleanStart ==
  ASSUME NEW s \in Subs, row'[s].failures = 0,
         \A d \in Sessions : session'[d].read[s] = None,
         failed' \in [Subs -> 0 .. Threshold], streak' \in [Subs -> 0 .. Threshold]
  PROVE  Calm(s)' /\ 0 <= failed'[s]
BY Consts DEF Calm

\* A session that ends without writing leaves nothing behind.
LEMMA EndInv ==
  ASSUME IInv, NEW d \in Sessions, WriteFails(d) \/ Rollback(d)
  PROVE  IInv'
<1>1. /\ session' = [session EXCEPT ![d] = Free]
      /\ row' = row /\ owner' = owner /\ Slack' = Slack
      /\ Settle(Delivered(d)) /\ Delivered(d) \in SUBSET Subs
  BY DEF WriteFails, Rollback, bounds, Slack, Delivered, Batch
<1>0. /\ failed' \in [Subs -> 0 .. Threshold]
      /\ streak' \in [Subs -> 0 .. Threshold]
      /\ upset' \subseteq Subs
  BY <1>1, SettleFacts
<1>2. Types'
  <2>1. session' \in [Sessions -> SessionType]
    BY <1>1, FreeType DEF IInv, Types
  <2>2. CASE WriteFails(d)
    <3>1. undone' \subseteq Requests
      BY <2>2 DEF WriteFails, IInv, Types, Sessions
    <3> QED
      BY <2>1, <2>2, <3>1, <1>0 DEF WriteFails, bounds, IInv, Types
  <2>3. CASE Rollback(d)
    BY <2>1, <2>3, <1>0, Consts DEF Rollback, IInv, Types
  <2> QED
    BY <2>2, <2>3
<1>3. \A e \in Sessions :
        \/ session'[e] = session[e]
        \/ /\ session'[e] = Free
           /\ \A s \in Subs : session'[e].read[s] = None
  BY <1>1, FreeType DEF IInv, Types
<1>4. Fresh' /\ Bounded'
  BY <1>1, <1>3 DEF IInv, Fresh, Bounded
<1>5. ASSUME NEW s \in Subs
      PROVE  \/ /\ row'[s].failures = 0
                /\ \A e \in Sessions : session'[e].read[s] = None
                /\ failed'[s] = 0
             \/ /\ failed'[s] = failed[s]
                /\ s \notin upset' => /\ s \notin upset /\ s \notin Delivered(d)
                                      /\ streak'[s] = streak[s]
  BY <1>1, SettleFacts
<1>6. Caused'
  <2> SUFFICES ASSUME NEW s \in Subs, failed'[s] < Threshold
               PROVE  /\ row'[s].failures <= failed'[s]
                      /\ \A e \in Sessions :
                           session'[e].read[s] # None =>
                             /\ session'[e].read[s] <= failed'[s]
                             /\ session'[e].outcome[s] = "failed"
                                  => session'[e].read[s] + 1 <= failed'[s]
    BY DEF Caused
  <2> QED
    BY <1>0, <1>1, <1>3, <1>5, CleanStart DEF IInv, Caused
<1>7. InARow'
  <2> SUFFICES ASSUME NEW s \in Subs, s \notin upset', row[s].state # "gone"
               PROVE  Calm(s)'
    BY <1>1 DEF InARow
  <2>1. CASE row'[s].failures = 0 /\ \A e \in Sessions : session'[e].read[s] = None
    BY <2>1, <1>0, CleanStart
  <2>2. CASE s \notin upset /\ s \notin Delivered(d) /\ streak'[s] = streak[s]
    <3>1. Calm(s)
      BY <2>2 DEF IInv, InARow
    <3>2. CASE session[d].read[s] = None
      <4>1. \A e \in Sessions : session'[e].read[s] = session[e].read[s]
                               /\ (e # d => session'[e] = session[e])
        BY <1>1, <3>2, FreeType DEF IInv, Types
      <4> QED
        BY <1>1, <2>2, <3>1, <3>2, <4>1 DEF Calm
    <3>3. CASE session[d].read[s] # None
      <4>1. \A e \in Sessions : session'[e].read[s] = None
        BY <1>1, <1>3, <3>1, <3>3, FreeType DEF IInv, Types, Calm
      <4>2. session[d].outcome[s] \in {"none", "failed"}
        BY <2>2, <3>3 DEF Delivered, Batch, IInv, Types, SessionType
      <4>3. session[d].read[s] \in Nat /\ row[s].failures \in Nat /\ streak[s] \in Nat
        BY <3>3, Consts DEF IInv, Types, SessionType
      <4>4. streak[s] < Threshold => row[s].failures <= streak[s]
        <5>1. row[s].failures <= session[d].read[s]
          BY <3>1, <3>3 DEF Calm
        <5>2. streak[s] < Threshold => session[d].read[s] <= streak[s]
          BY <3>1, <3>3, <4>2, <4>3 DEF Calm
        <5> QED
          BY <4>3, <5>1, <5>2
      <4> QED
        BY <1>1, <2>2, <4>1, <4>4 DEF Calm
    <3> QED
      BY <3>2, <3>3
  <2> QED
    BY <2>1, <2>2, <1>5
<1> QED
  BY <1>2, <1>4, <1>6, <1>7 DEF IInv

\* What a session writes to a row.
LEMMA WrittenFacts ==
  ASSUME IInv, NEW d \in Sessions, NEW s \in Subs, s \in Dirty(d)
  PROVE  /\ session[d].read[s] \in Nat /\ row[s].state # "new"
         /\ Counted(d, s) \in Nat /\ Counted(d, s) <= Slack
         /\ Slack \in Nat /\ Threshold <= Slack
         /\ Written(d, s) \in [state : States, failures : Nat]
         /\ Written(d, s).failures = Counted(d, s)
         /\ \/ Spent(d, s) /\ Written(d, s).state = "off"
            \/ /\ ~Spent(d, s) /\ Written(d, s).state = row[s].state
               /\ Counted(d, s) < Slack
         /\ failed[s] < Threshold => Counted(d, s) <= failed[s]
<1>1. session[d].read[s] # None /\ session[d].read[s] \in Nat
  BY DEF Dirty, Batch, IInv, Types, SessionType
<1>2. row[s].state # "new" /\ row[s].state \in States
  BY <1>1 DEF IInv, Types, Fresh
<1>3. Slack \in Nat /\ Threshold <= Slack /\ 0 < Slack
  BY Consts DEF IInv, Types, Slack
<1>4. Counted(d, s) \in Nat /\ Counted(d, s) <= Slack
  BY <1>1, <1>3 DEF Counted, IInv, Bounded
<1>5. ~Spent(d, s) => Counted(d, s) < Slack
  BY <1>3, <1>4, Consts DEF Spent, Counted
<1>6. failed[s] < Threshold => Counted(d, s) <= failed[s]
  BY <1>1, Consts DEF Counted, IInv, Types, Caused
<1> QED
  BY <1>1, <1>2, <1>3, <1>4, <1>5, <1>6 DEF Written, States

\* Alone with a subscription, a session counts what failed in a row.
LEMMA WrittenCalm ==
  ASSUME IInv, NEW d \in Sessions, NEW s \in Dirty(d), s \notin upset, row[s].state # "gone",
         session[d].outcome[s] # "none", streak[s] < Threshold
  PROVE  Counted(d, s) <= streak[s]
<1>1. s \in Subs /\ session[d].read[s] # None /\ streak[s] \in Nat
  BY Consts DEF Dirty, Batch, IInv, Types
<1>2. Calm(s)
  BY <1>1 DEF IInv, InARow
<1> QED
  BY <1>1, <1>2, Consts DEF Calm, Counted

LEMMA WriteInv ==
  ASSUME IInv, NEW d \in Sessions, Write(d)
  PROVE  IInv'
<1>1. /\ session' = [session EXCEPT ![d] = Free]
      /\ owner' = owner /\ Slack' = Slack
      /\ Settle({}) /\ {} \in SUBSET Subs
  BY DEF Write, bounds, Slack
<1>0. /\ failed' \in [Subs -> 0 .. Threshold]
      /\ streak' \in [Subs -> 0 .. Threshold]
      /\ upset' \subseteq Subs
  BY <1>1, SettleFacts
<1>2. \A e \in Sessions :
        \/ session'[e] = session[e]
        \/ /\ session'[e] = Free
           /\ \A s \in Subs : session'[e].read[s] = None
  BY <1>1, FreeType DEF IInv, Types
<1>3. \A s \in Subs : row'[s] = row[s] \/ (s \in Dirty(d) /\ row'[s] = Written(d, s))
  BY DEF Write
<1>4. Types'
  <2>1. session' \in [Sessions -> SessionType]
    BY <1>1, FreeType DEF IInv, Types
  <2>2. row' \in [Subs -> [state : States, failures : Nat]]
    BY WrittenFacts DEF Write, IInv, Types
  <2> QED
    BY <2>1, <2>2, <1>0 DEF Write, bounds, IInv, Types
<1>5. ASSUME NEW s \in Subs
      PROVE  /\ row'[s].state = "new" => row[s].state = "new" /\ row'[s] = row[s]
             /\ row'[s].failures <= Slack
             /\ row'[s].state = "on" => row'[s].failures < Slack
             /\ failed[s] < Threshold => row'[s].failures <= failed[s]
  <2>1. CASE row'[s] = row[s]
    BY <2>1 DEF IInv, Bounded, Caused
  <2>2. CASE s \in Dirty(d) /\ row'[s] = Written(d, s)
    BY <2>2, WrittenFacts
  <2> QED
    BY <2>1, <2>2, <1>3
<1>6. Fresh' /\ Bounded'
  BY <1>1, <1>2, <1>5 DEF IInv, Fresh, Bounded
<1>7. ASSUME NEW s \in Subs
      PROVE  \/ /\ row'[s].failures = 0
                /\ \A e \in Sessions : session'[e].read[s] = None
                /\ failed'[s] = 0
             \/ /\ failed'[s] = failed[s]
                /\ s \notin upset' => s \notin upset /\ streak'[s] = streak[s]
  BY <1>1, SettleFacts
<1>8. Caused'
  <2> SUFFICES ASSUME NEW s \in Subs, failed'[s] < Threshold
               PROVE  /\ row'[s].failures <= failed'[s]
                      /\ \A e \in Sessions :
                           session'[e].read[s] # None =>
                             /\ session'[e].read[s] <= failed'[s]
                             /\ session'[e].outcome[s] = "failed"
                                  => session'[e].read[s] + 1 <= failed'[s]
    BY DEF Caused
  <2>1. CASE row'[s].failures = 0 /\ \A e \in Sessions : session'[e].read[s] = None
    BY <2>1, <1>0, CleanStart
  <2>2. CASE failed'[s] = failed[s]
    BY <2>2, <1>2, <1>5 DEF IInv, Caused
  <2> QED
    BY <2>1, <2>2, <1>7
<1>9. InARow'
  <2> SUFFICES ASSUME NEW s \in Subs, s \notin upset', row'[s].state # "gone"
               PROVE  Calm(s)'
    BY DEF InARow
  <2>1. CASE row'[s].failures = 0 /\ \A e \in Sessions : session'[e].read[s] = None
    BY <2>1, <1>0, CleanStart
  <2>2. CASE s \notin upset /\ streak'[s] = streak[s]
    <3>0. row[s].state # "gone"
      BY DEF Write, Missed, Dirty, Batch
    <3>1. Calm(s)
      BY <2>2, <3>0 DEF IInv, InARow
    <3>2. CASE session[d].read[s] = None
      <4>1. \A e \in Sessions : session'[e].read[s] = session[e].read[s]
                               /\ (e # d => session'[e] = session[e])
        BY <1>1, <3>2, FreeType DEF IInv, Types
      <4>2. row'[s] = row[s]
        BY <3>2 DEF Write, Dirty, Batch
      <4> QED
        BY <1>1, <2>2, <3>1, <3>2, <4>1, <4>2 DEF Calm
    <3>3. CASE session[d].read[s] # None
      <4>1. \A e \in Sessions : session'[e].read[s] = None
        BY <1>1, <1>2, <3>1, <3>3, FreeType DEF IInv, Types, Calm
      <4>2. session[d].outcome[s] \in {"ok", "failed"} /\ session[d].read[s] \in Nat
            /\ row[s].failures \in Nat /\ streak[s] \in Nat
        BY <3>3, Consts DEF Write, Left, Batch, IInv, Types, SessionType
      <4>3. streak[s] < Threshold => row'[s].failures <= streak[s]
        <5>1. CASE s \in Dirty(d) \ Missed(d)
          <6>1. row'[s].failures = Counted(d, s)
            BY <5>1, WrittenFacts DEF Write
          <6> QED
            BY <5>1, <6>1, <2>2, <3>0, <4>2, WrittenCalm
        <5>2. CASE s \notin Dirty(d)
          <6>1. session[d].read[s] = 0 /\ row'[s] = row[s]
            BY <3>3, <4>2, <5>2 DEF Write, Dirty, Batch
          <6>2. row[s].failures = 0
            BY <3>1, <3>3, <4>2, <6>1 DEF Calm
          <6> QED
            BY <4>2, <6>1, <6>2
        <5>3. s \notin Missed(d)
          BY <3>0 DEF Missed
        <5> QED
          BY <5>1, <5>2, <5>3
      <4> QED
        BY <2>2, <4>1, <4>3 DEF Calm
    <3> QED
      BY <3>2, <3>3
  <2> QED
    BY <2>1, <2>2, <1>7
<1> QED
  BY <1>4, <1>6, <1>8, <1>9 DEF IInv

LEMMA OwnerWritesInv ==
  ASSUME IInv, NEW o \in Owners, OwnerWrites(o)
  PROVE  IInv'
<1> DEFINE s == owner[o].sub
           wish == owner[o].wish
<1>1. s \in Subs /\ row[s].state # "new" /\ row[s].state \in States /\ row[s].failures \in Nat
      /\ wish \in {"on", "off"} /\ owner[o].state \in {"on", "off"}
  BY Consts DEF OwnerWrites, IInv, Types, OwnerType, Fresh
<1>2. session' = session /\ \A u \in Subs \ {s} : row'[u] = row[u]
  BY <1>1 DEF OwnerWrites, IInv, Types
<1>3. row'[s] = IF row[s].state = "gone" THEN row[s] ELSE Changed(o)
  BY <1>1 DEF OwnerWrites, IInv, Types
<1>0. /\ failed' \in [Subs -> 0 .. Threshold]
      /\ streak' \in [Subs -> 0 .. Threshold]
      /\ upset' \subseteq Subs
  BY SettleFacts DEF OwnerWrites
<1>11. ASSUME NEW u \in Subs
       PROVE  \/ /\ row'[u].failures = 0
                 /\ \A d \in Sessions : session'[d].read[u] = None
                 /\ failed'[u] = 0
              \/ /\ failed'[u] = failed[u]
                 /\ u \notin upset' => u \notin upset /\ streak'[u] = streak[u]
  BY SettleFacts DEF OwnerWrites
<1>4. /\ Slack \in Nat /\ 0 < Slack /\ Slack' \in Nat /\ Slack <= Slack'
      /\ wish = "on" => Slack' = Slack + 1
  <2>1. /\ activations' = IF wish = "on" THEN activations + 1 ELSE activations
        /\ suspensions' = suspensions /\ appeals' = appeals
    BY DEF OwnerWrites
  <2>2. activations \in Nat /\ suspensions \in Nat /\ appeals \in 0 .. suspensions
    BY Consts DEF IInv, Types
  <2> QED
    BY <2>1, <2>2, Consts DEF Slack
<1>5. /\ Changed(o).state = IF owner[o].state # wish THEN wish ELSE row[s].state
      /\ Changed(o).failures = IF wish = "on" /\ owner[o].failures > 0 THEN 0
                               ELSE row[s].failures
      /\ Changed(o) \in [state : States, failures : Nat]
  BY <1>1 DEF Changed, States
<1>6. Types'
  <2>1. row' \in [Subs -> [state : States, failures : Nat]]
    BY <1>1, <1>5 DEF OwnerWrites, IInv, Types
  <2>2. owner' \in [Owners -> OwnerType]
    BY DEF OwnerWrites, IInv, Types, OwnerType
  <2>3. activations' \in 0 .. MaxActivations
    BY Consts DEF OwnerWrites, IInv, Types
  <2> QED
    BY <2>1, <2>2, <2>3, <1>0 DEF OwnerWrites, IInv, Types
<1>7. /\ row'[s].state # "new" /\ row'[s].failures \in Nat
      /\ row'[s].failures <= Slack'
      /\ row'[s].state = "on" => row'[s].failures < Slack'
      /\ row'[s].failures <= row[s].failures
  <2>1. row[s].failures <= Slack /\ (row[s].state = "on" => row[s].failures < Slack)
    BY <1>1 DEF IInv, Bounded
  <2>2. CASE row[s].state = "gone"
    BY <2>1, <2>2, <1>1, <1>3, <1>4
  <2>3. CASE row[s].state # "gone"
    <3>1. row'[s] = Changed(o)
      BY <2>3, <1>3
    <3>2. row'[s].state # "new" /\ row'[s].failures \in Nat
          /\ row'[s].failures <= row[s].failures
      BY <3>1, <1>1, <1>5
    <3>3. CASE wish = "on"
      BY <3>2, <3>3, <2>1, <1>1, <1>4
    <3>4. CASE wish = "off"
      BY <3>1, <3>2, <3>4, <2>1, <1>1, <1>4, <1>5
    <3> QED
      BY <3>3, <3>4, <1>1
  <2> QED
    BY <2>2, <2>3
<1>8. Fresh'
  <2>1. \A q \in Owners : owner'[q].sub = owner[q].sub \/ owner'[q].sub = None
    BY DEF OwnerWrites, IInv, Types, OwnerType
  <2> QED
    BY <2>1, <1>2, <1>7, Consts DEF IInv, Fresh
<1>9. Bounded'
  <2> SUFFICES ASSUME NEW u \in Subs
               PROVE  /\ row'[u].failures <= Slack'
                      /\ row'[u].state = "on" => row'[u].failures < Slack'
                      /\ \A d \in Sessions :
                           session[d].read[u] # None => session[d].read[u] < Slack'
    BY <1>2 DEF Bounded
  <2>1. row[u].failures \in Nat /\ \A d \in Sessions : session[d].read[u] \in Nat \cup {None}
    BY DEF IInv, Types, SessionType
  <2> QED
    BY <2>1, <1>2, <1>4, <1>7 DEF IInv, Bounded
<1>10. Caused'
  <2> SUFFICES ASSUME NEW u \in Subs, failed'[u] < Threshold
               PROVE  /\ row'[u].failures <= failed'[u]
                      /\ \A d \in Sessions :
                           session[d].read[u] # None =>
                             /\ session[d].read[u] <= failed'[u]
                             /\ session[d].outcome[u] = "failed"
                                  => session[d].read[u] + 1 <= failed'[u]
    BY <1>2 DEF Caused
  <2>1. CASE row'[u].failures = 0 /\ \A d \in Sessions : session'[d].read[u] = None
    BY <2>1, <1>0, <1>2, CleanStart
  <2>2. CASE failed'[u] = failed[u] /\ u # s
    BY <2>2, <1>2 DEF IInv, Caused
  <2>3. CASE failed'[u] = failed[u] /\ u = s
    BY <2>3, <1>1, <1>7 DEF IInv, Types, Caused
  <2> QED
    BY <2>1, <2>2, <2>3, <1>11
<1>12. InARow'
  <2> SUFFICES ASSUME NEW u \in Subs, u \notin upset', row'[u].state # "gone"
               PROVE  Calm(u)'
    BY DEF InARow
  <2>1. CASE row'[u].failures = 0 /\ \A d \in Sessions : session'[d].read[u] = None
    BY <2>1, <1>0, CleanStart
  <2>2. CASE u \notin upset /\ streak'[u] = streak[u]
    <3>1. row[u].state # "gone"
      BY <1>2, <1>3
    <3>2. Calm(u)
      BY <2>2, <3>1 DEF IInv, InARow
    <3>3. row'[u].failures \in Nat /\ row[u].failures \in Nat
          /\ row'[u].failures <= row[u].failures /\ streak[u] \in Nat
          /\ \A d \in Sessions : session[d].read[u] \in Nat \cup {None}
      BY <1>1, <1>2, <1>7, Consts DEF IInv, Types, SessionType
    <3> QED
      BY <1>2, <2>2, <3>2, <3>3 DEF Calm
  <2> QED
    BY <2>1, <2>2, <1>11
<1> QED
  BY <1>6, <1>8, <1>9, <1>10, <1>12 DEF IInv

\* The steps that turn rows on or off and leave sessions and counters alone.
LEMMA RowsInv ==
  ASSUME IInv, Suspend \/ Overturn \/ \E s \in Subs : Create(s) \/ Delete(s) \/ Break(s)
  PROVE  IInv'
<1>1. session' = session /\ owner' = owner /\ counts' = counts
  BY DEF Suspend, Overturn, Create, Delete, Break
<1>2. Types'
  <2>1. CASE Suspend
    BY <2>1, Consts DEF Suspend, counts, IInv, Types, States
  <2>2. CASE Overturn
    BY <2>2, Consts DEF Overturn, counts, IInv, Types, States
  <2>3. ASSUME NEW s \in Subs, Create(s) \/ Delete(s) \/ Break(s)
        PROVE  Types'
    BY <2>3 DEF Create, Delete, Break, counts, bounds, IInv, Types, States
  <2> QED
    BY <2>1, <2>2, <2>3
<1>3. \A u \in Subs : /\ row'[u].failures = row[u].failures
                      /\ row'[u].state = "new" => row[u].state = "new"
                      /\ row[u].state = "gone" => row'[u].state = "gone"
  <2>1. CASE Suspend
    BY <2>1 DEF Suspend, IInv, Types
  <2>2. CASE Overturn
    BY <2>2 DEF Overturn, IInv, Types
  <2>3. ASSUME NEW s \in Subs, Create(s) \/ Delete(s) \/ Break(s)
        PROVE  \A u \in Subs : /\ row'[u].failures = row[u].failures
                               /\ row'[u].state = "new" => row[u].state = "new"
                               /\ row[u].state = "gone" => row'[u].state = "gone"
    BY <2>3 DEF Create, Delete, Break, IInv, Types
  <2> QED
    BY <2>1, <2>2, <2>3
<1>4. /\ Slack \in Nat /\ 0 < Slack
      /\ Slack' = IF Overturn THEN Slack + 1 ELSE Slack
  <2>1. Slack \in Nat /\ 0 < Slack
    BY Consts DEF IInv, Types, Slack
  <2>2. CASE Suspend
    <3>1. Slack' = Slack
      BY <2>2, Consts DEF Suspend, IInv, Types, Slack
    <3>2. ~Overturn
      BY <2>2 DEF Suspend, Overturn, IInv, Types
    <3> QED
      BY <2>1, <3>1, <3>2
  <2>3. CASE Overturn
    BY <2>1, <2>3, Consts DEF Overturn, IInv, Types, Slack
  <2>4. ASSUME NEW s \in Subs, Create(s) \/ Delete(s) \/ Break(s)
        PROVE  Slack' = Slack /\ ~Overturn
    BY <2>4 DEF Create, Delete, Break, Overturn, bounds, IInv, Types, Slack
  <2> QED
    BY <2>1, <2>2, <2>3, <2>4
<1>5. Fresh' /\ Caused' /\ InARow'
  <2>1. Fresh' /\ Caused'
    BY <1>1, <1>3 DEF IInv, Fresh, Caused, counts
  <2>2. \A u \in Subs : Calm(u) => Calm(u)'
    BY <1>1, <1>3 DEF Calm, counts
  <2> QED
    BY <1>1, <1>3, <2>1, <2>2 DEF IInv, InARow, counts
<1>6. Bounded'
  <2> SUFFICES ASSUME NEW u \in Subs
               PROVE  /\ row[u].failures <= Slack'
                      /\ row'[u].state = "on" => row[u].failures < Slack'
                      /\ \A d \in Sessions :
                           session[d].read[u] # None => session[d].read[u] < Slack'
    BY <1>1, <1>3 DEF Bounded
  <2>1. /\ row[u].failures \in Nat /\ row[u].failures <= Slack
        /\ \A d \in Sessions :
             session[d].read[u] # None
               => session[d].read[u] \in Nat /\ session[d].read[u] < Slack
    BY DEF IInv, Types, SessionType, Bounded
  <2>2. row'[u].state = "on" =>
          \/ row[u].state = "on" \/ Overturn
          \/ row[u].state = "new"
    BY DEF Suspend, Create, Delete, Break, IInv, Types
  <2>3. row[u].state = "new" => row[u].failures = 0
    BY DEF IInv, Fresh
  <2>4. row[u].state = "on" => row[u].failures < Slack
    BY DEF IInv, Bounded
  <2> QED
    BY <2>1, <2>2, <2>3, <2>4, <1>4
<1> QED
  BY <1>2, <1>5, <1>6 DEF IInv

LEMMA NextInv == IInv /\ [Next]_vars => IInv'
<1> SUFFICES ASSUME IInv, [Next]_vars PROVE IInv'
  OBVIOUS
<1>1. ASSUME NEW d \in Sessions, Read(d) \/ Step(d) \/ Rollback(d)
      PROVE  IInv'
  BY <1>1, ReadInv, DeliverInv, WriteInv, EndInv DEF Step
<1>2. ASSUME NEW s \in Subs, NEW o \in Owners, OwnerReads(o, s)
      PROVE  IInv'
  <2>1. PICK wish \in {"on", "off"} :
          owner' = [owner EXCEPT ![o] = [sub |-> s, wish |-> wish, state |-> row[s].state,
                                         failures |-> row[s].failures]]
    BY <1>2 DEF OwnerReads
  <2>2. row[s].state \in {"on", "off"} /\ row[s].failures \in Nat
    BY <1>2 DEF OwnerReads, IInv, Types
  <2>3. Types'
    <3>1. owner' \in [Owners -> OwnerType]
      BY <2>1, <2>2 DEF IInv, Types, OwnerType
    <3> QED
      BY <1>2, <3>1 DEF OwnerReads, counts, bounds, IInv, Types
  <2>4. Fresh'
    <3>1. \A q \in Owners : owner'[q].sub = owner[q].sub \/ owner'[q].sub = s
      BY <2>1 DEF IInv, Types
    <3> QED
      BY <1>2, <2>2, <3>1 DEF OwnerReads, IInv, Fresh
  <2>5. Bounded' /\ Caused' /\ InARow'
    BY <1>2 DEF OwnerReads, counts, bounds, IInv, Bounded, Caused, InARow, Calm, Slack
  <2> QED
    BY <2>3, <2>4, <2>5 DEF IInv
<1>3. CASE UNCHANGED vars
  <2>1. Types'
    BY <1>3 DEF vars, counts, bounds, IInv, Types
  <2>2. Fresh' /\ Bounded' /\ Caused' /\ InARow'
    BY <1>3 DEF vars, counts, bounds, IInv, Fresh, Bounded, Caused, InARow, Calm, Slack
  <2> QED
    BY <2>1, <2>2 DEF IInv
<1> QED
  BY <1>1, <1>2, <1>3, OwnerWritesInv, RowsInv DEF Next

LEMMA Invariant == Spec => []IInv
  BY InitInv, NextInv, PTL DEF Spec

-----------------------------------------------------------------------------
(* The theorems                                                            *)

\* Rows, sessions and counters have their types, and no counter passes the
\* threshold by more than the returns of its subscription, however many sessions
\* overwrite each other's counters.
THEOREM TypeCorrect == Spec => []TypeOK
<1>1. IInv => TypeOK
  <2> SUFFICES ASSUME IInv PROVE TypeOK
    OBVIOUS
  <2>1. Slack \in Nat /\ Slack <= Threshold + suspensions + activations
    BY Consts DEF IInv, Types, Slack
  <2>2. \A s \in Subs : row[s].failures <= Threshold + suspensions + activations
    <3> SUFFICES ASSUME NEW s \in Subs
                 PROVE  row[s].failures <= Threshold + suspensions + activations
      OBVIOUS
    <3>1. row[s].failures \in Nat /\ row[s].failures <= Slack
      BY DEF IInv, Types, Bounded
    <3>2. suspensions \in Nat /\ activations \in Nat
      BY Consts DEF IInv, Types
    <3> QED
      BY <2>1, <3>1, <3>2, Consts
  <2> QED
    BY <2>2 DEF IInv, Types, TypeOK, SessionType, OwnerType
<1> QED
  BY <1>1, Invariant, PTL

ForCause == \A d \in Sessions, s \in Subs :
  Write(d) /\ row[s].state = "on" /\ row'[s].state = "off"
    => /\ failed[s] = Threshold
       /\ s \notin upset => streak[s] = Threshold

\* A delivery turns a subscription off only after Threshold failed deliveries in
\* a row, as long as its sessions come one after the other and are not lost;
\* else after Threshold failed deliveries, with successes among them.
THEOREM OffForCause == Spec => TurnedOffForCause
<1>1. IInv => ForCause
  <2> SUFFICES ASSUME IInv, NEW d \in Sessions, NEW s \in Subs, Write(d),
                      row[s].state = "on", row'[s].state = "off"
               PROVE  failed[s] = Threshold /\ (s \notin upset => streak[s] = Threshold)
    BY DEF ForCause
  <2>1. s \in Dirty(d) /\ row'[s] = Written(d, s)
    BY DEF Write
  <2>2. Spent(d, s) /\ Counted(d, s) \in Nat
        /\ (failed[s] < Threshold => Counted(d, s) <= failed[s])
    BY <2>1, WrittenFacts
  <2>3. failed[s] \in 0 .. Threshold /\ streak[s] \in 0 .. Threshold
    BY DEF IInv, Types
  <2>4. s \notin upset /\ streak[s] < Threshold => Counted(d, s) <= streak[s]
    BY <2>1, <2>2, WrittenCalm DEF Spent
  <2> QED
    BY <2>2, <2>3, <2>4, Consts DEF Spent
<1>2. Spec => [][ForCause]_vars
  BY <1>1, Invariant, PTL DEF Spec
<1> QED
  BY <1>2 DEF TurnedOffForCause, ForCause

Off == \A s \in Subs :
  row[s].state = "off" /\ row'[s].state = "on"
    => Overturn \/ \E o \in Owners : OwnerWrites(o) /\ owner[o].sub = s
                                      /\ owner[o].wish = "on"

\* No delivery that read a subscription while it was on turns it on again: only
\* its owner or an overturned suspension does.
THEOREM StaysOffHolds == Spec => StaysOff
<1>1. IInv /\ [Next]_vars => Off
  <2> SUFFICES ASSUME IInv, [Next]_vars, NEW s \in Subs,
                      row[s].state = "off", row'[s].state = "on", ~Overturn
               PROVE  \E o \in Owners : OwnerWrites(o) /\ owner[o].sub = s
                                         /\ owner[o].wish = "on"
    BY DEF Off
  <2>1. ASSUME NEW d \in Sessions, Write(d)
        PROVE  FALSE
    <3>1. s \in Dirty(d) /\ row'[s] = Written(d, s)
      BY <2>1 DEF Write
    <3> QED
      BY <3>1, WrittenFacts
  <2>2. ASSUME NEW u \in Subs, Create(u) \/ Delete(u) \/ Break(u)
        PROVE  FALSE
    BY <2>2 DEF Create, Delete, Break, IInv, Types
  <2>3. ~Suspend
    BY DEF Suspend, IInv, Types
  <2>4. ASSUME NEW o \in Owners, OwnerWrites(o)
        PROVE  owner[o].sub = s /\ owner[o].wish = "on"
    <3>1. owner[o].sub = s /\ row'[s] = Changed(o)
      BY <2>4 DEF OwnerWrites, IInv, Types
    <3>2. owner[o].wish \in {"on", "off"}
      BY <2>4 DEF IInv, Types, OwnerType
    <3> QED
      BY <3>1, <3>2 DEF Changed
  <2>5. row' # row
    OBVIOUS
  <2>6. \A d \in Sessions, u \in Subs : ~Read(d) /\ ~Deliver(d, u) /\ ~WriteFails(d) /\ ~Rollback(d)
    BY <2>5 DEF Read, Deliver, WriteFails, Rollback
  <2>7. \A o \in Owners, u \in Subs : ~OwnerReads(o, u)
    BY <2>5 DEF OwnerReads
  <2>8. ~UNCHANGED vars
    BY <2>5 DEF vars
  <2> QED
    BY <2>1, <2>2, <2>3, <2>4, <2>6, <2>7, <2>8 DEF Next, Step
<1>2. Spec => [][Off]_vars
  BY <1>1, Invariant, PTL DEF Spec
<1> QED
  BY <1>2 DEF StaysOff, Off
=============================================================================
