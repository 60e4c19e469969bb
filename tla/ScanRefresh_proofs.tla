------------------------- MODULE ScanRefresh_proofs -------------------------
(***************************************************************************)
(* Proofs about the scan cache and its refresh, for any packages, workers, *)
(* limits and times.                                                       *)
(*                                                                         *)
(* Counted: a counter is the number of its worker's refreshes, so the cap  *)
(* on the one caps the other.  News: the copy for a week of the last scan  *)
(* outlives every error written before.  Looked: so a request that misses  *)
(* the copy finds no such error next, unless it is excused.  Timely: what  *)
(* a scan misses was published after it began, so the hour of a copy       *)
(* counts from there.                                                      *)
(***************************************************************************)
EXTENDS ScanRefresh, FiniteSetTheorems, TLAPS

Places == {"idle", "lock", "queue", "scan", "keep", "record", "fresh", "stale", "error"}
Jobs == [coord : Coords \cup {None}, kind : Kinds, seen : 0 .. MaxVersion, timer : 0 .. ScanTime]

Outcomes == {"none", "scan", "error", "lost"}

\* Who stands anywhere has a coordinate.
Placed == \A p \in Scanners : pc[p] # "idle" => Coord(p) \in Coords

Control ==
  /\ pc \in [Scanners -> Places]
  /\ job \in [Scanners -> Jobs]
  /\ pending \in [Workers -> 0 .. MaxPending]
  /\ Placed

Keys ==
  /\ fresh \in [Coords -> [left : 0 .. FreshTTL, version : 0 .. MaxVersion, timed : BOOLEAN]]
  /\ stale \in [Coords -> 0 .. StaleTTL]
  /\ error \in [Coords -> 0 .. ErrorTTL]
  /\ lock \in [Coords -> 0 .. LockTTL]
  /\ version \in [Coords -> 1 .. MaxVersion]
  /\ age \in [Coords -> [1 .. MaxVersion -> 0 .. Old]]
  /\ outcome \in [Coords -> Outcomes]
  /\ excused \subseteq Callers
  /\ faults \in 0 .. MaxFaults

Counted == \A w \in Workers : pending[w] = Cardinality(Alive(w))

TypeInv == Control /\ Keys /\ Counted

LEMMA ConstantFacts ==
  /\ Tasks \subseteq Nat /\ IsFiniteSet(Tasks)
  /\ Tasks \cap Callers = {}
  /\ Home \in [Scanners -> Workers]
  /\ FreshTTL \in Nat \ {0} /\ StaleTTL \in Nat \ {0} /\ ErrorTTL \in Nat \ {0}
  /\ LockTTL \in Nat \ {0} /\ MaxVersion \in Nat \ {0} /\ Slots \in Nat \ {0}
  /\ MaxPending \in Nat /\ ScanTime \in Nat /\ MaxFaults \in Nat
  /\ None \notin Coords
  /\ StaleTTL >= ErrorTTL
  /\ Old \in Nat
BY RefreshAssumption, TTLAssumption DEF Old

\* A key may have all its time.
LEMMA Full ==
  /\ LockTTL \in 0 .. LockTTL /\ ErrorTTL \in 0 .. ErrorTTL /\ StaleTTL \in 0 .. StaleTTL
  /\ 0 \in 0 .. Old
<1>1. LockTTL \in Nat /\ ErrorTTL \in Nat /\ StaleTTL \in Nat /\ Old \in Nat
  BY ConstantFacts
<1> QED
  BY <1>1

LEMMA NoJobFact == NoJob \in Jobs
BY ConstantFacts DEF NoJob, Jobs, Kinds

-----------------------------------------------------------------------------
(* The counter                                                             *)

\* A worker's refreshes are finitely many.
LEMMA AliveFinite == ASSUME NEW w \in Workers PROVE IsFiniteSet(Alive(w))
<1>1. Alive(w) \subseteq Tasks
  BY DEF Alive
<1> QED
  BY <1>1, ConstantFacts, FS_Subset

LEMMA AliveFinitePrime == ASSUME NEW w \in Workers PROVE IsFiniteSet(Alive(w)')
<1>1. Alive(w)' \subseteq Tasks
  BY DEF Alive
<1> QED
  BY <1>1, ConstantFacts, FS_Subset

\* Steps that neither start nor end a refresh leave the counters right.
LEMMA CountStays ==
  ASSUME Counted, pending' = pending,
         \A t \in Tasks : (pc'[t] # "idle") = (pc[t] # "idle")
  PROVE  Counted'
<1> SUFFICES ASSUME NEW w \in Workers
             PROVE  pending'[w] = Cardinality(Alive(w)')
  BY DEF Counted
<1>1. Alive(w)' = Alive(w)
  BY DEF Alive
<1> QED
  BY <1>1 DEF Counted

LEMMA CountEnds ==
  ASSUME TypeInv, NEW t \in Tasks, pc[t] # "idle", EndTask(t)
  PROVE  Counted'
<1> SUFFICES ASSUME NEW w \in Workers
             PROVE  pending'[w] = Cardinality(Alive(w)')
  BY DEF Counted
<1>1. pc' = [pc EXCEPT ![t] = "idle"] /\ pc \in [Scanners -> Places] /\ t \in Scanners
  BY DEF EndTask, GoTo, TypeInv, Control, Scanners
<1>2. Home[t] \in Workers
  BY <1>1, ConstantFacts
<1>3. pending \in [Workers -> 0 .. MaxPending] /\ pending[w] = Cardinality(Alive(w))
  BY DEF TypeInv, Control, Counted
<1>4. CASE Home[t] = w
  <2>1. t \in Alive(w) /\ Alive(w)' = Alive(w) \ {t}
    BY <1>1, <1>4 DEF Alive
  <2>2. Cardinality(Alive(w)') = Cardinality(Alive(w)) - 1 /\ Cardinality(Alive(w)) \in Nat
    BY <2>1, AliveFinite, FS_RemoveElement, FS_CardinalityType
  <2>3. Cardinality(Alive(w)) # 0
    BY <2>1, AliveFinite, FS_EmptySet
  <2>4. pending' = [pending EXCEPT ![w] = IF pending[w] > 0 THEN pending[w] - 1 ELSE 0]
    BY <1>4 DEF EndTask
  <2> QED
    BY <1>3, <2>2, <2>3, <2>4, ConstantFacts
<1>5. CASE Home[t] # w
  <2>1. Alive(w)' = Alive(w)
    BY <1>1, <1>5 DEF Alive
  <2>2. pending'[w] = pending[w]
    BY <1>2, <1>3, <1>5 DEF EndTask
  <2> QED
    BY <1>3, <2>1, <2>2
<1> QED
  BY <1>4, <1>5

LEMMA CountStarts ==
  ASSUME TypeInv, NEW t \in Tasks, NEW q \in Callers, Home[t] = Home[q], pc[t] = "idle",
         pc' = [pc EXCEPT ![q] = "idle", ![t] = "lock"],
         pending' = [pending EXCEPT ![Home[q]] = @ + 1]
  PROVE  Counted'
<1> SUFFICES ASSUME NEW w \in Workers
             PROVE  pending'[w] = Cardinality(Alive(w)')
  BY DEF Counted
<1>1. pc \in [Scanners -> Places] /\ t \in Scanners /\ q \in Scanners /\ q \notin Tasks
  BY ConstantFacts DEF TypeInv, Control, Scanners
<1>2. pending \in [Workers -> 0 .. MaxPending] /\ pending[w] = Cardinality(Alive(w))
  BY DEF TypeInv, Control, Counted
<1>3. Home[q] \in Workers
  BY <1>1, ConstantFacts
<1>6. pending'[w] = IF Home[q] = w THEN pending[w] + 1 ELSE pending[w]
  BY <1>2, <1>3
<1>7. \A s \in Tasks : pc'[s] = IF s = t THEN "lock" ELSE pc[s]
  BY <1>1, ConstantFacts DEF Scanners
<1>4. CASE Home[t] = w
  <2>1. t \notin Alive(w)
    BY DEF Alive
  <2>3. Alive(w)' = Alive(w) \cup {t}
    <3>1. \A s \in Tasks : s \in Alive(w)' <=> (s = t \/ s \in Alive(w))
      <4> TAKE s \in Tasks
      <4>1. s \in Alive(w)' <=> Home[s] = w /\ pc'[s] # "idle"
        BY DEF Alive
      <4>2. s \in Alive(w) <=> Home[s] = w /\ pc[s] # "idle"
        BY DEF Alive
      <4>3. s = t => Home[s] = w /\ pc'[s] # "idle"
        <5>1. pc'[t] = "lock"
          BY <1>7
        <5> QED
          BY <1>4, <5>1
      <4>4. s # t => pc'[s] = pc[s]
        BY <1>7
      <4> QED
        BY <4>1, <4>2, <4>3, <4>4
    <3>2. Alive(w)' \subseteq Tasks /\ Alive(w) \subseteq Tasks
      BY DEF Alive
    <3> QED
      BY <3>1, <3>2
  <2>2. Cardinality(Alive(w)') = Cardinality(Alive(w)) + 1
    BY <2>1, <2>3, AliveFinite, FS_AddElement
  <2> QED
    BY <1>2, <1>4, <1>6, <2>2
<1>5. CASE Home[t] # w
  <2>1. Alive(w)' = Alive(w)
    BY <1>5, <1>7 DEF Alive
  <2> QED
    BY <1>2, <1>5, <1>6, <2>1
<1> QED
  BY <1>4, <1>5

-----------------------------------------------------------------------------
(* What a step does to the tasks and requests                              *)

\* A scan that is under way after a step was so before, or begins.
Settled ==
  \A o \in Scanners :
    Timed(o)' => \/ Timed(o) /\ job'[o] = job[o]
                 \/ job'[o].coord \in Coords /\ job'[o].seen = version[job'[o].coord]

Moved == Control' /\ Counted' /\ Settled

LEMMA ScannerFacts ==
  /\ Tasks \subseteq Scanners /\ Callers \subseteq Scanners
  /\ \A q \in Callers : q \notin Tasks
BY ConstantFacts DEF Scanners

LEMMA Going ==
  ASSUME TypeInv, NEW p \in Scanners, NEW place \in Places, place # "idle", pc[p] # "idle",
         GoTo(p, place), pending' = pending,
         \/ job' = job /\ place # "scan"
         \/ job' = Begun(p)
         \/ job' = Seen(p) /\ place # "scan"
  PROVE  Moved
<1>1. /\ pc \in [Scanners -> Places] /\ job \in [Scanners -> Jobs]
      /\ Placed /\ version \in [Coords -> 1 .. MaxVersion]
  BY DEF TypeInv, Control, Keys
<1>2. Coord(p) \in Coords
  BY <1>1 DEF Placed
<1>3. pc' = [pc EXCEPT ![p] = place] /\ pc' \in [Scanners -> Places]
  BY <1>1 DEF GoTo
<1>4. /\ job' \in [Scanners -> Jobs]
      /\ job'[p].coord = job[p].coord
      /\ \A o \in Scanners \ {p} : job'[o] = job[o]
  <2>1. CASE job' = job
    BY <1>1, <2>1
  <2>2. CASE job' = Begun(p)
    <3>1. version[Coord(p)] \in 0 .. MaxVersion /\ 0 \in 0 .. ScanTime
      BY <1>1, <1>2, ConstantFacts
    <3>2. [job[p] EXCEPT !.seen = version[Coord(p)], !.timer = 0] \in Jobs
      BY <1>1, <3>1 DEF Jobs
    <3>3. job' = [job EXCEPT ![p] = [job[p] EXCEPT !.seen = version[Coord(p)], !.timer = 0]]
      BY <1>1, <2>2 DEF Begun, Jobs
    <3> QED
      BY <1>1, <3>2, <3>3 DEF Jobs
  <2>3. CASE job' = Seen(p)
    <3>1. 0 \in 0 .. MaxVersion /\ 0 \in 0 .. ScanTime
      BY ConstantFacts
    <3>2. [job[p] EXCEPT !.seen = 0, !.timer = 0] \in Jobs
      BY <1>1, <3>1 DEF Jobs
    <3>3. job' = [job EXCEPT ![p] = [job[p] EXCEPT !.seen = 0, !.timer = 0]]
      BY <1>1, <2>3 DEF Seen, Jobs
    <3> QED
      BY <1>1, <3>2, <3>3 DEF Jobs
  <2> QED
    BY <2>1, <2>2, <2>3
<1>5. Placed'
  BY <1>1, <1>2, <1>3, <1>4 DEF Placed, Coord
<1>6. Control'
  BY <1>3, <1>4, <1>5 DEF Control, TypeInv
<1>7. Counted'
  <2>1. \A t \in Tasks : (pc'[t] # "idle") = (pc[t] # "idle")
    BY <1>1, <1>3, ScannerFacts
  <2> QED
    BY <2>1, CountStays DEF TypeInv
<1>8. Settled
  <2> SUFFICES ASSUME NEW o \in Scanners, Timed(o)'
               PROVE  \/ Timed(o) /\ job'[o] = job[o]
                      \/ job'[o].coord \in Coords /\ job'[o].seen = version[job'[o].coord]
    BY DEF Settled
  <2>1. CASE o # p
    BY <1>1, <1>3, <1>4, <2>1 DEF Timed, At, Kind
  <2>2. CASE o = p
    <3>1. place = "scan"
      BY <1>1, <1>3, <2>2 DEF Timed, At
    <3>3. CASE job' = Begun(p)
      <4>1. job'[p].seen = version[Coord(p)]
        BY <1>1, <3>3 DEF Begun, Jobs
      <4> QED
        BY <1>2, <1>4, <2>2, <4>1 DEF Coord
    <3> QED
      BY <3>1, <3>3
  <2> QED
    BY <2>1, <2>2
<1> QED
  BY <1>6, <1>7, <1>8 DEF Moved

LEMMA EndingLocals ==
  ASSUME TypeInv, NEW p \in Scanners,
         pc' = [pc EXCEPT ![p] = "idle"], job' = [job EXCEPT ![p] = NoJob]
  PROVE  /\ pc' \in [Scanners -> Places] /\ job' \in [Scanners -> Jobs]
         /\ Placed' /\ Settled
<1>1. /\ pc \in [Scanners -> Places] /\ job \in [Scanners -> Jobs] /\ Placed
  BY DEF TypeInv, Control
<1>2. pc' \in [Scanners -> Places] /\ job' \in [Scanners -> Jobs]
  BY <1>1, NoJobFact DEF Places
<1>3. Placed'
  BY <1>1 DEF Placed, Coord
<1>4. Settled
  <2> SUFFICES ASSUME NEW o \in Scanners, Timed(o)'
               PROVE  Timed(o) /\ job'[o] = job[o]
    BY DEF Settled
  <2>1. o # p
    BY <1>1 DEF Timed, At
  <2> QED
    BY <1>1, <2>1 DEF Timed, At, Kind
<1> QED
  BY <1>2, <1>3, <1>4

LEMMA EndingTask ==
  ASSUME TypeInv, NEW t \in Tasks, pc[t] # "idle", EndTask(t)
  PROVE  Moved
<1>1. t \in Scanners
  BY ScannerFacts
<1>2. /\ pc' \in [Scanners -> Places] /\ job' \in [Scanners -> Jobs]
      /\ Placed' /\ Settled
  BY <1>1, EndingLocals DEF EndTask, GoTo
<1>3. pending' \in [Workers -> 0 .. MaxPending]
  <2>1. pending \in [Workers -> 0 .. MaxPending] /\ Home[t] \in Workers /\ MaxPending \in Nat
    BY <1>1, ConstantFacts DEF TypeInv, Control
  <2>2. (IF pending[Home[t]] > 0 THEN pending[Home[t]] - 1 ELSE 0) \in 0 .. MaxPending
    BY <2>1
  <2>3. pending' = [pending EXCEPT ![Home[t]] =
                     IF pending[Home[t]] > 0 THEN pending[Home[t]] - 1 ELSE 0]
    BY DEF EndTask
  <2> QED
    BY <2>1, <2>2, <2>3
<1> QED
  BY <1>2, <1>3, CountEnds DEF Moved, Control

LEMMA EndingRequest ==
  ASSUME TypeInv, NEW q \in Callers, EndRequest(q)
  PROVE  Moved
<1>1. /\ pc' \in [Scanners -> Places] /\ job' \in [Scanners -> Jobs]
      /\ Placed' /\ Settled
  BY ScannerFacts, EndingLocals DEF EndRequest, GoTo
<1>2. pending' = pending
  BY DEF EndRequest
<1>3. \A t \in Tasks : (pc'[t] # "idle") = (pc[t] # "idle")
  BY ScannerFacts DEF EndRequest, GoTo, TypeInv, Control
<1>4. Counted'
  BY <1>2, <1>3, CountStays DEF TypeInv
<1> QED
  BY <1>1, <1>2, <1>4 DEF Moved, Control, TypeInv

LEMMA Ending ==
  ASSUME TypeInv, NEW p \in Scanners, pc[p] # "idle", End(p)
  PROVE  Moved
<1>1. CASE p \in Tasks
  BY <1>1, EndingTask DEF End
<1>2. CASE p \notin Tasks
  BY <1>2, EndingRequest DEF End, Scanners
<1> QED
  BY <1>1, <1>2

LEMMA Scheduling ==
  ASSUME TypeInv, NEW q \in Callers, pc[q] # "idle", Schedule(q)
  PROVE  Moved
<1>1. CASE ~HasRoom(Home[q])
  BY <1>1, EndingRequest DEF Schedule
<1>2. CASE HasRoom(Home[q])
  <2>1. PICK t \in Tasks :
          /\ Home[t] = Home[q]
          /\ At(t, "idle")
          /\ pc' = [pc EXCEPT ![q] = "idle", ![t] = "lock"]
          /\ job' = [job EXCEPT ![q] = NoJob, ![t] = [NoJob EXCEPT !.coord = Coord(q)]]
          /\ pending' = [pending EXCEPT ![Home[q]] = @ + 1]
    BY <1>2 DEF Schedule
  <2>2. /\ pc \in [Scanners -> Places] /\ job \in [Scanners -> Jobs] /\ Placed
        /\ pending \in [Workers -> 0 .. MaxPending]
        /\ t \in Scanners /\ q \in Scanners /\ t # q /\ pc[t] = "idle"
        /\ Home[q] \in Workers
    BY <2>1, ScannerFacts, ConstantFacts DEF TypeInv, Control, At
  <2>3. Coord(q) \in Coords
    BY <2>2 DEF Placed
  <2>4. pc' \in [Scanners -> Places] /\ pc'[q] = "idle" /\ pc'[t] = "lock"
        /\ \A o \in Scanners \ {q, t} : pc'[o] = pc[o]
    BY <2>1, <2>2 DEF Places
  <2>5. [NoJob EXCEPT !.coord = Coord(q)] \in Jobs
    BY <2>3, NoJobFact DEF Jobs
  <2>6. job' \in [Scanners -> Jobs] /\ job'[t].coord = Coord(q)
        /\ \A o \in Scanners \ {q, t} : job'[o] = job[o]
    <3>1. job' \in [Scanners -> Jobs] /\ job'[t] = [NoJob EXCEPT !.coord = Coord(q)]
          /\ \A o \in Scanners \ {q, t} : job'[o] = job[o]
      BY <2>1, <2>2, <2>5, NoJobFact
    <3>2. [NoJob EXCEPT !.coord = Coord(q)].coord = Coord(q)
      BY DEF NoJob
    <3> QED
      BY <3>1, <3>2
  <2>7. Placed'
    BY <2>2, <2>3, <2>4, <2>6 DEF Placed, Coord
  <2>8. pending' \in [Workers -> 0 .. MaxPending]
    <3>1. pending[Home[q]] + 1 \in 0 .. MaxPending
      BY <1>2, <2>2, ConstantFacts DEF HasRoom
    <3> QED
      BY <2>1, <2>2, <3>1
  <2>9. Settled
    <3> SUFFICES ASSUME NEW o \in Scanners, Timed(o)'
                 PROVE  Timed(o) /\ job'[o] = job[o]
      BY DEF Settled
    <3>1. o # q /\ o # t
      BY <2>4 DEF Timed, At
    <3> QED
      BY <2>4, <2>6, <3>1 DEF Timed, At, Kind
  <2>10. Counted'
    BY <2>1, <2>2, CountStarts
  <2> QED
    BY <2>4, <2>6, <2>7, <2>8, <2>9, <2>10 DEF Moved, Control
<1> QED
  BY <1>1, <1>2

LEMMA Calling ==
  ASSUME TypeInv, NEW q \in Callers, NEW kind \in Kinds, NEW c \in Coords, Call(q, kind, c)
  PROVE  Moved
<1> DEFINE place == IF kind \in Direct THEN "scan" ELSE "fresh"
           seen == IF kind \in Direct THEN version[c] ELSE 0
           new == [NoJob EXCEPT !.coord = c, !.kind = kind, !.seen = seen]
<1>1. /\ pc \in [Scanners -> Places] /\ job \in [Scanners -> Jobs] /\ Placed
      /\ version \in [Coords -> 1 .. MaxVersion]
      /\ q \in Scanners /\ pc[q] = "idle" /\ place \in Places
  BY ScannerFacts DEF TypeInv, Control, Keys, Call, At, Places
<1>2. new \in Jobs /\ new.coord = c /\ new.seen = seen
  <2>1. seen \in 0 .. MaxVersion
    BY <1>1, ConstantFacts
  <2> QED
    BY <2>1, NoJobFact DEF NoJob, Jobs
<1>3. pc' = [pc EXCEPT ![q] = place] /\ job' = [job EXCEPT ![q] = new]
  BY DEF Call, GoTo
<1> HIDE DEF new, seen
<1>4. pc' \in [Scanners -> Places] /\ job' \in [Scanners -> Jobs] /\ Placed'
  BY <1>1, <1>2, <1>3 DEF Placed, Coord
<1>5. Counted'
  <2>1. \A t \in Tasks : pc'[t] = pc[t]
    BY <1>1, <1>3, ScannerFacts
  <2>2. pending' = pending
    BY DEF Call
  <2> QED
    BY <2>1, <2>2, CountStays DEF TypeInv
<1>6. Settled
  <2> SUFFICES ASSUME NEW o \in Scanners, Timed(o)'
               PROVE  \/ Timed(o) /\ job'[o] = job[o]
                      \/ job'[o].coord \in Coords /\ job'[o].seen = version[job'[o].coord]
    BY DEF Settled
  <2>1. CASE o # q
    BY <1>1, <1>3, <2>1 DEF Timed, At, Kind
  <2>2. CASE o = q
    <3>1. kind \in Direct
      BY <1>1, <1>3, <2>2 DEF Timed, At
    <3> QED
      BY <1>1, <1>2, <1>3, <2>2, <3>1 DEF seen
  <2> QED
    BY <2>1, <2>2
<1>7. pending' \in [Workers -> 0 .. MaxPending]
  BY DEF Call, TypeInv, Control
<1> QED
  BY <1>4, <1>5, <1>6, <1>7 DEF Moved, Control

LEMMA ScanMoves ==
  ASSUME TypeInv, NEW p \in Scanners, Scan(p)
  PROVE  Moved
<1> USE DEF Places
<1>2. CASE ScanError(p)
  <2>1. CASE p \in Tasks
    BY <1>2, <2>1, Going DEF ScanError, At
  <2>2. CASE p \notin Tasks
    BY <1>2, <2>2, EndingRequest DEF ScanError, Scanners
  <2> QED
    BY <2>1, <2>2
<1>3. CASE ScanFails(p)
  BY <1>3, Ending DEF ScanFails, At
<1>4. CASE Save(p)
  BY <1>4, Going DEF Save, At
<1>5. CASE Keep(p)
  BY <1>5, Ending DEF Keep, At
<1> QED
  BY <1>2, <1>3, <1>4, <1>5 DEF Scan

LEMMA TaskMoves ==
  ASSUME TypeInv, NEW t \in Tasks, TaskStep(t) \/ Enter(t)
  PROVE  Moved
<1> USE DEF Places
<1>0. t \in Scanners
  BY ScannerFacts
<1>1. CASE TakeLock(t)
  <2>1. CASE lock[Coord(t)] = 0
    BY <1>0, <1>1, <2>1, Going DEF TakeLock, At
  <2>2. CASE lock[Coord(t)] # 0
    BY <1>1, <2>2, EndingTask DEF TakeLock, At
  <2> QED
    BY <2>1, <2>2
<1>2. CASE LockError(t)
  BY <1>0, <1>2, Going DEF LockError, At
<1>3. CASE Enter(t)
  BY <1>0, <1>3, Going DEF Enter, At
<1>4. CASE Record(t)
  BY <1>4, EndingTask DEF Record, At
<1>5. CASE Scan(t)
  BY <1>0, <1>5, ScanMoves
<1> QED
  BY <1>1, <1>2, <1>3, <1>4, <1>5 DEF TaskStep

LEMMA RequestMoves ==
  ASSUME TypeInv, NEW q \in Callers, RequestStep(q)
  PROVE  Moved
<1> USE DEF Places
<1>0. q \in Scanners
  BY ScannerFacts
<1>1. CASE ReadFresh(q)
  BY <1>0, <1>1, Going, EndingRequest DEF ReadFresh, At
<1>2. CASE Refuse(q)
  BY <1>2, EndingRequest DEF Refuse
<1>3. CASE ReadStale(q)
  BY <1>0, <1>3, Going, Scheduling DEF ReadStale, At
<1>4. CASE NotScannable(q)
  BY <1>4, EndingRequest DEF NotScannable
<1>5. CASE SayQueued(q)
  BY <1>5, Scheduling DEF SayQueued, At
<1>6. CASE Scan(q)
  BY <1>0, <1>6, ScanMoves
<1> QED
  BY <1>1, <1>2, <1>3, <1>4, <1>5, <1>6 DEF RequestStep

LEMMA CrashMoves ==
  ASSUME TypeInv, NEW w \in Workers, Crash(w)
  PROVE  Moved
<1>1. /\ pc \in [Scanners -> Places] /\ job \in [Scanners -> Jobs] /\ Placed
      /\ pending \in [Workers -> 0 .. MaxPending] /\ Counted
  BY DEF TypeInv, Control
<1>2. /\ pc' = [p \in Scanners |-> IF Home[p] = w THEN "idle" ELSE pc[p]]
      /\ job' = [p \in Scanners |-> IF Home[p] = w THEN NoJob ELSE job[p]]
      /\ pending' = [pending EXCEPT ![w] = 0]
  BY DEF Crash
<1>3. pc' \in [Scanners -> Places] /\ job' \in [Scanners -> Jobs]
  BY <1>1, <1>2, NoJobFact DEF Places
<1>4. Placed'
  BY <1>1, <1>2 DEF Placed, Coord
<1>5. pending' \in [Workers -> 0 .. MaxPending]
  BY <1>1, <1>2, ConstantFacts
<1>6. Settled
  <2> SUFFICES ASSUME NEW o \in Scanners, Timed(o)'
               PROVE  Timed(o) /\ job'[o] = job[o]
    BY DEF Settled
  <2>1. Home[o] # w
    BY <1>2 DEF Timed, At
  <2> QED
    BY <1>2, <2>1 DEF Timed, At, Kind
<1>7. Counted'
  <2> SUFFICES ASSUME NEW v \in Workers
               PROVE  pending'[v] = Cardinality(Alive(v)')
    BY DEF Counted
  <2>1. CASE v = w
    <3>1. Alive(v)' = {}
      BY <1>2, <2>1, ScannerFacts DEF Alive
    <3> QED
      BY <1>1, <1>2, <2>1, <3>1, FS_EmptySet
  <2>2. CASE v # w
    <3>1. Alive(v)' = Alive(v)
      BY <1>2, <2>2, ScannerFacts DEF Alive
    <3> QED
      BY <1>1, <1>2, <2>2, <3>1 DEF Counted
  <2> QED
    BY <2>1, <2>2
<1> QED
  BY <1>3, <1>4, <1>5, <1>6, <1>7 DEF Moved, Control

-----------------------------------------------------------------------------
(* Type correctness and the cap                                            *)

LEMMA TickControl == ASSUME TypeInv, Tick PROVE Control' /\ Counted'
<1>1. /\ pc \in [Scanners -> Places] /\ job \in [Scanners -> Jobs] /\ Placed
      /\ pc' = pc /\ pending' = pending
  BY DEF TypeInv, Control, Tick
<1>2. \A p \in Scanners : job'[p] \in Jobs /\ job'[p].coord = job[p].coord
  <2> TAKE p \in Scanners
  <2>1. More(job[p].timer, ScanTime) \in 0 .. ScanTime
    BY <1>1, ConstantFacts DEF More, Jobs
  <2>2. job'[p] = IF Timed(p) THEN [job[p] EXCEPT !.timer = More(job[p].timer, ScanTime)]
                  ELSE job[p]
    BY DEF Tick
  <2> QED
    BY <1>1, <2>1, <2>2 DEF Jobs
<1>3. job' \in [Scanners -> Jobs]
  BY <1>2 DEF Tick
<1>4. Placed'
  BY <1>1, <1>2 DEF Placed, Coord
<1>5. Counted'
  BY <1>1, CountStays DEF TypeInv
<1> QED
  BY <1>1, <1>3, <1>4, <1>5 DEF Control, TypeInv

LEMMA LessRange ==
  ASSUME NEW most \in Nat, NEW n \in 0 .. most PROVE Less(n) \in 0 .. most
BY DEF Less

LEMMA MoreRange ==
  ASSUME NEW most \in Nat, NEW n \in 0 .. most PROVE More(n, most) \in 0 .. most
BY DEF More

LEMMA TickKeys == ASSUME TypeInv, Tick PROVE Keys'
<1> USE ConstantFacts
<1>1. \A c \in Coords :
        (IF fresh[c].left > 1 THEN [fresh[c] EXCEPT !.left = @ - 1] ELSE NoCopy)
          \in [left : 0 .. FreshTTL, version : 0 .. MaxVersion, timed : BOOLEAN]
  <2> TAKE c \in Coords
  <2>1. fresh[c] \in [left : 0 .. FreshTTL, version : 0 .. MaxVersion, timed : BOOLEAN]
    BY DEF TypeInv, Keys
  <2>2. CASE fresh[c].left > 1
    <3>1. fresh[c].left - 1 \in 0 .. FreshTTL
      BY <2>1, <2>2
    <3>2. [fresh[c] EXCEPT !.left = fresh[c].left - 1]
            \in [left : 0 .. FreshTTL, version : 0 .. MaxVersion, timed : BOOLEAN]
      BY <2>1, <3>1
    <3> QED
      BY <2>2, <3>2
  <2>3. NoCopy \in [left : 0 .. FreshTTL, version : 0 .. MaxVersion, timed : BOOLEAN]
    BY DEF NoCopy
  <2> QED
    BY <2>2, <2>3
<1>2. fresh' \in [Coords -> [left : 0 .. FreshTTL, version : 0 .. MaxVersion, timed : BOOLEAN]]
  BY <1>1 DEF Tick
<1>3. stale' \in [Coords -> 0 .. StaleTTL]
  <2>1. \A c \in Coords : Less(stale[c]) \in 0 .. StaleTTL
    BY LessRange DEF TypeInv, Keys
  <2> QED
    BY <2>1 DEF Tick
<1>4. error' \in [Coords -> 0 .. ErrorTTL]
  <2>1. \A c \in Coords : Less(error[c]) \in 0 .. ErrorTTL
    BY LessRange DEF TypeInv, Keys
  <2> QED
    BY <2>1 DEF Tick
<1>5. lock' \in [Coords -> 0 .. LockTTL]
  <2>1. \A c \in Coords : Less(lock[c]) \in 0 .. LockTTL
    BY LessRange DEF TypeInv, Keys
  <2> QED
    BY <2>1 DEF Tick
<1>6. age' \in [Coords -> [1 .. MaxVersion -> 0 .. Old]]
  <2>1. \A c \in Coords, v \in 1 .. MaxVersion : More(age[c][v], Old) \in 0 .. Old
    <3> TAKE c \in Coords, v \in 1 .. MaxVersion
    <3>1. age[c][v] \in 0 .. Old
      BY DEF TypeInv, Keys
    <3> QED
      BY <3>1, MoreRange
  <2> QED
    BY <2>1 DEF Tick
<1> QED
  BY <1>2, <1>3, <1>4, <1>5, <1>6 DEF Keys, TypeInv, Tick

LEMMA FaultType ==
  ASSUME faults \in 0 .. MaxFaults, Fault \/ faults' = faults
  PROVE  faults' \in 0 .. MaxFaults
BY ConstantFacts DEF Fault

\* The keys after a step that neither publishes nor lets time pass.
LEMMA StepKeys ==
  ASSUME TypeInv,
         \/ \E t \in Tasks : TaskStep(t) \/ Enter(t)
         \/ \E q \in Callers : \/ RequestStep(q)
                               \/ \E kind \in Kinds, c \in Coords : Call(q, kind, c)
         \/ \E w \in Workers : Crash(w)
  PROVE  Keys'
<1> USE ConstantFacts
<1>1. /\ Keys /\ job \in [Scanners -> Jobs] /\ faults \in 0 .. MaxFaults
      /\ \A p \in Scanners : pc[p] # "idle" => Coord(p) \in Coords
  BY DEF TypeInv, Control, Keys, Placed
<1>2. ASSUME NEW t \in Tasks, TakeLock(t)
      PROVE  Keys'
  <2>1. lock' = lock \/ lock' = [lock EXCEPT ![Coord(t)] = LockTTL]
    BY <1>2 DEF TakeLock
  <2>2. lock \in [Coords -> 0 .. LockTTL] /\ LockTTL \in 0 .. LockTTL
    BY <1>1, Full DEF Keys
  <2>3. lock' \in [Coords -> 0 .. LockTTL]
    BY <2>1, <2>2
  <2> QED
    BY <1>1, <1>2, <2>3 DEF TakeLock, kept, packages, Keys
<1>3. ASSUME NEW t \in Tasks, LockError(t)
      PROVE  Keys'
  <2>1. lock' \in [Coords -> 0 .. LockTTL]
    <3>1. (IF lock[Coord(t)] = 0 THEN LockTTL ELSE lock[Coord(t)]) \in 0 .. LockTTL
      BY <1>1, <1>3 DEF LockError, At, Keys, Scanners
    <3>2. \/ lock' = lock
          \/ lock' = [lock EXCEPT ![Coord(t)] = IF lock[Coord(t)] = 0 THEN LockTTL
                                               ELSE lock[Coord(t)]]
      BY <1>3 DEF LockError
    <3> QED
      BY <1>1, <3>1, <3>2 DEF Keys
  <2> QED
    BY <1>1, <1>3, <2>1, FaultType DEF LockError, kept, packages, Keys
<1>4. ASSUME NEW t \in Tasks, Enter(t)
      PROVE  Keys'
  BY <1>1, <1>4 DEF Enter, kept, packages, Keys
<1>5. ASSUME NEW t \in Tasks, Record(t)
      PROVE  Keys'
  <2>1. /\ error' = error \/ error' = [error EXCEPT ![Coord(t)] = ErrorTTL]
        /\ outcome' = outcome \/ outcome' = [outcome EXCEPT ![Coord(t)] = "error"]
        /\ Fault \/ faults' = faults
    BY <1>5 DEF Record
  <2>4. error \in [Coords -> 0 .. ErrorTTL] /\ ErrorTTL \in 0 .. ErrorTTL
    BY <1>1, Full DEF Keys
  <2>2. error' \in [Coords -> 0 .. ErrorTTL]
    BY <2>1, <2>4
  <2>3. outcome' \in [Coords -> Outcomes]
    BY <1>1, <2>1 DEF Keys, Outcomes
  <2> QED
    BY <1>1, <1>5, <2>1, <2>2, <2>3, FaultType DEF Record, packages, Keys
<1>6. ASSUME NEW p \in Scanners, ScanError(p) \/ ScanFails(p)
      PROVE  Keys'
  BY <1>1, <1>6, FaultType DEF ScanError, ScanFails, kept, packages, Keys
<1>7. ASSUME NEW p \in Scanners, Save(p)
      PROVE  Keys'
  <2>1. [left |-> FreshTTL, version |-> job[p].seen, timed |-> Kind(p) # "catalog"]
          \in [left : 0 .. FreshTTL, version : 0 .. MaxVersion, timed : BOOLEAN]
    BY <1>1 DEF Jobs
  <2>2. fresh' \in [Coords -> [left : 0 .. FreshTTL, version : 0 .. MaxVersion, timed : BOOLEAN]]
    BY <1>1, <1>7, <2>1 DEF Save, Keys
  <2> QED
    BY <1>1, <1>7, <2>2, FaultType DEF Save, packages, Keys
<1>8. ASSUME NEW p \in Scanners, Keep(p)
      PROVE  Keys'
  <2>1. /\ stale' = stale \/ stale' = [stale EXCEPT ![Coord(p)] = StaleTTL]
        /\ \/ outcome' = [outcome EXCEPT ![Coord(p)] = "scan"]
           \/ outcome' = [outcome EXCEPT ![Coord(p)] =
                           IF outcome[Coord(p)] = "error" THEN "lost" ELSE outcome[Coord(p)]]
        /\ excused' = excused \/ excused' = excused \cup Looking(Coord(p))
        /\ Fault \/ faults' = faults
    BY <1>8 DEF Keep
  <2>4. stale \in [Coords -> 0 .. StaleTTL] /\ StaleTTL \in 0 .. StaleTTL
    BY <1>1, Full DEF Keys
  <2>2. stale' \in [Coords -> 0 .. StaleTTL]
    BY <2>1, <2>4
  <2>3. outcome' \in [Coords -> Outcomes]
    <3>1. Coord(p) \in Coords
      BY <1>1, <1>8 DEF Keep, At
    <3>2. outcome[Coord(p)] \in Outcomes
      BY <1>1, <3>1 DEF Keys
    <3> QED
      BY <1>1, <2>1, <3>2 DEF Keys, Outcomes
  <2>5. excused' \subseteq Callers
    BY <1>1, <2>1 DEF Keys, Looking
  <2> QED
    BY <1>1, <1>8, <2>1, <2>2, <2>3, <2>5, FaultType DEF Keep, packages, Keys
<1>9. ASSUME NEW q \in Callers,
             ReadFresh(q) \/ Refuse(q) \/ ReadStale(q) \/ NotScannable(q) \/ SayQueued(q)
      PROVE  Keys'
  <2>1. Fault \/ faults' = faults
    BY <1>9 DEF ReadFresh, Refuse, ReadStale, NotScannable, SayQueued, Found, Missed
  <2>2. UNCHANGED <<fresh, stale, error, outcome, packages, lock>>
    BY <1>9 DEF ReadFresh, Refuse, ReadStale, NotScannable, SayQueued, kept
  <2>3. excused' \subseteq Callers
    <3>1. excused' = excused \/ excused' = excused \cup {q} \/ excused' = excused \ {q}
      BY <1>9 DEF ReadFresh, Refuse, ReadStale, NotScannable, SayQueued, kept
    <3> QED
      BY <1>1, <3>1 DEF Keys
  <2> QED
    BY <1>1, <2>1, <2>2, <2>3, FaultType DEF packages, Keys
<1>10. ASSUME NEW q \in Callers, NEW kind \in Kinds, NEW c \in Coords, Call(q, kind, c)
       PROVE  Keys'
  BY <1>1, <1>10 DEF Call, kept, packages, Keys
<1>11. ASSUME NEW w \in Workers, Crash(w)
       PROVE  Keys'
  BY <1>1, <1>11, FaultType DEF Crash, packages, Keys
<1> QED
  BY <1>2, <1>3, <1>4, <1>5, <1>6, <1>7, <1>8, <1>9, <1>10, <1>11, ScannerFacts
     DEF TaskStep, RequestStep, Scan

LEMMA PublishType == ASSUME TypeInv, NEW c \in Coords, Publish(c) PROVE TypeInv'
<1>1. version' \in [Coords -> 1 .. MaxVersion]
  BY ConstantFacts DEF Publish, TypeInv, Keys
<1>2. age' \in [Coords -> [1 .. MaxVersion -> 0 .. Old]]
  <2>1. age \in [Coords -> [1 .. MaxVersion -> 0 .. Old]] /\ 0 \in 0 .. Old
    BY Full DEF TypeInv, Keys
  <2>2. [age[c] EXCEPT ![version[c] + 1] = 0] \in [1 .. MaxVersion -> 0 .. Old]
    BY <2>1
  <2>3. age' = [age EXCEPT ![c] = [age[c] EXCEPT ![version[c] + 1] = 0]]
    BY DEF Publish
  <2> QED
    BY <2>1, <2>2, <2>3
<1>3. Keys'
  BY <1>1, <1>2 DEF Publish, kept, TypeInv, Keys
<1>4. Control'
  BY DEF Publish, TypeInv, Control, Placed, Coord
<1>5. Counted'
  BY CountStays DEF Publish, TypeInv
<1> QED
  BY <1>3, <1>4, <1>5 DEF TypeInv

LEMMA InitType == Init => TypeInv
<1> SUFFICES ASSUME Init PROVE TypeInv
  OBVIOUS
<1>1. Control
  BY NoJobFact, ConstantFacts DEF Init, Control, Placed, Places
<1>2. Keys
  BY ConstantFacts DEF Init, Keys, NoCopy, Outcomes
<1>3. Counted
  <2> SUFFICES ASSUME NEW w \in Workers
               PROVE  pending[w] = Cardinality(Alive(w))
    BY DEF Counted
  <2>1. Alive(w) = {}
    BY ScannerFacts DEF Init, Alive
  <2> QED
    BY <2>1, FS_EmptySet DEF Init
<1> QED
  BY <1>1, <1>2, <1>3 DEF TypeInv

LEMMA TypeNext == TypeInv /\ [Next]_vars => TypeInv'
<1> SUFFICES ASSUME TypeInv, [Next]_vars PROVE TypeInv'
  OBVIOUS
<1>1. ASSUME NEW t \in Tasks, TaskStep(t) \/ Enter(t)
      PROVE  TypeInv'
  BY <1>1, TaskMoves, StepKeys DEF Moved, TypeInv
<1>2. ASSUME NEW q \in Callers, RequestStep(q)
      PROVE  TypeInv'
  BY <1>2, RequestMoves, StepKeys DEF Moved, TypeInv
<1>3. ASSUME NEW q \in Callers, NEW kind \in Kinds, NEW c \in Coords, Call(q, kind, c)
      PROVE  TypeInv'
  BY <1>3, Calling, StepKeys DEF Moved, TypeInv
<1>4. ASSUME NEW w \in Workers, Crash(w)
      PROVE  TypeInv'
  BY <1>4, CrashMoves, StepKeys DEF Moved, TypeInv
<1>5. CASE Tick
  BY <1>5, TickControl, TickKeys DEF TypeInv
<1>6. CASE UNCHANGED vars
  BY <1>6, CountStays DEF vars, TypeInv, Control, Keys, Placed, Coord
<1> QED
  BY <1>1, <1>2, <1>3, <1>4, <1>5, <1>6, PublishType DEF Next

\* Every reachable state is well typed: in particular no counter passes the cap.
THEOREM TypeCorrect == Spec => []TypeOK
<1>1. TypeInv => TypeOK
  BY DEF TypeInv, Control, Keys, TypeOK, Places, Jobs, Outcomes
<1> QED
  BY <1>1, InitType, TypeNext, PTL DEF Spec

\* scan_package_endpoint's stored reads queue no more work than the cap: for any
\* workers, limits and faults a worker has at most MaxPending refreshes.
THEOREM BackgroundBoundedHolds == Spec => []BackgroundBounded
<1>1. TypeInv => BackgroundBounded
  BY ConstantFacts DEF TypeInv, Control, Counted, BackgroundBounded
<1> QED
  BY <1>1, InitType, TypeNext, PTL DEF Spec

-----------------------------------------------------------------------------
(* The remembered error                                                    *)

\* A scan that was kept last outlives every error written before it.
NewsInv ==
  \A c \in Coords :
    /\ outcome[c] = "scan" => stale[c] >= error[c]
    /\ outcome[c] = "none" => error[c] = 0

\* Only Keep, Record and time change what is kept for long.
LEMMA LongStays ==
  ASSUME NEW p \in Scanners,
         \/ TakeLock(p) \/ LockError(p) \/ Enter(p)
         \/ ScanError(p) \/ ScanFails(p) \/ Save(p)
         \/ ReadFresh(p) \/ Refuse(p) \/ ReadStale(p)
         \/ NotScannable(p) \/ SayQueued(p)
  PROVE  UNCHANGED <<stale, error, outcome>>
BY DEF TakeLock, LockError, Enter, ScanError, ScanFails, Save,
       ReadFresh, Refuse, ReadStale, NotScannable, SayQueued, kept

LEMMA NewsKeep ==
  ASSUME TypeInv, NewsInv, NEW p \in Scanners, Keep(p)
  PROVE  NewsInv'
<1>1. stale \in [Coords -> 0 .. StaleTTL] /\ error \in [Coords -> 0 .. ErrorTTL]
      /\ outcome \in [Coords -> Outcomes]
      /\ StaleTTL \in Nat /\ ErrorTTL \in Nat /\ StaleTTL >= ErrorTTL
  BY ConstantFacts DEF TypeInv, Keys
<1>2. error' = error
  BY DEF Keep
<1>3. CASE stale' = [stale EXCEPT ![Coord(p)] = StaleTTL]
           /\ outcome' = [outcome EXCEPT ![Coord(p)] = "scan"]
  <2> SUFFICES ASSUME NEW c \in Coords
               PROVE  /\ outcome'[c] = "scan" => stale'[c] >= error'[c]
                      /\ outcome'[c] = "none" => error'[c] = 0
    BY DEF NewsInv
  <2>1. CASE c = Coord(p)
    <3>1. stale'[c] = StaleTTL /\ outcome'[c] = "scan" /\ error[c] \in 0 .. ErrorTTL
      BY <1>1, <1>3, <2>1
    <3> QED
      BY <1>1, <1>2, <3>1
  <2>2. CASE c # Coord(p)
    BY <1>1, <1>2, <1>3, <2>2 DEF NewsInv
  <2> QED
    BY <2>1, <2>2
<1>4. CASE /\ stale' = stale
           /\ outcome' = [outcome EXCEPT ![Coord(p)] =
                           IF outcome[Coord(p)] = "error" THEN "lost" ELSE outcome[Coord(p)]]
  <2>1. \A c \in Coords : outcome'[c] = outcome[c] \/ outcome'[c] = "lost"
    BY <1>1, <1>4
  <2> QED
    BY <1>2, <1>4, <2>1 DEF NewsInv
<1> QED
  BY <1>3, <1>4 DEF Keep

LEMMA NewsRecord ==
  ASSUME TypeInv, NewsInv, NEW t \in Tasks, Record(t)
  PROVE  NewsInv'
<1>1. error \in [Coords -> 0 .. ErrorTTL] /\ outcome \in [Coords -> Outcomes]
  BY DEF TypeInv, Keys
<1>2. stale' = stale
  BY DEF Record
<1>3. CASE error' = [error EXCEPT ![Coord(t)] = ErrorTTL]
           /\ outcome' = [outcome EXCEPT ![Coord(t)] = "error"]
  <2> SUFFICES ASSUME NEW c \in Coords
               PROVE  /\ outcome'[c] = "scan" => stale'[c] >= error'[c]
                      /\ outcome'[c] = "none" => error'[c] = 0
    BY DEF NewsInv
  <2>1. CASE c = Coord(t)
    BY <1>1, <1>3, <2>1
  <2>2. CASE c # Coord(t)
    BY <1>1, <1>2, <1>3, <2>2 DEF NewsInv
  <2> QED
    BY <2>1, <2>2
<1>4. CASE UNCHANGED <<error, outcome>>
  BY <1>2, <1>4 DEF NewsInv
<1> QED
  BY <1>3, <1>4 DEF Record

LEMMA NewsTick == ASSUME TypeInv, NewsInv, Tick PROVE NewsInv'
<1> SUFFICES ASSUME NEW c \in Coords
             PROVE  /\ outcome'[c] = "scan" => stale'[c] >= error'[c]
                    /\ outcome'[c] = "none" => error'[c] = 0
  BY DEF NewsInv
<1>1. stale'[c] = Less(stale[c]) /\ error'[c] = Less(error[c]) /\ outcome'[c] = outcome[c]
  BY DEF Tick
<1>2. stale[c] \in Nat /\ error[c] \in Nat
  BY ConstantFacts DEF TypeInv, Keys
<1> QED
  BY <1>1, <1>2 DEF NewsInv, Less

LEMMA NewsNext == TypeInv /\ NewsInv /\ [Next]_vars => NewsInv'
<1> SUFFICES ASSUME TypeInv, NewsInv, [Next]_vars PROVE NewsInv'
  OBVIOUS
<1>1. ASSUME UNCHANGED <<stale, error, outcome>>
      PROVE  NewsInv'
  BY <1>1 DEF NewsInv
<1>2. ASSUME NEW t \in Tasks, TaskStep(t) \/ Enter(t)
      PROVE  NewsInv'
  BY <1>1, <1>2, ScannerFacts, LongStays, NewsKeep, NewsRecord DEF TaskStep, Scan
<1>3. ASSUME NEW q \in Callers, RequestStep(q)
      PROVE  NewsInv'
  BY <1>1, <1>3, ScannerFacts, LongStays, NewsKeep DEF RequestStep, Scan
<1>4. ASSUME NEW q \in Callers, NEW kind \in Kinds, NEW c \in Coords, Call(q, kind, c)
      PROVE  NewsInv'
  BY <1>1, <1>4 DEF Call, kept
<1>5. ASSUME NEW c \in Coords, Publish(c)
      PROVE  NewsInv'
  BY <1>1, <1>5 DEF Publish, kept
<1>6. ASSUME NEW w \in Workers, Crash(w)
      PROVE  NewsInv'
  BY <1>1, <1>6 DEF Crash
<1>7. CASE UNCHANGED vars
  BY <1>1, <1>7 DEF vars
<1> QED
  BY <1>2, <1>3, <1>4, <1>5, <1>6, <1>7, NewsTick DEF Next

\* Who goes on to the error was there before, on the same package.
Still ==
  \A q \in Callers : pc'[q] = "error" => pc[q] = "error" /\ job'[q].coord = job[q].coord

\* A request on its way to the error that has no excuse finds none that a later
\* scan has made obsolete.
Looked ==
  \A q \in Callers \ excused :
    pc[q] = "error" /\ outcome[Coord(q)] = "scan" => error[Coord(q)] = 0

LEMMA StillGoing ==
  ASSUME TypeInv, NEW p \in Scanners, NEW place \in Places, place # "error", GoTo(p, place),
         \A q \in Scanners \ {p} : job'[q] = job[q]
  PROVE  Still
BY ScannerFacts DEF Still, GoTo, TypeInv, Control, Places

LEMMA StillEnding == ASSUME TypeInv, NEW p \in Scanners, End(p) PROVE Still
<1>1. GoTo(p, "idle") /\ job' = [job EXCEPT ![p] = NoJob]
  BY DEF End, EndTask, EndRequest
<1>2. \A q \in Scanners \ {p} : job'[q] = job[q]
  BY <1>1 DEF TypeInv, Control
<1> QED
  BY <1>1, <1>2, StillGoing DEF Places

LEMMA StillScheduling == ASSUME TypeInv, NEW q \in Callers, Schedule(q) PROVE Still
<1>1. CASE ~HasRoom(Home[q])
  BY <1>1, StillEnding, ScannerFacts DEF Schedule, End
<1>2. CASE HasRoom(Home[q])
  <2>1. PICK t \in Tasks :
          /\ pc' = [pc EXCEPT ![q] = "idle", ![t] = "lock"]
          /\ job' = [job EXCEPT ![q] = NoJob, ![t] = [NoJob EXCEPT !.coord = Coord(q)]]
    BY <1>2 DEF Schedule
  <2>2. pc \in [Scanners -> Places] /\ job \in [Scanners -> Jobs]
    BY DEF TypeInv, Control
  <2> QED
    BY <2>1, <2>2, ScannerFacts DEF Still
<1> QED
  BY <1>1, <1>2

\* Who stood at the error is still excused, or no error has come and no scan.
LEMMA LookedStays ==
  ASSUME TypeInv, Looked, Still, UNCHANGED <<error, outcome>>,
         \A q \in excused : pc'[q] = "error" => q \in excused'
  PROVE  Looked'
<1> SUFFICES ASSUME NEW q \in Callers, q \notin excused', pc'[q] = "error",
                    outcome'[Coord(q)'] = "scan"
             PROVE  error'[Coord(q)'] = 0
  BY DEF Looked
<1>1. pc[q] = "error" /\ Coord(q)' = Coord(q) /\ q \notin excused
  BY DEF Still, Coord
<1> QED
  BY <1>1 DEF Looked

\* A scan that is kept excuses those who looked for its copy before.
LEMMA LookedKeep ==
  ASSUME TypeInv, Looked, NEW p \in Scanners, Keep(p)
  PROVE  Looked'
<1>1. Still /\ error' = error /\ outcome \in [Coords -> Outcomes]
  BY StillEnding DEF Keep, TypeInv, Keys
<1> SUFFICES ASSUME NEW q \in Callers, q \notin excused', pc'[q] = "error",
                    outcome'[Coord(q)'] = "scan"
             PROVE  error'[Coord(q)'] = 0
  BY DEF Looked
<1>2. pc[q] = "error" /\ Coord(q)' = Coord(q) /\ q \notin excused /\ Coord(q) \in Coords
  BY <1>1, ScannerFacts DEF Still, Coord, Keep, TypeInv, Control, Placed
<1>3. CASE /\ outcome' = [outcome EXCEPT ![Coord(p)] = "scan"]
           /\ excused' = excused \cup Looking(Coord(p))
  <2>1. Coord(q) # Coord(p)
    BY <1>2, <1>3 DEF Looking, At
  <2> QED
    BY <1>1, <1>2, <1>3, <2>1 DEF Looked
<1>4. CASE outcome' = [outcome EXCEPT ![Coord(p)] =
                         IF outcome[Coord(p)] = "error" THEN "lost" ELSE outcome[Coord(p)]]
  <2>1. outcome[Coord(q)] = "scan"
    BY <1>1, <1>2, <1>4
  <2> QED
    BY <1>1, <1>2, <2>1 DEF Looked
<1> QED
  BY <1>3, <1>4 DEF Keep

LEMMA LookedRecord ==
  ASSUME TypeInv, Looked, NEW t \in Tasks, Record(t)
  PROVE  Looked'
<1>1. Still /\ excused' = excused
  BY StillEnding, ScannerFacts DEF Record, End
<1>2. CASE /\ error' = [error EXCEPT ![Coord(t)] = ErrorTTL]
           /\ outcome' = [outcome EXCEPT ![Coord(t)] = "error"]
  <2> SUFFICES ASSUME NEW q \in Callers, q \notin excused', pc'[q] = "error",
                      outcome'[Coord(q)'] = "scan"
               PROVE  error'[Coord(q)'] = 0
    BY DEF Looked
  <2>1. pc[q] = "error" /\ Coord(q)' = Coord(q) /\ q \notin excused
    BY <1>1 DEF Still, Coord
  <2>2. Coord(q) \in Coords /\ error \in [Coords -> 0 .. ErrorTTL]
        /\ outcome \in [Coords -> Outcomes]
    BY <2>1, ScannerFacts DEF TypeInv, Control, Keys, Placed
  <2>3. Coord(q) # Coord(t)
    BY <1>2, <2>1, <2>2
  <2> QED
    BY <1>2, <2>1, <2>2, <2>3 DEF Looked
<1>3. CASE UNCHANGED <<error, outcome>>
  BY <1>1, <1>3, LookedStays
<1> QED
  BY <1>2, <1>3 DEF Record

\* The copy was not there, so no scan that was kept is younger than the error.
LEMMA LookedReadStale ==
  ASSUME TypeInv, NewsInv, Looked, NEW p \in Callers, ReadStale(p)
  PROVE  Looked'
<1>1. UNCHANGED <<error, outcome>> /\ excused \subseteq excused' /\ p \in Scanners
  BY ScannerFacts DEF ReadStale
<1>2. CASE Schedule(p)
  BY <1>1, <1>2, StillScheduling, LookedStays
<1>3. CASE GoTo(p, "scan") /\ job' = Begun(p)
  <2>1. \A q \in Scanners \ {p} : job'[q] = job[q]
    BY <1>3 DEF Begun, TypeInv, Control
  <2>2. Still
    BY <1>1, <1>3, <2>1, StillGoing DEF Places
  <2> QED
    BY <1>1, <2>2, LookedStays
<1>4. CASE /\ GoTo(p, "error") /\ job' = job /\ Missed(stale[Coord(p)])
           /\ excused' = IF stale[Coord(p)] > 0 THEN excused \cup {p} ELSE excused
  <2> SUFFICES ASSUME NEW q \in Callers, q \notin excused', pc'[q] = "error",
                      outcome[Coord(q)] = "scan"
               PROVE  error[Coord(q)] = 0
    BY <1>1, <1>4 DEF Looked, Coord
  <2>1. CASE q = p
    <3>1. ~(stale[Coord(p)] > 0)
      BY <1>4, <2>1
    <3>2. Coord(p) \in Coords
      BY <1>1 DEF ReadStale, At, TypeInv, Control, Placed
    <3>3. stale[Coord(p)] \in Nat /\ error[Coord(p)] \in Nat
      BY <3>2, ConstantFacts DEF TypeInv, Keys
    <3>4. stale[Coord(p)] >= error[Coord(p)]
      BY <2>1, <3>2 DEF NewsInv
    <3> QED
      BY <2>1, <3>1, <3>3, <3>4
  <2>2. CASE q # p
    <3>1. pc[q] = "error" /\ q \notin excused
      BY <1>1, <1>4, <2>2, ScannerFacts DEF GoTo, TypeInv, Control
    <3> QED
      BY <3>1 DEF Looked
  <2> QED
    BY <2>1, <2>2
<1> QED
  BY <1>2, <1>3, <1>4 DEF ReadStale

LEMMA LookedTick == ASSUME TypeInv, Looked, Tick PROVE Looked'
<1> SUFFICES ASSUME NEW q \in Callers, q \notin excused', pc'[q] = "error",
                    outcome'[Coord(q)'] = "scan"
             PROVE  error'[Coord(q)'] = 0
  BY DEF Looked
<1>1. job[q] \in Jobs /\ q \in Scanners
  BY ScannerFacts DEF TypeInv, Control
<1>2. Coord(q)' = Coord(q)
  <2>1. job'[q] = job[q] \/ job'[q] = [job[q] EXCEPT !.timer = More(job[q].timer, ScanTime)]
    BY <1>1 DEF Tick
  <2> QED
    BY <1>1, <2>1 DEF Coord, Jobs
<1>3. pc[q] = "error" /\ q \notin excused /\ outcome[Coord(q)] = "scan"
  BY <1>2 DEF Tick
<1>4. error[Coord(q)] = 0 /\ Coord(q) \in Coords
  BY <1>1, <1>3 DEF Looked, TypeInv, Control, Placed
<1> QED
  BY <1>2, <1>4 DEF Tick, Less

\* The steps of a task or of a request that leave the long copy alone.
LEMMA LookedScan ==
  ASSUME TypeInv, Looked, NEW p \in Scanners, Scan(p)
  PROVE  Looked'
<1>1. CASE Keep(p)
  BY <1>1, LookedKeep
<1>2. CASE ScanError(p) \/ ScanFails(p) \/ Save(p)
  <2>1. UNCHANGED <<error, outcome, excused>>
    BY <1>2 DEF ScanError, ScanFails, Save, kept
  <2>2. Still
    <3>1. CASE End(p)
      BY <3>1, StillEnding
    <3>2. CASE p \notin Tasks /\ EndRequest(p)
      BY <3>2, StillEnding DEF End
    <3>3. CASE job' = Seen(p) /\ (GoTo(p, "record") \/ GoTo(p, "keep"))
      <4>1. \A q \in Scanners \ {p} : job'[q] = job[q]
        BY <3>3 DEF Seen, TypeInv, Control
      <4> QED
        BY <3>3, <4>1, StillGoing DEF Places
    <3> QED
      BY <1>2, <3>1, <3>2, <3>3 DEF ScanError, ScanFails, Save
  <2> QED
    BY <2>1, <2>2, LookedStays
<1> QED
  BY <1>1, <1>2 DEF Scan

LEMMA LookedNext == TypeInv /\ NewsInv /\ Looked /\ [Next]_vars => Looked'
<1> SUFFICES ASSUME TypeInv, NewsInv, Looked, [Next]_vars PROVE Looked'
  OBVIOUS
<1>1. ASSUME NEW t \in Tasks, TakeLock(t) \/ LockError(t) \/ Enter(t)
      PROVE  Looked'
  <2>1. UNCHANGED <<error, outcome, excused>> /\ t \in Scanners
    BY <1>1, ScannerFacts DEF TakeLock, LockError, Enter, kept
  <2>2. Still
    <3>1. CASE EndTask(t)
      BY <2>1, <3>1, StillEnding DEF End
    <3>2. CASE GoTo(t, "queue") /\ job' = job
      BY <2>1, <3>2, StillGoing DEF Places
    <3>3. CASE GoTo(t, "scan") /\ job' = Begun(t)
      <4>1. \A q \in Scanners \ {t} : job'[q] = job[q]
        BY <3>3 DEF Begun, TypeInv, Control
      <4> QED
        BY <2>1, <3>3, <4>1, StillGoing DEF Places
    <3> QED
      BY <1>1, <3>1, <3>2, <3>3 DEF TakeLock, LockError, Enter
  <2> QED
    BY <2>1, <2>2, LookedStays
<1>2. ASSUME NEW q \in Callers, ReadFresh(q) \/ Refuse(q)
      PROVE  Looked'
  <2>1. UNCHANGED <<error, outcome, excused>> /\ q \in Scanners
    BY <1>2, ScannerFacts DEF ReadFresh, Refuse, kept
  <2>2. Still
    <3>1. CASE EndRequest(q)
      BY <2>1, <3>1, StillEnding, ScannerFacts DEF End
    <3>2. CASE GoTo(q, "stale") /\ job' = job
      BY <2>1, <3>2, StillGoing DEF Places
    <3>3. CASE GoTo(q, "scan") /\ job' = Begun(q)
      <4>1. \A p \in Scanners \ {q} : job'[p] = job[p]
        BY <3>3 DEF Begun, TypeInv, Control
      <4> QED
        BY <2>1, <3>3, <4>1, StillGoing DEF Places
    <3> QED
      BY <1>2, <3>1, <3>2, <3>3 DEF ReadFresh, Refuse
  <2> QED
    BY <2>1, <2>2, LookedStays
<1>3. ASSUME NEW q \in Callers, NotScannable(q) \/ SayQueued(q)
      PROVE  Looked'
  <2>1. UNCHANGED <<error, outcome>> /\ excused' = excused \ {q} /\ q \in Scanners
    BY <1>3, ScannerFacts DEF NotScannable, SayQueued
  <2>2. Still
    BY <1>3, StillEnding, StillScheduling, ScannerFacts DEF NotScannable, SayQueued, End
  <2>3. pc[q] = "error" /\ pc'[q] # "error"
    <3>1. CASE EndRequest(q) /\ At(q, "error")
      BY <2>1, <3>1 DEF EndRequest, GoTo, At, TypeInv, Control
    <3>2. CASE HasRoom(Home[q]) /\ Schedule(q) /\ At(q, "error")
      <4>1. PICK t \in Tasks : pc' = [pc EXCEPT ![q] = "idle", ![t] = "lock"]
        BY <3>2 DEF Schedule
      <4> QED
        BY <2>1, <3>2, <4>1, ScannerFacts DEF At, TypeInv, Control
    <3> QED
      BY <1>3, <3>1, <3>2 DEF NotScannable, SayQueued, Schedule
  <2> QED
    BY <2>1, <2>2, <2>3, LookedStays
<1>4. ASSUME NEW q \in Callers, NEW kind \in Kinds, NEW c \in Coords, Call(q, kind, c)
      PROVE  Looked'
  <2>1. UNCHANGED <<error, outcome, excused>> /\ q \in Scanners
    BY <1>4, ScannerFacts DEF Call, kept
  <2>2. /\ GoTo(q, "scan") \/ GoTo(q, "fresh")
        /\ \A p \in Scanners \ {q} : job'[p] = job[p]
    BY <1>4, <2>1 DEF Call, TypeInv, Control
  <2>3. Still
    BY <2>1, <2>2, StillGoing DEF Places
  <2> QED
    BY <2>1, <2>3, LookedStays
<1>5. ASSUME NEW c \in Coords, Publish(c)
      PROVE  Looked'
  BY <1>5 DEF Publish, kept, Looked, Coord
<1>6. ASSUME NEW w \in Workers, Crash(w)
      PROVE  Looked'
  <2>1. \A q \in Callers : pc'[q] = "error" => Home[q] # w /\ pc[q] = "error" /\ job'[q] = job[q]
    BY <1>6, ScannerFacts DEF Crash
  <2>2. Still /\ \A q \in excused : pc'[q] = "error" => q \in excused'
    BY <1>6, <2>1 DEF Still, Crash, TypeInv, Keys
  <2>3. UNCHANGED <<error, outcome>>
    BY <1>6 DEF Crash
  <2> QED
    BY <2>2, <2>3, LookedStays
<1>7. CASE UNCHANGED vars
  BY <1>7 DEF vars, Looked, Coord
<1> QED
  BY <1>1, <1>2, <1>3, <1>4, <1>5, <1>6, <1>7, ScannerFacts, LookedScan, LookedRecord,
     LookedReadStale, LookedTick DEF Next, TaskStep, RequestStep

\* scan_package_endpoint answers a stored read "Not scannable" with an error that no later
\* scan has made obsolete, for any packages and times with the long copy living
\* as long as the error: unless the copy was never written, the request's GET of
\* it failed, or the scan ended between the request's two GETs.
THEOREM NotScannableIsNewsHolds == Spec => NotScannableIsNews
<1>1. Init => NewsInv /\ Looked
  BY ScannerFacts DEF Init, NewsInv, Looked
<1>2. TypeInv /\ NewsInv /\ Looked =>
        [\A q \in Callers :
           NotScannable(q) => outcome[Coord(q)] \in {"error", "lost"} \/ q \in excused]_vars
  <2> SUFFICES ASSUME TypeInv, NewsInv, Looked, NEW q \in Callers, NotScannable(q), q \notin excused
               PROVE  outcome[Coord(q)] \in {"error", "lost"}
    OBVIOUS
  <2>1. pc[q] = "error" /\ error[Coord(q)] > 0
    BY DEF NotScannable, At, Found
  <2>2. Coord(q) \in Coords
    BY <2>1, ScannerFacts DEF TypeInv, Control, Placed
  <2>3. outcome[Coord(q)] \in Outcomes /\ error[Coord(q)] \in Nat
    BY <2>2, ConstantFacts DEF TypeInv, Keys
  <2>4. outcome[Coord(q)] # "scan" /\ outcome[Coord(q)] # "none"
    BY <2>1, <2>2, <2>3 DEF Looked, NewsInv
  <2> QED
    BY <2>3, <2>4 DEF Outcomes
<1> QED
  BY <1>1, <1>2, InitType, TypeNext, NewsNext, LookedNext, PTL DEF Spec, NotScannableIsNews

-----------------------------------------------------------------------------
(* The copy for an hour                                                    *)

\* What the scan of p misses was published since it began.
TimelyFor(p) ==
  /\ job[p].seen \in 1 .. version[Coord(p)]
  /\ job[p].seen < version[Coord(p)] => age[Coord(p)][job[p].seen + 1] <= job[p].timer

Timely == \A p \in Scanners : Timed(p) => TimelyFor(p)

HourInv == Timely /\ FreshMeansAnHour

LEMMA TimelySettled ==
  ASSUME TypeInv, Timely, Settled, version' = version, age' = age
  PROVE  Timely'
<1> SUFFICES ASSUME NEW p \in Scanners, Timed(p)'
             PROVE  TimelyFor(p)'
  BY DEF Timely
<1>1. CASE Timed(p) /\ job'[p] = job[p]
  BY <1>1 DEF Timely, TimelyFor, Coord
<1>2. CASE job'[p].coord \in Coords /\ job'[p].seen = version[job'[p].coord]
  <2>1. version[job'[p].coord] \in 1 .. MaxVersion
    BY <1>2 DEF TypeInv, Keys
  <2> QED
    BY <1>2, <2>1, ConstantFacts DEF TimelyFor, Coord
<1> QED
  BY <1>1, <1>2 DEF Settled

LEMMA HourStays ==
  ASSUME TypeInv, HourInv, Settled, UNCHANGED <<fresh, version, age>>
  PROVE  HourInv'
BY TimelySettled DEF HourInv, FreshMeansAnHour

\* A scan that is saved has been under way for ScanTime at most.
LEMMA HourSave ==
  ASSUME TypeInv, HourInv, NEW p \in Scanners, Save(p)
  PROVE  HourInv'
<1>1. version' = version /\ age' = age
  BY DEF Save, packages
<1>2. Timely'
  BY <1>1, ScanMoves, TimelySettled DEF Scan, Moved, HourInv
<1>3. CASE fresh' = [fresh EXCEPT ![Coord(p)] = [left |-> FreshTTL, version |-> job[p].seen,
                                                 timed |-> Kind(p) # "catalog"]]
  <2>1. /\ fresh \in [Coords -> [left : 0 .. FreshTTL, version : 0 .. MaxVersion, timed : BOOLEAN]]
        /\ job[p].timer \in 0 .. ScanTime /\ (Timed(p) => TimelyFor(p)) /\ Coord(p) \in Coords
        /\ At(p, "scan")
    BY DEF TypeInv, Control, Keys, Placed, Save, At, HourInv, Timely, Jobs
  <2> SUFFICES ASSUME NEW c \in Coords, fresh'[c].left > 0, fresh'[c].timed,
                      fresh'[c].version < version[c]
               PROVE  age[c][fresh'[c].version + 1] <= FreshTTL - fresh'[c].left + ScanTime
    BY <1>1, <1>2 DEF HourInv, FreshMeansAnHour
  <2>2. CASE c = Coord(p)
    <3>1. fresh'[c].left = FreshTTL /\ fresh'[c].version = job[p].seen /\ TimelyFor(p)
      BY <1>3, <2>1, <2>2 DEF Timed
    <3>2. age[c][job[p].seen + 1] <= job[p].timer
      BY <2>2, <3>1 DEF TimelyFor
    <3>3. age[c][job[p].seen + 1] \in Nat
      <4>1. version[c] \in 1 .. MaxVersion /\ job[p].seen \in 1 .. version[c]
        BY <2>1, <2>2, <3>1 DEF TypeInv, Keys, TimelyFor
      <4>2. job[p].seen + 1 \in 1 .. MaxVersion
        BY <3>1, <4>1, ConstantFacts
      <4>3. age \in [Coords -> [1 .. MaxVersion -> 0 .. Old]] /\ Old \in Nat
        BY ConstantFacts DEF TypeInv, Keys
      <4>4. age[c] \in [1 .. MaxVersion -> 0 .. Old]
        BY <4>3
      <4>5. age[c][job[p].seen + 1] \in 0 .. Old
        BY <4>2, <4>4
      <4> QED
        BY <4>3, <4>5
    <3> QED
      BY <2>1, <3>1, <3>2, <3>3, ConstantFacts
  <2>3. CASE c # Coord(p)
    BY <1>3, <2>1, <2>3 DEF HourInv, FreshMeansAnHour
  <2> QED
    BY <2>2, <2>3
<1>4. CASE fresh' = fresh
  BY <1>1, <1>2, <1>4 DEF HourInv, FreshMeansAnHour
<1> QED
  BY <1>3, <1>4 DEF Save

LEMMA HourPublish ==
  ASSUME TypeInv, HourInv, NEW c \in Coords, Publish(c)
  PROVE  HourInv'
<1>1. /\ fresh \in [Coords -> [left : 0 .. FreshTTL, version : 0 .. MaxVersion, timed : BOOLEAN]]
      /\ version \in [Coords -> 1 .. MaxVersion]
      /\ age \in [Coords -> [1 .. MaxVersion -> 0 .. Old]]
      /\ job \in [Scanners -> Jobs] /\ Placed
      /\ FreshTTL \in Nat /\ ScanTime \in Nat /\ MaxVersion \in Nat /\ Old \in Nat
  BY ConstantFacts DEF TypeInv, Control, Keys
<1>2. /\ fresh' = fresh /\ pc' = pc /\ job' = job
      /\ version' = [version EXCEPT ![c] = version[c] + 1]
      /\ age' = [age EXCEPT ![c] = [age[c] EXCEPT ![version[c] + 1] = 0]]
      /\ version[c] < MaxVersion
  BY DEF Publish, kept
<1>3. version'[c] = version[c] + 1 /\ \A d \in Coords \ {c} : version'[d] = version[d]
  BY <1>1, <1>2
<1>4. /\ age'[c][version[c] + 1] = 0
      /\ \A v \in 1 .. version[c] : age'[c][v] = age[c][v]
      /\ \A d \in Coords \ {c} : age'[d] = age[d]
  <2>1. age'[c] = [age[c] EXCEPT ![version[c] + 1] = 0] /\ \A d \in Coords \ {c} : age'[d] = age[d]
    BY <1>1, <1>2
  <2>2. version[c] \in 1 .. MaxVersion /\ version[c] + 1 \in 1 .. MaxVersion
    BY <1>1, <1>2
  <2> QED
    BY <1>1, <2>1, <2>2
<1>5. Timely'
  <2> SUFFICES ASSUME NEW p \in Scanners, Timed(p)
               PROVE  TimelyFor(p)'
    BY <1>2 DEF Timely, Timed, At, Kind
  <2>1. TimelyFor(p) /\ Coord(p) \in Coords /\ job[p].timer \in Nat
    BY <1>1 DEF HourInv, Timely, Placed, Timed, At, Jobs
  <2>2. CASE Coord(p) # c
    BY <1>2, <1>3, <1>4, <2>1, <2>2 DEF TimelyFor, Coord
  <2>3. CASE Coord(p) = c
    <3>1. version[c] \in Nat /\ job[p].seen \in 1 .. version[c]
      BY <1>1, <2>1, <2>3 DEF TimelyFor
    <3>2. job[p].seen \in 1 .. version'[c]
      BY <1>3, <3>1
    <3>3. age'[c][job[p].seen + 1] <= job[p].timer
      <4>1. CASE job[p].seen = version[c]
        BY <1>4, <2>1, <4>1
      <4>2. CASE job[p].seen # version[c]
        <5>1. job[p].seen + 1 \in 1 .. version[c] /\ job[p].seen < version[c]
          BY <3>1, <4>2
        <5> QED
          BY <1>4, <2>1, <2>3, <5>1 DEF TimelyFor
      <4> QED
        BY <4>1, <4>2
    <3> QED
      BY <1>2, <2>3, <3>2, <3>3 DEF TimelyFor, Coord
  <2> QED
    BY <2>2, <2>3
<1>6. FreshMeansAnHour'
  <2> SUFFICES ASSUME NEW d \in Coords, fresh[d].left > 0, fresh[d].timed,
                      fresh[d].version < version'[d]
               PROVE  age'[d][fresh[d].version + 1] <= FreshTTL - fresh[d].left + ScanTime
    BY <1>2 DEF FreshMeansAnHour
  <2>1. fresh[d].left \in 0 .. FreshTTL /\ fresh[d].version \in 0 .. MaxVersion
    BY <1>1
  <2>2. CASE d # c
    BY <1>3, <1>4, <2>2 DEF HourInv, FreshMeansAnHour
  <2>3. CASE d = c /\ fresh[d].version = version[c]
    BY <1>1, <1>4, <2>1, <2>3
  <2>4. CASE d = c /\ fresh[d].version # version[c]
    <3>1. version[c] \in Nat
      BY <1>1
    <3>2. fresh[d].version < version[c] /\ fresh[d].version + 1 \in 1 .. version[c]
      BY <1>3, <2>1, <2>4, <3>1
    <3> QED
      BY <1>4, <2>4, <3>2 DEF HourInv, FreshMeansAnHour
  <2> QED
    BY <2>2, <2>3, <2>4
<1> QED
  BY <1>5, <1>6 DEF HourInv

\* An age grows by one at most, and so does the timer of every scan under way.
LEMMA HourTick == ASSUME TypeInv, HourInv, Tick PROVE HourInv'
<1>1. /\ fresh \in [Coords -> [left : 0 .. FreshTTL, version : 0 .. MaxVersion, timed : BOOLEAN]]
      /\ version \in [Coords -> 1 .. MaxVersion]
      /\ age \in [Coords -> [1 .. MaxVersion -> 0 .. Old]]
      /\ job \in [Scanners -> Jobs] /\ Placed
      /\ FreshTTL \in Nat /\ ScanTime \in Nat /\ MaxVersion \in Nat /\ Old \in Nat
  BY ConstantFacts DEF TypeInv, Control, Keys
<1>2. version' = version /\ pc' = pc
  BY DEF Tick
<1>3. \A d \in Coords, v \in 1 .. MaxVersion :
        age'[d][v] \in Nat /\ age[d][v] \in Nat /\ age'[d][v] <= age[d][v] + 1
  <2> TAKE d \in Coords, v \in 1 .. MaxVersion
  <2>1. age'[d][v] = More(age[d][v], Old)
    BY DEF Tick
  <2>2. age[d][v] \in 0 .. Old
    BY <1>1
  <2> QED
    BY <1>1, <2>1, <2>2 DEF More
<1>4. Timely'
  <2> SUFFICES ASSUME NEW p \in Scanners, Timed(p)
               PROVE  TimelyFor(p)'
    <3>1. \A p \in Scanners : Timed(p)' <=> Timed(p)
      <4> TAKE p \in Scanners
      <4>1. job'[p] = job[p] \/ job'[p] = [job[p] EXCEPT !.timer = More(job[p].timer, ScanTime)]
        BY DEF Tick
      <4>2. job'[p].kind = job[p].kind
        BY <1>1, <4>1 DEF Jobs
      <4> QED
        BY <1>2, <4>2 DEF Timed, At, Kind
    <3> QED
      BY <3>1 DEF Timely
  <2>1. TimelyFor(p) /\ Coord(p) \in Coords /\ job[p] \in Jobs /\ job[p].timer \in 0 .. ScanTime
    BY <1>1 DEF HourInv, Timely, Placed, Timed, At, Jobs
  <2>2. job[p].timer < ScanTime
    BY DEF Tick, InTime
  <2>3. job'[p] = [job[p] EXCEPT !.timer = More(job[p].timer, ScanTime)]
    BY DEF Tick
  <2>4. job'[p].coord = Coord(p) /\ job'[p].seen = job[p].seen /\ job'[p].timer = job[p].timer + 1
    BY <2>1, <2>2, <2>3 DEF Jobs, Coord, More
  <2>5. version[Coord(p)] \in 1 .. MaxVersion
    BY <1>1, <2>1
  <2>6. ASSUME job[p].seen < version[Coord(p)]
        PROVE  age'[Coord(p)][job[p].seen + 1] <= job[p].timer + 1
    <3>1. job[p].seen + 1 \in 1 .. MaxVersion
      <4>1. job[p].seen \in 1 .. version[Coord(p)]
        BY <2>1 DEF TimelyFor
      <4>2. MaxVersion \in Nat
        BY <1>1
      <4> QED
        BY <2>5, <2>6, <4>1, <4>2
    <3>2. age[Coord(p)][job[p].seen + 1] <= job[p].timer
      BY <2>1, <2>6 DEF TimelyFor
    <3>3. job[p].timer \in Nat
      BY <1>1, <2>1
    <3> QED
      BY <1>3, <2>1, <3>1, <3>2, <3>3
  <2> QED
    BY <1>2, <2>1, <2>4, <2>6 DEF TimelyFor, Coord
<1>5. FreshMeansAnHour'
  <2> SUFFICES ASSUME NEW d \in Coords, fresh'[d].left > 0, fresh'[d].timed,
                      fresh'[d].version < version[d]
               PROVE  age'[d][fresh'[d].version + 1] <= FreshTTL - fresh'[d].left + ScanTime
    BY <1>2 DEF FreshMeansAnHour
  <2>1. fresh'[d] = IF fresh[d].left > 1
                    THEN [fresh[d] EXCEPT !.left = fresh[d].left - 1] ELSE NoCopy
    BY DEF Tick
  <2>2. fresh[d].left > 1
    BY <2>1 DEF NoCopy
  <2>3. fresh'[d].left = fresh[d].left - 1 /\ fresh'[d].version = fresh[d].version
        /\ fresh'[d].timed = fresh[d].timed
    BY <1>1, <2>1, <2>2
  <2>4. fresh[d].left \in 0 .. FreshTTL /\ fresh[d].version \in 0 .. MaxVersion
        /\ version[d] \in 1 .. MaxVersion
    BY <1>1
  <2>5. fresh[d].version + 1 \in 1 .. MaxVersion
    BY <1>1, <2>3, <2>4
  <2>6. age[d][fresh[d].version + 1] <= FreshTTL - fresh[d].left + ScanTime
    BY <2>2, <2>3, <2>4 DEF HourInv, FreshMeansAnHour
  <2>7. age'[d][fresh[d].version + 1] <= age[d][fresh[d].version + 1] + 1
        /\ age'[d][fresh[d].version + 1] \in Nat /\ age[d][fresh[d].version + 1] \in Nat
    BY <1>3, <2>5
  <2>8. fresh'[d].left \in Int /\ fresh[d].left \in Int /\ FreshTTL \in Int /\ ScanTime \in Int
    BY <1>1, <2>3, <2>4
  <2>9. age'[d][fresh[d].version + 1] <= FreshTTL - fresh'[d].left + ScanTime
    BY <2>3, <2>6, <2>7, <2>8
  <2> QED
    BY <2>3, <2>9
<1> QED
  BY <1>4, <1>5 DEF HourInv

\* Only Save and time change the copy for an hour, only the world the packages.
LEMMA HourNext == TypeInv /\ HourInv /\ [Next]_vars => HourInv'
<1> SUFFICES ASSUME TypeInv, HourInv, [Next]_vars PROVE HourInv'
  OBVIOUS
<1>1. ASSUME NEW t \in Tasks, TaskStep(t) \/ Enter(t)
      PROVE  HourInv'
  <2>1. CASE Save(t)
    BY <2>1, ScannerFacts, HourSave
  <2>2. CASE ~Save(t)
    <3>1. UNCHANGED <<fresh, version, age>>
      BY <1>1, <2>2 DEF TaskStep, Scan, TakeLock, LockError, Enter, ScanError,
                        ScanFails, Keep, Record, kept, packages
    <3> QED
      BY <1>1, <3>1, TaskMoves, HourStays DEF Moved
  <2> QED
    BY <2>1, <2>2
<1>2. ASSUME NEW q \in Callers, RequestStep(q)
      PROVE  HourInv'
  <2>1. CASE Save(q)
    BY <2>1, ScannerFacts, HourSave
  <2>2. CASE ~Save(q)
    <3>1. UNCHANGED <<fresh, version, age>>
      BY <1>2, <2>2 DEF RequestStep, Scan, ReadFresh, Refuse, ReadStale,
                        NotScannable, SayQueued, ScanError, ScanFails, Keep, kept, packages
    <3> QED
      BY <1>2, <3>1, RequestMoves, HourStays DEF Moved
  <2> QED
    BY <2>1, <2>2
<1>3. ASSUME NEW q \in Callers, NEW kind \in Kinds, NEW c \in Coords, Call(q, kind, c)
      PROVE  HourInv'
  <2>1. UNCHANGED <<fresh, version, age>>
    BY <1>3 DEF Call, kept, packages
  <2> QED
    BY <1>3, <2>1, Calling, HourStays DEF Moved
<1>4. ASSUME NEW w \in Workers, Crash(w)
      PROVE  HourInv'
  <2>1. UNCHANGED <<fresh, version, age>>
    BY <1>4 DEF Crash, packages
  <2> QED
    BY <1>4, <2>1, CrashMoves, HourStays DEF Moved
<1>5. CASE UNCHANGED vars
  BY <1>5 DEF vars, HourInv, FreshMeansAnHour, Timely, TimelyFor, Timed, At, Kind, Coord
<1> QED
  BY <1>1, <1>2, <1>3, <1>4, <1>5, HourPublish, HourTick DEF Next

\* "Cached 1h": for any packages, limits and times, a copy that is served as
\* fresh misses only what was published within the hour and the time of a scan.
THEOREM FreshMeansAnHourHolds == Spec => []FreshMeansAnHour
<1>1. Init => HourInv
  BY DEF Init, HourInv, Timely, Timed, At, FreshMeansAnHour, NoCopy
<1>2. HourInv => FreshMeansAnHour
  BY DEF HourInv
<1> QED
  BY <1>1, <1>2, InitType, TypeNext, HourNext, PTL DEF Spec
=============================================================================
