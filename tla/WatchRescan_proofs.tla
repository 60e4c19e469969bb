------------------------- MODULE WatchRescan_proofs -------------------------
(***************************************************************************)
(* Proofs about the watch re-scan, for any watches, passes and tools.      *)
(*                                                                         *)
(* ToldOfEveryChange needs that what a pass compares with is what the      *)
(* watcher was last told of: Current says so of the rows a pass has read,  *)
(* as long as no two passes were under way together, and LastInRow of the  *)
(* rows themselves.  AlertsHaveCause holds beside overlapping passes too,  *)
(* and needs CauseInv: the alerts sent have their causes, and so have the  *)
(* ones still to come from the passes that hold a row, and the one that is *)
(* due while the row, or what one of them will write, is behind its tool.  *)
(* Ids tells the row of a watch from the one it had before it was removed. *)
(***************************************************************************)
EXTENDS WatchRescan, FiniteSetTheorems, TLAPS

States == [at : {"idle", "next", "save"}, base : [Watches -> Rows],
           held : BOOLEAN, watch : Watches \cup {None}, scan : Scans]

\* A pass that saves has a watch, whose row it has read.
Saving ==
  \A p \in Passes :
    pass[p].at = "save" => /\ pass[p].watch \in Watches
                           /\ pass[p].base[pass[p].watch].id > 0

\* TypeOK, with the type of a pass named.
Types ==
  /\ version \in [Watches -> Nat] /\ \A w \in Watches : version[w] \in 1 .. MaxVersion[w]
  /\ row \in [Watches -> Rows]
  /\ adds \in [Watches -> 0 .. MaxAdds]
  /\ pass \in [Passes -> States]
  /\ last \in [Watches -> Digests \cup {None}]
  /\ stored \in [Watches -> Nat]
  /\ sent \in [Watches -> Nat]
  /\ faults \in 0 .. MaxFaults
  /\ overlaps \in 0 .. MaxOverlaps

TypeInv == Types /\ Saving

\* No row has an id that its watch was not yet given.
Ids == \A w \in Watches :
         row[w].id <= adds[w] /\ \A p \in Passes : pass[p].base[w].id <= adds[w]

OnePass == \A p, q \in UnderWay : p = q

\* What a pass has read of a row that is still there is what the row says.
Current ==
  \A p \in UnderWay, w \in Watches :
    pass[p].base[w].id > 0 /\ pass[p].base[w].id = row[w].id
      => pass[p].base[w] = row[w]

LastInRow == \A w \in Watches : row[w].id > 0 => row[w].digest = last[w]

ToldInv == /\ Ids
           /\ overlaps = 0 => OnePass /\ Current /\ LastInRow

-----------------------------------------------------------------------------
(* The operators                                                           *)

LEMMA ConstantFacts ==
  /\ IsFiniteSet(Watches) /\ IsFiniteSet(Findings)
  /\ MaxAdds \in Nat /\ MaxFaults \in Nat /\ MaxOverlaps \in Nat /\ Margin \in Nat
  /\ MaxVersion \in [Watches -> Nat \ {0}]
  /\ \A w \in Watches : \A v \in 1 .. MaxVersion[w] : Facts[w][v] \in Scans
  /\ None \notin Digests /\ None \notin Prints /\ None \notin Nat /\ None \notin Watches
BY WatchAssumption

LEMMA FirstTypes == NoRow \in Rows /\ NoScan \in Scans /\ Idle \in States
<1>1. NoRow \in Rows /\ NoScan \in Scans
  BY ConstantFacts DEF NoRow, Rows, NoScan, Scans
<1> QED
  BY <1>1 DEF Idle, States

\* A pass's rows, and what one step makes of its state.
LEMMA DoneType ==
  ASSUME pass \in [Passes -> States], NEW p \in Passes, NEW w \in Watches
  PROVE  Done(p, w) \in [Passes -> States]
<1> DEFINE rows == [pass[p].base EXCEPT ![w] = NoRow]
           done == [pass[p] EXCEPT !.at = "next", !.base = rows,
                                   !.watch = None, !.scan = NoScan]
<1>1. pass[p] \in States /\ rows \in [Watches -> Rows]
  BY FirstTypes DEF States
<1>2. done \in States
  <2> HIDE DEF rows
  <2> QED BY <1>1, FirstTypes DEF States
<1>3. Done(p, w) = [pass EXCEPT ![p] = done]
  BY <1>1 DEF Done, States
<1> HIDE DEF done
<1> QED
  BY <1>2, <1>3

LEMMA DoneFacts ==
  ASSUME pass \in [Passes -> States], NEW p \in Passes, NEW w \in Watches
  PROVE  /\ Done(p, w)[p].at = "next"
         /\ \A q \in Passes \ {p} : Done(p, w)[q] = pass[q]
         /\ \A v \in Watches : Done(p, w)[p].base[v] = IF v = w THEN NoRow ELSE pass[p].base[v]
BY DEF Done, States

LEMMA KeptType ==
  ASSUME NEW S, NEW old \in S, NEW new \in S
  PROVE  Kept(old, new) \in S
BY DEF Kept

LEMMA BaselineType ==
  ASSUME NEW base \in Rows, NEW scan \in Scans
  PROVE  /\ Baseline(base, scan) \in Rows
         /\ Baseline(base, scan).id = base.id
         /\ Baseline(base, scan).digest = Kept(base.digest, scan.digest)
<1>1. /\ Kept(base.digest, scan.digest) \in Digests \cup {None}
      /\ Kept(base.icon, scan.icon) \in Digests \cup {None}
      /\ Kept(base.fp, scan.fp) \in Prints \cup {None}
  BY KeptType DEF Rows, Scans
<1> QED
  BY <1>1 DEF Baseline, Rows, Scans

LEMMA BlocksType ==
  ASSUME Types, NEW w \in Watches
  PROVE  Facts[w][version[w]] \in Scans /\ Blocks(w) \subseteq Prints \cup {None}
<1>1. version[w] \in 1 .. MaxVersion[w] /\ MaxVersion[w] \in Nat
  BY ConstantFacts DEF Types
<1>2. \A v \in 1 .. version[w] : Facts[w][v] \in Scans
  BY <1>1, ConstantFacts
<1> QED
  BY <1>1, <1>2 DEF Blocks, Scans

\* A component that changed and is no smaller has a new member.
LEMMA NoSmaller ==
  ASSUME NEW old \in SUBSET Findings, NEW new \in SUBSET Findings,
         new # old, Cardinality(new) >= Cardinality(old)
  PROVE  \E x \in new : x \notin old
<1>1. SUFFICES ASSUME new \subseteq old
              PROVE  FALSE
  OBVIOUS
<1>2. IsFiniteSet(old)
  BY ConstantFacts, FS_Subset
<1>3. Cardinality(new) <= Cardinality(old) /\ (Cardinality(old) = Cardinality(new) => old = new)
  BY <1>1, <1>2, FS_Subset
<1>4. Cardinality(new) \in Nat /\ Cardinality(old) \in Nat
  BY <1>1, <1>2, FS_Subset, FS_CardinalityType
<1> QED
  BY <1>3, <1>4

\* A drift is in the message, whatever else is.
LEMMA DriftIsSaid ==
  ASSUME NEW base, NEW scan, NEW held, Drift(base.digest, scan.digest)
  PROVE  Alerting(Said(base, scan, held))
<1>1. Alerts(base, scan, held) \subseteq Said(base, scan, held)
  BY DEF Said
<1>2. CASE ~held /\ Dropped(base, scan)
  BY <1>1, <1>2 DEF Alerts, Alerting
<1>3. CASE ~(~held /\ Dropped(base, scan))
  BY <1>1, <1>3 DEF Alerts, Alerting
<1> QED
  BY <1>2, <1>3
-----------------------------------------------------------------------------
(* Type correctness                                                        *)

LEMMA InitType == Init => TypeInv
<1> SUFFICES ASSUME Init
             PROVE  TypeInv
  OBVIOUS
<1>1. \A w \in Watches : version[w] \in 1 .. MaxVersion[w]
  BY ConstantFacts DEF Init
<1>2. version \in [Watches -> Nat] /\ faults \in 0 .. MaxFaults /\ overlaps \in 0 .. MaxOverlaps
  BY ConstantFacts DEF Init
<1>3. Types
  BY <1>1, <1>2, ConstantFacts, FirstTypes DEF Init, Types
<1>4. Saving
  BY DEF Init, Idle, Saving
<1> QED
  BY <1>3, <1>4 DEF TypeInv

LEMMA FaultType == Types /\ Fault => faults' \in 0 .. MaxFaults
BY ConstantFacts DEF Types, Fault

\* A step that changes only pass p keeps Saving when p's new state does.
LEMMA SavingStep ==
  ASSUME TypeInv, NEW p \in Passes, NEW st,
         pass' = [pass EXCEPT ![p] = st],
         st.at = "save" => st.watch \in Watches /\ st.base[st.watch].id > 0
  PROVE  Saving'
BY DEF TypeInv, Types, Saving

LEMMA DoneStep ==
  ASSUME TypeInv, NEW p \in Passes, NEW w \in Watches, pass' = Done(p, w)
  PROVE  pass' \in [Passes -> States] /\ Saving'
<1>1. pass \in [Passes -> States]
  BY DEF TypeInv, Types
<1>2. Done(p, w)[p].at = "next" /\ \A q \in Passes \ {p} : Done(p, w)[q] = pass[q]
  BY <1>1, DoneFacts
<1> QED
  BY <1>1, <1>2, DoneType DEF TypeInv, Saving

LEMMA AbortType ==
  ASSUME TypeInv, NEW p \in Passes, Abort(p), faults' \in 0 .. MaxFaults
  PROVE  TypeInv'
<1>1. pass' = [pass EXCEPT ![p] = Idle] /\ pass' \in [Passes -> States]
  BY FirstTypes DEF Abort, TypeInv, Types
<1>2. Types'
  BY <1>1 DEF Abort, TypeInv, ghosts, Types
<1>3. Saving'
  BY <1>1, SavingStep DEF Idle
<1> QED
  BY <1>2, <1>3 DEF TypeInv

LEMMA UserType ==
  ASSUME TypeInv, NEW w \in Watches, Change(w) \/ AddWatch(w) \/ RemoveWatch(w)
  PROVE  TypeInv'
<1>1. Saving'
  BY DEF Change, AddWatch, RemoveWatch, TypeInv, Saving
<1>2. CASE Change(w)
  <2>1. version[w] + 1 \in Nat /\ version[w] + 1 \in 1 .. MaxVersion[w]
    <3>1. version[w] < MaxVersion[w]
      BY <1>2 DEF Change
    <3>2. MaxVersion[w] \in Nat /\ version[w] \in Nat
      BY ConstantFacts DEF TypeInv, Types
    <3> QED
      BY <3>1, <3>2
  <2>2. version' = [version EXCEPT ![w] = version[w] + 1]
    BY <1>2 DEF Change
  <2>3. version' \in [Watches -> Nat] /\ \A v \in Watches : version'[v] \in 1 .. MaxVersion[v]
    BY <2>1, <2>2 DEF TypeInv, Types
  <2> QED
    BY <1>1, <1>2, <2>3 DEF Change, TypeInv, ghosts, Types
<1>3. CASE AddWatch(w)
  <2>1. PICK f \in {Facts[w][v] : v \in 1 .. version[w]}
                    \cup {[score |-> None, digest |-> None, icon |-> None]} :
          /\ row' = [row EXCEPT ![w] = [id |-> adds[w] + 1, score |-> f.score,
                                       digest |-> f.digest, icon |-> f.icon, fp |-> None]]
          /\ last' = [last EXCEPT ![w] = f.digest]
    BY <1>3 DEF AddWatch
  <2>2. f.score \in Nat \cup {None} /\ f.digest \in Digests \cup {None}
        /\ f.icon \in Digests \cup {None}
    <3>1. version[w] \in 1 .. MaxVersion[w] /\ MaxVersion[w] \in Nat
      BY ConstantFacts DEF TypeInv, Types
    <3>2. \A v \in 1 .. version[w] : Facts[w][v] \in Scans
      BY <3>1, ConstantFacts
    <3>3. CASE f = [score |-> None, digest |-> None, icon |-> None]
      BY <3>3
    <3>4. CASE f \in Scans
      BY <3>4 DEF Scans
    <3> QED
      BY <3>2, <3>3, <3>4
  <2>3. adds[w] + 1 \in 0 .. MaxAdds
    BY <1>3, ConstantFacts DEF AddWatch, TypeInv, Types
  <2>4. row' \in [Watches -> Rows] /\ last' \in [Watches -> Digests \cup {None}]
    BY <2>1, <2>2, <2>3 DEF Rows, TypeInv, Types
  <2>5. adds' \in [Watches -> 0 .. MaxAdds]
    BY <1>3, <2>3 DEF AddWatch, TypeInv, Types
  <2> QED
    BY <1>1, <1>3, <2>4, <2>5 DEF AddWatch, TypeInv, Types
<1>4. CASE RemoveWatch(w)
  <2>1. row' \in [Watches -> Rows] /\ last' \in [Watches -> Digests \cup {None}]
    BY <1>4, FirstTypes DEF RemoveWatch, TypeInv, Types
  <2> QED
    BY <1>1, <1>4, <2>1 DEF RemoveWatch, TypeInv, Types
<1> QED
  BY <1>2, <1>3, <1>4

LEMMA BeginType ==
  ASSUME TypeInv, NEW p \in Passes, Begin(p)
  PROVE  TypeInv'
<1>1. PICK S \in SUBSET Listed, held \in BOOLEAN :
        pass' = [pass EXCEPT ![p] =
                   [Idle EXCEPT !.at = "next", !.held = held,
                                !.base = [w \in Watches |-> IF w \in S THEN row[w] ELSE NoRow]]]
  BY DEF Begin
<1> DEFINE rows == [w \in Watches |-> IF w \in S THEN row[w] ELSE NoRow]
           st == [Idle EXCEPT !.at = "next", !.held = held, !.base = rows]
<1>2. rows \in [Watches -> Rows]
  BY FirstTypes DEF TypeInv, Types
<1>3. st \in States /\ st.at = "next"
  <2> HIDE DEF rows
  <2> QED BY <1>2, FirstTypes DEF States
<1>4. overlaps' \in 0 .. MaxOverlaps
  <2>1. overlaps \in 0 .. MaxOverlaps
    BY DEF TypeInv, Types
  <2>2. CASE UnderWay = {}
    BY <2>1, <2>2 DEF Begin
  <2>3. CASE UnderWay # {}
    BY <2>1, <2>3, ConstantFacts DEF Begin
  <2> QED
    BY <2>2, <2>3
<1>5. pass' = [pass EXCEPT ![p] = st]
  BY <1>1
<1> HIDE DEF st
<1>6. pass' \in [Passes -> States] /\ Saving'
  BY <1>3, <1>5, SavingStep DEF TypeInv, Types
<1> QED
  BY <1>4, <1>6 DEF Begin, TypeInv, ghosts, Types

LEMMA CheckType ==
  ASSUME TypeInv, NEW p \in Passes, NEW w \in Watches, Check(p, w)
  PROVE  TypeInv'
<1> DEFINE f == Facts[w][version[w]]
<1>1. PICK block \in Blocks(w), shown \in BOOLEAN :
        LET scan == [f EXCEPT !.fp = block, !.digest = IF shown THEN @ ELSE None]
            said == Said(pass[p].base[w], scan, pass[p].held)
        IN  /\ \/ shown /\ UNCHANGED faults
               \/ ~shown /\ f.digest # None /\ Fault
            /\ pass' = [pass EXCEPT ![p].at = "save", ![p].watch = w, ![p].scan = scan]
            /\ sent' = [sent EXCEPT ![w] = sent[w] +
                         IF Alerting(said) /\ ~Spoilt(w, said) /\ row[w].id = pass[p].base[w].id
                         THEN 1 ELSE 0]
  BY DEF Check
<1> DEFINE scan == [f EXCEPT !.fp = block, !.digest = IF shown THEN @ ELSE None]
<1>2. scan \in Scans
  BY BlocksType DEF Scans, TypeInv
<1> HIDE DEF scan
<1> DEFINE st == [pass[p] EXCEPT !.at = "save", !.watch = w, !.scan = scan]
<1>3. pass \in [Passes -> States] /\ pass[p].base[w].id > 0
  BY DEF Check, Todo, TypeInv, Types
<1>4. /\ pass' = [pass EXCEPT ![p] = st]
      /\ st \in States
      /\ st.watch = w /\ st.base[w].id > 0
  BY <1>1, <1>2, <1>3 DEF States, scan
<1>5. faults' \in 0 .. MaxFaults
  BY <1>1, FaultType DEF TypeInv, Types
<1>6. sent' \in [Watches -> Nat]
  <2>1. PICK n \in {0, 1} : sent' = [sent EXCEPT ![w] = sent[w] + n]
    BY <1>1
  <2> QED
    BY <2>1 DEF TypeInv, Types
<1> HIDE DEF st
<1>7. Saving'
  BY <1>4, SavingStep
<1> QED
  BY <1>3, <1>4, <1>5, <1>6, <1>7 DEF Check, TypeInv, Types

LEMMA SaveType ==
  ASSUME TypeInv, NEW p \in Passes, Save(p)
  PROVE  TypeInv'
<1> DEFINE w == pass[p].watch
           base == pass[p].base[w]
<1>1. /\ w \in Watches /\ base \in Rows /\ pass[p].scan \in Scans
      /\ faults' \in 0 .. MaxFaults
  BY DEF Save, TypeInv, Saving, States, Types
<1>2. CASE Spoilt(w, Message(p))
  BY <1>1, <1>2, AbortType DEF Save
<1>3. CASE ~Spoilt(w, Message(p))
  <2>1. /\ Commit(p) \/ Discard(p)
        /\ pass' = Done(p, w)
        /\ UNCHANGED <<version, adds, sent, overlaps>>
    BY <1>3 DEF Save
  <2>2. /\ row' \in [Watches -> Rows]
        /\ last' \in [Watches -> Digests \cup {None}]
        /\ stored' \in [Watches -> Nat]
    <3>1. CASE Commit(p)
      <4>1. Baseline(base, pass[p].scan) \in Rows
        BY <1>1, BaselineType
      <4>2. Kept(last[w], pass[p].scan.digest) \in Digests \cup {None}
        BY <1>1, KeptType DEF TypeInv, Scans, Types
      <4>3. PICK n \in {0, 1} : stored' = [stored EXCEPT ![w] = stored[w] + n]
        BY <3>1 DEF Commit
      <4> QED
        BY <3>1, <4>1, <4>2, <4>3, <1>1 DEF Commit, TypeInv, Types
    <3>2. CASE Discard(p)
      BY <3>2 DEF Discard, TypeInv, Types
    <3> QED
      BY <2>1, <3>1, <3>2
  <2>3. pass' \in [Passes -> States] /\ Saving'
    BY <1>1, <2>1, DoneStep
  <2> QED
    BY <1>1, <2>1, <2>2, <2>3 DEF TypeInv, Types
<1> QED
  BY <1>2, <1>3

LEMMA EndType ==
  ASSUME TypeInv, NEW p \in Passes, End(p)
  PROVE  TypeInv'
BY AbortType DEF End, Abort, TypeInv, Types

LEMMA ScanFailType ==
  ASSUME TypeInv, NEW p \in Passes, NEW w \in Watches, ScanFail(p, w)
  PROVE  TypeInv'
<1>1. pass' \in [Passes -> States] /\ Saving'
  BY DoneStep DEF ScanFail
<1>2. faults' \in 0 .. MaxFaults
  BY FaultType DEF ScanFail, TypeInv
<1> QED
  BY <1>1, <1>2 DEF ScanFail, TypeInv, ghosts, Types

LEMMA CrashType ==
  ASSUME TypeInv, NEW p \in Passes, Crash(p)
  PROVE  TypeInv'
BY AbortType, FaultType DEF Crash, TypeInv

LEMMA TypeNext == TypeInv /\ [Next]_vars => TypeInv'
<1> SUFFICES ASSUME TypeInv, [Next]_vars
             PROVE  TypeInv'
  OBVIOUS
<1>1. ASSUME NEW w \in Watches, Change(w) \/ AddWatch(w) \/ RemoveWatch(w)
      PROVE  TypeInv'
  BY <1>1, UserType
<1>2. ASSUME NEW p \in Passes, Begin(p) \/ Save(p) \/ End(p) \/ Crash(p)
      PROVE  TypeInv'
  BY <1>2, BeginType, SaveType, EndType, CrashType
<1>3. ASSUME NEW p \in Passes, NEW w \in Watches, Check(p, w) \/ ScanFail(p, w)
      PROVE  TypeInv'
  BY <1>3, CheckType, ScanFailType
<1>4. CASE UNCHANGED vars
  BY <1>4 DEF vars, TypeInv, Types, Saving
<1> QED
  BY <1>1, <1>2, <1>3, <1>4 DEF Next, PassStep

\* Every row, pass and counter keeps its type: a pass saves only a watch whose
\* row it has read, and a scan without a score is compared with nothing.
THEOREM TypeCorrect == Spec => []TypeOK
<1>1. Init => TypeInv
  BY InitType
<1>2. TypeInv /\ [Next]_vars => TypeInv'
  BY TypeNext
<1>3. TypeInv => TypeOK
  BY DEF TypeInv, Types, TypeOK, States
<1> QED
  BY <1>1, <1>2, <1>3, PTL DEF Spec
-----------------------------------------------------------------------------
(* What an alert means                                                     *)

LEMMA AlertMeansNew == TypeInv => BehaviorAlertMeansNew
<1> SUFFICES ASSUME TypeInv, NEW p \in Passes, pass[p].at = "save",
                    "behavior" \in Message(p)
             PROVE  LET old == pass[p].base[pass[p].watch].fp
                        new == pass[p].scan.fp
                    IN  \E k \in Parts : \E x \in new[k] : x \notin old[k]
  BY DEF BehaviorAlertMeansNew
<1> DEFINE old == pass[p].base[pass[p].watch].fp
           new == pass[p].scan.fp
<1>1. Known(old, new) /\ Grew(old, new)
  <2>1. "behavior" \notin Alerts(pass[p].base[pass[p].watch], pass[p].scan, pass[p].held)
    BY DEF Alerts
  <2> QED
    BY <2>1 DEF Message, Said
<1>2. old \in Prints /\ new \in Prints
  <2>1. old \in Prints \cup {None} /\ new \in Prints \cup {None}
    BY DEF TypeInv, Types, Saving, States, Rows, Scans
  <2> QED
    BY <1>1, <2>1 DEF Known
<1>3. PICK k \in Parts : new[k] # old[k] /\ Cardinality(new[k]) >= Cardinality(old[k])
  BY <1>1 DEF Grew
<1>4. \E x \in new[k] : x \notin old[k]
  BY <1>2, <1>3, NoSmaller DEF Prints
<1> QED
  BY <1>4

\* An alert of changed sandbox behavior means that a component has a member it
\* had not, although _behavioral_change sees only digests and counts.
THEOREM AlertsMeanNew == Spec => []BehaviorAlertMeansNew
<1>1. Init => TypeInv
  BY InitType
<1>2. TypeInv /\ [Next]_vars => TypeInv'
  BY TypeNext
<1>3. TypeInv => BehaviorAlertMeansNew
  BY AlertMeansNew
<1> QED
  BY <1>1, <1>2, <1>3, PTL DEF Spec

-----------------------------------------------------------------------------
(* No change is absorbed silently                                          *)

LEMMA ToldInit == Init => ToldInv
BY ConstantFacts DEF Init, ToldInv, Ids, OnePass, Current, LastInRow, UnderWay, Idle, NoRow

\* A step of pass p that leaves the rows alone, and makes p forget rows at most.
LEMMA ToldPass ==
  ASSUME TypeInv, ToldInv, NEW p \in UnderWay, NEW st \in States,
         pass' = [pass EXCEPT ![p] = st],
         \A w \in Watches : st.base[w] \in {pass[p].base[w], NoRow},
         UNCHANGED <<row, adds, last, overlaps>>
  PROVE  ToldInv'
<1>1. /\ p \in Passes /\ pass'[p] = st
      /\ \A q \in Passes \ {p} : pass'[q] = pass[q]
      /\ UnderWay' \subseteq UnderWay
  BY DEF UnderWay, TypeInv, Types
<1>2. Ids'
  <2>1. \A w \in Watches : adds[w] \in Nat /\ NoRow.id <= adds[w]
    BY ConstantFacts DEF TypeInv, Types, NoRow
  <2> QED
    BY <1>1, <2>1 DEF ToldInv, Ids
<1>3. overlaps = 0 => OnePass' /\ Current' /\ LastInRow'
  <2>1. NoRow.id = 0
    BY DEF NoRow
  <2> QED
    BY <1>1, <2>1 DEF ToldInv, OnePass, Current, LastInRow
<1> QED
  BY <1>2, <1>3 DEF ToldInv

LEMMA ToldUser ==
  ASSUME TypeInv, ToldInv, NEW w \in Watches, AddWatch(w) \/ RemoveWatch(w)
  PROVE  ToldInv'
<1>1. UNCHANGED <<pass, overlaps>> /\ UnderWay' = UnderWay
  BY DEF AddWatch, RemoveWatch, UnderWay
<1>2. \A v \in Watches : adds[v] \in Nat /\ row[v].id \in Nat
  BY ConstantFacts DEF TypeInv, Types, Rows
<1>3. CASE AddWatch(w)
  <2>1. PICK r : /\ row' = [row EXCEPT ![w] = r]
                 /\ r.id = adds[w] + 1
                 /\ last' = [last EXCEPT ![w] = r.digest]
    <3>1. PICK f : /\ row' = [row EXCEPT ![w] = [id |-> adds[w] + 1, score |-> f.score,
                                       digest |-> f.digest, icon |-> f.icon, fp |-> None]]
                   /\ last' = [last EXCEPT ![w] = f.digest]
      BY <1>3 DEF AddWatch
    <3> DEFINE r == [id |-> adds[w] + 1, score |-> f.score,
                     digest |-> f.digest, icon |-> f.icon, fp |-> None]
    <3>2. r.id = adds[w] + 1 /\ r.digest = f.digest /\ row' = [row EXCEPT ![w] = r]
      BY <3>1
    <3> HIDE DEF r
    <3> QED
      BY <3>1, <3>2
  <2>2. adds' = [adds EXCEPT ![w] = adds[w] + 1]
    BY <1>3 DEF AddWatch
  <2>3. \A p \in Passes, v \in Watches : pass[p].base[v].id \in Nat
    <3>1. \A p \in Passes, v \in Watches : pass[p].base[v] \in Rows
      BY DEF TypeInv, Types, States
    <3>2. \A x \in Rows : x.id \in Nat
      BY ConstantFacts DEF Rows
    <3> QED
      BY <3>1, <3>2
  <2>4. Ids'
    BY <1>1, <1>2, <2>1, <2>2, <2>3 DEF ToldInv, Ids, TypeInv, Types
  <2>5. overlaps = 0 => Current'
    <3>1. \A p \in Passes : pass[p].base[w].id <= adds[w] /\ pass[p].base[w].id \in Nat
      BY <2>3 DEF ToldInv, Ids
    <3>2. row'[w].id = adds[w] + 1 /\ \A v \in Watches \ {w} : row'[v] = row[v]
      BY <2>1 DEF TypeInv, Types
    <3>3. \A p \in Passes : pass[p].base[w].id # row'[w].id
      BY <1>2, <3>1, <3>2
    <3>4. UnderWay \subseteq Passes
      BY DEF UnderWay
    <3> QED
      BY <1>1, <3>2, <3>3, <3>4 DEF ToldInv, Current
  <2>6. overlaps = 0 => LastInRow'
    BY <2>1 DEF ToldInv, LastInRow, TypeInv, Types
  <2> QED
    BY <1>1, <2>4, <2>5, <2>6 DEF ToldInv, OnePass
<1>4. CASE RemoveWatch(w)
  <2>1. /\ row' = [row EXCEPT ![w] = NoRow] /\ NoRow.id = 0
        /\ last' = [last EXCEPT ![w] = None]
        /\ UNCHANGED adds
    BY <1>4 DEF RemoveWatch, NoRow
  <2>2. Ids'
    BY <1>1, <1>2, <2>1 DEF ToldInv, Ids, TypeInv, Types
  <2>3. overlaps = 0 => Current' /\ LastInRow'
    BY <1>1, <2>1 DEF ToldInv, Current, LastInRow, TypeInv, Types
  <2> QED
    BY <1>1, <2>2, <2>3 DEF ToldInv, OnePass
<1> QED
  BY <1>3, <1>4

LEMMA ToldBegin ==
  ASSUME TypeInv, ToldInv, NEW p \in Passes, Begin(p)
  PROVE  ToldInv'
<1>1. PICK rows \in [Watches -> Rows] :
        /\ \A w \in Watches : rows[w] = row[w] \/ rows[w] = NoRow
        /\ pass'[p].base = rows
        /\ \A q \in Passes \ {p} : pass'[q] = pass[q]
  <2>1. PICK S \in SUBSET Listed, held \in BOOLEAN :
          pass' = [pass EXCEPT ![p] =
                     [Idle EXCEPT !.at = "next", !.held = held,
                                  !.base = [w \in Watches |-> IF w \in S THEN row[w] ELSE NoRow]]]
    BY DEF Begin
  <2> DEFINE rows == [w \in Watches |-> IF w \in S THEN row[w] ELSE NoRow]
  <2>2. rows \in [Watches -> Rows] /\ \A w \in Watches : rows[w] = row[w] \/ rows[w] = NoRow
    BY FirstTypes DEF TypeInv, Types
  <2>3. pass'[p].base = rows /\ \A q \in Passes \ {p} : pass'[q] = pass[q]
    BY <2>1 DEF TypeInv, Types, Idle
  <2> HIDE DEF rows
  <2> QED
    BY <2>2, <2>3
<1>2. UNCHANGED <<row, adds, last>> /\ (\A w \in Watches : adds[w] \in Nat) /\ NoRow.id = 0
  BY ConstantFacts DEF Begin, ghosts, TypeInv, Types, NoRow
<1>3. Ids'
  BY <1>1, <1>2 DEF ToldInv, Ids
<1>4. ASSUME overlaps' = 0
      PROVE  OnePass' /\ Current' /\ LastInRow'
  <2>1. UnderWay = {} /\ overlaps = 0
    <3>1. overlaps \in Nat
      BY ConstantFacts DEF TypeInv, Types
    <3>2. CASE UnderWay = {}
      BY <1>4, <3>2 DEF Begin
    <3>3. CASE UnderWay # {}
      BY <1>4, <3>1, <3>3 DEF Begin
    <3> QED
      BY <3>2, <3>3
  <2>2. UnderWay' \subseteq {p}
    BY <1>1, <2>1 DEF UnderWay
  <2> QED
    BY <1>1, <1>2, <2>1, <2>2 DEF ToldInv, OnePass, Current, LastInRow
<1> QED
  BY <1>3, <1>4 DEF ToldInv

LEMMA ToldSave ==
  ASSUME TypeInv, ToldInv, NEW p \in Passes, Save(p)
  PROVE  ToldInv'
<1> DEFINE w == pass[p].watch
           base == pass[p].base[w]
<1>1. /\ p \in UnderWay /\ w \in Watches /\ base \in Rows /\ base.id > 0
      /\ pass[p].scan \in Scans
  BY DEF Save, UnderWay, TypeInv, Types, Saving, States
<1>2. CASE Spoilt(w, Message(p))
  <2>1. pass' = [pass EXCEPT ![p] = Idle] /\ UNCHANGED <<row, adds, last, overlaps>>
    BY <1>2 DEF Save, Abort, ghosts
  <2>2. \A v \in Watches : Idle.base[v] = NoRow
    BY DEF Idle
  <2> QED
    BY <1>1, <2>1, <2>2, FirstTypes, ToldPass
<1>3. CASE ~Spoilt(w, Message(p))
  <2>1. /\ Commit(p) \/ Discard(p)
        /\ pass' = Done(p, w)
        /\ UNCHANGED <<adds, overlaps>>
    BY <1>3 DEF Save
  <2>2. /\ \A q \in Passes \ {p} : pass'[q] = pass[q]
        /\ \A v \in Watches : pass'[p].base[v] = IF v = w THEN NoRow ELSE pass[p].base[v]
    BY <1>1, <2>1, DoneFacts DEF TypeInv, Types
  <2>3. UnderWay' \subseteq UnderWay
    BY <1>1, <2>2 DEF UnderWay
  <2>4. NoRow.id = 0 /\ \A v \in Watches : adds[v] \in Nat
    BY ConstantFacts DEF NoRow, TypeInv, Types
  <2>5. \A v \in Watches \ {w} : row'[v] = row[v] /\ last'[v] = last[v]
    BY <2>1 DEF Commit, Discard, TypeInv, Types
  <2>6. row'[w].id = row[w].id
    <3>1. CASE Commit(p)
      BY <3>1, <1>1, BaselineType DEF Commit, TypeInv, Types
    <3>2. CASE Discard(p)
      BY <3>2 DEF Discard
    <3> QED
      BY <2>1, <3>1, <3>2
  <2>7. Ids'
    BY <1>1, <2>1, <2>2, <2>4, <2>5, <2>6 DEF ToldInv, Ids
  <2>8. ASSUME overlaps = 0
        PROVE  OnePass' /\ Current' /\ LastInRow'
    <3>1. UnderWay \subseteq {p}
      BY <1>1, <2>8 DEF ToldInv, OnePass
    <3>2. OnePass' /\ Current'
      BY <1>1, <2>2, <2>3, <2>4, <2>5, <2>8, <3>1 DEF ToldInv, OnePass, Current
    <3>3. row'[w].id > 0 => row'[w].digest = last'[w]
      <4>1. CASE Commit(p)
        <5>1. row'[w] = Baseline(base, pass[p].scan) /\ row[w].id = base.id
          BY <4>1, <1>1 DEF Commit, TypeInv, Types
        <5>2. last'[w] = Kept(last[w], pass[p].scan.digest)
          BY <4>1, <1>1 DEF Commit, TypeInv, Types
        <5>3. base.digest = last[w]
          BY <1>1, <2>8, <5>1 DEF ToldInv, Current, LastInRow
        <5> QED
          BY <1>1, <5>1, <5>2, <5>3, BaselineType
      <4>2. CASE Discard(p)
        BY <4>2, <1>1, <2>8 DEF Discard, ToldInv, LastInRow
      <4> QED
        BY <2>1, <4>1, <4>2
    <3> QED
      BY <1>1, <2>5, <2>8, <3>2, <3>3 DEF ToldInv, LastInRow
  <2> QED
    BY <2>1, <2>7, <2>8 DEF ToldInv
<1> QED
  BY <1>2, <1>3

LEMMA ToldNext == TypeInv /\ ToldInv /\ [Next]_vars => ToldInv'
<1> SUFFICES ASSUME TypeInv, ToldInv, [Next]_vars
             PROVE  ToldInv'
  OBVIOUS
<1>1. ASSUME NEW w \in Watches, Change(w) \/ AddWatch(w) \/ RemoveWatch(w)
      PROVE  ToldInv'
  <2>1. CASE Change(w)
    BY <2>1 DEF Change, ghosts, ToldInv, Ids, OnePass, Current, LastInRow, UnderWay
  <2> QED
    BY <1>1, <2>1, ToldUser
<1>2. ASSUME NEW p \in Passes, Begin(p)
      PROVE  ToldInv'
  BY <1>2, ToldBegin
<1>3. ASSUME NEW p \in Passes, NEW w \in Watches, Check(p, w)
      PROVE  ToldInv'
  <2>1. PICK scan : pass' = [pass EXCEPT ![p].at = "save", ![p].watch = w, ![p].scan = scan]
    BY <1>3 DEF Check
  <2> DEFINE st == [pass[p] EXCEPT !.at = "save", !.watch = w, !.scan = scan]
  <2>2. /\ pass' = [pass EXCEPT ![p] = st]
        /\ st.base = pass[p].base
    BY <2>1 DEF TypeInv, Types, States
  <2>3. p \in UnderWay /\ UNCHANGED <<row, adds, last, overlaps>>
    BY <1>3 DEF Check, UnderWay
  <2>4. pass' \in [Passes -> States] /\ pass'[p] = st
    BY <1>3, <2>2, CheckType DEF TypeInv, Types
  <2> HIDE DEF st
  <2> QED
    BY <2>2, <2>3, <2>4, ToldPass
<1>4. ASSUME NEW p \in Passes, NEW w \in Watches, ScanFail(p, w)
      PROVE  ToldInv'
  <2>1. /\ p \in UnderWay /\ pass' = Done(p, w)
        /\ UNCHANGED <<row, adds, last, overlaps>>
    BY <1>4 DEF ScanFail, UnderWay, ghosts
  <2> DEFINE st == Done(p, w)[p]
  <2>2. /\ pass' = [pass EXCEPT ![p] = st] /\ st \in States
        /\ \A v \in Watches : st.base[v] \in {pass[p].base[v], NoRow}
    <3>1. pass \in [Passes -> States] /\ Done(p, w) \in [Passes -> States]
      BY DoneType DEF TypeInv, Types
    <3> QED
      BY <2>1, <3>1, DoneFacts
  <2> HIDE DEF st
  <2> QED
    BY <2>1, <2>2, ToldPass
<1>5. ASSUME NEW p \in Passes, Save(p)
      PROVE  ToldInv'
  BY <1>5, ToldSave
<1>6. ASSUME NEW p \in Passes, End(p) \/ Crash(p)
      PROVE  ToldInv'
  <2>1. /\ p \in UnderWay /\ pass' = [pass EXCEPT ![p] = Idle]
        /\ UNCHANGED <<row, adds, last, overlaps>>
    BY <1>6 DEF End, Crash, Abort, UnderWay, ghosts
  <2>2. \A v \in Watches : Idle.base[v] = NoRow
    BY DEF Idle
  <2> QED
    BY <2>1, <2>2, FirstTypes, ToldPass
<1>7. CASE UNCHANGED vars
  BY <1>7 DEF vars, ToldInv, Ids, OnePass, Current, LastInRow, UnderWay
<1> QED
  BY <1>1, <1>2, <1>3, <1>4, <1>5, <1>6, <1>7 DEF Next, PassStep

\* The step of ToldOfEveryChange.
Told ==
  \A w \in Watches :
    row[w].id > 0 /\ row'[w].id = row[w].id
      /\ last[w] # None /\ last'[w] # last[w] /\ overlaps = 0
    => stored'[w] = stored[w] + 1

LEMMA ToldStep == TypeInv /\ ToldInv /\ [Next]_vars => Told
<1> SUFFICES ASSUME TypeInv, ToldInv, [Next]_vars, NEW w \in Watches,
                    row[w].id > 0, row'[w].id = row[w].id,
                    last[w] # None, last'[w] # last[w], overlaps = 0
             PROVE  stored'[w] = stored[w] + 1
  BY DEF Told
<1>1. ASSUME NEW v \in Watches, Change(v) \/ AddWatch(v) \/ RemoveWatch(v)
      PROVE  FALSE
  <2>1. CASE Change(v)
    BY <2>1 DEF Change, ghosts
  <2>2. CASE AddWatch(v)
    <3>1. v # w /\ \E d : last' = [last EXCEPT ![v] = d]
      BY <2>2 DEF AddWatch, Listed
    <3> QED
      BY <3>1 DEF TypeInv, Types
  <2>3. CASE RemoveWatch(v)
    BY <2>3 DEF RemoveWatch, NoRow, TypeInv, Types
  <2> QED
    BY <1>1, <2>1, <2>2, <2>3
<1>2. ASSUME NEW p \in Passes, Begin(p) \/ End(p) \/ Crash(p)
      PROVE  FALSE
  BY <1>2 DEF Begin, End, Crash, Abort, ghosts
<1>3. ASSUME NEW p \in Passes, NEW v \in Watches, Check(p, v) \/ ScanFail(p, v)
      PROVE  FALSE
  BY <1>3 DEF Check, ScanFail, ghosts
<1>4. ASSUME NEW p \in Passes, Save(p)
      PROVE  stored'[w] = stored[w] + 1
  <2>1. Commit(p)
    BY <1>4 DEF Save, Abort, Discard, ghosts
  <2> DEFINE base == pass[p].base[pass[p].watch]
  <2>2. /\ pass[p].watch = w /\ row[w].id = base.id
        /\ last'[w] = Kept(last[w], pass[p].scan.digest)
    BY <2>1 DEF Commit, TypeInv, Types
  <2>3. p \in UnderWay
    BY <1>4 DEF Save, UnderWay
  <2>4. base.digest = last[w]
    BY <2>2, <2>3 DEF ToldInv, Current, LastInRow
  <2>5. Drift(base.digest, pass[p].scan.digest)
    BY <2>2, <2>4 DEF Kept, Drift
  <2>6. Alerting(Message(p))
    BY <2>5, DriftIsSaid DEF Message
  <2> QED
    BY <2>1, <2>2, <2>6 DEF Commit, TypeInv, Types
<1>5. CASE UNCHANGED vars
  BY <1>5 DEF vars
<1> QED
  BY <1>1, <1>2, <1>3, <1>4, <1>5 DEF Next, PassStep

\* While no two passes have overlapped, a commit that finds other definitions
\* than the last ones known stores an alert: no failed scan, empty tools/list,
\* hold, crash or new watch in between makes a change pass for the baseline.
THEOREM ChangesTold == Spec => ToldOfEveryChange
<1>1. Init => TypeInv /\ ToldInv
  BY InitType, ToldInit
<1>2. TypeInv /\ ToldInv /\ [Next]_vars => TypeInv' /\ ToldInv'
  BY TypeNext, ToldNext
<1>3. TypeInv /\ ToldInv /\ [Next]_vars => [Told]_vars
  BY ToldStep
<1>4. Spec => [][Told]_vars
  BY <1>1, <1>2, <1>3, PTL DEF Spec
<1> QED
  BY <1>4 DEF ToldOfEveryChange, Told

-----------------------------------------------------------------------------
(* No change is told twice                                                 *)

\* A pass holds the row of a watch as long as it has read it and not dealt with
\* it, and has in hand a scan of it when it is about to save.
Holding(w) == {p \in Passes : row[w].id > 0 /\ pass[p].base[w].id = row[w].id}

InHand(p, w) ==
  /\ pass[p].at = "save"
  /\ pass[p].watch = w
  /\ row[w].id = pass[p].base[w].id

Waiting(w) == {p \in Holding(w) : ~InHand(p, w)}

\* A scan of the current version, compared with this row, would be an alert.
Due(base, w) == IF Alerts(base, Facts[w][version[w]], FALSE) # {} THEN 1 ELSE 0

\* What a pass compares with, or is about to write.
Written(p, w) ==
  IF InHand(p, w) THEN Baseline(pass[p].base[w], pass[p].scan) ELSE pass[p].base[w]

\* An alert is due of the row or of what a pass may make of it.
Behind(w) ==
  IF Due(row[w], w) = 1 \/ \E p \in Holding(w) : Due(Written(p, w), w) = 1 THEN 1 ELSE 0

\* What is due when p, alone with the row, has saved.
AfterSave(p, w) == Due(IF Spoilt(w, Message(p)) THEN row[w] ELSE Written(p, w), w)

\* The passes that have posted an alert and not stored it.
Owing(w) ==
  {p \in Passes : InHand(p, w) /\ Alerting(Message(p)) /\ ~Spoilt(w, Message(p))}

Causes(w) == version[w] - 1 + faults + 2 * overlaps

Several(w) == \E p, q \in Holding(w) : p # q

\* What was posted, and what is yet to be, has a cause.  Of several passes that
\* hold the row each may still post once, and the last of them may leave an old
\* baseline; one pass alone has posted already when it saves.
CauseAt(w) ==
  /\ stored[w] + Cardinality(Owing(w)) <= sent[w]
  /\ Several(w) => sent[w] + Cardinality(Waiting(w)) + Behind(w) <= Causes(w)
  /\ Waiting(w) = Holding(w) => sent[w] + Behind(w) <= Causes(w)
  /\ \A p \in Holding(w) : InHand(p, w) => sent[w] + AfterSave(p, w) <= Causes(w)

CauseInv == \A w \in Watches : CauseAt(w)

LEMMA CountFacts ==
  ASSUME TypeInv, NEW w \in Watches
  PROVE  /\ sent[w] \in Nat /\ stored[w] \in Nat /\ faults \in Nat /\ Causes(w) \in Nat
         /\ version[w] \in Nat /\ version[w] >= 1 /\ row[w] \in Rows
         /\ \A b : Due(b, w) = 0 \/ Due(b, w) = 1
<1>1. faults \in Nat /\ overlaps \in Nat /\ version[w] \in Nat /\ version[w] >= 1
  BY ConstantFacts DEF TypeInv, Types
<1>2. Causes(w) \in Nat
  BY <1>1 DEF Causes
<1> QED
  BY <1>1, <1>2 DEF TypeInv, Types, Due

LEMMA RowIds ==
  ASSUME TypeInv, NEW w \in Watches
  PROVE  row[w].id \in Nat /\ adds[w] \in Nat /\ \A p \in Passes : pass[p].base[w].id \in Nat
<1>1. \A r \in Rows : r.id \in Nat
  BY ConstantFacts DEF Rows
<1>2. row[w] \in Rows /\ \A p \in Passes : pass[p].base[w] \in Rows
  BY DEF TypeInv, Types, States
<1>3. adds[w] \in Nat
  BY ConstantFacts DEF TypeInv, Types
<1> QED
  BY <1>1, <1>2, <1>3

\* The sets of passes are finite, and how they grow and shrink.
LEMMA PassSets ==
  ASSUME NEW S \in SUBSET Passes, NEW T \in SUBSET Passes
  PROVE  /\ Cardinality(S) \in Nat /\ Cardinality(T) \in Nat
         /\ T \subseteq S => Cardinality(T) <= Cardinality(S)
         /\ \A p \in S : T \subseteq S \ {p} => Cardinality(T) + 1 <= Cardinality(S)
         /\ \A p : T \subseteq S \cup {p} => Cardinality(T) <= Cardinality(S) + 1
         /\ \A p : T \subseteq {p} => Cardinality(T) <= 1
         /\ T = {} => Cardinality(T) = 0
<1>1. IsFiniteSet(S) /\ IsFiniteSet(T)
  BY WatchAssumption, FS_Subset
<1>2. Cardinality(S) \in Nat /\ Cardinality(T) \in Nat
  BY <1>1, FS_CardinalityType
<1>3. T \subseteq S => Cardinality(T) <= Cardinality(S)
  BY <1>1, FS_Subset
<1>4. ASSUME NEW p \in S, T \subseteq S \ {p}
      PROVE  Cardinality(T) + 1 <= Cardinality(S)
  <2>1. IsFiniteSet(S \ {p}) /\ Cardinality(S \ {p}) = Cardinality(S) - 1
    BY <1>1, FS_RemoveElement
  <2>2. Cardinality(T) <= Cardinality(S \ {p})
    BY <1>4, <2>1, FS_Subset
  <2> QED
    BY <1>2, <2>1, <2>2
<1>5. ASSUME NEW p, T \subseteq S \cup {p}
      PROVE  Cardinality(T) <= Cardinality(S) + 1
  <2>1. IsFiniteSet(S \cup {p}) /\ Cardinality(S \cup {p}) \in Nat
        /\ Cardinality(S \cup {p}) <= Cardinality(S) + 1
    <3>1. IsFiniteSet(S \cup {p})
          /\ \/ Cardinality(S \cup {p}) = Cardinality(S)
             \/ Cardinality(S \cup {p}) = Cardinality(S) + 1
      BY <1>1, FS_AddElement
    <3> QED
      BY <1>2, <3>1
  <2>2. Cardinality(T) <= Cardinality(S \cup {p})
    BY <1>5, <2>1, FS_Subset
  <2> QED
    BY <1>2, <2>1, <2>2
<1>6. ASSUME NEW p, T \subseteq {p}
      PROVE  Cardinality(T) <= 1
  <2>1. IsFiniteSet({p}) /\ Cardinality({p}) = 1
    BY FS_Singleton
  <2> QED
    BY <1>6, <2>1, FS_Subset
<1>7. T = {} => Cardinality(T) = 0
  BY FS_EmptySet
<1> QED
  BY <1>2, <1>3, <1>4, <1>5, <1>6, <1>7

LEMMA BehindFacts ==
  ASSUME NEW w \in Watches
  PROVE  /\ Behind(w) \in {0, 1}
         /\ Due(row[w], w) \in {0, 1} /\ Due(row[w], w) <= Behind(w)
         /\ \A p \in Holding(w) :
              /\ Due(Written(p, w), w) \in {0, 1} /\ Due(Written(p, w), w) <= Behind(w)
              /\ AfterSave(p, w) \in {0, 1} /\ AfterSave(p, w) <= Behind(w)
<1>1. \A b : Due(b, w) \in {0, 1}
  BY DEF Due
<1>2. Behind(w) \in {0, 1}
  BY DEF Behind
<1>3. Due(row[w], w) <= Behind(w)
  BY <1>1 DEF Behind
<1>4. \A p \in Holding(w) : Due(Written(p, w), w) <= Behind(w)
  BY <1>1 DEF Behind
<1>5. \A p \in Holding(w) : AfterSave(p, w) \in {Due(row[w], w), Due(Written(p, w), w)}
  BY DEF AfterSave
<1> QED
  BY <1>1, <1>2, <1>3, <1>4, <1>5

\* Either everything due is paid for, or one pass is about to save.
LEMMA CauseCases ==
  ASSUME TypeInv, NEW w \in Watches, CauseAt(w)
  PROVE  /\ sent[w] <= Causes(w)
         /\ \/ sent[w] + Behind(w) <= Causes(w)
            \/ \E p \in Passes : Holding(w) = {p} /\ InHand(p, w)
<1>1. /\ sent[w] \in Nat /\ Causes(w) \in Nat /\ Behind(w) \in Nat
      /\ Cardinality(Waiting(w)) \in Nat
      /\ \A p \in Holding(w) : AfterSave(p, w) \in Nat
  <2>1. Waiting(w) \in SUBSET Passes
    BY DEF Waiting, Holding
  <2> QED
    BY <2>1, CountFacts, BehindFacts, PassSets
<1>2. CASE Waiting(w) = Holding(w)
  BY <1>1, <1>2 DEF CauseAt
<1>3. CASE Several(w)
  BY <1>1, <1>3 DEF CauseAt
<1>4. CASE Waiting(w) # Holding(w) /\ ~Several(w)
  <2>1. PICK p \in Holding(w) : InHand(p, w)
    BY <1>4 DEF Waiting
  <2>2. Holding(w) = {p} /\ p \in Passes
    BY <1>4, <2>1 DEF Several, Holding
  <2>3. sent[w] + AfterSave(p, w) <= Causes(w) /\ AfterSave(p, w) \in Nat
    BY <1>1, <2>1 DEF CauseAt
  <2> QED
    BY <1>1, <2>1, <2>2, <2>3
<1> QED
  BY <1>2, <1>3, <1>4

\* An alert is due, whatever the scan failed to see and whether or not drops
\* are held back ...
LEMMA AlertIsDue ==
  ASSUME NEW base, NEW scan, NEW held, NEW w, Alerting(Said(base, scan, held)),
         scan.score = Facts[w][version[w]].score,
         scan.digest \in {Facts[w][version[w]].digest, None}
  PROVE  Due(base, w) = 1
<1> DEFINE f == Facts[w][version[w]]
<1>1. Alerts(base, scan, held) # {}
  BY DEF Alerting, Said, Alerts
<1>2. CASE ~held /\ Dropped(base, scan)
  <2>1. Dropped(base, f)
    BY <1>2 DEF Dropped
  <2> QED
    BY <2>1 DEF Due, Alerts
<1>3. CASE ~(~held /\ Dropped(base, scan))
  <2>1. Drift(base.digest, scan.digest)
    BY <1>1, <1>3 DEF Alerts
  <2>2. Drift(base.digest, f.digest)
    BY <2>1 DEF Drift
  <2> QED
    BY <2>2 DEF Due, Alerts
<1> QED
  BY <1>2, <1>3

\* ... and a baseline taken from a whole scan settles it.
LEMMA BaselineSettles ==
  ASSUME TypeInv, NEW w \in Watches, NEW base \in Rows, NEW scan \in Scans,
         scan.score = Facts[w][version[w]].score,
         scan.digest = Facts[w][version[w]].digest
  PROVE  Due(Baseline(base, scan), w) = 0
<1> DEFINE f == Facts[w][version[w]]
           b == Baseline(base, scan)
<1>1. f.score \in Nat /\ Margin \in Nat
  BY BlocksType, ConstantFacts DEF TypeInv, Scans
<1>2. b.score = f.score /\ b.digest = Kept(base.digest, f.digest)
  BY DEF Baseline, Rows
<1> HIDE DEF f, b
<1>3. ~Dropped(b, f)
  BY <1>1, <1>2 DEF Dropped
<1>4. ~Drift(b.digest, f.digest)
  BY <1>2 DEF Drift, Kept
<1>5. Alerts(b, f, FALSE) = {}
  BY <1>3, <1>4 DEF Alerts
<1> QED
  BY <1>5 DEF Due, f, b

\* A pass that a step leaves alone.
LEMMA SamePass ==
  ASSUME NEW w \in Watches, NEW q \in Passes,
         row'[w].id = row[w].id, version'[w] = version[w], pass'[q] = pass[q]
  PROVE  /\ InHand(q, w)' = InHand(q, w)
         /\ Message(q)' = Message(q)
         /\ Written(q, w)' = Written(q, w)
         /\ Due(Written(q, w), w)' = Due(Written(q, w), w)
         /\ q \in Holding(w)' <=> q \in Holding(w)
         /\ q \in Waiting(w)' <=> q \in Waiting(w)
         /\ q \in Owing(w)' <=> q \in Owing(w)
         /\ row'[w] = row[w] => AfterSave(q, w)' = AfterSave(q, w)
<1>1. InHand(q, w)' = InHand(q, w)
  BY DEF InHand
<1>2. Message(q)' = Message(q)
  BY DEF Message
<1>3. Written(q, w)' = Written(q, w)
  BY <1>1 DEF Written, Baseline
<1>4. Due(Written(q, w), w)' = Due(Written(q, w), w)
  BY <1>3 DEF Due
<1>5. q \in Holding(w)' <=> q \in Holding(w)
  BY DEF Holding
<1>6. q \in Waiting(w)' <=> q \in Waiting(w)
  BY <1>1, <1>5 DEF Waiting
<1>7. q \in Owing(w)' <=> q \in Owing(w)
  BY <1>1, <1>2 DEF Owing, Alerting, Spoilt
<1>8. ASSUME row'[w] = row[w]
      PROVE  AfterSave(q, w)' = AfterSave(q, w)
  BY <1>2, <1>3, <1>8 DEF AfterSave, Due, Spoilt
<1> QED
  BY <1>1, <1>2, <1>3, <1>4, <1>5, <1>6, <1>7, <1>8

LEMMA SameRow ==
  ASSUME NEW w \in Watches, row'[w] = row[w], version'[w] = version[w]
  PROVE  Due(row[w], w)' = Due(row[w], w)
BY DEF Due

\* A step after which the same passes hold the row of a watch, and have the
\* same scans of it in hand.
LEMMA CauseSame ==
  ASSUME TypeInv, NEW w \in Watches, CauseAt(w),
         version'[w] = version[w], row'[w] = row[w],
         sent'[w] = sent[w], stored'[w] = stored[w],
         NEW n \in Nat, Causes(w)' = Causes(w) + n,
         \A q \in Passes : \/ pass'[q] = pass[q]
                           \/ /\ pass'[q].base[w] = pass[q].base[w]
                              /\ ~InHand(q, w) /\ ~InHand(q, w)'
  PROVE  CauseAt(w)'
<1>1. ASSUME NEW q \in Passes
      PROVE  /\ InHand(q, w)' = InHand(q, w)
             /\ Due(Written(q, w), w)' = Due(Written(q, w), w)
             /\ q \in Holding(w)' <=> q \in Holding(w)
             /\ q \in Waiting(w)' <=> q \in Waiting(w)
             /\ q \in Owing(w)' <=> q \in Owing(w)
             /\ InHand(q, w) => AfterSave(q, w)' = AfterSave(q, w)
  <2>1. CASE pass'[q] = pass[q]
    BY <2>1, SamePass
  <2>2. CASE pass'[q].base[w] = pass[q].base[w] /\ ~InHand(q, w) /\ ~InHand(q, w)'
    <3>1. Written(q, w)' = pass'[q].base[w] /\ Written(q, w) = pass[q].base[w]
      BY <2>2 DEF Written
    <3>2. Due(Written(q, w), w)' = Due(Written(q, w), w)
      BY <2>2, <3>1 DEF Due
    <3>3. q \in Holding(w)' <=> q \in Holding(w)
      BY <2>2 DEF Holding
    <3>4. InHand(q, w)' = InHand(q, w)
      BY <2>2 DEF InHand
    <3> QED
      BY <2>2, <3>2, <3>3, <3>4 DEF Waiting, Owing
  <2> QED
    BY <1>1, <2>1, <2>2
<1>2. Holding(w)' = Holding(w) /\ Waiting(w)' = Waiting(w) /\ Owing(w)' = Owing(w)
  <2>1. /\ Holding(w) \subseteq Passes /\ Waiting(w) \subseteq Passes /\ Owing(w) \subseteq Passes
        /\ Holding(w)' \subseteq Passes /\ Waiting(w)' \subseteq Passes /\ Owing(w)' \subseteq Passes
    BY DEF Holding, Waiting, Owing
  <2> QED
    BY <1>1, <2>1
<1>3. Behind(w)' = Behind(w)
  <2>1. Due(row[w], w)' = Due(row[w], w)
    BY SameRow
  <2>2. \A q \in Holding(w) : Due(Written(q, w), w)' = Due(Written(q, w), w)
    BY <1>1 DEF Holding
  <2> QED
    BY <1>2, <2>1, <2>2 DEF Behind
<1>4. Several(w)' = Several(w)
  BY <1>2 DEF Several
<1>5. /\ sent[w] \in Nat /\ Causes(w) \in Nat /\ Behind(w) \in Nat
      /\ Cardinality(Waiting(w)) \in Nat
      /\ \A p \in Holding(w) : AfterSave(p, w) \in Nat
  <2>1. Waiting(w) \in SUBSET Passes
    BY DEF Waiting, Holding
  <2> QED
    BY <2>1, CountFacts, BehindFacts, PassSets
<1>6. stored'[w] + Cardinality(Owing(w)') <= sent'[w]
  BY <1>2 DEF CauseAt
<1>7. Several(w)' => sent'[w] + Cardinality(Waiting(w)') + Behind(w)' <= Causes(w)'
  BY <1>2, <1>3, <1>4, <1>5 DEF CauseAt
<1>8. Waiting(w)' = Holding(w)' => sent'[w] + Behind(w)' <= Causes(w)'
  BY <1>2, <1>3, <1>5 DEF CauseAt
<1>9. ASSUME NEW q \in Holding(w)', InHand(q, w)'
      PROVE  sent'[w] + AfterSave(q, w)' <= Causes(w)'
  <2>1. q \in Holding(w) /\ q \in Passes
    BY <1>2, <1>9 DEF Holding
  <2>2. InHand(q, w) /\ AfterSave(q, w)' = AfterSave(q, w)
    BY <1>1, <1>9, <2>1
  <2> QED
    BY <1>5, <2>1, <2>2 DEF CauseAt
<1> QED
  BY <1>6, <1>7, <1>8, <1>9 DEF CauseAt

\* A pass lets a row go without writing it: it is a fault, unless what the pass
\* had in hand was never posted and can be posted again.
LEMMA CauseLetGo ==
  ASSUME TypeInv, NEW w \in Watches, CauseAt(w), NEW p \in Passes,
         version'[w] = version[w], row'[w] = row[w],
         sent'[w] = sent[w], stored'[w] = stored[w],
         \A q \in Passes \ {p} : pass'[q] = pass[q],
         p \notin Holding(w)', ~InHand(p, w)',
         \/ Causes(w)' = Causes(w) + 1
         \/ Causes(w)' = Causes(w) /\ (InHand(p, w) => Spoilt(w, Message(p)))
  PROVE  CauseAt(w)'
<1>1. ASSUME NEW q \in Passes
      PROVE  /\ q \in Holding(w)' <=> (q \in Holding(w) /\ q # p)
             /\ q \in Waiting(w)' <=> (q \in Waiting(w) /\ q # p)
             /\ q \in Owing(w)' => q \in Owing(w)
             /\ q # p => /\ InHand(q, w)' = InHand(q, w)
                         /\ Due(Written(q, w), w)' = Due(Written(q, w), w)
                         /\ AfterSave(q, w)' = AfterSave(q, w)
  <2>1. CASE q # p
    BY <2>1, SamePass
  <2>2. CASE q = p
    BY <2>2 DEF Waiting, Owing
  <2> QED
    BY <2>1, <2>2
<1>2. /\ Holding(w)' = Holding(w) \ {p} /\ Waiting(w)' = Waiting(w) \ {p}
      /\ Owing(w)' \subseteq Owing(w)
  <2>1. /\ Holding(w) \subseteq Passes /\ Waiting(w) \subseteq Passes /\ Owing(w) \subseteq Passes
        /\ Holding(w)' \subseteq Passes /\ Waiting(w)' \subseteq Passes /\ Owing(w)' \subseteq Passes
    BY DEF Holding, Waiting, Owing
  <2> QED
    BY <1>1, <2>1
<1>3. Due(row[w], w)' = Due(row[w], w)
  BY SameRow
<1>4. Behind(w)' \in {0, 1} /\ Behind(w)' <= Behind(w)
  <2>1. \A q \in Holding(w)' : /\ q \in Holding(w)
                               /\ Due(Written(q, w), w)' = Due(Written(q, w), w)
    BY <1>1, <1>2 DEF Holding
  <2>2. Behind(w)' = 1 => Behind(w) = 1
    BY <1>3, <2>1 DEF Behind
  <2> QED
    BY <2>2 DEF Behind
<1>5. /\ sent[w] \in Nat /\ stored[w] \in Nat /\ Causes(w) \in Nat /\ Behind(w) \in Nat
      /\ Causes(w)' \in Nat /\ Causes(w)' >= Causes(w)
      /\ \A q \in Holding(w) : AfterSave(q, w) \in Nat
  BY CountFacts, BehindFacts
<1>6. /\ Cardinality(Waiting(w)) \in Nat /\ Cardinality(Waiting(w)') \in Nat
      /\ Cardinality(Waiting(w)') <= Cardinality(Waiting(w))
      /\ Cardinality(Owing(w)) \in Nat /\ Cardinality(Owing(w)') \in Nat
      /\ Cardinality(Owing(w)') <= Cardinality(Owing(w))
  <2>1. /\ Waiting(w) \in SUBSET Passes /\ Waiting(w)' \in SUBSET Passes
        /\ Owing(w) \in SUBSET Passes /\ Owing(w)' \in SUBSET Passes
    BY <1>2 DEF Waiting, Holding, Owing
  <2>2. Waiting(w)' \subseteq Waiting(w)
    BY <1>2
  <2> QED
    BY <1>2, <2>1, <2>2, PassSets
<1>7. stored'[w] + Cardinality(Owing(w)') <= sent'[w]
  BY <1>5, <1>6 DEF CauseAt
<1>8. ASSUME Several(w)'
      PROVE  sent'[w] + Cardinality(Waiting(w)') + Behind(w)' <= Causes(w)'
  <2>1. Several(w)
    BY <1>2, <1>8 DEF Several
  <2>2. sent[w] + Cardinality(Waiting(w)) + Behind(w) <= Causes(w)
    BY <2>1 DEF CauseAt
  <2> QED
    BY <1>4, <1>5, <1>6, <2>2
<1>9. ASSUME Waiting(w)' = Holding(w)'
      PROVE  sent'[w] + Behind(w)' <= Causes(w)'
  <2>1. CASE sent[w] + Behind(w) <= Causes(w)
    BY <1>4, <1>5, <2>1
  <2>2. ASSUME NEW r \in Passes, Holding(w) = {r}, InHand(r, w)
        PROVE  sent'[w] + Behind(w)' <= Causes(w)'
    <3>1. r = p
      <4> SUFFICES ASSUME r # p
                   PROVE  FALSE
        OBVIOUS
      <4>1. r \in Holding(w)' /\ InHand(r, w)'
        BY <1>1, <1>2, <2>2
      <4> QED
        BY <1>9, <4>1 DEF Waiting
    <3>2. Behind(w)' = Due(row[w], w)
      <4>1. Holding(w)' = {}
        BY <1>2, <2>2, <3>1
      <4> QED
        BY <1>3, <4>1, BehindFacts DEF Behind
    <3>3. sent[w] <= Causes(w)
      BY CauseCases
    <3>4. CASE Causes(w)' = Causes(w) + 1
      BY <1>4, <1>5, <3>3, <3>4
    <3>5. CASE Causes(w)' = Causes(w) /\ Spoilt(w, Message(p))
      <4>1. sent[w] + AfterSave(p, w) <= Causes(w)
        BY <2>2, <3>1 DEF CauseAt
      <4>2. AfterSave(p, w) = Due(row[w], w)
        BY <3>5 DEF AfterSave
      <4> QED
        BY <3>2, <3>5, <4>1, <4>2
    <3> QED
      BY <2>2, <3>1, <3>4, <3>5
  <2> QED
    BY <2>1, <2>2, CauseCases
<1>10. ASSUME NEW q \in Holding(w)', InHand(q, w)'
       PROVE  sent'[w] + AfterSave(q, w)' <= Causes(w)'
  <2>1. q \in Holding(w) /\ q \in Passes /\ q # p
    BY <1>2, <1>10 DEF Holding
  <2>2. InHand(q, w) /\ AfterSave(q, w)' = AfterSave(q, w)
    BY <1>1, <1>10, <2>1
  <2> QED
    BY <1>5, <2>1, <2>2 DEF CauseAt
<1> QED
  BY <1>7, <1>8, <1>9, <1>10 DEF CauseAt

\* A step that leaves no pass with the row of a watch.
LEMMA CauseUnheld ==
  ASSUME NEW w \in Watches, Holding(w)' = {}, Owing(w)' = {},
         stored'[w] \in Nat, sent'[w] \in Nat, stored'[w] <= sent'[w],
         sent'[w] + Due(row[w], w)' <= Causes(w)'
  PROVE  CauseAt(w)'
<1>1. Waiting(w)' = {} /\ ~Several(w)'
  BY DEF Waiting, Several
<1>2. Behind(w)' = Due(row[w], w)'
  BY DEF Behind, Due
<1>3. Cardinality(Owing(w)') = 0
  BY FS_EmptySet
<1> QED
  BY <1>1, <1>2, <1>3 DEF CauseAt

LEMMA CauseUser ==
  ASSUME TypeInv, ToldInv, NEW w \in Watches, CauseAt(w),
         Change(w) \/ AddWatch(w) \/ RemoveWatch(w)
  PROVE  CauseAt(w)'
<1>1. pass' = pass /\ faults' = faults /\ overlaps' = overlaps
  BY DEF Change, AddWatch, RemoveWatch
<1>2. /\ sent[w] \in Nat /\ stored[w] \in Nat /\ Causes(w) \in Nat /\ sent[w] <= Causes(w)
      /\ Behind(w) \in Nat /\ Cardinality(Waiting(w)) \in Nat /\ Cardinality(Owing(w)) \in Nat
      /\ stored[w] <= sent[w]
  <2>1. Waiting(w) \in SUBSET Passes /\ Owing(w) \in SUBSET Passes
    BY DEF Waiting, Holding, Owing
  <2>2. Cardinality(Waiting(w)) \in Nat /\ Cardinality(Owing(w)) \in Nat
    BY <2>1, PassSets
  <2> QED
    BY <2>2, CountFacts, BehindFacts, CauseCases DEF CauseAt
<1>3. CASE Change(w)
  <2>1. /\ row' = row /\ sent' = sent /\ stored' = stored /\ version'[w] = version[w] + 1
        /\ Causes(w)' = Causes(w) + 1
    BY <1>1, <1>3, CountFacts, ConstantFacts DEF Change, ghosts, Causes, TypeInv, Types
  <2>2. \A p \in Passes : InHand(p, w)' = InHand(p, w) /\ Message(p)' = Message(p)
    BY <1>1, <2>1 DEF InHand, Message
  <2>3. Holding(w)' = Holding(w)
    BY <1>1, <2>1 DEF Holding
  <2>4. Waiting(w)' = Waiting(w) /\ Several(w)' = Several(w)
    <3>1. \A p \in Holding(w) : InHand(p, w)' = InHand(p, w)
      BY <2>2 DEF Holding
    <3> QED
      BY <2>3, <3>1 DEF Waiting, Several
  <2>5. Owing(w)' = Owing(w)
    BY <2>2 DEF Owing, Alerting, Spoilt
  <2>6. Behind(w)' \in {0, 1} /\ \A p : AfterSave(p, w)' \in {0, 1}
    BY DEF Behind, AfterSave, Due
  <2>7. stored'[w] + Cardinality(Owing(w)') <= sent'[w]
    BY <2>1, <2>5 DEF CauseAt
  <2>8. Several(w)' => sent'[w] + Cardinality(Waiting(w)') + Behind(w)' <= Causes(w)'
    BY <1>2, <2>1, <2>4, <2>6 DEF CauseAt
  <2>9. /\ sent'[w] + Behind(w)' <= Causes(w)'
        /\ \A p : sent'[w] + AfterSave(p, w)' <= Causes(w)'
    BY <1>2, <2>1, <2>6
  <2> QED
    BY <2>7, <2>8, <2>9 DEF CauseAt
<1>4. CASE AddWatch(w)
  <2>1. PICK f \in {Facts[w][v] : v \in 1 .. version[w]}
                     \cup {[score |-> None, digest |-> None, icon |-> None]} :
          row' = [row EXCEPT ![w] = [id |-> adds[w] + 1, score |-> f.score,
                                     digest |-> f.digest, icon |-> f.icon, fp |-> None]]
    BY <1>4 DEF AddWatch
  <2>2. /\ row'[w].id = adds[w] + 1 /\ row'[w].score = f.score /\ row'[w].digest = f.digest
        /\ sent'[w] = 0 /\ stored'[w] = 0 /\ version' = version
    BY <1>4, <2>1 DEF AddWatch, TypeInv, Types
  <2>3. Holding(w)' = {} /\ Owing(w)' = {}
    <3>1. \A p \in Passes : pass[p].base[w].id # adds[w] + 1
      BY RowIds DEF ToldInv, Ids
    <3> QED
      BY <1>1, <2>2, <3>1 DEF Holding, Owing, InHand
  <2>4. Due(row'[w], w) <= Causes(w)
    <3>1. CASE version[w] > 1
      BY <3>1, CountFacts, ConstantFacts DEF Causes, TypeInv, Types
    <3>2. CASE ~(version[w] > 1)
      <4>1. version[w] = 1
        BY <3>2, CountFacts
      <4>2. \/ f.score = None /\ f.digest = None
            \/ f = Facts[w][1]
        BY <2>1, <4>1
      <4>3. /\ Facts[w][1].score \in Nat /\ Margin \in Nat
        BY <4>1, BlocksType, ConstantFacts DEF TypeInv, Scans
      <4>4. ~Dropped(row'[w], Facts[w][1]) /\ ~Drift(row'[w].digest, Facts[w][1].digest)
        BY <2>2, <4>2, <4>3 DEF Dropped, Drift
      <4>5. Due(row'[w], w) = 0
        BY <4>1, <4>4 DEF Due, Alerts
      <4> QED
        BY <1>2, <4>5
    <3> QED
      BY <3>1, <3>2
  <2>5. Due(row[w], w)' = Due(row'[w], w) /\ Causes(w)' = Causes(w)
    BY <1>1, <2>2 DEF Due, Causes
  <2>6. Due(row'[w], w) \in Nat
    BY DEF Due
  <2> QED
    BY <1>2, <2>2, <2>3, <2>4, <2>5, <2>6, CauseUnheld
<1>5. CASE RemoveWatch(w)
  <2>1. /\ row'[w] = NoRow /\ NoRow.id = 0 /\ NoRow.score = None /\ NoRow.digest = None
        /\ sent' = sent /\ stored' = stored /\ version' = version
    BY <1>5 DEF RemoveWatch, NoRow, TypeInv, Types
  <2>2. Holding(w)' = {} /\ Owing(w)' = {}
    <3>1. \A p \in Passes : pass[p].at = "save" /\ pass[p].watch = w => pass[p].base[w].id # 0
      BY DEF TypeInv, Saving
    <3> QED
      BY <1>1, <2>1, <3>1 DEF Holding, Owing, InHand
  <2>3. Due(row[w], w)' = 0
    <3>1. ~Dropped(NoRow, Facts[w][version[w]]) /\ ~Drift(None, Facts[w][version[w]].digest)
      BY <2>1 DEF Dropped, Drift
    <3> QED
      BY <2>1, <3>1 DEF Due, Alerts
  <2>4. Causes(w)' = Causes(w)
    BY <1>1, <2>1 DEF Causes
  <2> QED
    BY <1>2, <2>1, <2>2, <2>3, <2>4, CauseUnheld
<1> QED
  BY <1>3, <1>4, <1>5

\* The watch that a pass checks.
LEMMA CauseCheck ==
  ASSUME TypeInv, NEW w \in Watches, CauseAt(w), NEW p \in Passes, Check(p, w)
  PROVE  CauseAt(w)'
<1> DEFINE f == Facts[w][version[w]]
           base == pass[p].base[w]
<1>1. PICK block \in Blocks(w), shown \in BOOLEAN :
        LET scan == [f EXCEPT !.fp = block, !.digest = IF shown THEN @ ELSE None]
            said == Said(base, scan, pass[p].held)
        IN  /\ \/ shown /\ UNCHANGED faults
               \/ ~shown /\ f.digest # None /\ Fault
            /\ pass' = [pass EXCEPT ![p].at = "save", ![p].watch = w, ![p].scan = scan]
            /\ sent' = [sent EXCEPT ![w] = sent[w] +
                         IF Alerting(said) /\ ~Spoilt(w, said) /\ row[w].id = base.id
                         THEN 1 ELSE 0]
  BY DEF Check
<1> DEFINE scan == [f EXCEPT !.fp = block, !.digest = IF shown THEN @ ELSE None]
           said == Said(base, scan, pass[p].held)
           news == IF Alerting(said) /\ ~Spoilt(w, said) /\ row[w].id = base.id THEN 1 ELSE 0
<1>2. /\ scan \in Scans /\ scan.score = f.score
      /\ scan.digest = (IF shown THEN f.digest ELSE None)
  BY BlocksType DEF Scans, TypeInv
<1>3. /\ pass'[p].at = "save" /\ pass'[p].watch = w /\ pass'[p].scan = scan
      /\ pass'[p].base = pass[p].base /\ pass'[p].held = pass[p].held
      /\ \A q \in Passes \ {p} : pass'[q] = pass[q]
  BY <1>1 DEF TypeInv, Types, States
<1>4. /\ pass[p].at = "next" /\ base.id > 0 /\ base \in Rows /\ ~InHand(p, w)
      /\ row' = row /\ stored' = stored /\ version' = version
  BY DEF Check, Todo, InHand, TypeInv, Types, States
<1>5. sent'[w] = sent[w] + news
  BY <1>1 DEF TypeInv, Types
<1>6. Message(p)' = said
  BY <1>3 DEF Message
<1>7. /\ shown => Causes(w)' = Causes(w)
      /\ ~shown => Causes(w)' = Causes(w) + 1
  BY <1>1, <1>4, CountFacts, ConstantFacts DEF Causes, Fault, Check, TypeInv, Types
<1> HIDE DEF said, scan, news
<1>8. news \in {0, 1}
  BY DEF news
<1>9. CASE row[w].id # base.id
  <2>1. sent'[w] = sent[w]
    BY <1>5, <1>9, CountFacts DEF news
  <2>2. ~InHand(p, w)'
    BY <1>3, <1>4, <1>9 DEF InHand
  <2>3. \A q \in Passes : \/ pass'[q] = pass[q]
                          \/ /\ pass'[q].base[w] = pass[q].base[w]
                             /\ ~InHand(q, w) /\ ~InHand(q, w)'
    BY <1>3, <1>4, <2>2
  <2>4. PICK n \in Nat : Causes(w)' = Causes(w) + n
    BY <1>7, CountFacts
  <2> QED
    BY <1>4, <2>1, <2>3, <2>4, CauseSame
<1>10. CASE row[w].id = base.id
  <2>1. p \in Holding(w) /\ p \in Holding(w)' /\ p \in Waiting(w) /\ InHand(p, w)'
    BY <1>3, <1>4, <1>10 DEF Holding, Waiting, InHand
  <2>2. ASSUME NEW q \in Passes, q # p
        PROVE  /\ q \in Holding(w)' <=> q \in Holding(w)
               /\ q \in Waiting(w)' <=> q \in Waiting(w)
               /\ q \in Owing(w)' <=> q \in Owing(w)
               /\ Due(Written(q, w), w)' = Due(Written(q, w), w)
               /\ AfterSave(q, w)' = AfterSave(q, w)
    BY <1>3, <1>4, <2>2, SamePass
  <2>3. /\ Holding(w)' = Holding(w) /\ Waiting(w)' = Waiting(w) \ {p}
        /\ Owing(w)' \subseteq Owing(w) \cup {p}
        /\ news = 0 => Owing(w)' \subseteq Owing(w)
    <3>1. /\ Holding(w) \subseteq Passes /\ Waiting(w) \subseteq Passes /\ Owing(w) \subseteq Passes
          /\ Holding(w)' \subseteq Passes /\ Waiting(w)' \subseteq Passes
          /\ Owing(w)' \subseteq Passes
      BY DEF Holding, Waiting, Owing
    <3>2. p \notin Waiting(w)'
      BY <2>1 DEF Waiting
    <3>3. news = 0 => p \notin Owing(w)'
      BY <1>6, <1>10 DEF Owing, Alerting, Spoilt, news
    <3> QED
      BY <2>1, <2>2, <3>1, <3>2, <3>3
  <2>4. /\ sent[w] \in Nat /\ stored[w] \in Nat /\ Causes(w) \in Nat /\ sent[w] <= Causes(w)
        /\ Behind(w) \in {0, 1} /\ Behind(w)' \in {0, 1}
        /\ \A q \in Holding(w) : AfterSave(q, w) \in {0, 1} /\ AfterSave(q, w) <= Behind(w)
    BY CountFacts, BehindFacts, CauseCases DEF Behind
  <2>5. /\ Cardinality(Waiting(w)) \in Nat /\ Cardinality(Waiting(w)') \in Nat
        /\ Cardinality(Waiting(w)') + 1 <= Cardinality(Waiting(w))
        /\ Cardinality(Owing(w)) \in Nat /\ Cardinality(Owing(w)') \in Nat
        /\ Cardinality(Owing(w)') <= Cardinality(Owing(w)) + news
    <3>1. /\ Waiting(w) \in SUBSET Passes /\ Waiting(w)' \in SUBSET Passes
          /\ Owing(w) \in SUBSET Passes /\ Owing(w)' \in SUBSET Passes
      BY <2>1, <2>3 DEF Waiting, Holding, Owing
    <3>2. /\ Cardinality(Waiting(w)) \in Nat /\ Cardinality(Waiting(w)') \in Nat
          /\ Cardinality(Waiting(w)') + 1 <= Cardinality(Waiting(w))
      BY <2>1, <2>3, <3>1, PassSets
    <3>3. /\ Cardinality(Owing(w)) \in Nat /\ Cardinality(Owing(w)') \in Nat
          /\ Cardinality(Owing(w)') <= Cardinality(Owing(w)) + 1
          /\ news = 0 => Cardinality(Owing(w)') <= Cardinality(Owing(w))
      BY <2>3, <3>1, PassSets
    <3> QED
      BY <1>8, <3>2, <3>3
  <2>6. news <= Behind(w)
    <3>1. Written(p, w) = base
      BY <1>4 DEF Written
    <3>2. news = 1 => Due(base, w) = 1
      BY <1>2, AlertIsDue DEF news, said
    <3> QED
      BY <1>8, <2>1, <2>4, <3>1, <3>2, BehindFacts
  <2>7. /\ Written(p, w)' = Baseline(base, scan)
        /\ Due(Written(p, w), w)' = Due(Baseline(base, scan), w)
    BY <1>3, <1>4, <2>1 DEF Written, Baseline, Due
  <2>8. shown => Due(Written(p, w), w)' = 0
    BY <1>2, <1>4, <2>7, BaselineSettles
  <2>9. shown => Behind(w)' <= Behind(w)
    <3>1. Due(row[w], w)' = Due(row[w], w)
      BY <1>4, SameRow
    <3>2. \A q \in Holding(w) : q # p => Due(Written(q, w), w)' = Due(Written(q, w), w)
      BY <2>2 DEF Holding
    <3>3. shown /\ Behind(w)' = 1 => Behind(w) = 1
      BY <2>3, <2>8, <3>1, <3>2 DEF Behind
    <3> QED
      BY <2>4, <3>3
  <2>10. \A q \in Passes : AfterSave(q, w)' \in {0, 1}
    BY DEF AfterSave, Due
  <2>11. stored'[w] + Cardinality(Owing(w)') <= sent'[w]
    <3>1. stored[w] + Cardinality(Owing(w)) <= sent[w]
      BY DEF CauseAt
    <3> QED
      BY <1>4, <1>5, <1>8, <2>4, <2>5, <3>1
  <2>12. ASSUME Several(w)
         PROVE  sent'[w] + Cardinality(Waiting(w)') + Behind(w)' <= Causes(w)'
    <3>1. sent[w] + Cardinality(Waiting(w)) + Behind(w) <= Causes(w)
      BY <2>12 DEF CauseAt
    <3> QED
      BY <1>5, <1>7, <1>8, <2>4, <2>5, <2>9, <3>1
  <2>13. Several(w)' = Several(w)
    BY <2>3 DEF Several
  <2>14. ASSUME NEW q \in Holding(w)', InHand(q, w)'
         PROVE  sent'[w] + AfterSave(q, w)' <= Causes(w)'
    <3>1. q \in Passes /\ q \in Holding(w)
      BY <2>3 DEF Holding
    <3>2. CASE Several(w)
      <4>1. sent[w] + Cardinality(Waiting(w)) + Behind(w) <= Causes(w)
        BY <3>2 DEF CauseAt
      <4>2. shown => AfterSave(q, w)' <= Behind(w)
        <5>1. CASE q # p
          BY <2>2, <2>4, <3>1, <5>1
        <5>2. CASE q = p /\ Spoilt(w, said)
          <6>1. AfterSave(p, w)' = Due(row[w], w)
            BY <1>4, <1>6, <5>2 DEF AfterSave, Due, Spoilt
          <6> QED
            BY <5>2, <6>1, BehindFacts
        <5>3. CASE q = p /\ ~Spoilt(w, said)
          <6>1. AfterSave(p, w)' = Due(Written(p, w), w)'
            BY <1>6, <5>3 DEF AfterSave, Due, Spoilt
          <6> QED
            BY <2>4, <2>8, <5>3, <6>1
        <5> QED
          BY <5>1, <5>2, <5>3
      <4> QED
        BY <1>5, <1>7, <1>8, <2>4, <2>5, <2>10, <3>1, <4>1, <4>2
    <3>3. CASE ~Several(w)
      <4>1. Holding(w) = {p} /\ q = p
        BY <2>1, <3>1, <3>3 DEF Several
      <4>2. Waiting(w) = Holding(w)
        BY <2>1, <4>1 DEF Waiting
      <4>3. sent[w] + Behind(w) <= Causes(w)
        BY <4>2 DEF CauseAt
      <4>4. ASSUME shown
            PROVE  news + AfterSave(p, w)' <= Behind(w)
        <5>1. CASE Spoilt(w, said)
          <6>1. AfterSave(p, w)' = Due(row[w], w)
            BY <1>4, <1>6, <5>1 DEF AfterSave, Due, Spoilt
          <6>2. news = 0
            BY <5>1 DEF news
          <6> QED
            BY <2>4, <6>1, <6>2, BehindFacts
        <5>2. CASE ~Spoilt(w, said)
          <6>1. AfterSave(p, w)' = Due(Written(p, w), w)'
            BY <1>6, <5>2 DEF AfterSave, Due, Spoilt
          <6> QED
            BY <1>8, <2>4, <2>6, <2>8, <4>4, <6>1
        <5> QED
          BY <5>1, <5>2
      <4> QED
        BY <1>5, <1>7, <1>8, <2>4, <2>6, <2>10, <4>1, <4>3, <4>4
    <3> QED
      BY <3>2, <3>3
  <2>15. Waiting(w)' # Holding(w)'
    BY <2>1 DEF Waiting
  <2> QED
    BY <2>11, <2>12, <2>13, <2>14, <2>15 DEF CauseAt
<1> QED
  BY <1>9, <1>10

\* The watch whose new baseline a pass writes.
LEMMA CauseCommit ==
  ASSUME TypeInv, NEW w \in Watches, CauseAt(w), NEW p \in Passes, pass[p].watch = w,
         Save(p), ~Spoilt(w, Message(p)), Commit(p)
  PROVE  CauseAt(w)'
<1> DEFINE base == pass[p].base[w]
<1>1. /\ pass[p].at = "save" /\ base \in Rows /\ base.id > 0 /\ pass[p].scan \in Scans
      /\ version' = version /\ sent' = sent /\ faults' = faults /\ overlaps' = overlaps
  BY DEF Save, TypeInv, Types, Saving, States
<1>2. /\ row[w].id = base.id /\ row'[w] = Baseline(base, pass[p].scan)
      /\ stored'[w] = stored[w] + IF Alerting(Message(p)) THEN 1 ELSE 0
  BY DEF Commit, TypeInv, Types
<1>3. row'[w].id = row[w].id
  BY <1>1, <1>2, BaselineType
<1>4. /\ pass'[p].base[w] = NoRow /\ pass'[p].at = "next"
      /\ \A q \in Passes \ {p} : pass'[q] = pass[q]
  BY DoneFacts DEF Save, TypeInv, Types
<1>5. p \in Holding(w) /\ InHand(p, w) /\ p \notin Holding(w)' /\ ~InHand(p, w)'
  BY <1>1, <1>2, <1>4 DEF Holding, InHand, NoRow
<1>6. ASSUME NEW q \in Passes, q # p
      PROVE  /\ q \in Holding(w)' <=> q \in Holding(w)
             /\ q \in Waiting(w)' <=> q \in Waiting(w)
             /\ q \in Owing(w)' <=> q \in Owing(w)
             /\ Due(Written(q, w), w)' = Due(Written(q, w), w)
             /\ InHand(q, w)' = InHand(q, w)
  BY <1>1, <1>3, <1>4, <1>6, SamePass
<1>7. /\ Holding(w)' = Holding(w) \ {p} /\ Waiting(w)' = Waiting(w)
      /\ Owing(w)' = Owing(w) \ {p}
      /\ Alerting(Message(p)) => p \in Owing(w)
  <2>1. /\ Holding(w) \subseteq Passes /\ Waiting(w) \subseteq Passes /\ Owing(w) \subseteq Passes
        /\ Holding(w)' \subseteq Passes /\ Waiting(w)' \subseteq Passes
        /\ Owing(w)' \subseteq Passes
    BY DEF Holding, Waiting, Owing
  <2>2. p \notin Waiting(w) /\ p \notin Waiting(w)' /\ p \notin Owing(w)'
    BY <1>5 DEF Waiting, Owing
  <2>3. Alerting(Message(p)) => p \in Owing(w)
    BY <1>5 DEF Owing
  <2> QED
    BY <1>5, <1>6, <2>1, <2>2, <2>3
<1>8. /\ sent[w] \in Nat /\ stored[w] \in Nat /\ Causes(w) \in Nat /\ sent[w] <= Causes(w)
      /\ Causes(w)' = Causes(w)
      /\ Behind(w) \in {0, 1} /\ Behind(w)' \in {0, 1}
      /\ Cardinality(Waiting(w)) \in Nat
  <2>1. Waiting(w) \in SUBSET Passes
    BY DEF Waiting, Holding
  <2>2. Cardinality(Waiting(w)) \in Nat
    BY <2>1, PassSets
  <2>3. Causes(w)' = Causes(w)
    BY <1>1 DEF Causes
  <2> QED
    BY <2>2, <2>3, CountFacts, BehindFacts, CauseCases DEF Behind
<1>9. Due(row[w], w)' = Due(Written(p, w), w)
  BY <1>1, <1>2, <1>5 DEF Written, Due
<1>10. Behind(w)' <= Behind(w)
  <2>1. \A q \in Holding(w) : q # p => Due(Written(q, w), w)' = Due(Written(q, w), w)
    BY <1>6 DEF Holding
  <2>2. Behind(w)' = 1 => Behind(w) = 1
    BY <1>5, <1>7, <1>9, <2>1 DEF Behind
  <2> QED
    BY <1>8, <2>2
<1>11. stored'[w] + Cardinality(Owing(w)') <= sent'[w]
  <2>1. Owing(w) \in SUBSET Passes /\ Owing(w)' \in SUBSET Passes
    BY <1>7 DEF Owing
  <2>2. /\ Cardinality(Owing(w)) \in Nat /\ Cardinality(Owing(w)') \in Nat
        /\ Cardinality(Owing(w)') <= Cardinality(Owing(w))
        /\ p \in Owing(w) => Cardinality(Owing(w)') + 1 <= Cardinality(Owing(w))
    BY <1>7, <2>1, PassSets
  <2>3. stored[w] + Cardinality(Owing(w)) <= sent[w]
    BY DEF CauseAt
  <2> QED
    BY <1>1, <1>2, <1>7, <1>8, <2>2, <2>3
<1>12. ASSUME Several(w)
       PROVE  sent'[w] + Cardinality(Waiting(w)') + Behind(w)' <= Causes(w)'
  <2>1. sent[w] + Cardinality(Waiting(w)) + Behind(w) <= Causes(w)
    BY <1>12 DEF CauseAt
  <2> QED
    BY <1>1, <1>7, <1>8, <1>10, <2>1
<1>13. ASSUME ~Several(w)
       PROVE  sent'[w] + Behind(w)' <= Causes(w)'
  <2>1. Holding(w)' = {}
    BY <1>5, <1>7, <1>13 DEF Several
  <2>2. Behind(w)' = Due(row[w], w)'
    BY <2>1 DEF Behind, Due
  <2>3. sent[w] + AfterSave(p, w) <= Causes(w)
    BY <1>5 DEF CauseAt
  <2>4. AfterSave(p, w) = Due(Written(p, w), w)
    BY DEF AfterSave
  <2> QED
    BY <1>1, <1>8, <1>9, <2>2, <2>3, <2>4
<1>14. sent'[w] + Behind(w)' <= Causes(w)'
  BY <1>1, <1>7, <1>8, <1>12, <1>13
<1>15. \A q \in Holding(w)' : AfterSave(q, w)' <= Behind(w)' /\ AfterSave(q, w)' \in {0, 1}
  <2>1. /\ Due(row[w], w)' \in {0, 1} /\ Behind(w)' \in {0, 1}
        /\ \A q \in Holding(w)' : Due(Written(q, w), w)' \in {0, 1}
    BY DEF Due, Behind
  <2>2. /\ Due(row[w], w)' <= Behind(w)'
        /\ \A q \in Holding(w)' : Due(Written(q, w), w)' <= Behind(w)'
    BY <2>1 DEF Behind
  <2>3. \A q \in Holding(w)' : \/ AfterSave(q, w)' = Due(row[w], w)'
                               \/ AfterSave(q, w)' = Due(Written(q, w), w)'
    BY DEF AfterSave
  <2> QED
    BY <2>1, <2>2, <2>3
<1>16. Several(w)' => Several(w)
  BY <1>7 DEF Several
<1>17. \A q \in Holding(w)' : sent'[w] + AfterSave(q, w)' <= Causes(w)'
  BY <1>1, <1>8, <1>14, <1>15
<1> QED
  BY <1>11, <1>12, <1>14, <1>16, <1>17 DEF CauseAt

\* An idle pass has read no rows.
Rested == \A p \in Passes : pass[p].at = "idle" => pass[p].base = [v \in Watches |-> NoRow]

LEMMA RestedNext == TypeInv /\ Rested /\ [Next]_vars => Rested'
<1> SUFFICES ASSUME TypeInv, Rested, [Next]_vars
             PROVE  Rested'
  OBVIOUS
<1>1. pass \in [Passes -> States]
  BY DEF TypeInv, Types
<1>2. ASSUME NEW p \in Passes, pass' = [pass EXCEPT ![p] = Idle]
      PROVE  Rested'
  BY <1>1, <1>2 DEF Rested, Idle
<1>3. ASSUME NEW p \in Passes, pass'[p].at # "idle",
             \A q \in Passes \ {p} : pass'[q] = pass[q]
      PROVE  Rested'
  BY <1>3 DEF Rested
<1>4. ASSUME NEW w \in Watches, Change(w) \/ AddWatch(w) \/ RemoveWatch(w)
      PROVE  Rested'
  BY <1>4 DEF Change, AddWatch, RemoveWatch, Rested
<1>5. ASSUME NEW p \in Passes, Begin(p)
      PROVE  Rested'
  <2>1. PICK base, held : pass' = [pass EXCEPT ![p] =
               [Idle EXCEPT !.at = "next", !.held = held, !.base = base]]
    BY <1>5 DEF Begin
  <2>2. [Idle EXCEPT !.at = "next", !.held = held, !.base = base].at = "next"
    BY DEF Idle
  <2> QED
    BY <1>1, <1>3, <2>1, <2>2
<1>6. ASSUME NEW p \in Passes, NEW w \in Watches, Check(p, w)
      PROVE  Rested'
  <2>1. PICK scan : pass' = [pass EXCEPT ![p].at = "save", ![p].watch = w, ![p].scan = scan]
    BY <1>6 DEF Check
  <2>2. pass'[p].at = "save" /\ \A q \in Passes \ {p} : pass'[q] = pass[q]
    BY <1>1, <2>1 DEF States
  <2> QED
    BY <1>3, <2>2
<1>7. ASSUME NEW p \in Passes, NEW w \in Watches, pass' = Done(p, w)
      PROVE  Rested'
  <2>1. pass'[p].at = "next" /\ \A q \in Passes \ {p} : pass'[q] = pass[q]
    BY <1>1, <1>7, DoneFacts
  <2> QED
    BY <1>3, <2>1
<1>8. ASSUME NEW p \in Passes, Save(p)
      PROVE  Rested'
  <2>1. pass[p].watch \in Watches
    BY <1>8 DEF Save, TypeInv, Saving
  <2> QED
    BY <1>2, <1>7, <1>8, <2>1 DEF Save, Abort
<1>9. ASSUME NEW p \in Passes, End(p) \/ Crash(p)
      PROVE  Rested'
  BY <1>2, <1>9 DEF End, Crash, Abort
<1>10. ASSUME NEW p \in Passes, NEW w \in Watches, ScanFail(p, w)
       PROVE  Rested'
  BY <1>7, <1>10 DEF ScanFail
<1>11. CASE UNCHANGED vars
  BY <1>11 DEF vars, Rested
<1> QED
  BY <1>4, <1>5, <1>6, <1>8, <1>9, <1>10, <1>11 DEF Next, PassStep

\* A pass begins, alone or beside others.
LEMMA CauseBegin ==
  ASSUME TypeInv, Rested, NEW w \in Watches, CauseAt(w), NEW p \in Passes, Begin(p)
  PROVE  CauseAt(w)'
<1>1. /\ row' = row /\ sent' = sent /\ stored' = stored /\ version' = version
      /\ faults' = faults /\ pass[p].at = "idle"
      /\ \/ UnderWay = {} /\ overlaps' = overlaps
         \/ overlaps' = overlaps + 1
  BY DEF Begin, ghosts, UnderWay
<1>2. PICK S \in SUBSET Listed, held \in BOOLEAN :
        pass' = [pass EXCEPT ![p] =
                  [Idle EXCEPT !.at = "next", !.held = held,
                               !.base = [v \in Watches |-> IF v \in S THEN row[v] ELSE NoRow]]]
  BY DEF Begin
<1>3. /\ pass'[p].at = "next"
      /\ pass'[p].base[w] = row[w] \/ pass'[p].base[w] = NoRow
      /\ \A q \in Passes \ {p} : pass'[q] = pass[q]
  <2> DEFINE base == [v \in Watches |-> IF v \in S THEN row[v] ELSE NoRow]
             st == [Idle EXCEPT !.at = "next", !.held = held, !.base = base]
  <2>1. base[w] = row[w] \/ base[w] = NoRow
    OBVIOUS
  <2>2. pass \in [Passes -> States] /\ pass' = [pass EXCEPT ![p] = st]
    BY <1>2 DEF TypeInv, Types
  <2> HIDE DEF base
  <2>3. st.at = "next" /\ st.base = base
    BY DEF Idle
  <2> HIDE DEF st
  <2> QED
    BY <2>1, <2>2, <2>3
<1>4. p \notin Holding(w) /\ ~InHand(p, w) /\ ~InHand(p, w)'
  BY <1>1, <1>3 DEF Rested, Holding, InHand, NoRow
<1>5. ASSUME NEW q \in Passes, q # p
      PROVE  /\ q \in Holding(w)' <=> q \in Holding(w)
             /\ q \in Waiting(w)' <=> q \in Waiting(w)
             /\ q \in Owing(w)' <=> q \in Owing(w)
             /\ Due(Written(q, w), w)' = Due(Written(q, w), w)
             /\ InHand(q, w)' = InHand(q, w)
  BY <1>1, <1>3, <1>5, SamePass
<1>6. /\ Holding(w)' \subseteq Holding(w) \cup {p}
      /\ Waiting(w)' \subseteq Waiting(w) \cup {p}
      /\ Owing(w)' = Owing(w)
  <2>1. /\ Holding(w) \subseteq Passes /\ Waiting(w) \subseteq Passes /\ Owing(w) \subseteq Passes
        /\ Holding(w)' \subseteq Passes /\ Waiting(w)' \subseteq Passes
        /\ Owing(w)' \subseteq Passes
    BY DEF Holding, Waiting, Owing
  <2>2. p \notin Owing(w) /\ p \notin Owing(w)'
    BY <1>4 DEF Owing
  <2> QED
    BY <1>5, <2>1, <2>2
<1>7. Due(row[w], w)' = Due(row[w], w)
  BY <1>1, SameRow
<1>8. Behind(w)' = Behind(w)
  <2>1. p \in Holding(w)' => Due(Written(p, w), w)' = Due(row[w], w)
    <3> SUFFICES ASSUME p \in Holding(w)'
                 PROVE  Due(Written(p, w), w)' = Due(row[w], w)
      OBVIOUS
    <3>1. pass'[p].base[w] = row[w]
      BY <1>1, <1>3 DEF Holding, NoRow
    <3>2. Written(p, w)' = row[w]
      BY <1>4, <3>1 DEF Written
    <3> QED
      BY <1>1, <3>2 DEF Due
  <2>2. \A q \in Holding(w)' : q # p => /\ q \in Holding(w)
                                        /\ Due(Written(q, w), w)' = Due(Written(q, w), w)
    BY <1>5, <1>6 DEF Holding
  <2>3. \A q \in Holding(w) : /\ q \in Holding(w)'
                              /\ Due(Written(q, w), w)' = Due(Written(q, w), w)
    BY <1>4, <1>5 DEF Holding
  <2> QED
    BY <1>7, <2>1, <2>2, <2>3 DEF Behind
<1>9. /\ sent[w] \in Nat /\ Causes(w) \in Nat /\ sent[w] <= Causes(w)
      /\ Behind(w) \in {0, 1}
      /\ \A q : AfterSave(q, w)' \in {0, 1}
  BY CountFacts, BehindFacts, CauseCases DEF AfterSave, Due
<1>10. stored'[w] + Cardinality(Owing(w)') <= sent'[w]
  BY <1>1, <1>6 DEF CauseAt
<1>11. CASE UnderWay = {} /\ overlaps' = overlaps
  <2>1. Holding(w) = {}
    BY <1>11 DEF UnderWay, Rested, Holding, NoRow
  <2>2. Waiting(w) = Holding(w)
    BY <2>1 DEF Waiting
  <2>3. sent'[w] + Behind(w)' <= Causes(w)'
    BY <1>1, <1>8, <1>11, <2>2 DEF CauseAt, Causes
  <2>4. ~Several(w)' /\ \A q \in Holding(w)' : ~InHand(q, w)'
    BY <1>4, <1>6, <2>1 DEF Several
  <2> QED
    BY <1>10, <2>3, <2>4 DEF CauseAt
<1>12. CASE overlaps' = overlaps + 1
  <2>1. Causes(w)' = Causes(w) + 2
    BY <1>1, <1>12, ConstantFacts DEF Causes, TypeInv, Types
  <2>2. /\ sent'[w] + Behind(w)' <= Causes(w)'
        /\ \A q : sent'[w] + AfterSave(q, w)' <= Causes(w)'
    BY <1>1, <1>8, <1>9, <2>1
  <2>3. sent'[w] + Cardinality(Waiting(w)') + Behind(w)' <= Causes(w)'
    <3>1. Waiting(w) \in SUBSET Passes /\ Waiting(w)' \in SUBSET Passes
      BY DEF Waiting, Holding
    <3>2. /\ Cardinality(Waiting(w)) \in Nat /\ Cardinality(Waiting(w)') \in Nat
          /\ Cardinality(Waiting(w)') <= Cardinality(Waiting(w)) + 1
          /\ \A q : Waiting(w) \subseteq {q} => Cardinality(Waiting(w)) <= 1
          /\ Waiting(w) = {} => Cardinality(Waiting(w)) = 0
      BY <1>6, <3>1, PassSets
    <3>3. CASE Several(w)
      <4>1. sent[w] + Cardinality(Waiting(w)) + Behind(w) <= Causes(w)
        BY <3>3 DEF CauseAt
      <4> QED
        BY <1>1, <1>8, <1>9, <2>1, <3>2, <4>1
    <3>4. CASE Waiting(w) = {}
      BY <1>1, <1>8, <1>9, <2>1, <3>2, <3>4
    <3>5. CASE ~Several(w) /\ Waiting(w) # {}
      <4>1. PICK q \in Waiting(w) : TRUE
        BY <3>5
      <4>2. Holding(w) = {q} /\ Waiting(w) = {q}
        BY <3>5, <4>1 DEF Several, Waiting
      <4>3. sent[w] + Behind(w) <= Causes(w)
        BY <4>2 DEF CauseAt
      <4>4. Cardinality(Waiting(w)) <= 1
        BY <3>2, <4>2
      <4> QED
        BY <1>1, <1>8, <1>9, <2>1, <3>2, <4>3, <4>4
    <3> QED
      BY <3>3, <3>4, <3>5
  <2> QED
    BY <1>10, <2>2, <2>3 DEF CauseAt
<1> QED
  BY <1>1, <1>11, <1>12

LEMMA CauseNext ==
  TypeInv /\ ToldInv /\ Rested /\ CauseInv /\ [Next]_vars => CauseInv'
<1> SUFFICES ASSUME TypeInv, ToldInv, Rested, CauseInv, [Next]_vars, NEW w \in Watches
             PROVE  CauseAt(w)'
  BY DEF CauseInv
<1>1. CauseAt(w) /\ Causes(w) \in Nat /\ pass \in [Passes -> States]
  BY CountFacts DEF CauseInv, TypeInv, Types
<1>2. ASSUME version'[w] = version[w], row'[w] = row[w], sent'[w] = sent[w],
             stored'[w] = stored[w], pass' = pass, faults' = faults, overlaps' = overlaps
      PROVE  CauseAt(w)'
  <2>1. Causes(w)' = Causes(w) + 0
    BY <1>1, <1>2 DEF Causes
  <2> QED
    BY <1>1, <1>2, <2>1, CauseSame
<1>3. ASSUME NEW v \in Watches, Change(v) \/ AddWatch(v) \/ RemoveWatch(v)
      PROVE  CauseAt(w)'
  <2>1. CASE v = w
    BY <1>1, <1>3, <2>1, CauseUser
  <2>2. CASE v # w
    <3>1. CASE Change(v)
      BY <1>2, <2>2, <3>1 DEF Change, ghosts, TypeInv, Types
    <3>2. CASE AddWatch(v)
      <4>1. \E r : row' = [row EXCEPT ![v] = r]
        BY <3>2 DEF AddWatch
      <4> QED
        BY <1>2, <2>2, <3>2, <4>1 DEF AddWatch, TypeInv, Types
    <3>3. CASE RemoveWatch(v)
      BY <1>2, <2>2, <3>3 DEF RemoveWatch, TypeInv, Types
    <3> QED
      BY <1>3, <3>1, <3>2, <3>3
  <2> QED
    BY <2>1, <2>2
<1>4. ASSUME NEW p \in Passes, NEW v \in Watches, v # w, Check(p, v)
      PROVE  CauseAt(w)'
  <2>1. PICK scan : pass' = [pass EXCEPT ![p].at = "save", ![p].watch = v, ![p].scan = scan]
    BY <1>4 DEF Check
  <2>2. /\ pass'[p].base = pass[p].base /\ pass'[p].watch = v /\ pass[p].at = "next"
        /\ \A q \in Passes \ {p} : pass'[q] = pass[q]
    BY <1>1, <1>4, <2>1 DEF States, Check
  <2>3. ~InHand(p, w) /\ ~InHand(p, w)'
    BY <1>4, <2>2 DEF InHand
  <2>4. /\ version' = version /\ row' = row /\ stored' = stored /\ sent'[w] = sent[w]
        /\ overlaps' = overlaps
        /\ faults' = faults \/ faults' = faults + 1
    BY <1>4 DEF Check, Fault, TypeInv, Types
  <2>5. \E n \in Nat : Causes(w)' = Causes(w) + n
    <3>1. Causes(w)' = Causes(w) + 0 \/ Causes(w)' = Causes(w) + 1
      BY <1>1, <2>4, ConstantFacts DEF Causes, TypeInv, Types
    <3> QED
      BY <3>1
  <2> QED
    BY <1>1, <2>2, <2>3, <2>4, <2>5, CauseSame
<1>5. ASSUME NEW p \in Passes, NEW v \in Watches, ScanFail(p, v)
      PROVE  CauseAt(w)'
  <2>1. /\ version' = version /\ row' = row /\ stored' = stored /\ sent' = sent
        /\ Causes(w)' = Causes(w) + 1 /\ pass[p].at = "next"
    BY <1>1, <1>5, ConstantFacts DEF ScanFail, ghosts, Fault, Causes, TypeInv, Types
  <2>2. /\ pass'[p].at = "next" /\ \A q \in Passes \ {p} : pass'[q] = pass[q]
        /\ pass'[p].base[w] = IF w = v THEN NoRow ELSE pass[p].base[w]
    BY <1>1, <1>5, DoneFacts DEF ScanFail
  <2>3. ~InHand(p, w) /\ ~InHand(p, w)'
    BY <2>1, <2>2 DEF InHand
  <2>4. CASE v = w
    <3>1. p \notin Holding(w)'
      BY <2>2, <2>4 DEF Holding, NoRow
    <3> QED
      BY <1>1, <2>1, <2>2, <2>3, <3>1, CauseLetGo
  <2>5. CASE v # w
    BY <1>1, <2>1, <2>2, <2>3, <2>5, CauseSame
  <2> QED
    BY <2>4, <2>5
<1>6. ASSUME NEW p \in Passes, pass' = [pass EXCEPT ![p] = Idle],
             version' = version, row' = row, stored' = stored, sent' = sent,
             \/ Causes(w)' = Causes(w) + 1
             \/ Causes(w)' = Causes(w) /\ (InHand(p, w) => Spoilt(w, Message(p)))
      PROVE  CauseAt(w)'
  <2>1. pass'[p] = Idle /\ \A q \in Passes \ {p} : pass'[q] = pass[q]
    BY <1>1, <1>6
  <2>2. p \notin Holding(w)' /\ ~InHand(p, w)'
    BY <2>1 DEF Holding, InHand, Idle, NoRow
  <2> QED
    BY <1>1, <1>6, <2>1, <2>2, CauseLetGo
<1>7. ASSUME NEW p \in Passes, Save(p)
      PROVE  CauseAt(w)'
  <2> DEFINE v == pass[p].watch
  <2>1. /\ v \in Watches /\ faults' = faults /\ sent' = sent /\ version' = version
        /\ pass[p].at = "save" /\ Causes(w)' = Causes(w)
    BY <1>7 DEF Save, Abort, ghosts, Causes, TypeInv, Saving
  <2>2. CASE Spoilt(v, Message(p))
    <3>1. pass' = [pass EXCEPT ![p] = Idle] /\ row' = row /\ stored' = stored
      BY <1>7, <2>2 DEF Save, Abort, ghosts
    <3>2. InHand(p, w) => Spoilt(w, Message(p))
      BY <2>2 DEF InHand
    <3> QED
      BY <1>6, <2>1, <3>1, <3>2
  <2>3. CASE ~Spoilt(v, Message(p))
    <3>1. pass' = Done(p, v) /\ (Commit(p) \/ Discard(p))
      BY <1>7, <2>3 DEF Save
    <3>2. /\ pass'[p].at = "next" /\ \A q \in Passes \ {p} : pass'[q] = pass[q]
          /\ pass'[p].base[w] = IF w = v THEN NoRow ELSE pass[p].base[w]
      BY <1>1, <2>1, <3>1, DoneFacts
    <3>3. ~InHand(p, w)'
      BY <3>2 DEF InHand
    <3>4. CASE v = w /\ Commit(p)
      BY <1>1, <1>7, <2>3, <3>4, CauseCommit
    <3>5. CASE v = w /\ Discard(p)
      <4>1. row' = row /\ stored' = stored /\ ~InHand(p, w)
        BY <3>5 DEF Discard, InHand
      <4>2. p \notin Holding(w)'
        BY <3>2, <3>5 DEF Holding, NoRow
      <4> QED
        BY <1>1, <2>1, <3>2, <3>3, <4>1, <4>2, CauseLetGo
    <3>6. CASE v # w
      <4>1. row'[w] = row[w] /\ stored'[w] = stored[w] /\ ~InHand(p, w)
        BY <2>1, <3>1, <3>6 DEF Commit, Discard, InHand, TypeInv, Types
      <4>2. Causes(w)' = Causes(w) + 0
        BY <1>1, <2>1
      <4> QED
        BY <1>1, <2>1, <3>2, <3>3, <3>6, <4>1, <4>2, CauseSame
    <3> QED
      BY <3>1, <3>4, <3>5, <3>6
  <2> QED
    BY <2>2, <2>3
<1>8. ASSUME NEW p \in Passes, End(p)
      PROVE  CauseAt(w)'
  BY <1>6, <1>8 DEF End, InHand, Causes, ghosts
<1>9. ASSUME NEW p \in Passes, Crash(p)
      PROVE  CauseAt(w)'
  <2>1. /\ pass' = [pass EXCEPT ![p] = Idle] /\ version' = version /\ row' = row
        /\ stored' = stored /\ sent' = sent /\ Causes(w)' = Causes(w) + 1
    BY <1>1, <1>9, ConstantFacts DEF Crash, Abort, Fault, ghosts, Causes, TypeInv, Types
  <2> QED
    BY <1>6, <2>1
<1>10. CASE UNCHANGED vars
  BY <1>2, <1>10 DEF vars
<1>11. ASSUME NEW p \in Passes, NEW v \in Watches, Check(p, v)
       PROVE  CauseAt(w)'
  BY <1>1, <1>4, <1>11, CauseCheck
<1>12. ASSUME NEW p \in Passes, Begin(p)
       PROVE  CauseAt(w)'
  BY <1>1, <1>12, CauseBegin
<1> QED
  BY <1>3, <1>5, <1>7, <1>8, <1>9, <1>10, <1>11, <1>12 DEF Next, PassStep

\* For any watches, tools, faults and passes side by side: a change is posted
\* at most once, once more for each fault and twice more for each pass that
\* begins beside another, and what is stored was posted.
THEOREM AlertsHaveCauseHolds == Spec => []AlertsHaveCause
<1>1. Init => Rested /\ CauseInv
  <2> SUFFICES ASSUME Init
               PROVE  Rested /\ CauseInv
    OBVIOUS
  <2>1. Rested
    BY DEF Init, Idle, Rested
  <2>2. ASSUME NEW w \in Watches
        PROVE  CauseAt(w)
    <3>1. Holding(w) = {} /\ Owing(w) = {}
      BY DEF Init, NoRow, Idle, Holding, Owing, InHand
    <3>2. Waiting(w) = {} /\ ~Several(w) /\ Cardinality(Owing(w)) = 0
      BY <3>1, FS_EmptySet DEF Waiting, Several
    <3>3. /\ row[w] = NoRow /\ NoRow.score = None /\ NoRow.digest = None
          /\ sent[w] = 0 /\ stored[w] = 0 /\ Causes(w) = 0
      BY DEF Init, NoRow, Causes
    <3>4. ~Dropped(NoRow, Facts[w][version[w]]) /\ ~Drift(None, Facts[w][version[w]].digest)
      BY <3>3 DEF Dropped, Drift
    <3>5. Due(row[w], w) = 0
      BY <3>3, <3>4 DEF Due, Alerts
    <3>6. Behind(w) = 0
      BY <3>1, <3>5 DEF Behind
    <3> QED
      BY <3>1, <3>2, <3>3, <3>6 DEF CauseAt
  <2> QED
    BY <2>1, <2>2 DEF CauseInv
<1>2. TypeInv /\ CauseInv => AlertsHaveCause
  <2> SUFFICES ASSUME TypeInv, CauseInv, NEW w \in Watches
               PROVE  /\ stored[w] <= sent[w]
                      /\ sent[w] <= (version[w] - 1) + faults + 2 * overlaps
    BY DEF AlertsHaveCause
  <2>1. CauseAt(w) /\ sent[w] <= Causes(w)
    BY CauseCases DEF CauseInv
  <2>2. Owing(w) \in SUBSET Passes
    BY DEF Owing
  <2>3. Cardinality(Owing(w)) \in Nat
    BY <2>2, PassSets
  <2>4. stored[w] <= sent[w]
    BY <2>1, <2>3, CountFacts DEF CauseAt
  <2> QED
    BY <2>1, <2>4 DEF Causes
<1>3. Init => TypeInv /\ ToldInv
  BY InitType, ToldInit
<1>4. TypeInv /\ ToldInv /\ Rested /\ CauseInv /\ [Next]_vars
        => TypeInv' /\ ToldInv' /\ Rested' /\ CauseInv'
  BY TypeNext, ToldNext, RestedNext, CauseNext
<1> QED
  BY <1>1, <1>2, <1>3, <1>4, PTL DEF Spec
=============================================================================
