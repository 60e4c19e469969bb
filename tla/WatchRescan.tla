----------------------------- MODULE WatchRescan ----------------------------
(***************************************************************************)
(* The daily re-scan of watched tools (_run_watch_rescan of                *)
(* jobs/scheduler.py) beside the users who add and remove watches          *)
(* (api/watch_router.py) and the operator's hold on score alerts           *)
(* (jobs/watch_alert_hold.py).                                             *)
(*                                                                         *)
(* A pass reads all watches once, then scans them one after the other,     *)
(* compares each scan with the baseline it READ, tells the watcher, and    *)
(* commits the new baseline with the in-app notification in one            *)
(* transaction; webhook and email are out before that commit.  Only the    *)
(* scheduler's lock keeps two passes apart (WorkerLock): a pass that       *)
(* begins beside another is counted in overlaps.                           *)
(***************************************************************************)
EXTENDS Integers, FiniteSets

CONSTANTS Watches,      \* (watcher, target) pairs
          Passes,       \* passes that may be under way at once
          Facts,        \* watch -> what a scan finds of each version of the tool
          MaxVersion,   \* watch -> bound: versions of the tool
          Digests,      \* definition digests and icon fingerprints
          Parts,        \* risk components of a sandbox fingerprint: r, u, c
          Findings,     \* members of a component
          None,         \* a column that is NULL
          Margin,       \* score changes up to here are not told
          Limit,        \* watches a pass reads
          LongNames,    \* watches whose owner/repo does not fit a notification
          MaxAdds,      \* bound: times a watch is added
          MaxFaults,    \* bound: scans and commits that fail, crashes
          MaxOverlaps   \* bound: passes begun while another is under way

Prints == [Parts -> SUBSET Findings]
Scans == [score : Nat, digest : Digests \cup {None}, icon : Digests \cup {None},
          fp : Prints \cup {None}]

ASSUME WatchAssumption ==
  /\ IsFiniteSet(Watches) /\ IsFiniteSet(Findings) /\ IsFiniteSet(Passes)
  /\ LongNames \subseteq Watches
  /\ {Margin, Limit, MaxAdds, MaxFaults, MaxOverlaps} \subseteq Nat
  /\ MaxVersion \in [Watches -> Nat \ {0}]
  /\ \A w \in Watches : \A v \in 1 .. MaxVersion[w] : Facts[w][v] \in Scans
  /\ None \notin Digests /\ None \notin Prints /\ None \notin Nat /\ None \notin Watches

VARIABLES version,    \* watch -> version its tool is at
          row,        \* watch -> its ToolWatch row: id and baselines
          adds,       \* watch -> times it was added
          pass,       \* pass -> its local state
          last,       \* watch -> last digest that a committed check found
          stored,     \* watch -> drop and drift alerts committed since it was added
          sent,       \* watch -> those posted to webhook and email
          faults, overlaps

vars == <<version, row, adds, pass, last, stored, sent, faults, overlaps>>
ghosts == <<last, stored, sent>>

Rows == [id : 0 .. MaxAdds, score : Nat \cup {None}, digest : Digests \cup {None},
         icon : Digests \cup {None}, fp : Prints \cup {None}]

\* A watch that is not there.
NoRow == [id |-> 0, score |-> None, digest |-> None, icon |-> None, fp |-> None]
Listed == {w \in Watches : row[w].id > 0}

\* A pass: the rows it read and has not dealt with, and the scan in hand.
NoScan == [score |-> 0, digest |-> None, icon |-> None, fp |-> None]
Idle == [at |-> "idle", base |-> [w \in Watches |-> NoRow], held |-> FALSE,
         watch |-> None, scan |-> NoScan]

Init ==
  /\ version = [w \in Watches |-> 1]
  /\ row = [w \in Watches |-> NoRow]
  /\ adds = [w \in Watches |-> 0]
  /\ pass = [p \in Passes |-> Idle]
  /\ last = [w \in Watches |-> None]
  /\ stored = [w \in Watches |-> 0]
  /\ sent = [w \in Watches |-> 0]
  /\ faults = 0
  /\ overlaps = 0

Fault == faults < MaxFaults /\ faults' = faults + 1

-----------------------------------------------------------------------------
(* The comparison                                                          *)

\* _watch_digest_state: what was not observed is no drift ...
Drift(old, new) == old # None /\ new # None /\ new # old

\* Mutant of Kept: a scan without definitions erases the baseline.
KeptOnlyNew(old, new) == new

\* ... and keeps the baseline.
Kept(old, new) == IF new = None THEN old ELSE new

\* _behavioral_change: the digests of a part differ, and its count tells
\* whether it shrank.
Grew(old, new) ==
  \E k \in Parts : new[k] # old[k] /\ Cardinality(new[k]) >= Cardinality(old[k])
Shrank(old, new) ==
  \E k \in Parts : new[k] # old[k] /\ Cardinality(new[k]) < Cardinality(old[k])
Known(old, new) == old # None /\ new # None

Dropped(base, scan) == base.score # None /\ scan.score < base.score - Margin
Improved(base, scan) == base.score # None /\ scan.score > base.score + Margin

\* What the watcher is told: one message of drop, drift or improvement, and
\* the sandbox's and the icon's of their own.
Alerts(base, scan, held) ==
  IF ~held /\ Dropped(base, scan) THEN {"drop"}
  ELSE IF Drift(base.digest, scan.digest) THEN {"drift"} ELSE {}

\* Mutant of Said: any change of the sandbox's findings is an alert.
SaidAnyChange(base, scan, held) ==
  Alerts(base, scan, held)
    \cup {m \in {"behavior"} : Known(base.fp, scan.fp) /\ base.fp # scan.fp}

Said(base, scan, held) ==
  Alerts(base, scan, held)
    \cup {m \in {"improved"} : /\ ~held /\ Improved(base, scan)
                               /\ Alerts(base, scan, held) = {}}
    \cup {m \in {"behavior"} : Known(base.fp, scan.fp) /\ Grew(base.fp, scan.fp)}
    \cup {m \in {"better"} : /\ Known(base.fp, scan.fp)
                             /\ ~Grew(base.fp, scan.fp) /\ Shrank(base.fp, scan.fp)}
    \cup {m \in {"icon"} : Drift(base.icon, scan.icon)}

\* Mutant of Baseline: the score of the first scan stays.
BaselineOldScore(base, scan) ==
  [base EXCEPT !.digest = Kept(base.digest, scan.digest),
               !.fp = Kept(base.fp, scan.fp),
               !.icon = Kept(base.icon, scan.icon)]

Baseline(base, scan) ==
  [base EXCEPT !.score = scan.score,
               !.digest = Kept(base.digest, scan.digest),
               !.fp = Kept(base.fp, scan.fp),
               !.icon = Kept(base.icon, scan.icon)]

-----------------------------------------------------------------------------
(* The tools, the users and the operator                                   *)

Change(w) ==
  /\ version[w] < MaxVersion[w]
  /\ version' = [version EXCEPT ![w] = version[w] + 1]
  /\ UNCHANGED <<row, adds, pass, ghosts, faults, overlaps>>

\* add_watch scans first and inserts later, so the baseline may be of an
\* older version; a scan that failed, and a watch that comes with a claim,
\* leave the baseline empty.  A watch that exists is returned as it is.
AddWatch(w) ==
  /\ w \notin Listed
  /\ adds[w] < MaxAdds
  /\ adds' = [adds EXCEPT ![w] = adds[w] + 1]
  /\ \E f \in {Facts[w][v] : v \in 1 .. version[w]}
           \cup {[score |-> None, digest |-> None, icon |-> None]} :
       /\ row' = [row EXCEPT ![w] = [id |-> adds[w] + 1, score |-> f.score,
                                    digest |-> f.digest, icon |-> f.icon, fp |-> None]]
       /\ last' = [last EXCEPT ![w] = f.digest]
  /\ stored' = [stored EXCEPT ![w] = 0]
  /\ sent' = [sent EXCEPT ![w] = 0]
  /\ UNCHANGED <<version, pass, faults, overlaps>>

RemoveWatch(w) ==
  /\ w \in Listed
  /\ row' = [row EXCEPT ![w] = NoRow]
  /\ last' = [last EXCEPT ![w] = None]
  /\ UNCHANGED <<version, adds, pass, stored, sent, faults, overlaps>>

-----------------------------------------------------------------------------
(* A pass                                                                  *)

UnderWay == {p \in Passes : pass[p].at # "idle"}

\* Mutant of Begin: a held pass reads no watches.
BeginUnlessHeld(p) ==
  /\ p \notin UnderWay
  /\ IF UnderWay = {} THEN overlaps' = overlaps
     ELSE overlaps < MaxOverlaps /\ overlaps' = overlaps + 1
  /\ \E held \in BOOLEAN :
       LET S == IF held THEN {} ELSE Listed
       IN  pass' = [pass EXCEPT ![p] =
                     [Idle EXCEPT !.at = "next", !.held = held,
                                  !.base = [w \in Watches |-> IF w \in S THEN row[w] ELSE NoRow]]]
  /\ UNCHANGED <<version, row, adds, ghosts, faults>>

\* SELECT ... LIMIT, in no order, then the hold: once each, for the whole
\* pass.  The operator sets and clears the hold at any time, its key expires,
\* and one that cannot be read is taken as clear: either may be found.
Begin(p) ==
  /\ p \notin UnderWay
  /\ IF UnderWay = {} THEN overlaps' = overlaps
     ELSE overlaps < MaxOverlaps /\ overlaps' = overlaps + 1
  /\ \E S \in SUBSET Listed, held \in BOOLEAN :
       /\ IF Cardinality(Listed) <= Limit THEN S = Listed ELSE Cardinality(S) = Limit
       /\ pass' = [pass EXCEPT ![p] =
                     [Idle EXCEPT !.at = "next", !.held = held,
                                  !.base = [w \in Watches |-> IF w \in S THEN row[w] ELSE NoRow]]]
  /\ UNCHANGED <<version, row, adds, ghosts, faults>>

Todo(p) == {w \in Watches : pass[p].base[w].id > 0}

\* The next watch, whatever becomes of this one.
Done(p, w) == [pass EXCEPT ![p].at = "next", ![p].base[w] = NoRow,
                           ![p].watch = None, ![p].scan = NoScan]

\* Mutant of ScanFail: a scan without a score is compared like any other.
ScanFailCompared(p, w) ==
  /\ pass[p].at = "next"
  /\ w \in Todo(p)
  /\ Fault
  /\ pass' = [pass EXCEPT ![p].at = "save", ![p].watch = w,
                         ![p].scan = [NoScan EXCEPT !.score = None]]
  /\ UNCHANGED <<version, row, adds, ghosts, overlaps>>

\* The scan fails: the watch is left for the next pass.
ScanFail(p, w) ==
  /\ pass[p].at = "next"
  /\ w \in Todo(p)
  /\ Fault
  /\ pass' = Done(p, w)
  /\ UNCHANGED <<version, row, adds, ghosts, overlaps>>

\* What a scan may find: the cached sandbox block may be missing, or of an
\* older version; a server that fails to list its tools shows no digest.
Blocks(w) == {None} \cup {Facts[w][v].fp : v \in 1 .. version[w]}

\* A notification that does not fit its column fails at the flush.  The error
\* is caught, but the session is lost: nothing after it is read or posted.
Spoilt(w, said) == w \in LongNames /\ said # {}

Alerting(said) == said \cap {"drop", "drift"} # {}

\* Scan, compare, draft the notifications and post to webhook and email.
Check(p, w) ==
  /\ pass[p].at = "next"
  /\ w \in Todo(p)
  /\ \E block \in Blocks(w), shown \in BOOLEAN :
       LET f == Facts[w][version[w]]
           scan == [f EXCEPT !.fp = block, !.digest = IF shown THEN @ ELSE None]
           said == Said(pass[p].base[w], scan, pass[p].held)
       IN  /\ \/ shown /\ UNCHANGED faults
              \/ ~shown /\ f.digest # None /\ Fault
           /\ pass' = [pass EXCEPT ![p].at = "save", ![p].watch = w, ![p].scan = scan]
           /\ sent' = [sent EXCEPT ![w] = sent[w] +
                        IF Alerting(said) /\ ~Spoilt(w, said) /\ row[w].id = pass[p].base[w].id
                        THEN 1 ELSE 0]
  /\ UNCHANGED <<version, row, adds, last, stored, overlaps>>

\* What a pass in "save" has said.
Message(p) ==
  Said(pass[p].base[pass[p].watch], pass[p].scan, pass[p].held)

\* The row is read again by its id and takes the new baseline; the
\* notifications are committed with it.
Commit(p) ==
  LET w == pass[p].watch
      base == pass[p].base[w]
  IN  /\ row[w].id = base.id
      /\ row' = [row EXCEPT ![w] = Baseline(base, pass[p].scan)]
      /\ last' = [last EXCEPT ![w] = Kept(last[w], pass[p].scan.digest)]
      /\ stored' = [stored EXCEPT ![w] = stored[w] + IF Alerting(Message(p)) THEN 1 ELSE 0]

\* The watch was removed meanwhile: no commit, and the notifications go too.
Discard(p) ==
  /\ row[pass[p].watch].id # pass[p].base[pass[p].watch].id
  /\ UNCHANGED <<row, last, stored>>

\* An error that leaves the loop ends the pass, and the next one is a day off.
Abort(p) ==
  /\ pass' = [pass EXCEPT ![p] = Idle]
  /\ UNCHANGED <<version, row, adds, ghosts, overlaps>>

Save(p) ==
  /\ pass[p].at = "save"
  /\ IF Spoilt(pass[p].watch, Message(p))
     THEN Abort(p)
     ELSE /\ Commit(p) \/ Discard(p)
          /\ pass' = Done(p, pass[p].watch)
          /\ UNCHANGED <<version, adds, sent, overlaps>>
  /\ UNCHANGED faults

\* The commit fails, or the process ends, at any point of the pass.
Crash(p) ==
  /\ p \in UnderWay
  /\ Fault
  /\ Abort(p)

End(p) ==
  /\ pass[p].at = "next"
  /\ Todo(p) = {}
  /\ pass' = [pass EXCEPT ![p] = Idle]
  /\ UNCHANGED <<version, row, adds, ghosts, faults, overlaps>>

PassStep(p) ==
  \/ \E w \in Watches : Check(p, w)
  \/ Save(p) \/ End(p)

Next ==
  \/ \E w \in Watches : Change(w) \/ AddWatch(w) \/ RemoveWatch(w)
  \/ \E p \in Passes : \/ Begin(p) \/ PassStep(p) \/ Crash(p)
                       \/ \E w \in Watches : ScanFail(p, w)

Spec == Init /\ [][Next]_vars

\* A worker runs the loop: a pass begins every day and goes on.
Fairness ==
  /\ WF_vars(UnderWay = {} /\ \E p \in Passes : Begin(p))
  /\ \A p \in Passes : WF_vars(PassStep(p))

FairSpec == Spec /\ Fairness

-----------------------------------------------------------------------------
(* Properties                                                              *)

\* Every row, pass and counter has its type: ids are those handed out, and a
\* pass only holds rows it read.
TypeOK ==
  /\ version \in [Watches -> Nat] /\ \A w \in Watches : version[w] \in 1 .. MaxVersion[w]
  /\ row \in [Watches -> Rows]
  /\ adds \in [Watches -> 0 .. MaxAdds]
  /\ pass \in [Passes -> [at : {"idle", "next", "save"}, base : [Watches -> Rows],
                         held : BOOLEAN, watch : Watches \cup {None}, scan : Scans]]
  /\ last \in [Watches -> Digests \cup {None}]
  /\ stored \in [Watches -> Nat]
  /\ sent \in [Watches -> Nat]
  /\ faults \in 0 .. MaxFaults
  /\ overlaps \in 0 .. MaxOverlaps

\* _behavioral_change's docstring: an alert means that "something appeared that
\* was not there before", although the loop only compares digests and counts.
BehaviorAlertMeansNew ==
  \A p \in Passes :
    pass[p].at = "save" /\ "behavior" \in Message(p)
      => LET old == pass[p].base[pass[p].watch].fp
             new == pass[p].scan.fp
         IN  \E k \in Parts : \E x \in new[k] : x \notin old[k]

\* Nobody is alerted twice of one change: since a watch was added there are no
\* more alerts, posted or committed, than versions; each fault adds one at
\* most, and a pass that overlaps another adds its own and, through the old
\* baseline it may write back, one later.
AlertsHaveCause ==
  \A w \in Watches :
    /\ stored[w] <= sent[w]
    /\ sent[w] <= (version[w] - 1) + faults + 2 * overlaps

\* A changed definition is never absorbed silently: when a committed check
\* finds another definition than the last one known, across failed scans,
\* scans without definitions, holds, crashes and faults in between, the same
\* commit stores an alert.  (Passes that overlap are excepted.)
ToldOfEveryChange ==
  [][\A w \in Watches :
       row[w].id > 0 /\ row'[w].id = row[w].id
         /\ last[w] # None /\ last'[w] # last[w] /\ overlaps = 0
       => stored'[w] = stored[w] + 1]_vars

\* README: "a background re-scan job compares each watched tool's new score
\* and signed definition digest against the last, and fires an HMAC-signed
\* webhook alert when either changes".  A definition that differs from the
\* stored one is found sooner or later, unless it or the watch goes.
Outdated(w) ==
  /\ w \in Listed
  /\ Drift(row[w].digest, Facts[w][version[w]].digest)

ChangeNoticed == \A w \in Watches : Outdated(w) ~> ~Outdated(w)
=============================================================================
