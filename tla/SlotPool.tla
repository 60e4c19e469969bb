------------------------------ MODULE SlotPool ------------------------------
(***************************************************************************)
(* What the sandbox slots promise their users (the header of               *)
(* src/scanner/behavioral/slots.py): at most Limit sandbox runs hold a     *)
(* slot at once, and a low priority run is let in only while one slot      *)
(* would still be free after it, so that low priority work (re-score,      *)
(* backfill) can never occupy the whole sandbox.                           *)
(*                                                                         *)
(* SandboxSlots implements this with a Redis sorted set of leases, and     *)
(* SandboxTier is built on it.                                             *)
(***************************************************************************)
EXTENDS Naturals, FiniteSets

CONSTANTS
  Runs,     \* a finite set of run ids (the uuid of a lease)
  LowRuns,  \* the runs started with priority "low"
  Limit     \* settings.scanner_behavioral_max_concurrent, at least 1

VARIABLE holders  \* the runs that hold a slot

TypeOK == holders \in SUBSET Runs

\* A mutant of FreeAfter: the priority is lost on the way.
NoneFree(r) == 0

\* acquire_slot's free_after: the slots that must stay free after this run.
FreeAfter(r) == IF r \in LowRuns THEN 1 ELSE 0

Init == holders = {}

HasRoom(r) == Cardinality(holders) + 1 + FreeAfter(r) <= Limit

Grant(r) ==
  /\ r \notin holders
  /\ HasRoom(r)
  /\ holders' = holders \cup {r}

\* The run ends, gives its slot back, or dies.
Leave(r) ==
  /\ r \in holders
  /\ holders' = holders \ {r}

Next == \E r \in Runs : Grant(r) \/ Leave(r)

Spec == Init /\ [][Next]_holders
=============================================================================
