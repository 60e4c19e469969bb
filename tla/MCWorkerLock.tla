---------------------------- MODULE MCWorkerLock ----------------------------
(***************************************************************************)
(* WorkerLock with a tick of about six seconds: the scheduler's lock lasts *)
(* 60 s and is renewed every 45 s, so that no renewal may fail; a task's   *)
(* lasts 60 s, is renewed every 20 s and asked for again after 30 s.       *)
(***************************************************************************)
EXTENDS WorkerLock, TLC

CONSTANTS u, v, w

Interchangeable == Permutations(Workers)

RefreshEvery == [k \in Kinds |-> IF k = "scheduler" THEN 7 ELSE 3]
MissedAtMost == [k \in Kinds |-> IF k = "scheduler" THEN 0 ELSE 1]
=============================================================================
