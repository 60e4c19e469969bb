---------------------------- MODULE MCScanRefresh ---------------------------
(***************************************************************************)
(* ScanRefresh in one worker.                                              *)
(***************************************************************************)
EXTENDS ScanRefresh

CONSTANTS c, q, u

Homes == [p \in Scanners |-> u]
=============================================================================
