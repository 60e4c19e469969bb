---------------------------- MODULE MCWatchRescan ---------------------------
(***************************************************************************)
(* WatchRescan on one watched tool.  It scores better while it shows no    *)
(* definitions, then worse with other definitions; its sandbox finds one   *)
(* thing, then another, then nothing.                                      *)
(***************************************************************************)
EXTENDS WatchRescan, TLC

CONSTANTS a, p, q, d1, d2, x, y

Lengths == [w \in Watches |-> 3]

Found(f) == [k \in Parts |-> f]

History ==
  [w \in Watches |->
     << [score |-> 80, digest |-> d1, icon |-> d1, fp |-> Found({x})],
        [score |-> 90, digest |-> None, icon |-> d1, fp |-> Found({y})],
        [score |-> 70, digest |-> d2, icon |-> d2, fp |-> Found({})] >>]
=============================================================================
