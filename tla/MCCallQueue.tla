---------------------------- MODULE MCCallQueue -----------------------------
(* Two deliveries, with as many failures as a job has attempts; a delivery *)
(* and the history job; the history job and a press of analyze_deal; all   *)
(* three without faults.                                                   *)
EXTENDS CallQueue

CONSTANTS d1, d2, h, m

MCAttempts == [j \in Jobs |-> 2]

MCSetups ==
  {[jobs |-> {d1, d2}, syncs |-> 0, faults |-> 2],
   [jobs |-> {d1}, syncs |-> 2, faults |-> 1],
   [jobs |-> {m}, syncs |-> 1, faults |-> 1],
   [jobs |-> {d1, m}, syncs |-> 1, faults |-> 0]}
=============================================================================
