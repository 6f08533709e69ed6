--------------------------- MODULE MCWatchLedger ----------------------------
(* TLC instance of WatchLedger.  No symmetry: the run checks liveness. *)
EXTENDS WatchLedger

MCStamps == 1..2
=============================================================================
