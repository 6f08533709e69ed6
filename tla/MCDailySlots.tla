---------------------------- MODULE MCDailySlots ----------------------------
(* TLC instance of DailySlots: two limits deployed in turn.                *)
EXTENDS DailySlots

MCTwoLimits == {1, 2}
=============================================================================
