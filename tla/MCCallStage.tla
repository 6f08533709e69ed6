----------------------------- MODULE MCCallStage -----------------------------
(* TLC instance of CallStage: two calls of one deal and one of another. *)
EXTENDS CallStage, TLC

CONSTANTS c1, c2, c3, d1, d2

MCDealOf == c1 :> d1 @@ c2 :> d1 @@ c3 :> d2
MCEndedAt == c1 :> 1 @@ c2 :> 2 @@ c3 :> 1
MCRequiredFor == [t \in Targets |-> {}]

Symmetry == Permutations(Runs)
=============================================================================
