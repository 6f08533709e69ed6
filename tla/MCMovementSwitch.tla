-------------------------- MODULE MCMovementSwitch --------------------------
(* TLC instance of MovementSwitch. *)
EXTENDS MovementSwitch, TLC

\* Leads are interchangeable, and so are webhooks and operators.
Symmetry == Permutations(Leads) \cup Permutations(Hooks) \cup Permutations(Operators)
=============================================================================
