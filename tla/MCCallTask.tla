----------------------------- MODULE MCCallTask ------------------------------
(* TLC instance of CallTask: hour 30 is six in the morning of day 1. *)
EXTENDS CallTask, TLC

MCSetups ==
  {[lead |-> l, call |-> c, now |-> 30, boundary |-> b] :
     l \in {20, 21}, c \in {19, 20}, b \in {19, 20}}

MCHints ==
  {[kind |-> "exact", at |-> 31], [kind |-> "exact", at |-> 30],
   [kind |-> "date", at |-> 1], [kind |-> "date", at |-> 0],
   [kind |-> "tomorrow", at |-> 0], [kind |-> "none", at |-> 0]}

Symmetry == Permutations(Runs) \cup Permutations(Reviewers)
=============================================================================
