----------------------------- MODULE MoveBudget -----------------------------
(***************************************************************************)
(* What the daily movement slots promise, without slots: on each day a     *)
(* mover takes a share of the day's budget before it moves a lead, at most *)
(* Cap shares are out at any time, and a share comes back either because   *)
(* the lead did not move or as a leak, which is on record.  Hence at most  *)
(* Cap leads move in a day, and one more for each of its leaks.            *)
(***************************************************************************)
EXTENDS Naturals, FiniteSets

CONSTANTS Days, Attempts, Cap

VARIABLES held,    \* day -> attempts that hold a share
          moved,   \* day -> attempts that moved their lead
          leaked   \* attempts whose share came back although their lead moved

vars == <<held, moved, leaked>>

Init ==
  /\ held = [d \in Days |-> {}]
  /\ moved = [d \in Days |-> {}]
  /\ leaked = {}

Take(d, a) ==
  /\ a \notin held[d]
  /\ Cardinality(held[d]) < Cap
  /\ held' = [held EXCEPT ![d] = @ \cup {a}]
  /\ UNCHANGED <<moved, leaked>>

GiveBack(d, a) ==
  /\ a \in held[d] \ moved[d]
  /\ held' = [held EXCEPT ![d] = @ \ {a}]
  /\ UNCHANGED <<moved, leaked>>

Leak(d, a) ==
  /\ a \in held[d] \cap moved[d]
  /\ held' = [held EXCEPT ![d] = @ \ {a}]
  /\ leaked' = leaked \cup {a}
  /\ UNCHANGED moved

Move(d, a) ==
  /\ a \in held[d]
  /\ moved' = [moved EXCEPT ![d] = @ \cup {a}]
  /\ UNCHANGED <<held, leaked>>

Next ==
  \E d \in Days, a \in Attempts :
    Take(d, a) \/ GiveBack(d, a) \/ Leak(d, a) \/ Move(d, a)

Spec == Init /\ [][Next]_vars
=============================================================================
