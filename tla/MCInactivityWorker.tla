------------------------- MODULE MCInactivityWorker -------------------------
(* TLC instance of InactivityWorker. *)
EXTENDS InactivityWorker, TLC

\* One lead and one failure.
MCOneFault ==
  {[mode |-> "capped", leads |-> {l}, limit |-> 1, touches |-> 1, faults |-> 1] : l \in Leads}

\* One lead that is touched again.
MCTouched == {[x EXCEPT !.touches = 2, !.faults = 0] : x \in MCOneFault}

\* Two leads: for one slot of a capped day, and for two testing slots.
MCTwoLeads ==
  {[mode |-> "capped", leads |-> Leads, limit |-> 1, touches |-> 1, faults |-> 0],
   [mode |-> "testing", leads |-> Leads, limit |-> 2, touches |-> 1, faults |-> 0]}

\* One lead in testing, with a second slot, when a statement or request fails.
MCTestingFault ==
  {[mode |-> "testing", leads |-> {l}, limit |-> 2, touches |-> 1, faults |-> 1] : l \in Leads}

MCSetups == MCOneFault \cup MCTouched \cup MCTwoLeads \cup MCTestingFault

\* Passes are interchangeable, and so are leads.
Symmetry == Permutations(Passes) \cup Permutations(Leads)
=============================================================================
