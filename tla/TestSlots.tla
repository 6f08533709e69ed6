----------------------------- MODULE TestSlots -----------------------------
(***************************************************************************)
(* The test slots of the two call automations (callTaskAutomationStore.ts, *)
(* callStageAutomationStore.ts): numbered rows, reserved for the lead of   *)
(* one action with a lease, then confirmed, freed again or spent.  The two *)
(* stores follow one protocol; the stage store has two batches of rows,    *)
(* and publishes the second with the boundary that opens it.  A            *)
(* reservation is one serializable transaction, every other operation one  *)
(* conditional update.  Callers pass clocks of their own, may repeat any   *)
(* call and may end at any point.                                          *)
(***************************************************************************)
EXTENDS Integers

CONSTANTS Slots,      \* row numbers
          Batches,    \* the ranges of rows, sets of slots
          Fresh,      \* the batch that is published with a boundary of its own
          Actions,    \* action ids
          Deal,       \* action -> its deal
          LeadAt,     \* action -> leadCreatedAt
          CallAt,     \* action -> callCreatedAt
          Lease,      \* leaseMs
          None        \* a null column or setting

\* What the theorems assume of the constants.
Rows ==
  /\ Slots \subseteq Nat /\ Batches \subseteq SUBSET Slots /\ Fresh \subseteq Slots
  /\ \A B \in Batches : B = Fresh \/ B \cap Fresh = {}
  /\ None \notin Actions \cup Nat
  /\ LeadAt \in [Actions -> Nat] /\ CallAt \in [Actions -> Nat] /\ Lease \in Nat

VARIABLES state, holder, until,   \* slot -> its columns
          boundary, opened,       \* the activation setting and that of the fresh batch
          admitted, invited,      \* the actions found eligible, and so for the fresh batch
          permits                 \* those told that they hold a slot, until they give it back

slot == <<state, holder, until>>
gate == <<boundary, opened, admitted, invited>>
vars == <<slot, gate, permits>>

Init ==
  /\ state = [s \in Slots |-> "absent"]
  /\ holder = [s \in Slots |-> None]
  /\ until = [s \in Slots |-> None]
  /\ boundary = None /\ opened = None /\ admitted = {} /\ invited = {} /\ permits = {}

-----------------------------------------------------------------------------

\* ensureTestSlots within a transaction: the missing rows of the batch are created.
Ensured(B) == [s \in Slots |-> IF s \in B /\ state[s] = "absent" THEN "free" ELSE state[s]]

\* findTestSlotForDeal
HoldsDeal(s, a) == holder[s] # None /\ Deal[holder[s]] = Deal[a]
Unclaimed(a) == \A s \in Slots : ~HoldsDeal(s, a)

Lapsed(s, t) == state[s] = "reserved" /\ until[s] # None /\ until[s] <= t

\* The batch with its rows made and its lapsed reservations spent.
Swept(B, t) ==
  [s \in Slots |-> IF s \in B /\ Lapsed(s, t) THEN "uncertain" ELSE Ensured(B)[s]]
SweptUntil(B, t) == [s \in Slots |-> IF s \in B /\ Lapsed(s, t) THEN None ELSE until[s]]

\* isCallTaskAutomationEligible; the stage store also wants the call after its boundaries
\* (isCallStageHistoryFenceEligible).
Eligible(a) == boundary # None /\ LeadAt[a] > boundary /\ CallAt[a] >= boundary
EligibleForFresh(a) == opened # None /\ CallAt[a] > opened

-----------------------------------------------------------------------------
(* The boundary.                                                           *)

\* getOrCreateActivationBoundary
Activate(t) ==
  /\ boundary' = IF boundary = None THEN t ELSE boundary
  /\ UNCHANGED <<slot, opened, admitted, invited, permits>>

\* initializeHistoryFenceRollout: the rows and the boundary in one transaction
Publish(t) ==
  /\ state' = Ensured(Fresh)
  /\ opened' = IF opened = None THEN t ELSE opened
  /\ UNCHANGED <<holder, until, boundary, admitted, invited, permits>>

\* The caller reads the boundaries long before it asks for a slot.
Admit(a) ==
  /\ Eligible(a) /\ admitted' = admitted \cup {a}
  /\ UNCHANGED <<slot, boundary, opened, invited, permits>>

Invite(a) ==
  /\ EligibleForFresh(a) /\ invited' = invited \cup {a}
  /\ UNCHANGED <<slot, boundary, opened, admitted, permits>>

MayAsk(a, B) == a \in admitted /\ (B = Fresh => a \in invited)

-----------------------------------------------------------------------------
(* The transaction of reserveTestLead and reserveTestMove, by what it      *)
(* finds.                                                                  *)

\* The action's own reservation, even a lapsed one that nobody has spent.
Reclaim(a, B, t) ==
  /\ MayAsk(a, B)
  /\ \E s \in Slots : /\ state[s] = "reserved" /\ holder[s] = a
                      /\ until' = [until EXCEPT ![s] = t + Lease]
  /\ state' = Ensured(B)
  /\ permits' = permits \cup {a}
  /\ UNCHANGED <<holder, gate>>

\* Another action has the deal; if its lease has lapsed, its slot is spent.
Refuse(a, B, t) ==
  /\ MayAsk(a, B)
  /\ \E s \in Slots :
       /\ HoldsDeal(s, a) /\ ~(state[s] = "reserved" /\ holder[s] = a)
       /\ IF Lapsed(s, t)
          THEN /\ state' = [Ensured(B) EXCEPT ![s] = "uncertain"]
               /\ until' = [until EXCEPT ![s] = None]
          ELSE state' = Ensured(B) /\ UNCHANGED until
  /\ UNCHANGED <<holder, gate, permits>>

\* Lapsed reservations are spent before a free row is taken, the lowest first.
Take(a, B, t) ==
  /\ MayAsk(a, B) /\ Unclaimed(a)
  /\ \E s \in B :
       /\ Swept(B, t)[s] = "free"
       /\ \A q \in B : Swept(B, t)[q] = "free" => s <= q
       /\ state' = [Swept(B, t) EXCEPT ![s] = "reserved"]
       /\ holder' = [holder EXCEPT ![s] = a]
       /\ until' = [SweptUntil(B, t) EXCEPT ![s] = t + Lease]
  /\ permits' = permits \cup {a}
  /\ UNCHANGED gate

LimitReached(a, B, t) ==
  /\ MayAsk(a, B) /\ Unclaimed(a)
  /\ \A s \in B : Swept(B, t)[s] # "free"
  /\ state' = Swept(B, t) /\ until' = SweptUntil(B, t)
  /\ UNCHANGED <<holder, gate, permits>>

-----------------------------------------------------------------------------
(* One update each, of the reserved row of the action.                     *)

Settle(a, outcome) ==
  /\ \E s \in Slots : /\ state[s] = "reserved" /\ holder[s] = a
                      /\ state' = [state EXCEPT ![s] = outcome]
                      /\ until' = [until EXCEPT ![s] = None]
  /\ UNCHANGED <<holder, gate, permits>>

\* confirmTestSlot
Confirm(a) == Settle(a, "confirmed")

\* markTestSlotUncertain
MarkUncertain(a) == Settle(a, "uncertain")

\* releaseTestSlotBeforeAnalysis, releaseTestSlotBeforePatch
Release(a) ==
  /\ \E s \in Slots : /\ state[s] = "reserved" /\ holder[s] = a
                      /\ state' = [state EXCEPT ![s] = "free"]
                      /\ holder' = [holder EXCEPT ![s] = None]
                      /\ until' = [until EXCEPT ![s] = None]
  /\ permits' = permits \ {a}
  /\ UNCHANGED gate

Reserve(a, B, t) ==
  Reclaim(a, B, t) \/ Refuse(a, B, t) \/ Take(a, B, t) \/ LimitReached(a, B, t)

Next ==
  \/ \E t \in Nat : Activate(t) \/ Publish(t)
  \/ \E a \in Actions, B \in Batches, t \in Nat : Reserve(a, B, t)
  \/ \E a \in Actions : Admit(a) \/ Invite(a) \/ Confirm(a) \/ MarkUncertain(a) \/ Release(a)

Spec == Init /\ [][Next]_vars

-----------------------------------------------------------------------------

States == {"absent", "free", "reserved", "confirmed", "uncertain"}

TypeOK ==
  /\ state \in [Slots -> States]
  /\ holder \in [Slots -> Actions \cup {None}]
  /\ until \in [Slots -> Nat \cup {None}]
  /\ boundary \in Nat \cup {None} /\ opened \in Nat \cup {None}
  /\ admitted \subseteq Actions /\ invited \subseteq Actions /\ permits \subseteq Actions

Spent(s) == state[s] \in {"confirmed", "uncertain"}

\* A row is held exactly when it is neither absent nor free.
HeldRows == \A s \in Slots : holder[s] = None <=> state[s] \in {"absent", "free"}

\* A deal has one slot, whichever batch, however many of its actions ask.
OneSlotPerDeal ==
  \A s, q \in Slots : holder[s] # None /\ holder[q] # None /\ Deal[holder[s]] = Deal[holder[q]]
                      => s = q

\* Whoever was told that it may act, and has not given that up, still has its row: the
\* test cannot act more often than there are rows, whatever lapses or crashes.
PermitsHaveRows == \A a \in permits : \E s \in Slots : holder[s] = a

\* No slot goes to history: its lead and its call are younger than the boundaries, which
\* were read before the slot was asked for.
HoldersAreNew ==
  \A s \in Slots : holder[s] # None =>
    Eligible(holder[s]) /\ (s \in Fresh => EligibleForFresh(holder[s]))

\* A spent slot stays with its action for good.
SpentStaysSpent ==
  [][\A s \in Slots : Spent(s) => state'[s] = state[s] /\ holder'[s] = holder[s]]_vars

\* The second boundary is never published without its rows.
OpenedHasRows == opened # None => \A s \in Fresh : state[s] # "absent"

\* The strengthening: what was admitted stays eligible, as the settings never change.
Admitted ==
  /\ \A a \in admitted : Eligible(a)
  /\ \A a \in invited : EligibleForFresh(a)
=============================================================================
