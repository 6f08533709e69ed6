----------------------------- MODULE SlotTable ------------------------------
(***************************************************************************)
(* The row operations on a table of movement slots: the daily movement     *)
(* slots of one bucket, and the five testing slots, which share them       *)
(* (leadInactivityPrismaPersistence.ts).  A table is a function from slot  *)
(* numbers to slots; a number without a row has the state "absent".        *)
(* `lapsed' says that leaseExpiresAt <= now.                               *)
(***************************************************************************)
EXTENDS Naturals

CONSTANT NoAudit   \* auditId: null

AbsentSlot == [state |-> "absent", audit |-> NoAudit, lapsed |-> FALSE]
FreeSlot   == [state |-> "free", audit |-> NoAudit, lapsed |-> FALSE]

SlotStates == {"absent", "free", "reserved", "confirmed", "uncertain"}

\* The states that count against the limit.
SpentStates == {"reserved", "confirmed", "uncertain"}

Spent(t) == {n \in DOMAIN t : t[n].state \in SpentStates}

FreeNumbers(t) == {n \in DOMAIN t : t[n].state = "free"}

\* A bug that resets the rows of the bucket instead of creating missing ones.
CreateMissing_Resets(t, lim) ==
  [n \in DOMAIN t |-> IF n <= lim THEN FreeSlot ELSE t[n]]

\* The upserts of ensureDailyMovementSlots: existing rows stay as they are.
CreateMissing(t, lim) ==
  [n \in DOMAIN t |-> IF t[n].state = "absent" /\ n <= lim THEN FreeSlot ELSE t[n]]

\* Its deleteMany: free rows above the limit are dropped, used rows stay.
DropFreeAbove(t, lim) ==
  [n \in DOMAIN t |-> IF t[n].state = "free" /\ n > lim THEN AbsentSlot ELSE t[n]]

\* ensureDailyMovementSlots, ensureTestSlots
Ensure(t, lim) == DropFreeAbove(CreateMissing(t, lim), lim)

\* A bug that returns expired reservations to capacity.
MarkExpired_Frees(t) ==
  [n \in DOMAIN t |->
     IF t[n].state = "reserved" /\ t[n].lapsed THEN FreeSlot ELSE t[n]]

\* markExpiredDailyMovementSlotLeasesUncertain, markExpiredTestSlotLeasesUncertain
MarkExpired(t) ==
  [n \in DOMAIN t |->
     IF t[n].state = "reserved" /\ t[n].lapsed
     THEN [t[n] EXCEPT !.state = "uncertain", !.lapsed = FALSE]
     ELSE t[n]]

LowestFree(t) == CHOOSE n \in FreeNumbers(t) : \A k \in FreeNumbers(t) : n <= k

\* reserveFreeDailyMovementSlot, reserveFreeTestSlot, when a row is free
Reserve(t, n, a) ==
  [t EXCEPT ![n] = [state |-> "reserved", audit |-> a, lapsed |-> FALSE]]

\* The match of the confirm, release and mark-uncertain statements
IsReservedBy(t, n, a) == t[n].state = "reserved" /\ t[n].audit = a

Confirm(t, n) == [t EXCEPT ![n].state = "confirmed", ![n].lapsed = FALSE]

MarkUncertain(t, n) == [t EXCEPT ![n].state = "uncertain", ![n].lapsed = FALSE]

\* releaseDailyMovementSlotAfterKnownNoMove, releaseTestSlotAfterKnownNoMove
Release(t, n) == [t EXCEPT ![n] = FreeSlot]
=============================================================================
