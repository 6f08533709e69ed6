----------------------------- MODULE DailySlots -----------------------------
(***************************************************************************)
(* The daily cap on moves: the slot table shared by the inactivity worker, *)
(* the nightly sweep and the confirmed sweep, each of them in several      *)
(* replicas.  A mover reserves a slot of the current operational day,      *)
(* sends the PATCH, and settles the slot by the outcome; it may crash at   *)
(* any point, and the settlement may fail.  An attempt is one auditId;     *)
(* audit ids are fresh.                                                    *)
(*                                                                         *)
(* amoCRM is external: the PATCH takes effect or not, and the client ends  *)
(* with "confirmed" only if it did and with "not_moved" only if it did not *)
(* (it was refused, or the read-back saw the lead on its source stage: a   *)
(* lead that a manager took back before that counts as not moved).         *)
(***************************************************************************)
EXTENDS SlotTable, FiniteSets

CONSTANTS Workers,      \* replicas of the inactivity worker
          Sweeps,       \* running sweeps
          Limits,       \* the limits the operators deploy in turn
          MaxSlots,     \* rows a bucket can have (the table's CHECK constraint)
          MaxDay,       \* bound on operational days, for TLC
          MaxAudits     \* bound on attempts, for TLC

ASSUME LimitsAssumption == Limits \subseteq 1..MaxSlots /\ Limits # {}
ASSUME BoundsAssumption == MaxSlots \in Nat /\ MaxDay \in Nat \ {0} /\ MaxAudits \in Nat
ASSUME AuditAssumption == NoAudit \notin Nat

Movers == Workers \cup Sweeps
Days == 1..MaxDay
SlotNumbers == 1..MaxSlots
LargestLimit == CHOOSE x \in Limits : \A y \in Limits : y <= x

VARIABLES day,       \* the current operational day (14:00 to 14:00 Almaty)
          limit,     \* LEAD_INACTIVITY_DAILY_LIMIT in force
          table,     \* day -> slot table of its bucket
          attempt,   \* mover -> its reservation and how far the move got
          audits,    \* audit ids handed out so far
          moved,     \* day -> attempts whose lead amoCRM moved, by slot bucket
          peak,      \* day -> the largest limit its slots were ensured for
          leaked     \* moves of uncertain outcome whose slot was released

vars == <<day, limit, table, attempt, audits, moved, peak, leaked>>

Outcomes == {"confirmed", "uncertain", "not_moved"}

Idle == [pc |-> "idle", day |-> 0, slot |-> 0, audit |-> NoAudit, outcome |-> "none"]

Attempts == [pc : {"idle", "ensuring", "reserved", "answered"}, day : 0..MaxDay,
             slot : 0..MaxSlots,     \* while ensuring: the limit in use
             audit : Nat \cup {NoAudit},
             outcome : Outcomes \cup {"none"}]

Slots == [state : SlotStates, audit : Nat \cup {NoAudit}, lapsed : BOOLEAN]

Init ==
  /\ day = 1
  /\ limit \in Limits
  /\ table = [d \in Days |-> [n \in SlotNumbers |-> AbsentSlot]]
  /\ attempt = [m \in Movers |-> Idle]
  /\ audits = 0
  /\ moved = [d \in Days |-> {}]
  /\ peak = [d \in Days |-> 0]
  /\ leaked = {}

-----------------------------------------------------------------------------
(* The movers.                                                             *)

\* ensureDailyMovementSlots, at the start of a pass and when the day changed:
\* the rows are created first, and those above the limit dropped afterwards.
CreateRows(m) ==
  /\ attempt[m].pc = "idle"
  /\ table' = [table EXCEPT ![day] = CreateMissing(@, limit)]
  /\ attempt' = [attempt EXCEPT ![m] =
       [Idle EXCEPT !.pc = "ensuring", !.day = day, !.slot = limit]]
  /\ peak' = [peak EXCEPT ![day] = IF @ < limit THEN limit ELSE @]
  /\ UNCHANGED <<day, limit, audits, moved, leaked>>

DropRows(m) ==
  /\ attempt[m].pc = "ensuring"
  /\ table' = [table EXCEPT ![attempt[m].day] = DropFreeAbove(@, attempt[m].slot)]
  /\ attempt' = [attempt EXCEPT ![m] = Idle]
  /\ UNCHANGED <<day, limit, audits, moved, peak, leaked>>

\* reserveDailyMovementSlot: one Serializable transaction.  When nothing is
\* free the mover stops, but the expired reservations it found stay marked.
ReserveSlot(m) ==
  LET t == MarkExpired(table[day])
      a == audits + 1
  IN
  /\ attempt[m].pc = "idle"
  /\ peak[day] # 0
  /\ audits < MaxAudits
  /\ audits' = a
  /\ IF FreeNumbers(t) = {}
     THEN /\ table' = [table EXCEPT ![day] = t]
          /\ UNCHANGED attempt
     ELSE LET n == LowestFree(t) IN
          /\ table' = [table EXCEPT ![day] = Reserve(t, n, a)]
          /\ attempt' = [attempt EXCEPT ![m] =
               [pc |-> "reserved", day |-> day, slot |-> n, audit |-> a,
                outcome |-> "none"]]
  /\ UNCHANGED <<day, limit, moved, peak, leaked>>

\* beforePatchSend of the worker; the sweeps have no such hook.
DayStillOpen(m) == m \in Workers => attempt[m].day = day

\* The PATCH and its read-back.
SendPatch(m) ==
  /\ attempt[m].pc = "reserved"
  /\ DayStillOpen(m)
  /\ \E took \in BOOLEAN, out \in Outcomes :
       /\ out = "confirmed" => took
       /\ out = "not_moved" => ~took
       /\ attempt' = [attempt EXCEPT ![m].pc = "answered", ![m].outcome = out]
       /\ moved' = IF took
                   THEN [moved EXCEPT ![attempt[m].day] = @ \cup {attempt[m].audit}]
                   ELSE moved
  /\ UNCHANGED <<day, limit, table, audits, peak, leaked>>

\* The worker finds its fence cancelled, the lead out of scope or the day over;
\* a fence that fails has no HTTP status, which counts as an uncertain PATCH.
CancelBeforePatch(m) ==
  /\ m \in Workers
  /\ attempt[m].pc = "reserved"
  /\ \E out \in {"not_moved", "uncertain"} :
       attempt' = [attempt EXCEPT ![m].pc = "answered", ![m].outcome = out]
  /\ UNCHANGED <<day, limit, table, audits, moved, peak, leaked>>

\* A bug that writes the outcome of the move into the slot.
SettledTable_OutcomeAsState(t, n, out) == [t EXCEPT ![n].state = out]

SettledTable(t, n, out) ==
  CASE out = "confirmed" -> Confirm(t, n)
    [] out = "uncertain" -> MarkUncertain(t, n)
    [] out = "not_moved" -> Release(t, n)

\* confirm, markUncertain or release; a reservation that expired in the
\* meantime no longer matches, the call throws and the slot stays uncertain.
SettleSlot(m) ==
  LET a == attempt[m] IN
  /\ a.pc = "answered"
  /\ table' = IF IsReservedBy(table[a.day], a.slot, a.audit)
              THEN [table EXCEPT ![a.day] = SettledTable(@, a.slot, a.outcome)]
              ELSE table
  /\ attempt' = [attempt EXCEPT ![m] = Idle]
  /\ UNCHANGED <<day, limit, audits, moved, peak, leaked>>

\* A bug: the catch block releases the slot whatever the outcome was.
CaughtAs_IgnoresConfirmed(out) == {"not_moved", "uncertain"}

\* How the catch block of processClaim settles the slot: after a confirmed move
\* it is marked uncertain, otherwise released or, when that fails, marked.
CaughtAs(out) ==
  IF out = "confirmed" THEN {"uncertain"} ELSE {"not_moved", "uncertain"}

\* The worker's confirm, markUncertain or release fails and changes nothing;
\* the catch block settles the slot.  So the slot of an uncertain move may be
\* released.  The catch block too matches only a slot that is still reserved.
CatchSettlement(m) ==
  LET a == attempt[m] IN
  /\ m \in Workers
  /\ a.pc = "answered"
  /\ IsReservedBy(table[a.day], a.slot, a.audit)
  /\ \E how \in CaughtAs(a.outcome) :
       /\ table' = [table EXCEPT ![a.day] = SettledTable(@, a.slot, how)]
       /\ leaked' = IF /\ how = "not_moved" /\ a.outcome = "uncertain"
                       /\ a.audit \in moved[a.day]
                    THEN leaked \cup {a.audit} ELSE leaked
  /\ attempt' = [attempt EXCEPT ![m] = Idle]
  /\ UNCHANGED <<day, limit, audits, moved, peak>>

\* The process dies, a sweep's best-effort settlement fails, or the worker's
\* catch block fails as well: the slot stays reserved until its lease expires.
Crash(m) ==
  /\ attempt[m].pc # "idle"
  /\ attempt' = [attempt EXCEPT ![m] = Idle]
  /\ UNCHANGED <<day, limit, table, audits, moved, peak, leaked>>

-----------------------------------------------------------------------------
(* The environment.                                                        *)

\* leaseExpiresAt of a reservation passes.
SlotLapses(d, n) ==
  /\ table[d][n].state = "reserved"
  /\ ~table[d][n].lapsed
  /\ table' = [table EXCEPT ![d][n].lapsed = TRUE]
  /\ UNCHANGED <<day, limit, attempt, audits, moved, peak, leaked>>

\* 14:00 Almaty.
NewDay ==
  /\ day < MaxDay
  /\ day' = day + 1
  /\ UNCHANGED <<limit, table, attempt, audits, moved, peak, leaked>>

\* The service is redeployed with another LEAD_INACTIVITY_DAILY_LIMIT.
Redeploy ==
  /\ \E lim \in Limits : lim # limit /\ limit' = lim
  /\ UNCHANGED <<day, table, attempt, audits, moved, peak, leaked>>

Next ==
  \/ \E m \in Movers : \/ CreateRows(m) \/ DropRows(m)
                       \/ ReserveSlot(m) \/ SendPatch(m)
                       \/ CancelBeforePatch(m) \/ SettleSlot(m)
                       \/ CatchSettlement(m) \/ Crash(m)
  \/ \E d \in Days, n \in SlotNumbers : SlotLapses(d, n)
  \/ NewDay
  \/ Redeploy

Spec == Init /\ [][Next]_vars

-----------------------------------------------------------------------------
(* Properties.                                                             *)

TypeOK ==
  /\ day \in Days
  /\ limit \in Limits
  /\ table \in [Days -> [SlotNumbers -> Slots]]
  /\ attempt \in [Movers -> Attempts]
  /\ audits \in Nat
  /\ moved \in [Days -> SUBSET Nat]
  /\ peak \in [Days -> {0} \cup Limits]
  /\ leaked \subseteq Nat

\* Attempts that hold capacity of a day.
HeldBy(d) == {table[d][n].audit : n \in Spent(table[d])}

\* A lead that moved keeps a slot of its day for ever, however late the
\* settlement, whoever crashed and whatever lease expired: the capacity of a
\* move that may have happened is handed out again in one case only, that of an
\* uncertain move whose settlement failed in the worker (`leaked'; that the code
\* documents a maximum of confirmed or uncertain moves is a finding, see
\* UncertainKeepsSlot of InactivityWorker).
MovesKeepTheirSlot ==
  \A d \in Days : moved[d] \ leaked \subseteq HeldBy(d)

\* No day sees more moves than the largest limit it was run under and one more
\* for each of its slots that leaked, whichever of the worker and the sweeps
\* made them (DAILY_LEAD_INACTIVITY_MOVEMENT_LIMIT in
\* leadInactivityDailyCap.ts).
CapHolds ==
  \A d \in Days :
    Cardinality(moved[d]) <= peak[d] + Cardinality(moved[d] \cap leaked)

\* The table implements the budget: slots are shares.
Budget == INSTANCE MoveBudget
            WITH Attempts <- 1..MaxAudits, Cap <- LargestLimit,
                 held <- [d \in Days |-> HeldBy(d)]

BudgetSpec == Budget!Spec

\* A limit lowered during the day bites at once: when the bucket stands as
\* ensureDailyMovementSlots leaves it for the limit in force, no reservation
\* takes the day above that limit (comment in ensureDailyMovementSlots;
\* docs/admin-commands.md).
LoweredLimitBites ==
  [][\A d \in Days :
       (/\ table[d] = Ensure(table[d], limit)
        /\ Cardinality(Spent(table'[d])) > Cardinality(Spent(table[d])))
       => Cardinality(Spent(table'[d])) <= limit]_vars
=============================================================================
