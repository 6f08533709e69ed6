------------------------- MODULE DailySlots_proofs --------------------------
(***************************************************************************)
(* Proofs about DailySlots, for every set of workers, sweeps and limits:   *)
(* its type invariant, that a move keeps its slot unless it leaked, the    *)
(* daily cap with its leaks, and that the slot tables implement the budget *)
(* of MoveBudget.                                                          *)
(***************************************************************************)
EXTENDS DailySlots, FiniteSetTheorems, WellFoundedInduction, TLAPS

Tables == [SlotNumbers -> Slots]

\* A slot whose move is not settled.
Pending == {"reserved", "uncertain"}

Live(m) == attempt[m].pc \in {"reserved", "answered"}

-----------------------------------------------------------------------------
(* The inductive invariant.                                                *)

\* Audit ids in use were handed out, so the next one is fresh.
AuditsKnown ==
  /\ \A d \in Days, n \in SlotNumbers : table[d][n].audit \in (1..audits) \cup {NoAudit}
  /\ \A m \in Movers : Live(m) => attempt[m].audit \in 1..audits
  /\ \A d \in Days : moved[d] \subseteq 1..audits

\* The slot of an attempt under way carries its audit id, reserved or expired.
AttemptOwns ==
  \A m \in Movers : Live(m) =>
    /\ attempt[m].day \in Days
    /\ attempt[m].slot \in SlotNumbers
    /\ table[attempt[m].day][attempt[m].slot].audit = attempt[m].audit
    /\ table[attempt[m].day][attempt[m].slot].state \in Pending

AttemptsDistinct ==
  \A m, k \in Movers : Live(m) /\ Live(k) /\ m # k => attempt[m].audit # attempt[k].audit

\* An attempt that has not sent its PATCH, or knows it had no effect, moved nothing.
NotYetMoved ==
  \A m \in Movers :
    attempt[m].pc = "reserved" \/ (attempt[m].pc = "answered" /\ attempt[m].outcome = "not_moved")
    => attempt[m].audit \notin moved[attempt[m].day]

WithinPeak ==
  \A d \in Days, n \in SlotNumbers : table[d][n].state # "absent" => n <= peak[d]

AnswersKnown ==
  \A m \in Movers : attempt[m].pc = "answered" => attempt[m].outcome \in Outcomes

Owned == AuditsKnown /\ AnswersKnown /\ AttemptOwns
         /\ AttemptsDistinct /\ NotYetMoved /\ MovesKeepTheirSlot

SlotsInv == TypeOK /\ Owned /\ WithinPeak
-----------------------------------------------------------------------------
(* Lemmas about the slot table.                                            *)

\* The days that are, and the limits, are bounded naturals.
LEMMA Bounds ==
  /\ MaxDay \in Nat \ {0} /\ MaxSlots \in Nat
  /\ Limits \subseteq SlotNumbers /\ Limits \subseteq Nat
  /\ NoAudit \notin Nat
  BY LimitsAssumption, BoundsAssumption, AuditAssumption DEF SlotNumbers

\* What a step may do to a table without touching the slots in use, but for
\* turning a reservation uncertain.
Harmless(t, u) ==
  /\ u \in Tables
  /\ \A n \in SlotNumbers :
       /\ u[n].audit \in {t[n].audit, NoAudit}
       /\ t[n].state \in SpentStates => u[n].audit = t[n].audit
       /\ t[n].state \in Pending => u[n].state \in Pending
       /\ t[n].state = "confirmed" => u[n].state = "confirmed"

\* Ensuring and expiring leave the slots in use to their attempts.
LEMMA HarmlessOperations ==
  ASSUME NEW t \in Tables
  PROVE  /\ Harmless(t, t)
         /\ \A lim : Harmless(t, CreateMissing(t, lim))
         /\ \A lim : Harmless(t, DropFreeAbove(t, lim))
         /\ Harmless(t, MarkExpired(t))
         /\ \A n \in SlotNumbers :
              t[n].state = "reserved" => Harmless(t, [t EXCEPT ![n].lapsed = TRUE])
<1> USE DEF Tables, Slots, SlotStates, SpentStates, Pending, Harmless
<1>1. Harmless(t, t)
  OBVIOUS
<1>2. \A lim : Harmless(t, CreateMissing(t, lim))
  BY DEF CreateMissing, FreeSlot
<1>3. \A lim : Harmless(t, DropFreeAbove(t, lim))
  BY DEF DropFreeAbove, AbsentSlot
<1>4. Harmless(t, MarkExpired(t))
  BY DEF MarkExpired
<1>5. ASSUME NEW n \in SlotNumbers, t[n].state = "reserved"
      PROVE  Harmless(t, [t EXCEPT ![n].lapsed = TRUE])
  BY <1>5
<1> QED
  BY <1>1, <1>2, <1>3, <1>4, <1>5

\* A set of naturals has a least element.
LEMMA LeastExists ==
  ASSUME NEW S \in SUBSET Nat, S # {}
  PROVE  \E n \in S : \A k \in S : n <= k
<1> DEFINE Upto == {0..n : n \in S}
<1>1. Upto \subseteq FiniteSubsetsOf(Nat) /\ Upto # {}
  <2>1. ASSUME NEW n \in S PROVE 0..n \in FiniteSubsetsOf(Nat)
    <3>1. IsFiniteSet(0..n) /\ 0..n \subseteq Nat
      BY FS_Interval
    <3> QED
      BY <3>1 DEF FiniteSubsetsOf
  <2> QED
    BY <2>1
<1>2. PICK x \in Upto : \A y \in Upto : <<y, x>> \notin StrictSubsetOrdering(Nat)
  BY <1>1, WFMin, FS_StrictSubsetOrderingWellFounded
<1>3. PICK n \in S : x = 0..n
  BY <1>2
<1>4. ASSUME NEW k \in S, k < n PROVE FALSE
  <2>1. 0..k \subseteq 0..n /\ 0..k # 0..n
    BY <1>4
  <2>2. 0..k \in Upto
    OBVIOUS
  <2>3. <<0..k, 0..n>> \notin StrictSubsetOrdering(Nat)
    BY <1>2, <1>3, <2>2
  <2>4. 0..k \in SUBSET Nat /\ 0..n \in SUBSET Nat
    OBVIOUS
  <2> HIDE DEF Upto
  <2> QED
    BY <2>1, <2>3, <2>4 DEF StrictSubsetOrdering
<1> QED
  BY <1>3, <1>4

\* A table with a free row has a lowest one.
LEMMA LowestFreeIsFree ==
  ASSUME NEW t \in Tables, FreeNumbers(t) # {}
  PROVE  LowestFree(t) \in SlotNumbers /\ t[LowestFree(t)].state = "free"
<1>1. FreeNumbers(t) \subseteq Nat /\ FreeNumbers(t) \subseteq SlotNumbers
  BY Bounds DEF FreeNumbers, Tables, SlotNumbers
<1>2. \E n \in FreeNumbers(t) : \A k \in FreeNumbers(t) : n <= k
  BY <1>1, LeastExists
<1>3. LowestFree(t) \in FreeNumbers(t)
  BY <1>2 DEF LowestFree
<1> QED
  BY <1>1, <1>3 DEF FreeNumbers

\* What settling does to the slot it settles and leaves of the others.
LEMMA SettledTableIsTable ==
  ASSUME NEW t \in Tables, NEW n \in SlotNumbers, NEW out \in Outcomes
  PROVE  /\ SettledTable(t, n, out) \in Tables
         /\ \A k \in SlotNumbers : k # n => SettledTable(t, n, out)[k] = t[k]
         /\ out # "not_moved" =>
              /\ SettledTable(t, n, out)[n].audit = t[n].audit
              /\ SettledTable(t, n, out)[n].state \in SpentStates
         /\ out = "not_moved" => SettledTable(t, n, out)[n] = FreeSlot
<1>1. CASE out = "confirmed"
  <2>1. SettledTable(t, n, out) = Confirm(t, n)
    BY <1>1 DEF SettledTable
  <2> QED
    BY <1>1, <2>1 DEF Confirm, Tables, Slots, SlotStates, SpentStates
<1>2. CASE out = "uncertain"
  <2>1. SettledTable(t, n, out) = MarkUncertain(t, n)
    BY <1>2 DEF SettledTable
  <2> QED
    BY <1>2, <2>1 DEF MarkUncertain, Tables, Slots, SlotStates, SpentStates
<1>3. CASE out = "not_moved"
  <2>1. SettledTable(t, n, out) = Release(t, n)
    BY <1>3 DEF SettledTable
  <2>2. FreeSlot \in Slots
    BY DEF FreeSlot, Slots, SlotStates
  <2> QED
    BY <1>3, <2>1, <2>2 DEF Release, Tables
<1> QED
  BY <1>1, <1>2, <1>3 DEF Outcomes

\* The attempts after mover m learned the outcome of its PATCH.
Answered(f, m, out) == [f EXCEPT ![m].pc = "answered", ![m].outcome = out]

\* Answering sets the outcome of one attempt and leaves its slot, and the other
\* attempts, as they are.
LEMMA AnsweredAttempt ==
  ASSUME NEW f \in [Movers -> Attempts], NEW m \in Movers, NEW out \in Outcomes
  PROVE  /\ Answered(f, m, out) \in [Movers -> Attempts]
         /\ \A k \in Movers : k # m => Answered(f, m, out)[k] = f[k]
         /\ Answered(f, m, out)[m].pc = "answered"
         /\ Answered(f, m, out)[m].day = f[m].day
         /\ Answered(f, m, out)[m].slot = f[m].slot
         /\ Answered(f, m, out)[m].audit = f[m].audit
         /\ Answered(f, m, out)[m].outcome = out
<1> DEFINE b == [pc |-> "answered", day |-> f[m].day, slot |-> f[m].slot,
                 audit |-> f[m].audit, outcome |-> out]
<1>1. f[m] \in Attempts
  OBVIOUS
<1>2. b \in Attempts
  BY <1>1 DEF Attempts
<1>3. [[f[m] EXCEPT !.pc = "answered"] EXCEPT !.outcome = out] = b
  <2>1. f[m] = [pc |-> f[m].pc, day |-> f[m].day, slot |-> f[m].slot,
                audit |-> f[m].audit, outcome |-> f[m].outcome]
    BY <1>1 DEF Attempts
  <2>2. [f[m] EXCEPT !.pc = "answered"]
        = [pc |-> "answered", day |-> f[m].day, slot |-> f[m].slot,
           audit |-> f[m].audit, outcome |-> f[m].outcome]
    BY <2>1
  <2>3. [[pc |-> "answered", day |-> f[m].day, slot |-> f[m].slot,
          audit |-> f[m].audit, outcome |-> f[m].outcome] EXCEPT !.outcome = out] = b
    OBVIOUS
  <2> HIDE DEF b
  <2> QED
    BY <2>2, <2>3, Zenon
<1>4. Answered(f, m, out)
      = [f EXCEPT ![m] = [[f[m] EXCEPT !.pc = "answered"] EXCEPT !.outcome = out]]
  BY DEF Answered
<1>5. Answered(f, m, out) = [f EXCEPT ![m] = b]
  BY <1>3, <1>4
<1>6. /\ b.pc = "answered" /\ b.day = f[m].day /\ b.slot = f[m].slot
      /\ b.audit = f[m].audit /\ b.outcome = out
  OBVIOUS
<1> HIDE DEF b
<1>7. Answered(f, m, out) \in [Movers -> Attempts]
  BY <1>2, <1>5
<1>8. /\ Answered(f, m, out)[m] = b
      /\ \A k \in Movers : k # m => Answered(f, m, out)[k] = f[k]
  BY <1>5
<1> QED
  BY <1>6, <1>7, <1>8

-----------------------------------------------------------------------------
(* The type invariant.                                                     *)

\* The initial state is well typed.
LEMMA TypeInit == Init => TypeOK
<1> SUFFICES ASSUME Init PROVE TypeOK
  OBVIOUS
<1>1. AbsentSlot \in Slots
  BY DEF AbsentSlot, Slots, SlotStates
<1>2. Idle \in Attempts
  BY Bounds DEF Idle, Attempts
<1>3. 1 \in Days
  BY Bounds DEF Days
<1> QED
  BY <1>1, <1>2, <1>3 DEF Init, TypeOK

\* Every step keeps the state well typed.
LEMMA TypeStep == TypeOK /\ Owned /\ [Next]_vars => TypeOK'
<1> SUFFICES ASSUME TypeOK, AuditsKnown, AnswersKnown, AttemptOwns, [Next]_vars PROVE TypeOK'
  BY DEF Owned
<1>b. /\ \A d \in Days : d \in 0..MaxDay
      /\ \A n \in SlotNumbers : n \in 0..MaxSlots
      /\ Limits \subseteq SlotNumbers
  BY Bounds DEF Days, SlotNumbers
<1>i. Idle \in Attempts
  BY Bounds DEF Idle, Attempts
<1>t. \A d \in Days : table[d] \in Tables
  BY DEF TypeOK, Tables
<1>1. ASSUME NEW m \in Movers, CreateRows(m) PROVE TypeOK'
  <2>1. CreateMissing(table[day], limit) \in Tables
    BY <1>t, HarmlessOperations DEF TypeOK, Harmless
  <2>2. [Idle EXCEPT !.pc = "ensuring", !.day = day, !.slot = limit] \in Attempts
    BY <1>b DEF Idle, Attempts, TypeOK
  <2> QED
    BY <1>1, <2>1, <2>2 DEF CreateRows, TypeOK, Tables
<1>2. ASSUME NEW m \in Movers, DropRows(m) PROVE TypeOK'
  <2>1. \A d \in Days : DropFreeAbove(table[d], attempt[m].slot) \in Tables
    BY <1>t, HarmlessOperations DEF Harmless
  <2> QED
    BY <1>2, <1>i, <2>1 DEF DropRows, TypeOK, Tables
<1>3. ASSUME NEW m \in Movers, ReserveSlot(m) PROVE TypeOK'
  <2> DEFINE t == MarkExpired(table[day])
             n == LowestFree(t)
  <2>1. t \in Tables /\ day \in Days
    BY <1>t, HarmlessOperations DEF Harmless, TypeOK
  <2>2. audits + 1 \in Nat /\ audits' = audits + 1
    BY <1>3 DEF ReserveSlot, TypeOK
  <2>3. CASE FreeNumbers(t) = {}
    BY <1>3, <2>1, <2>2, <2>3 DEF ReserveSlot, TypeOK, Tables
  <2>4. CASE FreeNumbers(t) # {}
    <3>1. n \in SlotNumbers
      BY <2>1, <2>4, LowestFreeIsFree
    <3>2. Reserve(t, n, audits + 1) \in Tables
      BY <2>1, <2>2, <3>1 DEF Reserve, Tables, Slots, SlotStates
    <3>3. [pc |-> "reserved", day |-> day, slot |-> n, audit |-> audits + 1,
           outcome |-> "none"] \in Attempts
      BY <1>b, <2>1, <2>2, <3>1 DEF Attempts
    <3> HIDE DEF t, n
    <3>4. /\ table' = [table EXCEPT ![day] = Reserve(t, n, audits + 1)]
          /\ attempt' = [attempt EXCEPT ![m] =
               [pc |-> "reserved", day |-> day, slot |-> n, audit |-> audits + 1,
                outcome |-> "none"]]
      BY <1>3, <2>4 DEF ReserveSlot, t, n
    <3> QED
      BY <1>3, <2>2, <3>2, <3>3, <3>4 DEF ReserveSlot, TypeOK, Tables
  <2> QED
    BY <2>3, <2>4
<1>4. ASSUME NEW m \in Movers, SendPatch(m) PROVE TypeOK'
  <2>1. PICK took \in BOOLEAN, out \in Outcomes :
          /\ attempt' = [attempt EXCEPT ![m].pc = "answered", ![m].outcome = out]
          /\ moved' = IF took
                      THEN [moved EXCEPT ![attempt[m].day] = @ \cup {attempt[m].audit}]
                      ELSE moved
    BY <1>4 DEF SendPatch
  <2>2. attempt[m].audit \in Nat
    BY <1>4, Bounds DEF SendPatch, AuditsKnown, Live, TypeOK
  <2>3. attempt' \in [Movers -> Attempts]
    BY <2>1, AnsweredAttempt DEF Answered, TypeOK
  <2>4. moved' \in [Days -> SUBSET Nat]
    BY <2>1, <2>2 DEF TypeOK
  <2> QED
    BY <1>4, <2>3, <2>4 DEF SendPatch, TypeOK
<1>5. ASSUME NEW m \in Movers, CancelBeforePatch(m) PROVE TypeOK'
  <2>1. \E out \in Outcomes : attempt' = Answered(attempt, m, out)
    BY <1>5 DEF CancelBeforePatch, Answered, Outcomes
  <2>2. attempt' \in [Movers -> Attempts]
    BY <2>1, AnsweredAttempt DEF TypeOK
  <2> QED
    BY <1>5, <2>2 DEF CancelBeforePatch, TypeOK
<1>6. ASSUME NEW m \in Movers, SettleSlot(m) PROVE TypeOK'
  <2> DEFINE d == attempt[m].day
             n == attempt[m].slot
             out == attempt[m].outcome
  <2>1. d \in Days /\ n \in SlotNumbers /\ out \in Outcomes
    BY <1>6 DEF SettleSlot, AnswersKnown, AttemptOwns, Live
  <2>2. SettledTable(table[d], n, out) \in Tables
    BY <1>t, <2>1, SettledTableIsTable
  <2> HIDE DEF d, n, out
  <2>3. \/ table' = [table EXCEPT ![d] = SettledTable(table[d], n, out)]
        \/ table' = table
    BY <1>6 DEF SettleSlot, d, n, out
  <2>4. table' \in [Days -> [SlotNumbers -> Slots]]
    BY <2>2, <2>3 DEF TypeOK, Tables
  <2> QED
    BY <1>6, <1>i, <2>4 DEF SettleSlot, TypeOK
<1>12. ASSUME NEW m \in Movers, CatchSettlement(m) PROVE TypeOK'
  <2> DEFINE d == attempt[m].day
             n == attempt[m].slot
  <2>1. PICK how \in CaughtAs(attempt[m].outcome) :
          /\ table' = [table EXCEPT ![d] = SettledTable(table[d], n, how)]
          /\ leaked' \in {leaked, leaked \cup {attempt[m].audit}}
    BY <1>12 DEF CatchSettlement
  <2>2. d \in Days /\ n \in SlotNumbers /\ attempt[m].audit \in Nat
    BY <1>12 DEF CatchSettlement, AuditsKnown, AttemptOwns, Live, TypeOK
  <2>5. how \in Outcomes
    BY DEF CaughtAs, Outcomes
  <2>3. SettledTable(table[d], n, how) \in Tables
    BY <1>t, <2>2, <2>5, SettledTableIsTable
  <2> HIDE DEF d, n
  <2>4. table' \in [Days -> [SlotNumbers -> Slots]] /\ leaked' \subseteq Nat
    BY <2>1, <2>2, <2>3 DEF TypeOK, Tables
  <2> QED
    BY <1>12, <1>i, <2>4 DEF CatchSettlement, TypeOK
<1>7. ASSUME NEW m \in Movers, Crash(m) PROVE TypeOK'
  BY <1>7, <1>i DEF Crash, TypeOK
<1>8. ASSUME NEW d \in Days, NEW n \in SlotNumbers, SlotLapses(d, n) PROVE TypeOK'
  <2>1. table' = [table EXCEPT ![d] = [table[d] EXCEPT ![n].lapsed = TRUE]]
    BY <1>8 DEF SlotLapses
  <2>2. [table[d] EXCEPT ![n].lapsed = TRUE] \in Tables
    BY <1>8, <1>t, HarmlessOperations DEF SlotLapses, Harmless
  <2>3. table' \in [Days -> [SlotNumbers -> Slots]]
    BY <2>1, <2>2 DEF TypeOK, Tables
  <2> QED
    BY <1>8, <2>3 DEF SlotLapses, TypeOK
<1>9. CASE NewDay
  <2>1. day + 1 \in Days
    BY <1>9, Bounds DEF NewDay, TypeOK, Days
  <2> QED
    BY <1>9, <2>1 DEF NewDay, TypeOK
<1>10. CASE Redeploy
  BY <1>10 DEF Redeploy, TypeOK
<1>11. CASE UNCHANGED vars
  BY <1>11 DEF vars, TypeOK
<1> QED
  BY <1>1, <1>2, <1>3, <1>4, <1>5, <1>6, <1>7, <1>8, <1>9, <1>10, <1>11, <1>12 DEF Next

-----------------------------------------------------------------------------
(* That moves keep their slot.                                             *)

\* Initially no audit id is in use.
LEMMA OwnedInit == Init => Owned
  BY DEF Init, Owned, AuditsKnown, AnswersKnown, AttemptOwns, AttemptsDistinct,
         NotYetMoved, MovesKeepTheirSlot, Live, Idle, AbsentSlot

\* A step that is harmless to every table, starts no attempt and leaves the
\* attempts under way as they are, or ends them, keeps the invariant.
LEMMA HarmlessStep ==
  /\ TypeOK /\ Owned
  /\ \A d \in Days : Harmless(table[d], table'[d])
  /\ audits' \in Nat /\ audits <= audits'
  /\ moved' = moved /\ leaked' = leaked
  /\ \A m \in Movers : Live(m)' => attempt'[m] = attempt[m]
  => Owned'
<1> SUFFICES ASSUME TypeOK, AuditsKnown, AnswersKnown, AttemptOwns, AttemptsDistinct,
                    NotYetMoved, MovesKeepTheirSlot,
                    \A d \in Days : Harmless(table[d], table'[d]),
                    audits' \in Nat, audits <= audits', moved' = moved, leaked' = leaked,
                    \A m \in Movers : Live(m)' => attempt'[m] = attempt[m]
             PROVE  Owned'
  BY DEF Owned
<1>1. \A m \in Movers : Live(m)' => Live(m)
  BY DEF Live
<1>2. AuditsKnown'
  <2>1. 1..audits \subseteq 1..audits'
    BY DEF TypeOK
  <2>2. \A d \in Days, n \in SlotNumbers : table'[d][n].audit \in (1..audits') \cup {NoAudit}
    BY <2>1 DEF AuditsKnown, Harmless
  <2>3. \A m \in Movers : Live(m)' => attempt'[m].audit \in 1..audits'
    BY <1>1, <2>1 DEF AuditsKnown
  <2>4. \A d \in Days : moved'[d] \subseteq 1..audits'
    BY <2>1 DEF AuditsKnown
  <2> QED
    BY <2>2, <2>3, <2>4 DEF AuditsKnown
<1>3. AnswersKnown'
  BY DEF AnswersKnown, Live
<1>4. AttemptOwns'
  <2> SUFFICES ASSUME NEW m \in Movers, Live(m)'
               PROVE  /\ attempt'[m].day \in Days
                      /\ attempt'[m].slot \in SlotNumbers
                      /\ table'[attempt'[m].day][attempt'[m].slot].audit = attempt'[m].audit
                      /\ table'[attempt'[m].day][attempt'[m].slot].state \in Pending
    BY DEF AttemptOwns
  <2>1. attempt'[m] = attempt[m] /\ Live(m)
    BY <1>1
  <2> QED
    BY <2>1 DEF AttemptOwns, Harmless, Pending, SpentStates
<1>5. AttemptsDistinct'
  BY <1>1 DEF AttemptsDistinct
<1>6. NotYetMoved'
  BY <1>1 DEF NotYetMoved, Live
<1>7. MovesKeepTheirSlot'
  <2>1. ASSUME NEW d \in Days PROVE HeldBy(d) \subseteq HeldBy(d)'
    <3>1. DOMAIN table[d] = SlotNumbers /\ DOMAIN table'[d] = SlotNumbers
      BY DEF TypeOK, Harmless, Tables
    <3> SUFFICES ASSUME NEW n \in SlotNumbers, table[d][n].state \in SpentStates
                 PROVE  /\ table'[d][n].state \in SpentStates
                        /\ table'[d][n].audit = table[d][n].audit
      BY <3>1 DEF HeldBy, Spent
    <3> QED
      BY DEF Harmless, Pending, SpentStates
  <2> QED
    BY <2>1 DEF MovesKeepTheirSlot
<1> QED
  BY <1>2, <1>3, <1>4, <1>5, <1>6, <1>7 DEF Owned

\* A reservation takes a free row under a fresh audit id.
LEMMA ReserveStep ==
  ASSUME TypeOK, Owned, NEW m \in Movers, ReserveSlot(m)
  PROVE  Owned'
<1> DEFINE t == MarkExpired(table[day])
           n == LowestFree(t)
           a == audits + 1
<1>o. AuditsKnown /\ AnswersKnown /\ AttemptOwns /\ AttemptsDistinct /\ NotYetMoved
      /\ MovesKeepTheirSlot
  BY DEF Owned
<1>1. /\ t \in Tables /\ day \in Days /\ Harmless(table[day], t)
      /\ \A d \in Days : table[d] \in Tables /\ Harmless(table[d], table[d])
  BY HarmlessOperations DEF Harmless, TypeOK, Tables
<1>2. /\ audits \in Nat /\ a \in Nat /\ audits' = a
      /\ moved' = moved /\ leaked' = leaked
  BY DEF ReserveSlot, TypeOK
<1>3. CASE FreeNumbers(t) = {}
  <2>1. table' = [table EXCEPT ![day] = t] /\ attempt' = attempt
    BY <1>3 DEF ReserveSlot
  <2>2. \A d \in Days : Harmless(table[d], table'[d])
    BY <1>1, <2>1 DEF TypeOK
  <2> QED
    BY <1>2, <2>1, <2>2, HarmlessStep
<1>4. CASE FreeNumbers(t) # {}
  <2>1. n \in SlotNumbers /\ t[n].state = "free"
    BY <1>1, <1>4, LowestFreeIsFree
  <2>2. table' = [table EXCEPT ![day] = Reserve(t, n, a)]
    BY <1>4 DEF ReserveSlot
  <2>3. attempt' = [attempt EXCEPT ![m] =
          [pc |-> "reserved", day |-> day, slot |-> n, audit |-> a, outcome |-> "none"]]
    BY <1>4 DEF ReserveSlot
  <2>4. ~Live(m)
    BY DEF ReserveSlot, Live
  <2> HIDE DEF t, n, a
  <2>5. /\ attempt'[m].pc = "reserved" /\ attempt'[m].day = day
        /\ attempt'[m].slot = n /\ attempt'[m].audit = a
        /\ \A k \in Movers : k # m => attempt'[k] = attempt[k]
    BY <2>3 DEF TypeOK
  <2>6. /\ table'[day][n].audit = a /\ table'[day][n].state = "reserved"
        /\ \A k \in SlotNumbers : k # n => table'[day][k] = t[k]
        /\ \A d \in Days : d # day => table'[d] = table[d]
    BY <1>1, <2>1, <2>2 DEF Reserve, TypeOK, Tables
  <2>7. a \notin 1..audits /\ a \in 1..audits' /\ 1..audits \subseteq 1..audits'
    BY <1>2 DEF a
  <2>8. AuditsKnown'
    <3>1. \A d \in Days, k \in SlotNumbers :
            table'[d][k].audit \in (1..audits') \cup {NoAudit}
      BY <1>1, <1>o, <2>1, <2>6, <2>7 DEF AuditsKnown, Harmless
    <3>2. \A k \in Movers : Live(k)' => attempt'[k].audit \in 1..audits'
      BY <1>o, <2>5, <2>7 DEF AuditsKnown, Live
    <3>3. \A d \in Days : moved'[d] \subseteq 1..audits'
      BY <1>o, <1>2, <2>7 DEF AuditsKnown
    <3> QED
      BY <3>1, <3>2, <3>3 DEF AuditsKnown
  <2>9. AnswersKnown'
    BY <1>o, <2>5 DEF AnswersKnown
  <2>10. AttemptOwns'
    <3> SUFFICES ASSUME NEW k \in Movers, Live(k)'
                 PROVE  /\ attempt'[k].day \in Days
                        /\ attempt'[k].slot \in SlotNumbers
                        /\ table'[attempt'[k].day][attempt'[k].slot].audit = attempt'[k].audit
                        /\ table'[attempt'[k].day][attempt'[k].slot].state \in Pending
      BY DEF AttemptOwns
    <3>1. CASE k = m
      BY <1>1, <2>1, <2>5, <2>6, <3>1 DEF Pending
    <3>2. CASE k # m
      <4> DEFINE d == attempt[k].day
                 x == attempt[k].slot
      <4>1. attempt'[k] = attempt[k] /\ Live(k)
        BY <2>5, <3>2 DEF Live
      <4>2. /\ d \in Days /\ x \in SlotNumbers
            /\ table[d][x].audit = attempt[k].audit /\ table[d][x].state \in Pending
        BY <1>o, <4>1 DEF AttemptOwns
      <4> HIDE DEF d, x
      <4>3. CASE d = day
        <5>1. t[x].audit = attempt[k].audit /\ t[x].state \in Pending
          BY <1>1, <4>2, <4>3 DEF Harmless, Pending, SpentStates
        <5>2. x # n
          BY <2>1, <5>1 DEF Pending
        <5> QED
          BY <2>6, <4>1, <4>2, <4>3, <5>1, <5>2 DEF d, x
      <4>4. CASE d # day
        BY <2>6, <4>1, <4>2, <4>4 DEF d, x
      <4> QED
        BY <4>3, <4>4
    <3> QED
      BY <3>1, <3>2
  <2>11. AttemptsDistinct'
    <3>1. \A k \in Movers : Live(k) => attempt[k].audit # a
      BY <1>o, <2>7 DEF AuditsKnown
    <3> QED
      BY <1>o, <2>5, <3>1 DEF AttemptsDistinct, Live
  <2>12. NotYetMoved'
    <3>1. \A d \in Days : a \notin moved[d]
      BY <1>o, <2>7 DEF AuditsKnown
    <3> QED
      BY <1>o, <1>1, <1>2, <2>5, <3>1 DEF NotYetMoved
  <2>13. MovesKeepTheirSlot'
    <3> SUFFICES ASSUME NEW d \in Days, NEW k \in SlotNumbers,
                        table[d][k].state \in SpentStates
                 PROVE  /\ table'[d][k].state \in SpentStates
                        /\ table'[d][k].audit = table[d][k].audit
      <4>1. DOMAIN table'[day] = SlotNumbers
        BY <1>1, <2>2 DEF Reserve, Tables, TypeOK
      <4>2. \A d \in Days : DOMAIN table[d] = SlotNumbers /\ DOMAIN table'[d] = SlotNumbers
        BY <2>6, <4>1 DEF TypeOK
      <4> QED
        BY <1>o, <1>2, <4>2 DEF MovesKeepTheirSlot, HeldBy, Spent
    <3>1. CASE d = day
      <4>1. t[k].state \in SpentStates /\ t[k].audit = table[d][k].audit
        BY <1>1, <3>1 DEF Harmless, Pending, SpentStates
      <4>2. k # n
        BY <2>1, <4>1 DEF SpentStates
      <4> QED
        BY <2>6, <3>1, <4>1, <4>2
    <3>2. CASE d # day
      BY <2>6, <3>2
    <3> QED
      BY <3>1, <3>2
  <2> QED
    BY <2>8, <2>9, <2>10, <2>11, <2>12, <2>13 DEF Owned
<1> QED
  BY <1>3, <1>4

\* Sending, or giving up, the PATCH of a reservation: what moved is covered by
\* the slot, and an attempt that knows it had no effect moved nothing.
LEMMA AnswerStep ==
  ASSUME TypeOK, Owned, NEW m \in Movers, NEW out \in Outcomes, NEW took \in BOOLEAN,
         attempt[m].pc = "reserved",
         out = "not_moved" => ~took,
         attempt' = Answered(attempt, m, out),
         moved' = IF took
                  THEN [moved EXCEPT ![attempt[m].day] = @ \cup {attempt[m].audit}]
                  ELSE moved,
         table' = table, audits' = audits, leaked' = leaked
  PROVE  Owned'
<1> DEFINE d == attempt[m].day
           a == attempt[m].audit
<1>o. AuditsKnown /\ AnswersKnown /\ AttemptOwns /\ AttemptsDistinct /\ NotYetMoved
      /\ MovesKeepTheirSlot
  BY DEF Owned
<1>1. /\ attempt'[m].pc = "answered" /\ attempt'[m].day = d
      /\ attempt'[m].slot = attempt[m].slot
      /\ attempt'[m].audit = a /\ attempt'[m].outcome = out
      /\ \A k \in Movers : k # m => attempt'[k] = attempt[k]
  BY AnsweredAttempt DEF TypeOK
<1>2. /\ Live(m) /\ d \in Days /\ attempt[m].slot \in SlotNumbers /\ a \in 1..audits
      /\ table[d][attempt[m].slot].audit = a
      /\ table[d][attempt[m].slot].state \in Pending
  BY <1>o DEF Live, AuditsKnown, AttemptOwns
<1>3. \A k \in Movers : Live(k)' => Live(k) /\ attempt'[k].day = attempt[k].day
        /\ attempt'[k].slot = attempt[k].slot /\ attempt'[k].audit = attempt[k].audit
  BY <1>1, <1>2 DEF Live
<1>4. \A e \in Days : moved'[e] \subseteq moved[e] \cup (IF e = d THEN {a} ELSE {})
  BY DEF TypeOK
<1>5. out = "not_moved" => moved' = moved
  OBVIOUS
<1> HIDE DEF d, a
<1>6. AuditsKnown'
  BY <1>o, <1>2, <1>3, <1>4 DEF AuditsKnown
<1>7. AnswersKnown'
  BY <1>o, <1>1 DEF AnswersKnown
<1>8. AttemptOwns'
  BY <1>o, <1>3 DEF AttemptOwns
<1>9. AttemptsDistinct'
  BY <1>o, <1>3 DEF AttemptsDistinct
<1>10. NotYetMoved'
  <2> SUFFICES ASSUME NEW k \in Movers,
                      \/ attempt'[k].pc = "reserved"
                      \/ attempt'[k].pc = "answered" /\ attempt'[k].outcome = "not_moved"
               PROVE  attempt'[k].audit \notin moved'[attempt'[k].day]
    BY DEF NotYetMoved
  <2>1. CASE k = m
    <3>1. moved' = moved /\ a \notin moved[d]
      BY <1>o, <1>1, <1>5, <2>1 DEF NotYetMoved, a, d
    <3> QED
      BY <1>1, <2>1, <3>1
  <2>2. CASE k # m
    <3>1. /\ attempt'[k] = attempt[k] /\ attempt[k].audit \notin moved[attempt[k].day]
          /\ Live(k)
      BY <1>o, <1>1, <2>2 DEF NotYetMoved, Live
    <3>2. attempt[k].audit # a /\ attempt[k].day \in Days
      BY <1>o, <1>2, <2>2, <3>1 DEF AttemptsDistinct, AttemptOwns, a
    <3> QED
      BY <1>4, <3>1, <3>2
  <2> QED
    BY <2>1, <2>2
<1>11. MovesKeepTheirSlot'
  <2>1. a \in HeldBy(d)
    BY <1>2 DEF HeldBy, Spent, SpentStates, Pending, TypeOK
  <2>2. \A e \in Days : HeldBy(e)' = HeldBy(e)
    BY DEF HeldBy, Spent
  <2> QED
    BY <1>o, <1>4, <2>1, <2>2 DEF MovesKeepTheirSlot
<1> QED
  BY <1>6, <1>7, <1>8, <1>9, <1>10, <1>11 DEF Owned

\* Settling a slot ends its attempt; a slot is released only when its attempt
\* moved nothing or is put on record as a leak, and the slots of the other
\* attempts stay as they are.
LEMMA SettledAsStep ==
  ASSUME TypeOK, Owned, NEW m \in Movers, attempt[m].pc = "answered",
         NEW how \in Outcomes,
         table' = [table EXCEPT ![attempt[m].day] =
                     SettledTable(table[attempt[m].day], attempt[m].slot, how)],
         attempt' = [attempt EXCEPT ![m] = Idle],
         audits' = audits, moved' = moved, leaked \subseteq leaked',
         how = "not_moved" => attempt[m].audit \notin moved[attempt[m].day] \ leaked'
  PROVE  Owned'
<1> DEFINE d == attempt[m].day
           n == attempt[m].slot
           a == attempt[m].audit
           u == SettledTable(table[d], n, how)
<1>o. AuditsKnown /\ AnswersKnown /\ AttemptOwns /\ AttemptsDistinct /\ NotYetMoved
      /\ MovesKeepTheirSlot
  BY DEF Owned
<1>1. /\ Live(m) /\ d \in Days /\ n \in SlotNumbers /\ table[d][n].audit = a
      /\ table' = [table EXCEPT ![d] = u]
      /\ how = "not_moved" => a \notin moved[d] \ leaked'
  BY <1>o DEF Live, AttemptOwns
<1>2. audits \in Nat /\ audits' = audits /\ moved' = moved /\ leaked \subseteq leaked'
  BY DEF TypeOK
<1>3. \A k \in Movers : Live(k)' => k # m /\ attempt'[k] = attempt[k] /\ Live(k)
  BY DEF Live, Idle, TypeOK
<1> HIDE DEF d, n, a
<1>t. table[d] \in Tables
  BY <1>1 DEF TypeOK, Tables
<1>4. /\ u \in Tables
      /\ \A k \in SlotNumbers : k # n => u[k] = table[d][k]
      /\ how # "not_moved" => u[n].audit = a /\ u[n].state \in SpentStates
      /\ how = "not_moved" => u[n] = FreeSlot
  BY <1>1, <1>t, SettledTableIsTable
<1> HIDE DEF u
<1>5. /\ table'[d] = u
      /\ \A e \in Days : e # d => table'[e] = table[e]
  BY <1>1 DEF TypeOK
<1>6. AuditsKnown'
  <2>1. \A e \in Days, k \in SlotNumbers :
          table'[e][k].audit \in (1..audits) \cup {NoAudit}
    <3>1. u[n].audit \in {a, NoAudit}
      <4>1. CASE how = "not_moved"
        BY <1>4, <4>1 DEF FreeSlot
      <4>2. CASE how # "not_moved"
        BY <1>4, <4>2
      <4> QED
        BY <4>1, <4>2
    <3>2. \A k \in SlotNumbers : u[k].audit \in {table[d][k].audit, NoAudit}
      BY <1>1, <1>4, <3>1
    <3> QED
      BY <1>o, <1>1, <1>5, <3>2 DEF AuditsKnown
  <2> QED
    BY <1>o, <1>2, <1>3, <2>1 DEF AuditsKnown
<1>7. AnswersKnown'
  BY <1>o, <1>3 DEF AnswersKnown, Live
<1>8. AttemptOwns'
  <2> SUFFICES ASSUME NEW k \in Movers, Live(k)'
               PROVE  /\ attempt'[k].day \in Days
                      /\ attempt'[k].slot \in SlotNumbers
                      /\ table'[attempt'[k].day][attempt'[k].slot].audit = attempt'[k].audit
                      /\ table'[attempt'[k].day][attempt'[k].slot].state \in Pending
    BY DEF AttemptOwns
  <2> DEFINE e == attempt[k].day
             x == attempt[k].slot
  <2>1. k # m /\ attempt'[k] = attempt[k] /\ Live(k)
    BY <1>3
  <2>2. /\ e \in Days /\ x \in SlotNumbers
        /\ table[e][x].audit = attempt[k].audit /\ table[e][x].state \in Pending
    BY <1>o, <2>1 DEF AttemptOwns
  <2>3. attempt[k].audit # a
    BY <1>o, <1>1, <2>1 DEF AttemptsDistinct, a
  <2> HIDE DEF e, x
  <2>4. table'[e][x] = table[e][x]
    BY <1>1, <1>4, <1>5, <2>2, <2>3
  <2> QED
    BY <2>1, <2>2, <2>4 DEF e, x
<1>9. AttemptsDistinct'
  BY <1>o, <1>3 DEF AttemptsDistinct
<1>10. NotYetMoved'
  BY <1>o, <1>2, <1>3 DEF NotYetMoved, Live
<1>11. MovesKeepTheirSlot'
  <2>1. \A e \in Days : DOMAIN table[e] = SlotNumbers /\ DOMAIN table'[e] = SlotNumbers
    BY <1>4, <1>5 DEF TypeOK, Tables
  <2> SUFFICES ASSUME NEW e \in Days, NEW b \in moved[e] \ leaked'
               PROVE  b \in HeldBy(e)'
    BY <1>2 DEF MovesKeepTheirSlot
  <2>2. b \in HeldBy(e)
    BY <1>o, <1>2 DEF MovesKeepTheirSlot
  <2>3. PICK k \in SlotNumbers : table[e][k].state \in SpentStates /\ table[e][k].audit = b
    BY <2>1, <2>2 DEF HeldBy, Spent
  <2>4. table'[e][k].state \in SpentStates /\ table'[e][k].audit = b
    <3>1. CASE e = d /\ k = n
      <4>1. how # "not_moved"
        BY <1>1, <2>3, <3>1
      <4> QED
        BY <1>1, <1>4, <1>5, <2>3, <3>1, <4>1
    <3>2. CASE ~(e = d /\ k = n)
      BY <1>4, <1>5, <2>3, <3>2
    <3> QED
      BY <3>1, <3>2
  <2> QED
    BY <2>1, <2>4 DEF HeldBy, Spent
<1> QED
  BY <1>6, <1>7, <1>8, <1>9, <1>10, <1>11 DEF Owned

\* The worker's settlement, and a sweep's: a released slot is that of an attempt
\* known to have moved nothing.
LEMMA SettleStep ==
  ASSUME TypeOK, Owned, NEW m \in Movers, SettleSlot(m)
  PROVE  Owned'
<1> DEFINE d == attempt[m].day
           n == attempt[m].slot
           a == attempt[m].audit
           out == attempt[m].outcome
<1>1. /\ attempt[m].pc = "answered" /\ out \in Outcomes
      /\ audits \in Nat /\ audits' = audits /\ moved' = moved /\ leaked' = leaked
      /\ attempt' = [attempt EXCEPT ![m] = Idle]
  BY DEF SettleSlot, TypeOK, Owned, AnswersKnown
<1>2. CASE ~IsReservedBy(table[d], n, a)
  <2>1. table' = table
    BY <1>2 DEF SettleSlot
  <2>2. \A e \in Days : Harmless(table[e], table'[e])
    BY <2>1, HarmlessOperations DEF TypeOK, Tables
  <2>3. \A k \in Movers : Live(k)' => attempt'[k] = attempt[k]
    BY <1>1 DEF Live, Idle, TypeOK
  <2> QED
    BY <1>1, <2>2, <2>3, HarmlessStep
<1>3. CASE IsReservedBy(table[d], n, a)
  <2>1. table' = [table EXCEPT ![d] = SettledTable(table[d], n, out)]
    BY <1>3 DEF SettleSlot
  <2>2. out = "not_moved" => a \notin moved[d]
    BY <1>1 DEF Owned, NotYetMoved
  <2> QED
    BY <1>1, <2>1, <2>2, SettledAsStep
<1> QED
  BY <1>2, <1>3

\* The settlement of the catch block: a released slot of a move that happened
\* is a leak.
LEMMA CatchStep ==
  ASSUME TypeOK, Owned, NEW m \in Movers, CatchSettlement(m)
  PROVE  Owned'
<1> DEFINE d == attempt[m].day
           n == attempt[m].slot
           a == attempt[m].audit
           out == attempt[m].outcome
<1>1. PICK how \in CaughtAs(out) :
        /\ table' = [table EXCEPT ![d] = SettledTable(table[d], n, how)]
        /\ leaked' = IF how = "not_moved" /\ out = "uncertain" /\ a \in moved[d]
                     THEN leaked \cup {a} ELSE leaked
  BY DEF CatchSettlement
<1>2. /\ attempt[m].pc = "answered" /\ out \in Outcomes /\ how \in Outcomes
      /\ audits' = audits /\ moved' = moved
      /\ attempt' = [attempt EXCEPT ![m] = Idle]
      /\ how = "not_moved" => out # "confirmed"
  BY DEF CatchSettlement, Owned, AnswersKnown, CaughtAs, Outcomes
<1>3. out = "not_moved" => a \notin moved[d]
  BY <1>2 DEF Owned, NotYetMoved
<1> HIDE DEF d, n, a, out
<1>4. leaked \subseteq leaked' /\ (how = "not_moved" => a \notin moved[d] \ leaked')
  BY <1>1, <1>2, <1>3 DEF Outcomes
<1> QED
  BY <1>1, <1>2, <1>4, SettledAsStep DEF d, n, a, out

\* Every step keeps the ownership of the slots.
LEMMA OwnedStep == TypeOK /\ Owned /\ [Next]_vars => Owned'
<1> SUFFICES ASSUME TypeOK, Owned, [Next]_vars PROVE Owned'
  OBVIOUS
<1>t. \A d \in Days : table[d] \in Tables /\ Harmless(table[d], table[d])
  BY HarmlessOperations DEF TypeOK, Tables
<1>a. audits \in Nat
  BY DEF TypeOK
<1>1. ASSUME NEW m \in Movers, CreateRows(m) PROVE Owned'
  <2>1. \A d \in Days : Harmless(table[d], table'[d])
    BY <1>1, <1>t, HarmlessOperations DEF CreateRows, TypeOK
  <2>2. \A k \in Movers : Live(k)' => attempt'[k] = attempt[k]
    BY <1>1 DEF CreateRows, Live, Idle, TypeOK
  <2> QED
    BY <1>1, <1>a, <2>1, <2>2, HarmlessStep DEF CreateRows
<1>2. ASSUME NEW m \in Movers, DropRows(m) PROVE Owned'
  <2>1. \A d \in Days : Harmless(table[d], table'[d])
    BY <1>2, <1>t, HarmlessOperations DEF DropRows, TypeOK
  <2>2. \A k \in Movers : Live(k)' => attempt'[k] = attempt[k]
    BY <1>2 DEF DropRows, Live, Idle, TypeOK
  <2> QED
    BY <1>2, <1>a, <2>1, <2>2, HarmlessStep DEF DropRows
<1>3. ASSUME NEW m \in Movers, ReserveSlot(m) PROVE Owned'
  BY <1>3, ReserveStep
<1>4. ASSUME NEW m \in Movers, SendPatch(m) PROVE Owned'
  <2>1. PICK took \in BOOLEAN, out \in Outcomes :
          /\ out = "not_moved" => ~took
          /\ attempt' = Answered(attempt, m, out)
          /\ moved' = IF took
                      THEN [moved EXCEPT ![attempt[m].day] = @ \cup {attempt[m].audit}]
                      ELSE moved
    BY <1>4 DEF SendPatch, Answered
  <2>2. /\ attempt[m].pc = "reserved" /\ table' = table /\ audits' = audits
        /\ leaked' = leaked
    BY <1>4 DEF SendPatch
  <2> QED
    BY <2>1, <2>2, AnswerStep
<1>5. ASSUME NEW m \in Movers, CancelBeforePatch(m) PROVE Owned'
  <2>1. PICK out \in Outcomes : attempt' = Answered(attempt, m, out)
    BY <1>5 DEF CancelBeforePatch, Answered, Outcomes
  <2>3. /\ attempt[m].pc = "reserved" /\ table' = table /\ audits' = audits
        /\ moved' = moved /\ leaked' = leaked
    BY <1>5 DEF CancelBeforePatch
  <2>2. moved' = IF FALSE
                 THEN [moved EXCEPT ![attempt[m].day] = @ \cup {attempt[m].audit}]
                 ELSE moved
    BY <2>3
  <2> QED
    BY <2>1, <2>2, <2>3, AnswerStep
<1>6. ASSUME NEW m \in Movers, SettleSlot(m) PROVE Owned'
  BY <1>6, SettleStep
<1>12. ASSUME NEW m \in Movers, CatchSettlement(m) PROVE Owned'
  BY <1>12, CatchStep
<1>7. ASSUME NEW m \in Movers, Crash(m) PROVE Owned'
  <2>1. \A k \in Movers : Live(k)' => attempt'[k] = attempt[k]
    BY <1>7 DEF Crash, Live, Idle, TypeOK
  <2> QED
    BY <1>7, <1>a, <1>t, <2>1, HarmlessStep DEF Crash
<1>8. ASSUME NEW d \in Days, NEW n \in SlotNumbers, SlotLapses(d, n) PROVE Owned'
  <2>1. table' = [table EXCEPT ![d] = [table[d] EXCEPT ![n].lapsed = TRUE]]
    BY <1>8 DEF SlotLapses
  <2>2. Harmless(table[d], [table[d] EXCEPT ![n].lapsed = TRUE])
    BY <1>8, <1>t, HarmlessOperations DEF SlotLapses
  <2>3. \A e \in Days : Harmless(table[e], table'[e])
    BY <1>t, <2>1, <2>2 DEF TypeOK
  <2>4. audits' = audits /\ moved' = moved /\ attempt' = attempt /\ leaked' = leaked
    BY <1>8 DEF SlotLapses
  <2> QED
    BY <1>a, <2>3, <2>4, HarmlessStep
<1>9. CASE NewDay
  BY <1>9, <1>a, <1>t, HarmlessStep DEF NewDay
<1>10. CASE Redeploy
  BY <1>10, <1>a, <1>t, HarmlessStep DEF Redeploy
<1>11. CASE UNCHANGED vars
  BY <1>11, <1>a, <1>t, HarmlessStep DEF vars
<1> QED
  BY <1>1, <1>2, <1>3, <1>4, <1>5, <1>6, <1>7, <1>8, <1>9, <1>10, <1>11, <1>12 DEF Next

-----------------------------------------------------------------------------
(* The cap.                                                                *)

\* No operation but CreateMissing and Reserve adds a row, CreateMissing only
\* up to the limit and Reserve none where a free one is taken.
LEMMA RowsAdded ==
  ASSUME NEW t \in Tables, NEW k \in SlotNumbers
  PROVE  /\ \A lim : CreateMissing(t, lim)[k].state # "absent"
                       => t[k].state # "absent" \/ k <= lim
         /\ \A lim : DropFreeAbove(t, lim)[k].state # "absent" => t[k].state # "absent"
         /\ MarkExpired(t)[k].state # "absent" => t[k].state # "absent"
<1>1. DOMAIN t = SlotNumbers /\ t[k] \in Slots
  BY DEF Tables
<1>2. \A lim : CreateMissing(t, lim)[k].state # "absent"
                 => t[k].state # "absent" \/ k <= lim
  BY <1>1 DEF CreateMissing
<1>3. \A lim : DropFreeAbove(t, lim)[k].state # "absent" => t[k].state # "absent"
  BY <1>1 DEF DropFreeAbove, AbsentSlot
<1>4. MarkExpired(t)[k].state # "absent" => t[k].state # "absent"
  BY <1>1 DEF MarkExpired
<1> QED
  BY <1>2, <1>3, <1>4

\* No row stands above the largest limit its day was ensured for.
LEMMA PeakStep == TypeOK /\ Owned /\ WithinPeak /\ [Next]_vars => WithinPeak'
<1> SUFFICES ASSUME TypeOK, Owned, WithinPeak, [Next]_vars PROVE WithinPeak'
  OBVIOUS
<1>t. \A d \in Days : table[d] \in Tables
  BY DEF TypeOK, Tables
<1>p. \A d \in Days : peak[d] \in Nat
  <2>1. {0} \cup Limits \subseteq Nat
    BY Bounds
  <2> QED
    BY <2>1 DEF TypeOK
\* A step that adds no row and lowers no peak keeps it.
<1>k. ASSUME \A d \in Days, k \in SlotNumbers :
               table'[d][k].state # "absent" => table[d][k].state # "absent",
             peak' = peak
      PROVE  WithinPeak'
  BY <1>k DEF WithinPeak
<1>1. ASSUME NEW m \in Movers, CreateRows(m) PROVE WithinPeak'
  <2> SUFFICES ASSUME NEW d \in Days, NEW k \in SlotNumbers, table'[d][k].state # "absent"
               PROVE  k <= peak'[d]
    BY DEF WithinPeak
  <2>1. limit \in Nat /\ k \in Nat /\ peak[d] \in Nat
    BY <1>p, Bounds DEF TypeOK, SlotNumbers
  <2>2. CASE d # day
    BY <1>1, <2>2 DEF CreateRows, TypeOK, WithinPeak
  <2>3. CASE d = day
    <3>1. /\ table'[d] = CreateMissing(table[d], limit)
          /\ peak'[d] = IF peak[d] < limit THEN limit ELSE peak[d]
      BY <1>1, <2>3 DEF CreateRows, TypeOK
    <3>2. table[d][k].state # "absent" \/ k <= limit
      BY <1>t, <3>1, RowsAdded
    <3>3. k <= peak[d] \/ k <= limit
      BY <3>2 DEF WithinPeak
    <3> QED
      BY <2>1, <3>1, <3>3
  <2> QED
    BY <2>2, <2>3
<1>2. ASSUME NEW m \in Movers, DropRows(m) PROVE WithinPeak'
  <2>1. \A d \in Days, k \in SlotNumbers :
          table'[d][k].state # "absent" => table[d][k].state # "absent"
    <3> DEFINE e == attempt[m].day
               lim == attempt[m].slot
    <3>1. table' = [table EXCEPT ![e] = DropFreeAbove(table[e], lim)]
      BY <1>2 DEF DropRows
    <3>2. \A k \in SlotNumbers :
            e \in Days /\ DropFreeAbove(table[e], lim)[k].state # "absent"
              => table[e][k].state # "absent"
      BY <1>t, RowsAdded
    <3> HIDE DEF e, lim
    <3> QED
      BY <3>1, <3>2 DEF TypeOK
  <2> QED
    BY <1>2, <1>k, <2>1 DEF DropRows
<1>3. ASSUME NEW m \in Movers, ReserveSlot(m) PROVE WithinPeak'
  <2> DEFINE t == MarkExpired(table[day])
             n == LowestFree(t)
  <2>1. t \in Tables /\ day \in Days
    BY <1>t, HarmlessOperations DEF Harmless, TypeOK
  <2>2. \A k \in SlotNumbers : t[k].state # "absent" => table[day][k].state # "absent"
    BY <1>t, <2>1, RowsAdded
  <2>3. CASE FreeNumbers(t) = {}
    <3>1. table' = [table EXCEPT ![day] = t]
      BY <1>3, <2>3 DEF ReserveSlot
    <3> HIDE DEF t
    <3> QED
      BY <1>3, <1>k, <2>2, <3>1 DEF ReserveSlot, TypeOK
  <2>4. CASE FreeNumbers(t) # {}
    <3>1. n \in SlotNumbers /\ t[n].state = "free"
      BY <2>1, <2>4, LowestFreeIsFree
    <3>2. table' = [table EXCEPT ![day] = Reserve(t, n, audits + 1)]
      BY <1>3, <2>4 DEF ReserveSlot
    <3> HIDE DEF t, n
    <3>3. \A k \in SlotNumbers :
            table'[day][k].state # "absent" => t[k].state # "absent"
      BY <2>1, <3>1, <3>2 DEF Reserve, Tables, TypeOK
    <3>4. \A d \in Days : d # day => table'[d] = table[d]
      BY <3>2 DEF TypeOK
    <3> QED
      BY <1>3, <1>k, <2>2, <3>3, <3>4 DEF ReserveSlot
  <2> QED
    BY <2>3, <2>4
<1>4. ASSUME NEW m \in Movers, SettleSlot(m) \/ CatchSettlement(m) PROVE WithinPeak'
  <2> DEFINE d == attempt[m].day
             n == attempt[m].slot
             a == attempt[m].audit
             u(how) == SettledTable(table[d], n, how)
  <2>1. /\ d \in Days /\ n \in SlotNumbers /\ attempt[m].outcome \in Outcomes
        /\ \A out : CaughtAs(out) \subseteq Outcomes
    BY <1>4 DEF SettleSlot, CatchSettlement, CaughtAs, Outcomes, Owned, AnswersKnown,
                AttemptOwns, Live
  <2>2. CASE table' = table
    BY <1>4, <1>k, <2>2 DEF SettleSlot, CatchSettlement
  <2>3. CASE table' # table
    <3>1. PICK how \in Outcomes : table' = [table EXCEPT ![d] = u(how)]
      BY <1>4, <2>1, <2>3 DEF SettleSlot, CatchSettlement
    <3>2. IsReservedBy(table[d], n, a)
      BY <1>4, <2>3 DEF SettleSlot, CatchSettlement
    <3>3. \A k \in SlotNumbers : u(how)[k].state # "absent" => table[d][k].state # "absent"
      BY <1>t, <2>1, <3>2, SettledTableIsTable DEF IsReservedBy
    <3> HIDE DEF d, u
    <3> QED
      BY <1>4, <1>k, <3>1, <3>3 DEF SettleSlot, CatchSettlement, TypeOK
  <2> QED
    BY <2>2, <2>3
<1>5. ASSUME NEW d \in Days, NEW n \in SlotNumbers, SlotLapses(d, n) PROVE WithinPeak'
  <2>1. table' = [table EXCEPT ![d] = [table[d] EXCEPT ![n] =
                    [table[d][n] EXCEPT !.lapsed = TRUE]]]
    BY <1>5 DEF SlotLapses
  <2>2. [table[d][n] EXCEPT !.lapsed = TRUE].state = table[d][n].state
    BY <1>t DEF Tables, Slots
  <2>3. \A e \in Days, k \in SlotNumbers : table'[e][k].state = table[e][k].state
    BY <1>t, <2>1, <2>2 DEF TypeOK, Tables
  <2> QED
    BY <1>5, <1>k, <2>3 DEF SlotLapses
<1>6. ASSUME NEW m \in Movers, SendPatch(m) \/ CancelBeforePatch(m) \/ Crash(m)
      PROVE  WithinPeak'
  BY <1>6, <1>k DEF SendPatch, CancelBeforePatch, Crash
<1>7. CASE NewDay \/ Redeploy \/ UNCHANGED vars
  BY <1>7, <1>k DEF NewDay, Redeploy, vars
<1> QED
  BY <1>1, <1>2, <1>3, <1>4, <1>5, <1>6, <1>7 DEF Next

\* While the rows stand within the peak and moves keep their slot unless it
\* leaked, at most `peak' attempts of a day moved their lead beside its leaks.
LEMMA PeakBoundsMoves == TypeOK /\ Owned /\ WithinPeak => CapHolds
<1> SUFFICES ASSUME TypeOK, Owned, MovesKeepTheirSlot, WithinPeak, NEW d \in Days
             PROVE  Cardinality(moved[d]) <= peak[d] + Cardinality(moved[d] \cap leaked)
  BY DEF CapHolds, Owned
<1>1. peak[d] \in Nat /\ DOMAIN table[d] = SlotNumbers /\ SlotNumbers \subseteq Nat \ {0}
  <2>1. {0} \cup Limits \subseteq Nat
    BY Bounds
  <2>2. peak[d] \in {0} \cup Limits /\ DOMAIN table[d] = SlotNumbers
    BY DEF TypeOK
  <2>3. SlotNumbers \subseteq Nat \ {0}
    BY Bounds DEF SlotNumbers
  <2> QED
    BY <2>1, <2>2, <2>3
<1>2. Spent(table[d]) \subseteq 1..peak[d]
  BY <1>1 DEF WithinPeak, Spent, SpentStates
<1>3. IsFiniteSet(1..peak[d]) /\ Cardinality(1..peak[d]) = peak[d]
  <2>1. 1 \in Int /\ peak[d] \in Int
    BY <1>1
  <2>2. /\ IsFiniteSet(1..peak[d])
        /\ Cardinality(1..peak[d]) = IF 1 > peak[d] THEN 0 ELSE peak[d] - 1 + 1
    BY <2>1, FS_Interval, Zenon
  <2> QED
    BY <1>1, <2>2
<1>4. IsFiniteSet(Spent(table[d])) /\ Cardinality(Spent(table[d])) <= peak[d]
  BY <1>2, <1>3, FS_Subset
<1> DEFINE auditOf == [n \in Spent(table[d]) |-> table[d][n].audit]
<1>5. auditOf \in Surjection(Spent(table[d]), HeldBy(d))
  BY DEF Surjection, HeldBy
<1> HIDE DEF auditOf
<1>6. IsFiniteSet(HeldBy(d)) /\ Cardinality(HeldBy(d)) <= Cardinality(Spent(table[d]))
  BY <1>4, <1>5, FS_Surjection
<1> DEFINE kept == moved[d] \ leaked
           gone == moved[d] \cap leaked
<1>7. kept \in SUBSET HeldBy(d) /\ moved[d] = kept \cup gone /\ kept \cap gone = {}
  BY DEF MovesKeepTheirSlot
<1>8. IsFiniteSet(kept) /\ Cardinality(kept) <= Cardinality(HeldBy(d))
  BY <1>6, <1>7, FS_Subset
<1>9. IsFiniteSet(gone)
  <2>1. moved[d] \subseteq 1..audits /\ audits \in Nat
    BY DEF Owned, AuditsKnown, TypeOK
  <2>2. gone \in SUBSET (1..audits)
    BY <2>1
  <2>3. IsFiniteSet(1..audits)
    <3>1. 1 \in Int /\ audits \in Int
      BY <2>1
    <3> QED
      BY <3>1, FS_Interval
  <2> QED
    BY <2>2, <2>3, FS_Subset
<1> HIDE DEF kept
<1>10. Cardinality(moved[d]) = Cardinality(kept) + Cardinality(gone) - Cardinality(kept \cap gone)
  BY <1>7, <1>8, <1>9, FS_Union
<1>11. Cardinality(kept \cap gone) = 0
  BY <1>7, FS_EmptySet
<1>12. /\ Cardinality(kept) \in Nat /\ Cardinality(HeldBy(d)) \in Nat
       /\ Cardinality(Spent(table[d])) \in Nat /\ Cardinality(gone) \in Nat
  BY <1>4, <1>6, <1>8, <1>9, FS_CardinalityType
<1>13. Cardinality(moved[d]) <= peak[d] + Cardinality(gone)
  <2> HIDE DEF gone
  <2> QED
    BY <1>1, <1>4, <1>6, <1>8, <1>10, <1>11, <1>12
<1> QED
  BY <1>13

-----------------------------------------------------------------------------
(* The table implements the budget.                                        *)

\* The attempts whose slots of a table count against the limit.
Holders(t) == {t[n].audit : n \in Spent(t)}

\* No attempt has two slots of a table.
OneSlotEach(t) == \A n, k \in Spent(t) : t[n].audit = t[k].audit => n = k

\* What the share of a day is returned by: one slot.
SharesInv ==
  /\ audits <= MaxAudits
  /\ \A d \in Days : OneSlotEach(table[d])

\* u has the same slots in use as t, by the same attempts.
SameHolders(t, u) ==
  /\ DOMAIN u = DOMAIN t
  /\ \A n \in DOMAIN t :
       /\ u[n].state \in SpentStates <=> t[n].state \in SpentStates
       /\ t[n].state \in SpentStates => u[n].audit = t[n].audit

\* Ensuring, expiring and confirming change no holder.
LEMMA SameHoldersOperations ==
  ASSUME NEW t \in Tables
  PROVE  /\ SameHolders(t, t)
         /\ \A lim : SameHolders(t, CreateMissing(t, lim))
         /\ \A lim : SameHolders(t, DropFreeAbove(t, lim))
         /\ SameHolders(t, MarkExpired(t))
         /\ \A n \in SlotNumbers : SameHolders(t, [t EXCEPT ![n].lapsed = TRUE])
<1> USE DEF Tables, Slots, SlotStates, SpentStates, SameHolders
<1>1. SameHolders(t, t)
  OBVIOUS
<1>2. \A lim : SameHolders(t, CreateMissing(t, lim))
  BY DEF CreateMissing, FreeSlot
<1>3. \A lim : SameHolders(t, DropFreeAbove(t, lim))
  BY DEF DropFreeAbove, AbsentSlot
<1>4. SameHolders(t, MarkExpired(t))
  BY DEF MarkExpired
<1>5. ASSUME NEW n \in SlotNumbers
      PROVE  SameHolders(t, [t EXCEPT ![n].lapsed = TRUE])
  BY <1>5
<1> QED
  BY <1>1, <1>2, <1>3, <1>4, <1>5

\* Where the holders are the same, the shares are, and each is still one slot.
LEMMA SameShares ==
  ASSUME NEW t, NEW u, SameHolders(t, u)
  PROVE  /\ Holders(u) = Holders(t)
         /\ Spent(u) = Spent(t)
         /\ OneSlotEach(t) => OneSlotEach(u)
<1>1. Spent(u) = Spent(t) /\ \A n \in Spent(t) : u[n].audit = t[n].audit
  BY DEF SameHolders, Spent
<1> QED
  BY <1>1 DEF Holders, OneSlotEach

\* The largest limit deployed is a limit, and none exceeds it.
LEMMA LargestIsLargest ==
  LargestLimit \in Limits /\ \A y \in Limits : y <= LargestLimit
<1> DEFINE Gaps == {MaxSlots - y : y \in Limits}
<1>1. Limits \subseteq 1..MaxSlots /\ MaxSlots \in Nat
  BY LimitsAssumption, BoundsAssumption
<1>2. Gaps \subseteq Nat /\ Gaps # {}
  <2>1. \A y \in Limits : MaxSlots - y \in Nat
    BY <1>1
  <2> QED
    BY <2>1, LimitsAssumption
<1>3. PICK g \in Gaps : \A h \in Gaps : g <= h
  <2> HIDE DEF Gaps
  <2> QED
    BY <1>2, LeastExists
<1>4. PICK x \in Limits : g = MaxSlots - x
  BY <1>3
<1>5. \A y \in Limits : y <= x
  <2> TAKE y \in Limits
  <2>1. MaxSlots - y \in Gaps
    OBVIOUS
  <2>2. MaxSlots - x <= MaxSlots - y
    BY <1>3, <1>4, <2>1
  <2> QED
    BY <1>1, <2>2
<1> QED
  BY <1>5 DEF LargestLimit

\* The four ways a step looks to the budget: it changes no holder, ...
Quietly ==
  /\ \A d \in Days : SameHolders(table[d], table'[d])
  /\ audits' \in {audits, audits + 1} /\ audits' <= MaxAudits
  /\ leaked' = leaked

\* ... it takes slot n of day d, free until then, for a fresh attempt a, ...
TakesShare(d, n, a) ==
  /\ \A e \in Days \ {d} : table'[e] = table[e]
  /\ n \in SlotNumbers \ Spent(table[d])
  /\ table[d][n].state # "absent"
  /\ Spent(table'[d]) = Spent(table[d]) \cup {n}
  /\ table'[d][n].audit = a
  /\ \A k \in Spent(table[d]) : table'[d][k].audit = table[d][k].audit
  /\ a = audits + 1 /\ audits' = a /\ a <= MaxAudits
  /\ moved' = moved /\ leaked' = leaked

\* ... or it gives slot n of day d back, whose attempt a moved nothing or leaks.
GivesShareBack(d, n, a) ==
  /\ \A e \in Days \ {d} : table'[e] = table[e]
  /\ n \in Spent(table[d]) /\ table[d][n].audit = a
  /\ Spent(table'[d]) = Spent(table[d]) \ {n}
  /\ \A k \in Spent(table'[d]) : table'[d][k] = table[d][k]
  /\ \/ a \notin moved[d] /\ leaked' = leaked
     \/ a \in moved[d] /\ leaked' = leaked \cup {a}
  /\ a \in 1..audits /\ audits' = audits /\ moved' = moved

\* The PATCH of an attempt took effect.
MovesItsLead(d, a) ==
  /\ a \in HeldBy(d) /\ a \in 1..audits
  /\ moved' = [moved EXCEPT ![d] = @ \cup {a}]

\* Reserving a slot takes a share or, where none is free, changes no holder.
LEMMA ReserveKind ==
  ASSUME TypeOK, SharesInv, NEW m \in Movers, ReserveSlot(m)
  PROVE  \/ Quietly /\ moved' = moved
         \/ \E d \in Days, n \in SlotNumbers, a \in 1..MaxAudits : TakesShare(d, n, a)
<1> DEFINE t == MarkExpired(table[day])
           n == LowestFree(t)
<1>1. /\ t \in Tables /\ SameHolders(table[day], t) /\ day \in Days /\ audits \in Nat
      /\ \A d \in Days : table[d] \in Tables /\ SameHolders(table[d], table[d])
  BY HarmlessOperations, SameHoldersOperations DEF Harmless, TypeOK, Tables
<1>2. /\ audits' = audits + 1 /\ audits + 1 <= MaxAudits /\ moved' = moved
      /\ audits + 1 \in 1..MaxAudits /\ leaked' = leaked
  BY <1>1, BoundsAssumption DEF ReserveSlot
<1>3. CASE FreeNumbers(t) = {}
  <2>1. table' = [table EXCEPT ![day] = t]
    BY <1>3 DEF ReserveSlot
  <2> HIDE DEF t
  <2> QED
    BY <1>1, <1>2, <2>1 DEF Quietly, TypeOK
<1>4. CASE FreeNumbers(t) # {}
  <2>1. n \in SlotNumbers /\ t[n].state = "free"
    BY <1>1, <1>4, LowestFreeIsFree
  <2>2. table' = [table EXCEPT ![day] = Reserve(t, n, audits + 1)]
    BY <1>4 DEF ReserveSlot
  <2>3. Spent(table[day]) = Spent(t)
    BY <1>1, SameShares
  <2>4. table[day][n].state # "absent"
    BY <2>1, <1>1 DEF MarkExpired, TypeOK
  <2>5. n \notin Spent(t)
    BY <2>1 DEF Spent, SpentStates
  <2>6. \A k \in Spent(t) : t[k].audit = table[day][k].audit
    BY <1>1, <2>3 DEF SameHolders, Spent
  <2> HIDE DEF t, n
  <2>7. /\ DOMAIN t = SlotNumbers /\ table'[day] = Reserve(t, n, audits + 1)
        /\ \A e \in Days \ {day} : table'[e] = table[e]
    BY <1>1, <2>2 DEF Tables, TypeOK
  <2>8. /\ Spent(table'[day]) = Spent(t) \cup {n}
        /\ table'[day][n].audit = audits + 1
        /\ \A k \in Spent(t) : table'[day][k].audit = t[k].audit
    BY <2>1, <2>5, <2>7 DEF Reserve, Spent, SpentStates
  <2>9. TakesShare(day, n, audits + 1)
    BY <1>2, <2>1, <2>3, <2>4, <2>5, <2>6, <2>7, <2>8 DEF TakesShare
  <2> QED
    BY <1>1, <1>2, <2>1, <2>9
<1> QED
  BY <1>3, <1>4

\* Settling changes no holder, or gives the share of a move that did not
\* happen, or leaks, back.
LEMMA SettledAsKind ==
  ASSUME SlotsInv, SharesInv, NEW m \in Movers, attempt[m].pc = "answered",
         IsReservedBy(table[attempt[m].day], attempt[m].slot, attempt[m].audit),
         NEW how \in Outcomes,
         table' = [table EXCEPT ![attempt[m].day] =
                     SettledTable(table[attempt[m].day], attempt[m].slot, how)],
         audits' = audits, moved' = moved,
         leaked' = IF how = "not_moved" /\ attempt[m].audit \in moved[attempt[m].day]
                   THEN leaked \cup {attempt[m].audit} ELSE leaked
  PROVE  \/ Quietly /\ moved' = moved
         \/ \E d \in Days, n \in SlotNumbers, a \in 1..MaxAudits : GivesShareBack(d, n, a)
<1> DEFINE d == attempt[m].day
           n == attempt[m].slot
           a == attempt[m].audit
           u == SettledTable(table[d], n, how)
<1>1. /\ d \in Days /\ n \in SlotNumbers /\ a \in 1..audits
      /\ audits \in Nat /\ audits <= MaxAudits
      /\ \A e \in Days : table[e] \in Tables /\ SameHolders(table[e], table[e])
  BY SameHoldersOperations DEF SlotsInv, Owned, AttemptOwns, AuditsKnown, Live,
     SharesInv, TypeOK, Tables
<1>2. table' = [table EXCEPT ![d] = u]
  OBVIOUS
<1>l. leaked' = IF how = "not_moved" /\ a \in moved[d] THEN leaked \cup {a} ELSE leaked
  OBVIOUS
<1>3. /\ u \in Tables /\ \A k \in SlotNumbers : k # n => u[k] = table[d][k]
      /\ how # "not_moved" => u[n].audit = table[d][n].audit /\ u[n].state \in SpentStates
      /\ how = "not_moved" => u[n] = FreeSlot
  BY <1>1, SettledTableIsTable
<1>4. n \in Spent(table[d]) /\ table[d][n].audit = a /\ DOMAIN table[d] = SlotNumbers
  BY <1>1 DEF IsReservedBy, Spent, SpentStates, Tables
<1> HIDE DEF u, d, n, a
<1>5. /\ table'[d] = u /\ DOMAIN u = SlotNumbers
      /\ \A e \in Days \ {d} : table'[e] = table[e]
  BY <1>1, <1>2, <1>3 DEF SlotsInv, TypeOK, Tables
<1>6. CASE how = "not_moved"
  <2>1. Spent(u) = Spent(table[d]) \ {n}
    BY <1>3, <1>4, <1>5, <1>6 DEF Spent, SpentStates, FreeSlot
  <2>2. \A k \in Spent(u) : u[k] = table[d][k]
    BY <1>3, <1>5, <2>1 DEF Spent
  <2>3. GivesShareBack(d, n, a)
    BY <1>1, <1>l, <1>4, <1>5, <1>6, <2>1, <2>2 DEF GivesShareBack
  <2> QED
    BY <1>1, <2>3, BoundsAssumption
<1>7. CASE how # "not_moved"
  <2>1. SameHolders(table[d], u)
    BY <1>3, <1>4, <1>5, <1>7 DEF SameHolders, Spent
  <2> QED
    BY <1>1, <1>l, <1>5, <1>7, <2>1 DEF Quietly
<1> QED
  BY <1>6, <1>7

\* The settlement, and that of the catch block, are of these kinds.
LEMMA SettleKind ==
  ASSUME SlotsInv, SharesInv, NEW m \in Movers, SettleSlot(m) \/ CatchSettlement(m)
  PROVE  \/ Quietly /\ moved' = moved
         \/ \E d \in Days, n \in SlotNumbers, a \in 1..MaxAudits : GivesShareBack(d, n, a)
<1> DEFINE d == attempt[m].day
           n == attempt[m].slot
           a == attempt[m].audit
           out == attempt[m].outcome
<1>1. /\ attempt[m].pc = "answered" /\ out \in Outcomes
      /\ audits' = audits /\ moved' = moved
      /\ out = "not_moved" => a \notin moved[d]
  BY DEF SettleSlot, CatchSettlement, SlotsInv, Owned, AnswersKnown, NotYetMoved
<1>2. ASSUME SettleSlot(m), ~IsReservedBy(table[d], n, a) PROVE Quietly
  <2>1. table' = table /\ leaked' = leaked /\ audits \in Nat /\ audits <= MaxAudits
    BY <1>2 DEF SettleSlot, SharesInv, SlotsInv, TypeOK
  <2>2. \A e \in Days : SameHolders(table[e], table[e])
    BY SameHoldersOperations DEF SlotsInv, TypeOK, Tables
  <2> QED
    BY <1>1, <2>1, <2>2 DEF Quietly
<1>3. ASSUME SettleSlot(m), IsReservedBy(table[d], n, a)
      PROVE  \/ Quietly /\ moved' = moved
             \/ \E e \in Days, k \in SlotNumbers, b \in 1..MaxAudits : GivesShareBack(e, k, b)
  <2>1. table' = [table EXCEPT ![d] = SettledTable(table[d], n, out)] /\ leaked' = leaked
    BY <1>3 DEF SettleSlot
  <2>2. leaked' = IF out = "not_moved" /\ a \in moved[d] THEN leaked \cup {a} ELSE leaked
    BY <1>1, <2>1
  <2> QED
    BY <1>1, <1>3, <2>1, <2>2, SettledAsKind
<1>4. ASSUME CatchSettlement(m)
      PROVE  \/ Quietly /\ moved' = moved
             \/ \E e \in Days, k \in SlotNumbers, b \in 1..MaxAudits : GivesShareBack(e, k, b)
  <2>1. PICK how \in CaughtAs(out) :
          /\ table' = [table EXCEPT ![d] = SettledTable(table[d], n, how)]
          /\ leaked' = IF how = "not_moved" /\ out = "uncertain" /\ a \in moved[d]
                       THEN leaked \cup {a} ELSE leaked
    BY <1>4 DEF CatchSettlement
  <2>2. IsReservedBy(table[d], n, a) /\ how \in Outcomes
        /\ (how = "not_moved" => out # "confirmed")
    BY <1>1, <1>4 DEF CatchSettlement, CaughtAs, Outcomes
  <2> HIDE DEF d, n, a, out
  <2>3. leaked' = IF how = "not_moved" /\ a \in moved[d] THEN leaked \cup {a} ELSE leaked
    <3>1. how = "not_moved" /\ a \in moved[d] => out = "uncertain"
      BY <1>1, <2>2 DEF Outcomes
    <3> QED
      BY <2>1, <3>1
  <2> QED
    BY <1>1, <2>1, <2>2, <2>3, SettledAsKind DEF d, n, a, out
<1> QED
  BY <1>1, <1>2, <1>3, <1>4 DEF CatchSettlement

\* Every step is of one of the four kinds.
LEMMA StepKinds ==
  ASSUME SlotsInv, SharesInv, [Next]_vars
  PROVE  \/ Quietly /\ moved' = moved
         \/ Quietly /\ \E d \in Days, a \in 1..MaxAudits : MovesItsLead(d, a)
         \/ \E d \in Days, n \in SlotNumbers, a \in 1..MaxAudits :
              TakesShare(d, n, a) \/ GivesShareBack(d, n, a)
<1>t. /\ TypeOK /\ audits \in Nat /\ audits <= MaxAudits
      /\ \A d \in Days : table[d] \in Tables /\ SameHolders(table[d], table[d])
  BY SameHoldersOperations DEF SlotsInv, SharesInv, TypeOK, Tables
<1>q. audits' = audits /\ moved' = moved /\ leaked' = leaked
      /\ (\A d \in Days : SameHolders(table[d], table'[d])) => Quietly /\ moved' = moved
  BY <1>t DEF Quietly
<1>1. ASSUME NEW m \in Movers, CreateRows(m) PROVE Quietly /\ moved' = moved
  <2>1. \A d \in Days : SameHolders(table[d], table'[d])
    BY <1>1, <1>t, SameHoldersOperations DEF CreateRows, TypeOK
  <2> QED
    BY <1>1, <1>q, <2>1 DEF CreateRows
<1>2. ASSUME NEW m \in Movers, DropRows(m) PROVE Quietly /\ moved' = moved
  <2>1. \A d \in Days : SameHolders(table[d], table'[d])
    BY <1>2, <1>t, SameHoldersOperations DEF DropRows, TypeOK
  <2> QED
    BY <1>2, <1>q, <2>1 DEF DropRows
<1>4. ASSUME NEW m \in Movers, SendPatch(m)
      PROVE  Quietly /\ \/ moved' = moved
                        \/ \E d \in Days, a \in 1..MaxAudits : MovesItsLead(d, a)
  <2> DEFINE d == attempt[m].day
             a == attempt[m].audit
  <2>1. Quietly
    BY <1>4, <1>t DEF SendPatch, Quietly
  <2>2. moved' = moved \/ moved' = [moved EXCEPT ![d] = @ \cup {a}]
    BY <1>4 DEF SendPatch
  <2>3. Live(m) /\ d \in Days /\ a \in 1..audits /\ a \in HeldBy(d)
    BY <1>4 DEF SendPatch, Live, SlotsInv, Owned, AttemptOwns, AuditsKnown,
       HeldBy, Spent, SpentStates, Pending, TypeOK
  <2>4. a \in 1..MaxAudits
    BY <1>t, <2>3, BoundsAssumption
  <2> HIDE DEF d, a
  <2> QED
    BY <2>1, <2>2, <2>3, <2>4 DEF MovesItsLead
<1>8. ASSUME NEW d \in Days, NEW n \in SlotNumbers, SlotLapses(d, n)
      PROVE  Quietly /\ moved' = moved
  <2>1. table' = [table EXCEPT ![d] = [table[d] EXCEPT ![n].lapsed = TRUE]]
    BY <1>8 DEF SlotLapses
  <2>2. SameHolders(table[d], [table[d] EXCEPT ![n].lapsed = TRUE])
    BY <1>t, SameHoldersOperations
  <2>3. \A e \in Days : SameHolders(table[e], table'[e])
    BY <1>t, <2>1, <2>2 DEF TypeOK
  <2> QED
    BY <1>8, <1>q, <2>3 DEF SlotLapses
<1>9. ASSUME \/ \E m \in Movers : CancelBeforePatch(m) \/ Crash(m)
             \/ NewDay \/ Redeploy \/ UNCHANGED vars
      PROVE  Quietly /\ moved' = moved
  BY <1>9, <1>t, <1>q DEF CancelBeforePatch, Crash, NewDay, Redeploy, vars
<1> QED
  BY <1>t, <1>1, <1>2, <1>4, <1>8, <1>9, ReserveKind, SettleKind DEF Next

\* An attempt keeps to one slot of a day.
LEMMA SharesStep == SlotsInv /\ SharesInv /\ [Next]_vars => SharesInv'
<1> SUFFICES ASSUME SlotsInv, SharesInv, [Next]_vars PROVE SharesInv'
  OBVIOUS
<1>1. CASE Quietly
  BY <1>1, SameShares DEF Quietly, SharesInv
<1>2. ASSUME NEW d \in Days, NEW n \in SlotNumbers, NEW a \in 1..MaxAudits,
             TakesShare(d, n, a)
      PROVE  SharesInv'
  <2>1. \A k \in Spent(table[d]) : table[d][k].audit # a
    BY <1>2, AuditAssumption DEF TakesShare, SlotsInv, Owned, AuditsKnown, Spent, TypeOK
  <2>2. OneSlotEach(table'[d])
    BY <1>2, <2>1 DEF TakesShare, OneSlotEach, SharesInv
  <2> QED
    BY <1>2, <2>2 DEF TakesShare, SharesInv
<1>3. ASSUME NEW d \in Days, NEW n \in SlotNumbers, NEW a \in 1..MaxAudits,
             GivesShareBack(d, n, a)
      PROVE  SharesInv'
  <2>1. OneSlotEach(table'[d])
    BY <1>3 DEF GivesShareBack, OneSlotEach, SharesInv
  <2> QED
    BY <1>3, <2>1 DEF GivesShareBack, SharesInv
<1> QED
  BY <1>1, <1>2, <1>3, StepKinds

\* The shares of every day, as the budget sees them.
Shares == [d \in Days |-> HeldBy(d)]

\* Until a free row is taken, a day has given out less than its largest limit.
LEMMA ShareLeft ==
  ASSUME SlotsInv, NEW d \in Days, NEW n \in SlotNumbers \ Spent(table[d]),
         table[d][n].state # "absent"
  PROVE  Cardinality(HeldBy(d)) < LargestLimit
<1> DEFINE S == Spent(table[d])
<1>1. /\ peak[d] \in Nat /\ n \in Nat /\ DOMAIN table[d] = SlotNumbers
      /\ SlotNumbers \subseteq Nat \ {0} /\ peak[d] \in {0} \cup Limits
  <2>1. {0} \cup Limits \subseteq Nat /\ SlotNumbers \subseteq Nat \ {0}
    BY Bounds DEF SlotNumbers
  <2>2. peak[d] \in {0} \cup Limits /\ DOMAIN table[d] = SlotNumbers
    BY DEF SlotsInv, TypeOK
  <2> QED
    BY <2>1, <2>2
<1>2. S \cup {n} \subseteq 1..peak[d]
  <2>1. \A k \in SlotNumbers : table[d][k].state # "absent" => k <= peak[d]
    BY DEF SlotsInv, WithinPeak
  <2>2. \A k \in S \cup {n} : k \in SlotNumbers /\ table[d][k].state # "absent"
    BY <1>1 DEF Spent, SpentStates
  <2>3. \A k \in S \cup {n} : k \in Nat \ {0} /\ k <= peak[d]
    BY <1>1, <2>1, <2>2
  <2> HIDE DEF S
  <2> QED
    BY <1>1, <2>3
<1>3. IsFiniteSet(1..peak[d]) /\ Cardinality(1..peak[d]) = peak[d]
  <2>1. 1 \in Int /\ peak[d] \in Int
    BY <1>1
  <2>2. /\ IsFiniteSet(1..peak[d])
        /\ Cardinality(1..peak[d]) = IF 1 > peak[d] THEN 0 ELSE peak[d] - 1 + 1
    BY <2>1, FS_Interval, Zenon
  <2> QED
    BY <1>1, <2>2
<1>4. IsFiniteSet(S \cup {n}) /\ Cardinality(S \cup {n}) <= peak[d]
  BY <1>2, <1>3, FS_Subset
<1>5. IsFiniteSet(S)
  <2>1. S \in SUBSET (S \cup {n})
    OBVIOUS
  <2> QED
    BY <1>4, <2>1, FS_Subset
<1>6. Cardinality(S \cup {n}) = Cardinality(S) + 1
  BY <1>5, FS_AddElement
<1> DEFINE auditOf == [k \in S |-> table[d][k].audit]
<1>7. auditOf \in Surjection(S, HeldBy(d))
  BY DEF Surjection, HeldBy
<1> HIDE DEF auditOf, S
<1>8. IsFiniteSet(HeldBy(d)) /\ Cardinality(HeldBy(d)) <= Cardinality(S)
  BY <1>5, <1>7, FS_Surjection
<1>9. Cardinality(HeldBy(d)) \in Nat /\ Cardinality(S) \in Nat
  BY <1>5, <1>8, FS_CardinalityType
<1>10. peak[d] \in Limits
  BY <1>1, <1>2
<1>11. peak[d] <= LargestLimit /\ LargestLimit \in Nat
  BY <1>10, LargestIsLargest, Bounds
<1> QED
  BY <1>1, <1>4, <1>6, <1>8, <1>9, <1>11

\* Every step takes a share, gives one back, leaks one, moves a lead within its share, or
\* is none of the budget's.
LEMMA BudgetStep ==
  SlotsInv /\ SharesInv /\ [Next]_vars => [Budget!Next]_(Budget!vars)
<1> SUFFICES ASSUME SlotsInv, SharesInv, [Next]_vars PROVE [Budget!Next]_(Budget!vars)
  OBVIOUS
<1>h. /\ Shares = [d \in Days |-> Holders(table[d])]
      /\ Shares' = [d \in Days |-> Holders(table'[d])]
      /\ \A d \in Days : HeldBy(d) = Holders(table[d])
  BY DEF Shares, HeldBy, Holders
<1>q. ASSUME Quietly PROVE Shares' = Shares
  BY <1>h, <1>q, SameShares DEF Quietly
<1>1. CASE Quietly /\ moved' = moved
  BY <1>1, <1>q DEF Budget!vars, Shares, Quietly
<1>2. ASSUME Quietly, NEW d \in Days, NEW a \in 1..MaxAudits, MovesItsLead(d, a)
      PROVE  Budget!Next
  <2>1. Budget!Move(d, a)
    BY <1>2, <1>q DEF MovesItsLead, Budget!Move, Shares, Quietly
  <2> QED
    BY <2>1 DEF Budget!Next
<1>3. ASSUME NEW d \in Days, NEW n \in SlotNumbers, NEW a \in 1..MaxAudits,
             TakesShare(d, n, a)
      PROVE  Budget!Next
  <2>1. Cardinality(HeldBy(d)) < LargestLimit
    BY <1>3, ShareLeft DEF TakesShare
  <2>2. a \notin HeldBy(d)
    BY <1>3, AuditAssumption DEF TakesShare, SlotsInv, Owned, AuditsKnown, HeldBy, Spent, TypeOK
  <2>3. Holders(table'[d]) = Holders(table[d]) \cup {a}
    BY <1>3 DEF TakesShare, Holders
  <2>4. Shares' = [Shares EXCEPT ![d] = @ \cup {a}]
    BY <1>h, <1>3, <2>3 DEF TakesShare
  <2>5. Shares[d] = HeldBy(d) /\ moved' = moved /\ leaked' = leaked
    BY <1>3 DEF Shares, TakesShare
  <2>6. /\ a \notin Shares[d] /\ Cardinality(Shares[d]) < LargestLimit
        /\ Shares' = [Shares EXCEPT ![d] = Shares[d] \cup {a}]
    BY <2>1, <2>2, <2>4, <2>5
  <2>7. Budget!Cardinality(Shares[d]) = Cardinality(Shares[d])
    BY DEF Budget!Cardinality, Cardinality
  <2>8. Budget!Take(d, a)
    BY <2>5, <2>6, <2>7 DEF Budget!Take, Shares
  <2> QED
    BY <2>8 DEF Budget!Next
<1>4. ASSUME NEW d \in Days, NEW n \in SlotNumbers, NEW a \in 1..MaxAudits,
             GivesShareBack(d, n, a)
      PROVE  Budget!Next
  <2>1. a \in Shares[d]
    BY <1>4 DEF GivesShareBack, HeldBy, Shares
  <2>2. Holders(table'[d]) = Holders(table[d]) \ {a}
    BY <1>4 DEF GivesShareBack, Holders, SharesInv, OneSlotEach
  <2>3. Shares' = [Shares EXCEPT ![d] = @ \ {a}]
    BY <1>h, <1>4, <2>2 DEF GivesShareBack
  <2>4. CASE a \notin moved[d]
    <3>1. Budget!GiveBack(d, a)
      BY <1>4, <2>1, <2>3, <2>4 DEF Budget!GiveBack, Shares, GivesShareBack
    <3> QED
      BY <3>1 DEF Budget!Next
  <2>5. CASE a \in moved[d]
    <3>1. Budget!Leak(d, a)
      BY <1>4, <2>1, <2>3, <2>5 DEF Budget!Leak, Shares, GivesShareBack
    <3> QED
      BY <3>1 DEF Budget!Next
  <2> QED
    BY <2>4, <2>5
<1> QED
  BY <1>1, <1>2, <1>3, <1>4, StepKinds

\* Initially no share is out.
LEMMA BudgetInit == Init => Budget!Init
<1> SUFFICES ASSUME Init PROVE Budget!Init
  OBVIOUS
<1>1. \A d \in Days : HeldBy(d) = {}
  BY DEF Init, HeldBy, Spent, SpentStates, AbsentSlot
<1> QED
  BY <1>1 DEF Budget!Init, Init

-----------------------------------------------------------------------------
(* The theorems.                                                           *)

\* The inductive invariant holds in every reachable state.
LEMMA Inductive == Spec => []SlotsInv
<1>1. Init => SlotsInv
  <2>1. Init => WithinPeak
    BY DEF Init, WithinPeak, AbsentSlot
  <2> QED
    BY <2>1, TypeInit, OwnedInit DEF SlotsInv
<1>2. SlotsInv /\ [Next]_vars => SlotsInv'
  BY TypeStep, OwnedStep, PeakStep DEF SlotsInv
<1> QED
  BY <1>1, <1>2, PTL DEF Spec

\* The state of the slot tables, the movers and amoCRM stays well typed,
\* whatever the replicas, the sweeps and the limits deployed.
THEOREM TypeCorrect == Spec => []TypeOK
<1>1. SlotsInv => TypeOK
  BY DEF SlotsInv
<1> QED
  BY <1>1, Inductive, PTL

\* Every move keeps a slot of its operational day, however late its settlement,
\* whoever crashed and whatever lease expired, unless the move was uncertain, the
\* worker failed to mark its slot and the catch block released it (the
\* settlement and expiry statements of leadInactivityPrismaPersistence.ts and
\* the catch block of leadInactivityWorker.ts).
THEOREM MovesKept == Spec => []MovesKeepTheirSlot
<1>1. SlotsInv => MovesKeepTheirSlot
  BY DEF SlotsInv, Owned
<1> QED
  BY <1>1, Inductive, PTL

\* The worker and the sweeps together never move more leads on an operational
\* day than the largest limit its slots were ensured for and the number of its
\* moves whose slot the worker's catch block released.
THEOREM CapSafe == Spec => []CapHolds
<1>1. SlotsInv => CapHolds
  BY PeakBoundsMoves DEF SlotsInv
<1> QED
  BY <1>1, Inductive, PTL

\* The slot tables of the worker and the sweeps implement the daily budget of
\* MoveBudget: whatever fails, crashes, expires or is redeployed, a reservation
\* is a share taken, no move happens without a share, and a share comes back
\* only if its lead did not move or as a leak on record.
THEOREM ImplementsBudget == Spec => BudgetSpec
<1>1. Init => SharesInv
  BY BoundsAssumption DEF Init, SharesInv, OneSlotEach, Spent, SpentStates, AbsentSlot
<1>2. Spec => []SharesInv
  BY <1>1, Inductive, SharesStep, PTL DEF Spec
<1> QED
  BY <1>2, Inductive, BudgetInit, BudgetStep, PTL DEF Spec, BudgetSpec, Budget!Spec
=============================================================================
