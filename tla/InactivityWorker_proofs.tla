----------------------- MODULE InactivityWorker_proofs -----------------------
(***************************************************************************)
(* The worker sends one PATCH at a time, and slots, watches and audit rows *)
(* tell the truth of its moves, for any number of passes, leads, slots,    *)
(* touches and failures.                                                   *)
(***************************************************************************)
EXTENDS InactivityWorker, FiniteSetTheorems, WellFoundedInduction, TLAPS

\* The steps of a claim: before the PATCH, up to its read-back, and after it.
Early == {"claimed", "history", "recording", "checking", "testing", "beginning", "refreshing",
          "reserving", "fencing", "dispatching"}
Settling == {"slot", "watch", "audit"}
Catching == {"catch_slot", "catch_watch", "catch_audit"}
Idle == {"ready", "starting", "listing", "claiming"}
Working == Early \cup {"reading_back"} \cup Settling \cup Catching

\* The steps between the reservation of a testing slot and the PATCH.
PastTesting == {"beginning", "refreshing", "fencing", "dispatching"}

Slots == 1..setup.limit

\* Slot n of a table is spent by the claim a.
Has(t, n, a) == t[n].state \in SpentStates /\ t[n].audit = a

-----------------------------------------------------------------------------
(* The inductive invariant.                                                *)

\* A claim that has not begun has left nothing anywhere.
Fresh(a) ==
  /\ a \notin took /\ verdict[a] = "none" /\ audit[a] = "none"
  /\ \A n \in Slots : ~Has(table, n, a)

\* A pass claims a lead once.
Once(p) ==
  /\ job[p].todo \subseteq setup.leads
  /\ job[p].pc \in {"ready", "starting", "listing"} => \A l \in Leads : Fresh(<<p, l>>)
  /\ \A l \in job[p].todo : Fresh(<<p, l>>)
  /\ job[p].pc \in Working => Lead(p) \in setup.leads \ job[p].todo
  /\ job[p].pc \in Idle =>
       job[p].slot = 0 /\ job[p].out = "none" /\ ~job[p].slotDone /\ ~job[p].watchDone

\* What the locals of a claim say of its PATCH and its audit row.
Knows(p) ==
  /\ job[p].pc \in Early => AuditId(p) \notin took
  /\ job[p].pc = "reading_back" => AuditId(p) \in took
  /\ job[p].pc \in Early \cup {"reading_back"} => verdict[AuditId(p)] = "none" /\ job[p].out = "none"
  /\ job[p].pc \in (Early \cup {"reading_back"}) \ {"claimed"} => audit[AuditId(p)] = "reserved"
  /\ job[p].pc = "claimed" => audit[AuditId(p)] = "none"
  /\ job[p].pc \in Settling => job[p].out \in DOMAIN Settles
  /\ job[p].pc = "watch" => job[p].out # "superseded"
  /\ job[p].pc \in Settling \cup Catching =>
       /\ \A v \in {"confirmed", "uncertain"} : job[p].out = v <=> verdict[AuditId(p)] = v
       /\ verdict[AuditId(p)] = "none" => AuditId(p) \notin took

\* What the locals of a claim say of its slot: the only one it spends.
Owns(p) ==
  LET n == job[p].slot IN
  /\ job[p].pc \in Working => \A k \in Slots : Has(table, k, AuditId(p)) => k = n
  /\ job[p].pc \in {"claimed", "history", "recording", "checking", "testing", "reserving"} => n = 0
  /\ job[p].pc \in {"beginning", "refreshing"} /\ Mode = "capped" => n = 0
  /\ job[p].pc \in Early \cup {"reading_back", "slot"} /\ n # 0 =>
       Has(table, n, AuditId(p)) /\ table[n].state \in {"reserved", "uncertain"}
  /\ job[p].pc \in PastTesting /\ Mode = "testing" => n # 0
  /\ job[p].pc \in {"fencing", "dispatching", "reading_back"} /\ Mode # "uncapped" => n # 0
  /\ job[p].pc \in {"slot", "catch_slot"} => n # 0
  /\ job[p].pc = "testing" => Mode = "testing"
  /\ job[p].pc = "reserving" => Mode = "capped"

\* What the locals of a claim say of its settlement.
Ends(p) ==
  LET n == job[p].slot IN
  /\ job[p].pc \in Early \cup {"reading_back", "slot", "catch_slot"} => ~job[p].slotDone
  /\ job[p].pc \in Early \cup {"reading_back", "slot", "watch", "catch_watch"} => ~job[p].watchDone
  /\ job[p].pc \in Settling \cup Catching =>
       /\ job[p].out = "confirmed" /\ Mode # "uncapped" => n # 0
       /\ job[p].slotDone => n # 0 /\ Has(table, n, AuditId(p)) /\ table[n].state = "confirmed"
                             /\ job[p].out = "confirmed"
       /\ job[p].watchDone /\ job[p].out = "confirmed" /\ n # 0 => job[p].slotDone
  /\ job[p].pc \in {"watch", "audit"} /\ job[p].out = "confirmed" /\ n # 0 => job[p].slotDone
  /\ job[p].pc \in {"catch_slot", "catch_watch"} /\ job[p].out = "confirmed" => ~job[p].safe
  /\ \/ job[p].pc = "watch" /\ job[p].out \notin {"confirmed", "uncertain"}
     \/ job[p].pc = "catch_watch" /\ job[p].safe
     => \A k \in Slots : ~Has(table, k, AuditId(p))
  /\ faults = 0 /\ job[p].pc \in {"watch", "catch_slot"} /\ n # 0 => ~SlotIsMine(p)

\* What slots, verdicts and audit rows say of a claim for good.
Truth(a) ==
  /\ /\ Mode # "uncapped" /\ a \in took
     /\ verdict[a] = "confirmed" \/ (faults = 0 /\ verdict[a] # "not_moved")
     => \E n \in Slots : Has(table, n, a)
  /\ verdict[a] = "confirmed" => audit[a] \in {"reserved", "confirmed", "uncertain"}
  /\ audit[a] = "confirmed" => verdict[a] = "confirmed"

\* A pass about to send holds the run lease.
SendersHoldRun == \A p \in Passes : At(p, "dispatching") => HoldsRun(p)

\* In testing, to the pass that holds the run lease every other pass at work is old
\* that may have moved a lead, and whoever is old to another.
Overtaken(p) ==
  /\ \A q \in Passes \ {p}, l \in Leads, n \in Slots :
       table[n].state = "reserved" /\ table[n].audit = <<q, l>> /\ <<q, l>> \in took /\ ~At(q, "done")
       => q \in job[p].old
  /\ \A q \in Passes : job[q].old \subseteq job[p].old
  /\ p \notin job[p].old

\* Once it has its slot, no move of theirs is open, nor will be.
NothingOpen(p) ==
  \A q \in Passes, l \in Leads, n \in Slots :
    table[n].audit = <<q, l>> /\ <<q, l>> \in took =>
      /\ table[n].state # "uncertain"
      /\ table[n].state = "reserved" => q \notin job[p].old

Alone ==
  Mode = "testing" =>
    \A p \in Passes : HoldsRun(p) =>
      /\ job[p].pc \notin {"ready", "done"} => Overtaken(p)
      /\ job[p].pc \in PastTesting => NothingOpen(p)

\* A slot in use is of a claim.
SlotsAreClaims == \A n \in Slots : table[n].state \in SpentStates => table[n].audit \in AuditIds

\* Who is old has begun.
OldHaveBegun == \A p, q \in Passes : At(p, "ready") => p \notin job[q].old

IInv ==
  /\ TypeOK /\ SlotsAreClaims /\ OldHaveBegun
  /\ \A p \in Passes : Once(p) /\ Knows(p) /\ Owns(p) /\ Ends(p)
  /\ \A a \in AuditIds : Truth(a)
  /\ MovedIsReal /\ SendersHoldRun /\ Alone

-----------------------------------------------------------------------------
(* Rows.                                                                   *)

SlotRows == [state : SlotStates, audit : AuditIds \cup {NoAudit}, lapsed : BOOLEAN]
Tables == [Slots -> SlotRows]
WatchRows == [state : WatchStates, at : 1..MaxTouch, recv : 0..2, fp : Fingerprints, cycle : Nat,
              gen : Nat, token : Passes \cup {NoToken}, due : BOOLEAN, lapsed : BOOLEAN]
Events == [fp : Fingerprints, at : 1..MaxTouch, recv : 0..2]

\* A setup is what the assumption says.
LEMMA SetupFacts ==
  ASSUME TypeOK
  PROVE  /\ setup.mode \in {"testing", "capped", "uncapped"} /\ setup.leads \subseteq Leads
         /\ setup.limit \in Nat /\ MaxTouch \in Nat \ {0} /\ setup.faults \in Nat
BY SetupAssumption DEF TypeOK, MaxTouch

\* What each operation on a watch leaves: a row, and whether it reads moved.
LEMMA WatchFacts ==
  ASSUME NEW w \in WatchRows
  PROVE  /\ BeginMove(w) \in WatchRows /\ BeginMove(w).state = "mutating"
         /\ ReleaseLease(w) \in WatchRows /\ ReleaseLease(w).state = "watching"
         /\ StopClear(w) \in WatchRows /\ StopClear(w).state \in {w.state, "skipped"}
         /\ [w EXCEPT !.due = TRUE] \in WatchRows /\ [w EXCEPT !.due = TRUE].state = w.state
         /\ \A p \in Passes : Claim(w, p) \in WatchRows /\ Claim(w, p).state = "leased"
         /\ \A s \in WatchStates : Finish(w, s) \in WatchRows /\ Finish(w, s).state = s
         /\ \A e \in Events : RecordEvent(w, e) \in WatchRows
                              /\ RecordEvent(w, e).state \in {w.state, "watching", "uncertain"}
<1> USE DEF WatchRows, WatchStates
<1>1. BeginMove(w) \in WatchRows /\ BeginMove(w).state = "mutating"
  BY DEF BeginMove
<1>2. ReleaseLease(w) \in WatchRows /\ ReleaseLease(w).state = "watching"
  BY DEF ReleaseLease
<1>3. StopClear(w) \in WatchRows /\ StopClear(w).state \in {w.state, "skipped"}
  BY DEF StopClear
<1>4. [w EXCEPT !.due = TRUE] \in WatchRows /\ [w EXCEPT !.due = TRUE].state = w.state
  OBVIOUS
<1>5. ASSUME NEW p \in Passes PROVE Claim(w, p) \in WatchRows /\ Claim(w, p).state = "leased"
  <2>1. w.gen + 1 \in Nat /\ p \in Passes \cup {NoToken}
    OBVIOUS
  <2> QED BY <2>1 DEF Claim
<1>6. \A s \in WatchStates : Finish(w, s) \in WatchRows /\ Finish(w, s).state = s
  BY DEF Finish
<1>7. ASSUME NEW e \in Events
      PROVE  RecordEvent(w, e) \in WatchRows
             /\ RecordEvent(w, e).state \in {w.state, "watching", "uncertain"}
  <2>1. w.state # "none" /\ w.cycle + 1 \in Nat
    OBVIOUS
  <2>2. Advance(w, e) \in WatchRows /\ Advance(w, e).state = "watching"
    BY <2>1, <1>7 DEF Advance, Events
  <2>3. OrderConflict(w) \in WatchRows /\ OrderConflict(w).state = "uncertain"
    BY DEF OrderConflict
  <2>4. RecordEvent(w, e) \in {Advance(w, e), OrderConflict(w), w}
    BY <2>1 DEF RecordEvent
  <2> QED BY <2>2, <2>3, <2>4
<1> QED BY <1>1, <1>2, <1>3, <1>4, <1>5, <1>6, <1>7

-----------------------------------------------------------------------------
(* Slot tables.                                                            *)

\* Reservations may expire, and nothing else.
Aged(t, u) ==
  \A n \in Slots :
    /\ u[n].audit = t[n].audit
    /\ u[n].state = t[n].state \/ (t[n].state = "reserved" /\ u[n].state = "uncertain")

\* The claim a has the slots it had, expired or not.
Keeps(t, u, a) ==
  \A n \in Slots :
    /\ Has(u, n, a) <=> Has(t, n, a)
    /\ Has(t, n, a) =>
         u[n].state = t[n].state \/ (t[n].state = "reserved" /\ u[n].state = "uncertain")

\* Ensuring and expiring change nobody's slots.
LEMMA EnsureFact ==
  ASSUME NEW t \in Tables, NEW lim
  PROVE  /\ Ensure(t, lim) \in Tables
         /\ \A n \in Slots : t[n].state \in SpentStates => Ensure(t, lim)[n] = t[n]
         /\ \A n \in Slots :
              Ensure(t, lim)[n].state \in SpentStates => t[n].state \in SpentStates
<1> USE DEF Tables, SlotRows, SlotStates, SpentStates
<1>1. CreateMissing(t, lim) \in Tables
  BY DEF CreateMissing, FreeSlot
<1>2. Ensure(t, lim) \in Tables
  BY <1>1 DEF Ensure, DropFreeAbove, AbsentSlot
<1>3. \A n \in Slots : t[n].state \in SpentStates =>
        CreateMissing(t, lim)[n] = t[n] /\ Ensure(t, lim)[n] = CreateMissing(t, lim)[n]
  BY <1>1 DEF CreateMissing, Ensure, DropFreeAbove
<1>4. \A n \in Slots : t[n].state \notin SpentStates =>
        CreateMissing(t, lim)[n].state \notin SpentStates
  BY DEF CreateMissing, FreeSlot
<1>5. \A n \in Slots : CreateMissing(t, lim)[n].state \notin SpentStates =>
        Ensure(t, lim)[n].state \notin SpentStates
  BY <1>1 DEF Ensure, DropFreeAbove, AbsentSlot
<1> QED BY <1>2, <1>3, <1>4, <1>5

\* Expiry, by any choice of what has lapsed.
LEMMA ExpireFact ==
  ASSUME NEW t \in Tables, NEW f \in [Slots -> BOOLEAN]
  PROVE  LET u == MarkExpired([n \in DOMAIN t |-> [t[n] EXCEPT !.lapsed = f[n]]])
         IN  /\ u \in Tables /\ Aged(t, u)
             /\ \A n \in Slots :
                  u[n].state = IF t[n].state = "reserved" /\ f[n] THEN "uncertain" ELSE t[n].state
<1> DEFINE v == [n \in DOMAIN t |-> [t[n] EXCEPT !.lapsed = f[n]]]
<1>1. DOMAIN t = Slots /\ v \in Tables
  BY DEF Tables, SlotRows
<1>2. \A n \in Slots : v[n].audit = t[n].audit /\ v[n].state = t[n].state /\ v[n].lapsed = f[n]
  BY <1>1 DEF Tables, SlotRows
<1> HIDE DEF v
<1>3. MarkExpired(v) \in Tables
  BY <1>1 DEF MarkExpired, Tables, SlotRows, SlotStates
<1>4. \A n \in Slots :
        /\ MarkExpired(v)[n].audit = v[n].audit
        /\ MarkExpired(v)[n].state =
             IF v[n].state = "reserved" /\ v[n].lapsed THEN "uncertain" ELSE v[n].state
  BY <1>1 DEF MarkExpired, Tables, SlotRows
<1>5. /\ MarkExpired(v) \in Tables /\ Aged(t, MarkExpired(v))
      /\ \A n \in Slots :
           MarkExpired(v)[n].state =
             IF t[n].state = "reserved" /\ f[n] THEN "uncertain" ELSE t[n].state
  BY <1>2, <1>3, <1>4 DEF Aged
<1> QED BY <1>5 DEF v

\* A set of naturals has a least element.
LEMMA LeastExists ==
  ASSUME NEW S \in SUBSET Nat, S # {}
  PROVE  \E n \in S : \A k \in S : n <= k
<1> DEFINE Upto == {0..n : n \in S}
<1>1. Upto \subseteq FiniteSubsetsOf(Nat) /\ Upto # {}
  <2>1. ASSUME NEW n \in S PROVE 0..n \in FiniteSubsetsOf(Nat)
    <3>1. IsFiniteSet(0..n) /\ 0..n \subseteq Nat
      BY FS_Interval
    <3> QED
      BY <3>1 DEF FiniteSubsetsOf
  <2> QED
    BY <2>1
<1>2. PICK x \in Upto : \A y \in Upto : <<y, x>> \notin StrictSubsetOrdering(Nat)
  BY <1>1, WFMin, FS_StrictSubsetOrderingWellFounded
<1>3. PICK n \in S : x = 0..n
  BY <1>2
<1>4. ASSUME NEW k \in S, k < n PROVE FALSE
  <2>1. 0..k \subseteq 0..n /\ 0..k # 0..n
    BY <1>4
  <2>2. 0..k \in Upto
    OBVIOUS
  <2>3. <<0..k, 0..n>> \notin StrictSubsetOrdering(Nat)
    BY <1>2, <1>3, <2>2
  <2>4. 0..k \in SUBSET Nat /\ 0..n \in SUBSET Nat
    OBVIOUS
  <2> HIDE DEF Upto
  <2> QED
    BY <2>1, <2>3, <2>4 DEF StrictSubsetOrdering
<1> QED
  BY <1>3, <1>4

\* A reservation of a free row, of which there is a lowest one.
LEMMA ReserveFact ==
  ASSUME setup.limit \in Nat, NEW t \in Tables, FreeNumbers(t) # {}, NEW a \in AuditIds
  PROVE  LET n == LowestFree(t) IN
         /\ n \in Slots /\ t[n].state = "free" /\ n # 0
         /\ Reserve(t, n, a) \in Tables
         /\ \A k \in Slots \ {n} : Reserve(t, n, a)[k] = t[k]
         /\ Reserve(t, n, a)[n].state = "reserved" /\ Reserve(t, n, a)[n].audit = a
<1> DEFINE n == LowestFree(t)
<1>1. FreeNumbers(t) \subseteq Slots /\ FreeNumbers(t) \subseteq Nat
  BY DEF FreeNumbers, Tables, Slots
<1>2. \E k \in FreeNumbers(t) : \A m \in FreeNumbers(t) : k <= m
  BY <1>1, LeastExists
<1>3. n \in FreeNumbers(t)
  BY <1>2 DEF LowestFree
<1>4. n \in Slots /\ t[n].state = "free" /\ n # 0
  BY <1>1, <1>3 DEF FreeNumbers, Slots
<1> HIDE DEF n
<1>5. /\ Reserve(t, n, a) \in Tables
      /\ \A k \in Slots \ {n} : Reserve(t, n, a)[k] = t[k]
      /\ Reserve(t, n, a)[n].state = "reserved" /\ Reserve(t, n, a)[n].audit = a
  BY <1>4 DEF Reserve, Tables, SlotRows, SlotStates
<1> QED BY <1>4, <1>5 DEF n

\* What a settlement writes into the slot of a claim.
LEMMA SettledFact ==
  ASSUME NEW t \in Tables, NEW n \in Slots
  PROVE  /\ \A u \in {Confirm(t, n), MarkUncertain(t, n), Release(t, n)} :
              u \in Tables /\ \A k \in Slots \ {n} : u[k] = t[k]
         /\ Confirm(t, n)[n].state = "confirmed" /\ Confirm(t, n)[n].audit = t[n].audit
         /\ MarkUncertain(t, n)[n].state = "uncertain"
         /\ MarkUncertain(t, n)[n].audit = t[n].audit
         /\ Release(t, n)[n].state = "free"
<1> USE DEF Tables, SlotRows, SlotStates
<1>1. /\ Confirm(t, n) \in Tables /\ \A k \in Slots \ {n} : Confirm(t, n)[k] = t[k]
      /\ Confirm(t, n)[n].state = "confirmed" /\ Confirm(t, n)[n].audit = t[n].audit
  BY DEF Confirm
<1>2. /\ MarkUncertain(t, n) \in Tables /\ \A k \in Slots \ {n} : MarkUncertain(t, n)[k] = t[k]
      /\ MarkUncertain(t, n)[n].state = "uncertain" /\ MarkUncertain(t, n)[n].audit = t[n].audit
  BY DEF MarkUncertain
<1>3. /\ Release(t, n) \in Tables /\ \A k \in Slots \ {n} : Release(t, n)[k] = t[k]
      /\ Release(t, n)[n].state = "free"
  BY DEF Release, FreeSlot
<1> QED BY <1>1, <1>2, <1>3

-----------------------------------------------------------------------------
(* How a pass goes on: the others stay where they are.                     *)

Others(p) == \A q \in Passes \ {p} : job'[q] = job[q]

\* A pass goes on with the same claim.
SameClaim(p) ==
  /\ job' \in [Passes -> Jobs] /\ Others(p)
  /\ job'[p].todo = job[p].todo /\ job'[p].lead = job[p].lead /\ job'[p].gen = job[p].gen
  /\ job'[p].at = job[p].at /\ job'[p].old = job[p].old

SameEnds(p) ==
  /\ job'[p].slotDone = job[p].slotDone /\ job'[p].watchDone = job[p].watchDone
  /\ job'[p].safe = job[p].safe

LEMMA GotoFact ==
  ASSUME job \in [Passes -> Jobs], NEW p \in Passes, NEW s \in Steps, Goto(p, s)
  PROVE  /\ SameClaim(p) /\ SameEnds(p)
         /\ job'[p].pc = s /\ job'[p].slot = job[p].slot /\ job'[p].out = job[p].out
BY DEF Goto, SameClaim, SameEnds, Others, Jobs

LEMMA EndFact ==
  ASSUME job \in [Passes -> Jobs], NEW p \in Passes, NEW out \in DOMAIN Settles, End(p, out)
  PROVE  /\ SameClaim(p) /\ SameEnds(p)
         /\ job'[p].pc = IF job[p].slot # 0 THEN "slot" ELSE AfterSlot(out)
         /\ job'[p].slot = job[p].slot /\ job'[p].out = out
<1> DEFINE s == IF job[p].slot # 0 THEN "slot" ELSE AfterSlot(out)
<1>1. s \in Steps
  BY DEF AfterSlot, Steps, ThrowSteps
<1>2. job' = [job EXCEPT ![p] = [[job[p] EXCEPT !.out = out] EXCEPT !.pc = s]]
  BY DEF End
<1> HIDE DEF s
<1>r. [[job[p] EXCEPT !.out = out] EXCEPT !.pc = s] \in Jobs
  <2>1. [job[p] EXCEPT !.out = out] \in Jobs
    BY DEF Jobs
  <2> QED BY <1>1, <2>1 DEF Jobs
<1>3. /\ SameClaim(p) /\ SameEnds(p) /\ job'[p].pc = s /\ job'[p].slot = job[p].slot
      /\ job'[p].out = out
  BY <1>1, <1>2, <1>r DEF SameClaim, SameEnds, Others, Jobs
<1> QED BY <1>3 DEF s

LEMMA ThrownFact ==
  ASSUME job \in [Passes -> Jobs], NEW p \in Passes, Thrown(p)
  PROVE  /\ SameClaim(p)
         /\ job'[p].slotDone = job[p].slotDone /\ job'[p].watchDone = job[p].watchDone
         /\ job'[p].safe = ~(job[p].out = "confirmed" /\ ~job[p].watchDone)
         /\ job'[p].pc = IF job[p].slot # 0 /\ ~job[p].slotDone THEN "catch_slot"
                         ELSE IF ~job[p].watchDone THEN "catch_watch" ELSE "catch_audit"
         /\ job'[p].slot = job[p].slot /\ job'[p].out = job[p].out
<1> DEFINE s == IF job[p].slot # 0 /\ ~job[p].slotDone THEN "catch_slot"
                ELSE IF ~job[p].watchDone THEN "catch_watch" ELSE "catch_audit"
           b == ~(job[p].out = "confirmed" /\ ~job[p].watchDone)
<1>1. s \in Steps /\ b \in BOOLEAN
  BY DEF Steps
<1>2. job' = [job EXCEPT ![p] = [[job[p] EXCEPT !.pc = s] EXCEPT !.safe = b]]
  BY DEF Thrown, IsConfirmed
<1> HIDE DEF s, b
<1>r. [[job[p] EXCEPT !.pc = s] EXCEPT !.safe = b] \in Jobs
  <2>1. [job[p] EXCEPT !.pc = s] \in Jobs
    BY <1>1 DEF Jobs
  <2> QED BY <1>1, <2>1 DEF Jobs
<1>3. /\ SameClaim(p) /\ job'[p].slotDone = job[p].slotDone
      /\ job'[p].watchDone = job[p].watchDone /\ job'[p].safe = b /\ job'[p].pc = s
      /\ job'[p].slot = job[p].slot /\ job'[p].out = job[p].out
  BY <1>1, <1>2, <1>r DEF SameClaim, Others, Jobs
<1> QED BY <1>3 DEF s, b

LEMMA TakeFact ==
  ASSUME job \in [Passes -> Jobs], NEW p \in Passes, NEW s \in Steps, NEW m \in 0..setup.limit,
         job' = [job EXCEPT ![p].pc = s, ![p].slot = m]
  PROVE  /\ SameClaim(p) /\ SameEnds(p)
         /\ job'[p].pc = s /\ job'[p].slot = m /\ job'[p].out = job[p].out
<1>1. job' = [job EXCEPT ![p] = [[job[p] EXCEPT !.pc = s] EXCEPT !.slot = m]]
  OBVIOUS
<1>2. [[job[p] EXCEPT !.pc = s] EXCEPT !.slot = m] \in Jobs
  <2>1. [job[p] EXCEPT !.pc = s] \in Jobs
    BY DEF Jobs
  <2> QED BY <2>1 DEF Jobs
<1> QED BY <1>1, <1>2 DEF SameClaim, SameEnds, Others, Jobs

LEMMA AfterCatchFact ==
  ASSUME job \in [Passes -> Jobs], NEW p \in Passes, NEW safe \in BOOLEAN, AfterCatchSlot(p, safe)
  PROVE  /\ SameClaim(p)
         /\ job'[p].slotDone = job[p].slotDone /\ job'[p].watchDone = job[p].watchDone
         /\ job'[p].safe = safe
         /\ job'[p].pc = IF job[p].watchDone THEN "catch_audit" ELSE "catch_watch"
         /\ job'[p].slot = job[p].slot /\ job'[p].out = job[p].out
<1> DEFINE s == IF job[p].watchDone THEN "catch_audit" ELSE "catch_watch"
<1>1. s \in Steps
  BY DEF Steps
<1>2. job' = [job EXCEPT ![p] = [[job[p] EXCEPT !.pc = s] EXCEPT !.safe = safe]]
  BY DEF AfterCatchSlot
<1> HIDE DEF s
<1>r. [[job[p] EXCEPT !.pc = s] EXCEPT !.safe = safe] \in Jobs
  <2>1. [job[p] EXCEPT !.pc = s] \in Jobs
    BY <1>1 DEF Jobs
  <2> QED BY <1>1, <2>1 DEF Jobs
<1>3. /\ SameClaim(p) /\ job'[p].slotDone = job[p].slotDone
      /\ job'[p].watchDone = job[p].watchDone /\ job'[p].safe = safe /\ job'[p].pc = s
      /\ job'[p].slot = job[p].slot /\ job'[p].out = job[p].out
  BY <1>1, <1>2, <1>r DEF SameClaim, Others, Jobs
<1> QED BY <1>3 DEF s

-----------------------------------------------------------------------------
(* What a step leaves alone.                                               *)

\* The records of the claim a are as they were, but that its slot may expire.
Spares(a) ==
  /\ Keeps(table, table', a)
  /\ verdict'[a] = verdict[a] /\ audit'[a] = audit[a]
  /\ a \in took' <=> a \in took

\* Time and the ledger go on around a pass that stands.
LEMMA OthersStand ==
  ASSUME IInv, setup' = setup, faults' = 0 => faults = 0, NEW q \in Passes, job'[q] = job[q],
         \A l \in Leads : Spares(<<q, l>>)
  PROVE  Once(q)' /\ Knows(q)' /\ Owns(q)' /\ Ends(q)'
<1>1. Once(q) /\ Knows(q) /\ Owns(q) /\ Ends(q) /\ setup.leads \subseteq Leads /\ setup.limit \in Nat
  BY SetupFacts DEF IInv
<1>2. job[q].todo \subseteq Leads /\ (job[q].pc \in Working => Lead(q) \in Leads) /\ Lead(q)' = Lead(q)
  BY <1>1 DEF Once, Lead
<1>3. ASSUME NEW l \in Leads
      PROVE  /\ Fresh(<<q, l>>) => Fresh(<<q, l>>)'
             /\ verdict'[<<q, l>>] = verdict[<<q, l>>] /\ audit'[<<q, l>>] = audit[<<q, l>>]
             /\ <<q, l>> \in took' <=> <<q, l>> \in took
             /\ \A n \in Slots : Has(table', n, <<q, l>>) <=> Has(table, n, <<q, l>>)
             /\ \A n \in Slots : Has(table, n, <<q, l>>) =>
                  \/ table'[n].state = table[n].state
                  \/ table[n].state = "reserved" /\ table'[n].state = "uncertain"
  BY DEF Spares, Keeps, Fresh, Slots, Has
<1>4. Once(q)'
  BY <1>1, <1>2, <1>3 DEF Once
<1> DEFINE a == <<q, Lead(q)>>
<1>5. job[q].pc \in Working =>
        /\ verdict'[a] = verdict[a] /\ audit'[a] = audit[a] /\ (a \in took' <=> a \in took)
        /\ \A n \in Slots : Has(table', n, a) <=> Has(table, n, a)
        /\ \A n \in Slots : Has(table, n, a) =>
             \/ table'[n].state = table[n].state
             \/ table[n].state = "reserved" /\ table'[n].state = "uncertain"
  BY <1>2, <1>3
<1>6. AuditId(q) = a /\ AuditId(q)' = a /\ Slots' = Slots /\ Mode' = Mode
  BY <1>2 DEF AuditId, Lead, Slots, Mode
<1>w. (Early \cup {"reading_back"} \cup Settling \cup Catching) \subseteq Working
      /\ PastTesting \subseteq Working
  BY DEF Working, PastTesting, Early
<1>s. /\ {"claimed", "history", "recording", "checking", "testing", "reserving", "beginning",
           "refreshing", "fencing", "dispatching", "reading_back"} \subseteq Working
      /\ {"slot", "watch", "audit", "catch_slot", "catch_watch", "catch_audit"} \subseteq Working
  BY DEF Working, Early, Settling, Catching
<1> HIDE DEF a
<1>7. Knows(q)'
  BY <1>1, <1>5, <1>6, <1>w, <1>s DEF Knows
<1>8. Owns(q)'
  <2>1. PICK n : n = job[q].slot
    OBVIOUS
  <2>2. job[q].pc \in Working => \A k \in Slots : Has(table', k, a) => k = n
    BY <1>1, <1>5, <1>6, <2>1 DEF Owns
  <2>3. job[q].pc \in Early \cup {"reading_back", "slot"} /\ n # 0 =>
          Has(table', n, a) /\ table'[n].state \in {"reserved", "uncertain"}
    <3>1. SUFFICES ASSUME job[q].pc \in Early \cup {"reading_back", "slot"}, n # 0
                   PROVE  Has(table', n, a) /\ table'[n].state \in {"reserved", "uncertain"}
      OBVIOUS
    <3>2. Has(table, n, a) /\ table[n].state \in {"reserved", "uncertain"} /\ n \in Slots
      BY <1>1, <1>6, <2>1, <3>1 DEF Owns, IInv, TypeOK, Jobs, Slots
    <3> QED BY <1>5, <1>s, <1>w, <3>1, <3>2
  <2> QED BY <1>1, <1>6, <2>1, <2>2, <2>3 DEF Owns
<1>9. Ends(q)'
  <2>1. PICK n : n = job[q].slot
    OBVIOUS
  <2>2. n \in Nat /\ (n # 0 => n \in Slots)
    BY <1>1, <2>1 DEF IInv, TypeOK, Jobs, Slots
  <2>3. job[q].pc \in Settling \cup Catching /\ job[q].slotDone =>
          n # 0 /\ Has(table', n, a) /\ table'[n].state = "confirmed" /\ job[q].out = "confirmed"
    <3>1. SUFFICES ASSUME job[q].pc \in Settling \cup Catching, job[q].slotDone
                   PROVE  n # 0 /\ Has(table', n, a) /\ table'[n].state = "confirmed"
                          /\ job[q].out = "confirmed"
      OBVIOUS
    <3>2. n # 0 /\ Has(table, n, a) /\ table[n].state = "confirmed" /\ job[q].out = "confirmed"
      BY <1>1, <1>6, <2>1, <3>1 DEF Ends
    <3> QED BY <1>5, <1>w, <2>2, <3>1, <3>2
  <2>4. \/ job[q].pc = "watch" /\ job[q].out \notin {"confirmed", "uncertain"}
        \/ job[q].pc = "catch_watch" /\ job[q].safe
        => \A k \in Slots : ~Has(table', k, a)
    BY <1>1, <1>5, <1>6, <1>s DEF Ends
  <2>5. faults' = 0 /\ job[q].pc \in {"watch", "catch_slot"} /\ n # 0 => ~IsReservedBy(table', n, a)
    <3>1. SUFFICES ASSUME faults = 0, job[q].pc \in {"watch", "catch_slot"}, n # 0,
                          IsReservedBy(table', n, a)
                   PROVE  FALSE
      OBVIOUS
    <3>2. ~IsReservedBy(table, n, a)
      BY <1>1, <1>6, <2>1, <3>1 DEF Ends, SlotIsMine
    <3>3. Has(table', n, a)
      BY <3>1 DEF IsReservedBy, Has, SpentStates
    <3> QED BY <1>5, <1>s, <2>2, <3>1, <3>2, <3>3 DEF IsReservedBy, Has
  <2> QED BY <1>1, <1>6, <2>1, <2>3, <2>4, <2>5 DEF Ends, SlotIsMine
<1> QED BY <1>4, <1>7, <1>8, <1>9

LEMMA TruthStands ==
  ASSUME IInv, setup' = setup, faults' = 0 => faults = 0, NEW a \in AuditIds, Spares(a)
  PROVE  Truth(a)'
BY DEF IInv, Truth, Spares, Keeps, Slots, Mode

\* The move of a lead that reads moved was confirmed, and so was its slot.
Real(l) ==
  \E p \in Passes :
    /\ verdict[<<p, l>>] = "confirmed"
    /\ Mode # "uncapped" =>
         \E n \in Slots : table[n].audit = <<p, l>> /\ table[n].state = "confirmed"

\* The watches that read moved are real after a step.
LEMMA RealWatches ==
  ASSUME setup' = setup, Slots' = Slots, DOMAIN table' = Slots,
         \A l \in setup.leads : watch'[l].state = "moved" => Real(l)'
  PROVE  MovedIsReal'
BY DEF MovedIsReal, Real

\* A step of a pass touches the records of its own claim at most: what it owes.
LEMMA StepOf ==
  ASSUME IInv, NEW p \in Passes, NEW A, A \subseteq {<<p, l>> : l \in Leads},
         setup' = setup, faults' = 0 => faults = 0, Others(p), TypeOK', SlotsAreClaims', OldHaveBegun',
         \A a \in AuditIds \ A : Spares(a),
         \A a \in A : Truth(a)' /\ (verdict[a] = "confirmed" => verdict'[a] = "confirmed"),
         \A n \in Slots : table[n].state = "confirmed" =>
           table'[n].state = "confirmed" /\ table'[n].audit = table[n].audit,
         \A l \in setup.leads :
           watch'[l].state = "moved" => (watch[l].state = "moved" \/ Real(l)'),
         Once(p)', Knows(p)', Owns(p)', Ends(p)', SendersHoldRun', Alone'
  PROVE  IInv'
<1>1. ASSUME NEW q \in Passes \ {p} PROVE Once(q)' /\ Knows(q)' /\ Owns(q)' /\ Ends(q)'
  <2>1. job'[q] = job[q] /\ \A l \in Leads : <<q, l>> \in AuditIds \ A
    BY DEF Others, AuditIds
  <2> QED BY <2>1, OthersStand
<1>2. \A a \in AuditIds : Truth(a)'
  BY TruthStands
<1>3. MovedIsReal'
  <2>1. setup.leads \subseteq Leads /\ MovedIsReal /\ DOMAIN table = Slots /\ DOMAIN table' = Slots
        /\ Slots' = Slots /\ Mode' = Mode
    BY SetupFacts DEF IInv, TypeOK, Slots, Mode
  <2>2. ASSUME NEW l \in setup.leads, watch[l].state = "moved" PROVE Real(l)'
    <3>1. PICK q \in Passes :
            /\ verdict[<<q, l>>] = "confirmed"
            /\ Mode # "uncapped" =>
                 \E n \in Slots : table[n].audit = <<q, l>> /\ table[n].state = "confirmed"
      BY <2>1, <2>2 DEF MovedIsReal
    <3>2. verdict'[<<q, l>>] = "confirmed"
      <4>1. <<q, l>> \in AuditIds
        BY <2>1 DEF AuditIds
      <4> QED BY <3>1, <4>1 DEF Spares
    <3> QED BY <2>1, <3>1, <3>2 DEF Real
  <2>3. \A l \in setup.leads : watch'[l].state = "moved" => Real(l)'
    BY <2>2
  <2> QED BY <2>1, <2>3, RealWatches
<1> QED BY <1>1, <1>2, <1>3 DEF IInv

\* What a pass at work owes to those that go on beside it in testing.
LEMMA AloneStands ==
  ASSUME IInv, setup' = setup, NEW p \in Passes, job[p].pc \notin {"ready", "done"}, Others(p),
         \A q \in Passes : HoldsRun(q)' => HoldsRun(q),
         job'[p].old = job[p].old,
         Mode = "testing" /\ job'[p].pc \in PastTesting => job[p].pc \in PastTesting,
         \A a \in took' : \/ a \in took
                          \/ a = AuditId(p) /\ HoldsRun(p) /\ job'[p].pc \notin PastTesting,
         \A n \in Slots, q \in Passes, l \in Leads :
           table'[n].audit = <<q, l>> /\ <<q, l>> \in took /\ Mode = "testing" =>
             /\ table'[n].state = "reserved" =>
                  table[n].state = "reserved" /\ table[n].audit = <<q, l>>
             /\ table'[n].state = "uncertain" =>
                  /\ table[n].audit = <<q, l>>
                  /\ \/ table[n].state = "uncertain"
                     \/ table[n].state = "reserved" /\ q \in job[p].old
                     \/ table[n].state = "reserved" /\ q = p /\ job[p].pc \in {"slot", "catch_slot"}
  PROVE  Alone'
<1> SUFFICES ASSUME Mode = "testing", NEW h \in Passes, HoldsRun(h)'
             PROVE  /\ job'[h].pc \notin {"ready", "done"} => Overtaken(h)'
                    /\ job'[h].pc \in PastTesting => NothingOpen(h)'
  BY DEF Alone, Mode, At
<1>1. HoldsRun(h) /\ Slots' = Slots
  BY DEF Slots
<1>2. \A q \in Passes : job'[q].pc # "done" => job[q].pc # "done" /\ job'[q].old = job[q].old
  BY DEF Others
<1>3. \A q \in Passes : job'[q].old \subseteq job[q].old
  BY DEF Others
<1>4. \A q \in Passes, l \in Leads : <<q, l>> \in took' =>
        <<q, l>> \in took \/ (q = p /\ h = p /\ job'[p].pc \notin PastTesting)
  BY <1>1 DEF HoldsRun, AuditId
<1>5. job'[h].pc \notin {"ready", "done"} => job[h].pc \notin {"ready", "done"}
  BY <1>2 DEF Others
<1>6. ASSUME job'[h].pc \notin {"ready", "done"} PROVE Overtaken(h)'
  <2>1. Overtaken(h) /\ job'[h].old = job[h].old
    BY <1>1, <1>2, <1>5, <1>6 DEF IInv, Alone
  <2>2. ASSUME NEW q \in Passes \ {h}, NEW l \in Leads, NEW n \in Slots,
               table'[n].state = "reserved", table'[n].audit = <<q, l>>, <<q, l>> \in took',
               job'[q].pc # "done"
        PROVE  q \in job[h].old
    BY <1>2, <1>4, <2>1, <2>2 DEF Overtaken, At
  <2> QED BY <1>1, <1>3, <2>1, <2>2 DEF Overtaken, At
<1>7. ASSUME job'[h].pc \in PastTesting PROVE NothingOpen(h)'
  <2>1. job'[h].pc \notin {"ready", "done"} /\ job[h].pc \in PastTesting
    BY <1>7 DEF PastTesting, Others
  <2>2. Overtaken(h) /\ NothingOpen(h) /\ job'[h].old = job[h].old
    BY <1>1, <1>2, <1>5, <2>1 DEF IInv, Alone
  <2>3. ASSUME NEW q \in Passes, NEW l \in Leads, NEW n \in Slots,
               table'[n].audit = <<q, l>>, <<q, l>> \in took'
        PROVE  /\ table'[n].state # "uncertain"
               /\ table'[n].state = "reserved" => q \notin job[h].old
    <3>1. <<q, l>> \in took
      BY <1>4, <1>7, <2>3
    <3>2. table'[n].state = "reserved" => q \notin job[h].old
      BY <2>2, <2>3, <3>1 DEF NothingOpen
    <3>3. ASSUME table'[n].state = "uncertain" PROVE FALSE
      <4>1. table[n].audit = <<q, l>> /\ table[n].state # "uncertain"
        BY <2>2, <2>3, <3>1, <3>3 DEF NothingOpen
      <4>2. table[n].state = "reserved" /\ q \notin job[h].old /\ job[p].old \subseteq job[h].old
        BY <2>2, <2>3, <3>1, <3>3, <4>1 DEF NothingOpen, Overtaken
      <4>3. q = p /\ job[p].pc \in {"slot", "catch_slot"}
        BY <2>3, <3>1, <3>3, <4>1, <4>2
      <4>4. q # h /\ ~At(q, "done")
        BY <2>1, <4>3 DEF PastTesting, At
      <4> QED BY <2>2, <3>1, <4>1, <4>2, <4>4 DEF Overtaken
    <3> QED BY <3>2, <3>3
  <2> QED BY <1>1, <2>2, <2>3 DEF NothingOpen
<1> QED BY <1>6, <1>7

Verdicts == {"none", "confirmed", "uncertain", "not_moved"}

\* What a step of a claim is: the pass goes on with it, to its next step or its end.
Steady(p) ==
  /\ job[p].pc \in Working /\ SameClaim(p) /\ job'[p].pc \in Working \cup {"next"}
  /\ setup' = setup /\ run' = run /\ told' = told
  /\ faults' \in 0..setup.faults /\ (faults' = 0 => faults = 0)
  /\ job'[p].pc = "dispatching" => HoldsRun(p)

\* The claim goes on: its pass owes the records of the claim, and no others.
LEMMA ClaimStep ==
  ASSUME IInv, NEW p \in Passes, Steady(p), NEW a \in AuditIds, a = AuditId(p),
         watch' \in [setup.leads -> WatchRows], table' \in Tables, SlotsAreClaims',
         audit' \in [AuditIds -> Audits], verdict' \in [AuditIds -> Verdicts],
         took' \subseteq AuditIds,
         \A b \in AuditIds \ {a} : Spares(b),
         verdict[a] = "confirmed" => verdict'[a] = "confirmed",
         \A n \in Slots : table[n].state = "confirmed" =>
           table'[n].state = "confirmed" /\ table'[n].audit = table[n].audit,
         \A l \in setup.leads :
           watch'[l].state = "moved" => (watch[l].state = "moved" \/ Real(l)'),
         Truth(a)', Knows(p)', Owns(p)', Ends(p)', Alone'
  PROVE  IInv'
<1>1. TypeOK'
  BY DEF IInv, TypeOK, Steady, SameClaim, Jobs, MaxTouch, WatchRows, Tables, SlotRows, Slots,
         Verdicts, Fingerprints
<1>2. Once(p)'
  <2>1. Once(p) /\ setup.leads \subseteq Leads
    BY SetupFacts DEF IInv
  <2>2. /\ job'[p].todo = job[p].todo /\ Lead(p)' = Lead(p) /\ setup' = setup
        /\ job'[p].pc \notin Idle /\ Idle = {"ready", "starting", "listing", "claiming"}
    BY DEF Steady, SameClaim, Lead, Working, Early, Settling, Catching, Idle
  <2>3. Lead(p) \in setup.leads \ job[p].todo
    BY <2>1 DEF Once, Steady
  <2>4. ASSUME NEW l \in job[p].todo PROVE Fresh(<<p, l>>)'
    <3>1. Fresh(<<p, l>>)
      BY <2>1, <2>4 DEF Once
    <3>2. <<p, l>> \in AuditIds \ {a}
      BY <2>1, <2>3, <2>4 DEF Once, AuditIds, AuditId, Lead
    <3>3. Spares(<<p, l>>) /\ Slots' = Slots
      BY <3>2 DEF Slots, Steady
    <3> QED BY <3>1, <3>3 DEF Fresh, Spares, Keeps
  <2> QED BY <2>1, <2>2, <2>3, <2>4 DEF Once
<1>3. SendersHoldRun'
  <2>1. ASSUME NEW q \in Passes, job'[q].pc = "dispatching" PROVE HoldsRun(q)'
    <3>1. job[q].pc = "dispatching" \/ q = p
      BY <2>1 DEF Steady, SameClaim, Others
    <3>2. HoldsRun(q)
      BY <2>1, <3>1 DEF IInv, SendersHoldRun, At, Steady
    <3> QED BY <3>2 DEF HoldsRun, Steady
  <2> QED BY <2>1 DEF SendersHoldRun, At
<1>4. PICK A : A = {a}
  OBVIOUS
<1>8. OldHaveBegun'
  BY DEF OldHaveBegun, Steady, SameClaim, Others, At, IInv, Working, Early, Settling, Catching
<1>5. A \subseteq {<<p, l>> : l \in Leads}
  BY <1>4 DEF AuditId, AuditIds
<1>6. /\ \A b \in AuditIds \ A : Spares(b)
      /\ \A b \in A : Truth(b)' /\ (verdict[b] = "confirmed" => verdict'[b] = "confirmed")
  BY <1>4
<1>7. setup' = setup /\ (faults' = 0 => faults = 0) /\ Others(p)
  BY DEF Steady, SameClaim
<1> QED BY <1>1, <1>2, <1>3, <1>5, <1>6, <1>7, <1>8, StepOf

\* A step that touches neither the slots nor the PATCHes sent.
LEMMA QuietStep ==
  ASSUME IInv, NEW p \in Passes, Steady(p), NEW a \in AuditIds, a = AuditId(p),
         table' = table, took' = took,
         Mode = "testing" /\ job'[p].pc \in PastTesting => job[p].pc \in PastTesting,
         watch' \in [setup.leads -> WatchRows],
         audit' \in [AuditIds -> Audits], verdict' \in [AuditIds -> Verdicts],
         \A b \in AuditIds \ {a} : verdict'[b] = verdict[b] /\ audit'[b] = audit[b],
         verdict[a] = "confirmed" => verdict'[a] = "confirmed",
         \A l \in setup.leads :
           watch'[l].state = "moved" => (watch[l].state = "moved" \/ Real(l)'),
         Truth(a)', Knows(p)', Owns(p)', Ends(p)'
  PROVE  IInv'
<1>1. table' \in Tables /\ SlotsAreClaims' /\ took' \subseteq AuditIds
  BY DEF IInv, TypeOK, Tables, SlotRows, Slots, SlotsAreClaims, Steady
<1>2. \A b \in AuditIds \ {a} : Spares(b)
  BY DEF Spares, Keeps
<1>3. Alone'
  <2>1. job[p].pc \notin {"ready", "done"} /\ job'[p].old = job[p].old
    BY DEF Steady, SameClaim, Working, Early, Settling, Catching
  <2>2. \A q \in Passes : HoldsRun(q)' => HoldsRun(q)
    BY DEF Steady, HoldsRun
  <2> QED BY <2>1, <2>2, AloneStands DEF Steady, SameClaim
<1> QED BY <1>1, <1>2, <1>3, ClaimStep

-----------------------------------------------------------------------------
(* What the ways to the next step leave of the claim's own invariants.     *)

\* A pass at work on a claim.
LEMMA WorkingFacts ==
  ASSUME IInv, NEW p \in Passes, job[p].pc \in Working
  PROVE  /\ Once(p) /\ Knows(p) /\ Owns(p) /\ Ends(p) /\ Truth(AuditId(p))
         /\ AuditId(p) \in AuditIds /\ Lead(p) \in setup.leads /\ job[p] \in Jobs
         /\ job[p].slot \in Nat /\ (job[p].slot # 0 => job[p].slot \in Slots)
         /\ 0 \notin Slots
<1>1. Once(p) /\ Knows(p) /\ Owns(p) /\ Ends(p) /\ job[p] \in Jobs
      /\ setup.leads \subseteq Leads /\ setup.limit \in Nat
  BY SetupFacts DEF IInv, TypeOK
<1>2. Lead(p) \in setup.leads /\ AuditId(p) \in AuditIds
  BY <1>1 DEF Once, AuditId, AuditIds, Lead
<1>3. Truth(AuditId(p))
  BY <1>2 DEF IInv
<1>4. /\ job[p].slot \in Nat /\ (job[p].slot # 0 => job[p].slot \in Slots)
      /\ 0 \notin Slots
  BY <1>1 DEF Jobs, Slots
<1> QED BY <1>1, <1>2, <1>3, <1>4

LEMMA GotoFacts ==
  ASSUME IInv, NEW p \in Passes, job[p].pc \in Early, NEW a \in AuditIds, a = AuditId(p),
         setup' = setup, Goto(p, job'[p].pc), Keeps(table, table', a),
         job'[p].pc \in (Early \cup {"reading_back"}) \ {"claimed"},
         audit'[a] = "reserved", verdict'[a] = verdict[a],
         job'[p].pc = "reading_back" <=> a \in took',
         job'[p].pc \in {"history", "recording", "checking", "testing", "reserving"} =>
           job[p].slot = 0,
         job'[p].pc \in {"beginning", "refreshing"} /\ Mode = "capped" => job[p].slot = 0,
         job'[p].pc \in PastTesting /\ Mode = "testing" => job[p].slot # 0,
         job'[p].pc \in {"fencing", "dispatching", "reading_back"} /\ Mode # "uncapped" =>
           job[p].slot # 0,
         job'[p].pc = "testing" => Mode = "testing", job'[p].pc = "reserving" => Mode = "capped"
  PROVE  SameClaim(p) /\ Truth(a)' /\ Knows(p)' /\ Owns(p)' /\ Ends(p)'
<1>1. job[p].pc \in Working /\ job'[p].pc \in Working /\ job'[p].pc \in Steps
  BY DEF Working, Early, Steps, ThrowSteps
<1>2. SameClaim(p) /\ SameEnds(p) /\ job'[p].slot = job[p].slot /\ job'[p].out = job[p].out
  BY <1>1, GotoFact DEF IInv, TypeOK
<1>3. Knows(p) /\ Owns(p) /\ Ends(p)
  BY <1>1, WorkingFacts
<1>4. AuditId(p)' = a /\ Slots' = Slots /\ Mode' = Mode /\ verdict[a] = "none"
      /\ job[p].out = "none"
  BY <1>2, <1>3 DEF SameClaim, AuditId, Slots, Mode, Knows
<1>5. job'[p].pc \notin Settling \cup Catching \cup 
              {"slot", "watch", "audit", "catch_watch", "catch_slot"}
  BY DEF Early, Settling, Catching
<1>6. Knows(p)'
  BY <1>2, <1>3, <1>4, <1>5 DEF Knows, Early
<1>7. Owns(p)'
  <2>1. PICK n : n = job[p].slot /\ n = job'[p].slot
    BY <1>2
  <2>2. \A k \in Slots : Has(table', k, a) => k = n
    BY <1>1, <1>3, <2>1 DEF Owns, Keeps
  <2>3. n # 0 => Has(table', n, a) /\ table'[n].state \in {"reserved", "uncertain"}
    <3>1. SUFFICES ASSUME n # 0
                   PROVE  Has(table', n, a) /\ table'[n].state \in {"reserved", "uncertain"}
      OBVIOUS
    <3>2. Has(table, n, a) /\ table[n].state \in {"reserved", "uncertain"} /\ n \in Slots
      BY <1>1, <1>3, <2>1, <3>1, WorkingFacts DEF Owns
    <3> QED BY <3>2 DEF Keeps
  <2> QED BY <1>4, <1>5, <2>1, <2>2, <2>3 DEF Owns, Early
<1>8. Ends(p)'
  <2>1. ~job'[p].slotDone /\ ~job'[p].watchDone
    BY <1>2, <1>3 DEF Ends, SameEnds
  <2> QED BY <1>5, <2>1 DEF Ends
<1>9. Truth(a)'
  <2>1. a \in took' /\ Mode # "uncapped" => \E n \in Slots : Has(table', n, a)
    BY <1>1, <1>2, <1>4, <1>7, WorkingFacts DEF Owns
  <2> QED BY <1>4, <2>1 DEF Truth
<1> QED BY <1>2, <1>6, <1>7, <1>8, <1>9

LEMMA EndFacts ==
  ASSUME IInv, NEW p \in Passes, job[p].pc \in Early \cup {"reading_back"},
         NEW out \in DOMAIN Settles, End(p, out),
         NEW a \in AuditIds, a = AuditId(p), setup' = setup, Keeps(table, table', a),
         audit'[a] = "reserved",
         \A v \in {"confirmed", "uncertain"} : out = v <=> verdict'[a] = v,
         out = "confirmed" => job[p].pc = "reading_back",
         verdict'[a] = "none" => a \notin took',
         a \in took' => job[p].pc \in {"dispatching", "reading_back"}
  PROVE  /\ SameClaim(p) /\ job'[p].pc \in Settling
         /\ Truth(a)' /\ Knows(p)' /\ Owns(p)' /\ Ends(p)'
<1>1. job[p].pc \in Working
  BY DEF Working
<1>2. /\ SameClaim(p) /\ SameEnds(p) /\ job'[p].slot = job[p].slot /\ job'[p].out = out
      /\ job'[p].pc = IF job[p].slot # 0 THEN "slot" ELSE AfterSlot(out)
  BY EndFact DEF IInv, TypeOK
<1>3. /\ Knows(p) /\ Owns(p) /\ Ends(p)
      /\ job[p].slot \in Nat /\ (job[p].slot # 0 => job[p].slot \in Slots) /\ 0 \notin Slots
  BY <1>1, WorkingFacts
<1>4. AuditId(p)' = a /\ Slots' = Slots /\ Mode' = Mode
  BY <1>2 DEF SameClaim, AuditId, Slots, Mode
<1>5. AfterSlot(out) \in {"watch", "audit"} /\ (AfterSlot(out) = "watch" => out # "superseded")
  BY DEF AfterSlot, Settles
<1>6. /\ job'[p].pc \in Settling /\ job'[p].pc \notin Early \cup Catching \cup PastTesting
      /\ job'[p].pc \notin {"reading_back", "catch_slot", "catch_watch"}
      /\ (job'[p].pc = "slot" <=> job[p].slot # 0)
  BY <1>2, <1>5 DEF Settling, Early, Catching, PastTesting
<1>7. Knows(p)'
  BY <1>2, <1>4, <1>5, <1>6 DEF Knows
<1>8. PICK n : n = job[p].slot /\ n = job'[p].slot
  BY <1>2
<1>9. \A k \in Slots : Has(table', k, a) => k = n
  BY <1>1, <1>3, <1>8 DEF Owns, Keeps
<1>10. n # 0 => Has(table', n, a) /\ table'[n].state \in {"reserved", "uncertain"}
  <2>1. SUFFICES ASSUME n # 0
                 PROVE  Has(table', n, a) /\ table'[n].state \in {"reserved", "uncertain"}
    OBVIOUS
  <2>2. Has(table, n, a) /\ table[n].state \in {"reserved", "uncertain"} /\ n \in Slots
    BY <1>3, <1>8, <2>1 DEF Owns
  <2> QED BY <2>2 DEF Keeps
<1>11. Owns(p)'
  BY <1>4, <1>6, <1>8, <1>9, <1>10 DEF Owns, PastTesting, Early
<1>12. ~job[p].slotDone /\ ~job[p].watchDone /\ ~job'[p].slotDone /\ ~job'[p].watchDone
  BY <1>2, <1>3 DEF Ends, SameEnds
<1>13. job[p].pc \in {"dispatching", "reading_back"} /\ Mode # "uncapped" => n # 0
  BY <1>3, <1>8 DEF Owns
<1>14. Ends(p)'
  BY <1>2, <1>3, <1>4, <1>6, <1>8, <1>9, <1>12, <1>13 DEF Ends
<1>15. Truth(a)'
  BY <1>3, <1>4, <1>8, <1>10, <1>13 DEF Truth
<1> QED BY <1>2, <1>6, <1>7, <1>11, <1>14, <1>15

LEMMA ThrownFacts ==
  ASSUME IInv, NEW p \in Passes, job[p].pc \in Early \cup Settling, Thrown(p),
         NEW a \in AuditIds, a = AuditId(p), setup' = setup, UNCHANGED <<ledger, crm>>,
         faults' = 0 => /\ faults = 0 /\ job[p].pc \in {"slot", "watch"}
                        /\ job[p].pc = "slot" => ~SlotIsMine(p)
  PROVE  /\ SameClaim(p) /\ job'[p].pc \in Catching
         /\ Truth(a)' /\ Knows(p)' /\ Owns(p)' /\ Ends(p)'
<1>1. job[p].pc \in Working
  BY DEF Working
<1>2. /\ SameClaim(p)
      /\ job'[p].slotDone = job[p].slotDone /\ job'[p].watchDone = job[p].watchDone
      /\ job'[p].safe = ~(job[p].out = "confirmed" /\ ~job[p].watchDone)
      /\ job'[p].pc = IF job[p].slot # 0 /\ ~job[p].slotDone THEN "catch_slot"
                      ELSE IF ~job[p].watchDone THEN "catch_watch" ELSE "catch_audit"
      /\ job'[p].slot = job[p].slot /\ job'[p].out = job[p].out
  BY ThrownFact DEF IInv, TypeOK
<1>3. /\ Knows(p) /\ Owns(p) /\ Ends(p) /\ Truth(a)
      /\ job[p].slot \in Nat /\ (job[p].slot # 0 => job[p].slot \in Slots) /\ 0 \notin Slots
  BY <1>1, WorkingFacts
<1>4. /\ AuditId(p)' = a /\ Slots' = Slots /\ Mode' = Mode
      /\ table' = table /\ verdict' = verdict /\ took' = took /\ audit' = audit
  BY <1>2 DEF SameClaim, AuditId, Slots, Mode, ledger, crm
<1>5. /\ job'[p].pc \in Catching /\ job'[p].pc \notin Early \cup Settling \cup PastTesting
      /\ job'[p].pc \notin {"reading_back", "slot", "watch", "audit"}
  BY <1>2 DEF Settling, Early, Catching, PastTesting
<1>6. job[p].pc \in Early => job[p].out = "none" /\ verdict[a] = "none" /\ a \notin took
  BY <1>3 DEF Knows
<1>7. Knows(p)'
  BY <1>2, <1>3, <1>4, <1>5, <1>6 DEF Knows
<1>8. PICK n : n = job[p].slot /\ n = job'[p].slot
  BY <1>2
<1>9. \A k \in Slots : Has(table', k, a) => k = n
  BY <1>1, <1>3, <1>4, <1>8 DEF Owns
<1>10. Owns(p)'
  BY <1>2, <1>4, <1>5, <1>8, <1>9 DEF Owns, PastTesting, Early
<1>11. job[p].pc \in Early => ~job[p].slotDone /\ ~job[p].watchDone
  BY <1>3 DEF Ends
<1>12. /\ job[p].out = "confirmed" /\ Mode # "uncapped" => n # 0
       /\ job[p].slotDone => /\ n # 0 /\ Has(table, n, a) /\ table[n].state = "confirmed"
                             /\ job[p].out = "confirmed"
       /\ job[p].watchDone /\ job[p].out = "confirmed" /\ n # 0 => job[p].slotDone
  BY <1>3, <1>6, <1>8, <1>11 DEF Ends
<1>13. job'[p].pc \in {"catch_slot", "catch_watch"} /\ job[p].out = "confirmed" => ~job'[p].safe
  BY <1>2, <1>8, <1>12
<1>14. job'[p].pc = "catch_watch" /\ job'[p].safe => \A k \in Slots : ~Has(table', k, a)
  BY <1>2, <1>3, <1>8, <1>9, <1>12, <1>13
<1>15. faults' = 0 /\ job'[p].pc = "catch_slot" /\ n # 0 => ~SlotIsMine(p)'
  <2>1. faults' = 0 /\ n # 0 => ~SlotIsMine(p)
    BY <1>3, <1>8 DEF Ends
  <2> QED BY <1>4, <1>8, <2>1 DEF SlotIsMine, IsReservedBy
<1>16. Ends(p)'
  BY <1>2, <1>4, <1>5, <1>8, <1>12, <1>13, <1>14, <1>15 DEF Ends
<1>17. Truth(a)'
  BY <1>3, <1>4 DEF Truth
<1> QED BY <1>2, <1>5, <1>7, <1>10, <1>16, <1>17

-----------------------------------------------------------------------------
(* Steps that leave the slots and the sent PATCHes alone.                  *)

\* The watches a step leaves: none of them newly moved.
CalmWatches ==
  /\ watch' \in [setup.leads -> WatchRows]
  /\ \A l \in setup.leads : watch'[l].state = "moved" => watch[l].state = "moved"

\* From the creation of the audit row to its completion it reads reserved.
ReservedAudit(p) ==
  \/ audit' = [audit EXCEPT ![AuditId(p)] = "reserved"]
  \/ audit' = audit /\ job[p].pc # "claimed"

LEMMA CalmFacts ==
  ASSUME IInv, NEW p \in Passes, job[p].pc \in Early \cup {"reading_back"},
         NEW a \in AuditIds, a = AuditId(p), ReservedAudit(p)
  PROVE  /\ audit' \in [AuditIds -> Audits] /\ audit'[a] = "reserved"
         /\ \A b \in AuditIds \ {a} : audit'[b] = audit[b]
<1>1. audit \in [AuditIds -> Audits] /\ "reserved" \in Audits
  BY DEF IInv, TypeOK, Audits
<1>2. job[p].pc # "claimed" => audit[a] = "reserved"
  BY WorkingFacts DEF Working, Knows
<1> QED BY <1>1, <1>2 DEF ReservedAudit

\* What an unchanged ledger is.
LEMMA SameWatches ==
  ASSUME TypeOK, watch' = watch
  PROVE  CalmWatches
BY DEF TypeOK, CalmWatches, WatchRows

LEMMA QuietGoto ==
  ASSUME IInv, NEW p \in Passes, job[p].pc \in Early, NEW s \in Early \ {"claimed"}, Goto(p, s),
         UNCHANGED <<setup, run, table, told, took, verdict, faults>>,
         CalmWatches, ReservedAudit(p), s = "dispatching" => HoldsRun(p),
         s \in {"history", "recording", "checking", "testing", "reserving"} => job[p].slot = 0,
         s \in {"beginning", "refreshing"} /\ Mode = "capped" => job[p].slot = 0,
         s \in PastTesting /\ Mode = "testing" => job[p].slot # 0 /\ job[p].pc \in PastTesting,
         s \in {"fencing", "dispatching"} /\ Mode # "uncapped" => job[p].slot # 0,
         s = "testing" => Mode = "testing", s = "reserving" => Mode = "capped"
  PROVE  IInv'
<1>1. job[p].pc \in Working /\ s \in Steps /\ s \in Working /\ s # "reading_back"
  BY DEF Working, Early, Steps, ThrowSteps
<1>2. PICK a \in AuditIds : a = AuditId(p)
  BY <1>1, WorkingFacts
<1>3. job'[p].pc = s /\ SameClaim(p)
  BY <1>1, GotoFact DEF IInv, TypeOK
<1>4. /\ audit' \in [AuditIds -> Audits] /\ audit'[a] = "reserved"
      /\ \A b \in AuditIds \ {a} : audit'[b] = audit[b]
  BY <1>2, CalmFacts
<1>5. a \notin took' /\ Keeps(table, table', a) /\ verdict'[a] = verdict[a]
  BY <1>1, <1>2, WorkingFacts DEF Knows, Keeps
<1>6. SameClaim(p) /\ Truth(a)' /\ Knows(p)' /\ Owns(p)' /\ Ends(p)'
  BY <1>1, <1>2, <1>3, <1>4, <1>5, GotoFacts
<1>7. Steady(p)
  BY <1>1, <1>3 DEF Steady, IInv, TypeOK
<1>8. verdict' \in [AuditIds -> Verdicts] /\ (verdict[a] = "confirmed" => verdict'[a] = "confirmed")
      /\ \A b \in AuditIds \ {a} : verdict'[b] = verdict[b] /\ audit'[b] = audit[b]
  BY <1>4 DEF IInv, TypeOK, Verdicts
<1>9. /\ watch' \in [setup.leads -> WatchRows]
      /\ \A l \in setup.leads : watch'[l].state = "moved" => (watch[l].state = "moved" \/ Real(l)')
  BY DEF CalmWatches
<1>10. Mode = "testing" /\ job'[p].pc \in PastTesting => job[p].pc \in PastTesting
  BY <1>3
<1> QED BY <1>2, <1>4, <1>6, <1>7, <1>8, <1>9, <1>10, QuietStep

LEMMA QuietEnd ==
  ASSUME IInv, NEW p \in Passes, job[p].pc \in Early \cup {"reading_back"},
         NEW out \in DOMAIN Settles, End(p, out),
         UNCHANGED <<setup, run, table, told, took>>,
         faults' \in 0..setup.faults, faults' = 0 => faults = 0,
         CalmWatches, ReservedAudit(p), out = "confirmed" => job[p].pc = "reading_back",
         \/ /\ verdict' = verdict /\ out \notin {"confirmed", "uncertain"}
            /\ job[p].pc \in Early
         \/ \E v \in Verdicts \ {"none"} :
              /\ verdict' = [verdict EXCEPT ![AuditId(p)] = v]
              /\ \A u \in {"confirmed", "uncertain"} : out = u <=> v = u
  PROVE  IInv'
<1>1. job[p].pc \in Working
  BY DEF Working
<1>2. PICK a \in AuditIds : a = AuditId(p)
  BY <1>1, WorkingFacts
<1>3. /\ audit' \in [AuditIds -> Audits] /\ audit'[a] = "reserved"
      /\ \A b \in AuditIds \ {a} : audit'[b] = audit[b]
  BY <1>2, CalmFacts
<1>4. verdict \in [AuditIds -> Verdicts] /\ verdict[a] = "none" /\ Keeps(table, table', a)
      /\ (a \in took => job[p].pc = "reading_back")
  BY <1>1, <1>2, WorkingFacts DEF Knows, Keeps, IInv, TypeOK, Verdicts
<1>5. /\ verdict' \in [AuditIds -> Verdicts]
      /\ \A b \in AuditIds \ {a} : verdict'[b] = verdict[b]
      /\ \A u \in {"confirmed", "uncertain"} : out = u <=> verdict'[a] = u
      /\ verdict'[a] = "none" => a \notin took'
  <2>1. CASE verdict' = verdict /\ out \notin {"confirmed", "uncertain"} /\ job[p].pc \in Early
    BY <1>4, <2>1 DEF Early
  <2>2. ASSUME NEW v \in Verdicts \ {"none"}, verdict' = [verdict EXCEPT ![AuditId(p)] = v],
               \A u \in {"confirmed", "uncertain"} : out = u <=> v = u
        PROVE  <1>5!1 /\ <1>5!2 /\ <1>5!3 /\ <1>5!4
    BY <1>2, <1>4, <2>2
  <2> QED BY <2>1, <2>2
<1>6. /\ SameClaim(p) /\ job'[p].pc \in Settling
      /\ Truth(a)' /\ Knows(p)' /\ Owns(p)' /\ Ends(p)'
  BY <1>2, <1>3, <1>4, <1>5, EndFacts
<1>7. Steady(p)
  BY <1>1, <1>6 DEF Steady, Working, Settling
<1>8. /\ watch' \in [setup.leads -> WatchRows]
      /\ \A l \in setup.leads : watch'[l].state = "moved" => (watch[l].state = "moved" \/ Real(l)')
  BY DEF CalmWatches
<1>9. job'[p].pc \notin PastTesting
  BY <1>6 DEF Settling, PastTesting
<1> QED BY <1>2, <1>3, <1>4, <1>5, <1>6, <1>7, <1>8, <1>9, QuietStep

LEMMA QuietThrow ==
  ASSUME IInv, NEW p \in Passes, job[p].pc \in Early \cup Settling, Thrown(p),
         setup' = setup, UNCHANGED <<ledger, crm>>, faults' \in 0..setup.faults,
         faults' = 0 => /\ faults = 0 /\ job[p].pc \in {"slot", "watch"}
                        /\ job[p].pc = "slot" => ~SlotIsMine(p)
  PROVE  IInv'
<1>1. job[p].pc \in Working
  BY DEF Working
<1>2. PICK a \in AuditIds : a = AuditId(p)
  BY <1>1, WorkingFacts
<1>3. /\ SameClaim(p) /\ job'[p].pc \in Catching
      /\ Truth(a)' /\ Knows(p)' /\ Owns(p)' /\ Ends(p)'
  BY <1>2, ThrownFacts
<1>4. Steady(p)
  BY <1>1, <1>3 DEF Steady, Working, Catching, ledger, crm
<1>5. audit' \in [AuditIds -> Audits] /\ verdict' \in [AuditIds -> Verdicts] /\ CalmWatches
  BY SameWatches DEF IInv, TypeOK, Verdicts, ledger, crm
<1>6. job'[p].pc \notin PastTesting
  BY <1>3 DEF Catching, PastTesting
<1> QED BY <1>2, <1>3, <1>4, <1>5, <1>6, QuietStep DEF CalmWatches, ledger, crm

\* Where the locals put the pass before its next step.
LEMMA StepNames ==
  /\ {"claimed", "history", "recording", "checking", "testing", "beginning", "refreshing",
      "reserving", "fencing", "dispatching"} \subseteq Early
  /\ {"slot", "watch", "audit"} \subseteq Settling
  /\ ThrowSteps \subseteq Early \cup Settling
  /\ {"confirmed", "uncertain", "no_capacity", "rejected", "out_of_source", "superseded"}
       \subseteq DOMAIN Settles
BY DEF Early, Settling, ThrowSteps, Settles

LEMMA ReadStep ==
  ASSUME IInv, NEW p \in Passes, setup' = setup,
         ReadFresh(p) \/ ReadHistory(p) \/ RecordHistory(p) \/ CheckClaim(p)
  PROVE  IInv'
<1>1. job[p].pc \in Early /\ job[p].slot = 0 /\ job[p].pc \in Working
  <2>1. job[p].pc \in {"claimed", "history", "recording", "checking"}
    BY DEF ReadFresh, ReadHistory, RecordHistory, CheckClaim, At
  <2> QED BY <2>1, StepNames, WorkingFacts DEF Working, Owns
<1>2. UNCHANGED <<setup, run, table, told, took, verdict, faults>> /\ faults' \in 0..setup.faults
  BY DEF ReadFresh, ReadHistory, RecordHistory, CheckClaim, ledger, crm, IInv, TypeOK
<1>3. CASE ReadFresh(p)
  <2>1. ReservedAudit(p) /\ CalmWatches
    BY <1>3, SameWatches DEF ReadFresh, ReservedAudit, IInv
  <2>2. CASE Goto(p, "history")
    BY <1>1, <1>2, <2>1, <2>2, StepNames, QuietGoto DEF PastTesting
  <2>3. CASE End(p, "out_of_source")
    BY <1>1, <1>2, <2>1, <2>3, StepNames, QuietEnd
  <2> QED BY <1>3, <2>2, <2>3 DEF ReadFresh
<1>4. CASE ReadHistory(p)
  <2>1. ReservedAudit(p) /\ CalmWatches
    BY <1>4, SameWatches DEF ReadHistory, ReservedAudit, ledger, IInv, At
  <2>2. PICK s \in {"checking", "recording"} : Goto(p, s)
    BY <1>4 DEF ReadHistory
  <2> QED BY <1>1, <1>2, <2>1, <2>2, StepNames, QuietGoto DEF PastTesting
<1>5. CASE RecordHistory(p)
  <2>1. ReservedAudit(p) /\ End(p, "superseded")
    BY <1>5 DEF RecordHistory, ReservedAudit, At
  <2>2. CalmWatches
    <3>1. PICK n \in (job[p].at + 1)..MaxTouch :
            watch' = [watch EXCEPT ![Lead(p)] =
                        RecordEvent(@, [fp |-> <<"history", n>>, at |-> n, recv |-> 1])]
      BY <1>5 DEF RecordHistory
    <3>2. Lead(p) \in setup.leads /\ job[p] \in Jobs /\ MaxTouch \in Nat
          /\ watch \in [setup.leads -> WatchRows]
      BY <1>1, WorkingFacts, SetupFacts DEF IInv, TypeOK, WatchRows
    <3>3. n \in 1..MaxTouch /\ [fp |-> <<"history", n>>, at |-> n, recv |-> 1] \in Events
      BY <3>1, <3>2 DEF Jobs, Events, Fingerprints
    <3>4. PICK e \in Events : watch' = [watch EXCEPT ![Lead(p)] = RecordEvent(watch[Lead(p)], e)]
      BY <3>1, <3>3
    <3>5. watch[Lead(p)] \in WatchRows
      BY <3>2
    <3>6. /\ RecordEvent(watch[Lead(p)], e) \in WatchRows
          /\ RecordEvent(watch[Lead(p)], e).state = "moved" => watch[Lead(p)].state = "moved"
      BY <3>5, WatchFacts
    <3> QED BY <3>2, <3>4, <3>6 DEF CalmWatches
  <2> QED BY <1>1, <1>2, <2>1, <2>2, StepNames, QuietEnd
<1>6. CASE CheckClaim(p)
  <2>1. ReservedAudit(p) /\ CalmWatches
    BY <1>6, SameWatches DEF CheckClaim, ReservedAudit, ledger, IInv, At
  <2>2. CASE End(p, "superseded")
    BY <1>1, <1>2, <2>1, <2>2, StepNames, QuietEnd
  <2>3. ASSUME Goto(p, IF Mode = "testing" THEN "testing" ELSE "beginning") PROVE IInv'
    <3>1. PICK s \in Early \ {"claimed"} :
            Goto(p, s) /\ s = (IF Mode = "testing" THEN "testing" ELSE "beginning")
      BY <2>3, StepNames
    <3> QED BY <1>1, <1>2, <2>1, <3>1, QuietGoto DEF PastTesting
  <2> QED BY <1>6, <2>2, <2>3 DEF CheckClaim
<1> QED BY <1>3, <1>4, <1>5, <1>6

LEMMA BeginStep ==
  ASSUME IInv, NEW p \in Passes, setup' = setup, BeginMoveMutation(p)
  PROVE  IInv'
<1>1. job[p].pc = "beginning" /\ job[p].pc \in Early \cap Working
  BY StepNames DEF BeginMoveMutation, At, Working
<1>2. UNCHANGED <<setup, run, table, told, took, verdict, faults>> /\ faults' \in 0..setup.faults
      /\ ReservedAudit(p)
  BY <1>1 DEF BeginMoveMutation, crm, IInv, TypeOK, ReservedAudit
<1>3. CASE Goto(p, "refreshing") /\ watch' = [watch EXCEPT ![Lead(p)] = BeginMove(@)]
  <2>1. Lead(p) \in setup.leads /\ watch \in [setup.leads -> WatchRows]
    BY <1>1, WorkingFacts DEF IInv, TypeOK, WatchRows
  <2>2. CalmWatches
    BY <1>3, <2>1, WatchFacts DEF CalmWatches
  <2>3. /\ Mode = "capped" => job[p].slot = 0
        /\ Mode = "testing" => job[p].slot # 0 /\ job[p].pc \in PastTesting
    BY <1>1, WorkingFacts DEF Owns, PastTesting
  <2> QED BY <1>1, <1>2, <1>3, <2>2, <2>3, StepNames, QuietGoto
<1>4. CASE End(p, "superseded") /\ watch' = watch
  <2>1. CalmWatches
    BY <1>4, SameWatches DEF IInv
  <2> QED BY <1>1, <1>2, <1>4, <2>1, StepNames, QuietEnd
<1> QED BY <1>3, <1>4 DEF BeginMoveMutation

\* Return ends the move with a verdict.
LEMMA ReturnStep ==
  ASSUME IInv, NEW p \in Passes, job[p].pc \in {"refreshing", "fencing", "reserving", "reading_back"},
         NEW out \in DOMAIN Settles, NEW v \in Verdicts \ {"none"}, Return(p, out, v),
         setup' = setup, UNCHANGED ledger, told' = told,
         faults' \in 0..setup.faults, faults' = 0 => faults = 0,
         \A u \in {"confirmed", "uncertain"} : out = u <=> v = u,
         out = "confirmed" => job[p].pc = "reading_back"
  PROVE  IInv'
<1>1. job[p].pc \in Early \cup {"reading_back"} /\ job[p].pc # "claimed"
  BY StepNames
<1>2. ReservedAudit(p) /\ CalmWatches /\ UNCHANGED <<run, table>>
  BY <1>1, SameWatches DEF ReservedAudit, ledger, IInv
<1>3. /\ End(p, out) /\ took' = took
      /\ \E w \in Verdicts \ {"none"} :
           /\ verdict' = [verdict EXCEPT ![AuditId(p)] = w]
           /\ \A u \in {"confirmed", "uncertain"} : out = u <=> w = u
  BY DEF Return
<1> QED BY <1>1, <1>2, <1>3, QuietEnd

LEMMA MoveStep ==
  ASSUME IInv, NEW p \in Passes, setup' = setup,
         Refresh(p) \/ LastFence(p) \/ ReadBack(p) \/ MoveFault(p)
  PROVE  IInv'
<1>n. \A out \in {"confirmed", "uncertain", "no_capacity", "rejected", "out_of_source", "superseded"} :
        out \in DOMAIN Settles
  BY StepNames
<1>v. {"confirmed", "uncertain", "not_moved"} \subseteq Verdicts \ {"none"}
  BY DEF Verdicts
<1>f. faults \in Nat /\ faults \in 0..setup.faults /\ setup.faults \in Nat
  BY SetupFacts DEF IInv, TypeOK
<1>1. CASE Refresh(p)
  <2>1. job[p].pc = "refreshing" /\ UNCHANGED ledger /\ faults' = faults
    BY <1>1 DEF Refresh, At
  <2>2. CASE Return(p, "superseded", "not_moved") \/ Return(p, "out_of_source", "not_moved")
    BY <1>n, <1>v, <1>f, <2>1, <2>2, ReturnStep DEF Return
  <2>3. CASE Goto(p, IF Mode = "capped" THEN "reserving" ELSE "fencing") /\ UNCHANGED crm
    <3>1. PICK s \in Early \ {"claimed"} :
            Goto(p, s) /\ s = (IF Mode = "capped" THEN "reserving" ELSE "fencing")
      BY <2>3, StepNames
    <3>2. job[p].pc \in Early \cap Working /\ job[p].pc \in PastTesting
      BY <2>1, StepNames DEF Working, PastTesting
    <3>3. /\ Mode = "capped" => job[p].slot = 0
          /\ Mode = "testing" => job[p].slot # 0
          /\ setup.mode \in {"testing", "capped", "uncapped"}
      BY <2>1, <3>2, WorkingFacts, SetupFacts DEF Owns, IInv
    <3>4. ReservedAudit(p) /\ CalmWatches /\ UNCHANGED <<run, table, told, took, verdict>>
      BY <2>1, <2>3, SameWatches DEF ReservedAudit, ledger, crm, IInv
    <3> QED BY <2>1, <3>1, <3>2, <3>3, <3>4, QuietGoto DEF PastTesting, Mode
  <2> QED BY <1>1, <2>2, <2>3 DEF Refresh
<1>2. CASE LastFence(p)
  <2>1. job[p].pc = "fencing" /\ UNCHANGED ledger /\ faults' = faults
    BY <1>2 DEF LastFence, At
  <2>2. CASE Return(p, "superseded", "not_moved") \/ Return(p, "no_capacity", "not_moved")
    BY <1>n, <1>v, <1>f, <2>1, <2>2, ReturnStep DEF Return
  <2>3. CASE MoveFence(p) /\ Goto(p, "dispatching") /\ UNCHANGED crm
    <3>1. job[p].pc \in Early \cap Working /\ job[p].pc \in PastTesting
      BY <2>1, StepNames DEF Working, PastTesting
    <3>2. (Mode # "uncapped" => job[p].slot # 0) /\ HoldsRun(p)
      BY <2>1, <2>3, <3>1, WorkingFacts DEF Owns, MoveFence
    <3>3. ReservedAudit(p) /\ CalmWatches /\ UNCHANGED <<run, table, told, took, verdict>>
      BY <2>1, <2>3, SameWatches DEF ReservedAudit, ledger, crm, IInv
    <3>4. "dispatching" \in Early \ {"claimed"}
      BY StepNames
    <3> QED BY <2>1, <2>3, <3>1, <3>2, <3>3, <3>4, QuietGoto
  <2> QED BY <1>2, <2>2, <2>3 DEF LastFence
<1>3. CASE ReadBack(p)
  <2>1. job[p].pc = "reading_back" /\ UNCHANGED ledger /\ faults' = faults
    BY <1>3 DEF ReadBack, At
  <2>2. \/ Return(p, "confirmed", "confirmed") \/ Return(p, "rejected", "not_moved")
        \/ Return(p, "uncertain", "uncertain")
    BY <1>3 DEF ReadBack, Stages
  <2> QED BY <1>n, <1>v, <1>f, <2>1, <2>2, ReturnStep DEF Return
<1>4. CASE MoveFault(p)
  <2>1. /\ job[p].pc \in {"refreshing", "reserving", "fencing", "reading_back"} /\ UNCHANGED ledger
        /\ faults' = faults + 1 /\ faults < setup.faults
    BY <1>4 DEF MoveFault, Fault
  <2>2. Return(p, "uncertain", "uncertain") \/ Return(p, "rejected", "not_moved")
    BY <1>4 DEF MoveFault
  <2>3. faults' \in 0..setup.faults /\ faults' # 0
    BY <1>f, <2>1
  <2> QED BY <1>n, <1>v, <2>1, <2>2, <2>3, ReturnStep DEF Return
<1> QED BY <1>1, <1>2, <1>3, <1>4

LEMMA ThrowStep ==
  ASSUME IInv, NEW p \in Passes, setup' = setup, StepThrows(p) \/ MatchThrows(p)
  PROVE  IInv'
<1>f. faults \in Nat /\ faults \in 0..setup.faults /\ setup.faults \in Nat
  BY SetupFacts DEF IInv, TypeOK
<1>1. CASE StepThrows(p)
  <2>1. job[p].pc \in Early \cup Settling /\ Thrown(p) /\ UNCHANGED <<ledger, crm>>
    BY <1>1, StepNames DEF StepThrows
  <2>2. faults' \in 0..setup.faults /\ faults' # 0
    BY <1>1, <1>f DEF StepThrows, Fault
  <2> QED BY <2>1, <2>2, QuietThrow
<1>2. CASE MatchThrows(p)
  <2>1. /\ job[p].pc \in {"slot", "watch"} /\ (job[p].pc = "slot" => ~SlotIsMine(p))
        /\ Thrown(p) /\ UNCHANGED <<ledger, crm, faults>>
    BY <1>2 DEF MatchThrows, At
  <2> QED BY <1>f, <2>1, StepNames, QuietThrow
<1> QED BY <1>1, <1>2

-----------------------------------------------------------------------------
(* The PATCH and the reservations.                                         *)

LEMMA DispatchStep ==
  ASSUME IInv, NEW p \in Passes, setup' = setup, Dispatch(p)
  PROVE  IInv'
<1>1. job[p].pc = "dispatching" /\ job[p].pc \in Early \cap Working /\ UNCHANGED <<ledger, faults>>
      /\ told' = told
  BY StepNames DEF Dispatch, At, Working
<1>2. PICK a \in AuditIds : a = AuditId(p)
  BY <1>1, WorkingFacts
<1>3. /\ a \notin took /\ audit[a] = "reserved" /\ verdict[a] = "none" /\ HoldsRun(p)
      /\ (Mode # "uncapped" => job[p].slot # 0) /\ Keeps(table, table', a) /\ audit' = audit
      /\ table' = table /\ run' = run /\ watch' = watch
  BY <1>1, <1>2, WorkingFacts DEF Knows, Owns, IInv, SendersHoldRun, At, Keeps, ledger
<1>4. /\ verdict \in [AuditIds -> Verdicts] /\ audit' \in [AuditIds -> Audits]
      /\ took \subseteq AuditIds /\ faults' \in 0..setup.faults
      /\ {"not_moved", "uncertain"} \subseteq Verdicts
  BY <1>1, <1>3 DEF IInv, TypeOK, Verdicts
<1>5. /\ took' \in {took, took \cup {a}} /\ SameClaim(p)
      /\ job'[p].pc \in Settling \cup {"reading_back"}
      /\ Truth(a)' /\ Knows(p)' /\ Owns(p)' /\ Ends(p)'
      /\ verdict' \in [AuditIds -> Verdicts]
      /\ \A b \in AuditIds \ {a} : verdict'[b] = verdict[b]
  <2>1. CASE took' = took \cup {AuditId(p)} /\ Goto(p, "reading_back") /\ verdict' = verdict
    <3>1. job'[p].pc = "reading_back" /\ SameClaim(p)
      BY <2>1, GotoFact DEF IInv, TypeOK, Steps
    <3>2. Truth(a)' /\ Knows(p)' /\ Owns(p)' /\ Ends(p)'
      BY <1>1, <1>2, <1>3, <2>1, <3>1, GotoFacts DEF PastTesting
    <3> QED BY <1>2, <1>4, <2>1, <3>1, <3>2
  <2>2. ASSUME NEW out \in {"rejected", "uncertain"}, NEW v \in {"not_moved", "uncertain"},
               End(p, out), verdict' = [verdict EXCEPT ![AuditId(p)] = v],
               out = "uncertain" <=> v = "uncertain", took' \in {took, took \cup {AuditId(p)}}
        PROVE  <1>5
    <3>1. verdict'[a] = v /\ verdict' \in [AuditIds -> Verdicts]
          /\ \A b \in AuditIds \ {a} : verdict'[b] = verdict[b]
      BY <1>2, <1>4, <2>2
    <3>2. out \in DOMAIN Settles /\ \A u \in {"confirmed", "uncertain"} : out = u <=> verdict'[a] = u
      BY <2>2, <3>1, StepNames
    <3>3. out # "confirmed" /\ verdict'[a] # "none" /\ audit'[a] = "reserved"
      BY <1>3, <2>2, <3>1
    <3>4. /\ SameClaim(p) /\ job'[p].pc \in Settling
          /\ Truth(a)' /\ Knows(p)' /\ Owns(p)' /\ Ends(p)'
      BY <1>1, <1>2, <1>3, <2>2, <3>2, <3>3, EndFacts
    <3> QED BY <1>2, <2>2, <3>1, <3>4
  <2>3. CASE End(p, "rejected") /\ verdict' = [verdict EXCEPT ![AuditId(p)] = "not_moved"]
             /\ took' = took
    BY <2>2, <2>3
  <2>4. CASE End(p, "uncertain") /\ verdict' = [verdict EXCEPT ![AuditId(p)] = "uncertain"]
             /\ took' \in {took, took \cup {AuditId(p)}}
    BY <2>2, <2>4
  <2> QED BY <2>1, <2>3, <2>4 DEF Dispatch
<1>6. Steady(p) /\ job'[p].pc \notin PastTesting
  BY <1>1, <1>3, <1>4, <1>5 DEF Steady, Working, Settling, PastTesting
<1>7. CalmWatches
  BY <1>3, SameWatches DEF IInv
<1>8. table' \in Tables /\ SlotsAreClaims'
  BY <1>3 DEF IInv, TypeOK, Tables, SlotRows, Slots, SlotsAreClaims
<1>9. \A b \in AuditIds \ {a} : Spares(b)
  BY <1>3, <1>5 DEF Spares, Keeps
<1>10. Alone'
  <2>1. job[p].pc \notin {"ready", "done"} /\ job'[p].old = job[p].old /\ Others(p)
    BY <1>1, <1>5 DEF SameClaim
  <2>2. \A q \in Passes : HoldsRun(q)' => HoldsRun(q)
    BY <1>3 DEF HoldsRun
  <2>3. \A b \in took' : \/ b \in took
                         \/ b = AuditId(p) /\ HoldsRun(p) /\ job'[p].pc \notin PastTesting
    BY <1>2, <1>3, <1>5, <1>6
  <2> QED BY <1>3, <1>6, <2>1, <2>2, <2>3, AloneStands
<1>11. took' \subseteq AuditIds /\ verdict[a] # "confirmed"
  BY <1>3, <1>4, <1>5
<1> QED BY <1>2, <1>3, <1>4, <1>5, <1>6, <1>7, <1>8, <1>9, <1>10, <1>11, ClaimStep DEF CalmWatches

\* What a table says after some reservations expired.
LEMMA AgedFacts ==
  ASSUME IInv, NEW t \in Tables, Aged(table, t)
  PROVE  /\ \A b \in AuditIds : Keeps(table, t, b)
         /\ \A n \in Slots : t[n].state \in SpentStates => t[n].audit \in AuditIds
         /\ \A n \in Slots : table[n].state = "confirmed" =>
              t[n].state = "confirmed" /\ t[n].audit = table[n].audit
<1>1. \A n \in Slots : t[n].state \in SpentStates <=> table[n].state \in SpentStates
  BY DEF Aged, SpentStates
<1>2. \A b \in AuditIds, n \in Slots : Has(t, n, b) <=> Has(table, n, b)
  BY <1>1 DEF Aged, Has
<1>3. \A n \in Slots : t[n].state \in SpentStates => t[n].audit \in AuditIds
  BY <1>1 DEF Aged, IInv, SlotsAreClaims
<1> QED BY <1>2, <1>3 DEF Aged, Keeps

\* A pass that finds no free slot goes to its settlement, with an aged table.
LEMMA FullStep ==
  ASSUME IInv, NEW p \in Passes, job[p].pc \in {"testing", "reserving"}, setup' = setup,
         UNCHANGED <<run, watch, audit, told, took, faults>>, End(p, "no_capacity"),
         table' \in Tables, Aged(table, table'),
         verdict' = verdict \/ verdict' = [verdict EXCEPT ![AuditId(p)] = "not_moved"],
         Mode = "testing" =>
           \A n \in Slots : table'[n].state = "uncertain" =>
             \/ table[n].state = "uncertain"
             \/ table[n].state = "reserved" /\ table[n].audit[1] \in job[p].old
  PROVE  IInv'
<1>1. job[p].pc \in Early \cap Working /\ job[p].pc # "claimed"
  BY StepNames DEF Working
<1>2. PICK a \in AuditIds : a = AuditId(p)
  BY <1>1, WorkingFacts
<1>3. a \notin took /\ audit[a] = "reserved" /\ verdict[a] = "none"
  BY <1>1, <1>2, WorkingFacts DEF Knows
<1>4. /\ \A b \in AuditIds : Keeps(table, table', b)
      /\ \A n \in Slots : table[n].state = "confirmed" =>
           table'[n].state = "confirmed" /\ table'[n].audit = table[n].audit
      /\ SlotsAreClaims'
  BY AgedFacts DEF SlotsAreClaims, Slots
<1>5. /\ verdict' \in [AuditIds -> Verdicts] /\ verdict'[a] \in {"none", "not_moved"}
      /\ \A b \in AuditIds \ {a} : verdict'[b] = verdict[b]
      /\ audit' \in [AuditIds -> Audits] /\ took' \subseteq AuditIds /\ faults' \in 0..setup.faults
  BY <1>2, <1>3 DEF IInv, TypeOK, Verdicts
<1>6. "no_capacity" \in DOMAIN Settles
      /\ \A u \in {"confirmed", "uncertain"} : "no_capacity" = u <=> verdict'[a] = u
  BY <1>5, StepNames
<1>7. /\ SameClaim(p) /\ job'[p].pc \in Settling
      /\ Truth(a)' /\ Knows(p)' /\ Owns(p)' /\ Ends(p)'
  BY <1>1, <1>2, <1>3, <1>4, <1>5, <1>6, EndFacts
<1>8. Steady(p) /\ job'[p].pc \notin PastTesting
  BY <1>1, <1>5, <1>7 DEF Steady, Working, Settling, PastTesting
<1>9. CalmWatches /\ (\A b \in AuditIds \ {a} : Spares(b))
  BY <1>4, <1>5, SameWatches DEF Spares, IInv
<1>10. Alone'
  <2>1. job[p].pc \notin {"ready", "done"} /\ job'[p].old = job[p].old /\ Others(p)
    BY <1>1, <1>7 DEF SameClaim
  <2>2. \A q \in Passes : HoldsRun(q)' => HoldsRun(q)
    BY DEF HoldsRun
  <2>3. ASSUME NEW n \in Slots, NEW q \in Passes, NEW l \in Leads,
               table'[n].audit = <<q, l>>, <<q, l>> \in took, Mode = "testing"
        PROVE  /\ table'[n].state = "reserved" =>
                    table[n].state = "reserved" /\ table[n].audit = <<q, l>>
               /\ table'[n].state = "uncertain" =>
                    /\ table[n].audit = <<q, l>>
                    /\ \/ table[n].state = "uncertain"
                       \/ table[n].state = "reserved" /\ q \in job[p].old
    BY <2>3 DEF Aged
  <2> QED BY <1>8, <2>1, <2>2, <2>3, AloneStands
<1> QED BY <1>2, <1>3, <1>4, <1>5, <1>7, <1>8, <1>9, <1>10, ClaimStep DEF CalmWatches

\* A pass takes the lowest free slot of an aged table.
LEMMA TakeStep ==
  ASSUME IInv, NEW p \in Passes, setup' = setup, NEW s \in {"beginning", "fencing"},
         \/ job[p].pc = "testing" /\ s = "beginning"
         \/ job[p].pc = "reserving" /\ s = "fencing",
         UNCHANGED <<run, watch, audit, told, took, verdict, faults>>,
         NEW t \in Tables, Aged(table, t), FreeNumbers(t) # {},
         table' = Reserve(t, LowestFree(t), AuditId(p)),
         job' = [job EXCEPT ![p].pc = s, ![p].slot = LowestFree(t)],
         Mode = "testing" =>
           \A n \in Slots :
             /\ t[n].state # "uncertain"
             /\ t[n].state = "reserved" => t[n].audit[1] \notin job[p].old
  PROVE  IInv'
<1>1. job[p].pc \in Early \cap Working /\ job[p].pc # "claimed" /\ job[p].slot = 0
      /\ (s = "beginning" => Mode = "testing") /\ (s = "fencing" => Mode = "capped")
  <2>1. job[p].pc \in {"testing", "reserving"} /\ job[p].pc \in Early \cap Working
    BY StepNames DEF Working
  <2> QED BY <2>1, WorkingFacts DEF Owns
<1>2. PICK a \in AuditIds : a = AuditId(p)
  BY <1>1, WorkingFacts
<1>3. a \notin took /\ audit[a] = "reserved" /\ verdict[a] = "none" /\ job[p].out = "none"
      /\ ~job[p].slotDone /\ ~job[p].watchDone
  BY <1>1, <1>2, WorkingFacts DEF Knows, Ends
<1>4. PICK m : m = LowestFree(t)
  OBVIOUS
<1>5. /\ m \in Slots /\ t[m].state = "free" /\ m # 0 /\ table' \in Tables
      /\ \A k \in Slots \ {m} : table'[k] = t[k]
      /\ table'[m].state = "reserved" /\ table'[m].audit = a
  BY <1>2, <1>4, ReserveFact, SetupFacts DEF IInv
<1>6. /\ \A b \in AuditIds : Keeps(table, t, b)
      /\ \A n \in Slots : t[n].state \in SpentStates => t[n].audit \in AuditIds
      /\ \A n \in Slots : table[n].state = "confirmed" =>
           t[n].state = "confirmed" /\ t[n].audit = table[n].audit
  BY AgedFacts
<1>7. /\ SameClaim(p) /\ SameEnds(p) /\ job'[p].pc = s /\ job'[p].slot = m
      /\ job'[p].out = job[p].out
  <2>1. s \in Steps /\ m \in 0..setup.limit /\ job \in [Passes -> Jobs]
    BY <1>5 DEF Steps, ThrowSteps, Slots, IInv, TypeOK
  <2> QED BY <1>4, <2>1, TakeFact
<1>8. \A k \in Slots : Has(table', k, a) => k = m
  <2>1. \A k \in Slots : ~Has(table, k, a)
    BY <1>1, <1>2, WorkingFacts DEF Owns
  <2> QED BY <1>5, <1>6, <2>1 DEF Has, Keeps
<1>9. AuditId(p)' = a /\ Slots' = Slots /\ Mode' = Mode /\ Has(table', m, a)
  BY <1>2, <1>5, <1>7 DEF SameClaim, AuditId, Slots, Mode, Has, SpentStates
<1>10. /\ s \in PastTesting /\ s \in Early \cap Working /\ s \notin Settling \cup Catching
       /\ s \notin {"claimed", "history", "recording", "checking", "testing", "reserving",
                    "reading_back", "slot", "watch", "audit", "catch_slot", "catch_watch"}
  BY StepNames DEF PastTesting, Working, Settling, Catching
<1>11. Knows(p)'
  BY <1>3, <1>7, <1>9, <1>10 DEF Knows
<1>12. Owns(p)'
  BY <1>1, <1>5, <1>7, <1>8, <1>9, <1>10 DEF Owns
<1>13. Ends(p)'
  <2>1. ~job'[p].slotDone /\ ~job'[p].watchDone
    BY <1>3, <1>7 DEF SameEnds
  <2> QED BY <1>7, <1>10, <2>1 DEF Ends
<1>14. Truth(a)'
  BY <1>3 DEF Truth
<1>15. Steady(p) /\ CalmWatches
  BY <1>1, <1>7, <1>10, SameWatches DEF Steady, IInv, TypeOK
<1>16. \A b \in AuditIds \ {a} : Spares(b)
  <2>1. ASSUME NEW b \in AuditIds \ {a} PROVE Keeps(table, table', b)
    <3>1. ~Has(t, m, b) /\ ~Has(table', m, b)
      BY <1>5 DEF Has, SpentStates
    <3>2. \A k \in Slots \ {m} : (Has(table', k, b) <=> Has(t, k, b)) /\ table'[k].state = t[k].state
      BY <1>5 DEF Has
    <3> QED BY <1>6, <3>1, <3>2 DEF Keeps
  <2> QED BY <2>1 DEF Spares
<1>17. SlotsAreClaims' /\ \A n \in Slots : table[n].state = "confirmed" =>
         table'[n].state = "confirmed" /\ table'[n].audit = table[n].audit
  <2>1. SlotsAreClaims'
    BY <1>5, <1>6, <1>9 DEF SlotsAreClaims
  <2>2. ASSUME NEW n \in Slots, table[n].state = "confirmed"
        PROVE  table'[n].state = "confirmed" /\ table'[n].audit = table[n].audit
    BY <1>5, <1>6, <2>2
  <2> QED BY <2>1, <2>2
<1>18. Alone'
  <2> SUFFICES ASSUME Mode = "testing", NEW h \in Passes, HoldsRun(h)'
               PROVE  /\ job'[h].pc \notin {"ready", "done"} => Overtaken(h)'
                      /\ job'[h].pc \in PastTesting => NothingOpen(h)'
    BY <1>9 DEF Alone
  <2>1. /\ HoldsRun(h) /\ Others(p) /\ \A q \in Passes : job'[q].old = job[q].old
        /\ \A q \in Passes : job'[q].pc \in {"ready", "done"} <=> job[q].pc \in {"ready", "done"}
        /\ \A q \in Passes : job'[q].pc = "done" <=> job[q].pc = "done"
    <3>1. job[p].pc \notin {"ready", "done"} /\ job'[p].pc \notin {"ready", "done"}
      BY <1>7
    <3>2. \A q \in Passes \ {p} : job'[q] = job[q]
      BY <1>7 DEF SameClaim, Others
    <3> QED BY <1>7, <3>1, <3>2 DEF HoldsRun, SameClaim
  <2>2. ASSUME NEW q \in Passes, NEW l \in Leads, NEW n \in Slots,
               table'[n].audit = <<q, l>>, <<q, l>> \in took'
        PROVE  /\ n # m /\ table'[n] = t[n] /\ t[n].audit = <<q, l>> /\ table[n].audit = <<q, l>>
               /\ t[n].state = "reserved" => table[n].state = "reserved"
    BY <1>3, <1>5, <2>2 DEF Aged
  <2>3. ASSUME job'[h].pc \notin {"ready", "done"} PROVE Overtaken(h)'
    <3>1. Overtaken(h)
      BY <2>1, <2>3 DEF IInv, Alone
    <3>2. ASSUME NEW q \in Passes \ {h}, NEW l \in Leads, NEW n \in Slots,
                 table'[n].state = "reserved", table'[n].audit = <<q, l>>, <<q, l>> \in took',
                 job'[q].pc # "done"
          PROVE  q \in job[h].old
      <4>1. table[n].audit = <<q, l>> /\ table[n].state = "reserved" /\ <<q, l>> \in took
        BY <2>2, <3>2
      <4>2. job[q].pc # "done"
        BY <2>1, <3>2
      <4> QED BY <3>1, <4>1, <4>2 DEF Overtaken, At
    <3> QED BY <1>9, <2>1, <3>1, <3>2 DEF Overtaken, At
  <2>4. ASSUME job'[h].pc \in PastTesting PROVE NothingOpen(h)'
    <3>1. ASSUME NEW q \in Passes, NEW l \in Leads, NEW n \in Slots,
                 table'[n].audit = <<q, l>>, <<q, l>> \in took'
          PROVE  /\ table'[n].state # "uncertain"
                 /\ table'[n].state = "reserved" => q \notin job[h].old
      <4>1. /\ table'[n] = t[n] /\ t[n].audit = <<q, l>> /\ table[n].audit = <<q, l>>
            /\ t[n].state = "reserved" => table[n].state = "reserved"
            /\ <<q, l>> \in took
        BY <2>2, <3>1
      <4>2. CASE h = p
        BY <4>1, <4>2
      <4>3. CASE h # p
        <5>1. NothingOpen(h)
          BY <2>1, <2>4, <4>3 DEF IInv, Alone, Others, PastTesting
        <5> QED BY <4>1, <5>1 DEF NothingOpen
      <4> QED BY <4>2, <4>3
    <3> QED BY <1>9, <2>1, <3>1 DEF NothingOpen
  <2> QED BY <2>3, <2>4
<1> QED BY <1>2, <1>3, <1>5, <1>11, <1>12, <1>13, <1>14, <1>15, <1>16, <1>17, <1>18, ClaimStep
        DEF CalmWatches, IInv, TypeOK, Verdicts

LEMMA ReserveStep ==
  ASSUME IInv, NEW p \in Passes, setup' = setup, ReserveTestSlot(p) \/ ReserveDailySlot(p)
  PROVE  IInv'
<1>t. table \in Tables /\ DOMAIN table = Slots
  BY DEF IInv, TypeOK, Tables, SlotRows, Slots
<1>1. CASE ReserveTestSlot(p)
  <2>1. job[p].pc = "testing" /\ UNCHANGED <<run, watch, audit, told, took, verdict, faults>>
    BY <1>1 DEF ReserveTestSlot, At, crm
  <2>2. PICK t : t = MarkOld(p)
    OBVIOUS
  <2>3. /\ t \in Tables /\ Aged(table, t)
        /\ \A n \in Slots : t[n].state =
             IF table[n].state = "reserved" /\ table[n].audit[1] \in job[p].old
             THEN "uncertain" ELSE table[n].state
    <3> DEFINE f == [n \in Slots |-> table[n].state = "reserved" /\ table[n].audit[1] \in job[p].old]
    <3>1. f \in [Slots -> BOOLEAN]
      OBVIOUS
    <3>2. t = MarkExpired([n \in DOMAIN table |-> [table[n] EXCEPT !.lapsed = f[n]]])
      BY <1>t, <2>2 DEF MarkOld
    <3>3. \A n \in Slots : f[n] <=> table[n].state = "reserved" /\ table[n].audit[1] \in job[p].old
      OBVIOUS
    <3> HIDE DEF f
    <3> QED BY <1>t, <3>1, <3>2, <3>3, ExpireFact
  <2>4. CASE table' = t /\ End(p, "no_capacity")
    BY <2>1, <2>3, <2>4, FullStep
  <2>5. CASE /\ FreeNumbers(t) # {} /\ \A n \in Slots : t[n].state # "uncertain"
             /\ table' = Reserve(t, LowestFree(t), AuditId(p))
             /\ job' = [job EXCEPT ![p].pc = "beginning", ![p].slot = LowestFree(t)]
    <3>1. \A n \in Slots : t[n].state = "reserved" => t[n].audit[1] \notin job[p].old
      BY <2>3 DEF Aged
    <3> QED BY <2>1, <2>3, <2>5, <3>1, TakeStep
  <2>6. DOMAIN t = Slots
    BY <2>3 DEF Tables
  <2> QED BY <1>1, <2>2, <2>4, <2>5, <2>6 DEF ReserveTestSlot
<1>2. CASE ReserveDailySlot(p)
  <2>1. job[p].pc = "reserving" /\ UNCHANGED <<run, watch, audit, faults>>
    BY <1>2 DEF ReserveDailySlot, At
  <2>2. Mode = "capped"
    <3>1. job[p].pc \in Working
      BY <2>1, StepNames DEF Working
    <3> QED BY <2>1, <3>1, WorkingFacts DEF Owns
  <2>3. PICK t \in MarkSome :
          IF FreeNumbers(t) = {}
          THEN table' = t /\ Return(p, "no_capacity", "not_moved")
          ELSE /\ table' = Reserve(t, LowestFree(t), AuditId(p))
               /\ job' = [job EXCEPT ![p].pc = "fencing", ![p].slot = LowestFree(t)]
               /\ UNCHANGED crm
    BY <1>2 DEF ReserveDailySlot
  <2>4. t \in Tables /\ Aged(table, t)
    <3>1. PICK E : t = MarkExpired([n \in DOMAIN table |-> [table[n] EXCEPT !.lapsed = n \in E]])
      BY DEF MarkSome
    <3> DEFINE f == [n \in Slots |-> n \in E]
    <3>2. f \in [Slots -> BOOLEAN]
          /\ t = MarkExpired([n \in DOMAIN table |-> [table[n] EXCEPT !.lapsed = f[n]]])
      BY <1>t, <3>1
    <3> HIDE DEF f
    <3> QED BY <1>t, <3>2, ExpireFact
  <2>5. CASE FreeNumbers(t) = {}
    BY <2>1, <2>2, <2>3, <2>4, <2>5, FullStep DEF Return
  <2>6. CASE FreeNumbers(t) # {}
    BY <2>1, <2>2, <2>3, <2>4, <2>6, TakeStep DEF crm
  <2> QED BY <2>5, <2>6
<1> QED BY <1>1, <1>2

-----------------------------------------------------------------------------
(* The settlement and the catch block.                                     *)

LEMMA SettlesFacts ==
  \A out \in DOMAIN Settles :
    /\ Settles[out].slot \in {"confirm", "mark", "release"}
    /\ Settles[out].slot = "confirm" <=> out = "confirmed"
    /\ Settles[out].slot = "mark" <=> out = "uncertain"
    /\ Settles[out].watch \in WatchStates \cup {"none"}
    /\ Settles[out].watch = "none" <=> out = "superseded"
    /\ Settles[out].watch = "moved" <=> out = "confirmed"
    /\ Settles[out].watch = "watching" => out = "no_capacity"
    /\ Settles[out].audit \in Audits
    /\ Settles[out].audit = "confirmed" <=> out = "confirmed"
    /\ AfterSlot(out) = IF out = "superseded" THEN "audit" ELSE "watch"
BY DEF Settles, AfterSlot, WatchStates, Audits

\* The locals of a claim whose step sets its place and one flag.
LEMMA FlagFact ==
  ASSUME job \in [Passes -> Jobs], NEW p \in Passes, NEW s \in Steps, NEW b \in BOOLEAN
  PROVE  /\ job' = [job EXCEPT ![p].pc = s, ![p].slotDone = b] =>
              /\ SameClaim(p) /\ job'[p].pc = s
              /\ job'[p].slot = job[p].slot /\ job'[p].out = job[p].out
              /\ job'[p].slotDone = b /\ job'[p].watchDone = job[p].watchDone
         /\ job' = [job EXCEPT ![p].pc = s, ![p].watchDone = b] =>
              /\ SameClaim(p) /\ job'[p].pc = s
              /\ job'[p].slot = job[p].slot /\ job'[p].out = job[p].out
              /\ job'[p].slotDone = job[p].slotDone /\ job'[p].watchDone = b
         /\ job' = [job EXCEPT ![p].pc = s, ![p].stop = b] =>
              SameClaim(p) /\ job'[p].pc = s
<1>1. [job[p] EXCEPT !.pc = s] \in Jobs
  BY DEF Jobs
<1>2. ASSUME job' = [job EXCEPT ![p].pc = s, ![p].slotDone = b]
      PROVE  /\ SameClaim(p) /\ job'[p].pc = s
             /\ job'[p].slot = job[p].slot /\ job'[p].out = job[p].out
             /\ job'[p].slotDone = b /\ job'[p].watchDone = job[p].watchDone
  <2>1. job' = [job EXCEPT ![p] = [[job[p] EXCEPT !.pc = s] EXCEPT !.slotDone = b]]
    BY <1>2
  <2>2. [[job[p] EXCEPT !.pc = s] EXCEPT !.slotDone = b] \in Jobs
    BY <1>1 DEF Jobs
  <2> QED BY <2>1, <2>2 DEF SameClaim, Others, Jobs
<1>3. ASSUME job' = [job EXCEPT ![p].pc = s, ![p].watchDone = b]
      PROVE  /\ SameClaim(p) /\ job'[p].pc = s
             /\ job'[p].slot = job[p].slot /\ job'[p].out = job[p].out
             /\ job'[p].slotDone = job[p].slotDone /\ job'[p].watchDone = b
  <2>1. job' = [job EXCEPT ![p] = [[job[p] EXCEPT !.pc = s] EXCEPT !.watchDone = b]]
    BY <1>3
  <2>2. [[job[p] EXCEPT !.pc = s] EXCEPT !.watchDone = b] \in Jobs
    BY <1>1 DEF Jobs
  <2> QED BY <2>1, <2>2 DEF SameClaim, Others, Jobs
<1>4. ASSUME job' = [job EXCEPT ![p].pc = s, ![p].stop = b]
      PROVE  SameClaim(p) /\ job'[p].pc = s
  <2>1. job' = [job EXCEPT ![p] = [[job[p] EXCEPT !.pc = s] EXCEPT !.stop = b]]
    BY <1>4
  <2>2. [[job[p] EXCEPT !.pc = s] EXCEPT !.stop = b] \in Jobs
    BY <1>1 DEF Jobs
  <2> QED BY <2>1, <2>2 DEF SameClaim, Others, Jobs
<1> QED BY <1>2, <1>3, <1>4

LEMMA SettleWatchStep ==
  ASSUME IInv, NEW p \in Passes, setup' = setup, SettleWatch(p)
  PROVE  IInv'
<1>1. /\ job[p].pc = "watch" /\ job[p].pc \in Settling /\ job[p].pc \in Working
      /\ UNCHANGED <<run, table, audit, told, took, verdict, faults>>
  BY StepNames DEF SettleWatch, At, Working, crm
<1>2. PICK a \in AuditIds : a = AuditId(p)
  BY <1>1, WorkingFacts
<1>3. PICK n : n = job[p].slot
  OBVIOUS
<1>4. /\ Knows(p) /\ Owns(p) /\ Ends(p) /\ Truth(a) /\ Lead(p) \in setup.leads
      /\ n \in Nat /\ (n # 0 => n \in Slots)
  BY <1>1, <1>2, <1>3, WorkingFacts
<1>5. PICK out \in DOMAIN Settles \ {"superseded"} : out = job[p].out
  BY <1>1, <1>4 DEF Knows
<1>6. /\ Settles[out].watch \in WatchStates /\ (Settles[out].watch = "moved" <=> out = "confirmed")
      /\ watch' = [watch EXCEPT ![Lead(p)] = Finish(watch[Lead(p)], Settles[out].watch)]
  BY <1>5, SettlesFacts DEF SettleWatch
<1>7. /\ SameClaim(p) /\ job'[p].pc = "audit" /\ job'[p].slot = n /\ job'[p].out = out
      /\ job'[p].slotDone = job[p].slotDone /\ job'[p].watchDone = TRUE
  <2>1. job \in [Passes -> Jobs] /\ "audit" \in Steps
    BY DEF IInv, TypeOK, Steps, ThrowSteps
  <2> QED BY <1>3, <1>5, <2>1, FlagFact DEF SettleWatch
<1>8. AuditId(p)' = a /\ Slots' = Slots /\ Mode' = Mode /\ table' = table
  BY <1>1, <1>2, <1>7 DEF SameClaim, AuditId, Slots, Mode
<1>9. /\ job'[p].pc \in Settling
      /\ job'[p].pc \notin Early \cup Catching \cup PastTesting \cup
           {"reading_back", "claimed", "slot", "catch_slot", "catch_watch", "watch"}
  BY <1>7 DEF Settling, Early, Catching, PastTesting
<1>10. Knows(p)'
  BY <1>1, <1>2, <1>4, <1>5, <1>7, <1>8, <1>9 DEF Knows
<1>11. Owns(p)'
  <2>1. \A k \in Slots : Has(table', k, a) => k = n
    BY <1>1, <1>2, <1>3, <1>4, <1>8 DEF Owns
  <2> QED BY <1>7, <1>8, <1>9, <2>1 DEF Owns
<1>12. /\ out = "confirmed" /\ Mode # "uncapped" => n # 0
       /\ job[p].slotDone => n # 0 /\ Has(table, n, a) /\ table[n].state = "confirmed"
                             /\ out = "confirmed"
       /\ out = "confirmed" /\ n # 0 => job[p].slotDone
  BY <1>1, <1>2, <1>3, <1>4, <1>5 DEF Ends
<1>13. Ends(p)'
  BY <1>7, <1>8, <1>9, <1>12 DEF Ends
<1>14. Truth(a)'
  BY <1>1, <1>4, <1>8 DEF Truth
<1>15. out = "confirmed" => Real(Lead(p))'
  <2>1. out = "confirmed" => verdict[<<p, Lead(p)>>] = "confirmed"
    BY <1>1, <1>2, <1>4, <1>5 DEF Knows, AuditId, Lead
  <2>2. out = "confirmed" /\ Mode # "uncapped" =>
          n \in Slots /\ table[n].audit = <<p, Lead(p)>> /\ table[n].state = "confirmed"
    BY <1>2, <1>4, <1>12 DEF Has, AuditId, Lead
  <2>3. Lead(p)' = Lead(p)
    BY <1>7 DEF SameClaim, Lead
  <2> QED BY <1>1, <1>8, <2>1, <2>2, <2>3 DEF Real
<1>16. /\ watch' \in [setup.leads -> WatchRows]
       /\ \A l \in setup.leads : watch'[l].state = "moved" => (watch[l].state = "moved" \/ Real(l)')
  <2>1. watch \in [setup.leads -> WatchRows]
    BY DEF IInv, TypeOK, WatchRows
  <2>s. PICK s \in WatchStates : s = Settles[out].watch
    BY <1>6
  <2>w. PICK w \in WatchRows : w = watch[Lead(p)]
    BY <1>4, <2>1
  <2>2. Finish(w, s) \in WatchRows /\ Finish(w, s).state = s
    BY WatchFacts
  <2>3. Lead(p)' = Lead(p) /\ (out = "confirmed" => Real(Lead(p))')
    BY <1>7, <1>15 DEF SameClaim, Lead
  <2>4. PICK l0 \in setup.leads : l0 = Lead(p) /\ (out = "confirmed" => Real(l0)')
    BY <1>4, <2>3 DEF Real
  <2> QED BY <1>6, <2>s, <2>w, <2>1, <2>2, <2>4
<1>17. Steady(p)
  BY <1>1, <1>7, <1>9 DEF Steady, Working, IInv, TypeOK
<1> QED BY <1>1, <1>2, <1>7, <1>9, <1>10, <1>11, <1>13, <1>14, <1>16, <1>17, QuietStep
        DEF IInv, TypeOK, Verdicts

\* The audit row of a claim closes the claim.
LEMMA AuditStep ==
  ASSUME IInv, NEW p \in Passes, setup' = setup, job[p].pc \in {"audit", "catch_audit"},
         SameClaim(p), job'[p].pc = "next", UNCHANGED <<run, watch, table, told, took, verdict>>,
         faults' \in 0..setup.faults, faults' = 0 => faults = 0,
         \/ audit' = audit
         \/ \E s \in {"confirmed", "skipped", "uncertain", "failed"} :
              /\ audit' = [audit EXCEPT ![AuditId(p)] = s]
              /\ s = "confirmed" => job[p].out = "confirmed"
              /\ s \in {"skipped", "failed"} => job[p].out # "confirmed"
  PROVE  IInv'
<1>1. job[p].pc \in Working /\ job[p].pc \in Settling \cup Catching
  BY DEF Working, Settling, Catching
<1>2. PICK a \in AuditIds : a = AuditId(p)
  BY <1>1, WorkingFacts
<1>3. Truth(a) /\ (job[p].out = "confirmed" <=> verdict[a] = "confirmed")
  BY <1>1, <1>2, WorkingFacts DEF Knows
<1>4. audit \in [AuditIds -> Audits]
  BY DEF IInv, TypeOK
<1>5. audit' \in [AuditIds -> Audits] /\ \A b \in AuditIds \ {a} : audit'[b] = audit[b]
  BY <1>2, <1>4 DEF Audits
<1>6. /\ verdict[a] = "confirmed" => audit'[a] \in {"reserved", "confirmed", "uncertain"}
      /\ audit'[a] = "confirmed" => verdict[a] = "confirmed"
  BY <1>2, <1>3, <1>4 DEF Truth
<1>7. Truth(a)'
  BY <1>3, <1>6 DEF Truth, Slots, Mode
<1>8. job'[p].pc \notin Working \cup Early \cup Settling \cup Catching \cup PastTesting \cup
        {"reading_back", "claimed", "history", "recording", "checking", "testing", "reserving",
         "beginning", "refreshing", "fencing", "dispatching", "slot", "watch", "audit",
         "catch_slot", "catch_watch"}
  BY DEF Working, Early, Settling, Catching, PastTesting
<1>9. Knows(p)' /\ Owns(p)' /\ Ends(p)'
  BY <1>8 DEF Knows, Owns, Ends
<1>10. Steady(p) /\ CalmWatches
  BY <1>1, SameWatches DEF Steady, IInv
<1> QED BY <1>2, <1>5, <1>7, <1>8, <1>9, <1>10, QuietStep DEF CalmWatches, IInv, TypeOK, Verdicts

LEMMA CloseStep ==
  ASSUME IInv, NEW p \in Passes, setup' = setup, SettleAudit(p) \/ CatchAudit(p)
  PROVE  IInv'
<1>f. faults \in Nat /\ faults \in 0..setup.faults /\ setup.faults \in Nat
      /\ job \in [Passes -> Jobs] /\ "next" \in Steps
  BY SetupFacts DEF IInv, TypeOK, Steps
<1>1. CASE SettleAudit(p)
  <2>1. job[p].pc = "audit" /\ job[p].pc \in Working \cap Settling
        /\ UNCHANGED <<run, watch, table, told, took, verdict, faults>>
    BY <1>1, StepNames DEF SettleAudit, At, Working, crm
  <2>2. job[p].out \in DOMAIN Settles
    BY <2>1, WorkingFacts DEF Knows
  <2>3. PICK s : s = Settles[job[p].out].audit
    OBVIOUS
  <2>4. /\ s \in {"confirmed", "skipped", "uncertain", "failed"}
        /\ s = "confirmed" <=> job[p].out = "confirmed"
    BY <2>2, <2>3 DEF Settles
  <2>5. SameClaim(p) /\ job'[p].pc = "next"
    <3>1. PICK b \in BOOLEAN : job' = [job EXCEPT ![p].pc = "next", ![p].stop = b]
      BY <1>1 DEF SettleAudit
    <3> QED BY <1>f, <3>1, FlagFact
  <2>6. audit' = [audit EXCEPT ![AuditId(p)] = s]
    BY <1>1, <2>3 DEF SettleAudit
  <2> QED BY <1>f, <2>1, <2>4, <2>5, <2>6, AuditStep
<1>2. CASE CatchAudit(p)
  <2>1. job[p].pc = "catch_audit" /\ UNCHANGED <<run, watch, table, told, took, verdict>>
    BY <1>2 DEF CatchAudit, At, crm
  <2>2. faults' \in 0..setup.faults /\ (faults' = 0 => faults = 0)
    BY <1>2, <1>f DEF CatchAudit, Fault
  <2>3. PICK s : s = CaughtAudit(p)
    OBVIOUS
  <2>4. /\ s \in {"confirmed", "uncertain", "failed"}
        /\ s = "confirmed" => job[p].out = "confirmed"
        /\ s = "failed" => job[p].out # "confirmed"
    BY <2>3 DEF CaughtAudit, IsConfirmed
  <2>5. SameClaim(p) /\ job'[p].pc = "next"
    <3>1. PICK b \in BOOLEAN : job' = [job EXCEPT ![p].pc = "next", ![p].stop = b]
      BY <1>2 DEF CatchAudit
    <3> QED BY <1>f, <3>1, FlagFact
  <2>6. audit' = audit \/ audit' = [audit EXCEPT ![AuditId(p)] = s]
    BY <1>2, <2>3 DEF CatchAudit
  <2> QED BY <2>1, <2>2, <2>4, <2>5, <2>6, AuditStep
<1> QED BY <1>1, <1>2

\* A step that writes the slot of its claim, or leaves the table.
LEMMA SlotStep ==
  ASSUME IInv, NEW p \in Passes, setup' = setup, job[p].pc \in {"slot", "catch_slot"},
         SameClaim(p), job'[p].pc \in {"watch", "audit", "catch_watch", "catch_audit"},
         job'[p].slot = job[p].slot, UNCHANGED <<run, watch, audit, told, took, verdict>>,
         faults' \in 0..setup.faults, faults' = 0 => faults = 0,
         \/ table' = table
         \/ /\ SlotIsMine(p)
            /\ table' \in {Confirm(table, job[p].slot), MarkUncertain(table, job[p].slot),
                           Release(table, job[p].slot)},
         NEW a \in AuditIds, a = AuditId(p), Truth(a)', Knows(p)', Ends(p)'
  PROVE  IInv'
<1>1. job[p].pc \in Working /\ job[p].pc \notin {"ready", "done"}
  BY DEF Working, Settling, Catching
<1>2. PICK n : n = job[p].slot
  OBVIOUS
<1>3. Knows(p) /\ Owns(p) /\ Ends(p) /\ n \in Slots /\ n # 0
  BY <1>1, <1>2, WorkingFacts DEF Owns
<1>4. table \in Tables
  BY DEF IInv, TypeOK, Tables, SlotRows, Slots
<1>5. /\ table' \in Tables /\ \A k \in Slots \ {n} : table'[k] = table[k]
      /\ \/ table'[n] = table[n]
         \/ /\ table[n].state = "reserved" /\ table[n].audit = a
            /\ \/ table'[n].state \in {"confirmed", "uncertain"} /\ table'[n].audit = a
               \/ table'[n].state = "free"
  <2>1. CASE table' = table
    BY <1>4, <2>1
  <2>2. CASE SlotIsMine(p) /\ table' \in {Confirm(table, n), MarkUncertain(table, n), Release(table, n)}
    <3>1. table[n].state = "reserved" /\ table[n].audit = a
      BY <1>2, <2>2 DEF SlotIsMine, IsReservedBy
    <3>2. /\ table' \in Tables /\ \A k \in Slots \ {n} : table'[k] = table[k]
          /\ \/ table'[n].state \in {"confirmed", "uncertain"} /\ table'[n].audit = table[n].audit
             \/ table'[n].state = "free"
      <4>1. \A u \in {Confirm(table, n), MarkUncertain(table, n), Release(table, n)} :
              u \in Tables /\ \A k \in Slots \ {n} : u[k] = table[k]
        BY <1>3, <1>4, SettledFact
      <4>2. /\ Confirm(table, n)[n].state = "confirmed"
            /\ Confirm(table, n)[n].audit = table[n].audit
            /\ MarkUncertain(table, n)[n].state = "uncertain"
            /\ MarkUncertain(table, n)[n].audit = table[n].audit
            /\ Release(table, n)[n].state = "free"
        BY <1>3, <1>4, SettledFact
      <4>3. PICK u \in {Confirm(table, n), MarkUncertain(table, n), Release(table, n)} : table' = u
        BY <2>2
      <4>4. u \in Tables /\ \A k \in Slots \ {n} : u[k] = table[k]
        BY <4>1
      <4>5. \/ u[n].state \in {"confirmed", "uncertain"} /\ u[n].audit = table[n].audit
            \/ u[n].state = "free"
        BY <4>2
      <4> QED BY <4>3, <4>4, <4>5
    <3> QED BY <3>1, <3>2
  <2> QED BY <1>2, <2>1, <2>2
<1>6. \A k \in Slots : table[k].state = "confirmed" =>
        table'[k].state = "confirmed" /\ table'[k].audit = table[k].audit
  BY <1>3, <1>5
<1>7. SlotsAreClaims'
  <2>1. \A k \in Slots : table'[k].state \in SpentStates => table'[k].audit \in AuditIds
    BY <1>3, <1>5 DEF IInv, SlotsAreClaims, SpentStates
  <2> QED BY <2>1 DEF SlotsAreClaims, Slots
<1>8. \A b \in AuditIds \ {a} : Spares(b)
  <2>1. ASSUME NEW b \in AuditIds \ {a}, NEW k \in Slots
        PROVE  /\ Has(table', k, b) <=> Has(table, k, b)
               /\ Has(table, k, b) => table'[k].state = table[k].state
    <3>1. CASE k = n
      BY <1>5, <2>1, <3>1 DEF Has, SpentStates
    <3>2. CASE k # n
      BY <1>5, <2>1, <3>2 DEF Has
    <3> QED BY <3>1, <3>2
  <2> QED BY <2>1 DEF Spares, Keeps
<1>9. job'[p].pc \notin Early \cup PastTesting \cup {"reading_back", "claimed", "history",
        "recording", "checking", "testing", "reserving", "beginning", "refreshing", "fencing",
        "dispatching", "slot", "catch_slot"}
      /\ job'[p].pc \in Working
  BY DEF Early, PastTesting, Working, Settling, Catching
<1>10. Owns(p)'
  <2>1. \A k \in Slots : Has(table', k, a) => k = n
    <3>1. \A k \in Slots : Has(table, k, a) => k = n
      BY <1>1, <1>2, <1>3 DEF Owns
    <3> QED BY <1>5, <3>1 DEF Has
  <2>2. AuditId(p)' = a /\ Slots' = Slots
    BY DEF SameClaim, AuditId, Slots
  <2> QED BY <1>2, <1>9, <2>1, <2>2 DEF Owns
<1>11. Alone'
  <2>1. job'[p].old = job[p].old /\ Others(p)
    BY DEF SameClaim
  <2>2. \A q \in Passes : HoldsRun(q)' => HoldsRun(q)
    BY DEF HoldsRun
  <2>3. ASSUME NEW k \in Slots, NEW q \in Passes, NEW l \in Leads,
               table'[k].audit = <<q, l>>, <<q, l>> \in took, Mode = "testing"
        PROVE  /\ table'[k].state = "reserved" =>
                    table[k].state = "reserved" /\ table[k].audit = <<q, l>>
               /\ table'[k].state = "uncertain" =>
                    /\ table[k].audit = <<q, l>>
                    /\ \/ table[k].state = "uncertain"
                       \/ table[k].state = "reserved" /\ q = p /\ job[p].pc \in {"slot", "catch_slot"}
    <3>1. CASE table'[k] = table[k]
      BY <2>3, <3>1
    <3>2. CASE table'[k] # table[k]
      <4>1. /\ table[k].state = "reserved" /\ table[k].audit = a /\ k = n
            /\ table'[k].state # "reserved"
            /\ table'[k].state = "uncertain" => table'[k].audit = a
        BY <1>5, <3>2
      <4>2. a = <<q, l>> => q = p
        BY DEF AuditId
      <4> QED BY <2>3, <4>1, <4>2
    <3> QED BY <3>1, <3>2
  <2> QED BY <1>1, <1>9, <2>1, <2>2, <2>3, AloneStands
<1>12. Steady(p) /\ CalmWatches
  BY <1>1, <1>9, SameWatches DEF Steady, IInv
<1> QED BY <1>5, <1>6, <1>7, <1>8, <1>10, <1>11, <1>12, ClaimStep
        DEF CalmWatches, IInv, TypeOK, Verdicts

LEMMA SettleSlotStep ==
  ASSUME IInv, NEW p \in Passes, setup' = setup, SettleSlot(p)
  PROVE  IInv'
<1>1. /\ job[p].pc = "slot" /\ job[p].pc \in Settling /\ job[p].pc \in Working /\ SlotIsMine(p)
      /\ UNCHANGED <<run, watch, audit, told, took, verdict, faults>>
  BY StepNames DEF SettleSlot, At, Working, crm
<1>2. PICK a \in AuditIds : a = AuditId(p)
  BY <1>1, WorkingFacts
<1>3. PICK n : n = job[p].slot
  OBVIOUS
<1>4. /\ Knows(p) /\ Owns(p) /\ Ends(p) /\ Truth(a) /\ n \in Slots /\ n # 0
  BY <1>1, <1>2, <1>3, WorkingFacts DEF Owns
<1>5. PICK out \in DOMAIN Settles : out = job[p].out
  BY <1>1, <1>4 DEF Knows
<1>6. /\ Settles[out].slot \in {"confirm", "mark", "release"}
      /\ Settles[out].slot = "confirm" <=> out = "confirmed"
      /\ Settles[out].slot = "mark" <=> out = "uncertain"
      /\ AfterSlot(out) \in {"watch", "audit"} /\ (AfterSlot(out) = "watch" => out # "superseded")
  BY SettlesFacts
<1>7. table' = IF out = "confirmed" THEN Confirm(table, n)
               ELSE IF out = "uncertain" THEN MarkUncertain(table, n) ELSE Release(table, n)
  BY <1>3, <1>5, <1>6 DEF SettleSlot, Settled
<1>8. /\ SameClaim(p) /\ job'[p].pc = AfterSlot(out) /\ job'[p].slot = n /\ job'[p].out = out
      /\ job'[p].slotDone = (out = "confirmed") /\ job'[p].watchDone = job[p].watchDone
  <2>1. job \in [Passes -> Jobs] /\ AfterSlot(out) \in Steps
    BY <1>6 DEF IInv, TypeOK, Steps, ThrowSteps
  <2>2. PICK b \in BOOLEAN : b = (out = "confirmed")
    OBVIOUS
  <2>3. job' = [job EXCEPT ![p].pc = AfterSlot(out), ![p].slotDone = b]
    BY <1>5, <2>2 DEF SettleSlot
  <2> QED BY <1>3, <1>5, <2>1, <2>2, <2>3, FlagFact
<1>9. table \in Tables
  BY DEF IInv, TypeOK, Tables, SlotRows, Slots
<1>10. /\ \A k \in Slots \ {n} : table'[k] = table[k]
       /\ table[n].state = "reserved" /\ table[n].audit = a
       /\ out = "confirmed" => table'[n].state = "confirmed" /\ table'[n].audit = a
       /\ out = "uncertain" => table'[n].state = "uncertain" /\ table'[n].audit = a
       /\ out \notin {"confirmed", "uncertain"} => table'[n].state = "free"
  <2>1. table[n].state = "reserved" /\ table[n].audit = a
    BY <1>1, <1>2, <1>3 DEF SlotIsMine, IsReservedBy
  <2> QED BY <1>4, <1>7, <1>9, <2>1, SettledFact
<1>11. AuditId(p)' = a /\ Slots' = Slots /\ Mode' = Mode
  BY <1>2, <1>8 DEF SameClaim, AuditId, Slots, Mode
<1>12. /\ job'[p].pc \in Settling /\ job'[p].pc \in {"watch", "audit"}
       /\ job'[p].pc \notin Early \cup Catching \cup
            {"reading_back", "claimed", "slot", "catch_slot", "catch_watch"}
  BY <1>6, <1>8 DEF Settling, Early, Catching
<1>13. Knows(p)'
  BY <1>1, <1>2, <1>4, <1>5, <1>6, <1>8, <1>11, <1>12 DEF Knows
<1>14. \A k \in Slots : Has(table', k, a) => k = n /\ out \in {"confirmed", "uncertain"}
  <2>1. \A k \in Slots : Has(table, k, a) => k = n
    BY <1>1, <1>2, <1>3, <1>4 DEF Owns
  <2> QED BY <1>10, <2>1 DEF Has, SpentStates
<1>15. out \in {"confirmed", "uncertain"} => Has(table', n, a)
  BY <1>10 DEF Has, SpentStates
<1>16. Ends(p)'
  <2>1. ~job'[p].watchDone
    BY <1>1, <1>4, <1>8 DEF Ends
  <2>2. ~SlotIsMine(p)'
    BY <1>3, <1>8, <1>10 DEF SlotIsMine, IsReservedBy
  <2>3. job'[p].slotDone => out = "confirmed" /\ Has(table', n, a) /\ table'[n].state = "confirmed"
    BY <1>8, <1>10, <1>15
  <2>4. out = "confirmed" => job'[p].slotDone
    BY <1>8
  <2> QED BY <1>4, <1>8, <1>11, <1>12, <1>14, <2>1, <2>2, <2>3, <2>4 DEF Ends
<1>17. Truth(a)'
  <2>1. /\ verdict[a] = "confirmed" => out = "confirmed"
        /\ a \in took /\ verdict[a] # "not_moved" => out \in {"confirmed", "uncertain"}
    <3>1. verdict[a] \in {"none", "confirmed", "uncertain", "not_moved"}
      BY DEF IInv, TypeOK
    <3> QED BY <1>1, <1>2, <1>4, <1>5, <3>1 DEF Knows
  <2>2. a \in took /\ (verdict[a] = "confirmed" \/ verdict[a] # "not_moved") =>
          \E k \in Slots : Has(table', k, a)
    BY <1>4, <1>15, <2>1
  <2> QED BY <1>1, <1>4, <1>11, <2>2 DEF Truth
<1>18. faults' \in 0..setup.faults /\ (faults' = 0 => faults = 0)
  BY <1>1 DEF IInv, TypeOK
<1> QED BY <1>1, <1>2, <1>3, <1>7, <1>8, <1>12, <1>13, <1>16, <1>17, <1>18, SlotStep

LEMMA CatchSlotStep ==
  ASSUME IInv, NEW p \in Passes, setup' = setup, CatchSlot(p)
  PROVE  IInv'
<1>f. faults \in Nat /\ faults \in 0..setup.faults /\ setup.faults \in Nat
      /\ job \in [Passes -> Jobs] /\ table \in Tables
  BY SetupFacts DEF IInv, TypeOK, Tables, SlotRows, Slots
<1>1. /\ job[p].pc = "catch_slot" /\ job[p].pc \in Catching /\ job[p].pc \in Working
      /\ UNCHANGED <<run, watch, audit, told, took, verdict>>
  BY DEF CatchSlot, At, Working, crm, Catching
<1>2. PICK a \in AuditIds : a = AuditId(p)
  BY <1>1, WorkingFacts
<1>3. PICK n : n = job[p].slot
  OBVIOUS
<1>4. /\ Knows(p) /\ Owns(p) /\ Ends(p) /\ Truth(a) /\ n \in Slots /\ n # 0
      /\ job[p].safe \in BOOLEAN
  BY <1>1, <1>2, <1>3, WorkingFacts DEF Owns, Jobs
<1>5. PICK safe \in BOOLEAN :
        /\ AfterCatchSlot(p, safe)
        /\ \/ /\ SlotIsMine(p) /\ job[p].out # "confirmed" /\ table' = Release(table, n)
              /\ faults' = faults
           \/ /\ SlotIsMine(p) /\ ~safe /\ table' = MarkUncertain(table, n)
              /\ faults' = faults \/ Fault
           \/ ~safe /\ table' = table /\ (faults' = faults \/ Fault)
  BY <1>3, <1>4 DEF CatchSlot, IsConfirmed
<1>6. /\ SameClaim(p) /\ job'[p].slotDone = job[p].slotDone /\ job'[p].watchDone = job[p].watchDone
      /\ job'[p].safe = safe
      /\ job'[p].pc = IF job[p].watchDone THEN "catch_audit" ELSE "catch_watch"
      /\ job'[p].slot = n /\ job'[p].out = job[p].out
  BY <1>f, <1>3, <1>5, AfterCatchFact
<1>7. faults' \in 0..setup.faults /\ (faults' = 0 => faults = 0)
  BY <1>f, <1>5 DEF Fault
<1>8. AuditId(p)' = a /\ Slots' = Slots /\ Mode' = Mode
  BY <1>2, <1>6 DEF SameClaim, AuditId, Slots, Mode
<1>9. /\ job'[p].pc \in Catching
      /\ job'[p].pc \notin Early \cup Settling \cup
           {"reading_back", "claimed", "slot", "watch", "audit", "catch_slot"}
  BY <1>6 DEF Settling, Early, Catching
<1>10. Knows(p)'
  BY <1>1, <1>2, <1>4, <1>6, <1>8, <1>9 DEF Knows
<1>11. \A k \in Slots : Has(table, k, a) => k = n
  BY <1>1, <1>2, <1>3, <1>4 DEF Owns
<1>12. SlotIsMine(p) => table[n].state = "reserved" /\ table[n].audit = a /\ faults # 0
  <2>1. SlotIsMine(p) => table[n].state = "reserved" /\ table[n].audit = a
    BY <1>2, <1>3 DEF SlotIsMine, IsReservedBy
  <2>2. SlotIsMine(p) => faults # 0
    BY <1>1, <1>3, <1>4 DEF Ends
  <2> QED BY <2>1, <2>2
<1>13. /\ job[p].out = "confirmed" => ~safe
       /\ safe => \A k \in Slots : ~Has(table', k, a)
  <2>1. job[p].out = "confirmed" => ~job[p].safe
    BY <1>1, <1>4 DEF Ends
  <2>2. ASSUME safe PROVE table' = Release(table, n) /\ job[p].out # "confirmed"
    BY <1>5, <2>2
  <2>3. ASSUME safe, NEW k \in Slots, Has(table', k, a) PROVE FALSE
    <3>1. /\ \A m \in Slots \ {n} : Release(table, n)[m] = table[m]
          /\ Release(table, n)[n].state = "free"
      BY <1>f, <1>4, SettledFact
    <3> QED BY <1>11, <2>2, <2>3, <3>1 DEF Has, SpentStates
  <2> QED BY <2>2, <2>3
<1>14. Ends(p)'
  <2>1. /\ ~job'[p].slotDone
        /\ job'[p].pc = "catch_watch" => ~job'[p].watchDone
        /\ job'[p].out = "confirmed" /\ Mode # "uncapped" => n # 0
    BY <1>1, <1>4, <1>6 DEF Ends
  <2>2. ~(job'[p].watchDone /\ job'[p].out = "confirmed" /\ n # 0)
    BY <1>1, <1>3, <1>4, <1>6 DEF Ends
  <2> QED BY <1>6, <1>8, <1>9, <1>13, <2>1, <2>2 DEF Ends
<1>15. Truth(a)'
  <2>1. ASSUME a \in took, verdict[a] = "confirmed" \/ (faults = 0 /\ verdict[a] # "not_moved"),
               Mode # "uncapped"
        PROVE  \E k \in Slots : Has(table', k, a)
    <3>1. Has(table, n, a)
      BY <1>4, <1>11, <2>1 DEF Truth
    <3>2. table' # Release(table, n) \/ ~SlotIsMine(p) \/ job[p].out = "confirmed"
      BY <1>1, <1>2, <1>4, <1>12, <2>1 DEF Knows
    <3>3. CASE table' = table
      BY <1>4, <3>1, <3>3
    <3>4. CASE SlotIsMine(p) /\ table' = MarkUncertain(table, n)
      <4>1. table'[n].state = "uncertain" /\ table'[n].audit = a
        BY <1>f, <1>4, <1>12, <3>4, SettledFact
      <4> QED BY <1>4, <4>1 DEF Has, SpentStates
    <3> QED BY <1>5, <3>2, <3>3, <3>4
  <2> QED BY <1>1, <1>4, <1>7, <1>8, <2>1 DEF Truth
<1>16. \/ table' = table
       \/ /\ SlotIsMine(p)
          /\ table' \in {Confirm(table, job[p].slot), MarkUncertain(table, job[p].slot),
                         Release(table, job[p].slot)}
  BY <1>3, <1>5
<1>17. job'[p].slot = job[p].slot /\ job'[p].pc \in {"watch", "audit", "catch_watch", "catch_audit"}
  BY <1>3, <1>6
<1> QED BY <1>1, <1>2, <1>6, <1>7, <1>10, <1>14, <1>15, <1>16, <1>17, SlotStep

LEMMA CatchWatchStep ==
  ASSUME IInv, NEW p \in Passes, setup' = setup, CatchWatch(p)
  PROVE  IInv'
<1>f. faults \in Nat /\ faults \in 0..setup.faults /\ setup.faults \in Nat
      /\ job \in [Passes -> Jobs] /\ "catch_audit" \in Steps
      /\ watch \in [setup.leads -> WatchRows]
  BY SetupFacts DEF IInv, TypeOK, Steps, WatchRows
<1>1. /\ job[p].pc = "catch_watch" /\ job[p].pc \in Catching /\ job[p].pc \in Working
      /\ UNCHANGED <<run, table, audit, told, took, verdict>>
      /\ faults' \in 0..setup.faults /\ (faults' = 0 => faults = 0)
  BY <1>f DEF CatchWatch, At, Working, crm, Catching, Fault
<1>2. PICK a \in AuditIds : a = AuditId(p)
  BY <1>1, WorkingFacts
<1>3. PICK n : n = job[p].slot
  OBVIOUS
<1>4. /\ Knows(p) /\ Owns(p) /\ Ends(p) /\ Truth(a) /\ Lead(p) \in setup.leads
  BY <1>1, <1>2, WorkingFacts
<1>5. /\ SameClaim(p) /\ SameEnds(p) /\ job'[p].pc = "catch_audit" /\ job'[p].slot = n
      /\ job'[p].out = job[p].out
  BY <1>f, <1>3, GotoFact DEF CatchWatch
<1>6. CalmWatches
  <2>1. job[p].safe => ~job[p].slotDone
    BY <1>1, <1>4 DEF Ends
  <2>2. PICK s \in {"uncertain", "watching"} :
          watch' = watch \/ watch' = [watch EXCEPT ![Lead(p)] = Finish(watch[Lead(p)], s)]
    BY <2>1 DEF CatchWatch
  <2>3. CASE watch' = watch
    BY <2>3, SameWatches DEF IInv
  <2>4. CASE watch' = [watch EXCEPT ![Lead(p)] = Finish(watch[Lead(p)], s)]
    <3>1. PICK w \in WatchRows : w = watch[Lead(p)]
      BY <1>f, <1>4
    <3>s. s \in WatchStates
      BY DEF WatchStates
    <3>2. Finish(w, s) \in WatchRows /\ Finish(w, s).state = s
      BY <3>s, WatchFacts
    <3> QED BY <1>f, <1>4, <2>4, <3>1, <3>2 DEF CalmWatches
  <2> QED BY <2>2, <2>3, <2>4
<1>7. AuditId(p)' = a /\ Slots' = Slots /\ Mode' = Mode /\ table' = table
  BY <1>1, <1>2, <1>5 DEF SameClaim, AuditId, Slots, Mode
<1>8. /\ job'[p].pc \in Catching /\ job'[p].pc \in Working
      /\ job'[p].pc \notin Early \cup Settling \cup PastTesting \cup
           {"reading_back", "claimed", "slot", "watch", "audit", "catch_slot", "catch_watch"}
  BY <1>5 DEF Settling, Early, Catching, PastTesting, Working
<1>9. Knows(p)'
  BY <1>1, <1>2, <1>4, <1>5, <1>7, <1>8 DEF Knows
<1>10. Owns(p)'
  <2>1. \A k \in Slots : Has(table', k, a) => k = n
    BY <1>1, <1>2, <1>3, <1>4, <1>7 DEF Owns
  <2> QED BY <1>5, <1>7, <1>8, <2>1 DEF Owns
<1>11. Ends(p)'
  <2>1. /\ job[p].out = "confirmed" /\ Mode # "uncapped" => n # 0
        /\ job[p].slotDone => n # 0 /\ Has(table, n, a) /\ table[n].state = "confirmed"
                              /\ job[p].out = "confirmed"
        /\ job[p].watchDone /\ job[p].out = "confirmed" /\ n # 0 => job[p].slotDone
    BY <1>1, <1>2, <1>3, <1>4 DEF Ends
  <2> QED BY <1>5, <1>7, <1>8, <2>1 DEF Ends, SameEnds
<1>12. Truth(a)'
  BY <1>1, <1>4, <1>7 DEF Truth
<1>13. Steady(p)
  BY <1>1, <1>5, <1>8 DEF Steady
<1> QED BY <1>1, <1>2, <1>6, <1>8, <1>9, <1>10, <1>11, <1>12, <1>13, QuietStep
        DEF CalmWatches, IInv, TypeOK, Verdicts

-----------------------------------------------------------------------------
(* The pass between its claims.                                            *)

\* Steps outside a claim: no slot in use, no verdict and no audit row changes.
LEMMA BetweenStep ==
  ASSUME IInv, NEW p \in Passes, setup' = setup, job[p].pc \notin {"ready", "done"},
         UNCHANGED <<audit, told, took, verdict>>, job' \in [Passes -> Jobs], Others(p),
         job'[p].pc \in {"listing", "claiming", "claimed", "ending", "done"},
         job'[p].old = job[p].old,
         faults' \in 0..setup.faults, faults' = 0 => faults = 0,
         CalmWatches, table' \in Tables,
         \A n \in Slots : /\ table[n].state \in SpentStates <=> table'[n].state \in SpentStates
                          /\ table[n].state \in SpentStates => table'[n] = table[n],
         run' \in [holder : Passes \cup {NoPass}, lapsed : BOOLEAN],
         \A q \in Passes : HoldsRun(q)' => HoldsRun(q),
         \A q \in Passes \ {p} : HoldsRun(q) => HoldsRun(q)',
         job'[p].todo \subseteq setup.leads, \A l \in job'[p].todo : Fresh(<<p, l>>),
         job'[p].pc = "listing" => \A l \in Leads : Fresh(<<p, l>>),
         job'[p].pc = "claimed" =>
           job'[p].lead \in setup.leads \ job'[p].todo /\ Fresh(<<p, job'[p].lead>>),
         job'[p].pc \in {"listing", "claiming", "claimed"} =>
           job'[p].slot = 0 /\ job'[p].out = "none" /\ ~job'[p].slotDone /\ ~job'[p].watchDone
  PROVE  IInv'
<1>1. TypeOK'
  BY DEF IInv, TypeOK, Jobs, MaxTouch, CalmWatches, WatchRows, Tables, SlotRows, Slots, Fingerprints
<1>2. /\ Slots' = Slots /\ Mode' = Mode /\ setup.leads \subseteq Leads
      /\ \A b \in AuditIds, n \in Slots : Has(table', n, b) <=> Has(table, n, b)
  BY SetupFacts DEF Slots, Mode, Has, IInv
<1>3. SlotsAreClaims'
  BY <1>2 DEF IInv, SlotsAreClaims
<1>4. \A b \in AuditIds : Spares(b)
  BY <1>2 DEF Spares, Keeps, Has
<1>5. \A n \in Slots : table[n].state = "confirmed" =>
        table'[n].state = "confirmed" /\ table'[n].audit = table[n].audit
  BY DEF SpentStates
<1>6. OldHaveBegun'
  BY DEF IInv, OldHaveBegun, At, Others
<1>7. SendersHoldRun'
  <2>1. ASSUME NEW q \in Passes, job'[q].pc = "dispatching" PROVE HoldsRun(q)'
    <3>1. q # p /\ job[q].pc = "dispatching"
      BY <2>1 DEF Others
    <3> QED BY <3>1 DEF IInv, SendersHoldRun, At
  <2> QED BY <2>1 DEF SendersHoldRun, At
<1>8. ASSUME NEW l \in Leads, Fresh(<<p, l>>) PROVE Fresh(<<p, l>>)'
  <2>1. <<p, l>> \in AuditIds
    BY DEF AuditIds
  <2> QED BY <1>2, <1>8, <2>1 DEF Fresh
<1>9. job'[p].pc = "claimed" \/ job'[p].pc \notin Working
  BY DEF Working, Early, Settling, Catching
<1>10. Once(p)'
  <2>1. \A l \in job'[p].todo : Fresh(<<p, l>>)'
    BY <1>2, <1>8
  <2>2. job'[p].pc = "listing" => \A l \in Leads : Fresh(<<p, l>>)'
    BY <1>8
  <2>3. job'[p].pc \in Working => Lead(p)' \in setup.leads \ job'[p].todo
    BY <1>9 DEF Lead
  <2>4. job'[p].pc \in Idle =>
          job'[p].slot = 0 /\ job'[p].out = "none" /\ ~job'[p].slotDone /\ ~job'[p].watchDone
    BY DEF Idle
  <2> QED BY <2>1, <2>2, <2>3, <2>4 DEF Once
<1>11. job'[p].pc = "claimed" => Fresh(AuditId(p))'
  <2>1. SUFFICES ASSUME job'[p].pc = "claimed" PROVE Fresh(AuditId(p))'
    OBVIOUS
  <2>2. PICK l \in Leads : l = job'[p].lead
    BY <1>2, <2>1
  <2>3. Fresh(<<p, l>>)' /\ AuditId(p)' = <<p, l>>
    BY <1>8, <2>1, <2>2 DEF AuditId
  <2> QED BY <2>3 DEF Fresh
<1>12. job'[p].pc \notin Settling \cup Catching \cup PastTesting \cup
         {"reading_back", "history", "recording", "checking", "testing", "reserving", "slot",
          "watch", "audit", "catch_slot", "catch_watch", "beginning", "refreshing", "fencing",
          "dispatching"}
       /\ (job'[p].pc \in Early => job'[p].pc = "claimed")
  BY DEF Settling, Catching, PastTesting, Early
<1>13. Knows(p)'
  BY <1>11, <1>12 DEF Knows, Fresh
<1>14. Owns(p)'
  BY <1>9, <1>11, <1>12 DEF Owns, Fresh
<1>15. Ends(p)'
  BY <1>12 DEF Ends
<1>16. Alone'
  <2>1. job'[p].pc \notin PastTesting
    BY <1>12
  <2>2. ASSUME NEW n \in Slots, table'[n].state \in {"reserved", "uncertain"}
        PROVE  table[n] = table'[n]
    BY <2>2 DEF SpentStates
  <2> QED BY <2>1, <2>2, AloneStands
<1>17. PICK A : A = {}
  OBVIOUS
<1>18. /\ A \subseteq {<<p, l>> : l \in Leads} /\ \A b \in AuditIds \ A : Spares(b)
       /\ \A b \in A : Truth(b)' /\ (verdict[b] = "confirmed" => verdict'[b] = "confirmed")
       /\ \A l \in setup.leads :
            watch'[l].state = "moved" => (watch[l].state = "moved" \/ Real(l)')
  BY <1>4, <1>17 DEF CalmWatches
<1> QED BY <1>1, <1>3, <1>5, <1>6, <1>7, <1>10, <1>13, <1>14, <1>15, <1>16, <1>18, StepOf

LEMMA AcquireStep ==
  ASSUME IInv, NEW p \in Passes, setup' = setup, Acquire(p)
  PROVE  IInv'
<1>1. /\ job[p].pc = "ready" /\ run' = [holder |-> p, lapsed |-> FALSE]
      /\ UNCHANGED <<watch, table, audit, told, took, verdict, faults>>
      /\ run.holder = NoPass \/ run.lapsed
  BY DEF Acquire, At, crm
<1>2. PICK old \in Old(p) : job' = [job EXCEPT ![p].pc = "starting", ![p].old = old]
  BY DEF Acquire
<1>3. /\ job \in [Passes -> Jobs] /\ Once(p) /\ \A q \in Passes : job[q].old \subseteq Passes
      /\ Slots' = Slots /\ Mode' = Mode /\ setup.leads \subseteq Leads
      /\ table' = table /\ took' = took
  BY <1>1, SetupFacts DEF IInv, TypeOK, Jobs, Slots, Mode
<1>4. ~(\E q \in Passes : HoldsRun(q))
  BY <1>1, PassAssumption DEF HoldsRun
<1>5. /\ old \subseteq Passes
      /\ Mode = "testing" =>
           /\ \A q \in Passes : job[q].old \subseteq old
           /\ \A q \in Passes \ {p} : job[q].pc \notin {"ready", "done"} => q \in old
      /\ \A q \in old : job[q].pc # "ready" \/ \E r \in Passes : q \in job[r].old
  BY <1>2, <1>3 DEF Old, At
<1>6. /\ \A q \in old : job[q].pc # "ready"
      /\ p \notin old
  BY <1>1, <1>5 DEF IInv, OldHaveBegun, At
<1>7. /\ job' \in [Passes -> Jobs] /\ Others(p) /\ job'[p].pc = "starting"
      /\ job'[p].old = old /\ job'[p].todo = job[p].todo /\ job'[p].slot = job[p].slot
      /\ job'[p].out = job[p].out /\ job'[p].slotDone = job[p].slotDone
      /\ job'[p].watchDone = job[p].watchDone
  <2>1. job' = [job EXCEPT ![p] = [[job[p] EXCEPT !.pc = "starting"] EXCEPT !.old = old]]
    BY <1>2
  <2>2. [[job[p] EXCEPT !.pc = "starting"] EXCEPT !.old = old] \in Jobs
    <3>1. [job[p] EXCEPT !.pc = "starting"] \in Jobs
      BY <1>3 DEF Jobs, Steps
    <3> QED BY <1>5, <3>1 DEF Jobs
  <2> QED BY <1>3, <2>1, <2>2 DEF Others, Jobs
<1>8. TypeOK'
  BY <1>1, <1>7 DEF IInv, TypeOK, Jobs, MaxTouch, Fingerprints
<1>9. SlotsAreClaims' /\ \A b \in AuditIds : Spares(b)
  BY <1>1, <1>3 DEF IInv, SlotsAreClaims, Spares, Keeps
<1>10. OldHaveBegun'
  <2>1. ASSUME NEW q \in Passes, NEW r \in Passes, job'[q].pc = "ready" PROVE q \notin job'[r].old
    <3>1. q # p /\ job[q].pc = "ready"
      BY <1>7, <2>1 DEF Others
    <3>2. CASE r = p
      BY <1>6, <1>7, <3>1, <3>2
    <3>3. CASE r # p
      BY <1>7, <3>1, <3>3 DEF Others, IInv, OldHaveBegun, At
    <3> QED BY <3>2, <3>3
  <2> QED BY <2>1 DEF OldHaveBegun, At
<1>11. \A q \in Passes : job'[q].pc # "dispatching" /\ (job'[q].pc \in PastTesting => q # p)
  BY <1>4, <1>7 DEF IInv, SendersHoldRun, At, Others, PastTesting
<1>12. SendersHoldRun'
  BY <1>11 DEF SendersHoldRun, At
<1>13. Alone'
  <2> SUFFICES ASSUME Mode = "testing", NEW h \in Passes, HoldsRun(h)'
               PROVE  /\ job'[h].pc \notin {"ready", "done"} => Overtaken(h)'
                      /\ job'[h].pc \in PastTesting => NothingOpen(h)'
    BY <1>3 DEF Alone
  <2>1. h = p
    BY <1>1 DEF HoldsRun
  <2>2. ASSUME NEW q \in Passes \ {p}, NEW l \in Leads, NEW n \in Slots,
               table'[n].state = "reserved", table'[n].audit = <<q, l>>, <<q, l>> \in took',
               job'[q].pc # "done"
        PROVE  q \in old
    <3>1. job[q].pc # "done" /\ <<q, l>> \in took
      BY <1>3, <1>7, <2>2 DEF Others
    <3>2. job[q].pc # "ready"
      BY <3>1 DEF IInv, Once, Fresh
    <3> QED BY <1>5, <3>1, <3>2
  <2>3. \A q \in Passes : job'[q].old \subseteq old
    BY <1>5, <1>7 DEF Others
  <2>4. Overtaken(p)'
    BY <1>3, <1>6, <1>7, <2>2, <2>3 DEF Overtaken, At
  <2> QED BY <1>11, <2>1, <2>4
<1>14. Once(p)'
  <2>1. \A l \in Leads : Fresh(<<p, l>>)'
    BY <1>1, <1>3 DEF Once, Fresh
  <2> QED BY <1>1, <1>3, <1>7, <2>1 DEF Once, Working, Early, Settling, Catching, Idle
<1>15. job'[p].pc \notin Working \cup Early \cup Settling \cup Catching \cup PastTesting
  BY <1>7 DEF Working, Early, Settling, Catching, PastTesting
<1>16. Knows(p)' /\ Owns(p)' /\ Ends(p)'
  BY <1>7, <1>15 DEF Knows, Owns, Ends
<1>17. PICK A : A = {}
  OBVIOUS
<1>18. /\ A \subseteq {<<p, l>> : l \in Leads} /\ \A b \in AuditIds \ A : Spares(b)
       /\ \A b \in A : Truth(b)' /\ (verdict[b] = "confirmed" => verdict'[b] = "confirmed")
       /\ \A l \in setup.leads :
            watch'[l].state = "moved" => (watch[l].state = "moved" \/ Real(l)')
  BY <1>1, <1>9, <1>17
<1> QED BY <1>1, <1>3, <1>7, <1>8, <1>9, <1>10, <1>12, <1>13, <1>14, <1>16, <1>18, StepOf

\* A pass that has left its claims, or all of them.
LEMMA NoJobFact ==
  ASSUME TypeOK, NEW s \in Steps, NEW t \in SUBSET Leads, NEW o \in SUBSET Passes
  PROVE  /\ [NoJob EXCEPT !.pc = s, !.old = o] \in Jobs
         /\ [NoJob EXCEPT !.pc = s, !.todo = t, !.old = o] \in Jobs
         /\ [NoJob EXCEPT !.pc = s, !.todo = t, !.old = o].pc = s
         /\ [NoJob EXCEPT !.pc = s, !.todo = t, !.old = o].todo = t
         /\ [NoJob EXCEPT !.pc = s, !.todo = t, !.old = o].old = o
<1>1. NoJob \in Jobs
  BY SetupFacts DEF NoJob, Jobs, Steps
<1>2. [NoJob EXCEPT !.pc = s] \in Jobs
  BY <1>1 DEF Jobs
<1>3. [[NoJob EXCEPT !.pc = s] EXCEPT !.todo = t] \in Jobs
  BY <1>2 DEF Jobs
<1>4. [[[NoJob EXCEPT !.pc = s] EXCEPT !.todo = t] EXCEPT !.old = o] \in Jobs
  BY <1>3 DEF Jobs
<1>5. [NoJob EXCEPT !.pc = s, !.todo = t, !.old = o] =
        [[[NoJob EXCEPT !.pc = s] EXCEPT !.todo = t] EXCEPT !.old = o]
  OBVIOUS
<1>6. [[NoJob EXCEPT !.pc = s] EXCEPT !.old = o] \in Jobs
  BY <1>2 DEF Jobs
<1> QED BY <1>4, <1>5, <1>6 DEF NoJob

LEMMA ListStep ==
  ASSUME IInv, NEW p \in Passes, setup' = setup, ReleaseExpired(p) \/ ListDue(p)
  PROVE  IInv'
<1>f. /\ job \in [Passes -> Jobs] /\ job[p] \in Jobs /\ Once(p) /\ setup.leads \subseteq Leads
      /\ table \in Tables /\ watch \in [setup.leads -> WatchRows]
      /\ run \in [holder : Passes \cup {NoPass}, lapsed : BOOLEAN] /\ faults \in 0..setup.faults
      /\ {"listing", "claiming", "ending"} \subseteq Steps
  BY SetupFacts DEF IInv, TypeOK, Tables, SlotRows, Slots, WatchRows, Steps
<1>1. /\ job[p].pc \in {"starting", "listing"}
      /\ UNCHANGED <<run, audit, told, took, verdict, faults>>
      /\ \A l \in Leads : Fresh(<<p, l>>)
      /\ job[p].todo \subseteq setup.leads
      /\ job[p].slot = 0 /\ job[p].out = "none" /\ ~job[p].slotDone /\ ~job[p].watchDone
  <2>1. job[p].pc \in {"starting", "listing"}
    BY DEF ReleaseExpired, ListDue, At
  <2> QED BY <1>f, <2>1 DEF ReleaseExpired, ListDue, crm, Once, Idle
<1>2. \A q \in Passes : HoldsRun(q)' <=> HoldsRun(q)
  BY <1>1 DEF HoldsRun
<1>3. CASE ReleaseExpired(p)
  <2>1. SameClaim(p) /\ SameEnds(p) /\ job'[p].pc = "listing" /\ job'[p].slot = job[p].slot
        /\ job'[p].out = job[p].out /\ table' = table
    BY <1>f, <1>3, GotoFact DEF ReleaseExpired
  <2>2. CalmWatches
    <3>1. PICK L : watch' = [l \in setup.leads |->
                               IF l \in L THEN ReleaseLease(watch[l]) ELSE watch[l]]
      BY <1>3 DEF ReleaseExpired
    <3>2. ASSUME NEW l \in setup.leads
          PROVE  watch'[l] \in WatchRows /\ (watch'[l].state = "moved" => watch[l].state = "moved")
      <4>1. watch[l] \in WatchRows
        BY <1>f
      <4>2. ReleaseLease(watch[l]) \in WatchRows /\ ReleaseLease(watch[l]).state = "watching"
        BY <4>1, WatchFacts
      <4> QED BY <3>1, <4>1, <4>2
    <3> QED BY <3>1, <3>2 DEF CalmWatches
  <2>3. /\ job' \in [Passes -> Jobs] /\ Others(p) /\ job'[p].old = job[p].old
        /\ job'[p].todo = job[p].todo /\ ~job'[p].slotDone /\ ~job'[p].watchDone
    BY <1>1, <2>1 DEF SameClaim, SameEnds
  <2> QED BY <1>f, <1>1, <1>2, <2>1, <2>2, <2>3, BetweenStep
<1>4. CASE ListDue(p)
  <2>1. /\ table' \in Tables
        /\ \A n \in Slots : /\ table[n].state \in SpentStates <=> table'[n].state \in SpentStates
                            /\ table[n].state \in SpentStates => table'[n] = table[n]
    <3>1. CASE table' = table
      BY <1>f, <3>1
    <3>2. CASE table' = Ensure(table, setup.limit)
      BY <1>f, <3>2, EnsureFact
    <3> QED BY <1>4, <3>1, <3>2 DEF ListDue
  <2>2. CASE Goto(p, "ending") /\ watch' = watch
    <3>1. SameClaim(p) /\ SameEnds(p) /\ job'[p].pc = "ending"
      BY <1>f, <2>2, GotoFact
    <3>2. job' \in [Passes -> Jobs] /\ Others(p) /\ job'[p].old = job[p].old
          /\ job'[p].todo = job[p].todo
      BY <3>1 DEF SameClaim
    <3>3. CalmWatches
      BY <2>2, SameWatches DEF IInv
    <3>4. \A l \in job'[p].todo : Fresh(<<p, l>>)
      BY <1>f, <1>1, <3>2
    <3> QED BY <1>f, <1>1, <1>2, <2>1, <3>1, <3>2, <3>3, <3>4, BetweenStep
  <2>3. ASSUME NEW D,
               watch' = [l \in setup.leads |-> [watch[l] EXCEPT !.due = @ \/ l \in D]],
               job' = [job EXCEPT ![p].pc = "claiming",
                                  ![p].todo = {l \in setup.leads : Claimable(watch'[l])}]
        PROVE  IInv'
    <3>1. CalmWatches
      <4>1. ASSUME NEW l \in setup.leads
            PROVE  watch'[l] \in WatchRows /\ watch'[l].state = watch[l].state
        <5>1. watch[l] \in WatchRows /\ watch'[l] = [watch[l] EXCEPT !.due = @ \/ l \in D]
          BY <1>f, <2>3
        <5>2. (watch[l].due \/ l \in D) \in BOOLEAN
          OBVIOUS
        <5>3. PICK b \in BOOLEAN : b = (watch[l].due \/ l \in D)
          BY <5>2
        <5>4. watch'[l] = [watch[l] EXCEPT !.due = b]
          BY <5>1, <5>3
        <5> QED BY <5>1, <5>4 DEF WatchRows
      <4> QED BY <2>3, <4>1 DEF CalmWatches
    <3>2. PICK t : t = {l \in setup.leads : Claimable(watch'[l])}
      OBVIOUS
    <3>3. t \subseteq setup.leads
      BY <3>2
    <3>4. /\ job' \in [Passes -> Jobs] /\ Others(p) /\ job'[p].old = job[p].old
          /\ job'[p].todo = t /\ job'[p].pc = "claiming" /\ job'[p].slot = job[p].slot
          /\ job'[p].out = job[p].out
          /\ job'[p].slotDone = job[p].slotDone /\ job'[p].watchDone = job[p].watchDone
      <4>1. job' = [job EXCEPT ![p] = [[job[p] EXCEPT !.pc = "claiming"] EXCEPT !.todo = t]]
        BY <2>3, <3>2
      <4>2. [[job[p] EXCEPT !.pc = "claiming"] EXCEPT !.todo = t] \in Jobs
        <5>1. [job[p] EXCEPT !.pc = "claiming"] \in Jobs
          BY <1>f DEF Jobs
        <5>2. t \in SUBSET Leads
          BY <1>f, <3>3
        <5> QED BY <5>1, <5>2 DEF Jobs
      <4> QED BY <1>f, <4>1, <4>2 DEF Others, Jobs
    <3>5. \A l \in job'[p].todo : Fresh(<<p, l>>)
      BY <1>f, <1>1, <3>3, <3>4
    <3> QED BY <1>f, <1>1, <1>2, <2>1, <3>1, <3>3, <3>4, <3>5, BetweenStep
  <2> QED BY <1>4, <2>2, <2>3 DEF ListDue
<1> QED BY <1>3, <1>4

LEMMA ClaimNextStep ==
  ASSUME IInv, NEW p \in Passes, setup' = setup, ClaimNext(p)
  PROVE  IInv'
<1>f. /\ job \in [Passes -> Jobs] /\ job[p] \in Jobs /\ Once(p) /\ setup.leads \subseteq Leads
      /\ table \in Tables /\ watch \in [setup.leads -> WatchRows]
      /\ run \in [holder : Passes \cup {NoPass}, lapsed : BOOLEAN] /\ faults \in 0..setup.faults
  BY SetupFacts DEF IInv, TypeOK, Tables, SlotRows, Slots, WatchRows
<1>1. /\ job[p].pc = "claiming" /\ UNCHANGED <<run, table, audit, told, took, verdict, faults>>
      /\ job[p].todo \subseteq setup.leads /\ \A l \in job[p].todo : Fresh(<<p, l>>)
      /\ job[p].slot = 0 /\ job[p].out = "none" /\ ~job[p].slotDone /\ ~job[p].watchDone
  BY <1>f DEF ClaimNext, At, crm, Once, Idle
<1>2. \A q \in Passes : HoldsRun(q)' <=> HoldsRun(q)
  BY <1>1 DEF HoldsRun
<1>3. PICK l \in job[p].todo :
        \/ /\ watch' = [watch EXCEPT ![l] = Claim(@, p)]
           /\ job' = [job EXCEPT ![p].pc = "claimed", ![p].todo = @ \ {l},
                                 ![p].lead = l, ![p].gen = watch'[l].gen, ![p].at = watch[l].at]
        \/ watch' = watch /\ job' = [job EXCEPT ![p].todo = @ \ {l}]
  BY <1>1 DEF ClaimNext
<1>4. l \in setup.leads /\ l \in Leads /\ Fresh(<<p, l>>) /\ watch[l] \in WatchRows
  BY <1>f, <1>1
<1>5. PICK t : t = job[p].todo \ {l}
  OBVIOUS
<1>6. t \subseteq setup.leads /\ l \notin t /\ t \in SUBSET Leads /\ \A m \in t : Fresh(<<p, m>>)
  BY <1>f, <1>1, <1>5
<1>7. CASE watch' = watch /\ job' = [job EXCEPT ![p].todo = @ \ {l}]
  <2>1. job' = [job EXCEPT ![p] = [job[p] EXCEPT !.todo = t]]
    BY <1>5, <1>7
  <2>2. [job[p] EXCEPT !.todo = t] \in Jobs
    BY <1>f, <1>6 DEF Jobs
  <2>3. /\ job' \in [Passes -> Jobs] /\ Others(p) /\ job'[p].old = job[p].old
        /\ job'[p].todo = t /\ job'[p].pc = "claiming" /\ job'[p].slot = job[p].slot
        /\ job'[p].out = job[p].out
        /\ job'[p].slotDone = job[p].slotDone /\ job'[p].watchDone = job[p].watchDone
    BY <1>f, <1>1, <2>1, <2>2 DEF Others, Jobs
  <2>4. CalmWatches
    BY <1>7, SameWatches DEF IInv
  <2> QED BY <1>f, <1>1, <1>2, <1>6, <2>3, <2>4, BetweenStep
<1>8. CASE /\ watch' = [watch EXCEPT ![l] = Claim(@, p)]
           /\ job' = [job EXCEPT ![p].pc = "claimed", ![p].todo = @ \ {l},
                                 ![p].lead = l, ![p].gen = watch'[l].gen, ![p].at = watch[l].at]
  <2>1. Claim(watch[l], p) \in WatchRows /\ Claim(watch[l], p).state = "leased"
    BY <1>4, WatchFacts
  <2>2. CalmWatches
    BY <1>f, <1>4, <1>8, <2>1 DEF CalmWatches
  <2>3. PICK g \in Nat, c \in 1..MaxTouch : g = watch'[l].gen /\ c = watch[l].at
    BY <1>4, <2>2 DEF CalmWatches, WatchRows
  <2> DEFINE j1 == [job[p] EXCEPT !.pc = "claimed"]
             j2 == [j1 EXCEPT !.todo = t]
             j3 == [j2 EXCEPT !.lead = l]
             j4 == [j3 EXCEPT !.gen = g]
             j5 == [j4 EXCEPT !.at = c]
  <2>4. job' = [job EXCEPT ![p] = j5]
    <3>1. job' = [job EXCEPT ![p].pc = "claimed", ![p].todo = @ \ {l},
                             ![p].lead = l, ![p].gen = g, ![p].at = c]
      BY <1>8, <2>3
    <3>2. job' = [job EXCEPT ![p] =
                    [job[p] EXCEPT !.pc = "claimed", !.todo = @ \ {l}, !.lead = l, !.gen = g,
                                   !.at = c]]
      BY <3>1
    <3>3. [job[p] EXCEPT !.pc = "claimed", !.todo = @ \ {l}, !.lead = l, !.gen = g, !.at = c] = j5
      BY <1>5
    <3> QED BY <3>2, <3>3
  <2>5. j1 \in Jobs /\ j1.pc = "claimed" /\ j1.slot = job[p].slot /\ j1.out = job[p].out
        /\ j1.slotDone = job[p].slotDone /\ j1.watchDone = job[p].watchDone /\ j1.old = job[p].old
    BY <1>f DEF Jobs, Steps, ThrowSteps
  <2> HIDE DEF j1
  <2>6. j2 \in Jobs /\ j2.pc = "claimed" /\ j2.slot = job[p].slot /\ j2.out = job[p].out
        /\ j2.slotDone = job[p].slotDone /\ j2.watchDone = job[p].watchDone /\ j2.old = job[p].old
        /\ j2.todo = t
    BY <1>6, <2>5 DEF Jobs
  <2> HIDE DEF j2
  <2>7. j3 \in Jobs /\ j3.pc = "claimed" /\ j3.slot = job[p].slot /\ j3.out = job[p].out
        /\ j3.slotDone = job[p].slotDone /\ j3.watchDone = job[p].watchDone /\ j3.old = job[p].old
        /\ j3.todo = t /\ j3.lead = l
    BY <1>4, <2>6 DEF Jobs
  <2> HIDE DEF j3
  <2>8. j4 \in Jobs /\ j4.pc = "claimed" /\ j4.slot = job[p].slot /\ j4.out = job[p].out
        /\ j4.slotDone = job[p].slotDone /\ j4.watchDone = job[p].watchDone /\ j4.old = job[p].old
        /\ j4.todo = t /\ j4.lead = l
    BY <2>7 DEF Jobs
  <2> HIDE DEF j4
  <2>9. j5 \in Jobs /\ j5.pc = "claimed" /\ j5.slot = job[p].slot /\ j5.out = job[p].out
        /\ j5.slotDone = job[p].slotDone /\ j5.watchDone = job[p].watchDone /\ j5.old = job[p].old
        /\ j5.todo = t /\ j5.lead = l
    <3>1. c \in 0..MaxTouch
      BY <2>3, SetupFacts DEF IInv
    <3> QED BY <2>8, <3>1 DEF Jobs
  <2> HIDE DEF j5
  <2>10. /\ job' \in [Passes -> Jobs] /\ Others(p) /\ job'[p] = j5
    BY <1>f, <2>4, <2>9 DEF Others
  <2>11. job'[p].old = job[p].old /\ job'[p].todo = t /\ job'[p].pc = "claimed"
         /\ job'[p].lead = l /\ job'[p].slot = 0 /\ job'[p].out = "none"
         /\ ~job'[p].slotDone /\ ~job'[p].watchDone
    BY <1>1, <2>9, <2>10
  <2> QED BY <1>f, <1>1, <1>2, <1>4, <1>6, <2>2, <2>10, <2>11, BetweenStep
<1> QED BY <1>3, <1>7, <1>8

\* The ways a pass leaves a claim or itself.
LEMMA LeaveStep ==
  ASSUME IInv, NEW p \in Passes, setup' = setup,
         EndPass(p) \/ NextLead(p) \/ PassThrows(p) \/ Crash(p)
  PROVE  IInv'
<1>f. /\ job \in [Passes -> Jobs] /\ job[p] \in Jobs /\ Once(p) /\ setup.leads \subseteq Leads
      /\ table \in Tables /\ CalmWatches
      /\ run \in [holder : Passes \cup {NoPass}, lapsed : BOOLEAN]
      /\ faults \in Nat /\ faults \in 0..setup.faults /\ setup.faults \in Nat
      /\ {"ending", "claiming", "done"} \subseteq Steps
  <2>1. watch' = watch
    BY DEF EndPass, NextLead, PassThrows, Crash, ledger
  <2> QED BY <2>1, SameWatches, SetupFacts DEF IInv, TypeOK, Tables, SlotRows, Slots, Steps
<1>1. /\ UNCHANGED <<table, audit, told, took, verdict>> /\ job[p].pc \notin {"ready", "done"}
      /\ faults' \in 0..setup.faults /\ (faults' = 0 => faults = 0)
  BY <1>f DEF EndPass, NextLead, PassThrows, Crash, ledger, crm, Fault, At
<1>2. job[p].todo \subseteq setup.leads /\ \A l \in job[p].todo : Fresh(<<p, l>>)
  BY <1>f DEF Once
<1>3. /\ run' \in [holder : Passes \cup {NoPass}, lapsed : BOOLEAN]
      /\ \A q \in Passes : HoldsRun(q)' => HoldsRun(q)
      /\ \A q \in Passes \ {p} : HoldsRun(q) => HoldsRun(q)'
  <2>1. CASE run' = run
    BY <1>f, <2>1 DEF HoldsRun
  <2>2. CASE run.holder = p /\ run' = [holder |-> NoPass, lapsed |-> FALSE]
    BY <2>2, PassAssumption DEF HoldsRun
  <2> QED BY <2>1, <2>2 DEF EndPass, NextLead, PassThrows, Crash, ledger
<1>4. CASE Goto(p, "ending")
  <2>1. SameClaim(p) /\ job'[p].pc = "ending"
    BY <1>f, <1>4, GotoFact
  <2>2. job' \in [Passes -> Jobs] /\ Others(p) /\ job'[p].old = job[p].old
        /\ job'[p].todo = job[p].todo
    BY <2>1 DEF SameClaim
  <2> QED BY <1>f, <1>1, <1>2, <1>3, <2>1, <2>2, BetweenStep
<1>5. CASE job' = [job EXCEPT ![p] = [NoJob EXCEPT !.pc = "done", !.old = job[p].old]]
  <2>1. PICK o \in SUBSET Passes : o = job[p].old
    BY <1>f DEF Jobs
  <2>2. [NoJob EXCEPT !.pc = "done", !.old = o] \in Jobs
    BY <1>f, NoJobFact DEF IInv
  <2>3. job' \in [Passes -> Jobs] /\ Others(p) /\ job'[p].pc = "done" /\ job'[p].old = o
        /\ job'[p].todo = {}
    BY <1>f, <1>5, <2>1, <2>2 DEF Others, NoJob
  <2> QED BY <1>f, <1>1, <1>3, <2>1, <2>3, BetweenStep
<1>6. CASE job' = [job EXCEPT ![p] = [NoJob EXCEPT !.pc = "claiming", !.todo = job[p].todo,
                                                   !.old = job[p].old]]
  <2>1. PICK t \in SUBSET Leads, o \in SUBSET Passes : t = job[p].todo /\ o = job[p].old
    BY <1>f DEF Jobs
  <2>2. [NoJob EXCEPT !.pc = "claiming", !.todo = t, !.old = o] \in Jobs
    BY <1>f, NoJobFact DEF IInv
  <2>3. job' \in [Passes -> Jobs] /\ Others(p) /\ job'[p].pc = "claiming" /\ job'[p].old = o
        /\ job'[p].todo = t /\ job'[p].slot = 0 /\ job'[p].out = "none"
        /\ ~job'[p].slotDone /\ ~job'[p].watchDone
    BY <1>f, <1>6, <2>1, <2>2 DEF Others, NoJob
  <2> QED BY <1>f, <1>1, <1>2, <1>3, <2>1, <2>3, BetweenStep
<1> QED BY <1>4, <1>5, <1>6 DEF EndPass, NextLead, PassThrows, Crash

-----------------------------------------------------------------------------
(* The surroundings.                                                       *)

LEMMA WorldStep ==
  ASSUME IInv, UNCHANGED <<setup, table, audit, job, took, verdict, faults>>, CalmWatches,
         run' \in [holder : Passes \cup {NoPass}, lapsed : BOOLEAN],
         told' \in [setup.leads -> SUBSET (1..MaxTouch)],
         \A q \in Passes : HoldsRun(q)' => HoldsRun(q),
         \A q \in Passes : job[q].pc = "dispatching" /\ HoldsRun(q) => HoldsRun(q)'
  PROVE  IInv'
<1>1. TypeOK'
  BY DEF IInv, TypeOK, Jobs, MaxTouch, CalmWatches, WatchRows, Fingerprints
<1>2. Slots' = Slots /\ Mode' = Mode /\ setup.leads \subseteq Leads
  BY SetupFacts DEF Slots, Mode, IInv
<1>3. \A b \in AuditIds : Spares(b)
  BY DEF Spares, Keeps
<1>4. ASSUME NEW q \in Passes PROVE Once(q)' /\ Knows(q)' /\ Owns(q)' /\ Ends(q)'
  <2>1. \A l \in Leads : Spares(<<q, l>>)
    BY <1>3 DEF AuditIds
  <2> QED BY <2>1, OthersStand
<1>5. \A a \in AuditIds : Truth(a)'
  BY <1>3, TruthStands
<1>6. SlotsAreClaims' /\ OldHaveBegun'
  BY <1>2 DEF IInv, SlotsAreClaims, OldHaveBegun, At
<1>7. MovedIsReal'
  <2>1. DOMAIN table = Slots /\ DOMAIN table' = Slots /\ setup' = setup
    BY DEF IInv, TypeOK, Slots
  <2>2. \A l \in setup.leads : watch[l].state = "moved" => Real(l)
    BY <2>1 DEF IInv, MovedIsReal, Real
  <2>3. \A l \in setup.leads : Real(l) => Real(l)'
    BY <1>2 DEF Real
  <2>4. \A l \in setup.leads : watch'[l].state = "moved" => Real(l)'
    BY <2>2, <2>3 DEF CalmWatches
  <2> QED BY <1>2, <2>1, <2>4, RealWatches
<1>8. SendersHoldRun'
  BY DEF IInv, SendersHoldRun, At
<1>9. Alone'
  <2> SUFFICES ASSUME Mode = "testing", NEW h \in Passes, HoldsRun(h)'
               PROVE  /\ job'[h].pc \notin {"ready", "done"} => Overtaken(h)'
                      /\ job'[h].pc \in PastTesting => NothingOpen(h)'
    BY <1>2 DEF Alone
  <2>1. /\ job[h].pc \notin {"ready", "done"} => Overtaken(h)
        /\ job[h].pc \in PastTesting => NothingOpen(h)
    BY DEF IInv, Alone
  <2>2. Overtaken(h) => Overtaken(h)'
    BY <1>2 DEF Overtaken, At
  <2>3. NothingOpen(h) => NothingOpen(h)'
    BY <1>2 DEF NothingOpen
  <2> QED BY <2>1, <2>2, <2>3
<1> QED BY <1>1, <1>4, <1>5, <1>6, <1>7, <1>8, <1>9 DEF IInv

LEMMA SurroundingsStep ==
  ASSUME IInv, setup' = setup,
         \/ \E l \in setup.leads : DeliverWebhook(l)
         \/ ClearActiveWatches
         \/ RunLeaseLapses
  PROVE  IInv'
<1>f. /\ watch \in [setup.leads -> WatchRows] /\ told \in [setup.leads -> SUBSET (1..MaxTouch)]
      /\ run \in [holder : Passes \cup {NoPass}, lapsed : BOOLEAN] /\ MaxTouch \in Nat
  BY SetupFacts DEF IInv, TypeOK, WatchRows
<1>1. ASSUME NEW l \in setup.leads, DeliverWebhook(l) PROVE IInv'
  <2>1. PICK n \in (1..MaxTouch) \ told[l], r \in 0..2 :
          /\ told' = [told EXCEPT ![l] = @ \cup {n}]
          /\ watch' = [watch EXCEPT ![l] =
                         RecordEvent(@, [fp |-> <<"hook", n>>, at |-> n, recv |-> r])]
    BY <1>1 DEF DeliverWebhook
  <2>2. PICK e \in Events : e = [fp |-> <<"hook", n>>, at |-> n, recv |-> r]
    BY <1>f DEF Events, Fingerprints
  <2>3. PICK w \in WatchRows : w = watch[l]
    BY <1>f
  <2>4. /\ RecordEvent(w, e) \in WatchRows
        /\ RecordEvent(w, e).state = "moved" => w.state = "moved"
    BY WatchFacts
  <2>5. CalmWatches
    BY <1>f, <2>1, <2>2, <2>3, <2>4 DEF CalmWatches
  <2>6. told' \in [setup.leads -> SUBSET (1..MaxTouch)]
    BY <1>f, <2>1
  <2>7. UNCHANGED <<run, table, audit, job, took, verdict, faults>>
    BY <1>1 DEF DeliverWebhook
  <2>8. \A q \in Passes : HoldsRun(q)' <=> HoldsRun(q)
    BY <2>7 DEF HoldsRun
  <2> QED BY <1>f, <2>5, <2>6, <2>7, <2>8, WorldStep
<1>2. CASE ClearActiveWatches
  <2>1. ASSUME NEW l \in setup.leads
        PROVE  /\ StopClear(watch[l]) \in WatchRows
               /\ StopClear(watch[l]).state = "moved" => watch[l].state = "moved"
    <3>1. PICK w \in WatchRows : w = watch[l]
      BY <1>f
    <3>2. StopClear(w) \in WatchRows /\ StopClear(w).state \in {w.state, "skipped"}
      BY WatchFacts
    <3> QED BY <3>1, <3>2
  <2>2. CalmWatches
    BY <1>2, <2>1 DEF ClearActiveWatches, CalmWatches
  <2>3. UNCHANGED <<run, table, audit, job, told, took, verdict, faults>>
    BY <1>2 DEF ClearActiveWatches, crm
  <2>4. \A q \in Passes : HoldsRun(q)' <=> HoldsRun(q)
    BY <2>3 DEF HoldsRun
  <2> QED BY <1>f, <2>2, <2>3, <2>4, WorldStep
<1>3. CASE RunLeaseLapses
  <2>1. /\ UNCHANGED <<watch, table, audit, job, told, took, verdict, faults>>
        /\ run' = [run EXCEPT !.lapsed = TRUE] /\ job[run.holder].pc # "dispatching"
    BY <1>3 DEF RunLeaseLapses, crm, At
  <2>2. CalmWatches
    BY <2>1, SameWatches DEF IInv
  <2>3. /\ run' \in [holder : Passes \cup {NoPass}, lapsed : BOOLEAN]
        /\ \A q \in Passes : HoldsRun(q)' => HoldsRun(q)
        /\ \A q \in Passes : job[q].pc = "dispatching" /\ HoldsRun(q) => HoldsRun(q)'
    BY <1>f, <2>1 DEF HoldsRun
  <2> QED BY <1>f, <2>1, <2>2, <2>3, WorldStep
<1> QED BY <1>1, <1>2, <1>3

-----------------------------------------------------------------------------
(* The invariant.                                                          *)

LEMMA InitHolds == Init => IInv
<1> SUFFICES ASSUME Init PROVE IInv
  OBVIOUS
<1>s. /\ setup \in Setups /\ setup.mode \in {"testing", "capped", "uncapped"}
      /\ setup.leads \subseteq Leads /\ setup.limit \in Nat /\ MaxTouch \in Nat \ {0}
      /\ setup.faults \in Nat
  BY SetupAssumption DEF Init, MaxTouch
<1>1. watch \in [setup.leads -> WatchRows] /\ \A l \in setup.leads : watch[l].state = "watching"
  <2>1. \A l \in setup.leads :
          watch[l] = [state |-> "watching", at |-> 1, recv |-> 1, fp |-> <<"hook", 1>>, cycle |-> 1,
                      gen |-> 0, token |-> NoToken, due |-> TRUE, lapsed |-> FALSE]
    BY DEF Init, NewWatch, Absent
  <2>2. <<"hook", 1>> \in Fingerprints /\ 1 \in 1..MaxTouch
    BY <1>s DEF Fingerprints
  <2>3. [state |-> "watching", at |-> 1, recv |-> 1, fp |-> <<"hook", 1>>, cycle |-> 1,
         gen |-> 0, token |-> NoToken, due |-> TRUE, lapsed |-> FALSE] \in WatchRows
    BY <2>2 DEF WatchRows, WatchStates
  <2>4. DOMAIN watch = setup.leads /\ watch = [l \in setup.leads |-> watch[l]]
    BY DEF Init
  <2> QED BY <2>1, <2>3, <2>4
<1>2. NoJob \in Jobs
  BY <1>s DEF NoJob, Jobs, Steps
<1>3. TypeOK
  <2>1. table \in [1..setup.limit -> [state : SlotStates, audit : AuditIds \cup {NoAudit},
                                      lapsed : BOOLEAN]]
    BY DEF Init, AbsentSlot, SlotStates
  <2>2. told \in [setup.leads -> SUBSET (1..MaxTouch)]
    BY <1>s DEF Init
  <2>3. audit \in [AuditIds -> Audits] /\ job \in [Passes -> Jobs] /\ took \subseteq AuditIds
        /\ verdict \in [AuditIds -> {"none", "confirmed", "uncertain", "not_moved"}]
        /\ faults \in 0..setup.faults
        /\ run \in [holder : Passes \cup {NoPass}, lapsed : BOOLEAN]
    BY <1>s, <1>2 DEF Init, Audits
  <2> QED BY <1>s, <1>1, <2>1, <2>2, <2>3 DEF TypeOK, WatchRows
<1>4. \A n \in Slots : table[n].state = "absent"
  BY DEF Init, AbsentSlot, Slots
<1>5. /\ \A b \in AuditIds : verdict[b] = "none" /\ audit[b] = "none" /\ b \notin took
      /\ \A p \in Passes : job[p] = NoJob
  BY DEF Init
<1>6. ASSUME NEW p \in Passes PROVE Once(p) /\ Knows(p) /\ Owns(p) /\ Ends(p)
  <2>1. /\ job[p].pc = "ready" /\ job[p].todo = {} /\ job[p].slot = 0 /\ job[p].out = "none"
        /\ job[p].slotDone = FALSE /\ job[p].watchDone = FALSE
    BY <1>5 DEF NoJob
  <2>2. \A l \in Leads : Fresh(<<p, l>>)
    BY <1>4, <1>5 DEF Fresh, Has, SpentStates, AuditIds
  <2>3. job[p].pc \notin Working \cup Early \cup Settling \cup Catching \cup PastTesting
    BY <2>1 DEF Working, Early, Settling, Catching, PastTesting
  <2> QED BY <2>1, <2>2, <2>3 DEF Once, Knows, Owns, Ends
<1>7. \A b \in AuditIds : Truth(b)
  BY <1>5 DEF Truth
<1>8. MovedIsReal /\ SlotsAreClaims
  BY <1>1, <1>4 DEF MovedIsReal, SlotsAreClaims, SpentStates
<1>9. OldHaveBegun /\ SendersHoldRun
  BY <1>5 DEF OldHaveBegun, SendersHoldRun, At, NoJob
<1>10. Alone
  <2>1. \A p \in Passes : ~HoldsRun(p)
    BY PassAssumption DEF Init, HoldsRun
  <2> QED BY <2>1 DEF Alone
<1> QED BY <1>3, <1>6, <1>7, <1>8, <1>9, <1>10 DEF IInv

LEMMA NextKeeps == IInv /\ [Next]_vars => IInv'
<1> SUFFICES ASSUME IInv, [Next]_vars PROVE IInv'
  OBVIOUS
<1>1. CASE UNCHANGED vars
  <2>1. /\ UNCHANGED <<setup, run, watch, table, audit, job, told, took, verdict, faults>>
    BY <1>1 DEF vars, ledger, crm
  <2>2. CalmWatches
    BY <2>1, SameWatches DEF IInv
  <2> QED BY <2>1, <2>2, WorldStep DEF IInv, TypeOK, HoldsRun
<1>2. ASSUME setup' = setup, NEW p \in Passes, PassStep(p) PROVE IInv'
  <2>1. CASE Acquire(p)
    BY <1>2, <2>1, AcquireStep
  <2>2. CASE ReleaseExpired(p) \/ ListDue(p)
    BY <1>2, <2>2, ListStep
  <2>3. CASE ClaimNext(p)
    BY <1>2, <2>3, ClaimNextStep
  <2>4. CASE EndPass(p) \/ NextLead(p) \/ PassThrows(p) \/ Crash(p)
    BY <1>2, <2>4, LeaveStep
  <2>5. CASE ReadFresh(p) \/ ReadHistory(p) \/ RecordHistory(p) \/ CheckClaim(p)
    BY <1>2, <2>5, ReadStep
  <2>6. CASE ReserveTestSlot(p) \/ ReserveDailySlot(p)
    BY <1>2, <2>6, ReserveStep
  <2>7. CASE BeginMoveMutation(p)
    BY <1>2, <2>7, BeginStep
  <2>8. CASE Refresh(p) \/ LastFence(p) \/ ReadBack(p) \/ MoveFault(p)
    BY <1>2, <2>8, MoveStep
  <2>9. CASE Dispatch(p)
    BY <1>2, <2>9, DispatchStep
  <2>10. CASE SettleSlot(p)
    BY <1>2, <2>10, SettleSlotStep
  <2>11. CASE SettleWatch(p)
    BY <1>2, <2>11, SettleWatchStep
  <2>12. CASE SettleAudit(p) \/ CatchAudit(p)
    BY <1>2, <2>12, CloseStep
  <2>13. CASE CatchSlot(p)
    BY <1>2, <2>13, CatchSlotStep
  <2>14. CASE CatchWatch(p)
    BY <1>2, <2>14, CatchWatchStep
  <2>15. CASE StepThrows(p) \/ MatchThrows(p)
    BY <1>2, <2>15, ThrowStep
  <2> QED BY <1>2, <2>1, <2>2, <2>3, <2>4, <2>5, <2>6, <2>7, <2>8, <2>9, <2>10, <2>11, <2>12,
             <2>13, <2>14, <2>15 DEF PassStep
<1>3. CASE /\ setup' = setup
           /\ \/ \E l \in setup.leads : DeliverWebhook(l)
              \/ ClearActiveWatches
              \/ RunLeaseLapses
  BY <1>3, SurroundingsStep
<1> QED BY <1>1, <1>2, <1>3 DEF Next

-----------------------------------------------------------------------------
(* In testing, an open move is that of a pass that ended or is about to.    *)

\* The claim a moved its lead and its slot says so to nobody.
Pending(n, a) == IsReservedBy(table, n, a) /\ a \in took

ConfirmedSlotsAreTrue ==
  \A n \in Slots : table[n].state = "confirmed" => verdict[table[n].audit] = "confirmed"

\* While nothing failed, only a crash leaves a claim's slot so.
PendingIsCurrent ==
  faults = 0 =>
    \A p \in Passes, l \in Leads, n \in Slots : Pending(n, <<p, l>>) =>
      At(p, "done") \/ (l = Lead(p) /\ job[p].pc \in {"reading_back", "slot"})

\* Who lost the run lease is old to somebody, as is who left a slot so.
LostIsOld ==
  \A q \in Passes :
    /\ run.holder # q /\ ~At(q, "ready")
    /\ ~At(q, "done") \/ (faults = 0 /\ \E l \in Leads, n \in Slots : Pending(n, <<q, l>>))
    => \E r \in Passes : q \in job[r].old

OpenMoves == Mode = "testing" => ConfirmedSlotsAreTrue /\ PendingIsCurrent /\ LostIsOld

\* What a step of a pass may do to it.
LEMMA OpenStep ==
  ASSUME IInv, OpenMoves, setup' = setup, faults' = 0 => faults = 0, NEW p \in Passes, Others(p), NEW a, a = AuditId(p),
         job[p].pc \notin {"ready", "done"}, job'[p].pc # "ready", job'[p].old = job[p].old,
         \/ run'.holder = run.holder
         \/ run.holder = p /\ job'[p].pc = "done" /\ job[p].pc \notin {"reading_back", "slot"},
         Mode = "testing" =>
           /\ \A n \in Slots : table'[n].state = "confirmed" =>
                verdict'[table'[n].audit] = "confirmed"
           /\ \A q \in Passes, l \in Leads, n \in Slots : Pending(n, <<q, l>>)' =>
                \/ Pending(n, <<q, l>>)
                \/ <<q, l>> = a /\ job'[p].pc \in {"reading_back", "slot"} /\ Lead(p)' = l
           /\ job[p].pc \in {"reading_back", "slot"} /\ faults' = 0 =>
                \/ job'[p].pc = "done"
                \/ job'[p].pc \in {"reading_back", "slot"} /\ Lead(p)' = Lead(p)
                \/ \A n \in Slots : ~Pending(n, a)'
  PROVE  OpenMoves'
<1> SUFFICES ASSUME Mode = "testing"
             PROVE  ConfirmedSlotsAreTrue' /\ PendingIsCurrent' /\ LostIsOld'
  BY DEF OpenMoves, Mode
<1>s. Slots' = Slots /\ ConfirmedSlotsAreTrue /\ PendingIsCurrent /\ LostIsOld
  BY DEF Slots, OpenMoves
<1>1. ConfirmedSlotsAreTrue'
  BY <1>s DEF ConfirmedSlotsAreTrue
<1>2. PendingIsCurrent'
  <2> SUFFICES ASSUME faults' = 0, NEW q \in Passes, NEW l \in Leads, NEW n \in Slots,
                      Pending(n, <<q, l>>)'
               PROVE  At(q, "done")' \/ (l = Lead(q)' /\ job'[q].pc \in {"reading_back", "slot"})
    BY <1>s DEF PendingIsCurrent
  <2>1. CASE <<q, l>> = a /\ job'[p].pc \in {"reading_back", "slot"} /\ Lead(p)' = l
    BY <2>1 DEF AuditId
  <2>2. CASE Pending(n, <<q, l>>)
    <3>1. At(q, "done") \/ (l = Lead(q) /\ job[q].pc \in {"reading_back", "slot"})
      BY <1>s, <2>2 DEF PendingIsCurrent
    <3>2. CASE q # p
      BY <3>1, <3>2 DEF Others, At, Lead
    <3>3. CASE q = p
      <4>1. <<q, l>> = a /\ job[p].pc \in {"reading_back", "slot"}
        BY <3>1, <3>3 DEF At, AuditId, Lead
      <4> QED BY <3>1, <3>3, <4>1 DEF At
    <3> QED BY <3>2, <3>3
  <2> QED BY <2>1, <2>2
<1>3. LostIsOld'
  <2> SUFFICES ASSUME NEW q \in Passes, run'.holder # q, job'[q].pc # "ready",
                      \/ job'[q].pc # "done"
                      \/ faults' = 0 /\ \E l \in Leads, n \in Slots : Pending(n, <<q, l>>)'
               PROVE  \E r \in Passes : q \in job'[r].old
    BY <1>s DEF LostIsOld, At
  <2>1. \A r \in Passes : job'[r].old = job[r].old
    BY DEF Others
  <2>2. ASSUME NEW l \in Leads, NEW n \in Slots, Pending(n, <<q, l>>)', q # p
        PROVE  Pending(n, <<q, l>>)
    BY <2>2 DEF AuditId
  <2>3. CASE q # p
    <3>1. job[q] = job'[q] /\ run.holder # q
      BY <2>3 DEF Others
    <3> QED BY <1>s, <2>1, <2>2, <2>3, <3>1 DEF LostIsOld, At
  <2>4. CASE q = p /\ run.holder # p
    BY <1>s, <2>1, <2>4 DEF LostIsOld, At
  <2>5. CASE q = p /\ run.holder = p
    <3>1. job'[p].pc = "done" /\ job[p].pc \notin {"reading_back", "slot", "done"} /\ faults = 0
      BY <2>5
    <3>2. PICK l \in Leads, n \in Slots : Pending(n, <<p, l>>)
      BY <2>5, <3>1
    <3> QED BY <1>s, <3>1, <3>2 DEF PendingIsCurrent, At
  <2> QED BY <2>3, <2>4, <2>5
<1> QED BY <1>1, <1>2, <1>3

\* A step that changes neither slots nor verdicts nor the PATCHes sent.
LEMMA OpenStands ==
  ASSUME IInv, OpenMoves, setup' = setup, faults' = 0 => faults = 0, NEW p \in Passes, Others(p),
         job[p].pc \notin {"ready", "done"}, job'[p].pc # "ready", job'[p].old = job[p].old,
         \/ run'.holder = run.holder
         \/ run.holder = p /\ job'[p].pc = "done" /\ job[p].pc \notin {"reading_back", "slot"},
         UNCHANGED <<took, verdict>>,
         Mode = "testing" => \A n \in Slots :
           table'[n].state \in {"reserved", "confirmed"} =>
             table'[n].state = table[n].state /\ table'[n].audit = table[n].audit,
         job[p].pc = "reading_back" => faults' # 0 \/ job'[p].pc = "done",
         job[p].pc = "slot" /\ faults' = 0 => job'[p].pc = "done" \/ ~SlotIsMine(p)
  PROVE  OpenMoves'
<1> SUFFICES ASSUME Mode = "testing" PROVE OpenMoves'
  BY DEF OpenMoves, Mode
<1>1. Slots' = Slots /\ ConfirmedSlotsAreTrue
  BY DEF Slots, OpenMoves
<1>2. \A n \in Slots : table'[n].state = "confirmed" => verdict'[table'[n].audit] = "confirmed"
  BY <1>1 DEF ConfirmedSlotsAreTrue
<1>3. \A q \in Passes, l \in Leads, n \in Slots : Pending(n, <<q, l>>)' => Pending(n, <<q, l>>)
  BY DEF Pending, IsReservedBy
<1>4. PICK a : a = AuditId(p)
  OBVIOUS
<1>5. ASSUME job[p].pc = "slot", ~SlotIsMine(p), NEW n \in Slots, Pending(n, a)'
      PROVE  FALSE
  <2>1. IsReservedBy(table, n, a)
    BY <1>5 DEF Pending, IsReservedBy
  <2>2. Owns(p) /\ job[p].pc \in Working
    BY <1>5 DEF IInv, Working, Settling
  <2>3. n = job[p].slot
    BY <1>4, <2>1, <2>2 DEF Owns, Has, IsReservedBy, SpentStates
  <2> QED BY <1>4, <1>5, <2>1, <2>3 DEF SlotIsMine
<1>6. job[p].pc \in {"reading_back", "slot"} /\ faults' = 0 =>
        job'[p].pc = "done" \/ \A n \in Slots : ~Pending(n, a)'
  BY <1>5
<1> QED BY <1>1, <1>2, <1>3, <1>4, <1>6, OpenStep DEF Mode

\* The steps of a pass that are about neither a slot nor its move.
LEMMA OpenQuiet ==
  ASSUME IInv, OpenMoves, setup' = setup, NEW p \in Passes,
         \/ ReleaseExpired(p) \/ ClaimNext(p) \/ EndPass(p) \/ ReadFresh(p) \/ ReadHistory(p)
         \/ RecordHistory(p) \/ CheckClaim(p) \/ BeginMoveMutation(p) \/ SettleWatch(p)
         \/ SettleAudit(p) \/ CatchWatch(p) \/ CatchAudit(p) \/ NextLead(p) \/ StepThrows(p)
         \/ MatchThrows(p) \/ PassThrows(p) \/ Crash(p)
  PROVE  OpenMoves'
<1>f. /\ job \in [Passes -> Jobs] /\ job[p] \in Jobs
      /\ faults \in Nat /\ faults \in 0..setup.faults /\ setup.faults \in Nat
  BY SetupFacts DEF IInv, TypeOK
<1>1. UNCHANGED <<table, took, verdict>> /\ (faults' = 0 => faults = 0)
  <2>1. UNCHANGED <<table, took, verdict>>
    BY DEF ReleaseExpired, ClaimNext, EndPass, ReadFresh, ReadHistory, RecordHistory, CheckClaim,
           BeginMoveMutation, SettleWatch, SettleAudit, CatchWatch, CatchAudit, NextLead,
           StepThrows, MatchThrows, PassThrows, Crash, ledger, crm
  <2>2. faults' = faults \/ faults' = faults + 1
    BY DEF ReleaseExpired, ClaimNext, EndPass, ReadFresh, ReadHistory, RecordHistory, CheckClaim,
           BeginMoveMutation, SettleWatch, SettleAudit, CatchWatch, CatchAudit, NextLead,
           StepThrows, MatchThrows, PassThrows, Crash, crm, Fault
  <2> QED BY <1>f, <2>1, <2>2
<1>2. job[p].pc \notin {"ready", "done"}
  BY DEF ReleaseExpired, ClaimNext, EndPass, ReadFresh, ReadHistory, RecordHistory, CheckClaim,
         BeginMoveMutation, SettleWatch, SettleAudit, CatchWatch, CatchAudit, NextLead,
         StepThrows, MatchThrows, PassThrows, Crash, At, ThrowSteps
<1>3. /\ job[p].pc = "reading_back" => Crash(p)
      /\ job[p].pc = "slot" => Crash(p) \/ StepThrows(p) \/ (MatchThrows(p) /\ ~SlotIsMine(p))
  BY DEF ReleaseExpired, ClaimNext, EndPass, ReadFresh, ReadHistory, RecordHistory, CheckClaim,
         BeginMoveMutation, SettleWatch, SettleAudit, CatchWatch, CatchAudit, NextLead,
         StepThrows, MatchThrows, PassThrows, At, ThrowSteps
<1>4. Others(p) /\ job'[p].pc # "ready" /\ job'[p].old = job[p].old
  <2>1. ASSUME NEW s \in Steps \ {"ready"}, Goto(p, s)
        PROVE  Others(p) /\ job'[p].pc # "ready" /\ job'[p].old = job[p].old
    BY <1>f, <2>1, GotoFact DEF SameClaim
  <2>2. ASSUME NEW out \in DOMAIN Settles, End(p, out)
        PROVE  Others(p) /\ job'[p].pc # "ready" /\ job'[p].old = job[p].old
    BY <1>f, <2>2, EndFact DEF SameClaim, AfterSlot
  <2>3. CASE Thrown(p)
    BY <1>f, <2>3, ThrownFact DEF SameClaim
  <2>4. ASSUME NEW r, job' = [job EXCEPT ![p] = r], r.pc # "ready", r.old = job[p].old
        PROVE  Others(p) /\ job'[p].pc # "ready" /\ job'[p].old = job[p].old
    BY <1>f, <2>4 DEF Others
  <2>t. job[p].todo \in SUBSET Leads /\ job[p].old \in SUBSET Passes
    BY <1>f DEF Jobs
  <2>9. CASE EndPass(p) \/ Crash(p)
    BY <2>4, <2>9 DEF EndPass, Crash, NoJob
  <2>10. CASE NextLead(p)
    <3>1. CASE Goto(p, "ending")
      BY <2>1, <3>1 DEF Steps, ThrowSteps
    <3>2. PICK u \in SUBSET Leads, o \in SUBSET Passes : u = job[p].todo /\ o = job[p].old
      BY <2>t
    <3>3. PICK r : r = [NoJob EXCEPT !.pc = "claiming", !.todo = u, !.old = o]
      OBVIOUS
    <3>4. r.pc = "claiming" /\ r.old = o
      BY <3>3 DEF NoJob
    <3> QED BY <2>4, <2>10, <3>1, <3>2, <3>3, <3>4 DEF NextLead
  <2>5. CASE ClaimNext(p)
    <3>1. PICK l \in Leads :
            \/ job' = [job EXCEPT ![p].todo = @ \ {l}]
            \/ job' = [job EXCEPT ![p].pc = "claimed", ![p].todo = @ \ {l},
                                  ![p].lead = l, ![p].gen = watch'[l].gen,
                                  ![p].at = watch[l].at]
      BY <2>5, <2>t DEF ClaimNext
    <3>2. CASE job' = [job EXCEPT ![p].todo = @ \ {l}]
      BY <1>f, <1>2, <3>2 DEF Others, Jobs
    <3>3. CASE job' = [job EXCEPT ![p].pc = "claimed", ![p].todo = @ \ {l},
                                  ![p].lead = l, ![p].gen = watch'[l].gen,
                                  ![p].at = watch[l].at]
      <4>1. PICK r : r = [job[p] EXCEPT !.pc = "claimed", !.todo = @ \ {l}, !.lead = l,
                                        !.gen = watch'[l].gen, !.at = watch[l].at]
        OBVIOUS
      <4>2. r.pc = "claimed" /\ r.old = job[p].old
        BY <1>f, <4>1 DEF Jobs
      <4>3. job' = [job EXCEPT ![p] = r]
        BY <1>f, <3>3, <4>1
      <4> QED BY <2>4, <4>2, <4>3
    <3> QED BY <3>1, <3>2, <3>3
  <2>6. CASE SettleWatch(p) \/ SettleAudit(p) \/ CatchAudit(p)
    BY <1>f, <2>6 DEF SettleWatch, SettleAudit, CatchAudit, Others, Jobs
  <2>7. CASE ReleaseExpired(p) \/ ReadHistory(p) \/ CatchWatch(p) \/ PassThrows(p)
    BY <2>1, <2>7 DEF ReleaseExpired, ReadHistory, CatchWatch, PassThrows, Steps, ThrowSteps
  <2>8. CASE ReadFresh(p) \/ RecordHistory(p) \/ CheckClaim(p) \/ BeginMoveMutation(p)
    BY <2>1, <2>2, <2>8 DEF ReadFresh, RecordHistory, CheckClaim, BeginMoveMutation, Steps,
                           ThrowSteps, Settles
  <2> QED BY <2>3, <2>5, <2>6, <2>7, <2>8, <2>9, <2>10 DEF StepThrows, MatchThrows
<1>5. \/ run'.holder = run.holder
      \/ run.holder = p /\ job'[p].pc = "done" /\ job[p].pc \notin {"reading_back", "slot"}
  <2>1. CASE EndPass(p)
    BY <1>f, <2>1 DEF EndPass, At, NoJob
  <2>2. CASE ~EndPass(p)
    BY <2>2 DEF ReleaseExpired, ClaimNext, ReadFresh, ReadHistory, RecordHistory, CheckClaim,
              BeginMoveMutation, SettleWatch, SettleAudit, CatchWatch, CatchAudit, NextLead,
              StepThrows, MatchThrows, PassThrows, Crash, ledger
  <2> QED BY <2>1, <2>2
<1>6. Crash(p) => job'[p].pc = "done"
  BY <1>f DEF Crash, NoJob
<1>7. StepThrows(p) => faults' # 0
  BY <1>f DEF StepThrows, Fault
<1> QED BY <1>1, <1>2, <1>3, <1>4, <1>5, <1>6, <1>7, OpenStands

\* The slots are ensured, and none in use changes.
LEMMA OpenList ==
  ASSUME IInv, OpenMoves, setup' = setup, NEW p \in Passes, ListDue(p)
  PROVE  OpenMoves'
<1>f. job \in [Passes -> Jobs] /\ table \in Tables
  BY DEF IInv, TypeOK, Tables, SlotRows, Slots
<1>1. UNCHANGED <<run, took, verdict, faults>> /\ job[p].pc = "listing"
  BY DEF ListDue, At, crm
<1>2. Others(p) /\ job'[p].pc # "ready" /\ job'[p].old = job[p].old
  BY <1>f DEF ListDue, Goto, Others, Jobs
<1>3. \A n \in Slots : table'[n].state \in {"reserved", "confirmed"} =>
        table'[n].state = table[n].state /\ table'[n].audit = table[n].audit
  <2>1. table' = table \/ table' = Ensure(table, setup.limit)
    BY DEF ListDue
  <2>2. CASE table' = Ensure(table, setup.limit)
    BY <1>f, <2>2 DEF Ensure, CreateMissing, DropFreeAbove, FreeSlot, AbsentSlot, Tables
  <2> QED BY <2>1, <2>2
<1> QED BY <1>1, <1>2, <1>3, OpenStands

\* A step of the move: only the claim's own verdict and PATCH change, and once the
\* PATCH took effect the claim goes on to its read-back or its slot.
LEMMA OpenMove ==
  ASSUME IInv, OpenMoves, setup' = setup, faults' = 0 => faults = 0, NEW p \in Passes,
         NEW a \in AuditIds, a = AuditId(p), job[p].pc \in Early \cup {"reading_back"},
         SameClaim(p), job'[p].pc # "ready", table' = table, run' = run,
         took' \in {took, took \cup {a}},
         \A b \in AuditIds \ {a} : verdict'[b] = verdict[b],
         /\ Mode = "testing" /\ faults' = 0
         /\ job[p].pc = "reading_back" \/ took' # took
         => job'[p].pc \in {"reading_back", "slot"},
         Mode = "testing" /\ took' # took => job'[p].pc \in {"reading_back", "slot"}
  PROVE  OpenMoves'
<1>1. Knows(p) /\ SlotsAreClaims /\ job[p].pc \notin {"ready", "done", "slot"}
  BY DEF IInv, Early
<1>2. verdict[a] = "none" /\ Lead(p)' = Lead(p) /\ Slots' = Slots
  BY <1>1 DEF Knows, SameClaim, Lead, Slots
<1>3. ASSUME Mode = "testing", NEW n \in Slots, table'[n].state = "confirmed"
      PROVE  verdict'[table'[n].audit] = "confirmed"
  <2>1. verdict[table[n].audit] = "confirmed" /\ table[n].audit \in AuditIds
    BY <1>1, <1>3 DEF OpenMoves, ConfirmedSlotsAreTrue, SlotsAreClaims, SpentStates
  <2> QED BY <1>2, <2>1
<1>4. ASSUME Mode = "testing", NEW q \in Passes, NEW l \in Leads, NEW n \in Slots,
             Pending(n, <<q, l>>)', ~Pending(n, <<q, l>>)
      PROVE  <<q, l>> = a /\ job'[p].pc \in {"reading_back", "slot"} /\ Lead(p)' = l
  <2>1. <<q, l>> \in took' \ took
    BY <1>4 DEF Pending, IsReservedBy
  <2>2. <<q, l>> = a /\ job'[p].pc \in {"reading_back", "slot"}
    BY <1>4, <2>1
  <2> QED BY <1>2, <2>2 DEF AuditId, Lead
<1>5. job[p].pc \in {"reading_back", "slot"} /\ faults' = 0 /\ Mode = "testing" =>
        job'[p].pc \in {"reading_back", "slot"} /\ Lead(p)' = Lead(p)
  BY <1>1, <1>2
<1>6. Others(p) /\ job'[p].old = job[p].old
  BY DEF SameClaim
<1> QED BY <1>1, <1>3, <1>4, <1>5, <1>6, OpenStep

LEMMA OpenMoving ==
  ASSUME IInv, OpenMoves, setup' = setup, NEW p \in Passes,
         Refresh(p) \/ LastFence(p) \/ ReadBack(p) \/ MoveFault(p) \/ Dispatch(p)
  PROVE  OpenMoves'
<1>f. job \in [Passes -> Jobs] /\ faults \in Nat /\ verdict \in [AuditIds -> Verdicts]
  BY SetupFacts DEF IInv, TypeOK, Verdicts
<1>1. /\ job[p].pc \in {"refreshing", "fencing", "dispatching", "reading_back", "reserving"}
      /\ job[p].pc \in Early \cup {"reading_back"} /\ job[p].pc \in Working
      /\ UNCHANGED <<table, run>>
  BY DEF Refresh, LastFence, ReadBack, MoveFault, Dispatch, At, ledger, Early, Working
<1>2. (faults' = 0 => faults = 0) /\ (MoveFault(p) => faults' # 0)
  <2>1. CASE MoveFault(p)
    <3>1. faults' = faults + 1
      BY <2>1 DEF MoveFault, Fault
    <3> QED BY <1>f, <3>1
  <2>2. CASE ~MoveFault(p)
    BY <2>2 DEF Refresh, LastFence, ReadBack, Dispatch
  <2> QED BY <2>1, <2>2
<1>3. PICK a \in AuditIds : a = AuditId(p)
  BY <1>1, WorkingFacts
<1>4. Mode = "testing" /\ job[p].pc \in {"dispatching", "reading_back"} => job[p].slot # 0
  BY <1>1, WorkingFacts DEF Owns
<1>5. ASSUME NEW out \in DOMAIN Settles, NEW v \in Verdicts, Return(p, out, v),
             job[p].pc = "reading_back" => ReadBack(p) \/ MoveFault(p)
      PROVE  OpenMoves'
  <2>1. /\ SameClaim(p) /\ job'[p].pc # "ready" /\ took' = took
        /\ \A b \in AuditIds \ {a} : verdict'[b] = verdict[b]
        /\ job[p].slot # 0 => job'[p].pc = "slot"
    BY <1>f, <1>3, <1>5, EndFact DEF Return, AfterSlot
  <2> QED BY <1>1, <1>2, <1>3, <1>4, <2>1, OpenMove
<1>6. ASSUME Goto(p, "reserving") \/ Goto(p, "fencing") \/ Goto(p, "dispatching"),
             UNCHANGED crm, job[p].pc \in {"refreshing", "fencing"}
      PROVE  OpenMoves'
  <2>1. UNCHANGED <<took, verdict>>
    BY <1>6 DEF crm
  <2>2. SameClaim(p) /\ job'[p].pc # "ready"
    BY <1>f, <1>6, GotoFact DEF Steps, ThrowSteps
  <2> QED BY <1>1, <1>2, <1>3, <1>6, <2>1, <2>2, OpenMove
<1>7. CASE Dispatch(p)
  <2>1. /\ job[p].pc = "dispatching" /\ faults' = faults
        /\ took' \in {took, took \cup {a}}
        /\ \A b \in AuditIds \ {a} : verdict'[b] = verdict[b]
    BY <1>f, <1>3, <1>7 DEF Dispatch, At
  <2>2. /\ SameClaim(p) /\ job'[p].pc # "ready"
        /\ job[p].slot # 0 => job'[p].pc \in {"reading_back", "slot"}
    <3>1. CASE Goto(p, "reading_back")
      BY <1>f, <3>1, GotoFact DEF Steps, ThrowSteps
    <3>2. CASE End(p, "rejected") \/ End(p, "uncertain")
      BY <1>f, <3>2, EndFact DEF AfterSlot, Settles
    <3> QED BY <1>7, <3>1, <3>2 DEF Dispatch
  <2> QED BY <1>1, <1>2, <1>3, <1>4, <2>1, <2>2, OpenMove
<1>8. CASE Refresh(p) \/ LastFence(p)
    BY <1>5, <1>6, <1>8 DEF Refresh, LastFence, Settles, Verdicts, At
<1>9. CASE ReadBack(p) \/ MoveFault(p)
  BY <1>5, <1>9 DEF ReadBack, MoveFault, Settles, Verdicts, Stages
<1> QED BY <1>7, <1>8, <1>9

\* A new reservation is of a move that has not been sent.
LEMMA OpenReserve ==
  ASSUME IInv, OpenMoves, setup' = setup, NEW p \in Passes,
         ReserveTestSlot(p) \/ ReserveDailySlot(p)
  PROVE  OpenMoves'
<1>f. job \in [Passes -> Jobs] /\ table \in Tables /\ DOMAIN table = Slots /\ setup.limit \in Nat
  BY SetupFacts DEF IInv, TypeOK, Tables, SlotRows, Slots
<1>1. CASE ReserveDailySlot(p)
  <2>1. job[p].pc = "reserving" /\ job[p].pc \in Working
    BY <1>1 DEF ReserveDailySlot, At, Working, Early
  <2>2. Mode # "testing"
    BY <2>1, WorkingFacts DEF Owns
  <2> QED BY <2>2 DEF OpenMoves, Mode
<1>2. CASE ReserveTestSlot(p)
  <2>1. /\ job[p].pc = "testing" /\ job[p].pc \in Early /\ job[p].pc \in Working
        /\ UNCHANGED <<run, took, verdict, faults>>
    BY <1>2 DEF ReserveTestSlot, At, crm, Working, Early
  <2>2. PICK t : t = MarkOld(p)
    OBVIOUS
  <2>3. PICK a \in AuditIds : a = AuditId(p)
    BY <2>1, WorkingFacts
  <2>4. t \in Tables /\ Aged(table, t) /\ DOMAIN t = Slots
    <3> DEFINE f == [n \in Slots |-> table[n].state = "reserved" /\ table[n].audit[1] \in job[p].old]
    <3>1. f \in [Slots -> BOOLEAN]
      OBVIOUS
    <3>2. t = MarkExpired([n \in DOMAIN table |-> [table[n] EXCEPT !.lapsed = f[n]]])
      BY <1>f, <2>2 DEF MarkOld
    <3> HIDE DEF f
    <3> QED BY <1>f, <3>1, <3>2, ExpireFact DEF Tables
  <2>5. a \notin took
    BY <2>1, <2>3, WorkingFacts DEF Knows
  <2>6. CASE table' = t /\ End(p, "no_capacity")
    <3>1. Others(p) /\ job'[p].pc # "ready" /\ job'[p].old = job[p].old
      BY <1>f, <2>6, EndFact DEF SameClaim, AfterSlot, Settles
    <3>2. \A n \in Slots : table'[n].state \in {"reserved", "confirmed"} =>
            table'[n].state = table[n].state /\ table'[n].audit = table[n].audit
      BY <2>4, <2>6 DEF Aged
    <3> QED BY <2>1, <3>1, <3>2, OpenStands
  <2>7. CASE /\ FreeNumbers(t) # {}
             /\ table' = Reserve(t, LowestFree(t), AuditId(p))
             /\ job' = [job EXCEPT ![p].pc = "beginning", ![p].slot = LowestFree(t)]
    <3>1. PICK m \in Slots : m = LowestFree(t)
      BY <1>f, <2>3, <2>4, <2>7, ReserveFact
    <3>2. /\ \A k \in Slots \ {m} : table'[k] = t[k]
          /\ table'[m].state = "reserved" /\ table'[m].audit = a
      BY <1>f, <2>3, <2>4, <2>7, <3>1, ReserveFact
    <3>3. Others(p) /\ job'[p].pc # "ready" /\ job'[p].old = job[p].old
      <4>1. m \in 0..setup.limit /\ job' = [job EXCEPT ![p].pc = "beginning", ![p].slot = m]
            /\ "beginning" \in Steps
        BY <1>f, <2>7, <3>1 DEF Slots, Steps, ThrowSteps
      <4> QED BY <1>f, <4>1, TakeFact DEF SameClaim
    <3>4. ASSUME NEW n \in Slots, table'[n].state = "confirmed", Mode = "testing"
          PROVE  verdict'[table'[n].audit] = "confirmed"
      <4>1. table[n].state = "confirmed" /\ table'[n].audit = table[n].audit
        BY <2>4, <3>2, <3>4 DEF Aged
      <4> QED BY <2>1, <3>4, <4>1 DEF OpenMoves, ConfirmedSlotsAreTrue
    <3>5. ASSUME NEW q \in Passes, NEW l \in Leads, NEW n \in Slots, Pending(n, <<q, l>>)'
          PROVE  Pending(n, <<q, l>>)
      <4>1. n # m /\ <<q, l>> \in took
        BY <2>1, <2>5, <3>2, <3>5 DEF Pending, IsReservedBy
      <4>2. table[n].state = "reserved" /\ table[n].audit = <<q, l>>
        BY <2>4, <3>2, <3>5, <4>1 DEF Aged, Pending, IsReservedBy
      <4> QED BY <4>1, <4>2 DEF Pending, IsReservedBy
    <3> QED BY <2>1, <2>3, <3>3, <3>4, <3>5, OpenStep
  <2> QED BY <1>2, <2>2, <2>4, <2>6, <2>7 DEF ReserveTestSlot
<1> QED BY <1>1, <1>2

\* The slot of a claim is confirmed, given back or marked as its verdict says.
LEMMA OpenSettle ==
  ASSUME IInv, OpenMoves, setup' = setup, NEW p \in Passes, SettleSlot(p) \/ CatchSlot(p)
  PROVE  OpenMoves'
<1>f. job \in [Passes -> Jobs] /\ job[p] \in Jobs /\ table \in Tables /\ faults \in Nat
  BY SetupFacts DEF IInv, TypeOK, Tables, SlotRows, Slots
<1>1. /\ job[p].pc \in {"slot", "catch_slot"} /\ job[p].pc \in Working
      /\ UNCHANGED <<run, took, verdict>>
  BY DEF SettleSlot, CatchSlot, At, crm, Working, Settling, Catching
<1>2. PICK a \in AuditIds : a = AuditId(p)
  BY <1>1, WorkingFacts
<1>3. PICK n : n = job[p].slot
  OBVIOUS
<1>4. Knows(p) /\ Owns(p) /\ n \in Slots /\ job[p].safe \in BOOLEAN
  BY <1>1, <1>3, WorkingFacts DEF Owns, Jobs
<1>5. /\ \A u \in {Confirm(table, n), MarkUncertain(table, n), Release(table, n)} :
           \A k \in Slots \ {n} : u[k] = table[k]
      /\ Confirm(table, n)[n].state = "confirmed" /\ Confirm(table, n)[n].audit = table[n].audit
      /\ MarkUncertain(table, n)[n].state = "uncertain" /\ Release(table, n)[n].state = "free"
  BY <1>f, <1>4, SettledFact
<1>6. CASE CatchSlot(p)
  <2>1. PICK safe \in BOOLEAN :
          /\ AfterCatchSlot(p, safe)
          /\ table' = table \/ table' = Release(table, n) \/ table' = MarkUncertain(table, n)
          /\ faults' = faults \/ Fault
    BY <1>3, <1>4, <1>6 DEF CatchSlot
  <2>2. Others(p) /\ job'[p].pc # "ready" /\ job'[p].old = job[p].old
    BY <1>f, <2>1, AfterCatchFact DEF SameClaim
  <2>3. \A k \in Slots : table'[k].state \in {"reserved", "confirmed"} =>
          table'[k].state = table[k].state /\ table'[k].audit = table[k].audit
    BY <1>5, <2>1
  <2>4. job[p].pc = "catch_slot" /\ (faults' = 0 => faults = 0)
    BY <1>f, <1>6, <2>1 DEF CatchSlot, At, Fault
  <2> QED BY <1>1, <2>2, <2>3, <2>4, OpenStands
<1>7. CASE SettleSlot(p)
  <2>1. job[p].pc = "slot" /\ SlotIsMine(p) /\ faults' = faults
    BY <1>7 DEF SettleSlot, At
  <2>2. table[n].state = "reserved" /\ table[n].audit = a
    BY <1>2, <1>3, <2>1 DEF SlotIsMine, IsReservedBy
  <2>3. PICK out \in DOMAIN Settles : out = job[p].out
    BY <1>4, <2>1 DEF Knows, Settling
  <2>4. /\ Settles[out].slot \in {"confirm", "mark", "release"}
        /\ Settles[out].slot = "confirm" <=> out = "confirmed"
        /\ AfterSlot(out) \in {"watch", "audit"}
    BY SettlesFacts
  <2>5. \/ table' = Confirm(table, n) /\ out = "confirmed"
        \/ table' = MarkUncertain(table, n)
        \/ table' = Release(table, n)
    BY <1>3, <1>7, <2>3, <2>4 DEF SettleSlot, Settled
  <2>6. out = "confirmed" => verdict[a] = "confirmed"
    BY <1>2, <1>4, <2>1, <2>3 DEF Knows, Settling
  <2>7. Others(p) /\ job'[p].pc # "ready" /\ job'[p].old = job[p].old
    <3>1. PICK b \in BOOLEAN : b = (out = "confirmed")
      OBVIOUS
    <3>2. job' = [job EXCEPT ![p].pc = AfterSlot(out), ![p].slotDone = b] /\ AfterSlot(out) \in Steps
      BY <1>7, <2>3, <2>4, <3>1 DEF SettleSlot, Steps, ThrowSteps
    <3> QED BY <1>f, <2>4, <3>2, FlagFact DEF SameClaim
  <2>8. ASSUME NEW k \in Slots, table'[k].state = "confirmed", Mode = "testing"
        PROVE  verdict'[table'[k].audit] = "confirmed"
    <3>1. CASE k # n
      BY <1>1, <1>5, <2>5, <2>8, <3>1 DEF OpenMoves, ConfirmedSlotsAreTrue
    <3>2. CASE k = n
      BY <1>1, <1>5, <2>2, <2>5, <2>6, <2>8, <3>2
    <3> QED BY <3>1, <3>2
  <2>9. ASSUME NEW b, NEW k \in Slots, Pending(k, b)'
        PROVE  Pending(k, b) /\ k # n
    BY <1>1, <1>5, <2>5, <2>9 DEF Pending, IsReservedBy
  <2>10. \A k \in Slots : ~Pending(k, a)'
    <3>1. ASSUME NEW k \in Slots, Pending(k, a)' PROVE FALSE
      <4>1. Pending(k, a) /\ k # n
        BY <2>9, <3>1
      <4> QED BY <1>1, <1>2, <1>3, <1>4, <4>1 DEF Pending, IsReservedBy, Owns, Has, SpentStates
    <3> QED BY <3>1
  <2> QED BY <1>1, <1>2, <2>1, <2>7, <2>8, <2>9, <2>10, OpenStep
<1> QED BY <1>6, <1>7

\* Who loses the run lease is old to the pass that takes it, as is whoever ended
\* beside an open move, and whoever was old to anybody.
LEMMA OpenAcquire ==
  ASSUME IInv, OpenMoves, setup' = setup, NEW p \in Passes, Acquire(p)
  PROVE  OpenMoves'
<1> SUFFICES ASSUME Mode = "testing"
             PROVE  ConfirmedSlotsAreTrue' /\ PendingIsCurrent' /\ LostIsOld'
  BY DEF OpenMoves, Mode
<1>1. /\ job[p].pc = "ready" /\ run' = [holder |-> p, lapsed |-> FALSE]
      /\ UNCHANGED <<table, took, verdict, faults>> /\ Slots' = Slots
      /\ run.holder = NoPass \/ run.lapsed
  BY DEF Acquire, At, crm, Slots
<1>2. PICK old \in Old(p) : job' = [job EXCEPT ![p].pc = "starting", ![p].old = old]
  BY DEF Acquire
<1>3. job \in [Passes -> Jobs] /\ Once(p) /\ ConfirmedSlotsAreTrue /\ PendingIsCurrent /\ LostIsOld
  BY DEF IInv, TypeOK, OpenMoves
<1>4. /\ \A q \in Passes : job[q].old \subseteq old
      /\ \A q \in Passes \ {p} : job[q].pc \notin {"ready", "done"} => q \in old
      /\ \A q \in Passes \ {p} : job[q].pc # "ready" /\ q = run.holder /\ run.lapsed => q \in old
  BY <1>2 DEF Old, At
<1>5. \A q \in Passes \ {p} : job'[q] = job[q]
  BY <1>2, <1>3
<1>6. job'[p].old = old
  BY <1>2, <1>3 DEF Jobs
<1>7. \A q \in Passes, l \in Leads, n \in Slots : Pending(n, <<q, l>>)' <=> Pending(n, <<q, l>>)
  BY <1>1 DEF Pending, IsReservedBy
<1>8. ConfirmedSlotsAreTrue'
  BY <1>1, <1>3 DEF ConfirmedSlotsAreTrue
<1>9. PendingIsCurrent'
  <2>1. \A l \in Leads, n \in Slots : ~Pending(n, <<p, l>>)
    BY <1>1, <1>3 DEF Once, Fresh, Pending
  <2> QED BY <1>1, <1>3, <1>5, <1>7, <2>1 DEF PendingIsCurrent, At, Lead
<1>10. LostIsOld'
  <2> SUFFICES ASSUME NEW q \in Passes, run'.holder # q, job'[q].pc # "ready",
                      \/ job'[q].pc # "done"
                      \/ faults' = 0 /\ \E l \in Leads, n \in Slots : Pending(n, <<q, l>>)'
               PROVE  q \in old
    BY <1>1, <1>6 DEF LostIsOld, At
  <2>1. q # p /\ job[q] = job'[q]
    BY <1>1, <1>5
  <2>2. CASE run.holder = q
    BY <1>1, <1>4, <2>1, <2>2, PassAssumption
  <2>3. CASE run.holder # q
    <3>1. \E r \in Passes : q \in job[r].old
      BY <1>1, <1>3, <1>7, <2>1, <2>3 DEF LostIsOld, At
    <3> QED BY <1>4, <3>1
  <2> QED BY <2>2, <2>3
<1> QED BY <1>8, <1>9, <1>10

\* Nothing around the passes opens a move or loses one.
LEMMA OpenSurroundings ==
  ASSUME OpenMoves, UNCHANGED <<setup, table, job, took, verdict, faults>>, run'.holder = run.holder
  PROVE  OpenMoves'
<1>1. \A q \in Passes, l \in Leads, n \in Slots : Pending(n, <<q, l>>)' <=> Pending(n, <<q, l>>)
  BY DEF Pending, IsReservedBy
<1>2. Slots' = Slots /\ Mode' = Mode
  BY DEF Slots, Mode
<1>3. ConfirmedSlotsAreTrue => ConfirmedSlotsAreTrue'
  BY <1>2 DEF ConfirmedSlotsAreTrue
<1>4. PendingIsCurrent => PendingIsCurrent'
  BY <1>1, <1>2 DEF PendingIsCurrent, At, Lead
<1>5. LostIsOld => LostIsOld'
  BY <1>1, <1>2 DEF LostIsOld, At
<1> QED BY <1>2, <1>3, <1>4, <1>5 DEF OpenMoves

LEMMA OpenInit == Init => OpenMoves
<1> SUFFICES ASSUME Init PROVE OpenMoves
  OBVIOUS
<1>1. /\ \A n \in Slots : table[n].state = "absent"
      /\ \A p \in Passes : job[p].pc = "ready"
  BY DEF Init, AbsentSlot, NoJob, Slots
<1> QED BY <1>1 DEF OpenMoves, ConfirmedSlotsAreTrue, PendingIsCurrent, LostIsOld, Pending,
                    IsReservedBy, At

LEMMA NextKeepsOpen == IInv /\ OpenMoves /\ [Next]_vars => OpenMoves'
<1> SUFFICES ASSUME IInv, OpenMoves, [Next]_vars PROVE OpenMoves'
  OBVIOUS
<1>1. CASE UNCHANGED vars
  BY <1>1, OpenSurroundings DEF vars, ledger, crm
<1>2. ASSUME setup' = setup, NEW p \in Passes, PassStep(p) PROVE OpenMoves'
  <2>1. CASE Acquire(p)
    BY <1>2, <2>1, OpenAcquire
  <2>2. CASE ListDue(p)
    BY <1>2, <2>2, OpenList
  <2>3. CASE ReserveTestSlot(p) \/ ReserveDailySlot(p)
    BY <1>2, <2>3, OpenReserve
  <2>4. CASE Refresh(p) \/ LastFence(p) \/ ReadBack(p) \/ MoveFault(p) \/ Dispatch(p)
    BY <1>2, <2>4, OpenMoving
  <2>5. CASE SettleSlot(p) \/ CatchSlot(p)
    BY <1>2, <2>5, OpenSettle
  <2> QED BY <1>2, <2>1, <2>2, <2>3, <2>4, <2>5, OpenQuiet DEF PassStep
<1>3. CASE /\ setup' = setup
           /\ \/ \E l \in setup.leads : DeliverWebhook(l)
              \/ ClearActiveWatches
              \/ RunLeaseLapses
  <2>1. UNCHANGED <<table, job, took, verdict, faults>>
    BY <1>3 DEF DeliverWebhook, ClearActiveWatches, RunLeaseLapses, crm
  <2>2. run'.holder = run.holder
    <3>1. run \in [holder : Passes \cup {NoPass}, lapsed : BOOLEAN]
      BY DEF IInv, TypeOK
    <3> QED BY <1>3, <3>1 DEF DeliverWebhook, ClearActiveWatches, RunLeaseLapses
  <2> QED BY <1>3, <2>1, <2>2, OpenSurroundings
<1> QED BY <1>1, <1>2, <1>3 DEF Next

LEMMA OpenInvariance == Spec => [](IInv /\ OpenMoves)
<1>1. Init => IInv /\ OpenMoves
  BY InitHolds, OpenInit
<1>2. IInv /\ OpenMoves /\ [Next]_vars => (IInv /\ OpenMoves)'
  BY NextKeeps, NextKeepsOpen
<1> QED BY <1>1, <1>2, PTL DEF Spec

-----------------------------------------------------------------------------
(* The theorems.                                                           *)

\* The invariant holds in every state the program reaches.
THEOREM Invariance == Spec => []IInv
BY InitHolds, NextKeeps, PTL DEF Spec

\* Every variable keeps to its type: whatever fails, expires or overtakes, a row
\* of the watches, of the slots and of the audits is one the code knows.
THEOREM TypeCorrect == Spec => []TypeOK
<1>1. IInv => TypeOK
  BY DEF IInv
<1> QED BY <1>1, Invariance, PTL

\* Of all replicas at most one is sending a PATCH (the last fence of
\* moveLeadToTarget compares the run lease): every sender holds the run lease.
THEOREM OnePatchAtATime == Spec => []OnePatchInFlight
<1>1. IInv => OnePatchInFlight
  BY DEF IInv, SendersHoldRun, OnePatchInFlight, HoldsRun
<1> QED BY <1>1, Invariance, PTL

\* reserveTestSlot stops for an uncertain slot, and what was reserved at that time
\* cannot become uncertain and moved before the PATCH of the pass that reserved:
\* while nothing failed, every move that happened was confirmed or denied by then.
THEOREM TestingStopsForUncertain == Spec => []UncertainStopsTesting
<1>1. IInv /\ OpenMoves => UncertainStopsTesting
  <2> SUFFICES ASSUME IInv, OpenMoves, Mode = "testing", NEW p \in Passes, At(p, "dispatching"),
                      NEW a \in took
               PROVE  /\ faults = 0 => verdict[a] \in {"confirmed", "not_moved"}
                      /\ \A n \in DOMAIN table : table[n].audit = a => table[n].state # "uncertain"
    BY DEF UncertainStopsTesting
  <2>1. a \in AuditIds /\ DOMAIN table = Slots
    BY DEF IInv, TypeOK, Slots
  <2>2. PICK q \in Passes, l \in Leads : a = <<q, l>>
    BY <2>1 DEF AuditIds
  <2>3. HoldsRun(p) /\ Overtaken(p) /\ NothingOpen(p)
    BY DEF IInv, SendersHoldRun, Alone, At, PastTesting
  <2>4. \A n \in Slots : table[n].audit = a => table[n].state # "uncertain"
    BY <2>2, <2>3 DEF NothingOpen
  <2>5. ASSUME faults = 0, verdict[a] \notin {"confirmed", "not_moved"} PROVE FALSE
    <3>1. PICK n \in Slots : Has(table, n, a)
      <4>1. Truth(a)
        BY <2>1 DEF IInv
      <4> QED BY <2>5, <4>1 DEF Truth
    <3>2. table[n].state = "reserved" /\ table[n].audit = a
      BY <2>4, <2>5, <3>1 DEF Has, SpentStates, OpenMoves, ConfirmedSlotsAreTrue
    <3>3. Pending(n, <<q, l>>)
      BY <2>2, <3>2 DEF Pending, IsReservedBy
    <3>4. q # p
      BY <2>5, <3>3 DEF OpenMoves, PendingIsCurrent, At
    <3>5. ~At(q, "ready")
      BY <2>2, <3>1 DEF IInv, Once, Fresh, At
    <3>6. run.holder # q
      BY <2>3, <3>4 DEF HoldsRun
    <3>7. \E r \in Passes : q \in job[r].old
      BY <2>5, <3>3, <3>5, <3>6 DEF OpenMoves, LostIsOld
    <3>8. q \in job[p].old
      BY <2>3, <3>7 DEF Overtaken
    <3> QED BY <2>2, <2>3, <3>2, <3>8 DEF NothingOpen
  <2> QED BY <2>1, <2>4, <2>5
<1> QED BY <1>1, OpenInvariance, PTL

\* The slot of a claim is the claim's while the verdict says it moved its lead.
LEMMA HeldByTruth == IInv => ConfirmedKeepsSlot /\ UncertainKeepsSlotUnfailing
<1> SUFFICES ASSUME IInv, Mode # "uncapped", NEW a \in took,
                    verdict[a] = "confirmed" \/ (faults = 0 /\ verdict[a] # "not_moved")
             PROVE  HoldsSlot(a)
  BY DEF ConfirmedKeepsSlot, UncertainKeepsSlotUnfailing, UncertainKeepsSlot
<1>1. a \in AuditIds /\ DOMAIN table = Slots
  BY DEF IInv, TypeOK, Slots
<1>2. \E n \in Slots : Has(table, n, a)
  BY <1>1 DEF IInv, Truth
<1> QED BY <1>1, <1>2 DEF HoldsSlot, Has, Spent

\* The slot of a confirmed move stays spent, whatever statement of the settlement
\* or of the catch block of processClaim fails.
THEOREM ConfirmedMovesAreSpent == Spec => []ConfirmedKeepsSlot
<1>1. IInv => ConfirmedKeepsSlot
  BY HeldByTruth
<1> QED BY <1>1, Invariance, PTL

\* While nothing fails, so does the slot of every move that may have happened.
THEOREM PossibleMovesAreSpent == Spec => []UncertainKeepsSlotUnfailing
<1>1. IInv => UncertainKeepsSlotUnfailing
  BY HeldByTruth
<1> QED BY <1>1, Invariance, PTL

\* The watches that read moved are those of confirmed moves with confirmed slots,
\* though finishWatchClaim and the slot are written by different statements.
THEOREM MovedWatchesAreReal == Spec => []MovedIsReal
<1>1. IInv => MovedIsReal
  BY DEF IInv
<1> QED BY <1>1, Invariance, PTL

\* completeMoveAudit never denies a confirmed move and never confirms another.
THEOREM AuditsAreTrue == Spec => []AuditsTellTruth
<1>1. IInv => AuditsTellTruth
  BY DEF IInv, Truth, AuditsTellTruth
<1> QED BY <1>1, Invariance, PTL

\* The moves that count against the limit.
Counted == {a \in took : verdict[a] = "confirmed" \/ (faults = 0 /\ verdict[a] # "not_moved")}

\* The limit is a maximum of confirmed moves, and while nothing fails of all
\* moves that may have happened.
WithinLimit ==
  Mode # "uncapped" => IsFiniteSet(Counted) /\ Cardinality(Counted) <= setup.limit

\* The passes of all replicas together confirm no more moves than the table has
\* slots (reserveDailyMovementSlot, reserveTestSlot): each counted move has one.
THEOREM LimitIsKept == Spec => []WithinLimit
<1>1. ASSUME IInv, Mode # "uncapped"
      PROVE  IsFiniteSet(Counted) /\ Cardinality(Counted) <= setup.limit
  <2>1. setup.limit \in Nat /\ DOMAIN table = Slots
    BY <1>1, SetupFacts DEF IInv, TypeOK, Slots
  <2>2. IsFiniteSet(Slots) /\ Cardinality(Slots) = setup.limit
    <3>1. /\ IsFiniteSet(1..setup.limit)
          /\ Cardinality(1..setup.limit) = IF 1 > setup.limit THEN 0 ELSE setup.limit - 1 + 1
      BY <2>1, FS_Interval
    <3> QED BY <2>1, <3>1 DEF Slots
  <2> DEFINE Audited == {table[n].audit : n \in Slots}
             auditOf == [n \in Slots |-> table[n].audit]
  <2>3. auditOf \in Surjection(Slots, Audited)
    BY DEF Surjection
  <2>4. Counted \in SUBSET Audited
    <3>1. ASSUME NEW a \in Counted PROVE HoldsSlot(a)
      BY <1>1, <3>1, HeldByTruth DEF Counted, ConfirmedKeepsSlot, UncertainKeepsSlotUnfailing,
                                     UncertainKeepsSlot
    <3> QED BY <2>1, <3>1 DEF HoldsSlot, Spent
  <2> HIDE DEF Audited, auditOf
  <2>5. IsFiniteSet(Audited) /\ Cardinality(Audited) <= setup.limit
    BY <2>2, <2>3, FS_Surjection
  <2>6. IsFiniteSet(Counted) /\ Cardinality(Counted) <= Cardinality(Audited)
    BY <2>4, <2>5, FS_Subset
  <2>7. Cardinality(Counted) \in Nat /\ Cardinality(Audited) \in Nat
    BY <2>5, <2>6, FS_CardinalityType
  <2> QED BY <2>1, <2>5, <2>6, <2>7
<1>2. IInv => WithinLimit
  BY <1>1 DEF WithinLimit
<1> QED BY <1>2, Invariance, PTL

\* A pass writes its own locals only.
LEMMA OwnLocals ==
  ASSUME DOMAIN job = Passes, NEW p \in Passes, PassStep(p), NEW q \in Passes \ {p}
  PROVE  job'[q] = job[q]
<1>e. ASSUME NEW out, End(p, out) PROVE job'[q] = job[q]
  BY <1>e DEF End
<1>g. ASSUME NEW s, Goto(p, s) PROVE job'[q] = job[q]
  BY <1>g DEF Goto
<1>t. Thrown(p) => job'[q] = job[q]
  BY DEF Thrown
<1>1. CASE Acquire(p) \/ ReleaseExpired(p) \/ ListDue(p) \/ ClaimNext(p) \/ EndPass(p)
  BY <1>1, <1>g DEF Acquire, ReleaseExpired, ListDue, ClaimNext, EndPass
<1>2. CASE ReadFresh(p) \/ ReadHistory(p) \/ RecordHistory(p) \/ CheckClaim(p)
  BY <1>2, <1>g, <1>e DEF ReadFresh, ReadHistory, RecordHistory, CheckClaim
<1>3. CASE ReserveTestSlot(p) \/ BeginMoveMutation(p)
  BY <1>3, <1>g, <1>e DEF ReserveTestSlot, BeginMoveMutation
<1>4. CASE Refresh(p) \/ ReserveDailySlot(p) \/ LastFence(p) \/ Dispatch(p)
  BY <1>4, <1>g, <1>e DEF Refresh, ReserveDailySlot, LastFence, Dispatch, Return
<1>5. CASE ReadBack(p) \/ MoveFault(p)
  <2>1. PICK out, v : Return(p, out, v)
    BY <1>5 DEF ReadBack, MoveFault, Stages
  <2> QED BY <1>e, <2>1 DEF Return
<1>6. CASE SettleSlot(p) \/ SettleWatch(p) \/ SettleAudit(p) \/ CatchAudit(p)
  BY <1>6 DEF SettleSlot, SettleWatch, SettleAudit, CatchAudit
<1>7. CASE CatchSlot(p) \/ CatchWatch(p)
  BY <1>7, <1>g DEF CatchSlot, CatchWatch, AfterCatchSlot
<1>8. CASE NextLead(p) \/ StepThrows(p) \/ MatchThrows(p) \/ PassThrows(p) \/ Crash(p)
  BY <1>8, <1>g, <1>t DEF NextLead, StepThrows, MatchThrows, PassThrows, Crash
<1> QED BY <1>1, <1>2, <1>3, <1>4, <1>5, <1>6, <1>7, <1>8 DEF PassStep

\* A pass gives the slot of a claim back before it queues the lead again, in the
\* settlement and in the catch block, whatever failed before.
THEOREM RequeuedGivesSlotBack == Spec => RequeuedWithoutSlot
<1> DEFINE Requeues(p) == /\ job[p].pc \in {"watch", "catch_watch"}
                          /\ job'[p].pc # job[p].pc
                          /\ watch[Lead(p)].state \in ClaimStates
                          /\ watch'[Lead(p)].state = "watching"
           A == \A p \in Passes : Requeues(p) => ~HoldsSlot(AuditId(p))
<1>1. ASSUME IInv, Next, NEW p \in Passes, Requeues(p) PROVE ~HoldsSlot(AuditId(p))
  <2>1. job[p].pc \in Working /\ watch' # watch
    BY <1>1 DEF Working, Settling, Catching, ClaimStates
  <2>2. Ends(p) /\ Knows(p) /\ Lead(p) \in setup.leads /\ DOMAIN table = Slots
    BY <1>1, <2>1, WorkingFacts DEF IInv, TypeOK, Slots
  <2>3. SettleWatch(p) \/ CatchWatch(p)
    <3>1. PassStep(p)
      <4>1. job' # job
        BY <1>1
      <4>2. PICK q \in Passes : PassStep(q)
        BY <1>1, <4>1 DEF Next, DeliverWebhook, ClearActiveWatches, RunLeaseLapses
      <4>3. DOMAIN job = Passes
        BY <1>1 DEF IInv, TypeOK
      <4> QED BY <1>1, <4>2, <4>3, OwnLocals
    <3>2. job[p].pc \in {"watch", "catch_watch"}
      BY <1>1
    <3>3. ~(StepThrows(p) \/ MatchThrows(p) \/ Crash(p))
      BY <2>1 DEF StepThrows, MatchThrows, Crash, ledger
    <3> HIDE DEF Requeues
    <3> QED
      BY <3>1, <3>2, <3>3
      DEF PassStep, At, Acquire, ReleaseExpired, ListDue, ClaimNext, EndPass, ReadFresh, ReadHistory,
          RecordHistory, CheckClaim, ReserveTestSlot, BeginMoveMutation, Refresh, ReserveDailySlot,
          LastFence, Dispatch, ReadBack, MoveFault, SettleSlot, SettleAudit, CatchSlot, CatchAudit,
          NextLead, PassThrows
  <2>4. watch \in [setup.leads -> WatchRows]
    BY <1>1 DEF IInv, TypeOK, WatchRows
  <2>5. \A s : Finish(watch[Lead(p)], s).state = s
    BY <2>2, <2>4 DEF Finish, WatchRows
  <2>6. CASE SettleWatch(p)
    <3>1. job[p].pc = "watch" /\ job[p].out \in DOMAIN Settles
      BY <2>2, <2>6, StepNames DEF SettleWatch, At, Knows
    <3>2. PICK out \in DOMAIN Settles : out = job[p].out
      BY <3>1
    <3>3. watch'[Lead(p)].state = Settles[out].watch
      BY <2>2, <2>4, <2>5, <2>6, <3>2 DEF SettleWatch
    <3>4. out = "no_capacity"
      BY <1>1, <3>3, SettlesFacts
    <3>5. \A k \in Slots : ~Has(table, k, AuditId(p))
      BY <2>2, <3>1, <3>2, <3>4 DEF Ends
    <3> QED BY <2>2, <3>5 DEF HoldsSlot, Spent, Has
  <2>7. CASE CatchWatch(p)
    <3>1. job[p].pc = "catch_watch" /\ job[p].safe
      BY <1>1, <2>1, <2>2, <2>4, <2>5, <2>7 DEF CatchWatch, At
    <3>2. \A k \in Slots : ~Has(table, k, AuditId(p))
      BY <2>2, <3>1 DEF Ends
    <3> QED BY <2>2, <3>2 DEF HoldsSlot, Spent, Has
  <2> QED BY <2>3, <2>6, <2>7
<1>2. IInv /\ [Next]_vars => [A]_vars
  BY <1>1
<1>3. IInv /\ [Next]_vars => [\A p \in Passes : Requeues(p) => ~HoldsSlot(AuditId(p))]_vars
  BY <1>2
<1>4. Spec => [][A]_vars
  <2> HIDE DEF A
  <2> QED BY <1>2, Invariance, PTL DEF Spec
<1> QED BY <1>4 DEF RequeuedWithoutSlot

=============================================================================
