------------------------ MODULE WorkerRunLease_proofs ------------------------
(***************************************************************************)
(* The run lease elects one pass at a time and keeps the cooldown, for any *)
(* number of passes, any durations and any delay between the clock and the *)
(* row.                                                                    *)
(***************************************************************************)
EXTENDS WorkerRunLease, TLAPS

\* A pass that leads is the one the row names, until the same moment.
LeaderIsNamed == \A p \in Passes : Leads(p) => row # NoRow /\ row.token = p /\ row.exp = until[p]

\* The row keeps the cooldown of the latest activity.
RowIsCool == row # NoRow => row.next >= active + Cooldown

\* What a pass read and found before it writes: a row, judged at a time that is past.
Judged ==
  \A p \in Passes :
    /\ pc[p] \in {"acquiring", "renewing", "releasing"} => at[p] <= now /\ seen[p] \in Rows
    /\ pc[p] = "acquiring" => Available(seen[p], at[p])
    /\ pc[p] \in {"renewing", "releasing"} => seen[p].token = p

IInv == TypeOK /\ LeaderIsNamed /\ RowIsCool /\ Judged

LEMMA LaterFact == \A s, t \in Nat : Later(s, t) \in Nat /\ s <= Later(s, t) /\ t <= Later(s, t)
BY DEF Later

\* The rows an operation writes.
LEMMA FreshRow ==
  ASSUME NEW p \in Passes, NEW t \in Nat
  PROVE  /\ Fresh(p, t) \in Rows /\ Fresh(p, t) # NoRow /\ t + Lease \in Nat
         /\ Fresh(p, t).token = p /\ Fresh(p, t).exp = t + Lease
         /\ Fresh(p, t).next = t + Cooldown
<1>1. Fresh(p, t) \in Rows /\ t + Lease \in Nat
  BY DurationAssumption DEF Fresh, Rows
<1> QED BY <1>1, RowAssumption DEF Fresh, Rows

LEMMA RenewedRow ==
  ASSUME NEW p \in Passes, NEW t \in Nat, NEW r \in Rows
  PROVE  /\ Renewed(r, p, t) \in Rows /\ Renewed(r, p, t) # NoRow /\ t + Lease \in Nat
         /\ Renewed(r, p, t).token = p /\ Renewed(r, p, t).exp = t + Lease
         /\ Renewed(r, p, t).next >= r.next /\ Renewed(r, p, t).next >= t + Cooldown
<1>1. r.next \in Nat /\ t + Lease \in Nat /\ t + Cooldown \in Nat
  BY DurationAssumption DEF Rows
<1>2. /\ Later(r.next, t + Cooldown) \in Nat
      /\ Later(r.next, t + Cooldown) >= r.next /\ Later(r.next, t + Cooldown) >= t + Cooldown
  BY <1>1, LaterFact
<1>3. Renewed(r, p, t) \in Rows
  BY <1>1, <1>2 DEF Renewed, Rows
<1> QED BY <1>1, <1>2, <1>3, RowAssumption DEF Renewed, Rows

LEMMA ReadingFact == now \in Nat => \A t \in ClockReadings : t \in Nat /\ t <= now
BY BoundAssumption DEF ClockReadings

\* A compare-and-set that succeeds finds no other leader: of a row that was available
\* nobody is the leader, and of a row that names a pass only that pass.
LEMMA NoLeaderBut ==
  ASSUME IInv, NEW p \in Passes, NEW q \in Passes, q # p, Leads(q),
         row # NoRow
  PROVE  /\ \A t \in Nat : t <= now => ~Available(row, t)
         /\ row.token # p
<1>1. row \in Rows /\ row.token = q /\ row.exp = until[q] /\ until[q] > now
      /\ now \in Nat /\ until[q] \in Nat
  BY DEF IInv, TypeOK, LeaderIsNamed, Leads
<1> QED BY <1>1, TokenAssumption DEF Available, Rows

LEMMA InitHolds == Init => IInv
BY TokenAssumption DEF Init, IInv, TypeOK, LeaderIsNamed, RowIsCool, Judged, Leads, Stages

\* Every step keeps the invariant: the row changes hands only when nobody leads.
LEMMA StepHolds == IInv /\ [Next]_vars => IInv'
<1> SUFFICES ASSUME IInv, [Next]_vars PROVE IInv'
  OBVIOUS
<1> USE DurationAssumption DEF IInv
<1>a. now \in Nat /\ active \in Nat
  BY DEF TypeOK
<1>1. ASSUME NEW p \in Passes, StartAcquire(p) PROVE IInv'
  <2>1. PICK t \in ClockReadings : at' = [at EXCEPT ![p] = t]
        /\ \/ /\ row = NoRow /\ row' = Fresh(p, t)
              /\ pc' = [pc EXCEPT ![p] = "running"]
              /\ until' = [until EXCEPT ![p] = t + Lease]
              /\ active' = t /\ UNCHANGED seen
           \/ /\ row # NoRow /\ Available(row, t)
              /\ seen' = [seen EXCEPT ![p] = row]
              /\ pc' = [pc EXCEPT ![p] = "acquiring"]
              /\ UNCHANGED <<row, until, active>>
    BY <1>1 DEF StartAcquire
  <2>2. t \in Nat /\ t <= now /\ now' = now
    BY <1>1, <1>a, <2>1, ReadingFact DEF StartAcquire
  <2>3. CASE row = NoRow
    <3>1. \A q \in Passes : ~Leads(q)
      BY <2>3, RowAssumption DEF LeaderIsNamed
    <3>2. TypeOK'
      BY <2>1, <2>2, <2>3, FreshRow DEF TypeOK, Stages
    <3>3. LeaderIsNamed' /\ RowIsCool'
      BY <2>1, <2>2, <2>3, <3>1, FreshRow DEF TypeOK, LeaderIsNamed, RowIsCool, Leads
    <3>4. Judged'
      BY <2>1, <2>2, <2>3 DEF TypeOK, Judged
    <3> QED BY <3>2, <3>3, <3>4
  <2>4. CASE row # NoRow
    <3>1. TypeOK'
      BY <2>1, <2>2, <2>4 DEF TypeOK, Stages
    <3>2. LeaderIsNamed' /\ RowIsCool' /\ Judged'
      BY <2>1, <2>2, <2>4 DEF TypeOK, LeaderIsNamed, RowIsCool, Judged, Leads
    <3> QED BY <3>1, <3>2
  <2> QED BY <2>3, <2>4
<1>2. ASSUME NEW p \in Passes, FinishAcquire(p) PROVE IInv'
  <2>1. pc[p] = "acquiring" /\ UNCHANGED <<now, seen, at>>
        /\ at[p] \in Nat /\ at[p] <= now /\ seen[p] \in Rows /\ Available(seen[p], at[p])
    BY <1>2 DEF FinishAcquire, TypeOK, Judged
  <2>2. CASE row = seen[p]
    <3>1. /\ row' = Fresh(p, at[p]) /\ pc' = [pc EXCEPT ![p] = "running"]
          /\ until' = [until EXCEPT ![p] = at[p] + Lease] /\ active' = Later(active, at[p])
      BY <1>2, <2>2 DEF FinishAcquire, RowUnchanged
    <3>2. TypeOK'
      BY <1>a, <2>1, <3>1, FreshRow, LaterFact DEF TypeOK, Stages
    <3>3. row # NoRow
      BY <2>1, <2>2, RowAssumption DEF Rows
    <3>4. \A q \in Passes \ {p} : ~Leads(q)
      BY <2>1, <2>2, <3>3, NoLeaderBut
    <3>5. LeaderIsNamed'
      BY <2>1, <3>1, <3>4, FreshRow DEF LeaderIsNamed, Leads, TypeOK
    <3>6. RowIsCool'
      <4>1. row.next <= at[p] /\ row.next \in Nat
        BY <2>1, <2>2 DEF Available, Rows
      <4>2. active <= at[p]
        BY <1>a, <2>1, <3>3, <4>1 DEF RowIsCool
      <4> QED BY <1>a, <2>1, <3>1, <4>2, FreshRow DEF RowIsCool, Later
    <3>7. Judged'
      BY <2>1, <3>1 DEF Judged, TypeOK
    <3> QED BY <3>2, <3>5, <3>6, <3>7
  <2>3. CASE row # seen[p]
    <3>1. pc' = [pc EXCEPT ![p] = "idle"] /\ UNCHANGED <<row, until, active>>
      BY <1>2, <2>3 DEF FinishAcquire, RowUnchanged
    <3> QED BY <2>1, <3>1 DEF TypeOK, Stages, LeaderIsNamed, RowIsCool, Judged, Leads
  <2> QED BY <2>2, <2>3
<1>3. ASSUME NEW p \in Passes, StartRenew(p) PROVE IInv'
  <2>1. PICK t \in ClockReadings : Owned(row, p, t) /\ at' = [at EXCEPT ![p] = t]
    BY <1>3 DEF StartRenew
  <2>2. t \in Nat /\ t <= now
    BY <1>a, ReadingFact
  <2>3. /\ row \in Rows /\ row.token = p
        /\ seen' = [seen EXCEPT ![p] = row] /\ pc' = [pc EXCEPT ![p] = "renewing"]
        /\ pc[p] = "running" /\ UNCHANGED <<now, row, until, active>>
    BY <1>3, <2>1 DEF StartRenew, Owned, TypeOK
  <2> QED BY <2>1, <2>2, <2>3 DEF TypeOK, Stages, LeaderIsNamed, RowIsCool, Judged, Leads
<1>4. ASSUME NEW p \in Passes, FinishRenew(p) PROVE IInv'
  <2>1. /\ pc[p] = "renewing" /\ pc' = [pc EXCEPT ![p] = "running"]
        /\ UNCHANGED <<now, seen, at>>
        /\ at[p] \in Nat /\ at[p] <= now /\ seen[p] \in Rows /\ seen[p].token = p
    BY <1>4 DEF FinishRenew, TypeOK, Judged
  <2>2. CASE row = seen[p]
    <3>1. /\ row' = Renewed(row, p, at[p])
          /\ until' = [until EXCEPT ![p] = at[p] + Lease] /\ active' = Later(active, at[p])
      BY <1>4, <2>2 DEF FinishRenew, RowUnchanged
    <3>2. row \in Rows /\ row.token = p /\ row # NoRow
      BY <2>1, <2>2, RowAssumption DEF Rows
    <3>3. TypeOK'
      BY <1>a, <2>1, <3>1, <3>2, RenewedRow, LaterFact DEF TypeOK, Stages
    <3>4. \A q \in Passes \ {p} : ~Leads(q)
      BY <3>2, NoLeaderBut
    <3>5. LeaderIsNamed'
      BY <2>1, <3>1, <3>2, <3>4, RenewedRow DEF LeaderIsNamed, Leads, TypeOK
    <3>6. RowIsCool'
      <4>1. active' = active \/ active' = at[p]
        BY <3>1 DEF Later
      <4>2. row'.next \in Nat /\ row'.next >= row.next /\ row'.next >= at[p] + Cooldown
        BY <2>1, <3>1, <3>2, RenewedRow DEF Rows
      <4>3. row.next \in Nat /\ row.next >= active + Cooldown
        BY <3>2 DEF RowIsCool, Rows
      <4> QED BY <1>a, <4>1, <4>2, <4>3 DEF RowIsCool
    <3>7. Judged'
      BY <2>1, <3>1 DEF Judged, TypeOK
    <3> QED BY <3>3, <3>5, <3>6, <3>7
  <2>3. CASE row # seen[p]
    <3>1. UNCHANGED <<row, until, active>>
      BY <1>4, <2>3 DEF FinishRenew, RowUnchanged
    <3> QED BY <2>1, <3>1 DEF TypeOK, Stages, LeaderIsNamed, RowIsCool, Judged, Leads
  <2> QED BY <2>2, <2>3
<1>5. ASSUME NEW p \in Passes, ClaimUnderLease(p) PROVE IInv'
  <2>1. PICK t \in ClockReadings :
          /\ Owned(row, p, t) /\ row' = Renewed(row, p, t)
          /\ until' = [until EXCEPT ![p] = t + Lease] /\ active' = Later(active, t)
    BY <1>5 DEF ClaimUnderLease
  <2>2. t \in Nat /\ t <= now
    BY <1>a, ReadingFact
  <2>3. /\ row \in Rows /\ row # NoRow /\ row.token = p
        /\ pc[p] = "running" /\ UNCHANGED <<now, pc, seen, at>>
    BY <1>5, <2>1 DEF ClaimUnderLease, Owned, TypeOK
  <2>4. TypeOK'
    BY <1>a, <2>1, <2>2, <2>3, RenewedRow, LaterFact DEF TypeOK
  <2>5. \A q \in Passes \ {p} : ~Leads(q)
    BY <2>3, NoLeaderBut
  <2>6. LeaderIsNamed'
    BY <2>1, <2>2, <2>3, <2>5, RenewedRow DEF LeaderIsNamed, Leads, TypeOK
  <2>7. RowIsCool'
    <3>1. active' = active \/ active' = t
      BY <2>1 DEF Later
    <3>2. row'.next \in Nat /\ row'.next >= row.next /\ row'.next >= t + Cooldown
      BY <2>1, <2>2, <2>3, RenewedRow DEF Rows
    <3>3. row.next \in Nat /\ row.next >= active + Cooldown
      BY <2>3 DEF RowIsCool, Rows
    <3> QED BY <1>a, <2>2, <3>1, <3>2, <3>3 DEF RowIsCool
  <2>8. Judged'
    BY <2>3 DEF Judged
  <2> QED BY <2>4, <2>6, <2>7, <2>8
<1>6. ASSUME NEW p \in Passes, StartRelease(p) PROVE IInv'
  <2>1. PICK t \in ClockReadings : at' = [at EXCEPT ![p] = t]
    BY <1>6 DEF StartRelease
  <2>2. t \in Nat /\ t <= now /\ pc[p] = "running" /\ UNCHANGED <<now, row, until, active>>
    BY <1>a, <1>6, ReadingFact DEF StartRelease
  <2>3. CASE row # NoRow /\ row.token = p
    <3>1. seen' = [seen EXCEPT ![p] = row] /\ pc' = [pc EXCEPT ![p] = "releasing"]
          /\ row \in Rows
      BY <1>6, <2>3 DEF StartRelease, TypeOK
    <3> QED BY <2>1, <2>2, <2>3, <3>1 DEF TypeOK, Stages, LeaderIsNamed, RowIsCool, Judged,
                                          Leads
  <2>4. CASE ~(row # NoRow /\ row.token = p)
    <3>1. pc' = [pc EXCEPT ![p] = "idle"] /\ UNCHANGED seen
      BY <1>6, <2>4 DEF StartRelease
    <3> QED BY <2>1, <2>2, <3>1 DEF TypeOK, Stages, LeaderIsNamed, RowIsCool, Judged, Leads
  <2> QED BY <2>3, <2>4
<1>7. ASSUME NEW p \in Passes, FinishRelease(p) PROVE IInv'
  <2>1. /\ pc[p] = "releasing" /\ pc' = [pc EXCEPT ![p] = "idle"]
        /\ UNCHANGED <<now, seen, at, until, active>>
        /\ at[p] \in Nat /\ seen[p] \in Rows /\ seen[p].token = p
    BY <1>7 DEF FinishRelease, TypeOK, Judged
  <2>2. Judged' /\ pc' \in [Passes -> Stages]
    BY <2>1 DEF Judged, TypeOK, Stages
  <2>3. CASE row = seen[p]
    <3>1. row' = [token |-> NoToken, exp |-> at[p], next |-> row.next]
      BY <1>7, <2>3 DEF FinishRelease, RowUnchanged
    <3>2. row \in Rows /\ row.token = p /\ row # NoRow
      BY <2>1, <2>3, RowAssumption DEF Rows
    <3>3. row' \in Rows /\ row'.next = row.next
      BY <2>1, <3>1, <3>2 DEF Rows
    <3>4. \A q \in Passes \ {p} : ~Leads(q)
      BY <3>2, NoLeaderBut
    <3>5. LeaderIsNamed'
      BY <2>1, <3>4 DEF LeaderIsNamed, Leads, TypeOK
    <3> QED BY <2>1, <2>2, <3>2, <3>3, <3>5 DEF TypeOK, RowIsCool
  <2>4. CASE row # seen[p]
    <3>1. row' = row
      BY <1>7, <2>4 DEF FinishRelease, RowUnchanged
    <3> QED BY <2>1, <2>2, <3>1 DEF TypeOK, LeaderIsNamed, RowIsCool, Leads
  <2> QED BY <2>3, <2>4
<1>8. ASSUME NEW p \in Passes, Crash(p) PROVE IInv'
  BY <1>8 DEF Crash, TypeOK, Stages, LeaderIsNamed, RowIsCool, Judged, Leads
<1>9. CASE Tick
  BY <1>a, <1>9 DEF Tick, TypeOK, LeaderIsNamed, RowIsCool, Judged, Leads
<1>10. CASE UNCHANGED vars
  BY <1>10 DEF vars, TypeOK, LeaderIsNamed, RowIsCool, Judged, Leads
<1> QED BY <1>1, <1>2, <1>3, <1>4, <1>5, <1>6, <1>7, <1>8, <1>9, <1>10 DEF Next

LEMMA Invariant == Spec => []IInv
<1>1. IInv /\ [Next]_vars => IInv'
  BY StepHolds
<1> QED BY <1>1, InitHolds, PTL DEF Spec

\* The state of every replica and of the settings row is well formed.
THEOREM TypeCorrect == Spec => []TypeOK
BY Invariant, PTL DEF IInv

\* Two passes never both hold an unexpired lease (tryAcquireWorkerRunLease and the
\* operations after it), however the reads and the writes of replicas interleave.
THEOREM LeaderIsAlone == Spec => []OneLeader
<1>1. IInv => OneLeader
  BY DEF IInv, LeaderIsNamed, OneLeader
<1> QED BY <1>1, Invariant, PTL

\* No pass starts before a full cooldown is over (WORKER_RUN_COOLDOWN_MS).
THEOREM PassesAreApart == Spec => CooldownKept
<1>1. IInv /\ [Next]_vars =>
        [\A p \in Passes :
           (pc[p] \in {"idle", "acquiring"} /\ pc'[p] = "running" /\ row # NoRow)
           => now >= active + Cooldown]_vars
  <2> SUFFICES ASSUME IInv, Next, NEW p \in Passes, pc[p] \in {"idle", "acquiring"},
                      pc'[p] = "running", row # NoRow
               PROVE now >= active + Cooldown
    OBVIOUS
  <2>1. FinishAcquire(p) /\ row = seen[p]
    <3>1. ASSUME NEW q \in Passes, StartAcquire(q) PROVE FALSE
      BY <3>1 DEF StartAcquire, IInv, TypeOK
    <3>2. ASSUME NEW q \in Passes, FinishAcquire(q), ~(q = p /\ row = seen[p]) PROVE FALSE
      BY <3>2 DEF FinishAcquire, RowUnchanged, IInv, TypeOK
    <3>3. ASSUME NEW q \in Passes,
                 \/ StartRenew(q) \/ FinishRenew(q) \/ ClaimUnderLease(q)
                 \/ StartRelease(q) \/ FinishRelease(q) \/ Crash(q)
          PROVE FALSE
      BY <3>3 DEF StartRenew, FinishRenew, ClaimUnderLease, StartRelease, FinishRelease,
                  Crash, IInv, TypeOK
    <3>4. ~Tick
      BY DEF Tick
    <3> QED BY <3>1, <3>2, <3>3, <3>4 DEF Next
  <2>2. row \in Rows /\ row.next <= at[p] /\ at[p] <= now
    BY <2>1 DEF FinishAcquire, IInv, Judged, Available
  <2>3. row.next >= active + Cooldown
    BY DEF IInv, RowIsCool
  <2> QED BY <2>2, <2>3, DurationAssumption DEF IInv, TypeOK, Rows
<1> QED BY <1>1, Invariant, PTL DEF Spec, CooldownKept

-----------------------------------------------------------------------------
(* The other place where replicas take turns by one row of the database: the*)
(* global limiter of requests to amoCRM (RateLimiter).                     *)

CONSTANTS Callers, Interval, MaxAttempts

VARIABLES gateNow, gateNext, slot, tries, gatePc, gateSeen, sent

Gate == INSTANCE RateLimiter WITH now <- gateNow, next <- gateNext, pc <- gatePc,
        seen <- gateSeen

LEMMA GateLaterFact == \A s, t \in Nat : Gate!Later(s, t) \in Nat /\ s <= Gate!Later(s, t) /\ t <= Gate!Later(s, t)
BY DEF Gate!Later

\* The initial state: nothing reserved, nothing sent.
LEMMA GateInitHolds == Gate!Init => Gate!IInv
BY DEF Gate!Init, Gate!IInv, Gate!TypeOK, Gate!OnePerSlot, Gate!InItsSlot, Gate!GivenAwayOnce,
       Gate!CheckedInSlot, Gate!Held, Gate!Request

\* A reservation gives away what nobody had.
LEMMA GateReserveHolds ==
  ASSUME Gate!Durations, Gate!IInv, NEW c \in Callers, Gate!Reserve(c)
  PROVE  Gate!IInv'
<1> USE DEF Gate!IInv, Gate!Durations
<1> DEFINE s == Gate!Later(gateNext, gateNow)
<1>1. s \in Nat /\ gateNext <= s
  BY GateLaterFact DEF Gate!TypeOK
<1>2. Gate!TypeOK'
  BY <1>1 DEF Gate!Reserve, Gate!TypeOK
<1>3. Gate!OnePerSlot' /\ Gate!InItsSlot' /\ Gate!CheckedInSlot'
  BY DEF Gate!Reserve, Gate!TypeOK, Gate!OnePerSlot, Gate!InItsSlot, Gate!CheckedInSlot
<1>4. gateNext' = s + Interval /\ sent' = sent /\ slot'[c] = s
      /\ \A d \in Callers \ {c} : slot'[d] = slot[d] /\ gatePc'[d] = gatePc[d]
  BY DEF Gate!Reserve, Gate!TypeOK
<1>5. \A m \in sent : m.slot \in Nat /\ m.slot + Interval <= s
  BY <1>1 DEF Gate!GivenAwayOnce, Gate!TypeOK, Gate!Request
<1>6. \A d \in Callers : Gate!Held(d) => slot[d] \in Nat /\ slot[d] + Interval <= s
  BY <1>1 DEF Gate!GivenAwayOnce, Gate!TypeOK
<1>7. \A d \in Callers \ {c} : Gate!Held(d)' <=> Gate!Held(d)
  BY <1>4 DEF Gate!Held
<1>8. Gate!GivenAwayOnce'
  <2> HIDE DEF s
  <2>1. \A m \in sent' : m.slot + Interval <= gateNext'
    BY <1>1, <1>4, <1>5
  <2>2. ASSUME NEW d \in Callers, Gate!Held(d)' PROVE slot'[d] + Interval <= gateNext'
    BY <1>1, <1>4, <1>6, <1>7, <2>2
  <2>3. ASSUME NEW d \in Callers, Gate!Held(d)', NEW m \in sent'
        PROVE Gate!Apart(m.slot, slot'[d])
    <3>1. CASE d = c
      BY <1>4, <1>5, <3>1 DEF Gate!Apart
    <3>2. CASE d # c
      BY <1>4, <1>7, <2>3, <3>2 DEF Gate!Apart, Gate!GivenAwayOnce
    <3> QED BY <3>1, <3>2
  <2>4. ASSUME NEW d \in Callers, Gate!Held(d)', NEW e \in Callers \ {d}, Gate!Held(e)'
        PROVE Gate!Apart(slot'[d], slot'[e])
    <3>1. CASE d = c
      BY <1>4, <1>6, <1>7, <2>4, <3>1 DEF Gate!Apart
    <3>2. CASE e = c
      BY <1>4, <1>6, <1>7, <2>4, <3>2 DEF Gate!Apart
    <3>3. CASE d # c /\ e # c
      BY <1>4, <1>7, <2>4, <3>3 DEF Gate!Apart, Gate!GivenAwayOnce
    <3> QED BY <3>1, <3>2, <3>3
  <2> QED BY <2>1, <2>2, <2>3, <2>4 DEF Gate!GivenAwayOnce, Gate!Apart
<1> QED BY <1>2, <1>3, <1>8

\* A request takes its slot with it.
LEMMA GateDispatchHolds ==
  ASSUME Gate!Durations, Gate!IInv, NEW c \in Callers, Gate!Dispatch(c)
  PROVE  Gate!IInv'
<1> USE DEF Gate!IInv, Gate!Durations
<1> DEFINE r == [by |-> c, slot |-> slot[c], seen |-> gateSeen[c], at |-> gateNow]
<1>1. r \in Gate!Request /\ r.slot = slot[c] /\ r.seen = gateSeen[c] /\ r.at = gateNow
  BY DEF Gate!TypeOK, Gate!Request
<1>2. sent' = sent \cup {r} /\ gatePc' = [gatePc EXCEPT ![c] = "idle"]
      /\ UNCHANGED <<gateNow, gateNext, slot, tries, gateSeen>>
  BY DEF Gate!Dispatch
<1>3. /\ gatePc[c] = "through" /\ Gate!Held(c)
      /\ slot[c] <= gateSeen[c] /\ gateSeen[c] < slot[c] + Interval /\ gateSeen[c] <= gateNow
  BY DEF Gate!Dispatch, Gate!CheckedInSlot, Gate!Held
<1> HIDE DEF r
<1>4. Gate!TypeOK'
  BY <1>1, <1>2 DEF Gate!TypeOK
<1>5. \A m \in sent : Gate!Apart(m.slot, slot[c])
  BY <1>3 DEF Gate!GivenAwayOnce
<1>6. Gate!OnePerSlot'
  BY <1>1, <1>2, <1>5 DEF Gate!OnePerSlot, Gate!Apart
<1>7. Gate!InItsSlot'
  BY <1>1, <1>2, <1>3 DEF Gate!InItsSlot
<1>8. \A d \in Callers : gatePc'[d] # "idle" => d # c /\ gatePc'[d] = gatePc[d]
  BY <1>2 DEF Gate!TypeOK
<1>9. \A d \in Callers : Gate!Held(d)' => d # c /\ Gate!Held(d)
  BY <1>8 DEF Gate!Held
<1>10. Gate!CheckedInSlot'
  BY <1>2, <1>8 DEF Gate!CheckedInSlot
<1>11. Gate!GivenAwayOnce'
  <2>1. \A m \in sent' : m.slot + Interval <= gateNext'
    BY <1>1, <1>2, <1>3 DEF Gate!GivenAwayOnce
  <2>2. ASSUME NEW d \in Callers, Gate!Held(d)'
        PROVE /\ slot'[d] + Interval <= gateNext'
              /\ \A m \in sent' : Gate!Apart(m.slot, slot'[d])
              /\ \A e \in Callers \ {d} : Gate!Held(e)' => Gate!Apart(slot'[d], slot'[e])
    <3>1. d # c /\ Gate!Held(d) /\ slot' = slot /\ gateNext' = gateNext
      BY <1>2, <1>9, <2>2
    <3>2. Gate!Apart(slot[c], slot[d])
      BY <1>3, <3>1 DEF Gate!GivenAwayOnce
    <3> QED BY <1>1, <1>2, <1>9, <3>1, <3>2 DEF Gate!GivenAwayOnce
  <2> QED BY <2>1, <2>2 DEF Gate!GivenAwayOnce
<1> QED BY <1>4, <1>6, <1>7, <1>10, <1>11

\* A check, a missed slot, a failure or a new call: nothing is given away or sent.
LEMMA GateRestHolds ==
  ASSUME Gate!Durations, Gate!IInv, NEW c \in Callers,
         Gate!Call(c) \/ Gate!Check(c) \/ Gate!Overslept(c) \/ Gate!Fail(c)
  PROVE  Gate!IInv'
<1> USE DEF Gate!IInv, Gate!Durations
<1>1. /\ sent' = sent /\ slot' = slot /\ gateNext' = gateNext /\ gateNow' = gateNow
      /\ \A d \in Callers \ {c} : gatePc'[d] = gatePc[d] /\ gateSeen'[d] = gateSeen[d]
  BY DEF Gate!Call, Gate!Check, Gate!Overslept, Gate!Fail, Gate!TypeOK
<1>2. Gate!TypeOK'
  BY DEF Gate!Call, Gate!Check, Gate!Overslept, Gate!Fail, Gate!TypeOK
<1>3. \A d \in Callers : Gate!Held(d)' => Gate!Held(d)
  BY DEF Gate!Call, Gate!Check, Gate!Overslept, Gate!Fail, Gate!TypeOK, Gate!Held
<1>4. Gate!OnePerSlot' /\ Gate!InItsSlot'
  BY <1>1 DEF Gate!OnePerSlot, Gate!InItsSlot
<1>5. Gate!GivenAwayOnce'
  BY <1>1, <1>3 DEF Gate!GivenAwayOnce, Gate!Apart
<1>6. Gate!CheckedInSlot'
  <2>1. CASE Gate!Check(c)
    BY <1>1, <2>1 DEF Gate!Check, Gate!IsCurrent, Gate!CheckedInSlot, Gate!TypeOK
  <2>2. CASE Gate!Call(c) \/ Gate!Overslept(c) \/ Gate!Fail(c)
    <3>1. gatePc'[c] # "through"
      BY <2>2 DEF Gate!Call, Gate!Overslept, Gate!Fail, Gate!TypeOK
    <3> QED BY <1>1, <3>1 DEF Gate!CheckedInSlot
  <2> QED BY <2>1, <2>2
<1> QED BY <1>2, <1>4, <1>5, <1>6

\* Every step keeps the slots apart and the checks inside them.
LEMMA GateStepHolds == Gate!Durations /\ Gate!IInv /\ [Gate!Next]_(Gate!vars) => Gate!IInv'
<1> SUFFICES ASSUME Gate!Durations, Gate!IInv, [Gate!Next]_(Gate!vars) PROVE Gate!IInv'
  OBVIOUS
<1>1. CASE Gate!Tick
  BY <1>1 DEF Gate!Tick, Gate!IInv, Gate!TypeOK, Gate!OnePerSlot, Gate!InItsSlot,
              Gate!GivenAwayOnce, Gate!CheckedInSlot, Gate!Held
<1>2. CASE UNCHANGED Gate!vars
  BY <1>2 DEF Gate!vars, Gate!IInv, Gate!TypeOK, Gate!OnePerSlot, Gate!InItsSlot,
              Gate!GivenAwayOnce, Gate!CheckedInSlot, Gate!Held
<1> QED BY <1>1, <1>2, GateReserveHolds, GateDispatchHolds, GateRestHolds DEF Gate!Next

LEMMA GateInvariant ==
  ASSUME Gate!Durations
  PROVE  Gate!Spec => []Gate!IInv
<1>1. Gate!IInv /\ [Gate!Next]_(Gate!vars) => Gate!IInv'
  BY GateStepHolds
<1> QED BY <1>1, GateInitHolds, PTL DEF Gate!Spec

\* amoCRM never sees two requests of one slot, and each was let through within its slot,
\* for any number of callers, any interval, and any stall of a replica
\* (waitForRequestSlot).
THEOREM SlotsAreExclusive ==
  ASSUME Gate!Durations
  PROVE  Gate!Spec => [](Gate!OnePerSlot /\ Gate!InItsSlot)
BY GateInvariant, PTL DEF Gate!IInv

\* Six requests take more than four intervals, less the time the first was held up
\* between its check and its departure; a stall before the check costs nothing
\* (AMOCRM_GLOBAL_MAX_REQUESTS_PER_SECOND).
THEOREM RateIsKept ==
  ASSUME Gate!Durations
  PROVE  Gate!Spec => []Gate!FivePerSecond
<1>1. Gate!IInv => Gate!FivePerSecond
  <2> SUFFICES ASSUME Gate!Durations, Gate!IInv, NEW D \in Nat,
                      NEW a \in sent, NEW b \in sent, NEW c \in sent,
                      NEW d \in sent, NEW e \in sent, NEW f \in sent,
                      a.slot < b.slot, b.slot < c.slot, c.slot < d.slot,
                      d.slot < e.slot, e.slot < f.slot, a.at <= a.seen + D
               PROVE f.at - a.at > 4 * Interval - D
    BY DEF Gate!FivePerSecond
  <2>1. \A m \in sent : m.slot \in Nat /\ m.seen \in Nat /\ m.at \in Nat
    BY DEF Gate!IInv, Gate!TypeOK, Gate!Request
  <2>2. \A m, n \in sent : m.slot < n.slot => m.slot + Interval <= n.slot
    BY <2>1 DEF Gate!IInv, Gate!Durations, Gate!OnePerSlot, Gate!Apart
  <2>3. /\ a.slot + Interval <= b.slot /\ b.slot + Interval <= c.slot
        /\ c.slot + Interval <= d.slot /\ d.slot + Interval <= e.slot
        /\ e.slot + Interval <= f.slot
    BY <2>2
  <2>4. a.seen < a.slot + Interval /\ f.slot <= f.seen /\ f.seen <= f.at
    BY DEF Gate!IInv, Gate!InItsSlot
  <2> QED BY <2>1, <2>3, <2>4 DEF Gate!Durations
<1> QED BY <1>1, GateInvariant, PTL
=============================================================================
