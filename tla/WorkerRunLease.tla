--------------------------- MODULE WorkerRunLease ---------------------------
(***************************************************************************)
(* The run lease that elects one inactivity worker pass among replicas: a  *)
(* settings row [token, expiresAt, nextEligibleAt] that is read, judged    *)
(* and then replaced by compare-and-set on its whole value, so every       *)
(* operation is two steps with anything in between.  claimDueWatchFor-     *)
(* WorkerRun renews it inside one Serializable transaction.                *)
(*                                                                         *)
(* The replicas read one clock (their skew is not modelled), up to MaxDelay *)
(* ticks before they read the row.  A pass's token is a fresh UUID in the  *)
(* code; here it is the pass itself.                                       *)
(***************************************************************************)
EXTENDS Naturals

CONSTANTS Passes,     \* worker passes, one at a time per replica
          NoToken,    \* token: null
          NoRow,      \* the settings row does not exist yet
          Lease,      \* workerRunLeaseMs
          Cooldown,   \* WORKER_RUN_COOLDOWN_MS
          MaxDelay,   \* most ticks between reading the clock and the row
          MaxNow      \* bound on the clock, for TLC

ASSUME DurationAssumption == Lease \in Nat \ {0} /\ Cooldown \in Nat
ASSUME BoundAssumption == MaxDelay \in Nat /\ MaxNow \in Nat
ASSUME TokenAssumption == NoToken \notin Passes
ASSUME RowAssumption ==
  NoRow \notin [token : Passes \cup {NoToken}, exp : Nat, next : Nat]

VARIABLES now,
          row,      \* the settings row, or NoRow
          pc,       \* pass -> what it is doing
          seen,     \* pass -> the row it read
          at,       \* pass -> the time it judged that row by
          until,    \* pass -> the expiry of the lease it last wrote
          active    \* time of the latest acquisition or renewal

vars == <<now, row, pc, seen, at, until, active>>

Rows == [token : Passes \cup {NoToken}, exp : Nat, next : Nat]

Stages == {"idle", "acquiring", "running", "renewing", "releasing"}

Init ==
  /\ now = 0
  /\ row = NoRow
  /\ pc = [p \in Passes |-> "idle"]
  /\ seen = [p \in Passes |-> NoRow]
  /\ at = [p \in Passes |-> 0]
  /\ until = [p \in Passes |-> 0]
  /\ active = 0

Later(s, t) == IF s < t THEN t ELSE s

\* The times an operation that now reads the row can have read off the clock.
ClockReadings == {t \in 0..now : now - t <= MaxDelay}

\* A bug: a new lease is serialized without its cooldown.
Fresh_NoCooldown(p, t) == [token |-> p, exp |-> t + Lease]

Fresh(p, t) == [token |-> p, exp |-> t + Lease, next |-> t + Cooldown]

\* A bug that forgets the cooldown when a token is null.
Available_LeaseOnly(r, t) == r.token = NoToken \/ r.exp <= t

\* The refusal test of tryAcquireWorkerRunLease, negated.
Available(r, t) == (r.token = NoToken \/ r.exp <= t) /\ r.next <= t

\* The ownership test of renewWorkerRunLease.
Owned(r, p, t) == r.token = p /\ r.exp > t

Renewed(r, p, t) ==
  [token |-> p, exp |-> t + Lease, next |-> Later(r.next, t + Cooldown)]

-----------------------------------------------------------------------------
\* createSettingIfAbsent, and the judgement of the row it returns.
StartAcquire(p) ==
  /\ pc[p] = "idle"
  /\ \E t \in ClockReadings :
       /\ at' = [at EXCEPT ![p] = t]
       /\ \/ /\ row = NoRow
             /\ row' = Fresh(p, t)
             /\ pc' = [pc EXCEPT ![p] = "running"]
             /\ until' = [until EXCEPT ![p] = t + Lease]
             /\ active' = t
             /\ UNCHANGED seen
          \/ /\ row # NoRow
             /\ Available(row, t)
             /\ seen' = [seen EXCEPT ![p] = row]
             /\ pc' = [pc EXCEPT ![p] = "acquiring"]
             /\ UNCHANGED <<row, until, active>>
  /\ UNCHANGED now

\* A bug that replaces the row by an unconditional update.
RowUnchanged_Always(p) == TRUE

\* replaceSettingIfValue matches.
RowUnchanged(p) == row = seen[p]

FinishAcquire(p) ==
  /\ pc[p] = "acquiring"
  /\ IF RowUnchanged(p)
     THEN /\ row' = Fresh(p, at[p])
          /\ pc' = [pc EXCEPT ![p] = "running"]
          /\ until' = [until EXCEPT ![p] = at[p] + Lease]
          /\ active' = Later(active, at[p])
     ELSE /\ pc' = [pc EXCEPT ![p] = "idle"]
          /\ UNCHANGED <<row, until, active>>
  /\ UNCHANGED <<now, seen, at>>

\* renewWorkerRunLease reads; on a foreign or expired lease it reports false
\* and the pass goes on without the lease.
StartRenew(p) ==
  /\ pc[p] = "running"
  /\ row # NoRow
  /\ \E t \in ClockReadings : Owned(row, p, t) /\ at' = [at EXCEPT ![p] = t]
  /\ seen' = [seen EXCEPT ![p] = row]
  /\ pc' = [pc EXCEPT ![p] = "renewing"]
  /\ UNCHANGED <<now, row, until, active>>

FinishRenew(p) ==
  /\ pc[p] = "renewing"
  /\ pc' = [pc EXCEPT ![p] = "running"]
  /\ IF RowUnchanged(p)
     THEN /\ row' = Renewed(seen[p], p, at[p])
          /\ until' = [until EXCEPT ![p] = at[p] + Lease]
          /\ active' = Later(active, at[p])
     ELSE UNCHANGED <<row, until, active>>
  /\ UNCHANGED <<now, seen, at>>

\* claimDueWatchForWorkerRun: check and renewal in one transaction.
ClaimUnderLease(p) ==
  /\ pc[p] = "running"
  /\ row # NoRow
  /\ \E t \in ClockReadings :
       /\ Owned(row, p, t)
       /\ row' = Renewed(row, p, t)
       /\ until' = [until EXCEPT ![p] = t + Lease]
       /\ active' = Later(active, t)
  /\ UNCHANGED <<now, pc, seen, at>>

\* releaseWorkerRunLease, in the finally block of runOnce.
StartRelease(p) ==
  /\ pc[p] = "running"
  /\ \E t \in ClockReadings : at' = [at EXCEPT ![p] = t]
  /\ IF row # NoRow /\ row.token = p
     THEN /\ seen' = [seen EXCEPT ![p] = row]
          /\ pc' = [pc EXCEPT ![p] = "releasing"]
     ELSE /\ pc' = [pc EXCEPT ![p] = "idle"]
          /\ UNCHANGED seen
  /\ UNCHANGED <<now, row, until, active>>

FinishRelease(p) ==
  /\ pc[p] = "releasing"
  /\ pc' = [pc EXCEPT ![p] = "idle"]
  /\ row' = IF RowUnchanged(p)
            THEN [token |-> NoToken, exp |-> at[p], next |-> seen[p].next]
            ELSE row
  /\ UNCHANGED <<now, seen, at, until, active>>

Crash(p) ==
  /\ pc[p] # "idle"
  /\ pc' = [pc EXCEPT ![p] = "idle"]
  /\ UNCHANGED <<now, row, seen, at, until, active>>

Tick ==
  /\ now < MaxNow
  /\ now' = now + 1
  /\ UNCHANGED <<row, pc, seen, at, until, active>>

Next ==
  \/ \E p \in Passes : \/ StartAcquire(p) \/ FinishAcquire(p)
                       \/ StartRenew(p) \/ FinishRenew(p)
                       \/ ClaimUnderLease(p)
                       \/ StartRelease(p) \/ FinishRelease(p)
                       \/ Crash(p)
  \/ Tick

Spec == Init /\ [][Next]_vars

-----------------------------------------------------------------------------
(* Properties.                                                             *)

TypeOK ==
  /\ now \in Nat
  /\ row \in Rows \cup {NoRow}
  /\ pc \in [Passes -> Stages]
  /\ seen \in [Passes -> Rows \cup {NoRow}]
  /\ at \in [Passes -> Nat]
  /\ until \in [Passes -> Nat]
  /\ active \in Nat

\* A pass that is under way and whose lease, by its own account, still runs.
Leads(p) == pc[p] \notin {"idle", "acquiring"} /\ until[p] > now

\* Two replicas never both hold an unexpired lease, although each of them
\* judged the row before it replaced it (runOnce relies on this for everything
\* it does between two renewals).
OneLeader == \A p, q \in Passes : Leads(p) /\ Leads(q) => p = q

\* A pass starts only a full cooldown after the last time any pass acquired or
\* renewed the lease: neither an expiry nor a release shortens it.
CooldownKept ==
  [][\A p \in Passes :
       (pc[p] \in {"idle", "acquiring"} /\ pc'[p] = "running" /\ row # NoRow)
       => now >= active + Cooldown]_vars
=============================================================================
