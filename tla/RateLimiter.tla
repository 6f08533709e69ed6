----------------------------- MODULE RateLimiter -----------------------------
(***************************************************************************)
(* The global amoCRM request limiter (amoCrmRateLimiter.ts).  Callers in   *)
(* any replica share one settings row, the first moment not yet given      *)
(* away, and one clock, the database's.  A caller reserves the next slot in*)
(* one statement, sleeps, and reads the clock again: a replica that was    *)
(* paused finds its slot over and reserves another.  The request leaves the*)
(* process later than the check that let it pass, and a pause between the  *)
(* two is not noticed.  Time is in milliseconds, and a timer does not fire *)
(* early.                                                                  *)
(***************************************************************************)
EXTENDS Integers

CONSTANTS Callers,
          Interval,     \* AMOCRM_GLOBAL_MIN_REQUEST_INTERVAL_MS
          MaxAttempts   \* AMOCRM_GLOBAL_MAX_SLOT_RESERVATION_ATTEMPTS

\* What the theorems assume of the constants.
Durations == Interval \in Nat \ {0} /\ MaxAttempts \in Nat \ {0}

VARIABLES now,    \* clock_timestamp()
          next,   \* the settings row; 0 before it exists
          slot,   \* caller -> scheduledAtMs of the slot it sleeps for
          tries,  \* caller -> reservations made by its present call
          pc,     \* caller -> idle, to reserve, asleep, or let through
          seen,   \* caller -> the time its check read
          sent    \* the requests dispatched

vars == <<now, next, slot, tries, pc, seen, sent>>

Init ==
  /\ now \in Nat /\ next = 0
  /\ slot = [c \in Callers |-> 0] /\ tries = [c \in Callers |-> 0]
  /\ pc = [c \in Callers |-> "idle"] /\ seen = [c \in Callers |-> 0]
  /\ sent = {}

Later(s, t) == IF s < t THEN t ELSE s

\* A request passes the gate: waitForRequestSlot begins.
Call(c) ==
  /\ pc[c] = "idle"
  /\ pc' = [pc EXCEPT ![c] = "reserve"] /\ tries' = [tries EXCEPT ![c] = 0]
  /\ UNCHANGED <<now, next, slot, seen, sent>>

\* INSERT ... ON CONFLICT: the row moves on by one interval from itself or from now.
Reserve(c) ==
  /\ pc[c] = "reserve"
  /\ slot' = [slot EXCEPT ![c] = Later(next, now)]
  /\ next' = Later(next, now) + Interval
  /\ tries' = [tries EXCEPT ![c] = @ + 1]
  /\ pc' = [pc EXCEPT ![c] = "asleep"]
  /\ UNCHANGED <<now, seen, sent>>

IsCurrent(c) == now < slot[c] + Interval

\* readCurrentTimeMs: the slot is still current.
Check(c) ==
  /\ pc[c] = "asleep" /\ slot[c] <= now
  /\ IsCurrent(c)
  /\ seen' = [seen EXCEPT ![c] = now]
  /\ pc' = [pc EXCEPT ![c] = "through"]
  /\ UNCHANGED <<now, next, slot, tries, sent>>

\* The request leaves the process, at once or after a pause.
Dispatch(c) ==
  /\ pc[c] = "through"
  /\ sent' = sent \cup {[by |-> c, slot |-> slot[c], seen |-> seen[c], at |-> now]}
  /\ pc' = [pc EXCEPT ![c] = "idle"]
  /\ UNCHANGED <<now, next, slot, tries, seen>>

\* The slot is over: reserve another one, or give the request up.
Overslept(c) ==
  /\ pc[c] = "asleep" /\ slot[c] <= now
  /\ ~IsCurrent(c)
  /\ pc' = [pc EXCEPT ![c] = IF tries[c] < MaxAttempts THEN "reserve" ELSE "idle"]
  /\ UNCHANGED <<now, next, slot, tries, seen, sent>>

\* A statement fails or the replica dies: a slot that was reserved stays unused.
Fail(c) ==
  /\ pc[c] # "idle"
  /\ pc' = [pc EXCEPT ![c] = "idle"]
  /\ UNCHANGED <<now, next, slot, tries, seen, sent>>

Tick ==
  /\ now' \in {t \in Nat : now < t}
  /\ UNCHANGED <<next, slot, tries, pc, seen, sent>>

Next ==
  \/ \E c \in Callers : \/ Call(c) \/ Reserve(c) \/ Check(c) \/ Dispatch(c)
                        \/ Overslept(c) \/ Fail(c)
  \/ Tick

Spec == Init /\ [][Next]_vars

-----------------------------------------------------------------------------

Request == [by : Callers, slot : Nat, seen : Nat, at : Nat]

TypeOK ==
  /\ now \in Nat /\ next \in Nat
  /\ slot \in [Callers -> Nat] /\ tries \in [Callers -> Nat] /\ seen \in [Callers -> Nat]
  /\ pc \in [Callers -> {"idle", "reserve", "asleep", "through"}]
  /\ sent \subseteq Request

Apart(s, t) == s + Interval <= t \/ t + Interval <= s

\* Two requests never share a slot, whoever stalls and for however long.
OnePerSlot == \A m, n \in sent : m = n \/ Apart(m.slot, n.slot)

\* A request was let through within its slot, and left no earlier.
InItsSlot == \A m \in sent : m.slot <= m.seen /\ m.seen < m.slot + Interval /\ m.seen <= m.at

\* The strengthening: the row is past every slot given away, a slot that is held is
\* apart from the other callers' and from every slot used, and the check fell in it.
Held(c) == pc[c] \in {"asleep", "through"}

GivenAwayOnce ==
  /\ \A m \in sent : m.slot + Interval <= next
  /\ \A c \in Callers : Held(c) =>
       /\ slot[c] + Interval <= next
       /\ \A m \in sent : Apart(m.slot, slot[c])
       /\ \A d \in Callers \ {c} : Held(d) => Apart(slot[c], slot[d])

CheckedInSlot ==
  \A c \in Callers : pc[c] = "through" =>
    slot[c] <= seen[c] /\ seen[c] < slot[c] + Interval /\ seen[c] <= now

IInv == TypeOK /\ OnePerSlot /\ InItsSlot /\ GivenAwayOnce /\ CheckedInSlot

\* Of six requests, the last one leaves more than four intervals after the check of the
\* first: if the first left at most D after its check, they span more than 4 * Interval - D.
\* With an interval of 260 ms a second holds five as long as D is at most 40 ms; requests
\* that are held up for longer between check and departure may come on top of the five.
FivePerSecond ==
  \A D \in Nat : \A a, b, c, d, e, f \in sent :
    /\ a.slot < b.slot /\ b.slot < c.slot /\ c.slot < d.slot
    /\ d.slot < e.slot /\ e.slot < f.slot
    /\ a.at <= a.seen + D
    => f.at - a.at > 4 * Interval - D
=============================================================================
