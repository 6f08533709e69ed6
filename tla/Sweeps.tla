------------------------------- MODULE Sweeps -------------------------------
(***************************************************************************)
(* The two sweeps of idle leads: the one an operator asks for and confirms *)
(* with a token (inactivitySweepConfirmation.ts) and the one that runs each*)
(* night (inactivityNightlySweep.ts).  Both go through their list with the *)
(* loop of inactivitySweep.ts, while people touch leads and operators stop *)
(* and restart movement.  A step is one statement, one amoCRM request, or  *)
(* the code between two of them.  Time is one clock in milliseconds.  The  *)
(* places of the day's budget are in DailySlots: here a place is given or  *)
(* not.  The audit rows, reports and the order of the list are left out.   *)
(***************************************************************************)
EXTENDS Integers

CONSTANTS Leads, Users,
          Tokens,      \* confirmations asked for, each once
          Sweeps,      \* runs of the loop, each once
          Idle, Ttl,   \* SWEEP_IDLE_MS, SWEEP_CONFIRMATION_TTL_MS
          Unattended,  \* the worker is enabled, in production mode
          DayOf(_),    \* almatyCalendarDay
          None         \* no day, no lead, no token, no user

\* What the theorems assume of the constants.
Calendar ==
  /\ Idle \in Nat /\ Ttl \in Nat
  /\ \A t \in Nat : DayOf(t) \in Nat
  /\ \A s, t \in Nat : s <= t => DayOf(s) <= DayOf(t)
  /\ None \notin Nat \cup Tokens

VARIABLES now, paused,
          place,    \* lead -> on an eligible stage, on the target stage, or elsewhere
          updated,  \* lead -> updated_at
          watch,    \* lead -> lastActivityAt of the worker's row; 0 without a row
          touches,  \* the events of the leads' histories
          row,      \* the setting nightly_sweep_day
          token,    \* token -> the pending confirmation
          pc,       \* sweep -> its step
          begun,    \* sweep -> now at its start, and for how its list is read
          todo,     \* sweep -> candidates not yet reached
          cur,      \* sweep -> the candidate at hand
          since, readAt,  \* sweep -> the touch fence: its cutoff, and when history was read
          owner,    \* sweep -> the token it was started by
          sent,     \* the PATCHes amoCRM accepted
          claims,   \* the days claimed: by which sweep, and on which day
          late      \* sweep -> PATCHes since the last stop

known == <<place, updated, watch, touches>>
vars == <<now, paused, known, row, token, pc, begun, todo, cur, since, readAt,
          owner, sent, claims, late>>

Places == {"source", "target", "elsewhere"}
NoToken == [st |-> "new", by |-> None, at |-> 0, leads |-> {}]
Gone == [st |-> "gone", by |-> None, at |-> 0, leads |-> {}]

Init ==
  /\ now \in Nat /\ paused \in BOOLEAN
  /\ place \in [Leads -> Places]
  /\ updated \in [Leads -> 0..now] /\ watch = [l \in Leads |-> 0]
  /\ touches \in SUBSET [lead : Leads, at : 0..now]
  /\ row \in {None} \cup 0..DayOf(now)
  /\ token = [k \in Tokens |-> NoToken]
  /\ pc = [s \in Sweeps |-> "new"] /\ begun = [s \in Sweeps |-> 0]
  /\ todo = [s \in Sweeps |-> {}] /\ cur = [s \in Sweeps |-> None]
  /\ since = [s \in Sweeps |-> 0] /\ readAt = [s \in Sweeps |-> 0]
  /\ owner = [s \in Sweeps |-> None]
  /\ sent = {} /\ claims = {}
  /\ late = [s \in Sweeps |-> 0]

\* The leads that the listing and selectSweepCandidates leave, as of `at'.
Candidates(at) == {l \in Leads : place[l] = "source" /\ updated[l] <= at - Idle}

Goto(s, step) == pc' = [pc EXCEPT ![s] = step]

-----------------------------------------------------------------------------
(* The confirmation.                                                       *)

Expired(k) == now - token[k].at > Ttl

\* purgeExpired
Purged == [k \in Tokens |-> IF token[k].st = "pending" /\ Expired(k)
                            THEN Gone ELSE token[k]]

\* start: the moment is taken, and the leads are listed
Ask(k, u) ==
  /\ token[k].st = "new" /\ u # None
  /\ token' = [Purged EXCEPT ![k] = [st |-> "listing", by |-> u, at |-> now, leads |-> {}]]
  /\ UNCHANGED <<now, paused, known, row, pc, begun, todo, cur, since, readAt, owner,
                 sent, claims, late>>

Propose(k) ==
  /\ token[k].st = "listing"
  /\ token' = [token EXCEPT ![k] =
       IF Candidates(token[k].at) = {} THEN Gone
       ELSE [st |-> "pending", by |-> token[k].by, at |-> token[k].at,
             leads |-> Candidates(token[k].at)]]
  /\ UNCHANGED <<now, paused, known, row, pc, begun, todo, cur, since, readAt, owner,
                 sent, claims, late>>

\* decide: the answer "no", or any answer after the time is over
Drop(k, u) ==
  /\ token[k].st = "pending"
  /\ Expired(k) \/ token[k].by = u
  /\ token' = [token EXCEPT ![k] = Gone]
  /\ UNCHANGED <<now, paused, known, row, pc, begun, todo, cur, since, readAt, owner,
                 sent, claims, late>>

\* decide: "yes"; the token is spent before the sweep begins
Confirm(k, u, s) ==
  /\ token[k].st = "pending" /\ ~Expired(k) /\ token[k].by = u
  /\ pc[s] = "new"
  /\ token' = [token EXCEPT ![k] = Gone]
  /\ todo' = [todo EXCEPT ![s] = token[k].leads]
  /\ begun' = [begun EXCEPT ![s] = token[k].at]
  /\ owner' = [owner EXCEPT ![s] = k]
  /\ Goto(s, "check")
  /\ UNCHANGED <<now, paused, known, row, cur, since, readAt, sent, claims, late>>

\* A restart forgets the confirmations.
Forget ==
  /\ token' = [k \in Tokens |-> IF token[k].st \in {"listing", "pending"}
                                THEN Gone ELSE token[k]]
  /\ UNCHANGED <<now, paused, known, row, pc, begun, todo, cur, since, readAt, owner,
                 sent, claims, late>>

-----------------------------------------------------------------------------
(* The night.                                                              *)

\* runNightlyInactivitySweep, after the switch was read
Begin(s) ==
  /\ Unattended /\ pc[s] = "new" /\ ~paused
  /\ begun' = [begun EXCEPT ![s] = now]
  /\ Goto(s, "claim")
  /\ UNCHANGED <<now, paused, known, row, token, todo, cur, since, readAt, owner,
                 sent, claims, late>>

\* claimNightlySweepDay: INSERT, skipping a row that exists
ClaimFirst(s) ==
  /\ pc[s] = "claim"
  /\ IF row = None
     THEN /\ row' = DayOf(begun[s])
          /\ claims' = claims \cup {[sweep |-> s, day |-> DayOf(begun[s]), on |-> DayOf(now)]}
          /\ Goto(s, "list")
     ELSE Goto(s, "advance") /\ UNCHANGED <<row, claims>>
  /\ UNCHANGED <<now, paused, known, token, begun, todo, cur, since, readAt, owner, sent, late>>

\* UPDATE ... WHERE value <> day
Advance(s) ==
  /\ pc[s] = "advance"
  /\ IF row # DayOf(begun[s])
     THEN /\ row' = DayOf(begun[s])
          /\ claims' = claims \cup {[sweep |-> s, day |-> DayOf(begun[s]), on |-> DayOf(now)]}
          /\ Goto(s, "list")
     ELSE Goto(s, "done") /\ UNCHANGED <<row, claims>>
  /\ UNCHANGED <<now, paused, known, token, begun, todo, cur, since, readAt, owner, sent, late>>

\* listAllowedSourceStageLeads, selectSweepCandidates
List(s) ==
  /\ pc[s] = "list"
  /\ todo' = [todo EXCEPT ![s] = Candidates(begun[s])]
  /\ Goto(s, "check")
  /\ UNCHANGED <<now, paused, known, row, token, begun, cur, since, readAt, owner, sent,
                 claims, late>>

-----------------------------------------------------------------------------
(* moveSweepCandidates                                                     *)

\* The switch is read before each candidate; a stop or the end of the list ends it.
Check(s) ==
  /\ pc[s] = "check"
  /\ IF paused \/ todo[s] = {}
     THEN Goto(s, "done") /\ UNCHANGED <<todo, cur, since>>
     ELSE \E l \in todo[s] :
            /\ cur' = [cur EXCEPT ![s] = l]
            /\ todo' = [todo EXCEPT ![s] = @ \ {l}]
            /\ since' = [since EXCEPT ![s] = now - Idle]
            /\ Goto(s, "watch")
  /\ UNCHANGED <<now, paused, known, row, token, begun, readAt, owner, sent, claims, late>>

\* createRecentTouchGuard: the worker's record first, then the lead's history
ReadWatch(s) ==
  /\ pc[s] = "watch"
  /\ Goto(s, IF watch[cur[s]] > since[s] THEN "check" ELSE "history")
  /\ UNCHANGED <<now, paused, known, row, token, begun, todo, cur, since, readAt, owner,
                 sent, claims, late>>

ReadHistory(s) ==
  /\ pc[s] = "history"
  /\ Goto(s, IF \E t \in touches : t.lead = cur[s] /\ t.at > since[s] THEN "check" ELSE "slot")
  /\ readAt' = [readAt EXCEPT ![s] = now]
  /\ UNCHANGED <<now, paused, known, row, token, begun, todo, cur, since, owner,
                 sent, claims, late>>

\* The guard fails: the lead is left alone and the next one is taken.
GuardFails(s) ==
  /\ pc[s] \in {"watch", "history"}
  /\ Goto(s, "check")
  /\ UNCHANGED <<now, paused, known, row, token, begun, todo, cur, since, readAt, owner,
                 sent, claims, late>>

\* reserveDailySlot gives a place, or the budget is spent and the sweep ends
TakePlace(s) ==
  /\ pc[s] = "slot"
  /\ Goto(s, "move") \/ Goto(s, "done")
  /\ UNCHANGED <<now, paused, known, row, token, begun, todo, cur, since, readAt, owner,
                 sent, claims, late>>

\* moveLeadToTarget reads the lead, again before the PATCH: a lead that has left its
\* stage, or a read that fails, is no move and the sweep goes on.
ReadLead(s) ==
  /\ pc[s] = "move"
  /\ \/ place[cur[s]] = "source" /\ Goto(s, "patch")
     \/ Goto(s, "check")
  /\ UNCHANGED <<now, paused, known, row, token, begun, todo, cur, since, readAt, owner,
                 sent, claims, late>>

\* amoCRM accepts the PATCH.
Patch(s) ==
  /\ pc[s] = "patch"
  /\ sent' = sent \cup {[sweep |-> s, lead |-> cur[s], since |-> since[s],
                         readAt |-> readAt[s], at |-> now]}
  /\ place' = [place EXCEPT ![cur[s]] = "target"]
  /\ updated' = [updated EXCEPT ![cur[s]] = now]
  /\ touches' = touches \cup {[lead |-> cur[s], at |-> now]}
  /\ late' = [late EXCEPT ![s] = @ + 1]
  /\ Goto(s, "readback")
  /\ UNCHANGED <<now, paused, watch, row, token, begun, todo, cur, since, readAt, owner,
                 claims>>

\* The read-back confirms the move, or finds the lead on a source stage again: the
\* sweep goes on.  Elsewhere, or without an answer, the outcome is uncertain.
ReadBack(s) ==
  /\ pc[s] = "readback"
  /\ Goto(s, IF place[cur[s]] = "elsewhere" THEN "done" ELSE "check")
  /\ UNCHANGED <<now, paused, known, row, token, begun, todo, cur, since, readAt, owner,
                 sent, claims, late>>

\* The outcome is uncertain, a call throws, or the replica dies.
Abort(s) ==
  /\ pc[s] \notin {"new", "done"}
  /\ Goto(s, "done")
  /\ UNCHANGED <<now, paused, known, row, token, begun, todo, cur, since, readAt, owner,
                 sent, claims, late>>

-----------------------------------------------------------------------------
(* The world.                                                              *)

\* Someone touches a lead, and may move it; not every touch moves updated_at.
Touch(l) ==
  /\ touches' = touches \cup {[lead |-> l, at |-> now]}
  /\ \/ \E p \in Places : place' = [place EXCEPT ![l] = p] /\ updated' = [updated EXCEPT ![l] = now]
     \/ UNCHANGED <<place, updated>>
  /\ UNCHANGED <<now, paused, watch, row, token, pc, begun, todo, cur, since, readAt,
                 owner, sent, claims, late>>

\* A webhook or the worker records a touch.
Record(l) ==
  /\ \E t \in touches : t.lead = l /\ t.at > watch[l] /\ watch' = [watch EXCEPT ![l] = t.at]
  /\ UNCHANGED <<now, paused, place, updated, touches, row, token, pc, begun, todo, cur,
                 since, readAt, owner, sent, claims, late>>

\* /inactivity_off is stored; what was sent before does not count as late.
Stop ==
  /\ paused' = TRUE
  /\ late' = IF paused THEN late ELSE [s \in Sweeps |-> 0]
  /\ UNCHANGED <<now, known, row, token, pc, begun, todo, cur, since, readAt, owner,
                 sent, claims>>

Restart ==
  /\ paused' = FALSE
  /\ UNCHANGED <<now, known, row, token, pc, begun, todo, cur, since, readAt, owner,
                 sent, claims, late>>

Tick ==
  /\ now' \in {t \in Nat : now < t}
  /\ UNCHANGED <<paused, known, row, token, pc, begun, todo, cur, since, readAt, owner,
                 sent, claims, late>>

Loop(s) ==
  \/ Check(s) \/ ReadWatch(s) \/ ReadHistory(s) \/ GuardFails(s) \/ TakePlace(s)
  \/ ReadLead(s) \/ Patch(s) \/ ReadBack(s) \/ Abort(s)

Night(s) == Begin(s) \/ ClaimFirst(s) \/ Advance(s) \/ List(s)

Asked == \E k \in Tokens : \/ Propose(k)
                           \/ \E u \in Users : Ask(k, u) \/ Drop(k, u)
                           \/ \E u \in Users, s \in Sweeps : Confirm(k, u, s)

World == (\E l \in Leads : Touch(l) \/ Record(l)) \/ Stop \/ Restart \/ Tick \/ Forget

Next == (\E s \in Sweeps : Loop(s) \/ Night(s)) \/ Asked \/ World

Spec == Init /\ [][Next]_vars

-----------------------------------------------------------------------------

Steps == {"new", "claim", "advance", "list", "check", "watch", "history", "slot", "move",
          "patch", "readback", "done"}

\* The steps that have a candidate at hand and have not moved it
Before == {"watch", "history", "slot", "move", "patch"}

TypeOK ==
  /\ now \in Nat /\ paused \in BOOLEAN
  /\ place \in [Leads -> Places] /\ updated \in [Leads -> Nat] /\ watch \in [Leads -> Nat]
  /\ touches \subseteq [lead : Leads, at : Nat]
  /\ row \in {None} \cup Nat
  /\ token \in [Tokens -> [st : {"new", "listing", "pending", "gone"},
                           by : Users \cup {None}, at : Nat, leads : SUBSET Leads]]
  /\ pc \in [Sweeps -> Steps] /\ begun \in [Sweeps -> Nat]
  /\ todo \in [Sweeps -> SUBSET Leads] /\ cur \in [Sweeps -> Leads \cup {None}]
  /\ since \in [Sweeps -> Int] /\ readAt \in [Sweeps -> Nat]
  /\ owner \in [Sweeps -> Tokens \cup {None}]
  /\ sent \subseteq [sweep : Sweeps, lead : Leads, since : Int, readAt : Nat, at : Nat]
  /\ claims \subseteq [sweep : Sweeps, day : Nat, on : Nat]
  /\ late \in [Sweeps -> Nat]
  /\ \A s \in Sweeps : pc[s] \in Before \cup {"readback"} => cur[s] \in Leads

\* A stop bites: afterwards each sweep has at most one more PATCH, that of the
\* candidate it was at when the stop was stored.
StopBites == paused => \A s \in Sweeps : late[s] <= 1

\* A lead is moved only if nobody touched it for the idle time before its history was
\* read: what the sweep overlooks is younger than that read.
NoTouchOverlooked ==
  \A m \in sent : /\ m.readAt - m.since >= Idle
                  /\ \A t \in touches : t.lead = m.lead => t.at <= m.since \/ t.at >= m.readAt

\* A confirmation starts at most one sweep.
TokenSpentOnce ==
  \A r, s \in Sweeps : owner[r] # None /\ owner[r] = owner[s] => r = s

Timely == \A a \in claims : a.day = a.on

\* A day is swept once, if no claim was made for a day that was over already.
OnceADay ==
  Timely => \A a, b \in claims : a.day = b.day => a.sweep = b.sweep

\* The strengthenings.
StopInv == paused => \A s \in Sweeps : pc[s] \in Before => late[s] = 0

FenceInv ==
  /\ \A t \in touches : t.at <= now
  /\ \A s \in Sweeps :
       /\ pc[s] \in Before => since[s] <= now - Idle
       /\ pc[s] \in {"slot", "move", "patch"} =>
            /\ readAt[s] <= now /\ readAt[s] - since[s] >= Idle
            /\ \A t \in touches : t.lead = cur[s] => t.at <= since[s] \/ t.at >= readAt[s]
  /\ \A m \in sent : m.readAt <= now

TokenInv ==
  \A s \in Sweeps : owner[s] # None => token[owner[s]].st = "gone" /\ pc[s] # "new"

DayInv ==
  /\ \A s \in Sweeps : begun[s] <= now
  /\ \A k \in Tokens : token[k].at <= now
  /\ Timely => /\ \A a \in claims : row \in Nat /\ a.day <= row
               /\ row \in Nat => row <= DayOf(now)
=============================================================================
