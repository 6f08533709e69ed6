------------------------------ MODULE Baseline ------------------------------
(***************************************************************************)
(* The start of production movement.  The activation boundary keeps leads  *)
(* created before it out of the watch list (leadInactivityActivation.ts);  *)
(* a script then enrols every lead that is on a source stage, under one    *)
(* durable timestamp (leadInactivityProductionBaseline.ts and its store    *)
(* operations), and the worker moves nothing in production before that is  *)
(* complete.  The sweeps do not ask for it: they move leads that were never*)
(* watched, with or without a baseline (inactivitySweep.ts).  The script   *)
(* may be run several times, at once too, and may die at any point.  A step*)
(* is one statement or one amoCRM listing; the settings are rows that are  *)
(* created if absent and never changed.                                    *)
(***************************************************************************)
EXTENDS Integers

CONSTANTS Leads,
          Born,    \* lead -> leadCreatedAt
          Runs,    \* runs of the script, each with a fresh run id
          Hours,   \* AMOCRM_INACTIVITY_DELAY_HOURS
          None     \* an absent row

\* What the theorems assume of the constants.
Dates == Born \in [Leads -> Nat] /\ None \notin Nat \cup Runs

VARIABLES now,
          boundary,        \* the setting activation_boundary
          at, run, done,   \* production_baseline and its run and completion markers
          mine,            \* run -> the baseline it works under
          pc, todo,        \* run -> its step, and the leads not yet enrolled
          listed,          \* run -> the leads amoCRM listed to it
          source,          \* the leads on an allowed source stage
          based,           \* the leads with a production_baseline event
          rows,            \* the leads with a watch, whatever its state
          watched,         \* those whose watch is active
          worker,          \* off, or its mode and whether a pass is open
          moves            \* what was moved to the target stage, and by whom

settings == <<boundary, at, run, done>>
script == <<mine, pc, todo, listed>>
vars == <<now, settings, script, source, based, rows, watched, worker, moves>>

Init ==
  /\ now \in Nat
  /\ boundary = None /\ at = None /\ run = None /\ done = None
  /\ mine = [r \in Runs |-> 0] /\ pc = [r \in Runs |-> "new"]
  /\ todo = [r \in Runs |-> {}] /\ listed = [r \in Runs |-> {}]
  /\ source \in SUBSET Leads /\ based = {} /\ rows = {} /\ watched = {}
  /\ worker = "off" /\ moves = {}

\* The lead was created after the boundary.
Admitted(l) == boundary # None /\ Born[l] > boundary

Goto(r, step) == pc' = [pc EXCEPT ![r] = step]

-----------------------------------------------------------------------------
(* The boundary and the webhook.                                           *)

\* initializeLeadInactivityActivation: the first confirmed call sets the boundary
Activate ==
  /\ boundary = None /\ boundary' = now
  /\ UNCHANGED <<now, at, run, done, script, source, based, rows, watched, worker, moves>>

\* A new event makes the watch, or revives it unless the watch has a newer one.
Follow(l) ==
  /\ rows' = rows \cup {l}
  /\ watched' = watched \cup {l} \/ (l \in rows /\ UNCHANGED watched)

\* recordLeadEvent: a historical lead counts only once it is enrolled
Record(l) ==
  /\ boundary # None
  /\ Admitted(l) \/ l \in based
  /\ Follow(l)
  /\ UNCHANGED <<now, settings, script, source, based, worker, moves>>

-----------------------------------------------------------------------------
(* The script.                                                             *)

\* assertSafeBaselineConfiguration, then getOrCreateTimestampSetting
ReadAt(r) ==
  /\ pc[r] = "new" /\ Hours = 72
  /\ IF at = None THEN Goto(r, "create") /\ UNCHANGED mine
     ELSE Goto(r, "claim") /\ mine' = [mine EXCEPT ![r] = at]
  /\ UNCHANGED <<now, settings, todo, listed, source, based, rows, watched, worker, moves>>

CreateAt(r) ==
  /\ pc[r] = "create"
  /\ at' = IF at = None THEN now ELSE at
  /\ mine' = [mine EXCEPT ![r] = at']
  /\ Goto(r, "claim")
  /\ UNCHANGED <<now, boundary, run, done, todo, listed, source, based, rows, watched, worker, moves>>

\* beginProductionBaseline writes its run marker if there is none
ClaimRun(r) ==
  /\ pc[r] = "claim"
  /\ run' = IF run = None THEN r ELSE run
  /\ Goto(r, "claimed")
  /\ UNCHANGED <<now, boundary, at, done, mine, todo, listed, source, based, rows, watched, worker, moves>>

\* A completed baseline is not repeated; the run of another is not joined.
CheckDone(r) ==
  /\ pc[r] = "claimed"
  /\ Goto(r, IF done # None THEN "finished" ELSE IF run = r THEN "list" ELSE "dead")
  /\ UNCHANGED <<now, settings, mine, todo, listed, source, based, rows, watched, worker, moves>>

\* listAllowedSourceStageLeads
List(r) ==
  /\ pc[r] = "list"
  /\ todo' = [todo EXCEPT ![r] = source] /\ listed' = [listed EXCEPT ![r] = source]
  /\ Goto(r, "enrol")
  /\ UNCHANGED <<now, settings, mine, source, based, rows, watched, worker, moves>>

\* recordProductionBaseline: a second event changes nothing; without its watch it is an error.
Enrol(r, l) ==
  /\ pc[r] = "enrol" /\ l \in todo[r]
  /\ IF at # mine[r] \/ (l \in based /\ l \notin rows)
     THEN Goto(r, "dead") /\ UNCHANGED <<todo, based, rows, watched>>
     ELSE /\ todo' = [todo EXCEPT ![r] = @ \ {l}]
          /\ based' = based \cup {l}
          /\ IF l \in based THEN UNCHANGED <<rows, watched>> ELSE Follow(l)
          /\ UNCHANGED pc
  /\ UNCHANGED <<now, settings, mine, listed, source, worker, moves>>

\* completeProductionBaseline checks the owner and writes the marker.
CheckOwner(r) ==
  /\ pc[r] = "enrol" /\ todo[r] = {}
  /\ Goto(r, IF run = r /\ at = mine[r] THEN "mark" ELSE "dead")
  /\ UNCHANGED <<now, settings, mine, todo, listed, source, based, rows, watched, worker, moves>>

Mark(r) ==
  /\ pc[r] = "mark"
  /\ done' = IF done = None THEN run ELSE done
  /\ Goto(r, "finished")
  /\ UNCHANGED <<now, boundary, at, run, mine, todo, listed, source, based, rows, watched, worker, moves>>

\* amoCRM or the database fails, or the process ends.
Die(r) ==
  /\ pc[r] # "finished"
  /\ Goto(r, "dead")
  /\ UNCHANGED <<now, settings, mine, todo, listed, source, based, rows, watched, worker, moves>>

-----------------------------------------------------------------------------
(* The worker and the world.                                               *)

\* startConfiguredLeadInactivityWorker: production only with the full delay
Deploy(mode) ==
  /\ mode = "production" => Hours = 72
  /\ worker' = mode
  /\ UNCHANGED <<now, settings, script, source, based, rows, watched, moves>>

\* runOnce asks isProductionBaselineComplete; without it the pass fails.
OpenPass ==
  /\ worker = "production"
  /\ at # None /\ run # None /\ done # None /\ run = done
  /\ worker' = "pass"
  /\ UNCHANGED <<now, settings, script, source, based, rows, watched, moves>>

Move(l) ==
  /\ worker = "pass" /\ l \in watched /\ l \in source
  /\ moves' = moves \cup {[lead |-> l, by |-> "worker"]}
  /\ source' = source \ {l} /\ watched' = watched \ {l}
  /\ UNCHANGED <<now, settings, script, based, rows, worker>>

\* moveSweepCandidates, of the night or of an operator: any lead on a source stage that
\* has been idle, in any state of the baseline (Sweeps has the conditions of the sweep).
SweepMove(l) ==
  /\ l \in source
  /\ moves' = moves \cup {[lead |-> l, by |-> "sweep"]} /\ source' = source \ {l}
  /\ UNCHANGED <<now, settings, script, based, rows, watched, worker>>

\* A person moves leads to and from the source stages.
Rearrange ==
  /\ source' \in SUBSET Leads
  /\ UNCHANGED <<now, settings, script, based, rows, watched, worker, moves>>

\* An operator's stop ends the active watches; the rows stay.
Clear ==
  /\ watched' = {}
  /\ UNCHANGED <<now, settings, script, source, based, rows, worker, moves>>

Tick ==
  /\ now' \in {t \in Nat : now < t}
  /\ UNCHANGED <<settings, script, source, based, rows, watched, worker, moves>>

Script(r) ==
  \/ ReadAt(r) \/ CreateAt(r) \/ ClaimRun(r) \/ CheckDone(r) \/ List(r)
  \/ (\E l \in Leads : Enrol(r, l)) \/ CheckOwner(r) \/ Mark(r) \/ Die(r)

Modes == {"off", "testing", "production"}

Next ==
  \/ \E r \in Runs : Script(r)
  \/ \E l \in Leads : Record(l) \/ Move(l) \/ SweepMove(l)
  \/ \E mode \in Modes : Deploy(mode)
  \/ Activate \/ OpenPass \/ Rearrange \/ Clear \/ Tick

Spec == Init /\ [][Next]_vars

-----------------------------------------------------------------------------

TypeOK ==
  /\ now \in Nat
  /\ boundary \in Nat \cup {None} /\ at \in Nat \cup {None}
  /\ run \in Runs \cup {None} /\ done \in Runs \cup {None}
  /\ mine \in [Runs -> Nat] /\ todo \in [Runs -> SUBSET Leads] /\ listed \in [Runs -> SUBSET Leads]
  /\ pc \in [Runs -> {"new", "create", "claim", "claimed", "list", "enrol", "mark",
                      "finished", "dead"}]
  /\ source \subseteq Leads /\ based \subseteq Leads /\ rows \subseteq Leads
  /\ watched \subseteq Leads
  /\ moves \subseteq [lead : Leads, by : {"worker", "sweep"}]
  /\ worker \in Modes \cup {"pass"}

\* Only the run that holds the marker enrols leads.
OneOwner == \A r \in Runs : pc[r] \in {"list", "enrol", "mark"} => run = r

\* Completion tells the truth: every lead the owner was listed is enrolled.
CompleteIsEnrolled == done # None => done = run /\ listed[run] \subseteq based

\* The worker moves nothing in production before completion, and of the leads created
\* before the boundary only those enrolled.  The sweeps' moves are exempt: the code moves
\* historical leads by them whether or not there is a baseline.
MovesAfterBaseline ==
  \A m \in moves : m.by = "worker" => done # None /\ (m.lead \in based \/ Admitted(m.lead))

\* An enrolled lead never loses its watch row, so that a repeated enrolment cannot fail on
\* an event without one.
EnrolledHasWatch == based \subseteq rows

\* A run that died with the marker leaves the baseline incomplete, whoever tries again.
StaysIncomplete ==
  [][run # None /\ pc[run] = "dead" /\ done = None => done' = None]_vars

\* The strengthenings.
Progress ==
  \A r \in Runs :
    /\ pc[r] \in {"enrol", "mark"} => listed[r] \ todo[r] \subseteq based
    /\ pc[r] = "mark" => todo[r] = {}
    /\ pc[r] \in {"list", "enrol", "mark"} => done = None

WatchesAreAllowed ==
  /\ watched \subseteq rows
  /\ \A l \in rows : l \in based \/ Admitted(l)
  /\ worker = "pass" => done # None
=============================================================================
