--------------------------- MODULE MovementSwitch ---------------------------
(***************************************************************************)
(* The operator switch over inactivity moves (inactivityMovementSwitch.ts) *)
(* against what it is meant to stop: webhooks, which read the flag before  *)
(* they read the lead and record the touch, and worker passes, which read  *)
(* it once before they claim.  The switch is one settings row, read,       *)
(* changed and written back whole, by a compare-free upsert; the stop then *)
(* clears the queue.  Bot commands run concurrently, one per operator.     *)
(*                                                                         *)
(* A pass is one claim at a time: InactivityWorker has the steps inside a  *)
(* move, DailySlots the cap.  The watch rows are those of WatchStore.      *)
(***************************************************************************)
EXTENDS WatchStore

CONSTANTS Leads, Operators, Hooks,
          Pass,       \* the worker pass; its claim token
          NoLead,
          MaxTouch,   \* bound on touches per lead, for TLC
          MaxClaims   \* bound on claims per lead, for TLC

ASSUME TokenAssumption == Pass # NoToken
ASSUME BoundAssumption == MaxTouch \in Nat /\ MaxClaims \in Nat

VARIABLES row,      \* the stored switch: [paused, capOff, explicit]
          op,       \* operator -> the command it runs and the row it read
          hook,     \* webhook -> how far its processing got, and its lead
          pass,     \* the worker pass: its step and the lead it claimed
          watch,    \* lead -> row of the watch ledger
          touches,  \* lead -> touches recorded so far
          since,    \* lead -> "touched", or what the last stop did to its watch
          off       \* a stop completed and no switch-on was begun since

vars == <<row, op, hook, pass, watch, touches, since, off>>

Commands == {"stop", "start", "cap_on", "cap_off"}

\* parseStored of a missing or corrupt value
Untouched == [paused |-> FALSE, capOff |-> FALSE, explicit |-> FALSE]

NoPass == [pc |-> "idle", todo |-> {}, lead |-> NoLead, gen |-> 0]

NoCommand == [pc |-> "idle", cmd |-> "none", seen |-> Untouched]

Init ==
  /\ row = Untouched
  /\ op = [o \in Operators |-> NoCommand]
  /\ hook = [h \in Hooks |-> NoLead]
  /\ pass = NoPass
  /\ watch = [l \in Leads |-> Absent]
  /\ touches = [l \in Leads |-> 0]
  /\ since = [l \in Leads |-> "cleared"]
  /\ off = FALSE

-----------------------------------------------------------------------------
(* The commands.                                                           *)

\* getInactivityMovementSwitch, at the start of every command
ReadSwitch(o, c) ==
  /\ op[o].pc = "idle"
  /\ op' = [op EXCEPT ![o] = [pc |-> "writing", cmd |-> c, seen |-> row]]
  /\ off' = (off /\ c # "start")
  /\ UNCHANGED <<row, hook, pass, watch, touches, since>>

\* A bug: switching on lifts the cap whatever the operator chose.
Written_LiftsCap(c, seen) ==
  CASE c = "stop"    -> [seen EXCEPT !.paused = TRUE]
    [] c = "start"   -> [seen EXCEPT !.paused = FALSE, !.capOff = TRUE]
    [] c = "cap_on"  -> [seen EXCEPT !.capOff = FALSE, !.explicit = TRUE]
    [] c = "cap_off" -> [seen EXCEPT !.capOff = TRUE, !.explicit = TRUE]

\* A bug: the row is written in the form it had before caps were explicit.
Written_DropsExplicit(c, seen) ==
  [paused |-> (c = "stop" \/ (c # "start" /\ seen.paused)),
   capOff |-> (c \in {"start", "cap_off"} \/ (c = "stop" /\ seen.capOff))]

\* What setInactivityMovementPaused and setInactivityDailyCap make of the row:
\* switching on lifts the cap unless it was set explicitly.
Written(c, seen) ==
  CASE c = "stop"    -> [seen EXCEPT !.paused = TRUE]
    [] c = "start"   -> [seen EXCEPT !.paused = FALSE, !.capOff = @ \/ ~seen.explicit]
    [] c = "cap_on"  -> [seen EXCEPT !.capOff = FALSE, !.explicit = TRUE]
    [] c = "cap_off" -> [seen EXCEPT !.capOff = TRUE, !.explicit = TRUE]

\* writeSwitch
WriteSwitch(o) ==
  /\ op[o].pc = "writing"
  /\ row' = Written(op[o].cmd, op[o].seen)
  /\ op' = [op EXCEPT ![o] = IF op[o].cmd = "stop" THEN [@ EXCEPT !.pc = "clearing"]
                             ELSE NoCommand]
  /\ UNCHANGED <<hook, pass, watch, touches, since, off>>

\* A bug: the stop forgets the watches a worker has leased.
Cleared_WatchingOnly(w) == IF w.state = "watching" THEN StopClear(w) ELSE w

Cleared(w) == StopClear(w)

\* clearActiveInactivityWatches; a mutating watch is spared.
ClearActiveWatches(o) ==
  /\ op[o].pc = "clearing"
  /\ watch' = [l \in Leads |-> Cleared(watch[l])]
  /\ since' = [l \in Leads |-> IF watch[l].state = "mutating" THEN "spared" ELSE "cleared"]
  /\ op' = [op EXCEPT ![o] = NoCommand]
  /\ off' = (\A q \in Operators : q # o => op[q].cmd # "start")
  /\ UNCHANGED <<row, hook, pass, touches>>

-----------------------------------------------------------------------------
(* The webhook: the flag once, then per event the lead and the record.     *)

\* isMovementStopped; while it says so the events are ignored.
ReceiveWebhook(h) ==
  /\ hook[h] = NoLead
  /\ ~row.paused
  /\ \E l \in Leads : touches[l] < MaxTouch /\ hook' = [hook EXCEPT ![h] = l]
  /\ UNCHANGED <<row, op, pass, watch, touches, since, off>>

\* recordLeadEvent of a touch newer than those recorded (WatchLedger has the
\* other orders), or the lead read by then is out of the source stages; the
\* next event of the body follows without another look at the flag.
RecordTouch(h) ==
  LET l == hook[h] IN
  /\ l # NoLead
  /\ \E next \in Leads \cup {NoLead} : hook' = [hook EXCEPT ![h] = next]
  /\ \/ UNCHANGED <<watch, touches, since>>
     \/ /\ touches[l] < MaxTouch
        /\ touches' = [touches EXCEPT ![l] = @ + 1]
        /\ watch' = [watch EXCEPT ![l] =
                       RecordEvent(@, [fp |-> "touch", at |-> touches'[l], recv |-> 0])]
        /\ since' = [since EXCEPT ![l] = "touched"]
  /\ UNCHANGED <<row, op, pass, off>>

-----------------------------------------------------------------------------
(* The worker pass.                                                        *)

ClaimOfPass == [token |-> Pass, gen |-> pass.gen]

\* A bug: the pass does not ask the switch.
StartPass_IgnoresSwitch ==
  /\ pass.pc = "idle"
  /\ pass' = [pass EXCEPT !.pc = "releasing"]
  /\ UNCHANGED <<row, op, hook, watch, touches, since, off>>

\* isInactivityMovementPaused, before anything else
StartPass ==
  /\ pass.pc = "idle"
  /\ ~row.paused
  /\ pass' = [pass EXCEPT !.pc = "releasing"]
  /\ UNCHANGED <<row, op, hook, watch, touches, since, off>>

\* releaseExpiredWatchLeases, of dead passes only, and the list of due leads
ReleaseAndList ==
  /\ pass.pc = "releasing"
  /\ \E L \in SUBSET {l \in Leads : watch[l].state \in ClaimStates} :
       watch' = [l \in Leads |-> IF l \in L THEN ReleaseLease(watch[l]) ELSE watch[l]]
  /\ pass' = [pass EXCEPT !.pc = "claiming",
                          !.todo = {l \in Leads : Claimable(watch'[l])}]
  /\ UNCHANGED <<row, op, hook, touches, since, off>>

ClaimDueWatch ==
  /\ pass.pc = "claiming"
  /\ \E l \in pass.todo :
       /\ Claimable(watch[l])
       /\ watch[l].gen < MaxClaims
       /\ watch' = [watch EXCEPT ![l] = Claim(@, Pass)]
       /\ pass' = [pc |-> "claimed", todo |-> pass.todo \ {l}, lead |-> l,
                   gen |-> watch'[l].gen]
  /\ UNCHANGED <<row, op, hook, touches, since, off>>

BeginMoveMutation ==
  /\ pass.pc = "claimed"
  /\ IF IsClaimCurrent(watch[pass.lead], ClaimOfPass)
     THEN /\ watch' = [watch EXCEPT ![pass.lead] = BeginMove(@)]
          /\ pass' = [pass EXCEPT !.pc = "moving"]
     ELSE /\ pass' = [NoPass EXCEPT !.pc = "claiming", !.todo = pass.todo]
          /\ UNCHANGED watch
  /\ UNCHANGED <<row, op, hook, touches, since, off>>

\* The move ends in any way: finishWatchClaim, if its fence still holds.
FinishMove ==
  /\ pass.pc = "moving"
  /\ IF IsFinishable(watch[pass.lead], ClaimOfPass)
     THEN \E s \in FinalStates \cup {"watching"} :
            watch' = [watch EXCEPT ![pass.lead] = Finish(@, s)]
     ELSE UNCHANGED watch
  /\ pass' = [NoPass EXCEPT !.pc = "claiming", !.todo = pass.todo]
  /\ UNCHANGED <<row, op, hook, touches, since, off>>

\* The pass is over, or its process died.
EndPass ==
  /\ pass.pc # "idle"
  /\ pass' = NoPass
  /\ UNCHANGED <<row, op, hook, watch, touches, since, off>>

\* The inactivity delay (72 hours) passes for a lead.  No command, webhook or
\* pass is under way for that long.
BecomeDue(l) ==
  /\ watch[l].state # "none" /\ ~watch[l].due
  /\ pass.pc = "idle"
  /\ \A h \in Hooks : hook[h] = NoLead
  /\ \A o \in Operators : op[o].pc = "idle"
  /\ watch' = [watch EXCEPT ![l].due = TRUE]
  /\ UNCHANGED <<row, op, hook, pass, touches, since, off>>

Next ==
  \/ \E o \in Operators : \/ \E c \in Commands : ReadSwitch(o, c)
                          \/ WriteSwitch(o) \/ ClearActiveWatches(o)
  \/ \E h \in Hooks : ReceiveWebhook(h) \/ RecordTouch(h)
  \/ StartPass \/ ReleaseAndList \/ ClaimDueWatch
  \/ BeginMoveMutation \/ FinishMove \/ EndPass
  \/ \E l \in Leads : BecomeDue(l)

Spec == Init /\ [][Next]_vars

-----------------------------------------------------------------------------
(* Properties.                                                             *)

Switches == [paused : BOOLEAN, capOff : BOOLEAN, explicit : BOOLEAN]

TypeOK ==
  /\ row \in Switches
  /\ op \in [Operators -> [pc : {"idle", "writing", "clearing"},
                           cmd : Commands \cup {"none"}, seen : Switches]]
  /\ hook \in [Hooks -> Leads \cup {NoLead}]
  /\ pass \in [pc : {"idle", "releasing", "claiming", "claimed", "moving"},
               todo : SUBSET Leads, lead : Leads \cup {NoLead}, gen : 0..MaxClaims]
  /\ watch \in [Leads -> [state : WatchStates \cup {"none"}, at : 0..MaxTouch,
                          recv : {0}, fp : {"touch", NoFingerprint}, cycle : Nat,
                          gen : 0..MaxClaims, token : {Pass, NoToken},
                          due : BOOLEAN, lapsed : {FALSE}]]
  /\ touches \in [Leads -> 0..MaxTouch]
  /\ since \in [Leads -> {"touched", "cleared", "spared"}]
  /\ off \in BOOLEAN

ClaimedIn(l) == watch[l].state = "watching" /\ watch'[l].state = "leased"
MoveBegunIn(l) == watch[l].state = "leased" /\ watch'[l].state = "mutating"

\* While moves are stopped the worker takes up no lead and begins no move,
\* but for a lead that was already in mid-move when the queue was cleared:
\* neither a pass that was under way, nor one that starts, nor a webhook that
\* had read the flag before the stop changes that.
StopHolds ==
  [][off => \A l \in Leads : ClaimedIn(l) \/ MoveBegunIn(l) => since[l] = "spared"]_vars

\* A watch that a stop cleared stays dropped: its lead is claimed again only
\* after its next touch, whatever its old claimant, the commands and the lease
\* sweep do.
ClearedStaysDropped ==
  [][\A l \in Leads : ClaimedIn(l) => since[l] # "cleared"]_vars

\* An explicit choice of the cap outlives every switching on and off
\* (dailyCapExplicit; docs/admin-commands.md).
ExplicitCapStays ==
  [][row.explicit =>
       /\ row'.explicit
       /\ row'.capOff # row.capOff =>
            \E o \in Operators : op[o].cmd \in {"cap_on", "cap_off"}]_vars

\* The comment on setInactivityMovementPaused: a webhook racing with the stop
\* cannot re-create a watch in the gap.
StopLeavesNoWatch ==
  off => \A l \in Leads : watch[l].state \notin {"watching", "leased"}
=============================================================================
