------------------------ MODULE MovementSwitch_proofs ------------------------
(***************************************************************************)
(* The operator switch stops the moves, for any number of leads, webhooks  *)
(* and operators.  What a stop cleared stays dropped however the commands  *)
(* interleave.  The row is read and written back whole, without a lock, so *)
(* two operators can undo each other: a stop holds as long as the row says *)
(* so (FlagIsUp), an explicit cap stays unless a command overwrites what   *)
(* it has not read (StaleWrite), and one operator alone does neither       *)
(* (OneCommand).                                                           *)
(***************************************************************************)
EXTENDS MovementSwitch, Integers, TLAPS

\* No two operators are in the middle of a command at the same time.
OneCommand ==
  \A o, q \in Operators : op[o].pc # "idle" /\ op[q].pc # "idle" => o = q

\* After a completed stop the row says that moves are stopped.
FlagIsUp == off => row.paused

\* A command writes the row, which has changed since it was read.
StaleWrite == \E o \in Operators : WriteSwitch(o) /\ op[o].seen # row

\* A watch that the last stop cleared is out of the worker's reach.
ClearedIsInert ==
  \A l \in Leads : since[l] = "cleared" => watch[l].state \in {"none"} \cup FinalStates

\* The activity of a watch is one of the touches recorded.
TouchesAreCounted == \A l \in Leads : watch[l].at <= touches[l]

\* What an operator writes is one of the commands.
CommandIsGiven == \A o \in Operators : op[o].pc = "writing" => op[o].cmd # "none"

\* The row is as the command in progress has read it, and a stop that has written it
\* is followed by its clearing.
CommandsFollowTheRow ==
  \A o \in Operators :
    /\ op[o].pc = "idle" => op[o].cmd = "none"
    /\ op[o].pc = "writing" => op[o].seen = row
    /\ op[o].pc = "clearing" => op[o].cmd = "stop" /\ row.paused

\* While moves are off the flag is up and nobody is switching them on.
OffIsOff == off => row.paused /\ \A o \in Operators : op[o].cmd # "start"

\* While moves are off a lead that was touched since is not due in the time of a pass.
Quiet ==
  off => \A l \in Leads : since[l] = "touched" =>
           watch[l].state # "leased" /\ (pass.pc # "idle" => ~watch[l].due)

Always == TypeOK /\ CommandIsGiven /\ ClearedIsInert /\ TouchesAreCounted
IInv == Always /\ CommandsFollowTheRow /\ OffIsOff
StopInv == Always /\ Quiet

-----------------------------------------------------------------------------
(* The row operations.                                                     *)

WatchRows ==
  [state : WatchStates \cup {"none"}, at : 0..MaxTouch, recv : {0},
   fp : {"touch", NoFingerprint}, cycle : Nat, gen : 0..MaxClaims,
   token : {Pass, NoToken}, due : BOOLEAN, lapsed : {FALSE}]

Passes == [pc : {"idle", "releasing", "claiming", "claimed", "moving"},
           todo : SUBSET Leads, lead : Leads \cup {NoLead}, gen : 0..MaxClaims]

Ops == [pc : {"idle", "writing", "clearing"}, cmd : Commands \cup {"none"}, seen : Switches]

\* What each operation on a watch leaves: a row, and where it stands.
LEMMA RowFacts ==
  ASSUME NEW w \in WatchRows
  PROVE  /\ StopClear(w) \in WatchRows /\ StopClear(w).at = w.at
         /\ w.state # "mutating" => StopClear(w).state \in {"none"} \cup FinalStates
         /\ w.state = "mutating" => StopClear(w) = w
         /\ ReleaseLease(w) \in WatchRows /\ ReleaseLease(w).at = w.at
         /\ ReleaseLease(w).state = "watching" /\ ReleaseLease(w).due = w.due
         /\ BeginMove(w) \in WatchRows /\ BeginMove(w).at = w.at
         /\ BeginMove(w).state = "mutating" /\ BeginMove(w).due = w.due
         /\ \A s \in FinalStates \cup {"watching"} :
              /\ Finish(w, s) \in WatchRows /\ Finish(w, s).at = w.at
              /\ Finish(w, s).state = s /\ Finish(w, s).due = w.due
         /\ w.gen < MaxClaims =>
              /\ Claim(w, Pass) \in WatchRows /\ Claim(w, Pass).at = w.at
              /\ Claim(w, Pass).state = "leased"
<1> USE BoundAssumption DEF WatchRows, WatchStates, FinalStates
<1>1. /\ StopClear(w) \in WatchRows /\ StopClear(w).at = w.at
      /\ w.state # "mutating" => StopClear(w).state \in {"none"} \cup FinalStates
      /\ w.state = "mutating" => StopClear(w) = w
  BY DEF StopClear
<1>2. /\ ReleaseLease(w) \in WatchRows /\ ReleaseLease(w).at = w.at
      /\ ReleaseLease(w).state = "watching" /\ ReleaseLease(w).due = w.due
  BY DEF ReleaseLease
<1>3. /\ BeginMove(w) \in WatchRows /\ BeginMove(w).at = w.at
      /\ BeginMove(w).state = "mutating" /\ BeginMove(w).due = w.due
  BY DEF BeginMove
<1>4. ASSUME NEW s \in FinalStates \cup {"watching"}
      PROVE  /\ Finish(w, s) \in WatchRows /\ Finish(w, s).at = w.at
             /\ Finish(w, s).state = s /\ Finish(w, s).due = w.due
  BY DEF Finish
<1>5. ASSUME w.gen < MaxClaims
      PROVE  /\ Claim(w, Pass) \in WatchRows /\ Claim(w, Pass).at = w.at
             /\ Claim(w, Pass).state = "leased"
  <2>1. w.gen + 1 \in 0..MaxClaims
    BY <1>5
  <2> QED BY <2>1 DEF Claim
<1> QED BY <1>1, <1>2, <1>3, <1>4, <1>5

\* A touch newer than the watch starts it again, not yet due.
LEMMA TouchFact ==
  ASSUME NEW w \in WatchRows, NEW t \in 0..MaxTouch, w.at < t
  PROVE  LET e == [fp |-> "touch", at |-> t, recv |-> 0] IN
         /\ RecordEvent(w, e) \in WatchRows
         /\ RecordEvent(w, e).at = t /\ RecordEvent(w, e).state = "watching"
         /\ ~RecordEvent(w, e).due
<1> DEFINE e == [fp |-> "touch", at |-> t, recv |-> 0]
<1> USE BoundAssumption DEF WatchRows, WatchStates
<1>1. CASE w.state = "none"
  <2>1. RecordEvent(w, e) = NewWatch(e)
    BY <1>1 DEF RecordEvent
  <2>2. /\ e.at = t /\ e.recv = 0 /\ e.fp = "touch"
        /\ 0 \in 0..MaxTouch /\ 0 \in 0..MaxClaims
    OBVIOUS
  <2> HIDE DEF e
  <2>3. Absent \in WatchRows
    BY <2>2 DEF Absent
  <2>4. NewWatch(e) \in WatchRows
    BY <2>2, <2>3 DEF NewWatch
  <2>5. NewWatch(e).at = t /\ NewWatch(e).state = "watching" /\ NewWatch(e).due = FALSE
    BY <2>2 DEF NewWatch, Absent
  <2> QED BY <2>1, <2>4, <2>5 DEF e
<1>2. CASE w.state # "none"
  <2>1. Before(w, e) /\ ~SamePosition(w, e)
    BY DEF Before, SamePosition
  <2>2. RecordEvent(w, e) = Advance(w, e)
    BY <1>2, <2>1 DEF RecordEvent
  <2>3. (IF w.state = "moved" THEN w.cycle + 1 ELSE w.cycle) \in Nat
    OBVIOUS
  <2> QED BY <2>2, <2>3 DEF Advance
<1> QED BY <1>1, <1>2

\* What a command writes.
LEMMA WrittenFact ==
  ASSUME NEW c \in Commands, NEW seen \in Switches
  PROVE  /\ Written(c, seen) \in Switches
         /\ c = "stop" => Written(c, seen).paused
         /\ c # "start" /\ seen.paused => Written(c, seen).paused
         /\ seen.explicit => Written(c, seen).explicit
         /\ seen.explicit /\ c \in {"stop", "start"} => Written(c, seen).capOff = seen.capOff
<1>1. CASE c = "stop"
  BY <1>1 DEF Written, Switches
<1>2. CASE c = "start"
  <2>1. (seen.capOff \/ ~seen.explicit) \in BOOLEAN
    BY Zenon
  <2>2. seen.explicit => (seen.capOff \/ ~seen.explicit) = seen.capOff
    <3>1. seen.capOff \in BOOLEAN
      BY DEF Switches
    <3> QED BY <3>1, Zenon
  <2>3. PICK b : b = (seen.capOff \/ ~seen.explicit)
    OBVIOUS
  <2>4. Written(c, seen) = [seen EXCEPT !.paused = FALSE, !.capOff = b]
    BY <1>2, <2>3 DEF Written
  <2> QED BY <1>2, <2>1, <2>2, <2>3, <2>4 DEF Switches
<1>3. CASE c = "cap_on"
  BY <1>3 DEF Written, Switches
<1>4. CASE c = "cap_off"
  BY <1>4 DEF Written, Switches
<1> QED BY <1>1, <1>2, <1>3, <1>4 DEF Commands

LEMMA InitHolds == Init => IInv /\ StopInv
<1> SUFFICES ASSUME Init PROVE IInv /\ StopInv
  OBVIOUS
<1>1. Absent \in WatchRows /\ Absent.at = 0 /\ Absent.state = "none"
  BY BoundAssumption DEF Absent, WatchRows, WatchStates
<1>2. Untouched \in Switches /\ NoCommand \in Ops /\ NoCommand.pc = "idle"
      /\ NoCommand.cmd = "none"
  BY DEF Untouched, NoCommand, Switches, Ops
<1>3. NoPass \in Passes
  BY BoundAssumption DEF NoPass, Passes
<1>4. TypeOK
  BY <1>1, <1>2, <1>3, BoundAssumption DEF Init, TypeOK, WatchRows, Passes, Ops
<1> QED
  BY <1>1, <1>2, <1>4
     DEF Init, IInv, StopInv, Always, CommandIsGiven, ClearedIsInert, TouchesAreCounted,
         CommandsFollowTheRow, OffIsOff, Quiet

-----------------------------------------------------------------------------
(* The steps.                                                              *)

LEMMA Typed ==
  TypeOK <=> /\ row \in Switches /\ op \in [Operators -> Ops]
             /\ hook \in [Hooks -> Leads \cup {NoLead}] /\ pass \in Passes
             /\ watch \in [Leads -> WatchRows] /\ touches \in [Leads -> 0..MaxTouch]
             /\ since \in [Leads -> {"touched", "cleared", "spared"}] /\ off \in BOOLEAN
BY DEF TypeOK, Ops, Passes, WatchRows

LEMMA TypedNext ==
  TypeOK' <=> /\ row' \in Switches /\ op' \in [Operators -> Ops]
              /\ hook' \in [Hooks -> Leads \cup {NoLead}] /\ pass' \in Passes
              /\ watch' \in [Leads -> WatchRows] /\ touches' \in [Leads -> 0..MaxTouch]
              /\ since' \in [Leads -> {"touched", "cleared", "spared"}] /\ off' \in BOOLEAN
BY DEF TypeOK, Ops, Passes, WatchRows

\* A recorded touch leaves a watch that is not due, and counts.
LEMMA RecordStep ==
  ASSUME TypeOK, TouchesAreCounted, NEW h \in Hooks, RecordTouch(h)
  PROVE  /\ UNCHANGED <<row, op, pass, off>>
         /\ hook' \in [Hooks -> Leads \cup {NoLead}]
         /\ \/ UNCHANGED <<watch, touches, since>>
            \/ \E l \in Leads, w \in WatchRows, t \in 0..MaxTouch :
                 /\ w.at = t /\ w.state = "watching" /\ ~w.due
                 /\ touches' = [touches EXCEPT ![l] = t]
                 /\ watch' = [watch EXCEPT ![l] = w]
                 /\ since' = [since EXCEPT ![l] = "touched"]
<1> DEFINE l == hook[h]
<1>1. /\ UNCHANGED <<row, op, pass, off>> /\ l # NoLead /\ l \in Leads
      /\ hook' \in [Hooks -> Leads \cup {NoLead}]
  BY Typed DEF RecordTouch
<1>2. CASE UNCHANGED <<watch, touches, since>>
  BY <1>1, <1>2
<1>3. CASE ~UNCHANGED <<watch, touches, since>>
  <2> DEFINE t == touches[l] + 1
             w == RecordEvent(watch[l], [fp |-> "touch", at |-> t, recv |-> 0])
  <2>1. /\ touches[l] < MaxTouch /\ touches' = [touches EXCEPT ![l] = t]
        /\ watch' = [watch EXCEPT ![l] =
                       RecordEvent(watch[l], [fp |-> "touch", at |-> touches'[l], recv |-> 0])]
        /\ since' = [since EXCEPT ![l] = "touched"]
    BY <1>3 DEF RecordTouch
  <2>2. touches[l] \in 0..MaxTouch /\ watch[l] \in WatchRows /\ watch[l].at <= touches[l]
    BY <1>1, Typed DEF TouchesAreCounted
  <2>3. t \in 0..MaxTouch /\ watch[l].at < t
    <3>1. \A x, y \in 0..MaxTouch : x <= y /\ y < MaxTouch => y + 1 \in 0..MaxTouch /\ x < y + 1
      BY BoundAssumption
    <3>2. watch[l].at \in 0..MaxTouch
      BY <2>2 DEF WatchRows
    <3> QED BY <2>1, <2>2, <3>1, <3>2
  <2>4. touches'[l] = t
    BY <1>1, <2>1, Typed
  <2>5. w \in WatchRows /\ w.at = t /\ w.state = "watching" /\ ~w.due
    BY <2>2, <2>3, TouchFact
  <2>6. watch' = [watch EXCEPT ![l] = w]
    BY <2>1, <2>4
  <2> QED BY <1>1, <2>1, <2>3, <2>5, <2>6
<1> QED BY <1>2, <1>3

\* Of the leads only those of the worker's own claim change hands.
LEMMA PassStep ==
  ASSUME TypeOK, ReleaseAndList \/ ClaimDueWatch \/ BeginMoveMutation \/ FinishMove
  PROVE  /\ UNCHANGED <<row, op, hook, touches, since, off>>
         /\ pass' \in Passes /\ watch' \in [Leads -> WatchRows]
         /\ pass.pc # "idle"
         /\ \A l \in Leads :
              /\ watch'[l].at = watch[l].at
              /\ \/ watch'[l] = watch[l]
                 \/ /\ watch[l].state \in ClaimStates /\ watch'[l].state # "leased"
                    /\ watch'[l].due = watch[l].due
                 \/ /\ watch[l].state = "watching" /\ watch[l].due /\ ClaimDueWatch
<1> USE DEF ClaimStates
<1>0. pass \in Passes /\ NoPass \in Passes
  BY Typed, BoundAssumption DEF NoPass, Passes
<1>1. CASE ReleaseAndList
  <2>1. PICK L \in SUBSET {l \in Leads : watch[l].state \in ClaimStates} :
          watch' = [l \in Leads |-> IF l \in L THEN ReleaseLease(watch[l]) ELSE watch[l]]
    BY <1>1 DEF ReleaseAndList
  <2>2. \A l \in Leads : watch[l] \in WatchRows
    BY Typed
  <2>3. watch' \in [Leads -> WatchRows]
    BY <2>1, <2>2, RowFacts
  <2>4. UNCHANGED <<row, op, hook, touches, since, off>> /\ pass.pc # "idle" /\ pass' \in Passes
    BY <1>1, Typed DEF ReleaseAndList, Passes
  <2> QED BY <2>1, <2>2, <2>3, <2>4, RowFacts
<1>2. CASE ClaimDueWatch
  <2>1. PICK l \in pass.todo :
          /\ Claimable(watch[l]) /\ watch[l].gen < MaxClaims
          /\ watch' = [watch EXCEPT ![l] = Claim(@, Pass)]
          /\ pass' = [pc |-> "claimed", todo |-> pass.todo \ {l}, lead |-> l, gen |-> watch'[l].gen]
    BY <1>2 DEF ClaimDueWatch
  <2>2. l \in Leads /\ watch[l] \in WatchRows /\ pass.todo \subseteq Leads
    BY Typed DEF Passes
  <2>3. Claim(watch[l], Pass) \in WatchRows /\ Claim(watch[l], Pass).at = watch[l].at
        /\ watch[l].state = "watching" /\ watch[l].due
    BY <2>1, <2>2, RowFacts DEF Claimable
  <2>4. watch' \in [Leads -> WatchRows] /\ watch'[l] = Claim(watch[l], Pass)
        /\ \A k \in Leads \ {l} : watch'[k] = watch[k]
    BY <2>1, <2>2, <2>3, Typed
  <2>5. watch'[l].gen \in 0..MaxClaims
    BY <2>2, <2>4 DEF WatchRows
  <2>6. pass' \in Passes
    BY <2>1, <2>2, <2>5 DEF Passes
  <2>7. UNCHANGED <<row, op, hook, touches, since, off>> /\ pass.pc # "idle"
    BY <1>2 DEF ClaimDueWatch
  <2> QED BY <1>2, <2>2, <2>3, <2>4, <2>6, <2>7
<1>3. CASE BeginMoveMutation
  <2>1. UNCHANGED <<row, op, hook, touches, since, off>> /\ pass.pc = "claimed"
    BY <1>3 DEF BeginMoveMutation
  <2>2. CASE UNCHANGED watch
    <3>1. pass' = [pass EXCEPT !.pc = "moving"]
          \/ pass' = [NoPass EXCEPT !.pc = "claiming", !.todo = pass.todo]
      BY <1>3 DEF BeginMoveMutation
    <3>2. pass' \in Passes
      BY <1>0, <3>1 DEF Passes
    <3> QED BY <2>1, <2>2, <3>2, Typed
  <2>3. CASE ~UNCHANGED watch
    <3>1. IsClaimCurrent(watch[pass.lead], ClaimOfPass) /\ pass' = [pass EXCEPT !.pc = "moving"]
          /\ watch' = [watch EXCEPT ![pass.lead] = BeginMove(@)]
      BY <1>3, <2>3 DEF BeginMoveMutation
    <3>2. pass.lead \in Leads
      BY <2>3, <3>1, Typed
    <3>3. watch[pass.lead] \in WatchRows /\ watch[pass.lead].state = "leased"
      BY <3>1, <3>2, Typed DEF IsClaimCurrent
    <3>4. pass' \in Passes
      BY <1>0, <3>1 DEF Passes
    <3>5. BeginMove(watch[pass.lead]) \in WatchRows
          /\ BeginMove(watch[pass.lead]).at = watch[pass.lead].at
          /\ BeginMove(watch[pass.lead]).state = "mutating"
          /\ BeginMove(watch[pass.lead]).due = watch[pass.lead].due
      BY <3>3, RowFacts
    <3>6. watch' \in [Leads -> WatchRows] /\ watch'[pass.lead] = BeginMove(watch[pass.lead])
          /\ \A l \in Leads \ {pass.lead} : watch'[l] = watch[l]
      BY <3>1, <3>2, <3>5, Typed
    <3> QED BY <2>1, <3>2, <3>3, <3>4, <3>5, <3>6
  <2> QED BY <2>2, <2>3
<1>4. CASE FinishMove
  <2>1. UNCHANGED <<row, op, hook, touches, since, off>> /\ pass.pc = "moving"
        /\ pass' = [NoPass EXCEPT !.pc = "claiming", !.todo = pass.todo]
    BY <1>4 DEF FinishMove
  <2>a. pass' \in Passes
    BY <1>0, <2>1 DEF Passes
  <2>2. CASE UNCHANGED watch
    BY <2>1, <2>a, <2>2, Typed
  <2>3. CASE ~UNCHANGED watch
    <3>1. PICK s \in FinalStates \cup {"watching"} :
            watch' = [watch EXCEPT ![pass.lead] = Finish(@, s)]
      BY <1>4, <2>3 DEF FinishMove
    <3>2. pass.lead \in Leads
      BY <2>3, <3>1, Typed
    <3>3. watch[pass.lead] \in WatchRows /\ watch[pass.lead].state \in ClaimStates
      BY <1>4, <2>3, <3>2, Typed DEF FinishMove, IsFinishable
    <3>4. s # "leased"
      BY DEF FinalStates
    <3>5. Finish(watch[pass.lead], s) \in WatchRows
          /\ Finish(watch[pass.lead], s).at = watch[pass.lead].at
          /\ Finish(watch[pass.lead], s).state = s
          /\ Finish(watch[pass.lead], s).due = watch[pass.lead].due
      BY <3>3, RowFacts
    <3>6. watch' \in [Leads -> WatchRows] /\ watch'[pass.lead] = Finish(watch[pass.lead], s)
          /\ \A l \in Leads \ {pass.lead} : watch'[l] = watch[l]
      BY <3>1, <3>2, <3>5, Typed
    <3> QED BY <2>1, <2>a, <3>2, <3>3, <3>4, <3>5, <3>6
  <2> QED BY <2>2, <2>3
<1> QED BY <1>1, <1>2, <1>3, <1>4

\* What a command's steps leave: they touch no lead but for the clearing.
LEMMA CommandStep ==
  ASSUME TypeOK, CommandIsGiven, NEW o \in Operators,
         (\E c \in Commands : ReadSwitch(o, c)) \/ WriteSwitch(o) \/ ClearActiveWatches(o)
  PROVE  /\ CommandIsGiven'
         /\ row' \in Switches /\ op' \in [Operators -> Ops] /\ off' \in BOOLEAN
         /\ \A q \in Operators \ {o} : op'[q] = op[q]
         /\ UNCHANGED <<hook, pass, touches>>
         /\ watch' \in [Leads -> WatchRows]
         /\ since' \in [Leads -> {"touched", "cleared", "spared"}]
         /\ \/ UNCHANGED <<watch, since>>
            \/ \A l \in Leads :
                 /\ watch'[l].at = watch[l].at
                 /\ \/ since'[l] = "cleared" /\ watch'[l].state \in {"none"} \cup FinalStates
                    \/ since'[l] = "spared" /\ watch'[l] = watch[l] /\ watch[l].state = "mutating"
<1>0. row \in Switches /\ op[o] \in Ops /\ NoCommand \in Ops /\ NoCommand.pc = "idle"
  BY Typed DEF NoCommand, Untouched, Switches, Ops
<1>1. ASSUME NEW c \in Commands, ReadSwitch(o, c)
      PROVE  /\ row' \in Switches /\ op' \in [Operators -> Ops] /\ off' \in BOOLEAN
             /\ \A q \in Operators \ {o} : op'[q] = op[q]
             /\ UNCHANGED <<hook, pass, touches, watch, since>>
             /\ op'[o].cmd # "none"
  <2>1. [pc |-> "writing", cmd |-> c, seen |-> row] \in Ops
    BY <1>0 DEF Ops
  <2>2. off' \in BOOLEAN
    BY <1>1, Typed, Zenon DEF ReadSwitch
  <2>3. c # "none"
    BY DEF Commands
  <2> QED BY <1>1, <2>1, <2>2, <2>3, Typed DEF ReadSwitch
<1>2. CASE WriteSwitch(o)
  <2>1. op[o].cmd \in Commands /\ op[o].seen \in Switches
    BY <1>0, <1>2 DEF Ops, WriteSwitch, CommandIsGiven
  <2>2. op' = [op EXCEPT ![o] = IF op[o].cmd = "stop" THEN [@ EXCEPT !.pc = "clearing"]
                                ELSE NoCommand]
        /\ UNCHANGED <<hook, pass, watch, touches, since, off>>
    BY <1>2 DEF WriteSwitch
  <2>3. op' \in [Operators -> Ops] /\ \A q \in Operators \ {o} : op'[q] = op[q]
    <3>1. [op[o] EXCEPT !.pc = "clearing"] \in Ops
      BY <1>0 DEF Ops
    <3> QED BY <1>0, <2>2, <3>1, Typed
  <2>4. row' \in Switches
    BY <1>2, <2>1, WrittenFact DEF WriteSwitch
  <2>5. op'[o].pc # "writing"
    <3>1. [op[o] EXCEPT !.pc = "clearing"].pc = "clearing"
      BY <1>0 DEF Ops
    <3> QED BY <1>0, <2>2, <3>1, Typed
  <2> QED BY <2>2, <2>3, <2>4, <2>5, Typed DEF CommandIsGiven
<1>3. CASE ClearActiveWatches(o)
  <2>1. /\ watch' = [l \in Leads |-> StopClear(watch[l])]
        /\ since' = [l \in Leads |-> IF watch[l].state = "mutating" THEN "spared" ELSE "cleared"]
        /\ op' = [op EXCEPT ![o] = NoCommand]
        /\ UNCHANGED <<row, hook, pass, touches>>
    BY <1>3 DEF ClearActiveWatches, Cleared
  <2>2. off' \in BOOLEAN
    BY <1>3, Zenon DEF ClearActiveWatches
  <2>3. \A l \in Leads : watch[l] \in WatchRows
    BY Typed
  <2>4. watch' \in [Leads -> WatchRows]
    BY <2>1, <2>3, RowFacts
  <2>5. \A l \in Leads :
          /\ watch'[l].at = watch[l].at
          /\ \/ since'[l] = "cleared" /\ watch'[l].state \in {"none"} \cup FinalStates
             \/ since'[l] = "spared" /\ watch'[l] = watch[l] /\ watch[l].state = "mutating"
    BY <2>1, <2>3, RowFacts
  <2>6. op' \in [Operators -> Ops] /\ \A q \in Operators \ {o} : op'[q] = op[q]
        /\ op'[o].pc # "writing"
    BY <1>0, <2>1, Typed
  <2> QED BY <1>0, <2>1, <2>2, <2>4, <2>5, <2>6 DEF CommandIsGiven
<1> QED BY <1>1, <1>2, <1>3, Typed DEF CommandIsGiven

\* What a stop cleared comes back only by a touch, whatever the operators do.
LEMMA AlwaysStep == Always /\ [Next]_vars => Always'
<1> SUFFICES ASSUME Always, [Next]_vars PROVE Always'
  OBVIOUS
<1>0. TypeOK /\ CommandIsGiven /\ ClearedIsInert /\ TouchesAreCounted
  BY DEF Always
<1>1. ASSUME NEW o \in Operators,
             (\E c \in Commands : ReadSwitch(o, c)) \/ WriteSwitch(o) \/ ClearActiveWatches(o)
      PROVE  Always'
  <2>1. TypeOK'
    BY <1>0, <1>1, CommandStep, Typed, TypedNext
  <2>2. CommandIsGiven' /\ ClearedIsInert' /\ TouchesAreCounted'
    BY <1>0, <1>1, CommandStep DEF ClearedIsInert, TouchesAreCounted
  <2> QED BY <2>1, <2>2 DEF Always
<1>2. ASSUME NEW h \in Hooks, ReceiveWebhook(h) PROVE Always'
  <2>1. UNCHANGED <<row, op, pass, watch, touches, since, off>>
        /\ hook' \in [Hooks -> Leads \cup {NoLead}]
    BY <1>0, <1>2, Typed DEF ReceiveWebhook
  <2> QED BY <1>0, <2>1, Typed, TypedNext DEF Always, CommandIsGiven, ClearedIsInert,
                                              TouchesAreCounted
<1>3. ASSUME NEW h \in Hooks, RecordTouch(h) PROVE Always'
  <2>1. UNCHANGED <<row, op, pass, off>> /\ hook' \in [Hooks -> Leads \cup {NoLead}]
    BY <1>0, <1>3, RecordStep
  <2>2. CASE UNCHANGED <<watch, touches, since>>
    BY <1>0, <2>1, <2>2, Typed, TypedNext DEF Always, CommandIsGiven, ClearedIsInert,
                                              TouchesAreCounted
  <2>3. ASSUME NEW l \in Leads, NEW w \in WatchRows, NEW t \in 0..MaxTouch,
               w.at = t, touches' = [touches EXCEPT ![l] = t],
               watch' = [watch EXCEPT ![l] = w], since' = [since EXCEPT ![l] = "touched"]
        PROVE  Always'
    <3>1. TypeOK'
      BY <1>0, <2>1, <2>3, Typed, TypedNext
    <3>2. ClearedIsInert'
      BY <1>0, <2>3, Typed DEF ClearedIsInert
    <3>3. TouchesAreCounted'
      BY <1>0, <2>3, Typed, BoundAssumption DEF TouchesAreCounted
    <3> QED BY <1>0, <2>1, <3>1, <3>2, <3>3 DEF Always, CommandIsGiven
  <2> QED BY <1>0, <1>3, <2>2, <2>3, RecordStep
<1>4. ASSUME ReleaseAndList \/ ClaimDueWatch \/ BeginMoveMutation \/ FinishMove PROVE Always'
  <2>1. TypeOK'
    BY <1>0, <1>4, PassStep, Typed, TypedNext
  <2>2. ClearedIsInert' /\ TouchesAreCounted'
    BY <1>0, <1>4, PassStep DEF ClearedIsInert, TouchesAreCounted, FinalStates, ClaimStates
  <2> QED BY <1>0, <1>4, <2>1, <2>2, PassStep DEF Always, CommandIsGiven
<1>5. CASE StartPass \/ EndPass
  <2>1. UNCHANGED <<row, op, hook, watch, touches, since, off>> /\ pass' \in Passes
    BY <1>0, <1>5, Typed, BoundAssumption DEF StartPass, EndPass, Passes, NoPass
  <2> QED BY <1>0, <2>1, Typed, TypedNext DEF Always, CommandIsGiven, ClearedIsInert,
                                              TouchesAreCounted
<1>6. ASSUME NEW l \in Leads, BecomeDue(l) PROVE Always'
  <2>1. watch' = [watch EXCEPT ![l] = [watch[l] EXCEPT !.due = TRUE]]
        /\ UNCHANGED <<row, op, hook, pass, touches, since, off>> /\ watch[l] \in WatchRows
    BY <1>0, <1>6, Typed DEF BecomeDue
  <2>2. /\ [watch[l] EXCEPT !.due = TRUE] \in WatchRows
        /\ [watch[l] EXCEPT !.due = TRUE].at = watch[l].at
        /\ [watch[l] EXCEPT !.due = TRUE].state = watch[l].state
    BY <2>1 DEF WatchRows
  <2>3. watch' \in [Leads -> WatchRows]
        /\ \A k \in Leads : watch'[k].at = watch[k].at /\ watch'[k].state = watch[k].state
    BY <1>0, <2>1, <2>2, Typed
  <2> QED BY <1>0, <2>1, <2>3, Typed, TypedNext DEF Always, CommandIsGiven, ClearedIsInert,
                                                    TouchesAreCounted
<1>7. CASE UNCHANGED vars
  BY <1>0, <1>7 DEF vars, Always, TypeOK, CommandIsGiven, ClearedIsInert, TouchesAreCounted
<1> QED BY <1>1, <1>2, <1>3, <1>4, <1>5, <1>6, <1>7 DEF Next

\* Of two commands that do not overlap the second has read what the first wrote.
LEMMA RowStep ==
  IInv /\ OneCommand /\ OneCommand' /\ [Next]_vars => CommandsFollowTheRow' /\ OffIsOff'
<1> SUFFICES ASSUME IInv, OneCommand, OneCommand', [Next]_vars
             PROVE  CommandsFollowTheRow' /\ OffIsOff'
  OBVIOUS
<1>0. TypeOK /\ CommandIsGiven /\ CommandsFollowTheRow /\ OffIsOff
  BY DEF IInv, Always
<1>1. ASSUME NEW o \in Operators, NEW c \in Commands, ReadSwitch(o, c)
      PROVE  CommandsFollowTheRow' /\ OffIsOff'
  <2>1. /\ op' = [op EXCEPT ![o] = [pc |-> "writing", cmd |-> c, seen |-> row]]
        /\ off' = (off /\ c # "start")
        /\ UNCHANGED <<row, hook, pass, watch, touches, since>>
    BY <1>1 DEF ReadSwitch
  <2>2. op'[o].pc = "writing" /\ op'[o].cmd = c /\ op'[o].seen = row
        /\ \A q \in Operators \ {o} : op'[q] = op[q]
    BY <1>0, <2>1, Typed
  <2>3. CommandsFollowTheRow'
    BY <1>0, <2>1, <2>2 DEF CommandsFollowTheRow
  <2>4. off' => off /\ c # "start"
    BY <2>1
  <2>5. OffIsOff'
    BY <1>0, <2>1, <2>2, <2>4 DEF OffIsOff
  <2> QED BY <2>3, <2>5
<1>2. ASSUME NEW o \in Operators, WriteSwitch(o) PROVE CommandsFollowTheRow' /\ OffIsOff'
  <2>1. /\ op[o].pc = "writing" /\ row' = Written(op[o].cmd, op[o].seen)
        /\ op' = [op EXCEPT ![o] = IF op[o].cmd = "stop" THEN [op[o] EXCEPT !.pc = "clearing"]
                                   ELSE NoCommand]
        /\ UNCHANGED <<hook, pass, watch, touches, since, off>>
    BY <1>2 DEF WriteSwitch
  <2>2. op[o] \in Ops /\ op[o].cmd \in Commands /\ op[o].seen = row /\ row \in Switches
    BY <1>0, <2>1, Typed DEF CommandIsGiven, CommandsFollowTheRow, Ops
  <2>3. \A q \in Operators \ {o} : op'[q] = op[q] /\ op[q].pc = "idle"
    BY <1>0, <2>1, Typed DEF OneCommand
  <2>4. \/ op[o].cmd = "stop" /\ op'[o].pc = "clearing" /\ op'[o].cmd = "stop"
        \/ op[o].cmd # "stop" /\ op'[o].pc = "idle" /\ op'[o].cmd = "none"
    <3>1. CASE op[o].cmd = "stop"
      <4>1. op'[o] = [op[o] EXCEPT !.pc = "clearing"]
        BY <1>0, <2>1, <3>1, Typed
      <4> QED BY <2>2, <3>1, <4>1 DEF Ops
    <3>2. CASE op[o].cmd # "stop"
      <4>1. op'[o] = NoCommand
        BY <1>0, <2>1, <3>2, Typed
      <4> QED BY <3>2, <4>1 DEF NoCommand
    <3> QED BY <3>1, <3>2
  <2>5. op[o].cmd = "stop" => row'.paused
    BY <2>1, <2>2, WrittenFact
  <2>6. CommandsFollowTheRow'
    BY <1>0, <2>3, <2>4, <2>5 DEF CommandsFollowTheRow
  <2>7. off => row'.paused
    BY <1>0, <2>1, <2>2, WrittenFact DEF OffIsOff
  <2>8. OffIsOff'
    BY <1>0, <2>1, <2>3, <2>4, <2>7 DEF OffIsOff
  <2> QED BY <2>6, <2>8
<1>3. ASSUME NEW o \in Operators, ClearActiveWatches(o)
      PROVE  CommandsFollowTheRow' /\ OffIsOff'
  <2>1. /\ op[o].pc = "clearing" /\ UNCHANGED <<row, hook, pass, touches>>
        /\ op' = [op EXCEPT ![o] = NoCommand]
        /\ since' = [l \in Leads |-> IF watch[l].state = "mutating" THEN "spared" ELSE "cleared"]
    BY <1>3 DEF ClearActiveWatches
  <2>2. row.paused /\ op'[o].pc = "idle" /\ op'[o].cmd = "none"
        /\ \A q \in Operators \ {o} : op'[q] = op[q] /\ op[q].pc = "idle" /\ op[q].cmd = "none"
    BY <1>0, <2>1, Typed DEF OneCommand, CommandsFollowTheRow, NoCommand
  <2>3. CommandsFollowTheRow'
    BY <1>0, <2>1, <2>2 DEF CommandsFollowTheRow
  <2>4. OffIsOff'
    BY <2>1, <2>2 DEF OffIsOff
  <2> QED BY <2>3, <2>4
<1>4. CASE UNCHANGED <<row, op, off>>
  BY <1>0, <1>4 DEF CommandsFollowTheRow, OffIsOff
<1> QED BY <1>1, <1>2, <1>3, <1>4
        DEF Next, vars, ReceiveWebhook, RecordTouch, StartPass, ReleaseAndList, ClaimDueWatch,
            BeginMoveMutation, FinishMove, EndPass, BecomeDue

\* While the row says that moves are stopped no pass starts, so none is there that a lead
\* touched since could be due for.
LEMMA QuietStep == StopInv /\ FlagIsUp /\ [Next]_vars => Quiet'
<1> SUFFICES ASSUME StopInv, FlagIsUp, [Next]_vars PROVE Quiet'
  OBVIOUS
<1>0. TypeOK /\ TouchesAreCounted /\ CommandIsGiven /\ Quiet
  BY DEF StopInv, Always
<1>1. ASSUME NEW o \in Operators, \/ \E c \in Commands : ReadSwitch(o, c)
                                \/ WriteSwitch(o) \/ ClearActiveWatches(o)
      PROVE  Quiet'
  <2>1. CASE ClearActiveWatches(o)
    <3>1. \A l \in Leads : since'[l] # "touched"
      BY <2>1 DEF ClearActiveWatches
    <3> QED BY <3>1 DEF Quiet
  <2>2. CASE ~ClearActiveWatches(o)
    <3>1. UNCHANGED <<pass, watch, since>>
      BY <1>1, <2>2 DEF ReadSwitch, WriteSwitch
    <3>2. off' => off
      <4>1. ASSUME NEW c \in Commands, ReadSwitch(o, c) PROVE off' => off
        <5>1. off' = (off /\ c # "start")
          BY <4>1 DEF ReadSwitch
        <5> QED BY <5>1
      <4>2. WriteSwitch(o) => off' = off
        BY DEF WriteSwitch
      <4> QED BY <1>1, <2>2, <4>1, <4>2
    <3> QED BY <1>0, <3>1, <3>2 DEF Quiet
  <2> QED BY <2>1, <2>2
<1>2. ASSUME NEW h \in Hooks, ReceiveWebhook(h) PROVE Quiet'
  BY <1>0, <1>2 DEF ReceiveWebhook, Quiet
<1>3. ASSUME NEW h \in Hooks, RecordTouch(h) PROVE Quiet'
  <2>1. UNCHANGED <<pass, off>>
    BY <1>0, <1>3, RecordStep
  <2>2. CASE UNCHANGED <<watch, touches, since>>
    BY <1>0, <2>1, <2>2 DEF Quiet
  <2>3. ASSUME NEW l \in Leads, NEW w \in WatchRows, w.state = "watching", ~w.due,
               watch' = [watch EXCEPT ![l] = w], since' = [since EXCEPT ![l] = "touched"]
        PROVE  Quiet'
    BY <1>0, <2>1, <2>3, Typed DEF Quiet
  <2> QED BY <1>0, <1>3, <2>2, <2>3, RecordStep
<1>4. ASSUME ReleaseAndList \/ ClaimDueWatch \/ BeginMoveMutation \/ FinishMove PROVE Quiet'
  <2>1. UNCHANGED <<row, op, hook, touches, since, off>> /\ pass.pc # "idle"
    BY <1>0, <1>4, PassStep
  <2>2. ASSUME off, NEW l \in Leads, since[l] = "touched"
        PROVE  watch'[l].state # "leased" /\ ~watch'[l].due
    BY <1>0, <1>4, <2>1, <2>2, PassStep DEF Quiet
  <2> QED BY <2>1, <2>2 DEF Quiet
<1>5. CASE StartPass
  BY <1>0, <1>5 DEF StartPass, FlagIsUp, Quiet
<1>6. CASE EndPass
  BY <1>0, <1>6 DEF EndPass, Quiet, NoPass
<1>7. ASSUME NEW l \in Leads, BecomeDue(l) PROVE Quiet'
  <2>1. pass.pc = "idle" /\ UNCHANGED <<pass, since, off>>
        /\ watch' = [watch EXCEPT ![l].due = TRUE]
    BY <1>7 DEF BecomeDue
  <2>2. \A k \in Leads : watch'[k].state = watch[k].state
    BY <1>0, <2>1, Typed DEF WatchRows
  <2> QED BY <1>0, <2>1, <2>2 DEF Quiet
<1>8. CASE UNCHANGED vars
  BY <1>0, <1>8 DEF vars, Quiet
<1> QED BY <1>1, <1>2, <1>3, <1>4, <1>5, <1>6, <1>7, <1>8 DEF Next

LEMMA AlwaysHolds == Spec => []Always
<1>1. Init => Always
  BY InitHolds DEF IInv
<1> QED BY <1>1, AlwaysStep, PTL DEF Spec

\* With one operator at a time the row says what the last command made of it.
LEMMA Invariant == Spec /\ []OneCommand => []IInv
<1>1. IInv /\ OneCommand /\ OneCommand' /\ [Next]_vars => IInv'
  BY AlwaysStep, RowStep DEF IInv
<1> QED BY <1>1, InitHolds, PTL DEF Spec

LEMMA StopInvariant == Spec /\ []FlagIsUp => []StopInv
<1>1. StopInv /\ FlagIsUp /\ [Next]_vars => StopInv'
  BY AlwaysStep, QuietStep DEF StopInv
<1> QED BY <1>1, InitHolds, PTL DEF Spec

\* The switch, the commands, the webhooks, the pass and the watches are well formed.
THEOREM TypeCorrect == Spec => []TypeOK
<1>1. Always => TypeOK
  BY DEF Always
<1> QED BY <1>1, AlwaysHolds, PTL

\* However the commands of the operators interleave with each other, with webhooks and
\* with the worker's pass, a watch that the stop cleared (clearActiveInactivityWatches)
\* is claimed again only after a later touch.
THEOREM ClearedWatchesStayDropped == Spec => ClearedStaysDropped
<1>1. Always /\ [Next]_vars => [\A l \in Leads : ClaimedIn(l) => since[l] # "cleared"]_vars
  <2> SUFFICES ASSUME Always, Next, NEW l \in Leads, ClaimedIn(l) PROVE since[l] # "cleared"
    OBVIOUS
  <2>1. watch[l].state = "watching"
    BY DEF ClaimedIn
  <2> QED BY <2>1 DEF Always, ClearedIsInert, FinalStates
<1> QED BY <1>1, AlwaysHolds, PTL DEF Spec, ClearedStaysDropped

\* As long as the row says so after a stop, a pass begins a claim or a move while moves
\* are off only for a lead that the stop found in mid-move (isInactivityMovementPaused,
\* clearActiveInactivityWatches), however commands, webhooks and the pass interleave.
THEOREM StopsHold == Spec /\ []FlagIsUp => StopHolds
<1> DEFINE Spared == off => \A l \in Leads : ClaimedIn(l) \/ MoveBegunIn(l) => since[l] = "spared"
<1>1. StopInv /\ [Next]_vars => [Spared]_vars
  <2> SUFFICES ASSUME StopInv, Next, off, NEW l \in Leads, ClaimedIn(l) \/ MoveBegunIn(l)
               PROVE  since[l] = "spared"
    OBVIOUS
  <2>0. TypeOK /\ TouchesAreCounted /\ ClearedIsInert /\ Quiet /\ CommandIsGiven
    BY DEF StopInv, Always
  <2>1. watch[l].state \in {"watching", "leased"} /\ watch'[l].state \in {"leased", "mutating"}
        /\ watch[l].state # watch'[l].state
    BY DEF ClaimedIn, MoveBegunIn
  <2>2. since[l] \in {"touched", "spared"}
    BY <2>0, <2>1, Typed DEF ClearedIsInert, FinalStates
  <2>3. SUFFICES ASSUME since[l] = "touched" PROVE FALSE
    BY <2>2
  <2>4. watch[l].state = "watching" /\ watch'[l].state = "leased"
    BY <2>0, <2>3 DEF Quiet, ClaimedIn, MoveBegunIn
  <2>5. CASE ReleaseAndList \/ ClaimDueWatch \/ BeginMoveMutation \/ FinishMove
    BY <2>0, <2>3, <2>4, <2>5, PassStep DEF Quiet, ClaimStates
  <2>6. ASSUME NEW o \in Operators,
               (\E c \in Commands : ReadSwitch(o, c)) \/ WriteSwitch(o) \/ ClearActiveWatches(o)
        PROVE  FALSE
    BY <2>0, <2>4, <2>6, CommandStep DEF FinalStates
  <2>7. ASSUME NEW h \in Hooks, ReceiveWebhook(h) \/ RecordTouch(h) PROVE FALSE
    <3>1. CASE ReceiveWebhook(h)
      BY <2>4, <3>1 DEF ReceiveWebhook
    <3>2. CASE RecordTouch(h)
      BY <2>0, <2>4, <3>2, RecordStep, Typed
    <3> QED BY <2>7, <3>1, <3>2
  <2>8. CASE StartPass \/ EndPass
    BY <2>4, <2>8 DEF StartPass, EndPass
  <2>9. ASSUME NEW k \in Leads, BecomeDue(k) PROVE FALSE
    <3>1. watch' = [watch EXCEPT ![k].due = TRUE]
      BY <2>9 DEF BecomeDue
    <3> QED BY <2>0, <2>4, <3>1, Typed DEF WatchRows
  <2> QED BY <2>5, <2>6, <2>7, <2>8, <2>9 DEF Next
<1> QED BY <1>1, StopInvariant, PTL DEF Spec, StopHolds

\* While the commands of two operators do not overlap the row does say so
\* (setInactivityMovementPaused, setInactivityDailyCap).
THEOREM FlagStaysUp == Spec /\ []OneCommand => []FlagIsUp
<1>1. IInv => FlagIsUp
  BY DEF IInv, OffIsOff, FlagIsUp
<1> QED BY <1>1, Invariant, PTL

\* A cap that was set explicitly is changed by a command for the cap or by a command
\* that overwrites what another has written since it read the row, and by nothing else
\* (setInactivityMovementPaused, setInactivityDailyCap).
THEOREM OnlyStaleWritesLoseTheCap ==
  Spec => [][row.explicit =>
               \/ /\ row'.explicit
                  /\ row'.capOff # row.capOff =>
                       \E o \in Operators : op[o].cmd \in {"cap_on", "cap_off"}
               \/ StaleWrite]_vars
<1> DEFINE Kept == row.explicit =>
                     \/ /\ row'.explicit
                        /\ row'.capOff # row.capOff =>
                             \E o \in Operators : op[o].cmd \in {"cap_on", "cap_off"}
                     \/ StaleWrite
<1>1. Always /\ [Next]_vars => [Kept]_vars
  <2> SUFFICES ASSUME Always, Next, row.explicit, ~StaleWrite
               PROVE  /\ row'.explicit
                      /\ row'.capOff # row.capOff =>
                           \E o \in Operators : op[o].cmd \in {"cap_on", "cap_off"}
    OBVIOUS
  <2>1. CASE UNCHANGED row
    BY <2>1
  <2>2. ASSUME NEW o \in Operators, WriteSwitch(o)
        PROVE  /\ row'.explicit
               /\ row'.capOff # row.capOff => op[o].cmd \in {"cap_on", "cap_off"}
    <3>1. op[o].seen = row /\ op[o].cmd \in Commands /\ row \in Switches
      BY <2>2, Typed DEF Always, StaleWrite, CommandIsGiven, WriteSwitch, Ops
    <3> QED BY <2>2, <3>1, WrittenFact DEF WriteSwitch, Commands
  <2>3. UNCHANGED row \/ \E o \in Operators : WriteSwitch(o)
    BY DEF Next, ReadSwitch, ClearActiveWatches, ReceiveWebhook, RecordTouch, StartPass,
           ReleaseAndList, ClaimDueWatch, BeginMoveMutation, FinishMove, EndPass, BecomeDue
  <2> QED BY <2>1, <2>2, <2>3
<1> QED BY <1>1, AlwaysHolds, PTL DEF Spec

\* Nothing but a command for the cap changes a cap that was set explicitly, if the
\* commands of two operators do not overlap: none of them writes what it has not read.
THEOREM ExplicitCapIsKept == Spec /\ []OneCommand => ExplicitCapStays
<1> DEFINE Kept == row.explicit =>
                     /\ row'.explicit
                     /\ row'.capOff # row.capOff =>
                          \E o \in Operators : op[o].cmd \in {"cap_on", "cap_off"}
<1>1. IInv => ~StaleWrite
  BY DEF IInv, CommandsFollowTheRow, StaleWrite, WriteSwitch
<1>2. [row.explicit =>
         \/ /\ row'.explicit
            /\ row'.capOff # row.capOff =>
                 \E o \in Operators : op[o].cmd \in {"cap_on", "cap_off"}
         \/ StaleWrite]_vars /\ ~StaleWrite => [Kept]_vars
  OBVIOUS
<1> QED BY <1>1, <1>2, Invariant, OnlyStaleWritesLoseTheCap, PTL DEF ExplicitCapStays

-----------------------------------------------------------------------------
(* The same switch under the sweeps (Sweeps).                              *)
(* What holds of the sweeps for any number of leads, confirmations and     *)
(* replicas, any idle time and any stall: each safety property of Sweeps   *)
(* by an invariant of its own.                                             *)

CONSTANTS Users, Tokens, Sweeps, Idle, Ttl, Unattended, DayOf(_), None

VARIABLES sweepNow, sweepPaused, place, updated, sweepWatch, sweepTouches, sweepRow,
          sweepToken, sweepPc, sweepBegun, sweepTodo, cur, sweepSince, readAt, owner, sent,
          sweepClaims, late

Sweep == INSTANCE Sweeps WITH now <- sweepNow, paused <- sweepPaused, watch <- sweepWatch,
         touches <- sweepTouches, row <- sweepRow, token <- sweepToken, pc <- sweepPc, begun
         <- sweepBegun, todo <- sweepTodo, since <- sweepSince, claims <- sweepClaims

\* Every variable keeps its type, and a sweep that has a candidate at hand names a lead.
LEMMA TypeInit == Sweep!Calendar /\ Sweep!Init => Sweep!TypeOK
<1> SUFFICES ASSUME Sweep!Calendar, Sweep!Init PROVE Sweep!TypeOK
  OBVIOUS
<1> USE DEF Sweep!Calendar, Sweep!Init
<1>1. 0..sweepNow \subseteq Nat /\ 0..DayOf(sweepNow) \subseteq Nat
  OBVIOUS
<1>2. /\ updated \in [Leads -> Nat] /\ sweepRow \in {None} \cup Nat
      /\ sweepTouches \subseteq [lead : Leads, at : Nat]
  BY <1>1
<1>3. sweepToken \in [Tokens -> [st : {"new", "listing", "pending", "gone"},
                             by : Users \cup {None}, at : Nat, leads : SUBSET Leads]]
  BY DEF Sweep!NoToken
<1>4. /\ sweepPc \in [Sweeps -> Sweep!Steps] /\ cur \in [Sweeps -> Leads \cup {None}]
      /\ \A s \in Sweeps : sweepPc[s] \notin Sweep!Before \cup {"readback"}
  BY DEF Sweep!Steps, Sweep!Before
<1> QED BY <1>2, <1>3, <1>4 DEF Sweep!TypeOK

\* One step per action.
LEMMA TypeStep == Sweep!Calendar /\ Sweep!TypeOK /\ [Sweep!Next]_(Sweep!vars) => Sweep!TypeOK'
<1> SUFFICES ASSUME Sweep!Calendar, Sweep!TypeOK, [Sweep!Next]_(Sweep!vars) PROVE Sweep!TypeOK'
  OBVIOUS
<1> USE DEF Sweep!Calendar, Sweep!TypeOK, Sweep!known, Sweep!Goto, Sweep!Steps, Sweep!Before,
            Sweep!Places, Sweep!NoToken, Sweep!Gone
<1>1. ASSUME NEW s \in Sweeps, Sweep!Check(s) PROVE Sweep!TypeOK'
  <2>1. CASE sweepPaused \/ sweepTodo[s] = {}
    BY <1>1, <2>1 DEF Sweep!Check
  <2>2. CASE ~(sweepPaused \/ sweepTodo[s] = {})
    <3>1. PICK l \in sweepTodo[s] :
            /\ cur' = [cur EXCEPT ![s] = l] /\ sweepTodo' = [sweepTodo EXCEPT ![s] = @ \ {l}]
            /\ sweepSince' = [sweepSince EXCEPT ![s] = sweepNow - Idle] /\ sweepPc' = [sweepPc EXCEPT ![s] = "watch"]
      BY <1>1, <2>2 DEF Sweep!Check
    <3>2. l \in Leads /\ sweepTodo[s] \ {l} \in SUBSET Leads /\ sweepNow - Idle \in Int
      BY <3>1
    <3> QED BY <1>1, <3>1, <3>2 DEF Sweep!Check
  <2> QED BY <2>1, <2>2
<1>2. ASSUME NEW s \in Sweeps, Sweep!ReadWatch(s) PROVE Sweep!TypeOK'
  BY <1>2 DEF Sweep!ReadWatch
<1>3. ASSUME NEW s \in Sweeps, Sweep!ReadHistory(s) PROVE Sweep!TypeOK'
  BY <1>3 DEF Sweep!ReadHistory
<1>4. ASSUME NEW s \in Sweeps, Sweep!GuardFails(s) PROVE Sweep!TypeOK'
  BY <1>4 DEF Sweep!GuardFails
<1>5. ASSUME NEW s \in Sweeps, Sweep!TakePlace(s) PROVE Sweep!TypeOK'
  BY <1>5 DEF Sweep!TakePlace
<1>6. ASSUME NEW s \in Sweeps, Sweep!ReadLead(s) PROVE Sweep!TypeOK'
  BY <1>6 DEF Sweep!ReadLead
<1>7. ASSUME NEW s \in Sweeps, Sweep!Patch(s) PROVE Sweep!TypeOK'
  BY <1>7 DEF Sweep!Patch
<1>8. ASSUME NEW s \in Sweeps, Sweep!ReadBack(s) PROVE Sweep!TypeOK'
  BY <1>8 DEF Sweep!ReadBack
<1>9. ASSUME NEW s \in Sweeps, Sweep!Abort(s) PROVE Sweep!TypeOK'
  BY <1>9 DEF Sweep!Abort
<1>10. ASSUME NEW s \in Sweeps, Sweep!Begin(s) PROVE Sweep!TypeOK'
  BY <1>10 DEF Sweep!Begin
<1>11. ASSUME NEW s \in Sweeps, Sweep!ClaimFirst(s) PROVE Sweep!TypeOK'
  <2>1. CASE sweepRow = None
    <3>1. DayOf(sweepBegun[s]) \in Nat /\ DayOf(sweepNow) \in Nat
          /\ [sweep |-> s, day |-> DayOf(sweepBegun[s]), on |-> DayOf(sweepNow)] \in [sweep : Sweeps, day : Nat, on : Nat]
      OBVIOUS
    <3>2. sweepClaims' \subseteq [sweep : Sweeps, day : Nat, on : Nat] /\ sweepRow' \in Nat
      BY <1>11, <2>1, <3>1 DEF Sweep!ClaimFirst
    <3>3. /\ sweepPc' = [sweepPc EXCEPT ![s] = "list"]
          /\ UNCHANGED <<sweepNow, sweepPaused, Sweep!known, sweepToken, sweepBegun, sweepTodo, cur, sweepSince, readAt, owner, sent, late>>
      BY <1>11, <2>1 DEF Sweep!ClaimFirst
    <3> QED BY <3>2, <3>3
  <2>2. CASE sweepRow # None
    BY <1>11, <2>2 DEF Sweep!ClaimFirst
  <2> QED BY <2>1, <2>2
<1>12. ASSUME NEW s \in Sweeps, Sweep!Advance(s) PROVE Sweep!TypeOK'
  <2>1. CASE sweepRow # DayOf(sweepBegun[s])
    <3>1. DayOf(sweepBegun[s]) \in Nat /\ DayOf(sweepNow) \in Nat
          /\ [sweep |-> s, day |-> DayOf(sweepBegun[s]), on |-> DayOf(sweepNow)] \in [sweep : Sweeps, day : Nat, on : Nat]
      OBVIOUS
    <3>2. sweepClaims' \subseteq [sweep : Sweeps, day : Nat, on : Nat] /\ sweepRow' \in Nat
      BY <1>12, <2>1, <3>1 DEF Sweep!Advance
    <3>3. /\ sweepPc' = [sweepPc EXCEPT ![s] = "list"]
          /\ UNCHANGED <<sweepNow, sweepPaused, Sweep!known, sweepToken, sweepBegun, sweepTodo, cur, sweepSince, readAt, owner, sent, late>>
      BY <1>12, <2>1 DEF Sweep!Advance
    <3> QED BY <3>2, <3>3
  <2>2. CASE sweepRow = DayOf(sweepBegun[s])
    BY <1>12, <2>2 DEF Sweep!Advance
  <2> QED BY <2>1, <2>2
<1>13. ASSUME NEW s \in Sweeps, Sweep!List(s) PROVE Sweep!TypeOK'
  BY <1>13 DEF Sweep!List, Sweep!Candidates
<1>14. ASSUME NEW k \in Tokens, Sweep!Propose(k) PROVE Sweep!TypeOK'
  BY <1>14 DEF Sweep!Propose, Sweep!Candidates
<1>15. ASSUME NEW k \in Tokens, NEW u \in Users, Sweep!Ask(k, u) PROVE Sweep!TypeOK'
  BY <1>15 DEF Sweep!Ask, Sweep!Purged
<1>16. ASSUME NEW k \in Tokens, NEW u \in Users, Sweep!Drop(k, u) PROVE Sweep!TypeOK'
  BY <1>16 DEF Sweep!Drop
<1>17. ASSUME NEW k \in Tokens, NEW u \in Users, NEW s \in Sweeps, Sweep!Confirm(k, u, s) PROVE Sweep!TypeOK'
  BY <1>17 DEF Sweep!Confirm
<1>18. ASSUME NEW l \in Leads, Sweep!Touch(l) PROVE Sweep!TypeOK'
  <2>1. [lead |-> l, at |-> sweepNow] \in [lead : Leads, at : Nat]
    OBVIOUS
  <2>2. sweepTouches' \subseteq [lead : Leads, at : Nat]
    BY <1>18, <2>1 DEF Sweep!Touch
  <2>3. place' \in [Leads -> Sweep!Places] /\ updated' \in [Leads -> Nat]
    <3>1. CASE UNCHANGED <<place, updated>>
      BY <3>1
    <3>2. ASSUME NEW p \in Sweep!Places, place' = [place EXCEPT ![l] = p],
                 updated' = [updated EXCEPT ![l] = sweepNow]
          PROVE place' \in [Leads -> Sweep!Places] /\ updated' \in [Leads -> Nat]
      BY <3>2
    <3> QED BY <1>18, <3>1, <3>2 DEF Sweep!Touch
  <2> QED BY <1>18, <2>2, <2>3 DEF Sweep!Touch
<1>19. ASSUME NEW l \in Leads, Sweep!Record(l) PROVE Sweep!TypeOK'
  BY <1>19 DEF Sweep!Record
<1>20. CASE Sweep!Stop
  BY <1>20 DEF Sweep!Stop
<1>21. CASE Sweep!Restart
  BY <1>21 DEF Sweep!Restart
<1>22. CASE Sweep!Tick
  BY <1>22 DEF Sweep!Tick
<1>23. CASE Sweep!Forget
  BY <1>23 DEF Sweep!Forget
<1>24. CASE UNCHANGED Sweep!vars
  BY <1>24 DEF Sweep!vars
<1> QED BY <1>1, <1>2, <1>3, <1>4, <1>5, <1>6, <1>7, <1>8, <1>9, <1>10, <1>11, <1>12, <1>13,
     <1>14, <1>15, <1>16, <1>17, <1>18, <1>19, <1>20, <1>21, <1>22, <1>23, <1>24
     DEF Sweep!Next, Sweep!Loop, Sweep!Night, Sweep!Asked, Sweep!World

LEMMA SweepTyped == ASSUME Sweep!Calendar PROVE Sweep!Spec => []Sweep!TypeOK
<1>1. Sweep!TypeOK /\ [Sweep!Next]_(Sweep!vars) => Sweep!TypeOK'
  BY TypeStep
<1> QED BY <1>1, TypeInit, PTL DEF Sweep!Spec

\* A sweep passes from the check to its PATCH only through a moment without a stop, and
\* has then sent nothing since the last one.
LEMMA StopStep == Sweep!TypeOK /\ Sweep!StopBites /\ Sweep!StopInv /\ [Sweep!Next]_(Sweep!vars) => Sweep!StopBites' /\ Sweep!StopInv'
<1> SUFFICES ASSUME Sweep!TypeOK, Sweep!StopBites, Sweep!StopInv, [Sweep!Next]_(Sweep!vars) PROVE Sweep!StopBites' /\ Sweep!StopInv'
  OBVIOUS
<1> USE DEF Sweep!StopBites, Sweep!StopInv, Sweep!Before, Sweep!Goto
<1>0. sweepPc \in [Sweeps -> Sweep!Steps] /\ late \in [Sweeps -> Nat]
  BY DEF Sweep!TypeOK
<1>1. ASSUME NEW s \in Sweeps, Sweep!Patch(s) PROVE Sweep!StopBites' /\ Sweep!StopInv'
  BY <1>0, <1>1 DEF Sweep!Patch
<1>2. ASSUME NEW s \in Sweeps, Sweep!Check(s) PROVE Sweep!StopBites' /\ Sweep!StopInv'
  <2>1. CASE sweepPaused
    BY <1>0, <1>2, <2>1 DEF Sweep!Check
  <2>2. CASE ~sweepPaused
    BY <1>2, <2>2 DEF Sweep!Check
  <2> QED BY <2>1, <2>2
<1>3. ASSUME NEW s \in Sweeps, Sweep!Loop(s), ~Sweep!Patch(s), ~Sweep!Check(s) PROVE Sweep!StopBites' /\ Sweep!StopInv'
  BY <1>0, <1>3 DEF Sweep!Loop, Sweep!ReadWatch, Sweep!ReadHistory, Sweep!GuardFails,
                    Sweep!TakePlace, Sweep!ReadLead, Sweep!ReadBack, Sweep!Abort
<1>4. ASSUME NEW s \in Sweeps, Sweep!Night(s) PROVE Sweep!StopBites' /\ Sweep!StopInv'
  BY <1>0, <1>4 DEF Sweep!Night, Sweep!Begin, Sweep!ClaimFirst, Sweep!Advance, Sweep!List
<1>5. CASE Sweep!Asked
  BY <1>0, <1>5 DEF Sweep!Asked, Sweep!Propose, Sweep!Ask, Sweep!Drop, Sweep!Confirm
<1>6. CASE Sweep!World
  BY <1>0, <1>6 DEF Sweep!World, Sweep!Touch, Sweep!Record, Sweep!Stop, Sweep!Restart,
                    Sweep!Tick, Sweep!Forget
<1>7. CASE UNCHANGED Sweep!vars
  BY <1>7 DEF Sweep!vars
<1> QED BY <1>1, <1>2, <1>3, <1>4, <1>5, <1>6, <1>7 DEF Sweep!Next

\* A stop bites within one candidate (moveSweepCandidates): for any number of sweeps
\* and leads, and however long a sweep waits between its check and its PATCH.
THEOREM StopsBite == ASSUME Sweep!Calendar PROVE Sweep!Spec => []Sweep!StopBites
<1>1. Sweep!Init => Sweep!StopBites /\ Sweep!StopInv
  BY DEF Sweep!Init, Sweep!StopBites, Sweep!StopInv, Sweep!Before
<1> QED BY <1>1, StopStep, SweepTyped, PTL DEF Sweep!Spec

\* A token is gone when its sweep begins, and does not come back.
LEMMA TokenStep ==
  Sweep!Calendar /\ Sweep!TypeOK /\ Sweep!TokenSpentOnce /\ Sweep!TokenInv /\ [Sweep!Next]_(Sweep!vars) => Sweep!TokenSpentOnce' /\ Sweep!TokenInv'
<1> SUFFICES ASSUME Sweep!Calendar, Sweep!TypeOK, Sweep!TokenSpentOnce, Sweep!TokenInv, [Sweep!Next]_(Sweep!vars)
             PROVE  Sweep!TokenSpentOnce' /\ Sweep!TokenInv'
  OBVIOUS
<1> USE DEF Sweep!TokenSpentOnce, Sweep!TokenInv, Sweep!Goto, Sweep!Gone
<1>0. /\ sweepPc \in [Sweeps -> Sweep!Steps] /\ owner \in [Sweeps -> Tokens \cup {None}]
      /\ sweepToken \in [Tokens -> [st : {"new", "listing", "pending", "gone"},
                               by : Users \cup {None}, at : Nat, leads : SUBSET Leads]]
      /\ None \notin Tokens
  BY DEF Sweep!TypeOK, Sweep!Calendar
<1>1. ASSUME NEW s \in Sweeps, Sweep!Loop(s) PROVE Sweep!TokenSpentOnce' /\ Sweep!TokenInv'
  BY <1>0, <1>1 DEF Sweep!Loop, Sweep!Check, Sweep!ReadWatch, Sweep!ReadHistory,
                    Sweep!GuardFails, Sweep!TakePlace, Sweep!ReadLead, Sweep!Patch,
                    Sweep!ReadBack, Sweep!Abort
<1>2. ASSUME NEW s \in Sweeps, Sweep!Night(s) PROVE Sweep!TokenSpentOnce' /\ Sweep!TokenInv'
  BY <1>0, <1>2 DEF Sweep!Night, Sweep!Begin, Sweep!ClaimFirst, Sweep!Advance, Sweep!List
<1>3. ASSUME NEW k \in Tokens, Sweep!Propose(k) PROVE Sweep!TokenSpentOnce' /\ Sweep!TokenInv'
  BY <1>0, <1>3 DEF Sweep!Propose
<1>4. ASSUME NEW k \in Tokens, NEW u \in Users, Sweep!Ask(k, u) PROVE Sweep!TokenSpentOnce' /\ Sweep!TokenInv'
  BY <1>0, <1>4 DEF Sweep!Ask, Sweep!Purged
<1>5. ASSUME NEW k \in Tokens, NEW u \in Users, Sweep!Drop(k, u) PROVE Sweep!TokenSpentOnce' /\ Sweep!TokenInv'
  BY <1>0, <1>5 DEF Sweep!Drop
<1>6. ASSUME NEW k \in Tokens, NEW u \in Users, NEW s \in Sweeps, Sweep!Confirm(k, u, s)
      PROVE  Sweep!TokenSpentOnce' /\ Sweep!TokenInv'
  BY <1>0, <1>6 DEF Sweep!Confirm
<1>7. CASE Sweep!World
  BY <1>0, <1>7 DEF Sweep!World, Sweep!Touch, Sweep!Record, Sweep!Stop, Sweep!Restart,
                    Sweep!Tick, Sweep!Forget
<1>8. CASE UNCHANGED Sweep!vars
  BY <1>8 DEF Sweep!vars
<1> QED BY <1>1, <1>2, <1>3, <1>4, <1>5, <1>6, <1>7, <1>8 DEF Sweep!Next, Sweep!Asked

\* One confirmation, one sweep, whatever is pressed twice or answered late
\* (createSweepConfirmationService).
THEOREM TokensAreSpentOnce == ASSUME Sweep!Calendar PROVE Sweep!Spec => []Sweep!TokenSpentOnce
<1>1. Sweep!Calendar /\ Sweep!Init => Sweep!TokenSpentOnce /\ Sweep!TokenInv
  BY DEF Sweep!Init, Sweep!TokenSpentOnce, Sweep!TokenInv
<1>2. Sweep!TypeOK /\ Sweep!TokenSpentOnce /\ Sweep!TokenInv /\ [Sweep!Next]_(Sweep!vars) => Sweep!TokenSpentOnce' /\ Sweep!TokenInv'
  BY TokenStep
<1> QED BY <1>1, <1>2, SweepTyped, PTL DEF Sweep!Spec

\* What the fence has read stays true: a later touch is not older than the read.
LEMMA FenceStep ==
  Sweep!Calendar /\ Sweep!TypeOK /\ Sweep!NoTouchOverlooked /\ Sweep!FenceInv /\ [Sweep!Next]_(Sweep!vars)
    => Sweep!NoTouchOverlooked' /\ Sweep!FenceInv'
<1> SUFFICES ASSUME Sweep!Calendar, Sweep!TypeOK, Sweep!NoTouchOverlooked, Sweep!FenceInv, [Sweep!Next]_(Sweep!vars)
             PROVE  Sweep!NoTouchOverlooked' /\ Sweep!FenceInv'
  OBVIOUS
<1> USE DEF Sweep!NoTouchOverlooked, Sweep!FenceInv, Sweep!Goto, Sweep!Before, Sweep!known
<1>0. /\ sweepPc \in [Sweeps -> Sweep!Steps] /\ cur \in [Sweeps -> Leads \cup {None}]
      /\ sweepSince \in [Sweeps -> Int] /\ readAt \in [Sweeps -> Nat]
      /\ sweepNow \in Nat /\ Idle \in Nat
      /\ sweepTouches \subseteq [lead : Leads, at : Nat]
      /\ sent \subseteq [sweep : Sweeps, lead : Leads, since : Int, readAt : Nat, at : Nat]
  BY DEF Sweep!TypeOK, Sweep!Calendar
<1>1. ASSUME NEW s \in Sweeps, Sweep!Patch(s) PROVE Sweep!NoTouchOverlooked' /\ Sweep!FenceInv'
  <2> DEFINE t1 == [lead |-> cur[s], at |-> sweepNow]
             m1 == [sweep |-> s, lead |-> cur[s], since |-> sweepSince[s],
                    readAt |-> readAt[s], at |-> sweepNow]
  <2>1. /\ sweepTouches' = sweepTouches \cup {t1} /\ sent' = sent \cup {m1}
        /\ sweepPc' = [sweepPc EXCEPT ![s] = "readback"] /\ sweepPc[s] = "patch"
        /\ UNCHANGED <<sweepNow, cur, sweepSince, readAt>>
    BY <1>1 DEF Sweep!Patch
  <2>2. /\ t1.lead = cur[s] /\ t1.at = sweepNow
        /\ m1.lead = cur[s] /\ m1.since = sweepSince[s] /\ m1.readAt = readAt[s]
    OBVIOUS
  <2> HIDE DEF t1, m1
  <2>3. m1.readAt - m1.since >= Idle /\ m1.readAt <= sweepNow
    BY <2>1, <2>2
  <2>4. ASSUME NEW m \in sent', NEW t \in sweepTouches', t.lead = m.lead
        PROVE  t.at <= m.since \/ t.at >= m.readAt
    <3>1. CASE t = t1
      BY <1>0, <2>1, <2>2, <2>3, <3>1
    <3>2. CASE t \in sweepTouches /\ m \in sent
      BY <2>4, <3>2
    <3>3. CASE t \in sweepTouches /\ m = m1
      BY <2>1, <2>2, <2>4, <3>3
    <3> QED BY <2>1, <3>1, <3>2, <3>3
  <2>5. \A m \in sent' : m.readAt - m.since >= Idle /\ m.readAt <= sweepNow
    BY <2>1, <2>3
  <2>6. ASSUME NEW r \in Sweeps
        PROVE  /\ sweepPc'[r] \in Sweep!Before => sweepSince[r] <= sweepNow - Idle
               /\ sweepPc'[r] \in {"slot", "move", "patch"} =>
                    /\ readAt[r] <= sweepNow /\ readAt[r] - sweepSince[r] >= Idle
                    /\ \A t \in sweepTouches' : t.lead = cur[r] => t.at <= sweepSince[r] \/ t.at >= readAt[r]
    <3>1. sweepPc'[r] \in Sweep!Before => sweepPc'[r] = sweepPc[r]
      BY <1>0, <2>1
    <3> QED BY <1>0, <2>1, <2>2, <3>1
  <2>7. \A t \in sweepTouches' : t.at <= sweepNow
    BY <1>0, <2>1, <2>2
  <2> QED BY <2>1, <2>4, <2>5, <2>6, <2>7
<1>2. ASSUME NEW s \in Sweeps, Sweep!Check(s) PROVE Sweep!NoTouchOverlooked' /\ Sweep!FenceInv'
  BY <1>0, <1>2 DEF Sweep!Check
<1>3. ASSUME NEW s \in Sweeps, Sweep!ReadHistory(s) PROVE Sweep!NoTouchOverlooked' /\ Sweep!FenceInv'
  BY <1>0, <1>3 DEF Sweep!ReadHistory
<1>4. ASSUME NEW s \in Sweeps, Sweep!Loop(s), ~Sweep!Patch(s), ~Sweep!Check(s), ~Sweep!ReadHistory(s)
      PROVE  Sweep!NoTouchOverlooked' /\ Sweep!FenceInv'
  BY <1>0, <1>4 DEF Sweep!Loop, Sweep!ReadWatch, Sweep!GuardFails, Sweep!TakePlace,
                    Sweep!ReadLead, Sweep!ReadBack, Sweep!Abort
<1>5. ASSUME NEW s \in Sweeps, Sweep!Night(s) PROVE Sweep!NoTouchOverlooked' /\ Sweep!FenceInv'
  BY <1>0, <1>5 DEF Sweep!Night, Sweep!Begin, Sweep!ClaimFirst, Sweep!Advance, Sweep!List
<1>6. CASE Sweep!Asked
  BY <1>0, <1>6 DEF Sweep!Asked, Sweep!Propose, Sweep!Ask, Sweep!Drop, Sweep!Confirm
<1>7. ASSUME NEW l \in Leads, Sweep!Touch(l) PROVE Sweep!NoTouchOverlooked' /\ Sweep!FenceInv'
  BY <1>0, <1>7 DEF Sweep!Touch
<1>8. ASSUME NEW l \in Leads, Sweep!Record(l) PROVE Sweep!NoTouchOverlooked' /\ Sweep!FenceInv'
  BY <1>0, <1>8 DEF Sweep!Record
<1>9. CASE Sweep!Tick
  BY <1>0, <1>9 DEF Sweep!Tick
<1>10. CASE Sweep!Stop \/ Sweep!Restart \/ Sweep!Forget
  BY <1>10 DEF Sweep!Stop, Sweep!Restart, Sweep!Forget
<1>11. CASE UNCHANGED Sweep!vars
  BY <1>11 DEF Sweep!vars
<1> QED BY <1>1, <1>2, <1>3, <1>4, <1>5, <1>6, <1>7, <1>8, <1>9, <1>10, <1>11 DEF Sweep!Next,
     Sweep!World

\* No lead is moved that someone touched within the idle time before its history was
\* read (createRecentTouchGuard); a touch in the time between that read and the PATCH
\* is overlooked.
THEOREM TouchesAreHeeded == ASSUME Sweep!Calendar PROVE Sweep!Spec => []Sweep!NoTouchOverlooked
<1>1. Sweep!Calendar /\ Sweep!Init => Sweep!NoTouchOverlooked /\ Sweep!FenceInv
  BY DEF Sweep!Calendar, Sweep!Init, Sweep!NoTouchOverlooked, Sweep!FenceInv, Sweep!Before
<1>2. Sweep!TypeOK /\ Sweep!NoTouchOverlooked /\ Sweep!FenceInv /\ [Sweep!Next]_(Sweep!vars) => Sweep!NoTouchOverlooked' /\ Sweep!FenceInv'
  BY FenceStep
<1> QED BY <1>1, <1>2, SweepTyped, PTL DEF Sweep!Spec

\* A claim for the day it is made on is of a later day than every claim before.
LEMMA DayStep ==
  Sweep!Calendar /\ Sweep!TypeOK /\ Sweep!OnceADay /\ Sweep!DayInv /\ [Sweep!Next]_(Sweep!vars) => Sweep!OnceADay' /\ Sweep!DayInv'
<1> SUFFICES ASSUME Sweep!Calendar, Sweep!TypeOK, Sweep!OnceADay, Sweep!DayInv, [Sweep!Next]_(Sweep!vars)
             PROVE  Sweep!OnceADay' /\ Sweep!DayInv'
  OBVIOUS
<1> USE DEF Sweep!OnceADay, Sweep!DayInv, Sweep!Timely, Sweep!Goto
<1>0. /\ sweepPc \in [Sweeps -> Sweep!Steps] /\ sweepBegun \in [Sweeps -> Nat] /\ sweepNow \in Nat
      /\ sweepRow \in {None} \cup Nat /\ None \notin Nat
      /\ sweepClaims \subseteq [sweep : Sweeps, day : Nat, on : Nat]
      /\ \A t \in Nat : DayOf(t) \in Nat
      /\ \A t, u \in Nat : t <= u => DayOf(t) <= DayOf(u)
  BY DEF Sweep!TypeOK, Sweep!Calendar
<1>1. ASSUME NEW s \in Sweeps, Sweep!ClaimFirst(s) \/ Sweep!Advance(s) PROVE Sweep!OnceADay' /\ Sweep!DayInv'
  <2> DEFINE c == [sweep |-> s, day |-> DayOf(sweepBegun[s]), on |-> DayOf(sweepNow)]
  <2>1. CASE UNCHANGED <<sweepRow, sweepClaims>>
    BY <1>1, <2>1 DEF Sweep!ClaimFirst, Sweep!Advance, Sweep!known
  <2>2. CASE sweepRow # DayOf(sweepBegun[s]) /\ sweepRow' = DayOf(sweepBegun[s]) /\ sweepClaims' = sweepClaims \cup {c}
    <3>1. c.sweep = s /\ c.day = DayOf(sweepBegun[s]) /\ c.on = DayOf(sweepNow)
      OBVIOUS
    <3>2. UNCHANGED <<sweepNow, sweepBegun, sweepToken>>
      BY <1>1 DEF Sweep!ClaimFirst, Sweep!Advance
    <3>3. ASSUME Sweep!Timely' PROVE Sweep!Timely /\ sweepRow' = DayOf(sweepNow) /\ \A a \in sweepClaims : a.day < sweepRow'
      <4>1. Sweep!Timely /\ c.day = c.on
        BY <2>2, <3>3
      <4>2. \A a \in sweepClaims : sweepRow \in Nat /\ a.day <= sweepRow /\ sweepRow <= DayOf(sweepNow) /\ sweepRow # DayOf(sweepNow)
        BY <2>2, <3>1, <4>1
      <4> QED BY <1>0, <2>2, <3>1, <4>1, <4>2
    <3>4. Sweep!OnceADay'
      <4>1. SUFFICES ASSUME Sweep!Timely', NEW a \in sweepClaims', NEW b \in sweepClaims', a.day = b.day
                     PROVE  a.sweep = b.sweep
        OBVIOUS
      <4>2. Sweep!Timely /\ sweepRow' = c.day /\ \A e \in sweepClaims : e.day < sweepRow'
        BY <2>2, <3>1, <3>3, <4>1
      <4>3. CASE a \in sweepClaims /\ b \in sweepClaims
        BY <4>1, <4>2, <4>3
      <4>4. CASE a = c /\ b = c
        BY <4>4
      <4>5. CASE (a \in sweepClaims /\ b = c) \/ (a = c /\ b \in sweepClaims)
        BY <1>0, <4>1, <4>2, <4>5
      <4> QED BY <2>2, <4>3, <4>4, <4>5
    <3>5. Sweep!DayInv'
      <4>1. Sweep!Timely' => /\ \A a \in sweepClaims' : sweepRow' \in Nat /\ a.day <= sweepRow'
                       /\ sweepRow' <= DayOf(sweepNow)
        <5>1. SUFFICES ASSUME Sweep!Timely'
                       PROVE  /\ \A a \in sweepClaims' : sweepRow' \in Nat /\ a.day <= sweepRow'
                              /\ sweepRow' <= DayOf(sweepNow)
          OBVIOUS
        <5>2. sweepRow' \in Nat /\ \A a \in sweepClaims : a.day \in Nat
          BY <1>0, <2>2
        <5> QED BY <1>0, <2>2, <3>1, <3>3, <5>1, <5>2
      <4> QED BY <3>2, <4>1
    <3> QED BY <3>4, <3>5
  <2>3. None # DayOf(sweepBegun[s])
    BY <1>0
  <2> QED BY <1>1, <2>1, <2>2, <2>3 DEF Sweep!ClaimFirst, Sweep!Advance
<1>2. ASSUME NEW s \in Sweeps, Sweep!Begin(s) \/ Sweep!List(s) PROVE Sweep!OnceADay' /\ Sweep!DayInv'
  BY <1>0, <1>2 DEF Sweep!Begin, Sweep!List, Sweep!known
<1>3. ASSUME NEW s \in Sweeps, Sweep!Loop(s) PROVE Sweep!OnceADay' /\ Sweep!DayInv'
  BY <1>3 DEF Sweep!Loop, Sweep!Check, Sweep!ReadWatch, Sweep!ReadHistory, Sweep!GuardFails,
              Sweep!TakePlace, Sweep!ReadLead, Sweep!Patch,
              Sweep!ReadBack, Sweep!Abort
<1>4. ASSUME NEW k \in Tokens, NEW u \in Users, NEW s \in Sweeps, Sweep!Confirm(k, u, s)
      PROVE  Sweep!OnceADay' /\ Sweep!DayInv'
  <2>1. sweepToken'[k] = Sweep!Gone /\ \A j \in Tokens \ {k} : sweepToken'[j] = sweepToken[j]
    BY <1>4 DEF Sweep!Confirm, Sweep!TypeOK
  <2>2. \A r \in Sweeps : sweepBegun'[r] \in {sweepBegun[r], sweepToken[k].at}
    BY <1>0, <1>4 DEF Sweep!Confirm
  <2> QED BY <1>0, <1>4, <2>1, <2>2 DEF Sweep!Confirm, Sweep!Gone
<1>5. ASSUME NEW k \in Tokens, Sweep!Propose(k) PROVE Sweep!OnceADay' /\ Sweep!DayInv'
  <2>1. sweepToken'[k].at \in {0, sweepToken[k].at} /\ \A j \in Tokens \ {k} : sweepToken'[j] = sweepToken[j]
    BY <1>5 DEF Sweep!Propose, Sweep!TypeOK, Sweep!Gone
  <2> QED BY <1>0, <1>5, <2>1 DEF Sweep!Propose
<1>6. ASSUME NEW k \in Tokens, NEW u \in Users, Sweep!Ask(k, u) \/ Sweep!Drop(k, u) PROVE Sweep!OnceADay' /\ Sweep!DayInv'
  <2>1. ASSUME NEW j \in Tokens PROVE sweepToken'[j].at \in {0, sweepNow, sweepToken[j].at}
    <3>1. CASE Sweep!Ask(k, u)
      BY <3>1 DEF Sweep!Ask, Sweep!Purged, Sweep!TypeOK, Sweep!Gone
    <3>2. CASE Sweep!Drop(k, u)
      BY <3>2 DEF Sweep!Drop, Sweep!TypeOK, Sweep!Gone
    <3> QED BY <1>6, <3>1, <3>2
  <2> QED BY <1>0, <1>6, <2>1 DEF Sweep!Ask, Sweep!Drop
<1>7. CASE Sweep!Forget
  <2>1. \A j \in Tokens : sweepToken'[j].at \in {0, sweepToken[j].at}
    BY <1>7 DEF Sweep!Forget, Sweep!TypeOK, Sweep!Gone
  <2> QED BY <1>0, <1>7, <2>1 DEF Sweep!Forget
<1>8. CASE Sweep!Tick
  <2>1. sweepNow' \in Nat /\ sweepNow <= sweepNow' /\ UNCHANGED <<sweepRow, sweepToken, sweepBegun, sweepClaims>>
    BY <1>0, <1>8 DEF Sweep!Tick
  <2>2. DayOf(sweepNow) <= DayOf(sweepNow') /\ DayOf(sweepNow) \in Nat /\ DayOf(sweepNow') \in Nat
    BY <1>0, <2>1
  <2>3. (\A s \in Sweeps : sweepBegun[s] \in Nat) /\ (\A k \in Tokens : sweepToken[k].at \in Nat)
    BY DEF Sweep!TypeOK
  <2> QED BY <1>0, <2>1, <2>2, <2>3
<1>9. ASSUME NEW l \in Leads, Sweep!Touch(l) \/ Sweep!Record(l) PROVE Sweep!OnceADay' /\ Sweep!DayInv'
  BY <1>9 DEF Sweep!Touch, Sweep!Record
<1>10. CASE Sweep!Stop \/ Sweep!Restart \/ UNCHANGED Sweep!vars
  BY <1>10 DEF Sweep!Stop, Sweep!Restart, Sweep!vars
<1> QED BY <1>1, <1>2, <1>3, <1>4, <1>5, <1>6, <1>7, <1>8, <1>9, <1>10
     DEF Sweep!Next, Sweep!Night, Sweep!Asked, Sweep!World

\* At most one nightly sweep a day, on any number of replicas (claimNightlySweepDay),
\* as long as no replica claims a day after it is over: one that does sets the row
\* back, and the new day can be claimed again.
THEOREM DaysAreSweptOnce == ASSUME Sweep!Calendar PROVE Sweep!Spec => []Sweep!OnceADay
<1>1. Sweep!Calendar /\ Sweep!Init => Sweep!OnceADay /\ Sweep!DayInv
  <2> SUFFICES ASSUME Sweep!Calendar, Sweep!Init PROVE Sweep!OnceADay /\ Sweep!DayInv
    OBVIOUS
  <2>1. sweepRow \in Nat => sweepRow <= DayOf(sweepNow)
    BY DEF Sweep!Calendar, Sweep!Init
  <2> QED BY <2>1 DEF Sweep!Calendar, Sweep!Init, Sweep!OnceADay, Sweep!DayInv, Sweep!NoToken
<1>2. Sweep!TypeOK /\ Sweep!OnceADay /\ Sweep!DayInv /\ [Sweep!Next]_(Sweep!vars) => Sweep!OnceADay' /\ Sweep!DayInv'
  BY DayStep
<1> QED BY <1>1, <1>2, SweepTyped, PTL DEF Sweep!Spec
=============================================================================
