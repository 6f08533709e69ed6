------------------------------ MODULE CallStage ------------------------------
(***************************************************************************)
(* Call-stage automation (callStageAutomation.ts): after a call, a worker  *)
(* run lets the model name the stage its deal has reached and moves the    *)
(* deal there, if the call is still the latest one of the deal, nobody has *)
(* moved the deal for half an hour and one of the test slots is free.  The *)
(* runs share the ledger (callStageAutomationLedger.ts, one action a call),*)
(* the slots (callStageAutomationStore.ts) and amoCRM                      *)
(* (callStageAmoClient.ts), where people move deals and fill in fields.    *)
(* A step is one statement or one request.  Alerts are left out.           *)
(***************************************************************************)
EXTENDS StagePolicy

CONSTANTS Calls, Deals, Runs,
          Nobody,               \* no run, no call, no deal
          DealOf, EndedAt,      \* of a call
          FirstSlot, LastSlot,  \* the slots of the history-fence rollout
          Proposals,            \* targets the model may name for a call
          Stages,               \* where people put deals
          Handled,              \* the deals people are at work on (a bound)
          Early,                \* the calls that may come before activation (a bound)
          Autofill              \* autofillMissingFields

ASSUME StageAssumption ==
  /\ \A c \in Calls : DealOf[c] \in Deals /\ EndedAt[c] \in Nat
  /\ FirstSlot \in Nat \ {0} /\ LastSlot \in Nat
  /\ Proposals \subseteq Targets
  /\ Stages \subseteq DOMAIN StageOrder \cup Elsewhere
  /\ Handled \subseteq Deals /\ Early \subseteq Calls
  /\ Nobody \notin Calls \cup Deals \cup Runs

VARIABLES known,     \* the completed calls the database knows of
          eligible,  \* the calls after both boundaries, {} before they are set
          live,      \* executionMode
          action,    \* call -> its CallStageAction row
          slots,     \* the CallStageAutomationTestSlot rows
          lead,      \* deal -> stage, fields, moved within half an hour
          sent,      \* call -> the PATCHes of the stage made for it
          job,       \* run -> its step and what it holds
          asked      \* run -> the fields it found missing and is filling in

vars == <<known, eligible, live, action, slots, lead, sent, job, asked>>

Fields == {DuplicateField} \cup UNION {RequiredFor[t] : t \in Targets}
Values == {"empty", "Yoq", "Bor"}
Slots == 1..LastSlot

FreeSlot == [state |-> "free", call |-> Nobody, deal |-> Nobody, lapsed |-> FALSE]

\* Slots before FirstSlot are of the earlier rollout, which may have moved a deal
\* (one that no person handles, as a bound).
Init ==
  /\ known = {}
  /\ eligible = {}
  /\ live \in BOOLEAN
  /\ action = [c \in Calls |-> [status |-> "absent", target |-> Nobody, token |-> Nobody,
                                lapsed |-> FALSE]]
  /\ \E d \in (Deals \ Handled) \cup {Nobody} :
       slots = [n \in Slots |->
                  IF n = 1 /\ 1 < FirstSlot /\ d # Nobody
                  THEN [FreeSlot EXCEPT !.state = "confirmed", !.deal = d]
                  ELSE FreeSlot]
  /\ lead \in [Deals -> [stage : Stages, moved : {FALSE},
                         fields : {[f \in Fields |-> [value |-> "empty", by |-> "person"]]}]]
  /\ sent = [c \in Calls |-> 0]
  /\ job = [r \in Runs |-> [pc |-> "ready", call |-> Nobody, source |-> Nobody, moved |-> FALSE]]
  /\ asked = [r \in Runs |-> {}]

\* The steps after the last look at the history, when a run has no more use
\* for the stage it read nor for movements.
Over == {"readback", "readback_unsure", "noting", "confirming", "release", "spend",
         "skipped_early", "blocked_early", "uncertain_early", "skipped", "blocked",
         "uncertain", "done", "crashed"}

At(r, pc) == job[r].pc = pc
To(r, pc) ==
  [pc |-> pc, call |-> IF pc \in {"done", "crashed"} THEN Nobody ELSE job[r].call,
   source |-> IF pc \in Over THEN Nobody ELSE job[r].source,
   moved |-> pc \notin Over /\ job[r].moved]
Goto(r, pc) == job' = [job EXCEPT ![r] = To(r, pc)]
Finish(r) == Goto(r, "done")
Deal(r) == DealOf[job[r].call]
Running(r) == job[r].pc \notin {"ready", "done", "crashed"}

-----------------------------------------------------------------------------
(* Up to the claim of the move.                                            *)

\* createIsLatestCompletedCall: a tie proves nothing, so both are stale.
IsLatest(c) ==
  \A other \in known \ {c} : DealOf[other] = DealOf[c] => EndedAt[other] < EndedAt[c]

\* The latest call, the boundaries, the lead and the eligibility; what counts
\* as a recent movement is fixed here (now, historySince).
Begin(r) ==
  /\ At(r, "ready")
  /\ \E c \in known :
       LET l == lead[DealOf[c]] IN
       \/ ~(IsLatest(c) /\ c \in eligible /\ IsUzumLead(l.stage)) /\ Finish(r)
       \/ /\ IsLatest(c)
          /\ c \in eligible /\ IsUzumLead(l.stage)
          /\ \/ Finish(r)
             \/ job' = [job EXCEPT ![r] = [pc |-> "looking", call |-> c, source |-> Nobody,
                                           moved |-> l.moved]]
  /\ UNCHANGED <<asked, known, eligible, live, action, slots, lead, sent>>

\* claimAnalysis reads the action of the call,
LookUp(r) ==
  LET row == action[job[r].call] IN
  /\ At(r, "looking")
  /\ CASE row.status = "absent" -> Goto(r, "creating")
       [] row.status = "analyzing" /\ row.lapsed -> Goto(r, "reclaiming")
       [] OTHER -> Finish(r)
  /\ UNCHANGED <<asked, known, eligible, live, action, slots, lead, sent>>

\* and creates it, or takes over an analysis whose lease has lapsed.
ClaimAnalysis(r) ==
  LET c == job[r].call
      free == IF At(r, "creating") THEN action[c].status = "absent"
              ELSE action[c].status = "analyzing" /\ action[c].lapsed
  IN /\ At(r, "creating") \/ At(r, "reclaiming")
     /\ IF free
        THEN /\ action' = [action EXCEPT ![c].status = "analyzing", ![c].token = r,
                                         ![c].lapsed = FALSE]
             /\ Goto(r, "analyzing")
        ELSE Finish(r) /\ UNCHANGED action
     /\ UNCHANGED <<asked, known, eligible, live, slots, lead, sent>>

\* analyzeCallStageRoutingWithGemini and finalizeAnalysis: a failure of the
\* model counts as review.
FinalizeAnalysis(r) ==
  LET c == job[r].call
      Finalize(status, target) ==
        action' = [action EXCEPT ![c] = [status |-> status, target |-> target,
                                         token |-> Nobody, lapsed |-> FALSE]]
  IN /\ At(r, "analyzing")
     /\ IF action[c].status = "analyzing" /\ action[c].token = r
        THEN \/ Finalize("skipped", Nobody) /\ Finish(r)
             \/ Finalize("review", Nobody) /\ Finish(r)
             \/ \E t \in Proposals :
                  /\ Finalize("pending_move", t)
                  /\ IF live THEN Goto(r, "claiming") ELSE Finish(r)
        ELSE Finish(r) /\ UNCHANGED action
     /\ UNCHANGED <<asked, known, eligible, live, slots, lead, sent>>

ClaimMove(r) ==
  LET c == job[r].call IN
  /\ At(r, "claiming")
  /\ IF action[c].status = "pending_move"
     THEN /\ action' = [action EXCEPT ![c].status = "moving", ![c].token = r]
          /\ Goto(r, "routing")
     ELSE Finish(r) /\ UNCHANGED action
  /\ UNCHANGED <<asked, known, eligible, live, slots, lead, sent>>

-----------------------------------------------------------------------------
(* May the deal be moved?                                                  *)

\* The fresh lead and the current rules of amoCRM, read once more after the
\* missing fields were filled in.
Reroute(r) ==
  LET l == lead[Deal(r)]
      route == Route(l.stage, action[job[r].call].target, l.fields)
  IN /\ At(r, "routing") \/ At(r, "rerouting")
     /\ \/ Goto(r, "uncertain_early")
        \/ route = "allowed" /\ job' = [job EXCEPT ![r].pc = "history", ![r].source = l.stage]
        \/ /\ route = "missing_fields"
           /\ Goto(r, IF Autofill /\ At(r, "routing") THEN "filling" ELSE "blocked_early")
        \/ route \notin {"allowed", "missing_fields"} /\ Goto(r, "skipped_early")
     /\ asked' = [asked EXCEPT ![r] = IF job'[r].pc = "filling"
                                      THEN Missing(action[job[r].call].target, l.fields) ELSE {}]
     /\ UNCHANGED <<known, eligible, live, action, slots, lead, sent>>

\* A bug: the half hour is counted back from each look at the history.
Recent_UntilNow(r) == lead[Deal(r)].moved

\* hasRecentStageMovement since half an hour before the run began
Recent(r) == job[r].moved

History(r) ==
  /\ At(r, "history")
  /\ \/ Goto(r, "skipped_early")
     \/ ~Recent(r) /\ Goto(r, "reserving")
  /\ UNCHANGED <<asked, known, eligible, live, action, slots, lead, sent>>

\* autofillBlockingFields: either nothing is written (no value, an ambiguous or
\* new option that cannot be made), or the PATCH of all values, whose fate may
\* stay unknown.  It writes the fields that were missing at the read of the
\* route, over what people have put there since.  The model is asked for every
\* one of them: the required value of a field does not survive
\* evaluateUzumStageRoute.
FillFields(r) ==
  LET d == Deal(r) IN
  /\ At(r, "filling")
  /\ \/ Goto(r, "blocked_early") /\ UNCHANGED lead
     \/ \E value \in [asked[r] -> Values \ {"empty"}] :
          /\ lead' = [lead EXCEPT ![d].fields = [f \in Fields |->
                        IF f \in asked[r] THEN [value |-> value[f], by |-> "model"]
                        ELSE lead[d].fields[f]]]
          /\ Goto(r, "rerouting") \/ Goto(r, "blocked_early")
  /\ asked' = [asked EXCEPT ![r] = {}]
  /\ UNCHANGED <<known, eligible, live, action, slots, sent>>

-----------------------------------------------------------------------------
(* The test slots, each operation a transaction.                           *)

\* markExpiredTestSlotsUncertain
Expire(s) ==
  [n \in Slots |-> IF n >= FirstSlot /\ s[n].state = "reserved" /\ s[n].lapsed
                   THEN [s[n] EXCEPT !.state = "uncertain", !.lapsed = FALSE] ELSE s[n]]

\* reserveMoveInRange.  An action reserves only once, so it never finds its own
\* reservation.
Reserve(r) ==
  LET d == Deal(r)
      own == {n \in Slots : slots[n].deal = d}
      aged == Expire(slots)
      free == {n \in FirstSlot..LastSlot : aged[n].state = "free"}
  IN /\ At(r, "reserving")
     /\ IF own # {}
        THEN /\ slots' = [n \in Slots |-> IF n \in own THEN aged[n] ELSE slots[n]]
             /\ Goto(r, "skipped_early")
        ELSE IF free = {} THEN slots' = aged /\ Goto(r, "skipped_early")
        ELSE /\ LET n == CHOOSE n \in free : \A m \in free : n <= m
                IN slots' = [aged EXCEPT ![n] = [state |-> "reserved", call |-> job[r].call,
                                                 deal |-> d, lapsed |-> FALSE]]
             /\ Goto(r, "source")
     /\ UNCHANGED <<asked, known, eligible, live, action, lead, sent>>

Reserved(c) == {n \in Slots : slots[n].state = "reserved" /\ slots[n].call = c}

\* releaseTestSlotBeforePatch, markTestSlotUncertain
Release(r) ==
  /\ At(r, "release")
  /\ slots' = [n \in Slots |-> IF n \in Reserved(job[r].call) THEN FreeSlot ELSE slots[n]]
  /\ Finish(r)
  /\ UNCHANGED <<asked, known, eligible, live, action, lead, sent>>

Spend(r) ==
  /\ At(r, "spend")
  /\ slots' = [n \in Slots |-> IF n \in Reserved(job[r].call)
                               THEN [slots[n] EXCEPT !.state = "uncertain", !.lapsed = FALSE]
                               ELSE slots[n]]
  /\ Finish(r)
  /\ UNCHANGED <<asked, known, eligible, live, action, lead, sent>>

-----------------------------------------------------------------------------
(* moveLeadToTarget.                                                       *)

\* Two reads of the lead, each followed by the fence; the second also checks
\* the fields.  A read that fails throws.
ReadSource(r) ==
  LET l == lead[Deal(r)] IN
  /\ At(r, "source") \/ At(r, "source_again")
  /\ \/ Goto(r, "uncertain")
     \/ l.stage # job[r].source /\ Goto(r, "skipped")
     \/ l.stage = job[r].source /\ At(r, "source") /\ Goto(r, "fence")
     \/ /\ l.stage = job[r].source /\ At(r, "source_again")
        /\ LET route == Route(l.stage, action[job[r].call].target, l.fields) IN
           Goto(r, CASE route = "allowed"        -> "fence_again"
                     [] route = "missing_fields" -> "blocked"
                     [] OTHER                    -> "skipped")
  /\ UNCHANGED <<asked, known, eligible, live, action, slots, lead, sent>>

\* isMoveMutationCurrent, the last time after the wait for a request slot: the
\* ledger and the latest call, then the history of the lead.  A statement that
\* fails in the last fence is taken for a PATCH whose fate is unknown.
FenceNext ==
  [fence |-> "fence_history", fence_history |-> "source_again",
   fence_again |-> "fence_again_history", fence_again_history |-> "last_fence",
   last_fence |-> "last_fence_history", last_fence_history |-> "patch"]

Holds(r) == action[job[r].call].status = "moving" /\ action[job[r].call].token = r

FenceLedger(r) ==
  /\ job[r].pc \in {"fence", "fence_again", "last_fence"}
  /\ \/ Goto(r, IF Holds(r) /\ IsLatest(job[r].call) THEN FenceNext[job[r].pc] ELSE "skipped")
     \/ Goto(r, IF At(r, "last_fence") THEN "readback_unsure" ELSE "uncertain")
  /\ UNCHANGED <<asked, known, eligible, live, action, slots, lead, sent>>

FenceHistory(r) ==
  /\ job[r].pc \in {"fence_history", "fence_again_history", "last_fence_history"}
  /\ \/ Goto(r, "skipped")
     \/ ~Recent(r) /\ Goto(r, FenceNext[job[r].pc])
  /\ UNCHANGED <<asked, known, eligible, live, action, slots, lead, sent>>

\* A deal changes its stage, and the history shows it to every run at work on it.
Moves(d, stage, at) ==
  /\ lead' = [lead EXCEPT ![d].stage = stage, ![d].moved = TRUE]
  /\ job' = [r \in Runs |->
               IF r \in DOMAIN at THEN To(r, at[r])
               ELSE IF Running(r) /\ job[r].pc \notin Over /\ Deal(r) = d
               THEN [job[r] EXCEPT !.moved = TRUE]
               ELSE job[r]]

\* A bug: no answer is taken for no move.
PatchOutcomes_Optimist ==
  {[made |-> TRUE, step |-> "readback"], [made |-> TRUE, step |-> "skipped"],
   [made |-> FALSE, step |-> "skipped"]}

\* The PATCH is applied, refused, or its fate is unknown; it is never repeated.
PatchOutcomes ==
  {[made |-> TRUE, step |-> "readback"], [made |-> TRUE, step |-> "readback_unsure"],
   [made |-> FALSE, step |-> "readback_unsure"], [made |-> FALSE, step |-> "skipped"]}

Patch(r) ==
  /\ At(r, "patch")
  /\ \E o \in PatchOutcomes :
       IF o.made
       THEN /\ Moves(Deal(r), action[job[r].call].target, [x \in {r} |-> o.step])
            /\ sent' = [sent EXCEPT ![job[r].call] = @ + 1]
       ELSE Goto(r, o.step) /\ UNCHANGED <<lead, sent>>
  /\ UNCHANGED <<asked, known, eligible, live, action, slots>>

\* Only the exact target, read back, confirms the move.
ReadBack(r) ==
  /\ At(r, "readback") \/ At(r, "readback_unsure")
  /\ \/ Goto(r, "uncertain")
     \/ lead[Deal(r)].stage = action[job[r].call].target /\ Goto(r, "noting")
  /\ UNCHANGED <<asked, known, eligible, live, action, slots, lead, sent>>

\* addStageReasonNote
AddNote(r) ==
  /\ At(r, "noting")
  /\ Goto(r, "confirming") \/ Goto(r, "uncertain")
  /\ UNCHANGED <<asked, known, eligible, live, action, slots, lead, sent>>

-----------------------------------------------------------------------------
(* The end of a move in the ledger.                                        *)

\* markMoveConfirmed: both or neither
MarkConfirmed(c) ==
  /\ Reserved(c) # {}
  /\ action' = [action EXCEPT ![c].status = "confirmed", ![c].token = Nobody]
  /\ slots' = [n \in Slots |-> IF n \in Reserved(c)
                               THEN [slots[n] EXCEPT !.state = "confirmed", !.lapsed = FALSE]
                               ELSE slots[n]]

\* Without a reservation, or when a statement fails, the transaction is undone and the
\* move counts as uncertain.
Confirm(r) ==
  /\ At(r, "confirming")
  /\ \/ Holds(r) /\ MarkConfirmed(job[r].call) /\ Finish(r)
     \/ ~Holds(r) /\ Goto(r, "spend") /\ UNCHANGED <<action, slots>>
     \/ Goto(r, "uncertain") /\ UNCHANGED <<action, slots>>
  /\ UNCHANGED <<asked, known, eligible, live, lead, sent>>

\* What becomes of the action, and then of the slot
Outcome ==
  [skipped_early   |-> [status |-> "skipped", then |-> "keep"],
   blocked_early   |-> [status |-> "blocked_missing_fields", then |-> "keep"],
   uncertain_early |-> [status |-> "uncertain", then |-> "keep"],
   skipped         |-> [status |-> "skipped", then |-> "release"],
   blocked         |-> [status |-> "blocked_missing_fields", then |-> "release"],
   uncertain       |-> [status |-> "uncertain", then |-> "spend"]]

\* Bugs: a status the ledger does not know, a slot that is never marked
\* uncertain, a move whose fate is unknown taken for none.
Ending_UnknownStatus == [Outcome EXCEPT !.blocked_early.status = "missing_fields"]
Ending_NeverSpends == [Outcome EXCEPT !.uncertain.then = "keep"]
Ending_Skips == [Outcome EXCEPT !.uncertain.status = "skipped"]

Ending == Outcome

\* markMoveSkipped, markBlockedMissingFields, markMoveUncertain
EndMove(r) ==
  /\ job[r].pc \in DOMAIN Ending
  /\ LET end == Ending[job[r].pc] IN
     /\ action' = IF Holds(r)
                  THEN [action EXCEPT ![job[r].call].status = end.status,
                                      ![job[r].call].token = Nobody]
                  ELSE action
     /\ IF end.then = "keep" THEN Finish(r) ELSE Goto(r, end.then)
  /\ UNCHANGED <<asked, known, eligible, live, slots, lead, sent>>

-----------------------------------------------------------------------------
(* Around the runs.                                                        *)

\* ensureCallRecord of the call worker: the call is in the database.
CallCompleted(c) ==
  /\ c \notin known
  /\ eligible # {} \/ c \in Early
  /\ known' = known \cup {c}
  /\ UNCHANGED <<asked, eligible, live, action, slots, lead, sent, job>>

\* initializeHistoryFenceRollout: calls that arrive from now on are eligible.
Activate ==
  /\ eligible = {}
  /\ eligible' = Calls \ known
  /\ UNCHANGED <<asked, known, live, action, slots, lead, sent, job>>

\* People are watched while a run is at work on their deal, and never clear a
\* field (bounds).
InWork(d) == \E r \in Runs : Running(r) /\ Deal(r) = d

PersonMoves(d) ==
  /\ InWork(d)
  /\ \E s \in Stages \ {lead[d].stage} : Moves(d, s, << >>)
  /\ UNCHANGED <<asked, known, eligible, live, action, slots, sent>>

PersonFills(d) ==
  /\ InWork(d)
  /\ \E f \in Fields : \E v \in {"Yoq", "Bor"} \ {lead[d].fields[f].value} :
       lead' = [lead EXCEPT ![d].fields[f] = [value |-> v, by |-> "person"]]
  /\ UNCHANGED <<asked, known, eligible, live, action, slots, sent, job>>

HalfAnHourPasses(d) ==
  /\ lead[d].moved
  /\ lead' = [lead EXCEPT ![d].moved = FALSE]
  /\ UNCHANGED <<asked, known, eligible, live, action, slots, sent, job>>

\* Five minutes of an analysis, ten of a slot.
AnalysisLapses(c) ==
  /\ action[c].status = "analyzing" /\ ~action[c].lapsed
  /\ action' = [action EXCEPT ![c].lapsed = TRUE]
  /\ UNCHANGED <<asked, known, eligible, live, slots, lead, sent, job>>

SlotLapses(n) ==
  /\ slots[n].state = "reserved" /\ ~slots[n].lapsed
  /\ slots' = [slots EXCEPT ![n].lapsed = TRUE]
  /\ UNCHANGED <<asked, known, eligible, live, action, lead, sent, job>>

\* An exception of a statement, or the end of the process.
Crash(r) ==
  /\ Running(r)
  /\ Goto(r, "crashed")
  /\ asked' = [asked EXCEPT ![r] = {}]
  /\ UNCHANGED <<known, eligible, live, action, slots, lead, sent>>

Analyse(r) == Begin(r) \/ LookUp(r) \/ ClaimAnalysis(r) \/ FinalizeAnalysis(r)

Decide(r) ==
  ClaimMove(r) \/ Reroute(r) \/ History(r) \/ FillFields(r) \/ Reserve(r)

Move(r) ==
  \/ ReadSource(r) \/ FenceLedger(r) \/ FenceHistory(r)
  \/ Patch(r) \/ ReadBack(r) \/ AddNote(r) \/ Confirm(r)
  \/ EndMove(r) \/ Release(r) \/ Spend(r)

Next ==
  \/ \E r \in Runs : Analyse(r) \/ Decide(r) \/ Move(r) \/ Crash(r)
  \/ \E c \in Calls : CallCompleted(c) \/ AnalysisLapses(c)
  \/ \E d \in Handled : HalfAnHourPasses(d) \/ PersonMoves(d) \/ PersonFills(d)
  \/ \E n \in Slots : SlotLapses(n)
  \/ Activate

Spec == Init /\ [][Next]_vars

-----------------------------------------------------------------------------
(* Properties.                                                             *)

Statuses == {"absent", "analyzing", "review", "pending_move", "moving",
             "blocked_missing_fields", "confirmed", "skipped", "uncertain"}

Steps == {"ready", "looking", "creating", "reclaiming", "analyzing", "claiming", "routing",
          "filling", "rerouting", "history", "reserving", "source", "source_again", "patch",
          "readback", "readback_unsure", "noting", "confirming", "release", "spend", "done", "crashed"}
         \cup DOMAIN FenceNext \cup DOMAIN Ending

TypeOK ==
  /\ known \subseteq Calls /\ eligible \subseteq Calls
  /\ live \in BOOLEAN
  /\ action \in [Calls -> [status : Statuses, target : Targets \cup {Nobody},
                           token : Runs \cup {Nobody}, lapsed : BOOLEAN]]
  /\ slots \in [Slots -> [state : {"free", "reserved", "confirmed", "uncertain"},
                          call : Calls \cup {Nobody}, deal : Deals \cup {Nobody},
                          lapsed : BOOLEAN]]
  /\ lead \in [Deals -> [stage : Stages \cup Targets, moved : BOOLEAN,
                         fields : [Fields -> [value : Values, by : {"person", "model"}]]]]
  /\ sent \in [Calls -> Nat]
  /\ job \in [Runs -> [pc : Steps, call : Calls \cup {Nobody}, source : Stages \cup Targets \cup {Nobody},
                       moved : BOOLEAN]]
  /\ asked \in [Runs -> SUBSET Fields]

\* Every deal the automation has moved holds a slot of the rollout of its own
\* that is not free, and is moved once: so no more deals are moved than there
\* are slots, over crashes, lapsed reservations, refused and unanswered PATCHes.
EveryMoveHoldsASlot ==
  \A c \in Calls : sent[c] > 0 =>
    /\ sent[c] = 1
    /\ \E n \in FirstSlot..LastSlot : slots[n].state # "free" /\ slots[n].call = c
    /\ \A other \in Calls \ {c} : DealOf[other] = DealOf[c] => sent[other] = 0

\* When the last fence lets a PATCH go, its target is ahead of where the deal
\* stands at that moment, whatever people and other runs have done since the
\* lead was read; and only for an eligible call of a live deployment.
MovesForward ==
  [][\A r \in Runs : ~At(r, "patch") /\ job'[r].pc = "patch" =>
       /\ live /\ job[r].call \in eligible
       /\ IsUzumLead(lead[Deal(r)].stage)
       /\ IsForward(lead[Deal(r)].stage, action[job[r].call].target)]_vars

\* What the ledger says of a move that is over is true, and its slot agrees.  (A
\* confirmed move may be a person's: the read-back sees only where the deal is.)
LedgerTellsTheTruth ==
  \A c \in Calls :
    /\ action[c].status = "confirmed" <=>
         \E n \in FirstSlot..LastSlot : slots[n].state = "confirmed" /\ slots[n].call = c
    /\ action[c].status \in {"skipped", "blocked_missing_fields", "review"} => sent[c] = 0

\* Unless a run crashed, runs that are done leave no action half done and no
\* slot reserved.
SettledUnlessCrashed ==
  (\A r \in Runs : ~Running(r) /\ ~At(r, "crashed")) =>
    /\ \A c \in Calls : action[c].status \notin {"analyzing", "moving"}
    /\ \A n \in Slots : slots[n].state # "reserved"

\* "A field with a fixed business value is never asked of the model."
FixedValueIsNotTheModels == \A d \in Deals : lead[d].fields[DuplicateField].by = "person"
=============================================================================
