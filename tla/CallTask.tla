------------------------------ MODULE CallTask -------------------------------
(***************************************************************************)
(* Call-task automation (callTaskAutomation.ts) of one call: the worker    *)
(* runs that analyse its transcript, one per delivery of the call, and the *)
(* reviewers who press a button of the proposal card, over one ledger row  *)
(* (callTaskAutomationLedger.ts) and amoCRM (callTaskAmoClient.ts).  A     *)
(* step is one statement, or one request with the reads that go with it.   *)
(* Telegram messages and failures to send them change nothing and are left *)
(* out, as are the five test slots, which the automation does not consult. *)
(***************************************************************************)
EXTENDS Integers, FiniteSets

CONSTANTS Runs, Reviewers,
          Nobody,    \* no actor: no lease, no reviewer
          Setups,    \* what a call may be: [lead, call, now, boundary]
          Hints      \* the timings the analysis may find in a transcript

Actors == Runs \cup Reviewers

ASSUME NobodyAssumption == Nobody \notin Actors
ASSUME InputAssumption ==
  /\ Setups \subseteq [lead : Int, call : Int, now : Nat, boundary : Nat]
  /\ Hints \subseteq [kind : {"exact", "date", "tomorrow", "none"}, at : Nat]

VARIABLES setup,     \* when lead and call were made, the runs, the activation
          boundary,  \* the activation boundary, -1 while there is none
          mode,      \* executionMode of the deployed process
          row,       \* the CallTaskAction row of the call
          job,       \* actor -> its step, and what it answered at the end
          amo        \* tasks and notes POSTed for the call, and those made

vars == <<setup, boundary, mode, row, job, amo>>

Statuses == {"absent", "analyzing", "proposed", "creating_task", "task_confirmed",
             "creating_note", "confirmed", "rejected", "skipped", "uncertain"}

Init ==
  /\ setup \in Setups
  /\ boundary \in {-1, setup.boundary}
  /\ mode \in {"live", "dry_run"}
  /\ row = [status |-> "absent", decision |-> "none", lease |-> Nobody,
            lapsed |-> FALSE, due |-> 0]
  /\ job = [a \in Actors |-> [pc |-> "ready", said |-> "nothing"]]
  /\ amo = [posts |-> 0, task |-> FALSE, notePosts |-> 0, note |-> FALSE]

At(a, pc) == job[a].pc = pc
Goto(a, pc) == job' = [job EXCEPT ![a].pc = pc]
Answer(a, what) == job' = [job EXCEPT ![a] = [pc |-> "done", said |-> what]]

-----------------------------------------------------------------------------
(* The deadline, in hours; day d begins at hour 24 * d.                    *)

Unresolved == 0

\* The instant a hint names: 10:00 when no hour was agreed, and a month is the
\* date of its first day.
HourOf(hint, now) ==
  CASE hint.kind = "exact"    -> hint.at
    [] hint.kind = "date"     -> 24 * hint.at + 10
    [] hint.kind = "tomorrow" -> 24 * (now \div 24 + 1) + 10
    [] hint.kind = "none"     -> Unresolved

\* A bug: a time in the past is silently pushed forward.
ResolveDueAt_Forward(hint, now) ==
  IF hint.kind # "none" /\ HourOf(hint, now) < now THEN now ELSE HourOf(hint, now)

\* resolveCallTaskDueAt: never the past
ResolveDueAt(hint, now) ==
  IF HourOf(hint, now) > now THEN HourOf(hint, now) ELSE Unresolved

\* parseCallTaskActionResponse: a day that has passed goes to review, an exact
\* time that has passed makes the whole answer invalid.
Proposal(hint, now) ==
  LET due == ResolveDueAt(hint, now) IN
  IF due # Unresolved          THEN [decision |-> "auto", due |-> due]
  ELSE IF hint.kind = "exact" THEN [decision |-> "invalid", due |-> Unresolved]
  ELSE                             [decision |-> "review", due |-> Unresolved]

Proposals ==
  {Proposal(h, setup.now) : h \in Hints} \cup
    {[decision |-> d, due |-> Unresolved] : d \in {"none", "invalid"}}

-----------------------------------------------------------------------------
(* runCallTaskAutomation, up to the claim of the task.                     *)

\* isCallTaskAutomationEligible
Eligible == setup.lead > boundary /\ setup.call >= boundary

\* The boundary, the fresh lead and the eligibility.
Begin(r) ==
  /\ At(r, "ready")
  /\ \/ boundary # -1 /\ Eligible /\ Goto(r, "looking")
     \/ boundary # -1 /\ ~Eligible /\ Answer(r, "ineligible")
     \/ boundary = -1 /\ Answer(r, "not_configured")
     \/ Answer(r, "lead_unavailable")
  /\ UNCHANGED <<setup, boundary, mode, row, amo>>

\* claimAnalysis reads the row of the call,
LookUp(r) ==
  /\ At(r, "looking")
  /\ CASE row.status = "absent" -> Goto(r, "creating")
       [] row.status = "analyzing" /\ row.lapsed -> Goto(r, "reclaiming")
       [] OTHER -> Answer(r, "existing")
  /\ UNCHANGED <<setup, boundary, mode, row, amo>>

\* creates it (callId is unique),
CreateAction(r) ==
  /\ At(r, "creating")
  /\ IF row.status = "absent"
     THEN /\ row' = [row EXCEPT !.status = "analyzing", !.lease = r]
          /\ Goto(r, "analyzing")
     ELSE /\ Answer(r, "existing")
          /\ UNCHANGED row
  /\ UNCHANGED <<setup, boundary, mode, amo>>

\* or takes over an analysis whose lease has lapsed.
ReclaimAnalysis(r) ==
  /\ At(r, "reclaiming")
  /\ IF row.status = "analyzing" /\ row.lapsed
     THEN /\ row' = [row EXCEPT !.lease = r, !.lapsed = FALSE]
          /\ Goto(r, "analyzing")
     ELSE /\ Answer(r, "existing")
          /\ UNCHANGED row
  /\ UNCHANGED <<setup, boundary, mode, amo>>

\* A bug: what the analysis decided is written as it came.
Finalized_Raw(p) ==
  [row EXCEPT !.status = IF p.decision \in {"auto", "review"} THEN "proposed" ELSE "skipped",
              !.decision = p.decision, !.due = p.due, !.lease = Nobody, !.lapsed = FALSE]

\* The row that finalizeAnalysis and markAnalysisUnavailable write
Finalized(p) ==
  [row EXCEPT !.status = IF p.decision \in {"auto", "review"} THEN "proposed" ELSE "skipped",
              !.decision = IF p.decision = "invalid" THEN "none" ELSE p.decision,
              !.due = p.due, !.lease = Nobody, !.lapsed = FALSE]

AnswerOf(p) ==
  CASE p.decision = "none"    -> "no_action"
    [] p.decision = "invalid" -> "analysis_unavailable"
    [] p.decision = "review"  -> "review_pending"
    [] p.decision = "auto"    -> "dry_run"

\* The analysis answers, and is recorded if the lease is still its own.
FinalizeAnalysis(r) ==
  /\ At(r, "analyzing")
  /\ IF row.status = "analyzing" /\ row.lease = r
     THEN \E p \in Proposals :
            /\ row' = Finalized(p)
            /\ IF p.decision = "auto" /\ mode = "live"
               THEN Goto(r, "claiming") ELSE Answer(r, AnswerOf(p))
     ELSE /\ Answer(r, "analysis_claim_lost")
          /\ UNCHANGED row
  /\ UNCHANGED <<setup, boundary, mode, amo>>

-----------------------------------------------------------------------------
(* The buttons of the proposal card.                                       *)

\* approveProposal and rejectProposal read the action first; a dry run goes no
\* further with an approval.
Press(v) ==
  /\ At(v, "ready")
  /\ row.status # "absent"
  /\ \/ row.status = "proposed" /\ row.decision = "review"
        /\ \/ Goto(v, "rejecting")
           \/ mode = "live" /\ Goto(v, "claiming")
           \/ mode = "dry_run" /\ Answer(v, "dry_run")
     \/ ~(row.status = "proposed" /\ row.decision = "review") /\ Answer(v, "existing")
  /\ UNCHANGED <<setup, boundary, mode, row, amo>>

\* rejectProposal
Reject(v) ==
  /\ At(v, "rejecting")
  /\ IF row.status = "proposed" /\ row.decision = "review"
     THEN /\ row' = [row EXCEPT !.status = "rejected"]
          /\ Answer(v, "rejected")
     ELSE /\ Answer(v, "existing")
          /\ UNCHANGED row
  /\ UNCHANGED <<setup, boundary, mode, amo>>

-----------------------------------------------------------------------------
(* executeClaimedTask, for a run and for a reviewer.                       *)

\* A bug: the claim of a reviewer asks only for the decision.
IsClaimable_AnyStatus(a) ==
  IF a \in Runs THEN row.status = "proposed" /\ row.decision = "auto"
  ELSE row.decision = "review"

\* The where clause of claimTaskCreation
IsClaimable(a) ==
  row.status = "proposed" /\ row.decision = IF a \in Runs THEN "auto" ELSE "review"

\* A reviewer's due date is checked to be ahead, whichever it is.
ClaimTask(a) ==
  /\ At(a, "claiming")
  /\ IF IsClaimable(a)
     THEN /\ row' = [row EXCEPT !.status = "creating_task",
                                !.due = IF a \in Runs THEN @ ELSE setup.now + 1]
          /\ Goto(a, "posting")
     ELSE /\ Answer(a, "existing")
          /\ UNCHANGED row
  /\ UNCHANGED <<setup, boundary, mode, amo>>

\* What createVerifiedTask returns: [sent, made, step].  The fresh lead may be
\* unreadable or closed; a POST may be refused; an ambiguous or incomplete
\* response is resolved by a task list that echoes the request id, and never by
\* another POST; a read-back may fail or differ.
TaskOutcomes ==
  {[sent |-> 0, made |-> FALSE, step |-> "task_uncertain"],
   [sent |-> 0, made |-> FALSE, step |-> "task_not_created"],
   [sent |-> 1, made |-> FALSE, step |-> "task_not_created"],
   [sent |-> 1, made |-> FALSE, step |-> "task_uncertain"],
   [sent |-> 1, made |-> TRUE,  step |-> "task_uncertain"],
   [sent |-> 1, made |-> TRUE,  step |-> "task_confirmed"]}

CreateTask(a) ==
  /\ At(a, "posting")
  /\ \E o \in TaskOutcomes :
       /\ amo' = [amo EXCEPT !.posts = @ + o.sent, !.task = @ \/ o.made]
       /\ Goto(a, o.step)
  /\ UNCHANGED <<setup, boundary, mode, row>>

\* A bug: an uncertain task is left as it is.
TaskStatus_Forgets ==
  [task_confirmed |-> "task_confirmed", task_not_created |-> "skipped",
   task_uncertain |-> "creating_task"]

\* What markTaskConfirmed, markTaskSkipped and markTaskUncertain write
TaskStatus ==
  [task_confirmed |-> "task_confirmed", task_not_created |-> "skipped",
   task_uncertain |-> "uncertain"]

SettleTask(a) ==
  LET creating == row.status = "creating_task" IN
  /\ job[a].pc \in DOMAIN TaskStatus
  /\ row' = IF creating THEN [row EXCEPT !.status = TaskStatus[job[a].pc]] ELSE row
  /\ IF At(a, "task_confirmed") /\ creating THEN Goto(a, "claiming_note")
     ELSE Answer(a, IF At(a, "task_not_created") THEN "task_not_created" ELSE "uncertain")
  /\ UNCHANGED <<setup, boundary, mode, amo>>

ClaimNote(a) ==
  /\ At(a, "claiming_note")
  /\ IF row.status = "task_confirmed"
     THEN /\ row' = [row EXCEPT !.status = "creating_note"]
          /\ Goto(a, "noting")
     ELSE /\ Answer(a, "uncertain")
          /\ UNCHANGED row
  /\ UNCHANGED <<setup, boundary, mode, amo>>

\* addTaskReasonNote: made and answered, refused, or its fate unknown.
AddNote(a) ==
  /\ At(a, "noting")
  /\ \E made \in BOOLEAN, known \in BOOLEAN :
       /\ amo' = [amo EXCEPT !.notePosts = @ + 1, !.note = @ \/ made]
       /\ Goto(a, IF made /\ known THEN "note_confirmed" ELSE "note_uncertain")
  /\ UNCHANGED <<setup, boundary, mode, row>>

\* A bug: the run tells of the note before it looks at the outcome.
SettleNote_Optimist(a) ==
  /\ job[a].pc \in {"note_confirmed", "note_uncertain"}
  /\ row' = IF row.status = "creating_note" THEN [row EXCEPT !.status = "confirmed"] ELSE row
  /\ Answer(a, "confirmed")
  /\ UNCHANGED <<setup, boundary, mode, amo>>

\* markNoteConfirmed and markNoteUncertain
SettleNote(a) ==
  LET noting == row.status = "creating_note"
      to == IF At(a, "note_confirmed") THEN "confirmed" ELSE "uncertain"
  IN /\ job[a].pc \in {"note_confirmed", "note_uncertain"}
     /\ row' = IF noting THEN [row EXCEPT !.status = to] ELSE row
     /\ Answer(a, IF noting THEN to ELSE "uncertain")
     /\ UNCHANGED <<setup, boundary, mode, amo>>

-----------------------------------------------------------------------------
(* Around the actors.                                                      *)

\* initializeCallTaskAutomationActivation: only the first boundary stays.
Activate ==
  /\ boundary = -1
  /\ boundary' = setup.boundary
  /\ UNCHANGED <<setup, mode, row, job, amo>>

\* The ten minutes of an analysis lease are over.
LeaseLapses ==
  /\ row.status = "analyzing" /\ ~row.lapsed
  /\ row' = [row EXCEPT !.lapsed = TRUE]
  /\ UNCHANGED <<setup, boundary, mode, job, amo>>

\* An exception of a statement, or the end of the process, ends an actor where
\* it is; nothing resumes it.
Crash(a) ==
  /\ job[a].pc \notin {"ready", "done"}
  /\ Answer(a, "crashed")
  /\ UNCHANGED <<setup, boundary, mode, row, amo>>

\* A deployment with the other execution mode; no actor outlives the process.
Redeploy ==
  /\ mode' = IF mode = "live" THEN "dry_run" ELSE "live"
  /\ job' = [a \in Actors |-> IF job[a].pc \in {"ready", "done"} THEN job[a]
                              ELSE [pc |-> "done", said |-> "crashed"]]
  /\ UNCHANGED <<setup, boundary, row, amo>>

Run(r) ==
  \/ Begin(r) \/ LookUp(r) \/ CreateAction(r) \/ ReclaimAnalysis(r) \/ FinalizeAnalysis(r)

Execute(a) ==
  \/ ClaimTask(a) \/ CreateTask(a) \/ SettleTask(a)
  \/ ClaimNote(a) \/ AddNote(a) \/ SettleNote(a)

Next ==
  \/ \E r \in Runs : Run(r)
  \/ \E v \in Reviewers : Press(v) \/ Reject(v)
  \/ \E a \in Actors : Execute(a) \/ Crash(a)
  \/ Activate \/ LeaseLapses \/ Redeploy

Spec == Init /\ [][Next]_vars

-----------------------------------------------------------------------------
(* Properties.                                                             *)

Steps == {"ready", "looking", "creating", "reclaiming", "analyzing", "rejecting",
          "claiming", "posting", "task_confirmed", "task_not_created", "task_uncertain",
          "claiming_note", "noting", "note_confirmed", "note_uncertain", "done"}

Said == {"nothing", "ineligible", "not_configured", "lead_unavailable", "existing",
         "no_action", "analysis_unavailable", "review_pending", "dry_run",
         "analysis_claim_lost", "rejected", "task_not_created", "uncertain", "confirmed",
         "crashed"}

TypeOK ==
  /\ setup \in Setups
  /\ boundary \in Int
  /\ mode \in {"live", "dry_run"}
  /\ row \in [status : Statuses, decision : {"none", "auto", "review"},
              lease : Runs \cup {Nobody}, lapsed : BOOLEAN, due : Int]
  /\ job \in [Actors -> [pc : Steps, said : Said]]
  /\ amo \in [posts : Nat, task : BOOLEAN, notePosts : Nat, note : BOOLEAN]

\* Over deliveries of the call again, leases taken over, crashes, double
\* approvals and approvals that race with a rejection, amoCRM is asked for one
\* task and one note at most, the note after the task is known to exist, and a
\* refused or skipped action never has a task
\* (executeReviewedCallTaskProposal, createVerifiedTask).
Promise == INSTANCE CallTaskPromise
  WITH posts <- amo.posts, task <- amo.task, notePosts <- amo.notePosts,
       note <- amo.note, refused <- row.status \in {"rejected", "skipped"}

OnceSpec == Promise!Spec

\* What an actor was told stays true, whatever the others do later.
AnswersStand ==
  \A a \in Actors :
    /\ job[a].said = "confirmed" => amo.task /\ amo.note
    /\ job[a].said = "task_not_created" => ~amo.task
    /\ job[a].said \in {"rejected", "no_action", "analysis_unavailable"} => amo.posts = 0

\* A task is requested in live mode only, for a lead and a call after the
\* activation, and due after the run that proposed it began.
TasksAreCalledFor ==
  [][amo'.posts # amo.posts =>
       /\ mode = "live"
       /\ boundary # -1 /\ Eligible
       /\ row.due > setup.now]_vars

\* Unless an actor crashed, the ledger keeps no action half done once the
\* actors are done: nothing else would ever take it up again.
SettledUnlessCrashed ==
  (\A a \in Actors : job[a].pc \in {"ready", "done"} /\ job[a].said # "crashed")
    => row.status \notin {"analyzing", "creating_task", "task_confirmed", "creating_note"}
=============================================================================
