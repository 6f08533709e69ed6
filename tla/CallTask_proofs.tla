--------------------------- MODULE CallTask_proofs ---------------------------
(***************************************************************************)
(* Call-task automation keeps its promise of one task and one note, for    *)
(* any number of deliveries, reviewers, hints and setups.                  *)
(***************************************************************************)
EXTENDS CallTask, TLAPS

TaskSteps == {"posting", "task_confirmed", "task_not_created", "task_uncertain"}
NoteSteps == {"noting", "note_confirmed", "note_uncertain"}
Executing == TaskSteps \cup {"claiming_note"} \cup NoteSteps

\* One actor at a time is past the claim of the task.
OneExecutor ==
  \A a, b \in Actors : job[a].pc \in Executing /\ job[b].pc \in Executing => a = b

\* The ledger stands where its executor is, and who has answered is done.
InStep ==
  \A a \in Actors :
    /\ job[a].said # "nothing" => job[a].pc = "done"
    /\ job[a].pc \in TaskSteps => row.status = "creating_task"
    /\ job[a].pc = "claiming_note" => row.status = "task_confirmed"
    /\ job[a].pc \in NoteSteps => row.status = "creating_note"
    /\ job[a].pc = "posting" => amo.posts = 0
    /\ job[a].pc = "task_confirmed" => amo.task
    /\ job[a].pc = "task_not_created" => ~amo.task
    /\ job[a].pc = "noting" => amo.notePosts = 0
    /\ job[a].pc = "note_confirmed" => amo.note

\* What the status says of amoCRM.
Made ==
  /\ row.status \in {"absent", "analyzing", "proposed", "rejected"} => amo.posts = 0
  /\ amo.posts = 0 => ~amo.task
  /\ row.status = "skipped" => ~amo.task
  /\ row.status \in {"task_confirmed", "creating_note", "confirmed"} => amo.task
  /\ row.status \notin {"creating_note", "confirmed", "uncertain"} => amo.notePosts = 0
  /\ row.status = "confirmed" => amo.note

\* What an actor was told is what the ledger says for good.
Told ==
  \A a \in Actors :
    /\ job[a].said = "confirmed" => row.status = "confirmed"
    /\ job[a].said = "task_not_created" => row.status = "skipped"
    /\ job[a].said = "rejected" => row.status = "rejected"
    /\ job[a].said \in {"no_action", "analysis_unavailable"} =>
         row.status = "skipped" /\ amo.posts = 0

\* A status that must go on has its actor, or one that crashed.
Owned ==
  /\ row.status = "analyzing" =>
       /\ row.lease \in Runs
       /\ job[row.lease].pc = "analyzing" \/ job[row.lease].said = "crashed"
  /\ row.status \in {"creating_task", "task_confirmed", "creating_note"} =>
       \E a \in Actors : job[a].pc \in Executing \/ job[a].said = "crashed"

\* Who asks for a task is live, activated and eligible, and the task is due ahead.
CalledFor ==
  /\ \A a \in Actors : job[a].pc \in {"claiming", "posting"} => mode = "live"
  /\ \A a \in Actors : job[a].pc \notin {"ready", "done"} => boundary # -1 /\ Eligible
  /\ row.status # "absent" => boundary # -1 /\ Eligible
  /\ row.status = "proposed" /\ row.decision = "auto" => row.due > setup.now
  /\ row.status = "creating_task" => row.due > setup.now

IInv == TypeOK /\ OneExecutor /\ InStep /\ Made /\ Told /\ Owned /\ CalledFor

Jobs == [Actors -> [pc : Steps, said : Said]]

\* How an actor moves on, and how it ends: the others stay where they are.
LEMMA GotoFact ==
  ASSUME job \in Jobs, NEW a \in Actors, NEW s \in Steps, Goto(a, s)
  PROVE  /\ job' \in Jobs /\ job'[a].pc = s /\ job'[a].said = job[a].said
         /\ \A b \in Actors \ {a} : job'[b] = job[b]
BY DEF Goto, Jobs

LEMMA AnswerFact ==
  ASSUME job \in Jobs, NEW a \in Actors, NEW w \in Said, Answer(a, w)
  PROVE  /\ job' \in Jobs /\ job'[a].pc = "done" /\ job'[a].said = w
         /\ \A b \in Actors \ {a} : job'[b] = job[b]
BY DEF Answer, Jobs, Steps

\* A deadline the analysis proposes by itself is ahead of the run.
LEMMA ProposalFact ==
  ASSUME setup \in Setups, NEW p \in Proposals
  PROVE  /\ p.decision \in {"none", "invalid", "review", "auto"}
         /\ p.due \in Int
         /\ p.decision = "auto" => p.due > setup.now
<1>1. setup.now \in Nat
  BY InputAssumption
<1>2. CASE p \in {[decision |-> d, due |-> Unresolved] : d \in {"none", "invalid"}}
  BY <1>2 DEF Unresolved
<1>3. ASSUME NEW h \in Hints, p = Proposal(h, setup.now)
      PROVE  /\ p.decision \in {"none", "invalid", "review", "auto"}
             /\ p.due \in Int
             /\ p.decision = "auto" => p.due > setup.now
  <2>1. h.kind \in {"exact", "date", "tomorrow", "none"} /\ h.at \in Nat
    BY InputAssumption
  <2>2. HourOf(h, setup.now) \in Int
    BY <1>1, <2>1 DEF HourOf, Unresolved
  <2> DEFINE due == ResolveDueAt(h, setup.now)
  <2>3. due \in Int /\ (due # Unresolved => due > setup.now)
    BY <1>1, <2>2 DEF ResolveDueAt, Unresolved
  <2>4. CASE due # Unresolved
    BY <1>3, <2>3, <2>4 DEF Proposal
  <2>5. CASE due = Unresolved
    <3>1. p = IF h.kind = "exact" THEN [decision |-> "invalid", due |-> Unresolved]
              ELSE [decision |-> "review", due |-> Unresolved]
      BY <1>3, <2>5 DEF Proposal
    <3> QED BY <3>1 DEF Unresolved
  <2> QED BY <2>4, <2>5
<1> QED BY <1>2, <1>3 DEF Proposals

\* A task is known to exist or not to when the outcome says so.
LEMMA TaskOutcomeFact ==
  \A o \in TaskOutcomes :
    /\ o.sent \in {0, 1} /\ o.made \in BOOLEAN
    /\ o.step \in {"task_confirmed", "task_not_created", "task_uncertain"}
    /\ o.step = "task_confirmed" => o.made = TRUE
    /\ o.step = "task_not_created" => o.made = FALSE
    /\ o.sent = 0 => o.made = FALSE
<1> SUFFICES ASSUME NEW o \in TaskOutcomes
             PROVE  /\ o.sent \in {0, 1} /\ o.made \in BOOLEAN
                    /\ o.step \in {"task_confirmed", "task_not_created", "task_uncertain"}
                    /\ o.step = "task_confirmed" => o.made = TRUE
                    /\ o.step = "task_not_created" => o.made = FALSE
                    /\ o.sent = 0 => o.made = FALSE
  OBVIOUS
<1>1. CASE o = [sent |-> 0, made |-> FALSE, step |-> "task_uncertain"]
  BY <1>1
<1>2. CASE o = [sent |-> 0, made |-> FALSE, step |-> "task_not_created"]
  BY <1>2
<1>3. CASE o = [sent |-> 1, made |-> FALSE, step |-> "task_not_created"]
  BY <1>3
<1>4. CASE o = [sent |-> 1, made |-> FALSE, step |-> "task_uncertain"]
  BY <1>4
<1>5. CASE o = [sent |-> 1, made |-> TRUE, step |-> "task_uncertain"]
  BY <1>5
<1>6. CASE o = [sent |-> 1, made |-> TRUE, step |-> "task_confirmed"]
  BY <1>6
<1> QED BY <1>1, <1>2, <1>3, <1>4, <1>5, <1>6, Zenon DEF TaskOutcomes

LEMMA InitHolds == Init => IInv
<1> SUFFICES ASSUME Init PROVE IInv
  OBVIOUS
<1>1. TypeOK
  BY InputAssumption DEF Init, TypeOK, Statuses, Steps, Said
<1>2. \A a \in Actors : job[a].pc = "ready" /\ job[a].said = "nothing"
  BY DEF Init
<1>3. row.status = "absent" /\ row.decision = "none" /\ amo.posts = 0 /\ amo.notePosts = 0
      /\ amo.task = FALSE /\ amo.note = FALSE
  BY DEF Init
<1> QED BY <1>1, <1>2, <1>3
        DEF IInv, OneExecutor, InStep, Made, Told, Owned, CalledFor, Executing, TaskSteps,
            NoteSteps

\* Every step keeps the invariant: the ledger row lets one actor past the claim, and
\* each of its writes says what amoCRM has.
LEMMA StepHolds == IInv /\ [Next]_vars => IInv'
<1> SUFFICES ASSUME IInv, [Next]_vars PROVE IInv'
  OBVIOUS
<1>0. TypeOK /\ job \in Jobs /\ setup.now \in Nat /\ setup.boundary \in Nat
  BY InputAssumption DEF IInv, TypeOK, Jobs
<1> DEFINE Rest == OneExecutor /\ InStep /\ Made /\ Told /\ Owned /\ CalledFor
<1> USE DEF IInv
\* An actor that moves on before any claim, or ends there, changes nothing else.
<1>w. ASSUME NEW a \in Actors, job' \in Jobs, \A b \in Actors \ {a} : job'[b] = job[b],
             UNCHANGED <<setup, boundary, mode, row, amo>>,
             job[a].pc \notin Executing \cup {"analyzing", "done"},
             job'[a].pc \notin Executing,
             job'[a].pc = "claiming" => mode = "live",
             job'[a].pc # "done" => boundary # -1 /\ Eligible /\ job'[a].said = "nothing",
             job'[a].said \notin {"confirmed", "task_not_created", "rejected", "no_action",
                                  "analysis_unavailable"}
      PROVE  IInv'
  <2>1. TypeOK'
    BY <1>0, <1>w DEF TypeOK, Jobs
  <2>2. OneExecutor' /\ InStep' /\ Made' /\ Told' /\ CalledFor'
    BY <1>w DEF OneExecutor, InStep, Made, Told, CalledFor, Executing, TaskSteps, NoteSteps,
                Eligible
  <2>3. Owned'
    BY <1>0, <1>w DEF Owned, InStep, Actors
  <2> QED BY <2>1, <2>2, <2>3
<1>1. ASSUME NEW r \in Runs, Begin(r) PROVE IInv'
  <2>1. \/ boundary # -1 /\ Eligible /\ Goto(r, "looking")
        \/ \E w \in {"ineligible", "not_configured", "lead_unavailable"} : Answer(r, w)
    BY <1>1 DEF Begin
  <2>2. r \in Actors /\ job[r].pc = "ready" /\ job[r].said = "nothing"
        /\ UNCHANGED <<setup, boundary, mode, row, amo>>
    BY <1>1 DEF Begin, At, Actors, InStep
  <2>3. CASE boundary # -1 /\ Eligible /\ Goto(r, "looking")
    <3>1. job' \in Jobs /\ job'[r].pc = "looking" /\ job'[r].said = "nothing"
          /\ \A b \in Actors \ {r} : job'[b] = job[b]
      BY <1>0, <2>2, <2>3, GotoFact DEF Steps
    <3> QED BY <1>w, <2>2, <2>3, <3>1 DEF Executing, TaskSteps, NoteSteps
  <2>4. ASSUME NEW w \in {"ineligible", "not_configured", "lead_unavailable"}, Answer(r, w)
        PROVE  IInv'
    <3>1. job' \in Jobs /\ job'[r].pc = "done" /\ job'[r].said = w
          /\ \A b \in Actors \ {r} : job'[b] = job[b]
      BY <1>0, <2>2, <2>4, AnswerFact DEF Said
    <3> QED BY <1>w, <2>2, <2>4, <3>1 DEF Executing, TaskSteps, NoteSteps
  <2> QED BY <2>1, <2>3, <2>4
<1>2. ASSUME NEW a \in Actors, Answer(a, "existing"), ~At(a, "done"),
             job[a].pc \notin Executing \cup {"analyzing"},
             UNCHANGED <<setup, boundary, mode, row, amo>>
      PROVE  IInv'
  <2>1. job' \in Jobs /\ job'[a].pc = "done" /\ job'[a].said = "existing"
        /\ \A b \in Actors \ {a} : job'[b] = job[b]
    BY <1>0, <1>2, AnswerFact DEF Said
  <2> QED BY <1>w, <1>2, <2>1 DEF At, Executing, TaskSteps, NoteSteps
<1>3. ASSUME NEW r \in Runs, LookUp(r) PROVE IInv'
  <2>1. r \in Actors /\ job[r].pc = "looking" /\ job[r].said = "nothing"
        /\ UNCHANGED <<setup, boundary, mode, row, amo>> /\ boundary # -1 /\ Eligible
    BY <1>3 DEF LookUp, At, Actors, InStep, CalledFor
  <2>2. \/ \E s \in {"creating", "reclaiming"} : Goto(r, s)
        \/ Answer(r, "existing")
    BY <1>3 DEF LookUp
  <2>3. ASSUME NEW s \in {"creating", "reclaiming"}, Goto(r, s) PROVE IInv'
    <3>1. job' \in Jobs /\ job'[r].pc = s /\ job'[r].said = "nothing"
          /\ \A b \in Actors \ {r} : job'[b] = job[b]
      BY <1>0, <2>1, <2>3, GotoFact DEF Steps
    <3> QED BY <1>w, <2>1, <2>3, <3>1 DEF Executing, TaskSteps, NoteSteps
  <2>4. ~At(r, "done") /\ job[r].pc \notin Executing \cup {"analyzing"}
    BY <2>1 DEF At, Executing, TaskSteps, NoteSteps
  <2> HIDE DEF IInv
  <2> QED BY <1>2, <2>1, <2>2, <2>3, <2>4
<1> HIDE DEF IInv
<1>4. ASSUME NEW r \in Runs, CreateAction(r) PROVE IInv'
  <2>1. r \in Actors /\ job[r].pc = "creating" /\ job[r].said = "nothing"
        /\ UNCHANGED <<setup, boundary, mode, amo>> /\ boundary # -1 /\ Eligible
    BY <1>4 DEF CreateAction, At, Actors, IInv, InStep, CalledFor
  <2>2. CASE row.status # "absent"
    <3>1. ~At(r, "done") /\ job[r].pc \notin Executing \cup {"analyzing"}
      BY <2>1 DEF At, Executing, TaskSteps, NoteSteps
    <3> QED BY <1>2, <1>4, <2>1, <2>2, <3>1 DEF CreateAction
  <2>3. CASE row.status = "absent"
    <3>1. row' = [row EXCEPT !.status = "analyzing", !.lease = r] /\ Goto(r, "analyzing")
      BY <1>4, <2>3 DEF CreateAction
    <3>2. job' \in Jobs /\ job'[r].pc = "analyzing" /\ job'[r].said = "nothing"
          /\ \A b \in Actors \ {r} : job'[b] = job[b]
      BY <1>0, <2>1, <3>1, GotoFact DEF Steps
    <3>3. row'.status = "analyzing" /\ row'.lease = r
          /\ row' \in [status : Statuses, decision : {"none", "auto", "review"},
                       lease : Runs \cup {Nobody}, lapsed : BOOLEAN, due : Int]
      BY <1>0, <3>1 DEF TypeOK, Statuses
    <3>4. TypeOK'
      BY <1>0, <2>1, <3>2, <3>3 DEF TypeOK, Jobs
    <3>5. OneExecutor' /\ InStep' /\ Made' /\ Told' /\ CalledFor'
      BY <2>1, <2>3, <3>2, <3>3
         DEF IInv, OneExecutor, InStep, Made, Told, CalledFor, Executing, TaskSteps, NoteSteps,
             Eligible
    <3>6. Owned'
      BY <2>1, <3>2, <3>3 DEF Owned
    <3> QED BY <3>4, <3>5, <3>6 DEF IInv
  <2> QED BY <2>2, <2>3
<1>5. ASSUME NEW r \in Runs, ReclaimAnalysis(r) PROVE IInv'
  <2>1. r \in Actors /\ job[r].pc = "reclaiming" /\ job[r].said = "nothing"
        /\ UNCHANGED <<setup, boundary, mode, amo>> /\ boundary # -1 /\ Eligible
    BY <1>5 DEF ReclaimAnalysis, At, Actors, IInv, InStep, CalledFor
  <2>2. CASE ~(row.status = "analyzing" /\ row.lapsed)
    <3>1. ~At(r, "done") /\ job[r].pc \notin Executing \cup {"analyzing"}
      BY <2>1 DEF At, Executing, TaskSteps, NoteSteps
    <3> QED BY <1>2, <1>5, <2>1, <2>2, <3>1 DEF ReclaimAnalysis
  <2>3. CASE row.status = "analyzing" /\ row.lapsed
    <3>1. row' = [row EXCEPT !.lease = r, !.lapsed = FALSE] /\ Goto(r, "analyzing")
      BY <1>5, <2>3 DEF ReclaimAnalysis
    <3>2. job' \in Jobs /\ job'[r].pc = "analyzing" /\ job'[r].said = "nothing"
          /\ \A b \in Actors \ {r} : job'[b] = job[b]
      BY <1>0, <2>1, <3>1, GotoFact DEF Steps
    <3>3. row'.status = "analyzing" /\ row'.lease = r
          /\ row' \in [status : Statuses, decision : {"none", "auto", "review"},
                       lease : Runs \cup {Nobody}, lapsed : BOOLEAN, due : Int]
      BY <1>0, <2>3, <3>1 DEF TypeOK, Statuses
    <3>4. TypeOK'
      BY <1>0, <2>1, <3>2, <3>3 DEF TypeOK, Jobs
    <3>5. OneExecutor' /\ InStep' /\ Made' /\ Told' /\ CalledFor'
      BY <2>1, <2>3, <3>2, <3>3
         DEF IInv, OneExecutor, InStep, Made, Told, CalledFor, Executing, TaskSteps, NoteSteps,
             Eligible
    <3>6. Owned'
      BY <2>1, <3>2, <3>3 DEF Owned
    <3> QED BY <3>4, <3>5, <3>6 DEF IInv
  <2> QED BY <2>2, <2>3
<1>6. ASSUME NEW r \in Runs, FinalizeAnalysis(r) PROVE IInv'
  <2>1. r \in Actors /\ job[r].pc = "analyzing" /\ job[r].said = "nothing"
        /\ UNCHANGED <<setup, boundary, mode, amo>> /\ boundary # -1 /\ Eligible
    BY <1>6 DEF FinalizeAnalysis, At, Actors, IInv, InStep, CalledFor
  <2>2. CASE ~(row.status = "analyzing" /\ row.lease = r)
    <3>1. Answer(r, "analysis_claim_lost") /\ UNCHANGED row
      BY <1>6, <2>2 DEF FinalizeAnalysis
    <3>2. job' \in Jobs /\ job'[r].pc = "done" /\ job'[r].said = "analysis_claim_lost"
          /\ \A b \in Actors \ {r} : job'[b] = job[b]
      BY <1>0, <2>1, <3>1, AnswerFact DEF Said
    <3>4. TypeOK'
      BY <1>0, <2>1, <3>1, <3>2 DEF TypeOK, Jobs
    <3>5. OneExecutor' /\ InStep' /\ Made' /\ Told' /\ CalledFor'
      BY <2>1, <3>1, <3>2
         DEF IInv, OneExecutor, InStep, Made, Told, CalledFor, Executing, TaskSteps, NoteSteps,
             Eligible
    <3>6. Owned'
      BY <1>0, <2>1, <2>2, <3>1, <3>2
         DEF IInv, Owned, InStep, Actors, Executing, TaskSteps, NoteSteps
    <3> QED BY <3>4, <3>5, <3>6 DEF IInv
  <2>3. CASE row.status = "analyzing" /\ row.lease = r
    <3>1. PICK p \in Proposals :
            /\ row' = Finalized(p)
            /\ IF p.decision = "auto" /\ mode = "live"
               THEN Goto(r, "claiming") ELSE Answer(r, AnswerOf(p))
      BY <1>6, <2>3 DEF FinalizeAnalysis
    <3>2. /\ p.decision \in {"none", "invalid", "review", "auto"} /\ p.due \in Int
          /\ p.decision = "auto" => p.due > setup.now
      BY <1>0, ProposalFact DEF TypeOK
    <3>3. /\ row' \in [status : Statuses, decision : {"none", "auto", "review"},
                       lease : Runs \cup {Nobody}, lapsed : BOOLEAN, due : Int]
          /\ row'.status = IF p.decision \in {"auto", "review"} THEN "proposed" ELSE "skipped"
          /\ row'.decision = "auto" => p.decision = "auto" /\ row'.due = p.due
      BY <1>0, <3>1, <3>2 DEF TypeOK, Statuses, Finalized
    <3>4. /\ job' \in Jobs /\ \A b \in Actors \ {r} : job'[b] = job[b]
          /\ \/ job'[r].pc = "claiming" /\ job'[r].said = "nothing" /\ mode = "live"
             \/ job'[r].pc = "done" /\ job'[r].said \in {"review_pending", "dry_run"}
             \/ /\ job'[r].pc = "done" /\ job'[r].said \in {"no_action", "analysis_unavailable"}
                /\ p.decision \in {"none", "invalid"}
      <4>1. CASE p.decision = "auto" /\ mode = "live"
        BY <1>0, <2>1, <3>1, <4>1, GotoFact DEF Steps
      <4>2. CASE ~(p.decision = "auto" /\ mode = "live")
        <5>1. AnswerOf(p) = CASE p.decision = "none" -> "no_action"
                              [] p.decision = "invalid" -> "analysis_unavailable"
                              [] p.decision = "review" -> "review_pending"
                              [] p.decision = "auto" -> "dry_run"
          BY DEF AnswerOf
        <5>2. /\ AnswerOf(p) \in {"no_action", "analysis_unavailable", "review_pending", "dry_run"}
              /\ AnswerOf(p) \in {"no_action", "analysis_unavailable"} =>
                   p.decision \in {"none", "invalid"}
          BY <3>2, <5>1
        <5>3. AnswerOf(p) \in Said /\ Answer(r, AnswerOf(p))
          BY <3>1, <4>2, <5>2 DEF Said
        <5>4. job' \in Jobs /\ job'[r].pc = "done" /\ job'[r].said = AnswerOf(p)
              /\ \A b \in Actors \ {r} : job'[b] = job[b]
          BY <1>0, <2>1, <5>3, AnswerFact
        <5> QED BY <5>2, <5>4
      <4> QED BY <4>1, <4>2
    <3>5. TypeOK'
      BY <1>0, <2>1, <3>3, <3>4 DEF TypeOK, Jobs
    <3>6. OneExecutor' /\ InStep' /\ Made'
      BY <2>1, <2>3, <3>2, <3>3, <3>4
         DEF IInv, OneExecutor, InStep, Made, Executing, TaskSteps, NoteSteps
    <3>7. Told'
      BY <2>1, <2>3, <3>2, <3>3, <3>4 DEF IInv, Told, Made
    <3>8. Owned' /\ CalledFor'
      BY <2>1, <2>3, <3>2, <3>3, <3>4 DEF IInv, Owned, CalledFor, Eligible
    <3> QED BY <3>5, <3>6, <3>7, <3>8 DEF IInv
  <2> QED BY <2>2, <2>3
<1>7. ASSUME NEW v \in Reviewers, Press(v) PROVE IInv'
  <2>1. v \in Actors /\ job[v].pc = "ready" /\ job[v].said = "nothing" /\ row.status # "absent"
        /\ UNCHANGED <<setup, boundary, mode, row, amo>> /\ boundary # -1 /\ Eligible
    BY <1>7 DEF Press, At, Actors, IInv, InStep, CalledFor
  <2>2. \/ Goto(v, "rejecting")
        \/ Goto(v, "claiming") /\ mode = "live"
        \/ \E w \in {"dry_run", "existing"} : Answer(v, w)
    BY <1>7 DEF Press
  <2>3. ASSUME NEW s \in {"rejecting", "claiming"}, Goto(v, s), s = "claiming" => mode = "live"
        PROVE  IInv'
    <3>1. job' \in Jobs /\ job'[v].pc = s /\ job'[v].said = "nothing"
          /\ \A b \in Actors \ {v} : job'[b] = job[b]
      BY <1>0, <2>1, <2>3, GotoFact DEF Steps
    <3> QED BY <1>w, <2>1, <2>3, <3>1 DEF Executing, TaskSteps, NoteSteps
  <2>4. ASSUME NEW w \in {"dry_run", "existing"}, Answer(v, w) PROVE IInv'
    <3>1. job' \in Jobs /\ job'[v].pc = "done" /\ job'[v].said = w
          /\ \A b \in Actors \ {v} : job'[b] = job[b]
      BY <1>0, <2>1, <2>4, AnswerFact DEF Said
    <3> QED BY <1>w, <2>1, <2>4, <3>1 DEF Executing, TaskSteps, NoteSteps
  <2> QED BY <2>2, <2>3, <2>4
<1>8. ASSUME NEW v \in Reviewers, Reject(v) PROVE IInv'
  <2>1. v \in Actors /\ job[v].pc = "rejecting" /\ job[v].said = "nothing"
        /\ UNCHANGED <<setup, boundary, mode, amo>>
    BY <1>8 DEF Reject, At, Actors, IInv, InStep
  <2>2. CASE ~(row.status = "proposed" /\ row.decision = "review")
    <3>1. ~At(v, "done") /\ job[v].pc \notin Executing \cup {"analyzing"}
      BY <2>1 DEF At, Executing, TaskSteps, NoteSteps
    <3> QED BY <1>2, <1>8, <2>1, <2>2, <3>1 DEF Reject
  <2>3. CASE row.status = "proposed" /\ row.decision = "review"
    <3>1. row' = [row EXCEPT !.status = "rejected"] /\ Answer(v, "rejected")
      BY <1>8, <2>3 DEF Reject
    <3>2. job' \in Jobs /\ job'[v].pc = "done" /\ job'[v].said = "rejected"
          /\ \A b \in Actors \ {v} : job'[b] = job[b]
      BY <1>0, <2>1, <3>1, AnswerFact DEF Said
    <3>3. row'.status = "rejected"
          /\ row' \in [status : Statuses, decision : {"none", "auto", "review"},
                       lease : Runs \cup {Nobody}, lapsed : BOOLEAN, due : Int]
      BY <1>0, <3>1 DEF TypeOK, Statuses
    <3>4. TypeOK'
      BY <1>0, <2>1, <3>2, <3>3 DEF TypeOK, Jobs
    <3>5. OneExecutor' /\ InStep' /\ Made' /\ Told' /\ Owned' /\ CalledFor'
      BY <2>1, <2>3, <3>2, <3>3
         DEF IInv, OneExecutor, InStep, Made, Told, Owned, CalledFor, Executing, TaskSteps,
             NoteSteps, Eligible
    <3> QED BY <3>4, <3>5 DEF IInv
  <2> QED BY <2>2, <2>3
<1>9. ASSUME NEW a \in Actors, ClaimTask(a) PROVE IInv'
  <2>1. job[a].pc = "claiming" /\ job[a].said = "nothing" /\ mode = "live"
        /\ UNCHANGED <<setup, boundary, mode, amo>> /\ boundary # -1 /\ Eligible
    BY <1>9 DEF ClaimTask, At, IInv, InStep, CalledFor
  <2>2. CASE ~IsClaimable(a)
    <3>1. ~At(a, "done") /\ job[a].pc \notin Executing \cup {"analyzing"}
      BY <2>1 DEF At, Executing, TaskSteps, NoteSteps
    <3> QED BY <1>2, <1>9, <2>1, <2>2, <3>1 DEF ClaimTask
  <2>3. CASE IsClaimable(a)
    <3>1. /\ row' = [row EXCEPT !.status = "creating_task",
                                !.due = IF a \in Runs THEN @ ELSE setup.now + 1]
          /\ Goto(a, "posting")
      BY <1>9, <2>3 DEF ClaimTask
    <3>2. job' \in Jobs /\ job'[a].pc = "posting" /\ job'[a].said = "nothing"
          /\ \A b \in Actors \ {a} : job'[b] = job[b]
      BY <1>0, <2>1, <3>1, GotoFact DEF Steps
    <3>3. row.status = "proposed" /\ (a \in Runs => row.decision = "auto")
      BY <2>3 DEF IsClaimable
    <3>4. row' \in [status : Statuses, decision : {"none", "auto", "review"},
                    lease : Runs \cup {Nobody}, lapsed : BOOLEAN, due : Int]
          /\ row'.status = "creating_task"
          /\ row'.due = IF a \in Runs THEN row.due ELSE setup.now + 1
      <4>1. CASE a \in Runs
        BY <1>0, <3>1, <4>1 DEF TypeOK, Statuses
      <4>2. CASE a \notin Runs
        <5>1. setup.now + 1 \in Int
          BY <1>0
        <5>2. row' = [row EXCEPT !.status = "creating_task", !.due = setup.now + 1]
          BY <3>1, <4>2
        <5> QED BY <1>0, <4>2, <5>1, <5>2 DEF TypeOK, Statuses
      <4> QED BY <4>1, <4>2
    <3>5. TypeOK'
      BY <1>0, <2>1, <3>2, <3>4 DEF TypeOK, Jobs
    <3>6. \A b \in Actors : job[b].pc \notin Executing
      BY <3>3 DEF IInv, InStep, Executing, TaskSteps, NoteSteps
    <3>7. OneExecutor' /\ InStep' /\ Made' /\ Told' /\ Owned'
      BY <2>1, <3>2, <3>3, <3>4, <3>6
         DEF IInv, OneExecutor, InStep, Made, Told, Owned, Executing, TaskSteps, NoteSteps
    <3>8. row'.due > setup.now
      BY <1>0, <3>3, <3>4 DEF IInv, CalledFor
    <3>9. CalledFor'
      BY <2>1, <3>2, <3>4, <3>8 DEF IInv, CalledFor, Eligible
    <3> QED BY <3>5, <3>7, <3>9 DEF IInv
  <2> QED BY <2>2, <2>3
<1>10. ASSUME NEW a \in Actors, CreateTask(a) PROVE IInv'
  <2>1. /\ job[a].pc = "posting" /\ job[a].said = "nothing" /\ row.status = "creating_task"
        /\ UNCHANGED <<setup, boundary, mode, row>> /\ boundary # -1 /\ Eligible
        /\ amo.posts = 0 /\ ~amo.task /\ amo.notePosts = 0
    BY <1>10 DEF CreateTask, At, IInv, InStep, CalledFor, TaskSteps, Made
  <2>2. PICK o \in TaskOutcomes :
          /\ amo' = [amo EXCEPT !.posts = @ + o.sent, !.task = @ \/ o.made]
          /\ Goto(a, o.step)
    BY <1>10 DEF CreateTask
  <2>3. /\ o.sent \in {0, 1} /\ o.made \in BOOLEAN
        /\ o.step \in {"task_confirmed", "task_not_created", "task_uncertain"}
        /\ o.step = "task_confirmed" => o.made = TRUE
        /\ o.step = "task_not_created" => o.made = FALSE
        /\ o.sent = 0 => o.made = FALSE
    BY TaskOutcomeFact
  <2>4. job' \in Jobs /\ job'[a].pc = o.step /\ job'[a].said = "nothing"
        /\ \A b \in Actors \ {a} : job'[b] = job[b]
    BY <1>0, <2>1, <2>2, <2>3, GotoFact DEF Steps
  <2>5. /\ amo' \in [posts : Nat, task : BOOLEAN, notePosts : Nat, note : BOOLEAN]
        /\ amo'.posts = o.sent /\ amo'.task = o.made
        /\ amo'.notePosts = amo.notePosts /\ amo'.note = amo.note
    <3>1. /\ amo \in [posts : Nat, task : BOOLEAN, notePosts : Nat, note : BOOLEAN]
          /\ amo.posts = 0 /\ amo.task = FALSE
      BY <1>0, <2>1 DEF TypeOK
    <3>2. (amo.task \/ o.made) = o.made
      BY <2>3, <3>1, Zenon
    <3>3. amo' = [amo EXCEPT !.posts = amo.posts + o.sent, !.task = o.made]
      BY <2>2, <3>2, Zenon
    <3>4. amo.posts + o.sent = o.sent /\ o.sent \in Nat
      BY <2>3, <3>1
    <3> QED BY <2>3, <3>1, <3>3, <3>4
  <2>6. TypeOK'
    BY <1>0, <2>1, <2>4, <2>5 DEF TypeOK, Jobs
  <2>7. OneExecutor' /\ InStep' /\ Owned'
    BY <2>1, <2>3, <2>4, <2>5
       DEF IInv, OneExecutor, InStep, Owned, Executing, TaskSteps, NoteSteps
  <2>8. Made' /\ Told' /\ CalledFor'
    BY <2>1, <2>3, <2>4, <2>5 DEF IInv, Made, Told, CalledFor, Eligible
  <2> QED BY <2>6, <2>7, <2>8 DEF IInv
<1>11. ASSUME NEW a \in Actors, SettleTask(a) PROVE IInv'
  <2>1. /\ job[a].pc \in TaskSteps \ {"posting"} /\ job[a].said = "nothing"
        /\ row.status = "creating_task"
        /\ UNCHANGED <<setup, boundary, mode, amo>> /\ boundary # -1 /\ Eligible
        /\ job[a].pc = "task_confirmed" => amo.task
        /\ job[a].pc = "task_not_created" => ~amo.task
    BY <1>11 DEF SettleTask, TaskStatus, At, IInv, InStep, CalledFor, TaskSteps
  <2>2. row' = [row EXCEPT !.status = TaskStatus[job[a].pc]]
        /\ IF job[a].pc = "task_confirmed" THEN Goto(a, "claiming_note")
           ELSE Answer(a, IF job[a].pc = "task_not_created" THEN "task_not_created" ELSE "uncertain")
    BY <1>11, <2>1 DEF SettleTask, At
  <2>3. /\ row' \in [status : Statuses, decision : {"none", "auto", "review"},
                     lease : Runs \cup {Nobody}, lapsed : BOOLEAN, due : Int]
        /\ row'.status = CASE job[a].pc = "task_confirmed" -> "task_confirmed"
                           [] job[a].pc = "task_not_created" -> "skipped"
                           [] job[a].pc = "task_uncertain" -> "uncertain"
        /\ row'.due = row.due
    BY <1>0, <2>1, <2>2 DEF TypeOK, Statuses, TaskStatus, TaskSteps
  <2>4. /\ job' \in Jobs /\ \A b \in Actors \ {a} : job'[b] = job[b]
        /\ job[a].pc = "task_confirmed" => job'[a].pc = "claiming_note" /\ job'[a].said = "nothing"
        /\ job[a].pc = "task_not_created" => job'[a].pc = "done" /\ job'[a].said = "task_not_created"
        /\ job[a].pc = "task_uncertain" => job'[a].pc = "done" /\ job'[a].said = "uncertain"
    <3>1. CASE job[a].pc = "task_confirmed"
      BY <1>0, <2>1, <2>2, <3>1, GotoFact DEF Steps
    <3>2. CASE job[a].pc = "task_not_created"
      BY <1>0, <2>1, <2>2, <3>2, AnswerFact DEF Said
    <3>3. CASE job[a].pc = "task_uncertain"
      BY <1>0, <2>1, <2>2, <3>3, AnswerFact DEF Said
    <3> QED BY <2>1, <3>1, <3>2, <3>3 DEF TaskSteps
  <2>5. TypeOK'
    BY <1>0, <2>1, <2>3, <2>4 DEF TypeOK, Jobs
  <2>6. \A b \in Actors \ {a} : job[b].pc \notin Executing
    BY <2>1 DEF IInv, OneExecutor, Executing
  <2>7. ASSUME NEW pc \in {"task_confirmed", "task_not_created", "task_uncertain"}, job[a].pc = pc
        PROVE  OneExecutor' /\ InStep' /\ Made' /\ Told' /\ Owned' /\ CalledFor'
    <3>1. OneExecutor' /\ InStep' /\ Owned'
      BY <2>1, <2>3, <2>4, <2>6, <2>7
         DEF IInv, OneExecutor, InStep, Owned, Executing, TaskSteps, NoteSteps
    <3>2. Made' /\ Told' /\ CalledFor'
      BY <2>1, <2>3, <2>4, <2>7 DEF IInv, Made, Told, CalledFor, Eligible
    <3> QED BY <3>1, <3>2
  <2> QED BY <2>1, <2>5, <2>7 DEF IInv, TaskSteps
<1>12. ASSUME NEW a \in Actors, ClaimNote(a) PROVE IInv'
  <2>1. /\ job[a].pc = "claiming_note" /\ job[a].said = "nothing"
        /\ row.status = "task_confirmed" /\ amo.task /\ amo.notePosts = 0
        /\ UNCHANGED <<setup, boundary, mode, amo>> /\ boundary # -1 /\ Eligible
    BY <1>12 DEF ClaimNote, At, IInv, InStep, CalledFor, Made
  <2>2. row' = [row EXCEPT !.status = "creating_note"] /\ Goto(a, "noting")
    BY <1>12, <2>1 DEF ClaimNote
  <2>3. job' \in Jobs /\ job'[a].pc = "noting" /\ job'[a].said = "nothing"
        /\ \A b \in Actors \ {a} : job'[b] = job[b]
    BY <1>0, <2>1, <2>2, GotoFact DEF Steps
  <2>4. row'.status = "creating_note"
        /\ row' \in [status : Statuses, decision : {"none", "auto", "review"},
                     lease : Runs \cup {Nobody}, lapsed : BOOLEAN, due : Int]
    BY <1>0, <2>2 DEF TypeOK, Statuses
  <2>5. TypeOK'
    BY <1>0, <2>1, <2>3, <2>4 DEF TypeOK, Jobs
  <2>6. \A b \in Actors \ {a} : job[b].pc \notin Executing
    BY <2>1 DEF IInv, OneExecutor, Executing
  <2>7. OneExecutor' /\ InStep' /\ Owned'
    BY <2>1, <2>3, <2>4, <2>6
       DEF IInv, OneExecutor, InStep, Owned, Executing, TaskSteps, NoteSteps
  <2>8. Made' /\ Told' /\ CalledFor'
    BY <2>1, <2>3, <2>4 DEF IInv, Made, Told, CalledFor, Eligible
  <2> QED BY <2>5, <2>7, <2>8 DEF IInv
<1>13. ASSUME NEW a \in Actors, AddNote(a) PROVE IInv'
  <2>1. /\ job[a].pc = "noting" /\ job[a].said = "nothing"
        /\ row.status = "creating_note" /\ amo.task /\ amo.notePosts = 0
        /\ UNCHANGED <<setup, boundary, mode, row>> /\ boundary # -1 /\ Eligible
    BY <1>13 DEF AddNote, At, IInv, InStep, CalledFor, Made, NoteSteps
  <2>2. PICK made \in BOOLEAN, known \in BOOLEAN :
          /\ amo' = [amo EXCEPT !.notePosts = @ + 1, !.note = @ \/ made]
          /\ Goto(a, IF made /\ known THEN "note_confirmed" ELSE "note_uncertain")
    BY <1>13 DEF AddNote
  <2>3. /\ amo' \in [posts : Nat, task : BOOLEAN, notePosts : Nat, note : BOOLEAN]
        /\ amo'.posts = amo.posts /\ amo'.task = amo.task /\ amo'.notePosts = 1
        /\ made => amo'.note
    <3>1. /\ amo \in [posts : Nat, task : BOOLEAN, notePosts : Nat, note : BOOLEAN]
          /\ amo.notePosts + 1 = 1
      BY <1>0, <2>1 DEF TypeOK
    <3>2. CASE made
      <4>1. (amo.note \/ made) = TRUE
        BY <3>2, Zenon
      <4>2. amo' = [amo EXCEPT !.notePosts = 1, !.note = TRUE]
        BY <2>2, <3>1, <4>1, Zenon
      <4>3. amo' \in [posts : Nat, task : BOOLEAN, notePosts : Nat, note : BOOLEAN]
        BY <3>1, <4>2
      <4>4. amo'.posts = amo.posts /\ amo'.task = amo.task /\ amo'.notePosts = 1
            /\ amo'.note = TRUE
        BY <3>1, <4>2
      <4> QED BY <4>3, <4>4
    <3>3. CASE ~made
      <4>1. (amo.note \/ made) = amo.note
        BY <3>1, <3>3, Zenon
      <4>2. amo' = [amo EXCEPT !.notePosts = 1, !.note = amo.note]
        BY <2>2, <3>1, <4>1, Zenon
      <4>3. amo' \in [posts : Nat, task : BOOLEAN, notePosts : Nat, note : BOOLEAN]
        BY <3>1, <4>2
      <4>4. amo'.posts = amo.posts /\ amo'.task = amo.task /\ amo'.notePosts = 1
        BY <3>1, <4>2
      <4> QED BY <3>3, <4>3, <4>4
    <3> QED BY <3>2, <3>3
  <2>4. /\ job' \in Jobs /\ job'[a].said = "nothing" /\ \A b \in Actors \ {a} : job'[b] = job[b]
        /\ job'[a].pc \in {"note_confirmed", "note_uncertain"}
        /\ job'[a].pc = "note_confirmed" => amo'.note
    BY <1>0, <2>1, <2>2, <2>3, GotoFact DEF Steps
  <2>5. TypeOK'
    BY <1>0, <2>1, <2>3, <2>4 DEF TypeOK, Jobs
  <2>6. \A b \in Actors \ {a} : job[b].pc \notin Executing
    BY <2>1 DEF IInv, OneExecutor, Executing, NoteSteps
  <2>7. OneExecutor' /\ InStep' /\ Owned'
    BY <2>1, <2>3, <2>4, <2>6
       DEF IInv, OneExecutor, InStep, Owned, Executing, TaskSteps, NoteSteps
  <2>8. Made' /\ Told' /\ CalledFor'
    BY <2>1, <2>3, <2>4 DEF IInv, Made, Told, CalledFor, Eligible
  <2> QED BY <2>5, <2>7, <2>8 DEF IInv
<1>14. ASSUME NEW a \in Actors, SettleNote(a) PROVE IInv'
  <2> DEFINE to == IF job[a].pc = "note_confirmed" THEN "confirmed" ELSE "uncertain"
  <2>1. /\ job[a].pc \in {"note_confirmed", "note_uncertain"} /\ job[a].said = "nothing"
        /\ row.status = "creating_note" /\ amo.task
        /\ job[a].pc = "note_confirmed" => amo.note
        /\ UNCHANGED <<setup, boundary, mode, amo>> /\ boundary # -1 /\ Eligible
    BY <1>14 DEF SettleNote, IInv, InStep, CalledFor, Made, NoteSteps
  <2>2. row' = [row EXCEPT !.status = to] /\ Answer(a, to)
    BY <1>14, <2>1 DEF SettleNote, At
  <2>3. to \in {"confirmed", "uncertain"} /\ (to = "confirmed" => amo.note)
    BY <2>1
  <2> HIDE DEF to
  <2>4. job' \in Jobs /\ job'[a].pc = "done" /\ job'[a].said = to
        /\ \A b \in Actors \ {a} : job'[b] = job[b]
    BY <1>0, <2>2, <2>3, AnswerFact DEF Said
  <2>5. row'.status = to
        /\ row' \in [status : Statuses, decision : {"none", "auto", "review"},
                     lease : Runs \cup {Nobody}, lapsed : BOOLEAN, due : Int]
    BY <1>0, <2>2, <2>3 DEF TypeOK, Statuses
  <2>6. TypeOK'
    BY <1>0, <2>1, <2>4, <2>5 DEF TypeOK, Jobs
  <2>7. \A b \in Actors \ {a} : job[b].pc \notin Executing
    BY <2>1 DEF IInv, OneExecutor, Executing, NoteSteps
  <2>8. OneExecutor' /\ InStep' /\ Owned'
    BY <2>1, <2>3, <2>4, <2>5, <2>7
       DEF IInv, OneExecutor, InStep, Owned, Executing, TaskSteps, NoteSteps
  <2>9. Made' /\ Told' /\ CalledFor'
    BY <2>1, <2>3, <2>4, <2>5 DEF IInv, Made, Told, CalledFor, Eligible
  <2> QED BY <2>6, <2>8, <2>9 DEF IInv
<1>15. ASSUME NEW a \in Actors, Crash(a) PROVE IInv'
  <2>1. job[a].pc \notin {"ready", "done"} /\ job[a].said = "nothing"
        /\ UNCHANGED <<setup, boundary, mode, row, amo>>
    BY <1>15 DEF Crash, IInv, InStep
  <2>2. job' \in Jobs /\ job'[a].pc = "done" /\ job'[a].said = "crashed"
        /\ \A b \in Actors \ {a} : job'[b] = job[b]
    BY <1>0, <1>15, AnswerFact DEF Crash, Said
  <2>3. TypeOK'
    BY <1>0, <2>1, <2>2 DEF TypeOK, Jobs
  <2>4. OneExecutor' /\ InStep' /\ Made' /\ Told' /\ CalledFor'
    BY <2>1, <2>2
       DEF IInv, OneExecutor, InStep, Made, Told, CalledFor, Executing, TaskSteps, NoteSteps,
           Eligible
  <2>5. Owned'
    BY <1>0, <2>1, <2>2 DEF IInv, Owned, Actors
  <2> QED BY <2>3, <2>4, <2>5 DEF IInv
<1>16. CASE Activate
  <2>1. boundary = -1 /\ boundary' = setup.boundary /\ UNCHANGED <<setup, mode, row, job, amo>>
    BY <1>16 DEF Activate
  <2>2. TypeOK'
    BY <1>0, <2>1 DEF TypeOK
  <2>3. CalledFor'
    BY <2>1 DEF IInv, CalledFor, Eligible
  <2> QED BY <2>1, <2>2, <2>3 DEF IInv, OneExecutor, InStep, Made, Told, Owned
<1>17. CASE LeaseLapses
  <2>1. row.status = "analyzing" /\ row' = [row EXCEPT !.lapsed = TRUE]
        /\ UNCHANGED <<setup, boundary, mode, job, amo>>
    BY <1>17 DEF LeaseLapses
  <2>2. /\ row' \in [status : Statuses, decision : {"none", "auto", "review"},
                     lease : Runs \cup {Nobody}, lapsed : BOOLEAN, due : Int]
        /\ row'.status = row.status /\ row'.lease = row.lease /\ row'.due = row.due
        /\ row'.decision = row.decision
    BY <1>0, <2>1 DEF TypeOK
  <2>3. TypeOK'
    BY <1>0, <2>1, <2>2 DEF TypeOK
  <2> QED BY <2>1, <2>2, <2>3 DEF IInv, OneExecutor, InStep, Made, Told, Owned, CalledFor,
                                  Eligible
<1>18. CASE Redeploy
  <2>1. /\ mode' \in {"live", "dry_run"} /\ UNCHANGED <<setup, boundary, row, amo>>
        /\ job' = [a \in Actors |-> IF job[a].pc \in {"ready", "done"} THEN job[a]
                                    ELSE [pc |-> "done", said |-> "crashed"]]
    BY <1>18 DEF Redeploy
  <2>2. job' \in Jobs
    BY <1>0, <2>1 DEF Jobs, Steps, Said
  <2>3. \A a \in Actors :
          \/ job[a].pc \in {"ready", "done"} /\ job'[a] = job[a]
          \/ job[a].pc \notin {"ready", "done"} /\ job'[a].pc = "done" /\ job'[a].said = "crashed"
    BY <2>1
  <2>4. TypeOK'
    BY <1>0, <2>1, <2>2 DEF TypeOK, Jobs
  <2>5. OneExecutor' /\ InStep' /\ Made' /\ Told' /\ CalledFor'
    BY <2>1, <2>3
       DEF IInv, OneExecutor, InStep, Made, Told, CalledFor, Executing, TaskSteps, NoteSteps,
           Eligible
  <2>6. Owned'
    BY <2>1, <2>3 DEF IInv, Owned, Actors, Executing, TaskSteps, NoteSteps
  <2> QED BY <2>4, <2>5, <2>6 DEF IInv
<1>19. CASE UNCHANGED vars
  BY <1>19 DEF vars, IInv, TypeOK, OneExecutor, InStep, Made, Told, Owned, CalledFor, Eligible
<1> QED
  BY <1>1, <1>3, <1>4, <1>5, <1>6, <1>7, <1>8, <1>9, <1>10, <1>11, <1>12, <1>13, <1>14, <1>15,
     <1>16, <1>17, <1>18, <1>19 DEF Next, Run, Execute

LEMMA Invariant == Spec => []IInv
<1>1. IInv /\ [Next]_vars => IInv'
  BY StepHolds
<1> QED BY <1>1, InitHolds, PTL DEF Spec

\* The row, the actors and what amoCRM has are well formed in every reachable state.
THEOREM TypeCorrect == Spec => []TypeOK
BY Invariant, PTL DEF IInv

\* What a run or a reviewer was answered (runCallTaskAutomation, approveProposal,
\* rejectProposal) stays true of amoCRM, whatever the others do later.
THEOREM AnswersAreKept == Spec => []AnswersStand
<1>1. IInv => AnswersStand
  BY DEF IInv, AnswersStand, Told, Made
<1> QED BY <1>1, Invariant, PTL

\* Without a crash no action stays half done in the ledger (markTaskUncertain and the
\* other settling writes): an analysis or a claim has its actor until it is over.
THEOREM NothingIsLeftHalfDone == Spec => []SettledUnlessCrashed
<1>1. IInv => SettledUnlessCrashed
  BY DEF IInv, SettledUnlessCrashed, Owned, Actors, Executing, TaskSteps, NoteSteps
<1> QED BY <1>1, Invariant, PTL

\* A task is posted only by a live process, for a lead and a call that the activation
\* admits, with a deadline ahead (executeClaimedTask, resolveCallTaskDueAt).
THEOREM OnlyCalledForTasks == Spec => TasksAreCalledFor
<1> DEFINE Called == amo'.posts # amo.posts =>
                       mode = "live" /\ boundary # -1 /\ Eligible /\ row.due > setup.now
<1>1. IInv /\ [Next]_vars => [Called]_vars
  <2> SUFFICES ASSUME IInv, Next, amo'.posts # amo.posts
               PROVE  mode = "live" /\ boundary # -1 /\ Eligible /\ row.due > setup.now
    OBVIOUS
  <2>1. PICK a \in Actors : CreateTask(a)
    <3>1. ASSUME NEW a \in Actors, AddNote(a) PROVE FALSE
      BY <3>1 DEF AddNote, IInv, TypeOK
    <3>2. UNCHANGED amo \/ \E a \in Actors : CreateTask(a) \/ AddNote(a)
      BY DEF Next, Run, Execute, Begin, LookUp, CreateAction, ReclaimAnalysis, FinalizeAnalysis,
             Press, Reject, ClaimTask, SettleTask, ClaimNote, SettleNote, Crash, Activate,
             LeaseLapses, Redeploy
    <3> QED BY <3>1, <3>2
  <2> QED BY <2>1 DEF CreateTask, At, IInv, InStep, CalledFor, TaskSteps
<1> QED BY <1>1, Invariant, PTL DEF Spec, TasksAreCalledFor

\* Each step of the automation is a step of the promise, or one it does not see.
LEMMA StepRefines == IInv /\ [Next]_vars => [Promise!Next]_(Promise!vars)
<1> DEFINE refused == row.status \in {"rejected", "skipped"}
<1> SUFFICES ASSUME IInv, [Next]_vars PROVE Promise!Next \/ UNCHANGED Promise!vars
  OBVIOUS
<1>0. /\ amo \in [posts : Nat, task : BOOLEAN, notePosts : Nat, note : BOOLEAN]
      /\ row \in [status : Statuses, decision : {"none", "auto", "review"},
                  lease : Runs \cup {Nobody}, lapsed : BOOLEAN, due : Int]
  BY DEF IInv, TypeOK
\* A write of the row is a refusal, or does not touch on what was refused.
<1>r. ASSUME UNCHANGED amo, refused' = refused \/ (refused' = TRUE /\ ~amo.task)
      PROVE  Promise!Next \/ UNCHANGED Promise!vars
  <2>1. CASE refused' = refused
    BY <1>r, <2>1 DEF Promise!vars
  <2>2. CASE refused' = TRUE /\ ~amo.task
    <3>1. Promise!Refuse
      BY <1>r, <2>2 DEF Promise!Refuse
    <3> QED BY <3>1 DEF Promise!Next
  <2> QED BY <1>r, <2>1, <2>2
<1>1. ASSUME NEW r \in Runs, CreateAction(r) \/ ReclaimAnalysis(r) PROVE UNCHANGED <<amo, refused>>
  <2>1. CASE CreateAction(r)
    <3>1. /\ UNCHANGED amo
          /\ \/ UNCHANGED row
             \/ /\ row.status = "absent"
                /\ row' = [row EXCEPT !.status = "analyzing", !.lease = r]
      BY <2>1 DEF CreateAction
    <3>2. row'.status = row.status \/ (row.status = "absent" /\ row'.status = "analyzing")
      BY <1>0, <3>1
    <3> QED BY <3>1, <3>2
  <2>2. CASE ReclaimAnalysis(r)
    <3>1. UNCHANGED amo /\ (UNCHANGED row \/ row' = [row EXCEPT !.lease = r, !.lapsed = FALSE])
      BY <2>2 DEF ReclaimAnalysis
    <3>2. row'.status = row.status
      BY <1>0, <3>1
    <3> QED BY <3>1, <3>2
  <2> QED BY <1>1, <2>1, <2>2
<1>2. ASSUME NEW r \in Runs, FinalizeAnalysis(r)
      PROVE  UNCHANGED amo /\ (refused' = refused \/ (refused' = TRUE /\ ~amo.task))
  <2>1. CASE UNCHANGED row
    BY <1>2, <2>1 DEF FinalizeAnalysis
  <2>2. CASE row.status = "analyzing" /\ \E p \in Proposals : row' = Finalized(p)
    <3>1. row'.status \in {"proposed", "skipped"} /\ ~amo.task /\ UNCHANGED amo
      BY <1>0, <1>2, <2>2 DEF FinalizeAnalysis, Finalized, IInv, Made
    <3> QED BY <2>2, <3>1
  <2> QED BY <1>2, <2>1, <2>2 DEF FinalizeAnalysis
<1>3. ASSUME NEW v \in Reviewers, Reject(v)
      PROVE  UNCHANGED amo /\ (refused' = refused \/ (refused' = TRUE /\ ~amo.task))
  BY <1>0, <1>3 DEF Reject, IInv, Made
<1>4. ASSUME NEW a \in Actors, ClaimTask(a) \/ ClaimNote(a) PROVE UNCHANGED <<amo, refused>>
  <2>1. /\ UNCHANGED amo
        /\ \/ UNCHANGED row
           \/ /\ row.status = "proposed"
              /\ row' = [row EXCEPT !.status = "creating_task",
                                    !.due = IF a \in Runs THEN @ ELSE setup.now + 1]
           \/ /\ row.status = "task_confirmed"
              /\ row' = [row EXCEPT !.status = "creating_note"]
    BY <1>4 DEF ClaimTask, ClaimNote, IsClaimable
  <2>2. \/ row'.status = row.status
        \/ row.status = "proposed" /\ row'.status = "creating_task"
        \/ row.status = "task_confirmed" /\ row'.status = "creating_note"
    BY <1>0, <2>1
  <2> QED BY <2>1, <2>2
<1>5. ASSUME NEW a \in Actors, SettleTask(a)
      PROVE  UNCHANGED amo /\ (refused' = refused \/ (refused' = TRUE /\ ~amo.task))
  <2>1. row.status = "creating_task" /\ row' = [row EXCEPT !.status = TaskStatus[job[a].pc]]
        /\ UNCHANGED amo /\ job[a].pc \in {"task_confirmed", "task_not_created", "task_uncertain"}
        /\ (job[a].pc = "task_not_created" => ~amo.task)
    BY <1>5 DEF SettleTask, TaskStatus, IInv, InStep, TaskSteps
  <2>2. row'.status = TaskStatus[job[a].pc]
    BY <1>0, <2>1
  <2>3. /\ TaskStatus["task_confirmed"] = "task_confirmed"
        /\ TaskStatus["task_not_created"] = "skipped"
        /\ TaskStatus["task_uncertain"] = "uncertain"
    BY DEF TaskStatus
  <2> QED BY <2>1, <2>2, <2>3
<1>6. ASSUME NEW a \in Actors, SettleNote(a) PROVE UNCHANGED <<amo, refused>>
  BY <1>0, <1>6 DEF SettleNote
\* The POST of the task, if it is sent at all, is the first and is not refused.
<1>7. ASSUME NEW a \in Actors, CreateTask(a) PROVE Promise!Next \/ UNCHANGED Promise!vars
  <2>1. amo.posts = 0 /\ amo.task = FALSE /\ ~refused /\ UNCHANGED row
    BY <1>0, <1>7 DEF CreateTask, At, IInv, InStep, Made, TaskSteps
  <2>2. PICK o \in TaskOutcomes : amo' = [amo EXCEPT !.posts = @ + o.sent, !.task = @ \/ o.made]
    BY <1>7 DEF CreateTask
  <2>3. o.sent \in {0, 1} /\ o.made \in BOOLEAN /\ (o.sent = 0 => o.made = FALSE)
    BY TaskOutcomeFact
  <2>4. (amo.task \/ o.made) = o.made
    BY <2>1, <2>3, Zenon
  <2>5. amo' = [amo EXCEPT !.posts = amo.posts + o.sent, !.task = o.made]
    BY <2>2, <2>4, Zenon
  <2>6. amo.posts + o.sent = o.sent
    BY <2>1, <2>3
  <2>7. amo'.posts = o.sent /\ amo'.task = o.made /\ amo'.notePosts = amo.notePosts
        /\ amo'.note = amo.note
    BY <1>0, <2>5, <2>6
  <2>8. CASE o.sent = 0
    BY <2>1, <2>3, <2>7, <2>8 DEF Promise!vars
  <2>9. CASE o.sent = 1
    <3>1. Promise!PostTask
      BY <2>1, <2>3, <2>7, <2>9 DEF Promise!PostTask
    <3> QED BY <3>1 DEF Promise!Next
  <2> QED BY <2>3, <2>8, <2>9
\* The POST of the note is the first, and comes when the task is known to exist.
<1>8. ASSUME NEW a \in Actors, AddNote(a) PROVE Promise!Next \/ UNCHANGED Promise!vars
  <2>1. amo.notePosts = 0 /\ amo.task = TRUE /\ UNCHANGED row
    BY <1>0, <1>8 DEF AddNote, At, IInv, InStep, Made, NoteSteps
  <2>2. PICK made \in BOOLEAN : amo' = [amo EXCEPT !.notePosts = @ + 1, !.note = @ \/ made]
    BY <1>8 DEF AddNote
  <2>3. PICK b \in BOOLEAN : b = (amo.note \/ made)
    BY Zenon
  <2>4. amo' = [amo EXCEPT !.notePosts = 1, !.note = b]
    <3>1. amo.notePosts + 1 = 1
      BY <2>1
    <3> QED BY <2>2, <2>3, <3>1, Zenon
  <2>5. amo'.posts = amo.posts /\ amo'.task = amo.task /\ amo'.notePosts = 1 /\ amo'.note = b
    BY <1>0, <2>4
  <2>6. Promise!PostNote
    BY <2>1, <2>3, <2>5 DEF Promise!PostNote
  <2> QED BY <2>6 DEF Promise!Next
\* The other steps are inside the actors.
<1>9. ASSUME NEW a \in Actors,
             \/ a \in Runs /\ (Begin(a) \/ LookUp(a))
             \/ a \in Reviewers /\ Press(a)
             \/ Crash(a)
      PROVE  UNCHANGED <<amo, refused>>
  BY <1>9 DEF Begin, LookUp, Press, Crash
<1>10. CASE Activate \/ LeaseLapses \/ Redeploy \/ UNCHANGED vars
  <2>1. UNCHANGED amo /\ row'.status = row.status
    BY <1>0, <1>10 DEF Activate, LeaseLapses, Redeploy, vars
  <2> QED BY <1>r, <2>1
<1> QED
  BY <1>r, <1>1, <1>2, <1>3, <1>4, <1>5, <1>6, <1>7, <1>8, <1>9, <1>10
     DEF Next, Run, Execute, Actors

\* However many deliveries and reviewers act on one call, and wherever they crash, amoCRM
\* is asked for one task and then one note at most, and for none after a refusal
\* (claimTaskCreation, createVerifiedTask): the automation implements its promise.
THEOREM AskedOnce == Spec => OnceSpec
<1>1. Init => Promise!Init
  BY DEF Init, Promise!Init
<1>2. IInv /\ [Next]_vars => [Promise!Next]_(Promise!vars)
  BY StepRefines
<1> QED BY <1>1, <1>2, Invariant, PTL DEF Spec, OnceSpec, Promise!Spec

-----------------------------------------------------------------------------
(* The rows that bound the tests of the call automations (TestSlots).      *)
(* The slot protocol for any rows, batches and actions.  A row changes     *)
(* hands in two ways only, Take and Release, and each keeps one row for    *)
(* one deal and one row for each permit.                                   *)

CONSTANTS Slots, Batches, Fresh, Actions, Deal, LeadAt, CallAt, Lease, None

VARIABLES testState, holder, testUntil, testBoundary, opened, admitted, invited, permits

Test == INSTANCE TestSlots WITH state <- testState, until <- testUntil, boundary <-
        testBoundary

TestIInv == /\ Test!TypeOK /\ Test!HeldRows /\ Test!OneSlotPerDeal /\ Test!PermitsHaveRows /\ Test!HoldersAreNew
        /\ Test!OpenedHasRows /\ Test!Admitted

\* The rows are absent and nobody is admitted.
LEMMA TestInitHolds == Test!Rows /\ Test!Init => TestIInv
BY DEF Test!Rows, Test!Init, TestIInv, Test!TypeOK, Test!States, Test!HeldRows,
       Test!OneSlotPerDeal, Test!PermitsHaveRows,
       Test!HoldersAreNew, Test!OpenedHasRows, Test!Admitted

\* Making the rows of a batch turns absent rows into free ones.
LEMMA EnsuredRows ==
  ASSUME Test!TypeOK, Test!HeldRows, NEW B \in Batches \cup {Fresh}
  PROVE  /\ Test!Ensured(B) \in [Slots -> Test!States]
         /\ \A s \in Slots : Test!Ensured(B)[s] = testState[s]
                             \/ (testState[s] = "absent" /\ Test!Ensured(B)[s] = "free")
         /\ \A s \in Slots : Test!Ensured(B)[s] = "absent" => s \notin B /\ testState[s] = "absent"
BY DEF Test!TypeOK, Test!HeldRows, Test!Ensured, Test!States

\* Spending the lapsed reservations leaves every row in the hands it is in.
LEMMA SweptRows ==
  ASSUME Test!TypeOK, Test!HeldRows, NEW B \in Batches, NEW t \in Nat
  PROVE  /\ Test!Swept(B, t) \in [Slots -> Test!States] /\ Test!SweptUntil(B, t) \in [Slots -> Nat \cup {None}]
         /\ \A s \in Slots : Test!Swept(B, t)[s] = "free" => testState[s] \in {"absent", "free"}
         /\ \A s \in Slots : Test!Swept(B, t)[s] \in {"absent", "free"} <=> holder[s] = None
         /\ \A s \in Slots : Test!Spent(s) => Test!Swept(B, t)[s] = testState[s]
         /\ \A s \in Slots : testState[s] # "absent" => Test!Swept(B, t)[s] # "absent"
BY DEF Test!TypeOK, Test!HeldRows, Test!Ensured, Test!Swept, Test!SweptUntil, Test!Lapsed,
       Test!States, Test!Spent

\* Every step keeps the types, and a row is held exactly when it is in use.
LEMMA RowStep == Test!Rows /\ TestIInv /\ [Test!Next]_(Test!vars) => Test!TypeOK' /\ Test!HeldRows' /\ Test!OpenedHasRows'
<1> DEFINE Goal == Test!TypeOK /\ Test!HeldRows /\ Test!OpenedHasRows
<1> SUFFICES ASSUME Test!Rows, TestIInv, [Test!Next]_(Test!vars) PROVE Goal'
  OBVIOUS
<1>0. Test!TypeOK /\ Test!HeldRows /\ Test!OpenedHasRows
  BY DEF TestIInv
<1> USE DEF Test!slot, Test!gate
<1>1. ASSUME NEW t \in Nat, Test!Activate(t) \/ Test!Publish(t) PROVE Goal'
  <2>1. CASE Test!Activate(t)
    BY <1>0, <2>1 DEF Test!Activate, Test!TypeOK, Test!HeldRows, Test!OpenedHasRows
  <2>2. CASE Test!Publish(t)
    <3>1. /\ testState' = Test!Ensured(Fresh) /\ opened' \in Nat \cup {None}
          /\ UNCHANGED <<holder, testUntil, testBoundary, admitted, invited, permits>>
      BY <1>0, <2>2 DEF Test!Publish, Test!TypeOK
    <3> HIDE DEF Test!slot, Test!gate
    <3> QED BY <1>0, <3>1, EnsuredRows DEF Test!TypeOK, Test!HeldRows, Test!OpenedHasRows,
                                           Test!Rows
  <2> QED BY <1>1, <2>1, <2>2
<1>2. ASSUME NEW a \in Actions, NEW B \in Batches, NEW t \in Nat, Test!Reclaim(a, B, t) PROVE Goal'
  <2>1. /\ testState' = Test!Ensured(B) /\ permits' = permits \cup {a} /\ t + Lease \in Nat
        /\ UNCHANGED <<holder, testBoundary, opened, admitted, invited>>
    BY <1>2 DEF Test!Reclaim, Test!Rows
  <2>2. testUntil' \in [Slots -> Nat \cup {None}]
    BY <1>0, <1>2, <2>1 DEF Test!Reclaim, Test!TypeOK
  <2> QED BY <1>0, <2>1, <2>2, EnsuredRows DEF Test!TypeOK, Test!HeldRows, Test!OpenedHasRows,
                                               Test!Rows
<1>3. ASSUME NEW a \in Actions, NEW B \in Batches, NEW t \in Nat, Test!Refuse(a, B, t) PROVE Goal'
  <2>1. PICK s \in Slots :
          /\ Test!HoldsDeal(s, a)
          /\ IF Test!Lapsed(s, t)
             THEN /\ testState' = [Test!Ensured(B) EXCEPT ![s] = "uncertain"]
                  /\ testUntil' = [testUntil EXCEPT ![s] = None]
             ELSE testState' = Test!Ensured(B) /\ UNCHANGED testUntil
    BY <1>3 DEF Test!Refuse
  <2>2. holder[s] # None
    BY <2>1 DEF Test!HoldsDeal
  <2>3. UNCHANGED <<holder, testBoundary, opened, admitted, invited, permits>>
    BY <1>3 DEF Test!Refuse
  <2>4. CASE Test!Lapsed(s, t)
    <3>1. testState' = [Test!Ensured(B) EXCEPT ![s] = "uncertain"] /\ testUntil' = [testUntil EXCEPT ![s] = None]
      BY <2>1, <2>4
    <3>2. Test!TypeOK'
      BY <1>0, <2>3, <3>1, EnsuredRows DEF Test!TypeOK, Test!States
    <3>3. Test!HeldRows'
      BY <1>0, <2>2, <2>3, <3>1, EnsuredRows DEF Test!TypeOK, Test!HeldRows
    <3>4. Test!OpenedHasRows'
      BY <1>0, <2>3, <3>1, EnsuredRows DEF Test!TypeOK, Test!OpenedHasRows, Test!Rows
    <3> QED BY <3>2, <3>3, <3>4
  <2>5. CASE ~Test!Lapsed(s, t)
    BY <1>0, <2>1, <2>3, <2>5, EnsuredRows DEF Test!TypeOK, Test!HeldRows, Test!OpenedHasRows,
                                               Test!Rows
  <2> QED BY <2>4, <2>5
<1>4. ASSUME NEW a \in Actions, NEW B \in Batches, NEW t \in Nat, Test!Take(a, B, t) PROVE Goal'
  <2>1. PICK s \in B :
          /\ Test!Swept(B, t)[s] = "free"
          /\ testState' = [Test!Swept(B, t) EXCEPT ![s] = "reserved"]
          /\ holder' = [holder EXCEPT ![s] = a]
          /\ testUntil' = [Test!SweptUntil(B, t) EXCEPT ![s] = t + Lease]
    BY <1>4 DEF Test!Take
  <2>2. s \in Slots /\ t + Lease \in Nat /\ a # None
    BY DEF Test!Rows
  <2>3. UNCHANGED <<testBoundary, opened, admitted, invited>> /\ permits' = permits \cup {a}
    BY <1>4 DEF Test!Take
  <2>4. Test!TypeOK'
    BY <1>0, <2>1, <2>2, <2>3, SweptRows DEF Test!TypeOK, Test!States
  <2>5. Test!HeldRows'
    BY <1>0, <2>1, <2>2, SweptRows DEF Test!TypeOK, Test!HeldRows
  <2>6. Test!OpenedHasRows'
    BY <1>0, <2>1, <2>2, <2>3, SweptRows DEF Test!TypeOK, Test!OpenedHasRows, Test!Rows
  <2> QED BY <2>4, <2>5, <2>6
<1>5. ASSUME NEW a \in Actions, NEW B \in Batches, NEW t \in Nat, Test!LimitReached(a, B, t)
      PROVE  Goal'
  <2>1. /\ testState' = Test!Swept(B, t) /\ testUntil' = Test!SweptUntil(B, t)
        /\ UNCHANGED <<holder, testBoundary, opened, admitted, invited, permits>>
    BY <1>5 DEF Test!LimitReached
  <2> QED BY <1>0, <2>1, SweptRows DEF Test!TypeOK, Test!HeldRows, Test!OpenedHasRows, Test!Rows
<1>6. ASSUME NEW a \in Actions, Test!Admit(a) \/ Test!Invite(a) PROVE Goal'
  BY <1>0, <1>6 DEF Test!Admit, Test!Invite, Test!TypeOK, Test!HeldRows, Test!OpenedHasRows
<1>7. ASSUME NEW a \in Actions, Test!Confirm(a) \/ Test!MarkUncertain(a) PROVE Goal'
  BY <1>0, <1>7 DEF Test!Confirm, Test!MarkUncertain, Test!Settle, Test!TypeOK, Test!HeldRows,
                    Test!OpenedHasRows, Test!States, Test!Rows
<1>8. ASSUME NEW a \in Actions, Test!Release(a) PROVE Goal'
  BY <1>0, <1>8 DEF Test!Release, Test!TypeOK, Test!HeldRows, Test!OpenedHasRows, Test!States,
                    Test!Rows
<1>9. CASE UNCHANGED Test!vars
  BY <1>0, <1>9 DEF Test!vars, Test!TypeOK, Test!HeldRows, Test!OpenedHasRows
<1> QED BY <1>1, <1>2, <1>3, <1>4, <1>5, <1>6, <1>7, <1>8, <1>9 DEF Test!Next, Test!Reserve

\* The settings are set once, so that who was found eligible stays so.
LEMMA GateStep == Test!Rows /\ TestIInv /\ [Test!Next]_(Test!vars) => Test!Admitted'
<1> SUFFICES ASSUME Test!Rows, TestIInv, [Test!Next]_(Test!vars) PROVE Test!Admitted'
  OBVIOUS
<1>0. Test!Admitted /\ Test!TypeOK
  BY DEF TestIInv
<1> USE DEF Test!Admitted, Test!Eligible, Test!EligibleForFresh
<1>1. ASSUME NEW t \in Nat, Test!Activate(t) \/ Test!Publish(t) PROVE Test!Admitted'
  BY <1>0, <1>1 DEF Test!Activate, Test!Publish
<1>2. ASSUME NEW a \in Actions, Test!Admit(a) \/ Test!Invite(a) PROVE Test!Admitted'
  BY <1>0, <1>2 DEF Test!Admit, Test!Invite
<1>3. ASSUME UNCHANGED Test!gate PROVE Test!Admitted'
  BY <1>0, <1>3 DEF Test!gate
<1> QED BY <1>1, <1>2, <1>3 DEF Test!Next, Test!Reserve, Test!Reclaim, Test!Refuse, Test!Take,
                                Test!LimitReached, Test!Confirm,
           Test!MarkUncertain, Test!Settle, Test!Release, Test!vars

\* A row changes hands only when it is taken or given back.
LEMMA HandsStep ==
  Test!Rows /\ TestIInv /\ [Test!Next]_(Test!vars) => Test!OneSlotPerDeal' /\ Test!PermitsHaveRows' /\ Test!HoldersAreNew'
<1> DEFINE Goal == Test!OneSlotPerDeal /\ Test!PermitsHaveRows /\ Test!HoldersAreNew
<1> SUFFICES ASSUME Test!Rows, TestIInv, [Test!Next]_(Test!vars) PROVE Goal'
  OBVIOUS
<1>0. Test!TypeOK /\ Test!HeldRows /\ Goal /\ Test!Admitted
  BY DEF TestIInv
<1>00. Test!Admitted'
  BY GateStep
<1> USE DEF Test!OneSlotPerDeal, Test!PermitsHaveRows, Test!HoldersAreNew
<1>1. ASSUME UNCHANGED <<holder, permits>> PROVE Goal'
  <2>1. \A a \in Actions : Test!Eligible(a) => Test!Eligible(a)'
    BY <1>0 DEF Test!Next, Test!Reserve, Test!Reclaim, Test!Refuse, Test!Take,
                Test!LimitReached, Test!Confirm, Test!MarkUncertain,
       Test!Settle, Test!Release, Test!Activate, Test!Publish, Test!Admit, Test!Invite, Test!vars, Test!gate, Test!Eligible
  <2>2. \A a \in Actions : Test!EligibleForFresh(a) => Test!EligibleForFresh(a)'
    BY <1>0 DEF Test!Next, Test!Reserve, Test!Reclaim, Test!Refuse, Test!Take,
                Test!LimitReached, Test!Confirm, Test!MarkUncertain,
       Test!Settle, Test!Release, Test!Activate, Test!Publish, Test!Admit, Test!Invite, Test!vars, Test!gate, Test!EligibleForFresh
  <2> QED BY <1>0, <1>1, <2>1, <2>2 DEF Test!TypeOK
<1>2. ASSUME NEW a \in Actions, NEW B \in Batches, NEW t \in Nat, Test!Reclaim(a, B, t) PROVE Goal'
  BY <1>0, <1>2 DEF Test!Reclaim, Test!gate, Test!Eligible, Test!EligibleForFresh
<1>3. ASSUME NEW a \in Actions, NEW B \in Batches, NEW t \in Nat, Test!Take(a, B, t) PROVE Goal'
  <2>1. PICK s \in B : Test!Swept(B, t)[s] = "free" /\ holder' = [holder EXCEPT ![s] = a]
    BY <1>3 DEF Test!Take
  <2>2. s \in Slots /\ a # None
    BY DEF Test!Rows
  <2>3. holder[s] = None
    BY <1>0, <2>1, <2>2, SweptRows
  <2>4. Test!MayAsk(a, B) /\ Test!Unclaimed(a) /\ permits' = permits \cup {a}
        /\ UNCHANGED <<testBoundary, opened>>
    BY <1>3 DEF Test!Take, Test!gate
  <2>5. Test!OneSlotPerDeal'
    BY <1>0, <2>1, <2>2, <2>4 DEF Test!TypeOK, Test!Unclaimed, Test!HoldsDeal
  <2>6. Test!PermitsHaveRows'
    BY <1>0, <2>1, <2>2, <2>3, <2>4 DEF Test!TypeOK, Test!Rows
  <2>7. Test!Eligible(a) /\ (s \in Fresh => Test!EligibleForFresh(a))
    BY <1>0, <2>1, <2>4 DEF Test!MayAsk, Test!Admitted, Test!Rows
  <2>8. Test!HoldersAreNew'
    BY <1>0, <2>1, <2>2, <2>4, <2>7 DEF Test!TypeOK, Test!Eligible, Test!EligibleForFresh
  <2> QED BY <2>5, <2>6, <2>8
<1>4. ASSUME NEW a \in Actions, Test!Release(a) PROVE Goal'
  <2>1. PICK s \in Slots : holder[s] = a /\ holder' = [holder EXCEPT ![s] = None]
    BY <1>4 DEF Test!Release
  <2>2. permits' = permits \ {a} /\ UNCHANGED <<testBoundary, opened>>
    BY <1>4 DEF Test!Release, Test!gate
  <2> QED BY <1>0, <2>1, <2>2 DEF Test!TypeOK, Test!Eligible, Test!EligibleForFresh
<1>5. ASSUME NEW a \in Actions, NEW B \in Batches, NEW t \in Nat,
             Test!Refuse(a, B, t) \/ Test!LimitReached(a, B, t)
      PROVE  Goal'
  BY <1>1, <1>5 DEF Test!Refuse, Test!LimitReached
<1>6. ASSUME NEW a \in Actions, Test!Admit(a) \/ Test!Invite(a) \/ Test!Confirm(a) \/ Test!MarkUncertain(a) PROVE Goal'
  BY <1>1, <1>6 DEF Test!Admit, Test!Invite, Test!Confirm, Test!MarkUncertain, Test!Settle,
                    Test!slot
<1>7. ASSUME NEW t \in Nat, Test!Activate(t) \/ Test!Publish(t) PROVE Goal'
  BY <1>1, <1>7 DEF Test!Activate, Test!Publish, Test!slot
<1>8. CASE UNCHANGED Test!vars
  BY <1>1, <1>8 DEF Test!vars, Test!slot
<1> QED BY <1>2, <1>3, <1>4, <1>5, <1>6, <1>7, <1>8 DEF Test!Next, Test!Reserve

LEMMA TestInvariant == ASSUME Test!Rows PROVE Test!Spec => []TestIInv
<1>1. TestIInv /\ [Test!Next]_(Test!vars) => TestIInv'
  BY RowStep, GateStep, HandsStep DEF TestIInv
<1> QED BY <1>1, TestInitHolds, PTL DEF Test!Spec

\* A deal never has two slots, in whatever batches its actions ask, and an action that was
\* told it may act keeps a row until it gives it back: no crash, lapse or repetition lets
\* the test act on more leads than it has rows (reserveTestLead, reserveMoveInRange).
THEOREM TestIsBounded == ASSUME Test!Rows PROVE Test!Spec => [](Test!OneSlotPerDeal /\ Test!PermitsHaveRows)
BY TestInvariant, PTL DEF TestIInv

\* No slot is held for a lead or a call from before the boundaries, and the second boundary
\* is never in force without its rows (initializeHistoryFenceRollout).
THEOREM HistoryStaysOut == ASSUME Test!Rows PROVE Test!Spec => [](Test!HoldersAreNew /\ Test!OpenedHasRows)
BY TestInvariant, PTL DEF TestIInv

\* A confirmed or uncertain row is never used again, whoever calls late.
THEOREM SpentRowsStay == ASSUME Test!Rows PROVE Test!Spec => Test!SpentStaysSpent
<1> DEFINE Keeps == \A s \in Slots : Test!Spent(s) => testState'[s] = testState[s] /\ holder'[s] = holder[s]
<1>1. Test!Rows /\ TestIInv /\ [Test!Next]_(Test!vars) => [Keeps]_(Test!vars)
  <2> SUFFICES ASSUME Test!Rows, TestIInv, Test!Next, NEW q \in Slots, Test!Spent(q)
               PROVE  testState'[q] = testState[q] /\ holder'[q] = holder[q]
    OBVIOUS
  <2>0. Test!TypeOK /\ Test!HeldRows
    BY DEF TestIInv
  <2> USE DEF Test!slot, Test!gate, Test!Spent
  <2>1. ASSUME NEW t \in Nat, Test!Activate(t) \/ Test!Publish(t)
        PROVE  testState'[q] = testState[q] /\ holder'[q] = holder[q]
    BY <2>0, <2>1, EnsuredRows DEF Test!Activate, Test!Publish
  <2>2. ASSUME NEW a \in Actions, NEW B \in Batches, NEW t \in Nat,
               Test!Reclaim(a, B, t) \/ Test!Refuse(a, B, t)
        PROVE  testState'[q] = testState[q] /\ holder'[q] = holder[q]
    BY <2>0, <2>2, EnsuredRows DEF Test!Reclaim, Test!Refuse, Test!Lapsed
  <2>3. ASSUME NEW a \in Actions, NEW B \in Batches, NEW t \in Nat, Test!Take(a, B, t)
        PROVE  testState'[q] = testState[q] /\ holder'[q] = holder[q]
    BY <2>0, <2>3, SweptRows DEF Test!Take, Test!TypeOK
  <2>4. ASSUME NEW a \in Actions, NEW B \in Batches, NEW t \in Nat, Test!LimitReached(a, B, t)
        PROVE  testState'[q] = testState[q] /\ holder'[q] = holder[q]
    BY <2>0, <2>4, SweptRows DEF Test!LimitReached
  <2>5. ASSUME NEW a \in Actions, Test!Admit(a) \/ Test!Invite(a)
        PROVE  testState'[q] = testState[q] /\ holder'[q] = holder[q]
    BY <2>5 DEF Test!Admit, Test!Invite
  <2>6. ASSUME NEW a \in Actions, Test!Confirm(a) \/ Test!MarkUncertain(a) \/ Test!Release(a)
        PROVE  testState'[q] = testState[q] /\ holder'[q] = holder[q]
    BY <2>0, <2>6 DEF Test!Confirm, Test!MarkUncertain, Test!Settle, Test!Release, Test!TypeOK
  <2> QED BY <2>1, <2>2, <2>3, <2>4, <2>5, <2>6 DEF Test!Next, Test!Reserve
<1> QED BY <1>1, TestInvariant, PTL DEF Test!Spec, Test!SpentStaysSpent
=============================================================================
