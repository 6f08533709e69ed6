------------------------------ MODULE CallQueue ------------------------------
(***************************************************************************)
(* The processing of one recorded call (workers/callProcessor.ts): the jobs*)
(* that the exchange's webhook, the history synchronisation and the bot's  *)
(* analyze_deal put on the queue for it, three of which may run at once,   *)
(* each with its retries.  BullMQ itself is external: it hands a waiting   *)
(* job to a worker, takes it back once when the worker dies, ignores a job *)
(* whose id it still keeps, and forgets finished jobs in the end.          *)
(* A step is one statement or request with the reads that go with it.      *)
(***************************************************************************)
EXTENDS Integers, FiniteSets

CONSTANTS Deliveries,  \* webhook deliveries of the call: a job each, no job id
          History,     \* the one job id of the history synchronisation
          Manual,      \* presses of analyze_deal: a job each
          Attempts,    \* job -> the attempts its producer gave it
          Setups       \* bounds: which producers act, how many synchronisations
                       \* start, how many statements fail or workers die

Jobs == Deliveries \cup {History} \cup Manual

ASSUME JobsAssumption == /\ History \notin Deliveries \cup Manual
                         /\ Deliveries \cap Manual = {}
                         /\ Attempts \in [Jobs -> Nat \ {0}]
                         /\ Setups \subseteq [jobs : SUBSET Jobs, syncs : Nat, faults : Nat]

VARIABLES setup,     \* the bounds of this behaviour
          call,      \* the Call row, and whether it has an analysis
          job,       \* job -> its state in the queue and in the worker
          sync,      \* the history synchronisation: idle, or about to add
          file,      \* an mp3 extracted for the call lies on the disk
          dealKnown, \* the caller's phone leads to a deal, here or in amoCRM
          recent,    \* the call is at most seven days old
          stray,     \* reasons why the row may be left between two statuses
          syncs, faults

vars == <<setup, call, job, sync, file, dealKnown, recent, stray, syncs, faults>>

outside == <<setup, sync, dealKnown, recent, syncs>>

Progress == {"queued", "transcribed", "analyzed"}
Final    == {"processed", "failed", "error", "skipped_no_deal"}

NewJob == [state |-> "absent", tries |-> 0, stalled |-> FALSE, pc |-> "idle",
           text |-> "none", audio |-> "none"]

Init ==
  /\ setup \in Setups
  /\ call = [status |-> "none", linked |-> FALSE, analysed |-> FALSE]
  /\ job = [j \in Jobs |-> NewJob]
  /\ sync = "idle" /\ file = FALSE
  /\ dealKnown = FALSE /\ recent = TRUE
  /\ stray = {} /\ syncs = 0 /\ faults = 0

Live(j) == job[j].state \in {"waiting", "active"}
At(j, pc) == job[j].state = "active" /\ job[j].pc = pc
Goto(j, pc) == job' = [job EXCEPT ![j].pc = pc]
SetStatus(status) == call' = [call EXCEPT !.status = status]
Fault == faults < setup.faults /\ faults' = faults + 1

-----------------------------------------------------------------------------
(* Producers.                                                              *)

\* The job as it enters the queue.  Only the webhook and analyze_deal know an
\* address of the recording; the history job has the extracted file, or nothing.
Queued(audio) == [NewJob EXCEPT !.state = "waiting", !.audio = audio]

\* The webhook of a call of six minutes or more; one that is delivered twice is
\* queued twice.
Webhook(d) ==
  /\ d \in setup.jobs /\ job[d].state = "absent"
  /\ \E audio \in {"url", "none"} : job' = [job EXCEPT ![d] = Queued(audio)]
  /\ UNCHANGED <<call, file, stray, faults, outside>>

\* syncHistoryRange, phase 1: a new call qualifies, and so does a failed recent
\* one, whose row is put back to "queued" first.
SyncFilter ==
  /\ sync = "idle" /\ syncs < setup.syncs
  /\ \/ call.status = "none" /\ UNCHANGED call
     \/ call.status = "failed" /\ recent /\ SetStatus("queued")
  /\ sync' = "add" /\ syncs' = syncs + 1
  /\ UNCHANGED <<setup, job, file, dealKnown, recent, stray, faults>>

\* fetchDayTarUrl, extractQualifyingMp3s: the recording lies on the disk, or the day
\* has no archive, or it lacks the call, or it could not be read.
Extractions == BOOLEAN

\* Phases 2 and 3: extract the recording if the archive has it, add the job.  The
\* queue ignores the job while it keeps one of that id.
SyncAdd ==
  /\ sync = "add" /\ sync' = "idle"
  /\ \E extracted \in Extractions :
       /\ file' = (file \/ extracted)
       /\ \/ /\ job[History].state = "absent"
             /\ job' = [job EXCEPT ![History] = Queued(IF extracted THEN "file" ELSE "none")]
             /\ UNCHANGED <<stray, faults>>
          \/ /\ job[History].state # "absent"
             /\ stray' = stray \cup {"ignored add"}
             /\ UNCHANGED <<job, faults>>
          \/ Fault /\ stray' = stray \cup {"failed add"} /\ UNCHANGED job
  /\ UNCHANGED <<setup, call, dealKnown, recent, syncs>>

\* analyze_deal: an existing row is put back to "queued", then the job is added.
PressAnalyze(m) ==
  /\ m \in setup.jobs /\ job[m].state = "absent" /\ job[m].pc = "idle"
  /\ IF call.status = "none" THEN UNCHANGED call ELSE SetStatus("queued")
  /\ Goto(m, "add")
  /\ UNCHANGED <<file, stray, faults, outside>>

AddManual(m) ==
  /\ job[m].state = "absent" /\ job[m].pc = "add"
  /\ \/ job' = [job EXCEPT ![m] = Queued("url")] /\ UNCHANGED <<stray, faults>>
     \/ Fault /\ Goto(m, "gave up") /\ stray' = stray \cup {"failed add"}
  /\ UNCHANGED <<call, file, outside>>

-----------------------------------------------------------------------------
(* The worker.                                                             *)

Begin(j) ==
  /\ job[j].state = "waiting"
  /\ job' = [job EXCEPT ![j].state = "active", ![j].pc = "find", ![j].text = "none"]
  /\ UNCHANGED <<call, file, stray, faults, outside>>

\* ensureCallRecord reads the row: one that has its deal is taken as it is.
Find(j) ==
  /\ At(j, "find")
  /\ Goto(j, IF call.status = "none" THEN "create"
             ELSE IF call.linked THEN "transcribe" ELSE "update")
  /\ UNCHANGED <<call, file, stray, faults, outside>>

\* The lookup: a failed search of amoCRM is taken for "no deal".
Lookups(j) == IF j \in Manual THEN {TRUE} ELSE {dealKnown, FALSE}

\* A bug: a call without a deal is analysed all the same.
AfterRecord_Always(found) == IF found \in BOOLEAN THEN "transcribe" ELSE "skip"

\* No deal: the next step files the call.
AfterRecord(found) == IF found THEN "transcribe" ELSE "skip"

CreateCall(j) ==
  /\ At(j, "create")
  /\ call.status = "none"   \* a row created meanwhile: see Fail
  /\ \E found \in Lookups(j) :
       /\ call' = [call EXCEPT !.status = "queued", !.linked = found]
       /\ Goto(j, AfterRecord(found))
  /\ UNCHANGED <<file, stray, faults, outside>>

UpdateCall(j) ==
  /\ At(j, "update")
  /\ \E found \in Lookups(j) :
       /\ IF found THEN call' = [call EXCEPT !.status = "queued", !.linked = TRUE]
                   ELSE UNCHANGED call
       /\ Goto(j, AfterRecord(found))
  /\ UNCHANGED <<file, stray, faults, outside>>

Finished(j) == [job EXCEPT ![j] = [NewJob EXCEPT !.state = "completed", !.pc = "done"]]

SkipCall(j) ==
  /\ At(j, "skip")
  /\ SetStatus("skipped_no_deal") /\ job' = Finished(j)
  /\ UNCHANGED <<file, stray, faults, outside>>

\* What the model makes of a recording: no candidate, or none with a text, is no error.
Texts == {"speech", "empty"}

\* Audio to text.  A file is read once: it is deleted on success and on failure,
\* and a failure counts as an empty text.  A failed download is thrown.
Transcribe(j) ==
  /\ At(j, "transcribe")
  /\ \/ \E text \in Texts :
          /\ \/ job[j].audio = "url"
             \/ job[j].audio = "file" /\ file
          /\ job' = [job EXCEPT ![j].pc = "mark", ![j].text = text]
     \/ /\ job[j].audio # "url"
        /\ job' = [job EXCEPT ![j].pc = "mark", ![j].text = "empty"]
  /\ file' = (file /\ job[j].audio # "file")
  /\ UNCHANGED <<call, stray, faults, outside>>

MarkTranscribed(j) ==
  /\ At(j, "mark")
  /\ SetStatus("transcribed")
  /\ job' = [job EXCEPT ![j].text = "none",
                        ![j].pc = IF job[j].text = "speech" THEN "analyze" ELSE "empty"]
  /\ UNCHANGED <<file, stray, faults, outside>>

\* A bug: the early return of an empty transcript forgets the row.
FileEmpty_Forgets(j) ==
  /\ At(j, "empty")
  /\ job' = Finished(j)
  /\ UNCHANGED <<call, file, stray, faults, outside>>

FileEmpty(j) ==
  /\ At(j, "empty")
  /\ SetStatus("failed") /\ job' = Finished(j)
  /\ UNCHANGED <<file, stray, faults, outside>>

\* analyzeCallWithGemini never throws: an answer that cannot be read, not even line
\* by line, becomes the fallback "no analysis", which is stored like an analysis.
Analysed == [call EXCEPT !.analysed = TRUE]

\* The scores are upserted.
SaveAnalysis(j) ==
  /\ At(j, "analyze")
  /\ call' = Analysed
  /\ Goto(j, "analyzed")
  /\ UNCHANGED <<file, stray, faults, outside>>

\* After this the sheet row and the two notes are written, none of which can fail
\* the job.
MarkAnalyzed(j) ==
  /\ At(j, "analyzed")
  /\ SetStatus("analyzed") /\ Goto(j, "finish")
  /\ UNCHANGED <<file, stray, faults, outside>>

\* The two automations have been awaited; they never fail the job.
MarkProcessed(j) ==
  /\ At(j, "finish")
  /\ SetStatus("processed") /\ job' = Finished(j)
  /\ UNCHANGED <<file, stray, faults, outside>>

\* A bug: a failed attempt is not counted.
Retried_Uncounted(j) == [job[j] EXCEPT !.state = "waiting", !.pc = "idle"]

\* A bug: one attempt too many.
Retried_OneMore(j) ==
  IF job[j].tries < Attempts[j]
    THEN [job[j] EXCEPT !.state = "waiting", !.pc = "idle", !.tries = @ + 1]
    ELSE [NewJob EXCEPT !.state = "failed", !.pc = "done"]

\* BullMQ counts the attempt and delays the next one, if one is left.
Retried(j) ==
  IF job[j].tries + 1 < Attempts[j]
    THEN [job[j] EXCEPT !.state = "waiting", !.pc = "idle", !.tries = @ + 1]
    ELSE [NewJob EXCEPT !.state = "failed", !.pc = "done"]

\* The row was created by another job: the unique index refuses a second one.
CreateRefused(j) ==
  /\ At(j, "create") /\ call.status # "none"
  /\ Goto(j, "catch")
  /\ UNCHANGED <<call, file, stray, faults, outside>>

\* A download or its transcription fails; on the last attempt the row says "failed"
\* until the wrapper overwrites it.
DownloadFails(j) ==
  /\ At(j, "transcribe") /\ job[j].audio = "url"
  /\ IF job[j].tries + 1 < Attempts[j] THEN UNCHANGED call ELSE SetStatus("failed")
  /\ Goto(j, "catch")
  /\ UNCHANGED <<file, stray, faults, outside>>

\* Any other statement fails.
StatementFails(j) ==
  /\ job[j].state = "active" /\ job[j].pc \notin {"transcribe", "catch"}
  /\ Fault
  /\ Goto(j, "catch")
  /\ UNCHANGED <<call, file, stray, outside>>

\* The wrapper marks the row, if there is one, and rethrows.  Marking may fail too.
Rethrow(j) ==
  /\ At(j, "catch")
  /\ job' = [job EXCEPT ![j] = Retried(j)]
  /\ \/ /\ IF call.status = "none" THEN UNCHANGED call ELSE SetStatus("error")
        /\ UNCHANGED <<stray, faults>>
     \/ Fault /\ stray' = stray \cup {"unmarked error"} /\ UNCHANGED call
  /\ UNCHANGED <<file, outside>>

\* The worker dies: its job stalls and is queued again, the second time it fails.
Crash(j) ==
  /\ job[j].state = "active" /\ Fault
  /\ job' = [job EXCEPT ![j] = IF job[j].stalled
                                 THEN [NewJob EXCEPT !.state = "failed", !.pc = "done"]
                                 ELSE [@ EXCEPT !.state = "waiting", !.stalled = TRUE]]
  /\ stray' = IF job[j].stalled THEN stray \cup {"dead worker"} ELSE stray
  /\ UNCHANGED <<call, file, outside>>

-----------------------------------------------------------------------------
(* The outside world.                                                      *)

\* The queue keeps a finished history job for a while, then forgets it.
Forget ==
  /\ job[History].state \in {"completed", "failed"}
  /\ job' = [job EXCEPT ![History] = NewJob]
  /\ UNCHANGED <<call, file, stray, faults, outside>>

\* upsertPhoneMappingForContact, after a webhook or a synchronisation: the contact of
\* the caller has a deal now.  (That it has none any more, or that its deals could not
\* be read, shows in Lookups.)
ContactSynced ==
  /\ ~dealKnown /\ dealKnown' = TRUE
  /\ UNCHANGED <<setup, call, job, sync, file, recent, stray, syncs, faults>>

\* Only a synchronisation asks for the age of the call (a bound).
WeekPasses ==
  /\ recent /\ recent' = FALSE /\ setup.syncs > 0
  /\ UNCHANGED <<setup, call, job, sync, file, dealKnown, stray, syncs, faults>>

Work(j) ==
  \/ Begin(j) \/ Find(j) \/ CreateCall(j) \/ UpdateCall(j) \/ SkipCall(j)
  \/ Transcribe(j) \/ MarkTranscribed(j) \/ FileEmpty(j) \/ SaveAnalysis(j)
  \/ MarkAnalyzed(j) \/ MarkProcessed(j)
  \/ CreateRefused(j) \/ DownloadFails(j) \/ Rethrow(j)

Next ==
  \/ \E d \in Deliveries : Webhook(d)
  \/ \E m \in Manual : PressAnalyze(m) \/ AddManual(m)
  \/ SyncFilter \/ SyncAdd
  \/ \E j \in Jobs : Work(j) \/ StatementFails(j) \/ Crash(j)
  \/ Forget \/ ContactSynced \/ WeekPasses

\* Workers take waiting jobs and go on with them, and the delay before a retry
\* ends; an operator's command that has begun reaches the queue.
Fairness ==
  /\ \A j \in Jobs : WF_vars(Work(j))
  /\ WF_vars(SyncAdd)
  /\ \A m \in Manual : WF_vars(AddManual(m))

Spec == Init /\ [][Next]_vars /\ Fairness

-----------------------------------------------------------------------------

TypeOK ==
  /\ call \in [status : {"none"} \cup Progress \cup Final, linked : BOOLEAN,
               analysed : BOOLEAN]
  /\ \A j \in Jobs :
       /\ job[j].state \in {"absent", "waiting", "active", "completed", "failed"}
       /\ job[j].tries \in 0 .. Attempts[j] - 1
       /\ job[j].state = "active" => job[j].pc \notin {"idle", "add", "done"}
  /\ sync \in {"idle", "add"} /\ file \in BOOLEAN /\ dealKnown \in BOOLEAN
  /\ faults \in 0 .. setup.faults

\* A call that reads "processed" has its deal and an analysis, whichever of its
\* jobs wrote what, and a call that was analysed was analysed for a deal
\* (processCallJob files a call without a deal before it spends anything on it).
ProcessedIsWhole ==
  /\ call.status = "processed" => call.analysed
  /\ call.analysed => call.linked

\* Nothing is stranded: a row between two statuses has a job that will move it, or
\* one of the four known accidents happened.  This is what the wrapper of the worker
\* and its early returns are for.
NothingIsStranded ==
  call.status \in Progress =>
    \/ \E j \in Jobs : Live(j)
    \/ sync = "add" \/ \E m \in Manual : job[m].pc = "add"
    \/ stray # {}

\* Every call that is queued is filed in the end and its jobs come to rest, whatever
\* fails in between, save for the known accidents and for a job that used up its
\* attempts before there was a row: the wrapper marks only a row it finds, so that the
\* call is nowhere until a synchronisation or a person asks for it again.  Retries are
\* bounded, and no worker waits for another.
EveryCallIsFiled ==
  (\E j \in Jobs : Live(j)) ~>
    /\ \A j \in Jobs : ~Live(j)
    /\ \/ call.status \in Final
       \/ call.status = "none" /\ \E j \in Jobs : job[j].state = "failed"
       \/ stray # {}
=============================================================================
