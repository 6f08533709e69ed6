-------------------------- MODULE CallQueue_proofs ---------------------------
(***************************************************************************)
(* Whatever jobs, retries and deaths of workers there are, a call that     *)
(* reads "processed" is whole, and no row is left between two statuses     *)
(* save for the known accidents.                                           *)
(***************************************************************************)
EXTENDS CallQueue, TLAPS

CallRows == [status : {"none"} \cup Progress \cup Final, linked : BOOLEAN, analysed : BOOLEAN]

Steps == {"idle", "add", "gave up", "find", "create", "update", "skip", "transcribe", "mark",
          "analyze", "empty", "analyzed", "finish", "catch", "done"}

JobRows == [state : {"absent", "waiting", "active", "completed", "failed"}, tries : Nat,
            stalled : BOOLEAN, pc : Steps, text : {"none", "speech", "empty"},
            audio : {"none", "url", "file"}]

\* The steps of a worker that has found the deal, and of one that has saved the analysis.
PastDeal == {"transcribe", "mark", "analyze", "empty", "analyzed", "finish"}
PastAnalysis == {"analyzed", "finish"}

Typed ==
  /\ setup \in Setups /\ call \in CallRows /\ job \in [Jobs -> JobRows]
  /\ TypeOK

\* A call has a deal before a worker spends anything on it, and never loses it again.
Deals ==
  /\ call.linked => call.status # "none"
  /\ \A j \in Jobs : job[j].state = "active" =>
       /\ job[j].pc \in PastDeal => call.linked
       /\ job[j].pc \in PastAnalysis => call.analysed

IInv == Typed /\ Deals /\ ProcessedIsWhole /\ NothingIsStranded

\* What a row of a job must be.
RowOK(j, row) ==
  /\ row \in JobRows /\ row.tries \in 0 .. Attempts[j] - 1
  /\ row.state = "active" => row.pc \notin {"idle", "add", "done"}

Lives(row) == row.state \in {"waiting", "active"}
Cared(j, row) == Lives(row) \/ (j \in Manual /\ row.pc = "add")

\* The row of the call after a step that never undoes what was found out.
CallOK ==
  /\ call' \in CallRows
  /\ call.linked => call'.linked
  /\ call.analysed => call'.analysed
  /\ call'.linked => call'.status # "none"
  /\ call'.analysed => call'.linked
  /\ call'.status = "processed" => call'.analysed

Around ==
  /\ setup' = setup /\ sync' \in {"idle", "add"} /\ file' \in BOOLEAN /\ dealKnown' \in BOOLEAN
  /\ faults' \in 0 .. setup.faults

-----------------------------------------------------------------------------

\* A step of one job: what it owes the others.
LEMMA JobStep ==
  ASSUME IInv, NEW j \in Jobs, NEW row, job' = [job EXCEPT ![j] = row],
         RowOK(j, row), CallOK, Around, stray \subseteq stray',
         row.state = "active" /\ row.pc \in PastDeal => call'.linked,
         row.state = "active" /\ row.pc \in PastAnalysis => call'.analysed,
         call'.status \in Progress =>
           \/ Cared(j, row) \/ sync' = "add" \/ stray' # {}
           \/ ~Cared(j, job[j]) /\ sync' = sync /\ call.status \in Progress
  PROVE  IInv'
<1>1. /\ job \in [Jobs -> JobRows] /\ setup \in Setups /\ TypeOK /\ Deals
  BY DEF IInv, Typed
<1>2. /\ job' \in [Jobs -> JobRows] /\ job'[j] = row
      /\ \A k \in Jobs \ {j} : job'[k] = job[k]
  BY <1>1 DEF RowOK
<1>3. Typed'
  <2>1. \A k \in Jobs : RowOK(k, job'[k])
    <3>1. \A k \in Jobs : RowOK(k, job[k])
      BY <1>1 DEF TypeOK, RowOK
    <3> QED BY <1>2, <3>1
  <2>2. \A k \in Jobs : /\ job'[k].state \in {"absent", "waiting", "active", "completed", "failed"}
                        /\ job'[k].tries \in 0 .. Attempts[k] - 1
                        /\ job'[k].state = "active" => job'[k].pc \notin {"idle", "add", "done"}
    BY <2>1 DEF RowOK, JobRows
  <2> QED BY <1>1, <1>2, <2>2 DEF Typed, TypeOK, CallOK, Around, CallRows
<1>4. Deals'
  BY <1>1, <1>2 DEF Deals, CallOK
<1>5. ProcessedIsWhole'
  BY DEF CallOK, ProcessedIsWhole
<1>6. NothingIsStranded'
  <2> SUFFICES ASSUME call'.status \in Progress, sync' # "add", stray' = {}
               PROVE  \E k \in Jobs : Cared(k, job'[k])
    BY DEF NothingIsStranded, Live, Cared, Lives
  <2>1. CASE Cared(j, row)
    BY <1>2, <2>1
  <2>2. CASE ~Cared(j, row)
    <3>1. ~Cared(j, job[j]) /\ sync # "add" /\ call.status \in Progress /\ stray = {}
      BY <2>2
    <3>2. PICK k \in Jobs : Cared(k, job[k])
      BY <3>1 DEF IInv, NothingIsStranded, Live, Cared, Lives, Jobs
    <3> QED BY <1>2, <3>1, <3>2
  <2> QED BY <2>1, <2>2
<1> QED BY <1>3, <1>4, <1>5, <1>6 DEF IInv

\* A step in which no job changes: nobody has less to do than before.
LEMMA OutsideStep ==
  ASSUME IInv, UNCHANGED job, CallOK, Around, stray \subseteq stray',
         call'.status \in Progress =>
           \/ sync' = "add"
           \/ stray' # {}
           \/ sync' = sync /\ call.status \in Progress
  PROVE  IInv'
<1>1. Typed'
  BY DEF IInv, Typed, TypeOK, CallOK, Around, CallRows
<1>2. Deals'
  BY DEF IInv, Deals, CallOK
<1>3. ProcessedIsWhole'
  BY DEF CallOK, ProcessedIsWhole
<1>4. NothingIsStranded'
  BY DEF IInv, NothingIsStranded, Live
<1> QED BY <1>1, <1>2, <1>3, <1>4 DEF IInv

\* What is known of the state.
LEMMA Known ==
  ASSUME IInv
  PROVE  /\ call \in CallRows /\ job \in [Jobs -> JobRows]
         /\ \A j \in Jobs : RowOK(j, job[j])
         /\ sync \in {"idle", "add"} /\ file \in BOOLEAN /\ dealKnown \in BOOLEAN
         /\ faults \in 0 .. setup.faults /\ setup.faults \in Nat
         /\ call.linked => call.status # "none"
         /\ call.analysed => call.linked
         /\ call.status = "processed" => call.analysed
         /\ \A j \in Jobs : Attempts[j] \in Nat \ {0}
BY JobsAssumption DEF IInv, Typed, TypeOK, Deals, ProcessedIsWhole, RowOK

\* The row of the call that only takes another status keeps the rest.
LEMMA StatusFact ==
  ASSUME IInv, NEW st \in Progress \cup Final, SetStatus(st), st = "processed" => call.analysed
  PROVE  CallOK /\ call'.status = st /\ call'.linked = call.linked /\ call'.analysed = call.analysed
<1>1. call \in CallRows
  BY Known
<1>2. /\ call' \in CallRows /\ call'.status = st /\ call'.linked = call.linked
      /\ call'.analysed = call.analysed
  BY <1>1 DEF SetStatus, CallRows
<1> QED BY <1>2, Known DEF CallOK, Progress, Final

\* A row that stands still is as good as it was.
LEMMA SameCall == ASSUME IInv, UNCHANGED call PROVE CallOK
BY Known DEF CallOK

\* A fresh job, and one that has finished.
LEMMA FreshFact ==
  ASSUME NEW j \in Jobs
  PROVE  /\ NewJob \in JobRows /\ NewJob.state = "absent" /\ RowOK(j, NewJob)
         /\ \A audio \in {"none", "url", "file"} :
              RowOK(j, Queued(audio)) /\ Queued(audio).state = "waiting"
         /\ \A st \in {"completed", "failed"} :
              LET row == [NewJob EXCEPT !.state = st, !.pc = "done"]
              IN RowOK(j, row) /\ row.state = st
<1>1. Attempts[j] \in Nat \ {0}
  BY JobsAssumption
<1>2. NewJob \in JobRows /\ NewJob.tries = 0 /\ NewJob.state = "absent"
  BY DEF NewJob, JobRows, Steps
<1>3. \A audio \in {"none", "url", "file"} :
        /\ Queued(audio) \in JobRows /\ Queued(audio).tries = 0 /\ Queued(audio).state = "waiting"
  BY <1>2 DEF Queued, JobRows
<1>4. \A st \in {"completed", "failed"} :
        LET row == [NewJob EXCEPT !.state = st, !.pc = "done"]
        IN row \in JobRows /\ row.tries = 0 /\ row.state = st
  BY <1>2 DEF JobRows, Steps
<1> QED BY <1>1, <1>2, <1>3, <1>4 DEF RowOK

\* A job that goes to another step.
LEMMA GotoFact ==
  ASSUME IInv, NEW j \in Jobs, NEW pc \in Steps,
         job[j].state = "active" => pc \notin {"idle", "add", "done"}
  PROVE  LET row == [job[j] EXCEPT !.pc = pc]
         IN /\ RowOK(j, row) /\ row.pc = pc /\ row.state = job[j].state
            /\ Goto(j, pc) => job' = [job EXCEPT ![j] = row]
<1>1. job[j] \in JobRows /\ RowOK(j, job[j])
  BY Known
<1>2. LET row == [job[j] EXCEPT !.pc = pc]
      IN row \in JobRows /\ row.pc = pc /\ row.state = job[j].state /\ row.tries = job[j].tries
  BY <1>1 DEF JobRows
<1> QED BY <1>1, <1>2 DEF RowOK, Goto

\* A worker that goes on to another step.
LEMMA GoOn ==
  ASSUME IInv, NEW j \in Jobs, NEW pc \in Steps \ {"idle", "add", "done"}, Goto(j, pc),
         job[j].state = "active", CallOK, Around, stray \subseteq stray',
         pc \in PastDeal => call'.linked, pc \in PastAnalysis => call'.analysed
  PROVE  IInv'
<1> DEFINE row == [job[j] EXCEPT !.pc = pc]
<1>1. /\ RowOK(j, row) /\ row.pc = pc /\ row.state = "active"
      /\ job' = [job EXCEPT ![j] = row]
  BY GotoFact
<1> HIDE DEF row
<1>2. Cared(j, row)
  BY <1>1 DEF Cared, Lives
<1> QED BY <1>1, <1>2, JobStep

\* A worker that is done with a call it has filed.
LEMMA Done ==
  ASSUME IInv, NEW j \in Jobs, job' = Finished(j), CallOK, Around, stray \subseteq stray',
         call'.status \in Final
  PROVE  IInv'
<1> DEFINE row == [NewJob EXCEPT !.state = "completed", !.pc = "done"]
<1>1. RowOK(j, row) /\ row.state = "completed" /\ job' = [job EXCEPT ![j] = row]
  BY FreshFact DEF Finished
<1> HIDE DEF row
<1>2. call'.status \notin Progress
  BY DEF Progress, Final
<1> QED BY <1>1, <1>2, JobStep

\* A failed attempt of a job.
LEMMA RetriedFact ==
  ASSUME IInv, NEW j \in Jobs
  PROVE  RowOK(j, Retried(j)) /\ Retried(j).state \in {"waiting", "failed"}
<1>1. job[j] \in JobRows /\ Attempts[j] \in Nat \ {0}
  BY Known
<1>2. CASE job[j].tries + 1 < Attempts[j]
  <2> DEFINE n == job[j].tries + 1
             row == [job[j] EXCEPT !.state = "waiting", !.pc = "idle", !.tries = n]
  <2>2. Retried(j) = row
    BY <1>2 DEF Retried
  <2>3. job[j].tries \in Nat /\ n = job[j].tries + 1 /\ n \in Nat
    BY <1>1 DEF JobRows
  <2> HIDE DEF n
  <2>1. row \in JobRows /\ row.tries = n /\ row.state = "waiting"
    BY <1>1, <2>3 DEF JobRows, Steps
  <2> HIDE DEF row
  <2> QED BY <1>1, <1>2, <2>1, <2>2, <2>3 DEF RowOK
<1>3. CASE ~(job[j].tries + 1 < Attempts[j])
  BY <1>3, FreshFact DEF Retried
<1> QED BY <1>2, <1>3

-----------------------------------------------------------------------------
(* The producers.                                                          *)

\* What the exchange, the synchronisation and the bot put on the queue keeps the
\* invariant, and so does a row they put back to "queued".
LEMMA ProducersHold ==
  ASSUME IInv, \/ \E d \in Deliveries : Webhook(d)
               \/ \E m \in Manual : PressAnalyze(m) \/ AddManual(m)
               \/ SyncFilter \/ SyncAdd
  PROVE  IInv'
<1>0. /\ faults \in 0 .. setup.faults /\ setup.faults \in Nat
      /\ faults < setup.faults /\ faults' = faults + 1 => faults' \in 0 .. setup.faults
      /\ sync \in {"idle", "add"} /\ file \in BOOLEAN /\ dealKnown \in BOOLEAN
  BY Known
<1>1. ASSUME NEW d \in Deliveries, Webhook(d) PROVE IInv'
  <2>1. PICK audio \in {"url", "none"} : job' = [job EXCEPT ![d] = Queued(audio)]
    BY <1>1 DEF Webhook
  <2>2. /\ RowOK(d, Queued(audio)) /\ Queued(audio).state = "waiting" /\ d \in Jobs
        /\ Cared(d, Queued(audio))
    BY FreshFact DEF Jobs, Cared, Lives
  <2>3. CallOK /\ Around /\ stray \subseteq stray'
    BY <1>0, <1>1, SameCall DEF Webhook, outside, Around
  <2> QED BY <2>1, <2>2, <2>3, JobStep
<1>2. ASSUME NEW m \in Manual, PressAnalyze(m) PROVE IInv'
  <2> DEFINE row == [job[m] EXCEPT !.pc = "add"]
  <2>1. m \in Jobs /\ job[m].state = "absent" /\ Goto(m, "add")
    BY <1>2 DEF PressAnalyze, Jobs
  <2>2. RowOK(m, row) /\ row.pc = "add" /\ row.state = "absent" /\ job' = [job EXCEPT ![m] = row]
    BY <2>1, GotoFact DEF Steps
  <2>3. CallOK
    BY <1>2, SameCall, StatusFact DEF PressAnalyze, Progress
  <2>4. Around /\ stray \subseteq stray'
    BY <1>0, <1>2 DEF PressAnalyze, outside, Around
  <2> HIDE DEF row
  <2>5. Cared(m, row)
    BY <2>2 DEF Cared
  <2> QED BY <2>1, <2>2, <2>3, <2>4, <2>5, JobStep
<1>3. ASSUME NEW m \in Manual, AddManual(m) PROVE IInv'
  <2>1. m \in Jobs /\ job[m].state = "absent"
    BY <1>3 DEF AddManual, Jobs
  <2>2. CallOK /\ Around /\ stray \subseteq stray'
    BY <1>0, <1>3, SameCall DEF AddManual, outside, Around, Fault
  <2>3. CASE job' = [job EXCEPT ![m] = Queued("url")]
    <3>1. RowOK(m, Queued("url")) /\ Queued("url").state = "waiting" /\ Cared(m, Queued("url"))
      BY <2>1, FreshFact DEF Cared, Lives
    <3> QED BY <2>1, <2>2, <2>3, <3>1, JobStep
  <2>4. CASE Goto(m, "gave up") /\ stray' = stray \cup {"failed add"}
    <3> DEFINE row == [job[m] EXCEPT !.pc = "gave up"]
    <3>1. RowOK(m, row) /\ row.state = "absent" /\ job' = [job EXCEPT ![m] = row]
      BY <2>1, <2>4, GotoFact DEF Steps
    <3> HIDE DEF row
    <3> QED BY <2>1, <2>2, <2>4, <3>1, JobStep
  <2> QED BY <1>3, <2>3, <2>4 DEF AddManual
<1>4. ASSUME SyncFilter PROVE IInv'
  <2>1. CallOK
    BY <1>4, SameCall, StatusFact DEF SyncFilter, Progress
  <2>2. Around /\ stray \subseteq stray' /\ job' = job /\ sync' = "add"
    BY <1>0, <1>4 DEF SyncFilter, Around
  <2> QED BY <2>1, <2>2, OutsideStep
<1>5. ASSUME SyncAdd PROVE IInv'
  <2>1. PICK extracted \in BOOLEAN :
          /\ file' = (file \/ extracted)
          /\ \/ /\ job' = [job EXCEPT ![History] = Queued(IF extracted THEN "file" ELSE "none")]
                /\ UNCHANGED <<stray, faults>>
             \/ /\ stray' = stray \cup {"ignored add"}
                /\ UNCHANGED <<job, faults>>
             \/ Fault /\ stray' = stray \cup {"failed add"} /\ UNCHANGED job
    BY <1>5 DEF SyncAdd, Extractions
  <2>2. CallOK /\ Around /\ stray \subseteq stray' /\ History \in Jobs
    BY <1>0, <1>5, <2>1, SameCall DEF SyncAdd, Around, Fault, Jobs
  <2>3. CASE job' = [job EXCEPT ![History] = Queued(IF extracted THEN "file" ELSE "none")]
    <3> DEFINE audio == IF extracted THEN "file" ELSE "none"
    <3>1. /\ RowOK(History, Queued(audio)) /\ Queued(audio).state = "waiting"
          /\ Cared(History, Queued(audio))
      <4>1. audio \in {"none", "url", "file"}
        OBVIOUS
      <4> HIDE DEF audio
      <4> QED BY <2>2, <4>1, FreshFact DEF Cared, Lives
    <3>2. job' = [job EXCEPT ![History] = Queued(audio)]
      BY <2>3
    <3> HIDE DEF audio
    <3> QED BY <2>2, <3>1, <3>2, JobStep
  <2>4. CASE job' = job /\ stray' # {}
    BY <2>2, <2>4, OutsideStep
  <2> QED BY <2>1, <2>3, <2>4
<1> QED BY <1>1, <1>2, <1>3, <1>4, <1>5

-----------------------------------------------------------------------------
(* The worker.                                                             *)

\* The statements of the worker that succeed keep the invariant: none is made for a call
\* without a deal but the one that files it.
LEMMA WorkHolds == ASSUME IInv, NEW j \in Jobs, Work(j) PROVE IInv'
<1>0. /\ faults \in 0 .. setup.faults /\ setup.faults \in Nat /\ call \in CallRows
      /\ faults < setup.faults /\ faults' = faults + 1 => faults' \in 0 .. setup.faults
      /\ sync \in {"idle", "add"} /\ file \in BOOLEAN /\ dealKnown \in BOOLEAN
      /\ job[j] \in JobRows /\ RowOK(j, job[j])
      /\ call.linked => call.status # "none"
      /\ call.analysed => call.linked
      /\ call.status = "processed" => call.analysed
  BY Known
<1>d. job[j].state = "active" => /\ job[j].pc \in PastDeal => call.linked
                                 /\ job[j].pc \in PastAnalysis => call.analysed
  BY DEF IInv, Deals
<1>s. /\ {"find", "create", "update", "skip", "transcribe", "mark", "analyze", "empty", "analyzed",
          "finish", "catch"} \subseteq Steps \ {"idle", "add", "done"}
      /\ {"find", "create", "update", "skip", "catch"} \cap (PastDeal \cup PastAnalysis) = {}
      /\ {"mark", "analyze", "empty", "transcribe"} \cap PastAnalysis = {}
      /\ PastAnalysis \subseteq PastDeal /\ "finish" \in PastAnalysis /\ "analyzed" \in PastAnalysis
      /\ {"transcribe", "mark", "analyze", "empty"} \subseteq PastDeal
  BY DEF Steps, PastDeal, PastAnalysis
<1>1. ASSUME Begin(j) PROVE IInv'
  <2> DEFINE row == [job[j] EXCEPT !.state = "active", !.pc = "find", !.text = "none"]
  <2>1. row \in JobRows /\ row.state = "active" /\ row.pc = "find" /\ row.tries = job[j].tries
    BY <1>0, <1>s DEF JobRows
  <2>2. job' = [job EXCEPT ![j] = row]
    BY <1>1 DEF Begin
  <2>3. CallOK /\ Around /\ stray \subseteq stray'
    BY <1>0, <1>1, SameCall DEF Begin, Around, outside
  <2> HIDE DEF row
  <2>4. RowOK(j, row) /\ Cared(j, row)
    BY <1>0, <2>1 DEF RowOK, Cared, Lives
  <2> QED BY <1>s, <2>1, <2>2, <2>3, <2>4, JobStep
<1>2. ASSUME Find(j) PROVE IInv'
  <2> DEFINE pc == IF call.status = "none" THEN "create"
                   ELSE IF call.linked THEN "transcribe" ELSE "update"
  <2>1. /\ pc \in Steps \ {"idle", "add", "done"} /\ Goto(j, pc) /\ job[j].state = "active"
        /\ pc \in PastDeal => call.linked
        /\ pc \notin PastAnalysis
    BY <1>2, <1>s DEF Find, At
  <2>2. CallOK /\ Around /\ stray \subseteq stray' /\ call' = call
    BY <1>0, <1>2, SameCall DEF Find, Around, outside
  <2> HIDE DEF pc
  <2> QED BY <2>1, <2>2, GoOn
<1>3. ASSUME CreateCall(j) PROVE IInv'
  <2>1. PICK found \in Lookups(j) :
          call' = [call EXCEPT !.status = "queued", !.linked = found] /\ Goto(j, AfterRecord(found))
    BY <1>3 DEF CreateCall
  <2> DEFINE pc == AfterRecord(found)
  <2>2. /\ call.status = "none" /\ job[j].state = "active" /\ Around /\ stray \subseteq stray'
    BY <1>0, <1>3 DEF CreateCall, At, Around, outside
  <2>3. found \in BOOLEAN
    BY <1>0 DEF Lookups
  <2>4. /\ call' \in CallRows /\ call'.status = "queued" /\ call'.linked = found
        /\ call'.analysed = call.analysed
    BY <1>0, <2>1, <2>3 DEF CallRows, Progress
  <2>5. CallOK
    BY <1>0, <2>2, <2>4 DEF CallOK
  <2>6. pc \in Steps \ {"idle", "add", "done"} /\ pc \notin PastAnalysis /\ (pc \in PastDeal => found)
    BY <1>s DEF AfterRecord
  <2> HIDE DEF pc
  <2> QED BY <2>1, <2>2, <2>4, <2>5, <2>6, GoOn DEF pc
<1>4. ASSUME UpdateCall(j) PROVE IInv'
  <2>1. PICK found \in Lookups(j) :
          /\ IF found THEN call' = [call EXCEPT !.status = "queued", !.linked = TRUE]
                      ELSE UNCHANGED call
          /\ Goto(j, AfterRecord(found))
    BY <1>4 DEF UpdateCall
  <2> DEFINE pc == AfterRecord(found)
  <2>2. job[j].state = "active" /\ Around /\ stray \subseteq stray'
    BY <1>0, <1>4 DEF UpdateCall, At, Around, outside
  <2>3. CallOK /\ (found => call'.linked)
    <3>1. CASE found
      <4>1. /\ call' \in CallRows /\ call'.status = "queued" /\ call'.linked
            /\ call'.analysed = call.analysed
        BY <1>0, <2>1, <3>1 DEF CallRows, Progress
      <4> QED BY <1>0, <4>1 DEF CallOK
    <3>2. CASE ~found
      BY <2>1, <3>2, SameCall
    <3> QED BY <3>1, <3>2
  <2>4. pc \in Steps \ {"idle", "add", "done"} /\ pc \notin PastAnalysis /\ (pc \in PastDeal => found)
    BY <1>s DEF AfterRecord
  <2> HIDE DEF pc
  <2> QED BY <2>1, <2>2, <2>3, <2>4, GoOn DEF pc
<1>5. ASSUME SkipCall(j) \/ FileEmpty(j) PROVE IInv'
  <2>1. PICK st \in {"skipped_no_deal", "failed"} : SetStatus(st)
    BY <1>5 DEF SkipCall, FileEmpty
  <2>2. CallOK /\ call'.status \in Final
    BY <2>1, StatusFact DEF Final
  <2>3. job' = Finished(j) /\ Around /\ stray \subseteq stray'
    BY <1>0, <1>5 DEF SkipCall, FileEmpty, Around, outside
  <2> QED BY <2>2, <2>3, Done
<1>6. ASSUME Transcribe(j) PROVE IInv'
  <2>1. PICK text \in {"speech", "empty"} : job' = [job EXCEPT ![j].pc = "mark", ![j].text = text]
    BY <1>6 DEF Transcribe, Texts
  <2> DEFINE row == [job[j] EXCEPT !.pc = "mark", !.text = text]
  <2>2. /\ row \in JobRows /\ row.state = job[j].state /\ row.pc = "mark"
        /\ row.tries = job[j].tries
    BY <1>0, <1>s DEF JobRows
  <2>3. job' = [job EXCEPT ![j] = row]
    BY <2>1
  <2>4. job[j].state = "active" /\ call.linked /\ call' = call
    BY <1>d, <1>s, <1>6 DEF Transcribe, At
  <2>5. CallOK /\ Around /\ stray \subseteq stray'
    BY <1>0, <1>6, SameCall DEF Transcribe, Around, outside
  <2> HIDE DEF row
  <2>6. RowOK(j, row) /\ Cared(j, row)
    BY <1>0, <2>2, <2>4 DEF RowOK, Cared, Lives
  <2> QED BY <1>s, <2>2, <2>3, <2>4, <2>5, <2>6, JobStep
<1>7. ASSUME MarkTranscribed(j) PROVE IInv'
  <2> DEFINE pc == IF job[j].text = "speech" THEN "analyze" ELSE "empty"
             row == [job[j] EXCEPT !.text = "none", !.pc = pc]
  <2>1. pc \in {"analyze", "empty"}
    OBVIOUS
  <2>2. job' = [job EXCEPT ![j] = row]
    BY <1>7 DEF MarkTranscribed
  <2>p. pc \in Steps
    BY <1>s
  <2>3. row \in JobRows /\ row.state = job[j].state /\ row.pc = pc /\ row.tries = job[j].tries
    <3> HIDE DEF pc
    <3> QED BY <1>0, <2>p DEF JobRows
  <2>4. job[j].state = "active" /\ call.linked
    BY <1>d, <1>s, <1>7 DEF MarkTranscribed, At
  <2>5. CallOK /\ call'.linked = call.linked
    BY <1>7, StatusFact DEF MarkTranscribed, Progress
  <2>6. Around /\ stray \subseteq stray'
    BY <1>0, <1>7 DEF MarkTranscribed, Around, outside
  <2> HIDE DEF pc, row
  <2>7. RowOK(j, row) /\ Cared(j, row)
    BY <1>0, <2>1, <2>3, <2>4 DEF RowOK, Cared, Lives
  <2>8. pc \notin PastAnalysis
    BY <1>s, <2>1
  <2> QED BY <2>2, <2>3, <2>4, <2>5, <2>6, <2>7, <2>8, JobStep
<1>8. ASSUME SaveAnalysis(j) PROVE IInv'
  <2>1. job[j].state = "active" /\ call.linked /\ Goto(j, "analyzed")
    BY <1>d, <1>s, <1>8 DEF SaveAnalysis, At
  <2>2. /\ call' \in CallRows /\ call'.status = call.status /\ call'.linked = call.linked
        /\ call'.analysed
    BY <1>0, <1>8 DEF SaveAnalysis, Analysed, CallRows
  <2>3. CallOK /\ Around /\ stray \subseteq stray'
    BY <1>0, <1>8, <2>1, <2>2 DEF CallOK, SaveAnalysis, Around, outside
  <2> QED BY <1>s, <2>1, <2>2, <2>3, GoOn
<1>9. ASSUME MarkAnalyzed(j) PROVE IInv'
  <2>1. job[j].state = "active" /\ call.linked /\ call.analysed /\ Goto(j, "finish")
    BY <1>d, <1>s, <1>9 DEF MarkAnalyzed, At
  <2>2. CallOK /\ call'.linked = call.linked /\ call'.analysed = call.analysed
    BY <1>9, StatusFact DEF MarkAnalyzed, Progress
  <2>3. Around /\ stray \subseteq stray'
    BY <1>0, <1>9 DEF MarkAnalyzed, Around, outside
  <2> QED BY <1>s, <2>1, <2>2, <2>3, GoOn
<1>10. ASSUME MarkProcessed(j) PROVE IInv'
  <2>1. call.analysed /\ job' = Finished(j)
    BY <1>d, <1>s, <1>10 DEF MarkProcessed, At
  <2>2. CallOK /\ call'.status = "processed"
    BY <1>10, <2>1, StatusFact DEF MarkProcessed, Final
  <2>3. Around /\ stray \subseteq stray'
    BY <1>0, <1>10 DEF MarkProcessed, Around, outside
  <2> QED BY <2>1, <2>2, <2>3, Done DEF Final
<1>11. ASSUME CreateRefused(j) \/ DownloadFails(j) PROVE IInv'
  <2>1. job[j].state = "active" /\ Goto(j, "catch")
    BY <1>11 DEF CreateRefused, DownloadFails, At
  <2>2. CallOK
    BY <1>11, SameCall, StatusFact DEF CreateRefused, DownloadFails, Final
  <2>3. Around /\ stray \subseteq stray'
    BY <1>0, <1>11 DEF CreateRefused, DownloadFails, Around, outside
  <2> QED BY <1>s, <2>1, <2>2, <2>3, GoOn
<1>12. ASSUME Rethrow(j) PROVE IInv'
  <2>1. job' = [job EXCEPT ![j] = Retried(j)] /\ job[j].state = "active"
    BY <1>12 DEF Rethrow, At
  <2>2. CallOK
    BY <1>12, SameCall, StatusFact DEF Rethrow, Final
  <2>3. Around /\ stray \subseteq stray'
    BY <1>0, <1>12 DEF Rethrow, Around, outside, Fault
  <2>4. call'.status \notin Progress \/ stray' # {}
    <3>1. CASE SetStatus("error")
      BY <3>1, StatusFact DEF Final, Progress
    <3>2. CASE call.status = "none" /\ call' = call
      BY <3>2 DEF Progress
    <3> QED BY <1>12, <3>1, <3>2 DEF Rethrow
  <2>5. RowOK(j, Retried(j)) /\ Retried(j).state # "active"
    BY RetriedFact
  <2> QED BY <2>1, <2>2, <2>3, <2>4, <2>5, JobStep
<1> QED BY <1>1, <1>2, <1>3, <1>4, <1>5, <1>6, <1>7, <1>8, <1>9, <1>10, <1>11, <1>12 DEF Work

\* A statement that fails and a worker that dies keep the invariant: the job goes back to
\* the queue, or it is one of the known accidents.
LEMMA FaultsHold == ASSUME IInv, NEW j \in Jobs, StatementFails(j) \/ Crash(j) PROVE IInv'
<1>0. /\ faults \in 0 .. setup.faults /\ setup.faults \in Nat
      /\ faults < setup.faults /\ faults' = faults + 1 => faults' \in 0 .. setup.faults
      /\ sync \in {"idle", "add"} /\ file \in BOOLEAN /\ dealKnown \in BOOLEAN
      /\ job[j] \in JobRows /\ RowOK(j, job[j])
  BY Known
<1>1. CallOK /\ Around /\ stray \subseteq stray' /\ job[j].state = "active"
  BY <1>0, SameCall DEF StatementFails, Crash, Around, outside, Fault
<1>2. CASE StatementFails(j)
  <2>1. Goto(j, "catch") /\ "catch" \in Steps \ {"idle", "add", "done"}
        /\ "catch" \notin PastDeal /\ "catch" \notin PastAnalysis
    BY <1>2 DEF StatementFails, Steps, PastDeal, PastAnalysis
  <2> QED BY <1>1, <2>1, GoOn
<1>3. CASE Crash(j) /\ job[j].stalled
  <2> DEFINE row == [NewJob EXCEPT !.state = "failed", !.pc = "done"]
  <2>1. RowOK(j, row) /\ row.state = "failed"
    BY FreshFact
  <2>2. job' = [job EXCEPT ![j] = row] /\ stray' # {}
    BY <1>3 DEF Crash
  <2> HIDE DEF row
  <2> QED BY <1>1, <2>1, <2>2, JobStep
<1>4. CASE Crash(j) /\ ~job[j].stalled
  <2> DEFINE row == [job[j] EXCEPT !.state = "waiting", !.stalled = TRUE]
  <2>1. row \in JobRows /\ row.state = "waiting" /\ row.tries = job[j].tries
    BY <1>0 DEF JobRows
  <2>2. job' = [job EXCEPT ![j] = row]
    BY <1>4 DEF Crash
  <2> HIDE DEF row
  <2>3. RowOK(j, row) /\ Cared(j, row)
    BY <1>0, <2>1 DEF RowOK, Cared, Lives
  <2> QED BY <1>1, <2>1, <2>2, <2>3, JobStep
<1> QED BY <1>2, <1>3, <1>4

\* The queue that forgets a job that is over, a contact that gets a deal and a week that
\* passes keep the invariant.
LEMMA WorldHolds == ASSUME IInv, Forget \/ ContactSynced \/ WeekPasses PROVE IInv'
<1>1. CallOK /\ Around /\ stray' = stray
  BY Known, SameCall DEF Forget, ContactSynced, WeekPasses, Around, outside
<1>2. CASE Forget
  <2>1. History \in Jobs /\ History \notin Manual /\ job' = [job EXCEPT ![History] = NewJob]
        /\ job[History].state \in {"completed", "failed"} /\ sync' = sync /\ call' = call
    BY <1>2, JobsAssumption DEF Forget, Jobs, outside
  <2>2. RowOK(History, NewJob) /\ NewJob.state = "absent"
    BY <2>1, FreshFact
  <2>3. ~Cared(History, job[History])
    BY <2>1 DEF Cared, Lives
  <2> QED BY <1>1, <2>1, <2>2, <2>3, JobStep
<1>3. CASE ContactSynced \/ WeekPasses
  <2>1. job' = job /\ sync' = sync /\ call' = call
    BY <1>3 DEF ContactSynced, WeekPasses
  <2> QED BY <1>1, <2>1, OutsideStep
<1> QED BY <1>2, <1>3

-----------------------------------------------------------------------------
(* The theorems.                                                           *)

\* No call, no job: the invariant holds at the start.
LEMMA InitHolds == Init => IInv
<1> SUFFICES ASSUME Init PROVE IInv
  OBVIOUS
<1>1. /\ setup \in Setups /\ setup.faults \in Nat
      /\ call \in CallRows /\ call.status = "none" /\ ~call.linked /\ ~call.analysed
      /\ sync = "idle" /\ file = FALSE /\ faults = 0
  BY JobsAssumption DEF Init, CallRows
<1>2. \A j \in Jobs : job[j] = NewJob /\ RowOK(j, NewJob) /\ NewJob.state = "absent"
  BY FreshFact DEF Init
<1>3. job \in [Jobs -> JobRows]
  BY <1>2 DEF Init, RowOK
<1>4. TypeOK
  <2>1. \A j \in Jobs :
          /\ job[j].state \in {"absent", "waiting", "active", "completed", "failed"}
          /\ job[j].tries \in 0 .. Attempts[j] - 1
          /\ job[j].state = "active" => job[j].pc \notin {"idle", "add", "done"}
    BY <1>2 DEF RowOK, JobRows
  <2>2. dealKnown = FALSE
    BY DEF Init
  <2>3. faults \in 0 .. setup.faults
    BY <1>1
  <2> QED BY <1>1, <2>1, <2>2, <2>3 DEF TypeOK, CallRows
<1> QED BY <1>1, <1>2, <1>3, <1>4
        DEF IInv, Typed, Deals, ProcessedIsWhole, NothingIsStranded, Progress

\* Every step keeps the invariant.
LEMMA Invariant == Spec => []IInv
<1>1. IInv /\ [Next]_vars => IInv'
  <2>1. ASSUME IInv, UNCHANGED vars PROVE IInv'
    <3>1. CallOK /\ Around /\ job' = job /\ stray' = stray /\ sync' = sync /\ call' = call
      BY <2>1, Known, SameCall DEF vars, Around
    <3> QED BY <2>1, <3>1, OutsideStep
  <2> QED BY <2>1, ProducersHold, WorkHolds, FaultsHold, WorldHolds DEF Next
<1> QED BY <1>1, InitHolds, PTL DEF Spec

\* The row of the call, its jobs and the synchronisation stay well formed, and no job is
\* tried more often than its producer allowed.
THEOREM TypeCorrect == Spec => []TypeOK
BY Invariant, PTL DEF IInv, Typed

\* Whichever of its jobs wrote what in which order (processCallJob), a call that reads
\* "processed" has an analysis, and a call that was analysed has its deal.
THEOREM ProcessedCallsAreWhole == Spec => []ProcessedIsWhole
BY Invariant, PTL DEF IInv

\* A row between two statuses has a job that will move it (the wrapper of the worker and its
\* early returns), save for the four known accidents.
THEOREM NoRowIsStranded == Spec => []NothingIsStranded
BY Invariant, PTL DEF IInv

-----------------------------------------------------------------------------
(* Handlers of one process that interleave at every await, over another    *)
(* row: the discipline pilot (Discipline).                                 *)
(* The discipline pilot for any managers, roles and handlers.  The         *)
(* argument follows one manager for as long as no mishap befalls him: one  *)
(* handler at a time is at work on him, and from where it is follows what  *)
(* his row and his role hold.                                              *)

CONSTANTS Managers, PilotRole, Roles, Handlers, Cron, Stages, NewLeadStages, Norm, None

VARIABLES pilotActive, pilot, restricted, pilotSaved, rights, roleOf, met, due, pilotPc,
          who, kept, mishap

Pilot == INSTANCE Discipline WITH active <- pilotActive, saved <- pilotSaved, pc <- pilotPc

PilotIInv ==
  /\ Pilot!TypeOK /\ Pilot!RestrictedHasSaved
  /\ Pilot!Alone /\ Pilot!Progress /\ Pilot!Listed
  /\ Pilot!NobodyIsLockedOut /\ Pilot!SnapshotsArePeoples

\* What the two conversions of rights return, which is all the proofs use of rights.
LEMMA Conversions ==
  ASSUME NEW R \in Pilot!Rights, NewLeadStages \subseteq Stages
  PROVE  /\ Pilot!Hidden(R) \in Pilot!Rights /\ Pilot!Hidden(R).by = "us"
         /\ Pilot!Normalized(R) \in Pilot!Rights /\ Pilot!Normalized(R).by = R.by
BY DEF Pilot!Rights, Pilot!Hidden, Pilot!Normalized, Pilot!Access

\* Nobody is restricted, nobody is at work.
LEMMA PilotInitHolds == Pilot!Config /\ Pilot!Init => PilotIInv
<1> SUFFICES ASSUME Pilot!Config, Pilot!Init PROVE PilotIInv
  OBVIOUS
<1> USE DEF Pilot!Config, Pilot!Init
<1>1. Pilot!TypeOK /\ Pilot!RestrictedHasSaved
  BY DEF Pilot!TypeOK, Pilot!RestrictedHasSaved, Pilot!Places
<1>2. Pilot!Alone /\ Pilot!Progress /\ Pilot!Listed
  BY DEF Pilot!Alone, Pilot!Progress, Pilot!Listed, Pilot!Works
<1>3. Pilot!NobodyIsLockedOut /\ Pilot!SnapshotsArePeoples
  BY DEF Pilot!NobodyIsLockedOut, Pilot!SnapshotsArePeoples
<1> QED BY <1>1, <1>2, <1>3 DEF PilotIInv

\* Every step keeps the types and writes flag and snapshot of a row together.
LEMMA TypeStep == Pilot!Config /\ PilotIInv /\ [Pilot!Next]_(Pilot!vars) =>
                     Pilot!TypeOK' /\ Pilot!RestrictedHasSaved'
<1> DEFINE Goal == Pilot!TypeOK /\ Pilot!RestrictedHasSaved
<1> SUFFICES ASSUME Pilot!Config, PilotIInv, [Pilot!Next]_(Pilot!vars) PROVE Goal'
  OBVIOUS
<1>0. Pilot!TypeOK /\ Pilot!RestrictedHasSaved /\ Pilot!Progress
  BY DEF PilotIInv
<1>c. Pilot!Config
  OBVIOUS
<1> USE DEF Pilot!row, Pilot!amo, Pilot!Go, Pilot!Still
<1>1. CASE Pilot!List \/ Pilot!Crash
  BY <1>c, <1>0, <1>1 DEF Pilot!List, Pilot!Crash, Pilot!Overlapping, Pilot!TypeOK,
                          Pilot!RestrictedHasSaved, Pilot!Places, Pilot!Config
<1>2. ASSUME NEW m \in Managers,
             \/ Pilot!Visit(m)
             \/ \E h \in Handlers : \/ Pilot!TestRestrict(h, m) \/ Pilot!ReadRow(h, m)
                                   \/ Pilot!TestRestore(h, m)
      PROVE  Goal'
  BY <1>c, <1>0, <1>2 DEF Pilot!Visit, Pilot!TestRestrict, Pilot!ReadRow, Pilot!TestRestore,
                          Pilot!Overlapping, Pilot!TypeOK,
     Pilot!RestrictedHasSaved, Pilot!Places, Pilot!Config
<1>3. ASSUME NEW h \in Handlers, Pilot!ReadUser(h) \/ Pilot!Count(h) \/ Pilot!Fail(h) PROVE Goal'
  BY <1>c, <1>0, <1>3 DEF Pilot!ReadUser, Pilot!Count, Pilot!Fail, Pilot!TypeOK,
                          Pilot!RestrictedHasSaved, Pilot!Places, Pilot!Config,
     Pilot!Progress
<1>4. ASSUME NEW h \in Handlers, Pilot!ReadRole(h) PROVE Goal'
  <2>1. who[h] \in Pilot!Pilots /\ rights[PilotRole[who[h]]] \in Pilot!Rights
    BY <1>c, <1>0, <1>4 DEF Pilot!ReadRole, Pilot!Progress, Pilot!TypeOK, Pilot!Config
  <2> QED BY <1>0, <1>4, <2>1 DEF Pilot!ReadRole, Pilot!TypeOK, Pilot!RestrictedHasSaved,
                                  Pilot!Places
<1>5. ASSUME NEW h \in Handlers, Pilot!Hide(h) \/ Pilot!Open(h) PROVE Goal'
  <2>1. kept[h] \in Pilot!Rights /\ who[h] \in Pilot!Pilots /\ PilotRole[who[h]] \in Roles
    BY <1>c, <1>0, <1>5 DEF Pilot!Hide, Pilot!Open, Pilot!Progress, Pilot!TypeOK, Pilot!Config
  <2>2. Pilot!Hidden(kept[h]) \in Pilot!Rights /\ Pilot!Normalized(kept[h]) \in Pilot!Rights
    BY <1>c, <2>1, Conversions DEF Pilot!Config
  <2> QED BY <1>c, <1>0, <1>5, <2>1, <2>2 DEF Pilot!Hide, Pilot!Open, Pilot!TypeOK,
                                              Pilot!RestrictedHasSaved, Pilot!Places,
                                              Pilot!Config
<1>6. ASSUME NEW h \in Handlers, Pilot!Save(h) \/ Pilot!Clear(h) PROVE Goal'
  <2>1. kept[h] \in Pilot!Rights /\ who[h] \in Pilot!Pilots
    BY <1>0, <1>6 DEF Pilot!Save, Pilot!Clear, Pilot!Progress, Pilot!TypeOK
  <2> QED BY <1>c, <1>0, <1>6, <2>1 DEF Pilot!Save, Pilot!Clear, Pilot!TypeOK,
                                        Pilot!RestrictedHasSaved, Pilot!Places, Pilot!Config
<1>7. CASE Pilot!Environment
  BY <1>c, <1>0, <1>7 DEF Pilot!Environment, Pilot!Midnight, Pilot!ApplyConfig,
                          Pilot!SyncListed, Pilot!SyncGone, Pilot!Message,
     Pilot!Reassign, Pilot!EditRights, Pilot!TypeOK, Pilot!RestrictedHasSaved, Pilot!Config
<1>8. CASE UNCHANGED Pilot!vars
  BY <1>0, <1>8 DEF Pilot!vars, Pilot!TypeOK, Pilot!RestrictedHasSaved
<1> QED BY <1>1, <1>2, <1>3, <1>4, <1>5, <1>6, <1>7, <1>8 DEF Pilot!Next, Pilot!Restrict,
   Pilot!Restore

\* Every step that puts a handler to work on a manager somebody works on is a mishap.
LEMMA AloneStep == Pilot!Config /\ PilotIInv /\ [Pilot!Next]_(Pilot!vars) =>
                     Pilot!Alone' /\ mishap \subseteq mishap'
<1> DEFINE Goal == Pilot!Alone' /\ mishap \subseteq mishap'
<1> SUFFICES ASSUME Pilot!Config, PilotIInv, [Pilot!Next]_(Pilot!vars) PROVE Goal
  OBVIOUS
<1>0. Pilot!TypeOK /\ Pilot!Alone
  BY DEF PilotIInv
<1>c. Pilot!Config
  OBVIOUS
<1> USE DEF Pilot!row, Pilot!amo, Pilot!Go, Pilot!Still, Pilot!Works
<1>1. CASE Pilot!List
  BY <1>c, <1>0, <1>1 DEF Pilot!List, Pilot!Overlapping, Pilot!Busy, Pilot!TypeOK,
                          Pilot!Alone, Pilot!Config
<1>2. CASE Pilot!Crash
  BY <1>2 DEF Pilot!Crash, Pilot!Alone
<1>3. ASSUME NEW m \in Managers, Pilot!Visit(m) PROVE Goal
  BY <1>c, <1>0, <1>3 DEF Pilot!Visit, Pilot!TypeOK, Pilot!Alone, Pilot!Config
<1>4. ASSUME NEW m \in Managers, NEW h \in Handlers,
             Pilot!TestRestrict(h, m) \/ Pilot!ReadRow(h, m) \/ Pilot!TestRestore(h, m)
      PROVE  Goal
  <2>1. /\ pilotPc' = [pilotPc EXCEPT ![h] = pilotPc'[h]] /\ who' = [who EXCEPT ![h] = m]
        /\ mishap' = mishap \cup {n \in {m} : Pilot!Busy(h, n)} /\ due' = due
    BY <1>0, <1>4 DEF Pilot!TestRestrict, Pilot!ReadRow, Pilot!TestRestore, Pilot!Overlapping,
                      Pilot!TypeOK
  <2>2. h # Cron /\ pilotPc[h] = "idle"
    BY <1>4 DEF Pilot!TestRestrict, Pilot!ReadRow, Pilot!TestRestore
  <2> QED BY <1>0, <2>1, <2>2 DEF Pilot!Busy, Pilot!TypeOK, Pilot!Alone
<1>5. ASSUME NEW h \in Handlers, Pilot!Restrict(h) \/ Pilot!Restore(h) \/ Pilot!Fail(h) PROVE Goal
  <2>1. /\ pilotPc[h] # "idle" /\ UNCHANGED <<who, due>> /\ mishap \subseteq mishap'
        /\ \E p \in Pilot!Places : pilotPc' = [pilotPc EXCEPT ![h] = p]
    BY <1>5 DEF Pilot!Restrict, Pilot!Restore, Pilot!Fail, Pilot!ReadUser, Pilot!ReadRole,
                Pilot!Hide, Pilot!Save, Pilot!Count, Pilot!Open, Pilot!Clear, Pilot!Places
  <2> QED BY <1>0, <2>1 DEF Pilot!TypeOK, Pilot!Alone
<1>6. CASE Pilot!Environment \/ UNCHANGED Pilot!vars
  BY <1>0, <1>6 DEF Pilot!Environment, Pilot!Midnight, Pilot!ApplyConfig, Pilot!SyncListed,
                    Pilot!SyncGone, Pilot!Message,
     Pilot!Reassign, Pilot!EditRights, Pilot!Alone, Pilot!vars
<1> QED BY <1>1, <1>2, <1>3, <1>4, <1>5, <1>6 DEF Pilot!Next

\* Who is not restricted, not at work and free of mishaps has his rights as people set them.
LEMMA FreeOfUs ==
  ASSUME Pilot!Config, PilotIInv, NEW m \in Pilot!Pilots \ mishap, m \notin restricted,
         \A h \in Handlers : ~(pilotPc[h] = "save" /\ who[h] = m)
  PROVE  rights[PilotRole[m]].by = "people"
<1>1. rights[PilotRole[m]] \in Pilot!Rights
  BY DEF PilotIInv, Pilot!TypeOK, Pilot!Config
<1>2. rights[PilotRole[m]].by \in {"people", "us"}
  BY <1>1 DEF Pilot!Rights
<1> QED BY <1>2 DEF PilotIInv, Pilot!NobodyIsLockedOut

Rest == Pilot!Progress /\ Pilot!Listed /\ Pilot!NobodyIsLockedOut /\ Pilot!SnapshotsArePeoples

\* A handler sets to work: on a man who is not restricted, or with his snapshot.
LEMMA StartStep ==
  ASSUME Pilot!Config, PilotIInv,
         \/ Pilot!List
         \/ \E m \in Managers : Pilot!Visit(m)
         \/ \E m \in Managers, h \in Handlers :
              Pilot!TestRestrict(h, m) \/ Pilot!ReadRow(h, m) \/ Pilot!TestRestore(h, m)
  PROVE  Rest'
<1>0. Pilot!TypeOK /\ Pilot!RestrictedHasSaved /\ Pilot!Alone /\ Rest
  BY DEF PilotIInv, Rest
<1>c. Pilot!Config
  OBVIOUS
<1> USE DEF Pilot!row, Pilot!amo, Pilot!Go, Pilot!Still
<1>1. CASE Pilot!List
  <2>1. \A m \in due' \ mishap' : m \in Pilot!Pilots \ mishap /\ m \notin restricted
                                 /\ \A h \in Handlers : ~(pilotPc[h] = "save" /\ who[h] = m)
    BY <1>0, <1>1 DEF Pilot!List, Pilot!Overlapping, Pilot!Busy, Pilot!Works, Pilot!TypeOK
  <2>2. Pilot!Listed'
    BY <1>c, <1>1, <2>1, FreeOfUs DEF Pilot!List, Pilot!Listed
  <2>3. UNCHANGED <<restricted, pilotSaved, rights, pilotPc, who, kept>> /\ mishap \subseteq mishap'
    BY <1>1 DEF Pilot!List, Pilot!Overlapping
  <2> QED BY <1>0, <2>2, <2>3 DEF Rest, Pilot!Progress, Pilot!NobodyIsLockedOut,
                                  Pilot!SnapshotsArePeoples
<1>2. ASSUME NEW m \in Managers, Pilot!Visit(m) PROVE Rest'
  <2>1. /\ m \in due /\ due' = due \ {m} /\ pilotPc[Cron] = "idle" /\ Cron \in Handlers
        /\ UNCHANGED <<restricted, pilotSaved, rights, mishap, kept>>
    BY <1>c, <1>2 DEF Pilot!Visit, Pilot!Config
  <2>2. \/ UNCHANGED <<pilotPc, who>>
        \/ pilotPc' = [pilotPc EXCEPT ![Cron] = "user"] /\ who' = [who EXCEPT ![Cron] = m]
    BY <1>2 DEF Pilot!Visit
  <2>3. m \in Pilot!Pilots /\ (m \notin mishap =>
          m \notin restricted /\ rights[PilotRole[m]].by = "people")
    BY <1>0, <2>1 DEF Rest, Pilot!Listed, Pilot!TypeOK
  <2>4. Pilot!Progress'
    BY <1>0, <2>1, <2>2, <2>3 DEF Rest, Pilot!Progress, Pilot!TypeOK
  <2>5. Pilot!Listed' /\ Pilot!SnapshotsArePeoples'
    BY <1>0, <2>1, <2>2 DEF Rest, Pilot!Listed, Pilot!SnapshotsArePeoples, Pilot!TypeOK
  <2>6. Pilot!NobodyIsLockedOut'
    BY <1>0, <2>1, <2>2 DEF Rest, Pilot!NobodyIsLockedOut, Pilot!TypeOK
  <2> QED BY <2>4, <2>5, <2>6 DEF Rest
<1>3. ASSUME NEW m \in Managers, NEW h \in Handlers, Pilot!TestRestrict(h, m) PROVE Rest'
  <2>1. /\ m \in Pilot!Pilots /\ m \notin restricted /\ pilotPc[h] = "idle"
        /\ pilotPc' = [pilotPc EXCEPT ![h] = "user"] /\ who' = [who EXCEPT ![h] = m]
        /\ UNCHANGED <<restricted, pilotSaved, rights, due, kept>>
    BY <1>0, <1>3 DEF Pilot!TestRestrict, Pilot!TypeOK
  <2>2. mishap \subseteq mishap' /\ (m \notin mishap' => m \notin mishap /\ ~Pilot!Busy(h, m))
    BY <1>3 DEF Pilot!TestRestrict, Pilot!Overlapping
  <2>3. m \notin mishap' => rights[PilotRole[m]].by = "people"
    <3> SUFFICES ASSUME m \notin mishap' PROVE rights[PilotRole[m]].by = "people"
      OBVIOUS
    <3>1. \A g \in Handlers : ~(pilotPc[g] = "save" /\ who[g] = m)
      BY <2>1, <2>2 DEF Pilot!Busy, Pilot!Works
    <3> QED BY <1>c, <2>1, <2>2, <3>1, FreeOfUs
  <2>4. Pilot!Progress'
    BY <1>0, <2>1, <2>2, <2>3 DEF Rest, Pilot!Progress, Pilot!TypeOK
  <2>5. Pilot!Listed' /\ Pilot!SnapshotsArePeoples'
    BY <1>c, <1>0, <1>3, <2>1, <2>2 DEF Pilot!TestRestrict, Rest, Pilot!Listed,
                                        Pilot!SnapshotsArePeoples, Pilot!TypeOK
  <2>6. Pilot!NobodyIsLockedOut'
    BY <1>0, <2>1, <2>2 DEF Rest, Pilot!NobodyIsLockedOut, Pilot!TypeOK
  <2> QED BY <2>4, <2>5, <2>6 DEF Rest
<1>4. ASSUME NEW m \in Managers, NEW h \in Handlers, Pilot!ReadRow(h, m) \/ Pilot!TestRestore(h, m)
      PROVE  Rest'
  <2>1. /\ m \in Pilot!Pilots /\ m \in restricted /\ pilotPc[h] = "idle"
        /\ \E p \in {"count", "open"} : pilotPc' = [pilotPc EXCEPT ![h] = p]
        /\ who' = [who EXCEPT ![h] = m] /\ kept' = [kept EXCEPT ![h] = pilotSaved[m]]
        /\ UNCHANGED <<restricted, pilotSaved, rights, due>> /\ mishap \subseteq mishap'
    BY <1>0, <1>4 DEF Pilot!ReadRow, Pilot!TestRestore, Pilot!TypeOK, Pilot!Overlapping
  <2>2. pilotSaved[m] # None /\ (m \notin mishap => pilotSaved[m].by = "people")
    BY <1>0, <2>1 DEF Pilot!RestrictedHasSaved, Rest, Pilot!SnapshotsArePeoples, Pilot!TypeOK,
                      Pilot!Config
  <2>4. Pilot!Progress'
    BY <1>0, <2>1, <2>2 DEF Rest, Pilot!Progress, Pilot!TypeOK
  <2>5. Pilot!Listed' /\ Pilot!SnapshotsArePeoples'
    BY <1>c, <1>0, <1>4, <2>1 DEF Pilot!ReadRow, Pilot!TestRestore, Rest, Pilot!Listed,
                                  Pilot!SnapshotsArePeoples, Pilot!TypeOK
  <2>6. Pilot!NobodyIsLockedOut'
    BY <1>0, <2>1 DEF Rest, Pilot!NobodyIsLockedOut, Pilot!TypeOK
  <2> QED BY <2>4, <2>5, <2>6 DEF Rest
<1> QED BY <1>1, <1>2, <1>3, <1>4

\* A handler goes on, ends or fails: the place it was at tells what it may do.
LEMMA WorkStep ==
  ASSUME Pilot!Config, PilotIInv, NEW h \in Handlers,
         Pilot!Restrict(h) \/ Pilot!Restore(h) \/ Pilot!Fail(h)
  PROVE  Rest'
<1> DEFINE m == who[h]
<1>0. Pilot!TypeOK /\ Pilot!RestrictedHasSaved /\ Pilot!Alone /\ Rest
  BY DEF PilotIInv, Rest
<1>c. Pilot!Config
  OBVIOUS
<1>w. /\ pilotPc[h] # "idle" /\ m \in Pilot!Pilots /\ Pilot!Works(h, m)
      /\ UNCHANGED <<who, due>> /\ mishap \subseteq mishap'
  BY <1>0 DEF Pilot!Restrict, Pilot!Restore, Pilot!Fail, Pilot!ReadUser, Pilot!ReadRole,
              Pilot!Hide, Pilot!Save, Pilot!Count, Pilot!Open, Pilot!Clear, Rest,
     Pilot!Progress, Pilot!Works, Pilot!Still, Pilot!row, Pilot!amo
<1>a. m \notin mishap => \A g \in Handlers : Pilot!Works(g, m) => g = h
  BY <1>0, <1>w DEF Pilot!Alone
<1>d. m \notin mishap => m \notin due
  BY <1>c, <1>0, <1>w, <1>a DEF Pilot!Works, Rest, Pilot!Listed, Pilot!Config
<1> USE DEF Pilot!row, Pilot!amo, Pilot!Go, Pilot!Still
<1>1. CASE Pilot!ReadUser(h) \/ Pilot!Count(h) \/ Pilot!ReadRole(h) \/ Pilot!Fail(h)
  <2>1. UNCHANGED <<restricted, pilotSaved, rights>>
    BY <1>1 DEF Pilot!ReadUser, Pilot!Count, Pilot!ReadRole, Pilot!Fail
  <2>2. Pilot!Progress'
    <3>1. CASE Pilot!ReadUser(h)
      BY <1>0, <1>w, <3>1 DEF Pilot!ReadUser, Rest, Pilot!Progress, Pilot!TypeOK
    <3>2. CASE Pilot!Count(h)
      BY <1>0, <1>w, <3>2 DEF Pilot!Count, Rest, Pilot!Progress, Pilot!TypeOK
    <3>3. CASE Pilot!ReadRole(h)
      <4>1. rights[PilotRole[m]] \in Pilot!Rights /\ rights[PilotRole[m]] # None
        BY <1>c, <1>0, <1>w DEF Pilot!TypeOK, Pilot!Config
      <4> QED BY <1>0, <1>w, <3>3, <4>1 DEF Pilot!ReadRole, Rest, Pilot!Progress, Pilot!TypeOK
    <3>4. CASE Pilot!Fail(h)
      BY <1>0, <1>w, <3>4 DEF Pilot!Fail, Rest, Pilot!Progress, Pilot!TypeOK
    <3> QED BY <1>1, <3>1, <3>2, <3>3, <3>4
  <2>3. Pilot!Listed' /\ Pilot!SnapshotsArePeoples'
    <3>1. \A g \in Handlers : pilotPc'[g] # "idle" => pilotPc[g] # "idle"
      BY <1>0, <1>w, <1>1 DEF Pilot!ReadUser, Pilot!Count, Pilot!ReadRole, Pilot!Fail,
                              Pilot!TypeOK
    <3> QED BY <1>c, <1>0, <1>w, <2>1, <3>1 DEF Rest, Pilot!Listed, Pilot!SnapshotsArePeoples,
                                                Pilot!Config
  <2>4. Pilot!NobodyIsLockedOut'
    <3>1. /\ \A g \in Handlers \ {h} : pilotPc'[g] = pilotPc[g] /\ kept'[g] = kept[g]
          /\ pilotPc[h] = "save" => m \in mishap'
      BY <1>0, <1>1 DEF Pilot!ReadUser, Pilot!Count, Pilot!ReadRole, Pilot!Fail, Pilot!TypeOK
    <3> QED BY <1>0, <1>w, <2>1, <3>1 DEF Rest, Pilot!NobodyIsLockedOut, Pilot!TypeOK
  <2> QED BY <2>2, <2>3, <2>4 DEF Rest
<1>2. CASE Pilot!Hide(h) \/ Pilot!Open(h)
  <2>1. /\ kept[h] \in Pilot!Rights /\ PilotRole[m] \in Roles
        /\ UNCHANGED <<restricted, pilotSaved, kept>>
    BY <1>c, <1>0, <1>w, <1>2 DEF Pilot!Hide, Pilot!Open, Rest, Pilot!Progress, Pilot!TypeOK,
                                  Pilot!Config
  <2>2. /\ Pilot!Hidden(kept[h]) \in Pilot!Rights /\ Pilot!Normalized(kept[h]) \in Pilot!Rights
        /\ Pilot!Hidden(kept[h]).by = "us" /\ Pilot!Normalized(kept[h]).by = kept[h].by
    BY <1>c, <2>1, Conversions DEF Pilot!Config
  <2>3. \A n \in Pilot!Pilots : n # m => rights'[PilotRole[n]] = rights[PilotRole[n]]
    BY <1>c, <1>0, <1>w, <1>2, <2>1 DEF Pilot!Hide, Pilot!Open, Pilot!TypeOK, Pilot!Config
  <2>4. m \notin mishap => kept[h].by = "people" /\ m \notin due
    BY <1>0, <1>2, <1>w, <1>d DEF Pilot!Hide, Pilot!Open, Rest, Pilot!Progress
  <2>5. \A g \in Handlers \ {h} : pilotPc'[g] = pilotPc[g] /\ (m \notin mishap' => ~Pilot!Works(g, m))
    BY <1>0, <1>2, <1>w, <1>a DEF Pilot!Hide, Pilot!Open, Pilot!TypeOK
  <2>6. CASE Pilot!Hide(h)
    <3>1. /\ pilotPc[h] = "hide" /\ rights'[PilotRole[m]].by = "us"
          /\ \/ pilotPc' = [pilotPc EXCEPT ![h] = "save"]
             \/ pilotPc' = [pilotPc EXCEPT ![h] = "idle"] /\ m \in mishap'
      BY <1>0, <2>1, <2>2, <2>6 DEF Pilot!Hide, Pilot!TypeOK
    <3>2. m \notin mishap => m \notin restricted
      BY <1>0, <1>w, <3>1 DEF Rest, Pilot!Progress
    <3>3. Pilot!Progress'
      BY <1>0, <1>w, <2>1, <2>3, <2>4, <2>5, <3>1, <3>2 DEF Rest, Pilot!Progress,
         Pilot!TypeOK, Pilot!Works
    <3>4. Pilot!Listed'
      BY <1>c, <1>0, <1>w, <2>1, <2>3, <2>4, <3>1 DEF Rest, Pilot!Listed, Pilot!TypeOK,
                                                      Pilot!Config
    <3>5. Pilot!NobodyIsLockedOut'
      <4> SUFFICES ASSUME NEW n \in Pilot!Pilots \ mishap', rights'[PilotRole[n]].by = "us"
                   PROVE  \/ n \in restricted' /\ pilotSaved'[n].by = "people"
                          \/ \E g \in Handlers : pilotPc'[g] = "save" /\ who'[g] = n
                                                /\ kept'[g].by = "people"
        BY DEF Pilot!NobodyIsLockedOut
      <4>1. CASE n = m
        BY <1>0, <1>w, <2>1, <2>4, <3>1, <4>1 DEF Pilot!TypeOK
      <4>2. CASE n # m
        BY <1>0, <1>w, <2>1, <2>3, <2>5, <3>1, <4>2 DEF Rest, Pilot!NobodyIsLockedOut,
                                                        Pilot!TypeOK
      <4> QED BY <4>1, <4>2
    <3> QED BY <1>0, <1>w, <2>1, <3>3, <3>4, <3>5 DEF Rest, Pilot!SnapshotsArePeoples
  <2>7. CASE Pilot!Open(h)
    <3>1. /\ pilotPc[h] = "open" /\ rights'[PilotRole[m]].by = kept[h].by /\ mishap' = mishap
          /\ \E p \in {"clear", "idle"} : pilotPc' = [pilotPc EXCEPT ![h] = p]
      BY <1>0, <2>1, <2>2, <2>7 DEF Pilot!Open, Pilot!TypeOK
    <3>2. Pilot!Progress'
      BY <1>0, <1>w, <2>1, <2>3, <2>4, <2>5, <3>1 DEF Rest, Pilot!Progress, Pilot!TypeOK,
                                                      Pilot!Works
    <3>3. Pilot!Listed'
      BY <1>c, <1>0, <1>w, <2>1, <2>3, <2>4, <3>1 DEF Rest, Pilot!Listed, Pilot!TypeOK,
                                                      Pilot!Config
    <3>4. Pilot!NobodyIsLockedOut'
      BY <1>0, <1>w, <2>1, <2>3, <2>4, <2>5, <3>1 DEF Rest, Pilot!NobodyIsLockedOut,
                                                      Pilot!TypeOK
    <3> QED BY <1>0, <2>1, <3>1, <3>2, <3>3, <3>4 DEF Rest, Pilot!SnapshotsArePeoples
  <2> QED BY <1>2, <2>6, <2>7
<1>3. CASE Pilot!Save(h) \/ Pilot!Clear(h)
  <2>1. /\ kept[h] # None /\ UNCHANGED <<rights, kept, mishap>>
        /\ pilotPc[h] \in {"save", "clear"} /\ pilotPc' = [pilotPc EXCEPT ![h] = "idle"]
    BY <1>0, <1>3 DEF Pilot!Save, Pilot!Clear, Rest, Pilot!Progress
  <2>2. /\ \A n \in Managers \ {m} : n \in restricted' <=> n \in restricted
        /\ \A n \in Managers \ {m} : pilotSaved'[n] = pilotSaved[n]
    BY <1>0, <1>3 DEF Pilot!Save, Pilot!Clear, Pilot!TypeOK
  <2>3. \A g \in Handlers \ {h} : pilotPc'[g] = pilotPc[g] /\ (m \notin mishap' => ~Pilot!Works(g, m))
    BY <1>0, <1>w, <1>a, <2>1 DEF Pilot!TypeOK
  <2>4. m \notin mishap => m \notin due /\ kept[h].by = "people"
    BY <1>0, <1>w, <1>d, <2>1 DEF Rest, Pilot!Progress
  <2>5. /\ Pilot!Save(h) => pilotSaved'[m] = kept[h] /\ m \in restricted'
        /\ Pilot!Clear(h) => pilotSaved'[m] = None /\ pilotPc[h] = "clear"
    BY <1>c, <1>0, <1>w DEF Pilot!Save, Pilot!Clear, Pilot!TypeOK, Pilot!Config
  <2>6. Pilot!Pilots \subseteq Managers
    BY <1>c DEF Pilot!Config
  <2>7. Pilot!Progress'
    BY <1>0, <1>w, <2>1, <2>2, <2>3, <2>6 DEF Rest, Pilot!Progress, Pilot!TypeOK, Pilot!Works
  <2>8. Pilot!Listed'
    BY <1>c, <1>0, <1>w, <2>1, <2>2, <2>4, <2>6 DEF Rest, Pilot!Listed, Pilot!TypeOK,
                                                    Pilot!Config
  <2>9. Pilot!SnapshotsArePeoples'
    BY <1>0, <1>w, <1>3, <2>1, <2>2, <2>4, <2>5, <2>6 DEF Rest, Pilot!SnapshotsArePeoples
  <2>10. Pilot!NobodyIsLockedOut'
    <3> SUFFICES ASSUME NEW n \in Pilot!Pilots \ mishap, rights[PilotRole[n]].by = "us"
                 PROVE  \/ n \in restricted' /\ pilotSaved'[n].by = "people"
                        \/ \E g \in Handlers : pilotPc'[g] = "save" /\ who'[g] = n
                                              /\ kept'[g].by = "people"
      BY <2>1 DEF Pilot!NobodyIsLockedOut
    <3>1. CASE n # m
      BY <1>0, <1>w, <2>1, <2>2, <2>3, <2>6, <3>1 DEF Rest, Pilot!NobodyIsLockedOut,
                                                      Pilot!TypeOK
    <3>2. CASE n = m /\ Pilot!Save(h)
      BY <2>4, <2>5, <3>2
    <3>3. CASE n = m /\ Pilot!Clear(h)
      BY <1>0, <1>w, <2>5, <3>3 DEF Rest, Pilot!Progress
    <3> QED BY <1>3, <3>1, <3>2, <3>3
  <2> QED BY <2>7, <2>8, <2>9, <2>10 DEF Rest
<1> QED BY <1>1, <1>2, <1>3 DEF Pilot!Restrict, Pilot!Restore

\* Crashes, the synchronisation, the managers and people in amoCRM hide nothing.
LEMMA PilotOutsideStep ==
  ASSUME Pilot!Config, PilotIInv, Pilot!Crash \/ Pilot!Environment \/ UNCHANGED Pilot!vars
  PROVE  Rest'
<1>0. Pilot!TypeOK /\ Rest
  BY DEF PilotIInv, Rest
<1>c. Pilot!Config
  OBVIOUS
<1> USE DEF Pilot!row, Pilot!amo, Pilot!Go, Pilot!Still
<1>1. CASE Pilot!Crash
  <2>1. /\ UNCHANGED <<restricted, pilotSaved, rights, who, kept>> /\ mishap \subseteq mishap'
        /\ due' = {} /\ \A h \in Handlers : pilotPc'[h] = "idle"
        /\ \A h \in Handlers : pilotPc[h] = "save" /\ who[h] \in Managers => who[h] \in mishap'
    BY <1>1 DEF Pilot!Crash
  <2> QED BY <1>c, <1>0, <2>1 DEF Rest, Pilot!Progress, Pilot!Listed, Pilot!NobodyIsLockedOut,
                                  Pilot!SnapshotsArePeoples,
             Pilot!Config
<1>2. ASSUME NEW r \in Roles, NEW R \in Pilot!Rights, Pilot!EditRights(r, R) PROVE Rest'
  <2>1. /\ UNCHANGED <<restricted, pilotSaved, due, pilotPc, who, kept, mishap>>
        /\ \A q \in Roles : rights'[q] = rights[q] \/ rights'[q].by = "people"
    BY <1>0, <1>2 DEF Pilot!EditRights, Pilot!TypeOK
  <2>2. \A n \in Pilot!Pilots : PilotRole[n] \in Roles
    BY <1>c DEF Pilot!Config
  <2>3. Pilot!Progress' /\ Pilot!SnapshotsArePeoples'
    BY <1>0, <2>1, <2>2 DEF Rest, Pilot!Progress, Pilot!SnapshotsArePeoples
  <2>4. Pilot!Listed'
    BY <1>0, <2>1, <2>2 DEF Rest, Pilot!Listed, Pilot!TypeOK
  <2>5. Pilot!NobodyIsLockedOut'
    BY <1>0, <2>1, <2>2 DEF Rest, Pilot!NobodyIsLockedOut
  <2> QED BY <2>3, <2>4, <2>5 DEF Rest
<1>3. CASE UNCHANGED <<restricted, pilotSaved, rights, due, pilotPc, who, kept, mishap>>
  BY <1>0, <1>3 DEF Rest, Pilot!Progress, Pilot!Listed, Pilot!NobodyIsLockedOut,
                    Pilot!SnapshotsArePeoples
<1> QED BY <1>1, <1>2, <1>3 DEF Pilot!Environment, Pilot!Midnight, Pilot!ApplyConfig,
                                Pilot!SyncListed, Pilot!SyncGone, Pilot!Message,
            Pilot!Reassign, Pilot!vars

\* The whole is an invariant.
LEMMA Inductive == ASSUME Pilot!Config PROVE Pilot!Spec => []PilotIInv
<1>c. Pilot!Config
  OBVIOUS
<1>1. Pilot!Init => PilotIInv
  BY <1>c, PilotInitHolds
<1>2. PilotIInv /\ [Pilot!Next]_(Pilot!vars) => PilotIInv'
  <2> SUFFICES ASSUME PilotIInv, [Pilot!Next]_(Pilot!vars) PROVE PilotIInv'
    OBVIOUS
  <2>1. Rest'
    BY <1>c, StartStep, WorkStep, PilotOutsideStep DEF Pilot!Next
  <2> QED BY <1>c, <2>1, TypeStep, AloneStep DEF PilotIInv, Rest
<1> QED BY <1>1, <1>2, PTL DEF Pilot!Spec

\* runDisciplineCheck, restrictAmoRoleNewLeadAccess: only an overlap, a crash or a lost answer
\* locks a manager out, his role hiding stages while his row has nothing to give back.
THEOREM LockoutNeedsAMishap == ASSUME Pilot!Config PROVE Pilot!Spec => []Pilot!NobodyIsLockedOut
<1>1. PilotIInv => Pilot!NobodyIsLockedOut
  BY DEF PilotIInv
<1> QED BY <1>1, Inductive, PTL

\* maybeRestorePilotManagerAccess: a restricted row always has a snapshot, and without a
\* mishap it holds what people had set.
THEOREM SnapshotIsThere ==
  ASSUME Pilot!Config PROVE Pilot!Spec => [](Pilot!RestrictedHasSaved /\ Pilot!SnapshotsArePeoples)
<1>1. PilotIInv => Pilot!RestrictedHasSaved /\ Pilot!SnapshotsArePeoples
  BY DEF PilotIInv
<1> QED BY <1>1, Inductive, PTL

\* maybeRestorePilotManagerAccess, test_restore: the row forgets the restriction only when
\* amoCRM has the people's rights again.
THEOREM RestoredBeforeForgotten == ASSUME Pilot!Config PROVE Pilot!Spec => Pilot!ForgottenWhenOpen
<1>c. Pilot!Config
  OBVIOUS
<1>1. PilotIInv /\ [Pilot!Next]_(Pilot!vars) =>
        [\A m \in Pilot!Pilots \ mishap :
           m \in restricted /\ m \notin restricted' => rights'[PilotRole[m]].by = "people"]_(Pilot!vars)
  <2> SUFFICES ASSUME PilotIInv, [Pilot!Next]_(Pilot!vars), NEW m \in Pilot!Pilots \ mishap,
                      m \in restricted, m \notin restricted'
               PROVE  rights'[PilotRole[m]].by = "people"
    OBVIOUS
  <2>1. PICK h \in Handlers : Pilot!Clear(h)
    BY DEF Pilot!Next, Pilot!List, Pilot!Crash, Pilot!Environment, Pilot!Midnight,
           Pilot!ApplyConfig, Pilot!SyncListed, Pilot!SyncGone, Pilot!Message,
       Pilot!Reassign, Pilot!EditRights, Pilot!Restrict, Pilot!Restore, Pilot!Fail,
       Pilot!ReadUser, Pilot!ReadRole, Pilot!Hide, Pilot!Save, Pilot!Count, Pilot!Open,
       Pilot!Visit, Pilot!TestRestrict, Pilot!ReadRow, Pilot!TestRestore, Pilot!vars,
       Pilot!row, Pilot!amo
  <2>2. who[h] = m /\ pilotPc[h] = "clear" /\ rights' = rights
    BY <2>1 DEF Pilot!Clear, Pilot!amo
  <2> QED BY <2>2 DEF PilotIInv, Pilot!Progress
<1> QED BY <1>c, <1>1, Inductive, PTL DEF Pilot!Spec, Pilot!ForgottenWhenOpen
=============================================================================
