-------------------------- MODULE InactivityWorker ---------------------------
(***************************************************************************)
(* The lead inactivity worker: passes of runOnce and processClaim with the *)
(* move of leadInactivityAmoClient.ts inside, composed from the run lease, *)
(* the watch rows (WatchStore), a slot table (SlotTable) and the audit     *)
(* rows.  A step is one transaction, one statement or one amoCRM request;  *)
(* reads that the next statement checks again, and the ensuring of slots   *)
(* (idempotent while the limit stands), are joined to a neighbour.  The    *)
(* switch and the baseline gate of a pass are in MovementSwitch.  Around   *)
(* the passes: amoCRM (touches, managers moving leads, the PATCH), the     *)
(* webhook, the stop command, expiring leases, crashes, and a number of    *)
(* failed statements or requests.                                          *)
(* Which deadlines (dueAt, leaseExpiresAt of watches and slots) have passed *)
(* is decided by the statement that compares them with the time.  Managers *)
(* move leads at will, so a read finds a lead on any stage: "source" (one  *)
(* of the allowed source stages), "target" or "other".                     *)
(*                                                                         *)
(* A pass runs once, and claims a lead at most once, so its token is the   *)
(* pass and the auditId of a claim is the pair <<pass, lead>>.  Mode picks *)
(* the capacity in use: the testing slots, the slots of one operational    *)
(* day (DailySlots has the change of day), or none.                        *)
(***************************************************************************)
EXTENDS WatchStore, SlotTable

CONSTANTS Passes, Leads,
          NoPass,       \* nobody holds the run lease
          NoLead,       \* a pass between two claims
          Setups        \* what the program may be started with

\* A setup is the mode, the leads under watch, the slots of the table in use,
\* and two bounds for TLC: the touches of a lead, and the failed statements
\* and requests.
ASSUME PassAssumption == NoPass \notin Passes /\ NoToken \notin Passes
ASSUME SetupAssumption ==
  Setups \subseteq [mode : {"testing", "capped", "uncapped"}, leads : SUBSET Leads,
                    limit : Nat, touches : Nat \ {0}, faults : Nat]

VARIABLES setup,    \* the setup in force
          run,      \* the run lease: [holder, lapsed]
          watch,    \* lead -> row of the watch ledger
          table,    \* the slot table in use
          audit,    \* auditId -> state of the LeadInactivityMoveAudit row
          job,      \* pass -> the locals of runOnce and processClaim
          told,     \* lead -> touches the webhook has recorded
          took,     \* auditIds whose PATCH took effect
          verdict,  \* auditId -> what moveLeadToTarget returned
          faults    \* failures so far

ledger == <<run, watch, table, audit>>
crm == <<told, took, verdict>>
vars == <<setup, ledger, job, crm, faults>>

Mode == setup.mode
MaxTouch == setup.touches

Stages == {"source", "target", "other"}
AuditIds == Passes \X Leads
NoJob == [pc |-> "ready", todo |-> {}, lead |-> NoLead, gen |-> 0, at |-> 0,
          slot |-> 0, out |-> "none", slotDone |-> FALSE, watchDone |-> FALSE,
          safe |-> TRUE, stop |-> FALSE, old |-> {}]

Init ==
  /\ setup \in Setups
  /\ run = [holder |-> NoPass, lapsed |-> FALSE]
  /\ watch = [l \in setup.leads |->
                [NewWatch([fp |-> <<"hook", 1>>, at |-> 1, recv |-> 1]) EXCEPT !.due = TRUE]]
  /\ table = [n \in 1..setup.limit |-> AbsentSlot]
  /\ audit = [a \in AuditIds |-> "none"]
  /\ job = [p \in Passes |-> NoJob]
  /\ told = [l \in setup.leads |-> {1}]
  /\ took = {}
  /\ verdict = [a \in AuditIds |-> "none"]
  /\ faults = 0

At(p, pc) == job[p].pc = pc
Goto(p, pc) == job' = [job EXCEPT ![p].pc = pc]
Lead(p) == job[p].lead
AuditId(p) == <<p, job[p].lead>>
ClaimOf(p) == [token |-> p, gen |-> job[p].gen]

\* One more statement or request fails.
Fault == faults < setup.faults /\ faults' = faults + 1

-----------------------------------------------------------------------------
(* runOnce, up to the claims.                                              *)

\* Testing reckons with the time a pass began: its slots lapse ten minutes after
\* that (DEFAULT_TEST_SLOT_LEASE_MS), its run lease not before fifteen.  So to a
\* pass that begins now, a pass that lost its run lease is old, and so is any
\* that is old to another pass; one that ended in time is old or not.
Old(p) ==
  LET begun == {q \in Passes \ {p} : ~At(q, "ready")}
      lost == {q \in begun : ~At(q, "done") \/ (q = run.holder /\ run.lapsed)}
      known == UNION {job[q].old : q \in Passes}
  IN IF Mode = "testing" THEN {lost \cup known \cup x : x \in SUBSET begun} ELSE {{}}

\* tryAcquireWorkerRunLease (WorkerRunLease has its compare-and-set)
Acquire(p) ==
  /\ At(p, "ready")
  /\ run.holder = NoPass \/ run.lapsed
  /\ run' = [holder |-> p, lapsed |-> FALSE]
  /\ \E old \in Old(p) :
       job' = [job EXCEPT ![p].pc = "starting", ![p].old = old]
  /\ UNCHANGED <<watch, table, audit, crm, faults>>

\* releaseExpiredWatchLeases
ReleaseExpired(p) ==
  /\ At(p, "starting")
  /\ \E L \in SUBSET {l \in setup.leads : watch[l].state \in ClaimStates} :
       watch' = [l \in setup.leads |-> IF l \in L THEN ReleaseLease(watch[l]) ELSE watch[l]]
  /\ Goto(p, "listing")
  /\ UNCHANGED <<run, table, audit, crm, faults>>

\* The slots are ensured, a full day ends the pass, the due leads are listed.
ListDue(p) ==
  /\ At(p, "listing")
  /\ table' = IF Mode = "uncapped" THEN table ELSE Ensure(table, setup.limit)
  /\ IF Mode = "capped" /\ FreeNumbers(table') = {}
     THEN /\ Goto(p, "ending")
          /\ UNCHANGED watch
     ELSE \E D \in SUBSET {l \in setup.leads : ~watch[l].due} :
            /\ watch' = [l \in setup.leads |-> [watch[l] EXCEPT !.due = @ \/ l \in D]]
            /\ job' = [job EXCEPT ![p].pc = "claiming",
                                  ![p].todo = {l \in setup.leads : Claimable(watch'[l])}]
  /\ UNCHANGED <<run, audit, crm, faults>>

\* The ownership test of claimDueWatchForWorkerRun and renewWorkerRunLease
HoldsRun(p) == run.holder = p /\ ~run.lapsed

\* claimDueWatchForWorkerRun
ClaimNext(p) ==
  /\ At(p, "claiming")
  /\ \E l \in job[p].todo :
       IF HoldsRun(p) /\ Claimable(watch[l])
       THEN /\ watch' = [watch EXCEPT ![l] = Claim(@, p)]
            /\ job' = [job EXCEPT ![p].pc = "claimed", ![p].todo = @ \ {l},
                                  ![p].lead = l, ![p].gen = watch'[l].gen,
                                  ![p].at = watch[l].at]
       ELSE /\ job' = [job EXCEPT ![p].todo = @ \ {l}]
            /\ UNCHANGED watch
  /\ UNCHANGED <<run, table, audit, crm, faults>>

\* The finally block: releaseWorkerRunLease.
EndPass(p) ==
  /\ At(p, "ending") \/ (At(p, "claiming") /\ job[p].todo = {})
  /\ run' = IF run.holder = p THEN [holder |-> NoPass, lapsed |-> FALSE] ELSE run
  /\ job' = [job EXCEPT ![p] = [NoJob EXCEPT !.pc = "done", !.old = job[p].old]]
  /\ UNCHANGED <<watch, table, audit, crm, faults>>

-----------------------------------------------------------------------------
(* processClaim, up to the move.  Outcomes that end it lead to settlement:  *)
(* first the slot, then the watch, then the audit row.                      *)

Settles == [confirmed     |-> [slot |-> "confirm", watch |-> "moved", audit |-> "confirmed"],
            uncertain     |-> [slot |-> "mark", watch |-> "uncertain", audit |-> "uncertain"],
            no_capacity   |-> [slot |-> "release", watch |-> "watching", audit |-> "skipped"],
            rejected      |-> [slot |-> "release", watch |-> "skipped", audit |-> "skipped"],
            out_of_source |-> [slot |-> "release", watch |-> "outside_scope", audit |-> "skipped"],
            superseded    |-> [slot |-> "release", watch |-> "none", audit |-> "skipped"]]

\* The step of the settlement that comes after "slot" or "watch".
AfterSlot(out) == IF Settles[out].watch = "none" THEN "audit" ELSE "watch"

End(p, out) ==
  job' = [job EXCEPT ![p].out = out,
                     ![p].pc = IF job[p].slot # 0 THEN "slot" ELSE AfterSlot(out)]

\* createMoveAudit and readLead; isFreshLeadCompatible
ReadFresh(p) ==
  /\ At(p, "claimed")
  /\ audit' = [audit EXCEPT ![AuditId(p)] = "reserved"]
  /\ \E stage \in Stages :
       IF stage = "source" THEN Goto(p, "history") ELSE End(p, "out_of_source")
  /\ UNCHANGED <<run, watch, table, crm, faults>>

\* readLeadHistory; hasNewerDirectLeadHistory: a newer touch or none
ReadHistory(p) ==
  /\ At(p, "history")
  /\ \/ Goto(p, "checking")
     \/ job[p].at < MaxTouch /\ Goto(p, "recording")
  /\ UNCHANGED <<ledger, crm, faults>>

\* The newer touch of the history is recorded, before any webhook tells of it.
RecordHistory(p) ==
  /\ At(p, "recording")
  /\ \E n \in (job[p].at + 1)..MaxTouch :
       watch' = [watch EXCEPT ![Lead(p)] =
                   RecordEvent(@, [fp |-> <<"history", n>>, at |-> n, recv |-> 1])]
  /\ End(p, "superseded")
  /\ UNCHANGED <<run, table, audit, crm, faults>>

\* isWatchClaimCurrent
CheckClaim(p) ==
  /\ At(p, "checking")
  /\ IF IsClaimCurrent(watch[Lead(p)], ClaimOf(p))
     THEN Goto(p, IF Mode = "testing" THEN "testing" ELSE "beginning")
     ELSE End(p, "superseded")
  /\ UNCHANGED <<ledger, crm, faults>>

\* markExpiredTestSlotLeasesUncertain, by the time the pass began
MarkOld(p) ==
  MarkExpired([n \in DOMAIN table |->
    [table[n] EXCEPT !.lapsed = table[n].state = "reserved" /\ table[n].audit[1] \in job[p].old]])

\* A bug: testing goes on beside an unresolved move.
ReserveTestSlot_IgnoresUncertain(p) ==
  LET t == MarkOld(p) IN
  /\ At(p, "testing")
  /\ IF FreeNumbers(t) = {}
     THEN /\ table' = t
          /\ End(p, "no_capacity")
     ELSE /\ table' = Reserve(t, LowestFree(t), AuditId(p))
          /\ job' = [job EXCEPT ![p].pc = "beginning", ![p].slot = LowestFree(t)]
  /\ UNCHANGED <<run, watch, audit, crm, faults>>

\* reserveTestSlot: one uncertain slot stops the testing.
ReserveTestSlot(p) ==
  LET t == MarkOld(p) IN
  /\ At(p, "testing")
  /\ IF FreeNumbers(t) = {} \/ \E n \in DOMAIN t : t[n].state = "uncertain"
     THEN /\ table' = t
          /\ End(p, "no_capacity")
     ELSE /\ table' = Reserve(t, LowestFree(t), AuditId(p))
          /\ job' = [job EXCEPT ![p].pc = "beginning", ![p].slot = LowestFree(t)]
  /\ UNCHANGED <<run, watch, audit, crm, faults>>

BeginMoveMutation(p) ==
  /\ At(p, "beginning")
  /\ IF IsClaimCurrent(watch[Lead(p)], ClaimOf(p))
     THEN /\ watch' = [watch EXCEPT ![Lead(p)] = BeginMove(@)]
          /\ Goto(p, "refreshing")
     ELSE /\ End(p, "superseded")
          /\ UNCHANGED watch
  /\ UNCHANGED <<run, table, audit, crm, faults>>

-----------------------------------------------------------------------------
(* moveLeadToTarget.  Its first read and fence are those of Refresh done    *)
(* earlier, with the same exits; only Refresh is modelled.                  *)

\* A bug: a fence that checks the watch and not the run lease.
MoveFence_WatchOnly(p) == IsMoveCurrent(watch[Lead(p)], ClaimOf(p))

\* The isMoveMutationCurrent hook
MoveFence(p) == HoldsRun(p) /\ IsMoveCurrent(watch[Lead(p)], ClaimOf(p))

Return(p, out, v) ==
  /\ End(p, out)
  /\ verdict' = [verdict EXCEPT ![AuditId(p)] = v]
  /\ UNCHANGED <<told, took>>

\* refreshSourceStageBeforePatch: the fence and the read of the source stage
Refresh(p) ==
  /\ At(p, "refreshing")
  /\ IF ~MoveFence(p) THEN Return(p, "superseded", "not_moved")
     ELSE \E stage \in Stages :
            IF stage # "source" THEN Return(p, "out_of_source", "not_moved")
            ELSE /\ Goto(p, IF Mode = "capped" THEN "reserving" ELSE "fencing")
                 /\ UNCHANGED crm
  /\ UNCHANGED <<ledger, faults>>

\* markExpiredDailyMovementSlotLeasesUncertain: any reservation may have expired.
MarkSome ==
  LET reserved == {n \in DOMAIN table : table[n].state = "reserved"}
  IN {MarkExpired([n \in DOMAIN table |-> [table[n] EXCEPT !.lapsed = n \in E]]) :
        E \in SUBSET reserved}

\* beforeFinalPatch: reserveDailyMovementSlot
ReserveDailySlot(p) ==
  /\ At(p, "reserving")
  /\ \E t \in MarkSome :
       IF FreeNumbers(t) = {}
       THEN /\ table' = t
            /\ Return(p, "no_capacity", "not_moved")
       ELSE /\ table' = Reserve(t, LowestFree(t), AuditId(p))
            /\ job' = [job EXCEPT ![p].pc = "fencing", ![p].slot = LowestFree(t)]
            /\ UNCHANGED crm
  /\ UNCHANGED <<run, watch, audit, faults>>

\* The fences after the reservation and before the dispatch; beforePatchSend
\* refuses when the operational day changed meanwhile.
LastFence(p) ==
  /\ At(p, "fencing")
  /\ \/ MoveFence(p) /\ Goto(p, "dispatching") /\ UNCHANGED crm
     \/ ~MoveFence(p) /\ Return(p, "superseded", "not_moved")
     \/ Mode = "capped" /\ Return(p, "no_capacity", "not_moved")
  /\ UNCHANGED <<ledger, faults>>

\* The PATCH: accepted; refused (4xx); or its fate unknown (a timeout, 408,
\* 409, 5xx), and then it took effect or not.
Dispatch(p) ==
  /\ At(p, "dispatching")
  /\ \/ /\ took' = took \cup {AuditId(p)}
        /\ Goto(p, "reading_back")
        /\ UNCHANGED <<told, verdict>>
     \/ /\ End(p, "rejected")
        /\ verdict' = [verdict EXCEPT ![AuditId(p)] = "not_moved"]
        /\ UNCHANGED <<told, took>>
     \/ /\ \E t \in {took, took \cup {AuditId(p)}} : took' = t
        /\ End(p, "uncertain")
        /\ verdict' = [verdict EXCEPT ![AuditId(p)] = "uncertain"]
        /\ UNCHANGED told
  /\ UNCHANGED <<ledger, faults>>

ReadBack(p) ==
  /\ At(p, "reading_back")
  /\ \E stage \in Stages :
       CASE stage = "target" -> Return(p, "confirmed", "confirmed")
         [] stage = "source" -> Return(p, "rejected", "not_moved")
         [] stage = "other"  -> Return(p, "uncertain", "uncertain")
  /\ UNCHANGED <<ledger, faults>>

\* A hook that throws inside makeRequest has no HTTP status, so the client
\* reports an uncertain outcome although no PATCH was sent; so does a
\* read-back that fails.  A failed read of the source stage is a rejection.
MoveFault(p) ==
  /\ job[p].pc \in {"refreshing", "reserving", "fencing", "reading_back"}
  /\ Fault
  /\ \/ Return(p, "uncertain", "uncertain")
     \/ At(p, "refreshing") /\ Return(p, "rejected", "not_moved")
  /\ UNCHANGED ledger

-----------------------------------------------------------------------------
(* The settlement.                                                         *)

SlotIsMine(p) == IsReservedBy(table, job[p].slot, AuditId(p))

\* A bug: confirmation writes the state of the watch into the slot.
Settled_WatchState(t, n, op) == [t EXCEPT ![n].state = "moved"]

Settled(t, n, op) ==
  CASE op = "confirm" -> Confirm(t, n)
    [] op = "mark"    -> MarkUncertain(t, n)
    [] op = "release" -> Release(t, n)

SettleSlot(p) ==
  /\ At(p, "slot")
  /\ SlotIsMine(p)
  /\ table' = Settled(table, job[p].slot, Settles[job[p].out].slot)
  /\ job' = [job EXCEPT ![p].pc = AfterSlot(job[p].out),
                        ![p].slotDone = job[p].out = "confirmed"]
  /\ UNCHANGED <<run, watch, audit, crm, faults>>

\* finishWatchClaim
SettleWatch(p) ==
  /\ At(p, "watch")
  /\ IsFinishable(watch[Lead(p)], ClaimOf(p))
  /\ watch' = [watch EXCEPT ![Lead(p)] = Finish(@, Settles[job[p].out].watch)]
  /\ job' = [job EXCEPT ![p].pc = "audit", ![p].watchDone = TRUE]
  /\ UNCHANGED <<run, table, audit, crm, faults>>

\* completeMoveAudit
SettleAudit(p) ==
  /\ At(p, "audit")
  /\ audit' = [audit EXCEPT ![AuditId(p)] = Settles[job[p].out].audit]
  /\ job' = [job EXCEPT ![p].pc = "next", ![p].stop = job[p].out = "uncertain"]
  /\ UNCHANGED <<run, watch, table, crm, faults>>

-----------------------------------------------------------------------------
(* The catch block of processClaim.                                        *)

IsConfirmed(p) == job[p].out = "confirmed"

\* A confirmed move that is not in the ledger must not be retried.
Thrown(p) ==
  job' = [job EXCEPT
    ![p].pc = IF job[p].slot # 0 /\ ~job[p].slotDone THEN "catch_slot"
              ELSE IF ~job[p].watchDone THEN "catch_watch" ELSE "catch_audit",
    ![p].safe = ~(IsConfirmed(p) /\ ~job[p].watchDone)]

ThrowSteps == {"claimed", "history", "recording", "checking", "testing",
                "beginning", "refreshing", "slot", "watch", "audit"}

\* A statement or request outside the client's own catch fails.
StepThrows(p) ==
  /\ job[p].pc \in ThrowSteps
  /\ Fault
  /\ Thrown(p)
  /\ UNCHANGED <<ledger, crm>>

\* The slot or the watch no longer matches: the store throws.
MatchThrows(p) ==
  /\ \/ At(p, "slot") /\ ~SlotIsMine(p)
     \/ At(p, "watch") /\ ~IsFinishable(watch[Lead(p)], ClaimOf(p))
  /\ Thrown(p)
  /\ UNCHANGED <<ledger, crm, faults>>

AfterCatchSlot(p, safe) ==
  job' = [job EXCEPT ![p].pc = IF job[p].watchDone THEN "catch_audit" ELSE "catch_watch",
                     ![p].safe = safe]

\* A bug: the slot of a confirmed move is released like any other.
CatchSlot_ReleasesConfirmed(p) ==
  /\ At(p, "catch_slot")
  /\ \/ /\ SlotIsMine(p)
        /\ table' = Release(table, job[p].slot)
        /\ AfterCatchSlot(p, job[p].safe)
        /\ UNCHANGED faults
     \/ /\ ~SlotIsMine(p)
        /\ UNCHANGED <<table, faults>>
        /\ AfterCatchSlot(p, FALSE)
  /\ UNCHANGED <<run, watch, audit, crm>>

\* A bug: a release that fails is ignored and the lead queued again.
CatchSlot_IgnoresFailure(p) ==
  /\ At(p, "catch_slot")
  /\ \/ /\ SlotIsMine(p)
        /\ table' = IF IsConfirmed(p) THEN MarkUncertain(table, job[p].slot)
                                      ELSE Release(table, job[p].slot)
        /\ UNCHANGED faults
     \/ Fault /\ UNCHANGED table
     \/ ~SlotIsMine(p) /\ UNCHANGED <<table, faults>>
  /\ AfterCatchSlot(p, job[p].safe)
  /\ UNCHANGED <<run, watch, audit, crm>>

\* Without a confirmation the slot is released; when that fails, and after a
\* confirmation, it is marked uncertain, or left reserved if that fails too.
CatchSlot(p) ==
  /\ At(p, "catch_slot")
  /\ \/ /\ SlotIsMine(p)
        /\ ~IsConfirmed(p)
        /\ table' = Release(table, job[p].slot)
        /\ AfterCatchSlot(p, job[p].safe)
        /\ UNCHANGED faults
     \/ /\ SlotIsMine(p)
        /\ IF IsConfirmed(p) THEN UNCHANGED faults ELSE Fault
        /\ table' = MarkUncertain(table, job[p].slot)
        /\ AfterCatchSlot(p, FALSE)
     \/ /\ IF SlotIsMine(p) THEN Fault ELSE UNCHANGED faults
        /\ AfterCatchSlot(p, FALSE)
        /\ UNCHANGED table
  /\ UNCHANGED <<run, watch, audit, crm>>

\* A bug: a confirmed outcome alone makes the watch moved.
CatchWatch_TrustsOutcome(p) ==
  /\ At(p, "catch_watch")
  /\ IsFinishable(watch[Lead(p)], ClaimOf(p))
  /\ watch' = [watch EXCEPT ![Lead(p)] =
                 Finish(@, IF IsConfirmed(p) THEN "moved" ELSE "watching")]
  /\ Goto(p, "catch_audit")
  /\ UNCHANGED <<run, table, audit, crm, faults>>

\* The claim is finished if its fence still matches; otherwise, and when the
\* statement fails, the lease's expiry is left to end it.
CatchWatch(p) ==
  LET s == IF ~job[p].safe THEN "uncertain"
           ELSE IF job[p].slotDone THEN "moved" ELSE "watching"
  IN
  /\ At(p, "catch_watch")
  /\ \/ /\ IsFinishable(watch[Lead(p)], ClaimOf(p))
        /\ watch' = [watch EXCEPT ![Lead(p)] = Finish(@, s)]
        /\ UNCHANGED faults
     \/ /\ IF IsFinishable(watch[Lead(p)], ClaimOf(p)) THEN Fault ELSE UNCHANGED faults
        /\ UNCHANGED watch
  /\ Goto(p, "catch_audit")
  /\ UNCHANGED <<run, table, audit, crm>>

\* A bug: what could not be finished is recorded as failed.
CaughtAudit_UnfinishedFailed(p) ==
  IF job[p].watchDone THEN "confirmed" ELSE "failed"

CaughtAudit(p) ==
  CASE ~job[p].safe                  -> "uncertain"
    [] job[p].safe /\ IsConfirmed(p) -> "confirmed"
    [] OTHER                         -> "failed"

\* completeMoveAudit matches only a row that is still reserved.
CatchAudit(p) ==
  /\ At(p, "catch_audit")
  /\ \/ /\ audit' = IF audit[AuditId(p)] = "reserved"
                    THEN [audit EXCEPT ![AuditId(p)] = CaughtAudit(p)] ELSE audit
        /\ UNCHANGED faults
     \/ Fault /\ UNCHANGED audit
  /\ job' = [job EXCEPT ![p].pc = "next",
                        ![p].stop = ~job[p].safe /\ IsConfirmed(p) /\ Mode # "testing"]
  /\ UNCHANGED <<run, watch, table, crm>>

\* After a claim: an uncertain move or a full day ends the pass.
NextLead(p) ==
  /\ At(p, "next")
  /\ IF job[p].stop \/ (Mode = "capped" /\ FreeNumbers(table) = {})
     THEN Goto(p, "ending")
     ELSE job' = [job EXCEPT ![p] = [NoJob EXCEPT !.pc = "claiming", !.todo = job[p].todo,
                                            !.old = job[p].old]]
  /\ UNCHANGED <<ledger, crm, faults>>

\* A statement of runOnce itself fails: the finally block ends the pass.
PassThrows(p) ==
  /\ job[p].pc \in {"starting", "listing", "claiming", "next"}
  /\ Fault
  /\ Goto(p, "ending")
  /\ UNCHANGED <<ledger, crm>>

Crash(p) ==
  /\ job[p].pc \notin {"ready", "done"}
  /\ job' = [job EXCEPT ![p] = [NoJob EXCEPT !.pc = "done", !.old = job[p].old]]
  /\ UNCHANGED <<ledger, crm, faults>>

-----------------------------------------------------------------------------
(* The surroundings.                                                       *)

\* A webhook records a touch, received before, at or after a history read.
DeliverWebhook(l) ==
  /\ \E n \in (1..MaxTouch) \ told[l], r \in 0..2 :
       /\ told' = [told EXCEPT ![l] = @ \cup {n}]
       /\ watch' = [watch EXCEPT ![l] =
                      RecordEvent(@, [fp |-> <<"hook", n>>, at |-> n, recv |-> r])]
  /\ UNCHANGED <<run, table, audit, job, took, verdict, faults>>

\* The stop command clears the queue.
ClearActiveWatches ==
  /\ watch' = [l \in setup.leads |-> StopClear(watch[l])]
  /\ UNCHANGED <<run, table, audit, job, crm, faults>>

\* The run lease outlasts the last limiter wait and the PATCH: 15 minutes,
\* renewed by the last fence, against a 10-second request timeout.
RunLeaseLapses ==
  /\ run.holder # NoPass /\ ~run.lapsed
  /\ ~At(run.holder, "dispatching")
  /\ run' = [run EXCEPT !.lapsed = TRUE]
  /\ UNCHANGED <<watch, table, audit, job, crm, faults>>

PassStep(p) ==
  \/ Acquire(p) \/ ReleaseExpired(p) \/ ListDue(p) \/ ClaimNext(p) \/ EndPass(p)
  \/ ReadFresh(p) \/ ReadHistory(p) \/ RecordHistory(p) \/ CheckClaim(p)
  \/ ReserveTestSlot(p) \/ BeginMoveMutation(p)
  \/ Refresh(p) \/ ReserveDailySlot(p) \/ LastFence(p) \/ Dispatch(p) \/ ReadBack(p)
  \/ SettleSlot(p) \/ SettleWatch(p) \/ SettleAudit(p)
  \/ CatchSlot(p) \/ CatchWatch(p) \/ CatchAudit(p) \/ NextLead(p)
  \/ MoveFault(p) \/ StepThrows(p) \/ MatchThrows(p) \/ PassThrows(p) \/ Crash(p)

Next ==
  /\ \/ \E p \in Passes : PassStep(p)
     \/ \E l \in setup.leads : DeliverWebhook(l)
     \/ ClearActiveWatches
     \/ RunLeaseLapses
  /\ UNCHANGED setup

Spec == Init /\ [][Next]_vars

-----------------------------------------------------------------------------
(* Properties.                                                             *)

Audits == {"none", "reserved", "confirmed", "skipped", "uncertain", "failed"}

Steps == ThrowSteps \cup
  {"ready", "starting", "listing", "claiming", "reserving", "fencing", "dispatching",
   "reading_back", "catch_slot", "catch_watch", "catch_audit", "next", "ending", "done"}

Fingerprints == {"hook", "history"} \X (1..MaxTouch)

Jobs == [pc : Steps, todo : SUBSET Leads, lead : Leads \cup {NoLead},
         gen : Nat, at : 0..MaxTouch, slot : 0..setup.limit,
         out : DOMAIN Settles \cup {"none"}, slotDone : BOOLEAN,
         watchDone : BOOLEAN, safe : BOOLEAN, stop : BOOLEAN, old : SUBSET Passes]

TypeOK ==
  /\ run \in [holder : Passes \cup {NoPass}, lapsed : BOOLEAN]
  /\ setup \in Setups
  /\ watch \in [setup.leads -> [state : WatchStates, at : 1..MaxTouch, recv : 0..2,
                          fp : Fingerprints, cycle : Nat, gen : Nat,
                          token : Passes \cup {NoToken}, due : BOOLEAN,
                          lapsed : BOOLEAN]]
  /\ table \in [1..setup.limit -> [state : SlotStates, audit : AuditIds \cup {NoAudit},
                             lapsed : BOOLEAN]]
  /\ audit \in [AuditIds -> Audits]
  /\ job \in [Passes -> Jobs]
  /\ told \in [setup.leads -> SUBSET (1..MaxTouch)]
  /\ took \subseteq AuditIds
  /\ verdict \in [AuditIds -> {"none", "confirmed", "uncertain", "not_moved"}]
  /\ faults \in 0..setup.faults

HoldsSlot(a) == \E n \in Spent(table) : table[n].audit = a

\* Never two PATCHes under way at once, in all replicas together: a pass that
\* lost the run lease while it read, waited or reserved finds out at its last
\* fence.
OnePatchInFlight ==
  \A p, q \in Passes : At(p, "dispatching") /\ At(q, "dispatching") => p = q

\* The slot of a confirmed move stays spent, through crashes, expired leases
\* and whatever statement of the settlement fails.
ConfirmedKeepsSlot ==
  Mode # "uncapped" => \A a \in took : verdict[a] = "confirmed" => HoldsSlot(a)

\* The same for every move that may have happened: the limit is a maximum of
\* confirmed or uncertain moves (leadInactivityDailyCap.ts,
\* DAILY_LEAD_INACTIVITY_MOVEMENT_LIMIT).
UncertainKeepsSlot ==
  Mode # "uncapped" => \A a \in took : verdict[a] # "not_moved" => HoldsSlot(a)

\* It holds while no statement and no request fails.
UncertainKeepsSlotUnfailing == faults = 0 => UncertainKeepsSlot

\* In testing, no PATCH goes out while the fate of a move that happened is open:
\* while nothing failed, every such move was confirmed, or denied by its
\* read-back, before the next PATCH; and whatever failed, none of them has an
\* uncertain slot.  The slot was reserved several awaits before the PATCH and
\* only then compared with the other slots.  (A failed markTestSlotUncertain lets
\* the catch block release the slot, as in UncertainKeepsSlot, and the next move
\* go on.)
UncertainStopsTesting ==
  Mode = "testing" =>
    \A p \in Passes : At(p, "dispatching") =>
      \A a \in took :
        /\ faults = 0 => verdict[a] \in {"confirmed", "not_moved"}
        /\ \A n \in DOMAIN table : table[n].audit = a => table[n].state # "uncertain"

\* A watch is marked moved only after the slot of a confirmed move of its lead
\* was confirmed too, so the reports and the cap tell of the same moves.
MovedIsReal ==
  \A l \in setup.leads : watch[l].state = "moved" =>
    \E p \in Passes :
      /\ verdict[<<p, l>>] = "confirmed"
      /\ Mode # "uncapped" =>
           \E n \in DOMAIN table : table[n].audit = <<p, l>> /\ table[n].state = "confirmed"

\* The audit trail never denies a confirmed move, and never claims one that
\* was not confirmed, whichever statement of the settlement failed.
AuditsTellTruth ==
  \A a \in AuditIds :
    /\ verdict[a] = "confirmed" => audit[a] \in {"reserved", "confirmed", "uncertain"}
    /\ audit[a] = "confirmed" => verdict[a] = "confirmed"

\* A pass that puts its own lead back into the queue has given its capacity
\* back, whichever statement failed: a retry never holds a second slot.
RequeuedWithoutSlot ==
  [][\A p \in Passes :
       (/\ job[p].pc \in {"watch", "catch_watch"}
        /\ job'[p].pc # job[p].pc
        /\ watch[Lead(p)].state \in ClaimStates
        /\ watch'[Lead(p)].state = "watching")
       => ~HoldsSlot(AuditId(p))]_vars
=============================================================================
