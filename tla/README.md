# ai-okk in TLA+

ai-okk is the back office of a sales department: it listens to amoCRM and to a
telephone exchange, transcribes and scores calls, proposes tasks and stage
changes, and moves leads that nobody touched for 72 hours to a "Phoenix"
pipeline. This directory holds TLA+ models of it, TLC configurations that check
them on small instances, and TLAPS proofs. Paths below are those of the
repository; `S/` is `src/services/`.

The models cover what writes to the CRM unattended: the lead inactivity subsystem
(watches, daily slots, worker, sweeps, baseline, switch), the automations that
follow a call (the queue and its worker, tasks, stage changes, new field options),
the discipline pilot that takes rights away from roles, and the request limiter they
share. All of it runs in several replicas over one PostgreSQL database, every
statement may fail, every process may die between two statements, and amoCRM offers
no conditional write. A wrong step moves a customer's deal, creates a task twice, or
leaves a person locked out.

## Inventory

| Part | State | Operations | Talks to | Hard behaviour | Right when | Status |
|---|---|---|---|---|---|---|
| Watch ledger `S/leadInactivityStore.ts`, `S/leadInactivityPrismaPersistence.ts` | event rows, one watch row per lead (activity position, state, lease token and generation) | record an event, claim, begin a move, finish, release expired leases | webhook, worker, switch | late, repeated and tied events; dead claimants; stale fences | the watch stands at the newest touch and a fence tells whether it was overtaken | modelled (`WatchLedger`), proved |
| Daily slots, same files, `S/leadInactivityDailyCap.ts`, `S/inactivitySweepRuntime.ts` | one table of numbered slots per operational day | ensure, reserve, confirm, release, mark uncertain, expire | worker, sweeps | crash while reserved, late or failed settlement, changed limit | at most the limit of moves, but for leaked slots | modelled (`DailySlots`), proved |
| Worker run lease | one settings row | acquire, renew, release | worker | read, judge, compare-and-set | one pass at a time, a minute apart | modelled (`WorkerRunLease`), proved |
| Worker `src/workers/leadInactivityWorker.ts` and move client `S/leadInactivityAmoClient.ts` | locals of a pass; audit rows | pass, claim, move, settle, catch | all of the above, amoCRM | awaits between check and PATCH, partial failure of the settlement | one PATCH at a time; slots, watches and audits tell of the same moves | modelled (`InactivityWorker`), proved |
| Movement switch `S/inactivityMovementSwitch.ts` | one settings row | stop, start, cap on, cap off | bot, webhook, worker | races with webhooks and passes | a stop stops | modelled (`MovementSwitch`), proved |
| Inactivity webhook `S/leadInactivityWebhook.ts` | none | read the flag, read the lead, record | ledger, amoCRM | flag read once per delivery | touches are recorded once, in any order | partly (`WatchLedger`, `MovementSwitch`) |
| Sweeps `S/inactivitySweep*.ts`, `S/inactivityNightlySweep.ts` | pending confirmations (one process), day row | list, confirm, move | slots, switch, amoCRM | no fences, double confirmation, midnight | a stop stops, no recently touched lead moves, a confirmation and a day are used once | modelled (`Sweeps`, `DailySlots`), proved |
| Global rate limiter `S/amoCrmRateLimiter.ts` | one settings row under database time | reserve, wait, recheck | every amoCRM call | stalled replicas | five requests a second, as long as a request leaves soon after its check | modelled (`RateLimiter`), proved |
| Production baseline and activation `S/leadInactivityProductionBaseline.ts`, `src/scripts/baseline*`, settings of the store | settings rows | begin, record, complete; the worker's gate | ledger, amoCRM | interruption, second run; sweeps that do not ask | the worker waits for a complete baseline | modelled (`Baseline`), proved |
| Webhook subscription | none | read, create | amoCRM | none | | not modelled |
| Call task automation `S/callTask*.ts`, `src/bot/handlers/callTaskReview.ts` | action row, test slots | analyse, approve, create task, create note | bot, amoCRM, AI | reclaimed analysis, crash in "creating", two reviewers | a task is created at most once | partly (`CallTask`, `CallTaskPromise`, `TestSlots`), proved |
| Call stage automation `S/callStage*.ts` | action row, test slots | analyse, route, fill fields, move, note | bot, amoCRM, AI, option registry | crash in "moving", fences, people at the same deal | a confirmed move has its note and record or is uncertain | partly (`StagePolicy`, `CallStage`, `TestSlots`), proved |
| Field options `S/amoFieldOptionRegistry.ts`, `S/amoOptionMatching.ts`, `src/scripts/rollbackAmoFieldOptions.ts` | snapshot and log of additions | match, add, roll back | amoCRM | PATCH of the whole list, people editing it | a rollback restores what people had | modelled for what it keeps (`FieldOptions`), proved |
| Call queue `src/workers/callProcessor.ts`, `src/queues`, `src/routes/onlinepbx.ts`, `S/pbxHistory.ts` | call rows, BullMQ jobs | enqueue, process, retry | exchange, AI, both automations | retry after partial work, two jobs of one call, stalled jobs | a call is processed to the end | partly (`CallQueue`), proved but for liveness |
| Discipline pilot `S/disciplineCheck.ts`, `S/amoRights.ts`, pilot part of `S/managerSync.ts` | restricted rows with a snapshot of the role's rights | check deadlines, restrict, restore, test commands | bot, amoCRM | handlers overlapping at every await, lost answers | nobody stays locked out, and people's rights come back | modelled (`Discipline`), proved |
| Telegram bot `src/bot` | Redis keys: pending input, dedup | dispatch, ask, answer, confirm | all | two replicas, double taps | an answer is used once | not modelled; handlers that change another part are in its module |
| Exchange client, call log, transcription, AI analysis, general amoCRM client | token and day caches | fetch, transcribe, ask, look up | queue, both automations | answers late, missing or wrong | callers take any answer | what callers see of them is in `CallQueue`, `CallTask`, `CallStage` |
| Manager synchronisation `S/managerSync.ts` | manager rows | upsert, deactivate | exchange, bot | one-time codes, flags written by others | who the exchange lists is active, and nobody else | pilot part only (`Discipline`) |
| Salary, revenue, plan, reports, sheets | report tables | compute, upsert | amoCRM, database | boundaries of periods | pure functions | not modelled |

The files of each part are listed in `PROJECT.json` (components), and so are the
hazards of the code at their lines, with the property that covers each or the
reason why none does yet.

## Modules

`WatchStore` and `SlotTable` are not state machines: they are the row operations
(what a statement matches and writes) that the state machines share, so that the
worker model and the ledger model cannot disagree about a row. `StagePolicy` holds
the pure routing rules that `CallStage` uses.

- **`WatchLedger`** (over `WatchStore`). State: the event log, the watches, the
  claims workers hold. An action is one store call, which is one statement or one
  Serializable transaction in the code. Events are distinct touches with a time
  and a time of receipt; `RecordLeadEvent` is `recordEvent` with its deduplication
  by fingerprint. Deadlines are flags (`due`, `lapsed`) raised by `BecomeDue` and
  `LeaseLapses`.
- **`SlotTable`, `MoveBudget`, `DailySlots`.** `DailySlots` has workers and sweeps
  that ensure, reserve, send and settle, each of which may crash, over days whose
  limit a redeploy may change. Ensuring is two steps (rows created, then free rows
  above the limit dropped), because the code runs it outside a transaction.
  `SettleSlot` is the settlement that succeeds, `CatchSettlement` the worker's catch
  block after one that failed: it releases the slot of an uncertain move, and a history
  variable, `leaked`, remembers the moves that lost their slot so.
  `MoveBudget` is what the table promises: shares of a daily budget, which come back
  when the lead did not move or as a leak that is on record. `BudgetSpec` states that
  `DailySlots` implements it with "the attempts that hold a slot" for `held`.
- **`WorkerRunLease`.** Each operation is a read of the row with a clock read up to
  `MaxDelay` earlier, and a compare-and-set of the whole value.
- **`InactivityWorker`.** A pass of `runOnce` with `processClaim` inside, one
  program counter per pass: acquire, release leases, list, claim, fresh read,
  history, fences, slots, PATCH, read-back, settlement of slot, watch and audit in
  the code's order, and the catch block. `Settles` is the table of what an outcome
  writes. Variables `told`, `took` and `verdict` are the outside world: touches
  delivered, PATCHes that took effect, and what the client reported.
- **`MovementSwitch`.** Commands are read, write, clear; a webhook reads the flag
  once and then records any number of touches; a pass reads it once and then claims.
- **`Sweeps`.** Sweeps of any number of replicas, each with its own tokens, over
  leads with a time of last touch. A sweep reads the switch and the history, then
  the clock may run before it moves the candidate. `sent` is what happened in
  amoCRM, each move with the stop and the history reading it relied on.
- **`Baseline`.** Runs of the script (activation boundary, marker, listing, events,
  completion marker) that overlap and die, the worker's gate in every mode the
  configuration allows, and the sweeps, which move historical leads in any state of the
  baseline. `moves` tells who moved a lead.
- **`RateLimiter`.** One settings row moved on by one interval per reservation, and
  callers that sleep, oversleep, check and reserve again. A caller that was let through
  (`Check`) sends its request (`Dispatch`) any time later.
- **`CallTask` and `CallTaskPromise`.** One call's action row from analysis to note.
  `Runs` are deliveries of the call, each an asynchronous chain that reads, asks the
  model, and writes under its lease token; `Reviewers` press approve or reject in
  Telegram at any time. amoCRM takes a task or not and answers or not. The due date
  is computed from what the model said (`ResolveDueAt`, hours of the Almaty day).
  `CallTaskPromise` is what the ledger is for: one task and then one note, or a
  refusal, each at most once; `OnceSpec` states that `CallTask` implements it.
- **`StagePolicy` and `CallStage`.** Several calls of several deals; a run goes
  through analysis lease, routing, history fence, slot, autofill of required fields,
  two reads with fences, the PATCH with its own fence, read-back, note and the
  transaction that confirms action and slot together (or fails, and leaves both
  uncertain). The autofill writes the fields that were missing when the route was read
  (`asked`), whatever people have filled since. People move the deal and fill
  its fields while a run is at work. The slots are those of the rollout fenced by
  the stage history.
- **`CallQueue`.** One call's row and audio file, and the jobs for it: deliveries of
  the exchange's webhook, the history job (one job id, so BullMQ drops a second one
  while the first is known), and an operator's `analyze_deal`. A job stops at each
  await; a statement may fail, the worker may die and the job be started again by
  the stalled-job check. `stray` names the four accidents after which the row may
  be stranded: without it `NothingIsStranded` would be false of the code.
- **`TestSlots`.** The test slots of both automations: rows admitted by a boundary,
  reservations that lapse, a second range of rows with a boundary of its own.
- **`FieldOptions`.** The option list of a field in amoCRM, which people edit, the
  automation extends by a PATCH of the whole list it read before, and a rollback
  script shortens. Option ids are never used twice: amoCRM's promise, stated in the
  module. `FullAnswers` says whether amoCRM always answers the read of one field with
  its list; an answer without `enums` is read as an empty one.
- **`Discipline`.** The managers' rows, the rights of roles in amoCRM, and the handlers
  that read and write both, one step per await. Every pilot has a role of his own. `mishap` is a history variable
  that remembers whether two handlers overlapped, a process died or an answer was lost.

`PROJECT.json` maps every definition to the lines it stands for.

### What the models leave out

- Eligibility (pipelines, stages, the 72-hour delay) is a choice: a lead is due or
  not, on a source stage, on the target, or elsewhere. The clock is abstracted to
  flags except in `WorkerRunLease`, whose durations matter.
- `WatchLedger` and `MovementSwitch` use the claimant itself for the lease token.
  The code draws a fresh UUID, which tells more claims apart.
- The store's transactions are atomic and their serialization failures are failed
  statements. A commit whose answer is lost is not modelled.
- Replicas read one clock; skew between them is not modelled.
- In `InactivityWorker` acquiring, renewing and releasing the run lease are single
  steps; `WorkerRunLease` justifies that. The first read and fence of
  `moveLeadToTarget` are merged with the ones it repeats before the PATCH. The
  paused and the baseline checks are in `MovementSwitch` and `Baseline`. Reads that
  the next statement checks again are joined to it.
- `InactivityWorker` states two facts about durations. The run lease (15 minutes)
  does not lapse between the last fence, which renews it, and the end of the PATCH
  (a 10-second timeout, after one more wait for a request slot): `RunLeaseLapses`
  has that guard, and `OnePatchInFlight` depends on it. A testing slot is leased for
  ten minutes from the time its pass began, and that pass keeps the run lease for at
  least fifteen: whoever takes the run lease over finds the slots of the pass that lost
  it expired (`Old`). Slots of a pass that ended in time may have expired or not, and so
  may any daily reservation, whose lease starts when it is made (`MarkSome`).
- What a model of language answers is a choice from a small set (`Proposals`,
  `Hints`, `Values`); prompts, schemas and the circuit breaker are left out.
- `CallTask` leaves out the notification of the reviewers and the resolution of the
  responsible user, `CallStage` the alerts, `CallQueue` the sheet row, the manager's
  lookup and the notes in amoCRM. The three are not composed: what the queue's last
  step starts is one delivery of `CallTask` and one run of `CallStage`, and both take
  any number of deliveries of a call in any order.
- `Sweeps` leaves the daily places to `DailySlots`. `Discipline` leaves out a release
  that changes the list of pilots while one of them is restricted.

## Runs

| Run | Instance | Shows |
|---|---|---|
| `watch_ledger` | 1 lead, 2 claimants, 3 touches at times 1..2, lease generation to 3 | `NewestTouchWins`, `TieIsUncertain`, `CurrentFenceIsFresh`, `FinishedStaysFinished`, and under fairness `ClaimsEnd` |
| `daily_slots` | 1 worker, 1 sweep, limits 1 and 2, 2 slot numbers, 2 days, 3 attempts, settlements that fail | `MovesKeepTheirSlot`, `CapHolds`, refinement of `MoveBudget` |
| `daily_slots_lowered` | the same with 1 day | finding: `LoweredLimitBites` fails |
| `run_lease` | 2 passes, lease 2, cooldown 1, clock to 5 | `OneLeader`, `CooldownKept` |
| `worker` | 2 passes; five setups: 2 leads for 1 slot of a capped day, 2 leads for 2 testing slots, 1 lead that is touched again, 1 lead with one failed statement or request on a capped day, and in testing with 2 slots | one PATCH, slots kept, truthful watches and audits |
| `worker_lost_slot` | 1 lead, limit 1, one failure | finding: `UncertainKeepsSlot` fails |
| `switch` | 2 leads, 1 operator, 1 webhook, 2 touches and 2 claims per lead | `StopHolds`, `ClearedStaysDropped`, `ExplicitCapStays` |
| `switch_gap` | 1 lead | finding: `StopLeavesNoWatch` fails |
| `call_task` | 3 deliveries, 2 reviewers, six hints of the model, eight setups around the activation boundary and the lead's creation | `AnswersStand`, `SettledUnlessCrashed`, `TasksAreCalledFor`, refinement of `CallTaskPromise` |
| `call_stage` | 3 calls of 2 deals, 2 runs, 1 slot, 2 stages | `EveryMoveHoldsASlot`, `LedgerTellsTheTruth`, `SettledUnlessCrashed`, `MovesForward` |
| `call_stage_duplicate` | 1 call, the field with the fixed value | finding: `FixedValueIsNotTheModels` fails |
| `call_queue` | 2 attempts per job; two deliveries and two faults; a delivery, two syncs and a fault; a press, a sync and a fault; all producers without fault | `ProcessedIsWhole`, `NothingIsStranded`, and under fairness `EveryCallIsFiled` |

Why the bounds are enough. Watches of different leads never interact in the
ledger, so one lead suffices; two claimants give a stale one and its successor,
three touches at two times give every order, a tie, and a touch that settles it.
A worker and a sweep with two limits and three attempts reach a full day, an attempt
that outlives its reservation, a leaked slot that is taken again, and a limit lowered
below used slots; the second day gives an attempt that crosses the boundary. Two passes are the one that lost the run
lease and the one that took it; one failure is enough to enter the catch block, whose
own statements also fail when a lease expired or a stop came meanwhile. A failure
together with a new touch or a second lead is too large for the worker run; the theorems of `InactivityWorker_proofs` cover both. Lease 2 against cooldown 1
gives states where each of them is the one that refuses. `MaxGen`, `MaxAudits`,
`MaxDay`, `MaxNow`, `MaxTouch` and `MaxClaims` bound counters that grow without limit
in the code.

In `call_task` three deliveries give an owner of the analysis, one that takes its
lapsed lease over, and one that comes when all is over; two reviewers race each other
and them. The hints give a due time ahead, one already past, one for a date that has
passed, and none, and the setups stand on both sides of each comparison with the
boundary. Deliveries are interchangeable, and so are reviewers: the run uses that
symmetry, which no property of it distinguishes. In `call_stage` two calls of one
deal make the later one overtake the earlier, the call of the other deal competes for
the only slot, and one deal has been handled before the second rollout. In `call_queue`
two attempts show a first failure and a last one, and with two faults a job uses up
its attempts before or after the row exists; the setups are separate because a
fault together with all producers is too large.
`run_lease`, `call_stage` and `call_queue` check without deadlock detection: a
bounded clock stops the first, and the last two stop when every call is done.

**Fairness.** `WatchLedger` assumes weak fairness of a lease's expiry (time passes)
and of `ReleaseExpiredWatchLeases`, which every worker pass runs first, and a pass
starts every minute from an interval timer as long as the service runs and moves are
not stopped. No claimant is assumed to be fair: it may die at any point. `ClaimsEnd`
is therefore a promise of the lease alone. `CallQueue` assumes weak fairness of a
job's next step (`Work`), because BullMQ hands a waiting job to a free worker, keeps
delayed retries and restarts stalled jobs, and of `SyncAdd` and `AddManual`, the last
step of a command that has begun. Nothing obliges the exchange to deliver, the lookup
to succeed, or an operator to press. `EveryCallIsFiled` says that when a call was
queued, its jobs come to rest and its row is in a final state, save for the accidents in
`stray` and for a job that used up its attempts before there was a row: the wrapper of
the worker marks only a row it finds, so such a call is in no table until it is queued
again. The other models state no fairness.

## What the runs found

- **A lowered limit does not always bite at once** (`daily_slots_lowered`). The
  comment in `ensureDailyMovementSlots` and `docs/admin-commands.md` say that it
  does. The code drops free slots numbered above the limit and keeps used ones;
  with slot 2 used and slot 1 free again, a limit of 1 leaves slot 1 to be taken.
  `CapHolds` is stated against the largest limit of the day for that reason.
- **A failed statement after an uncertain move frees its slot** (`worker_lost_slot`).
  The catch block of `processClaim` tells a confirmed move from all others, not an
  uncertain one from one that did not happen. The limit is documented as a maximum
  of confirmed or uncertain moves. `UncertainKeepsSlotUnfailing` is what remains. The
  same step is `CatchSettlement` of `DailySlots`: the slot is reserved again, and
  `MovesKeepTheirSlot`, `CapHolds` and `BudgetSpec` count these moves apart. In testing
  it lets the next PATCH go out (`UncertainStopsTesting` says what remains).
- **A webhook under way leaves a watch behind a stop** (`switch_gap`), although the
  comment on `setInactivityMovementPaused` says it cannot. Nothing moves while the
  switch is off (`StopHolds`), but the clock of that lead runs during the stop.

- **The fixed value is asked of the model** (`call_stage_duplicate`). The policy
  returns its missing fields as id and name, so the autofill no longer sees that the
  duplicate check has a fixed value; it asks the model and writes the answer, over a
  person's value too. The comment in `S/callStageFieldAutofill.ts` says that such a
  field is never asked of the model.

Smaller observations, not findings: a database error in a hook before the PATCH
is reported as an uncertain move, which is safe; the branch of the catch block
that would finish a watch as "moved" is unreachable, since a confirmed slot
without a finished watch makes the claim unsafe to retry.

## Proofs

Every theorem holds for all values of the constants that the named assumptions of
its module admit; they say what kind of thing each constant is, and TLC evaluates
them in the runs. The proofs of a component are in `<component>_proofs`. The six
components that have no run of their own are proved beside one they work with: each
host takes its guest by a named `INSTANCE`, with the variables the two have in
common renamed, and the guest's assumption is in the ASSUME of its theorems.

| Proof module | Component | Guest |
|---|---|---|
| `WatchLedger_proofs` | `WatchLedger` | `Baseline` (`Base!`), which records its events there |
| `DailySlots_proofs` | `DailySlots`, `MoveBudget` | |
| `InactivityWorker_proofs` | `InactivityWorker` | |
| `WorkerRunLease_proofs` | `WorkerRunLease` | `RateLimiter` (`Gate!`), the other lock on a settings row |
| `MovementSwitch_proofs` | `MovementSwitch` | `Sweeps` (`Sweep!`), which the switch stops |
| `CallTask_proofs` | `CallTask`, `CallTaskPromise` | `TestSlots` (`Test!`), which bound its live test |
| `CallStage_proofs` | `CallStage` | `FieldOptions` (`Field!`), which its autofill extends |
| `CallQueue_proofs` | `CallQueue` | `Discipline` (`Pilot!`), handlers of one process like its workers |

Each theorem `TypeCorrect` is type correctness, which is part of every invariant.

### WatchLedger

- `NewestWins`, `TiesStop`, `FencesAreFresh`: `NewestTouchWins`, `TieIsUncertain` and
  `CurrentFenceIsFresh` hold in every reachable state;
- `FinishedSafe`: `Spec => FinishedStaysFinished`.

The inductive invariant is `LedgerInv`, the type invariant with the three
properties (`LedgerSafe`): none of them is inductive alone.
`NewestTouchWins` needs every logged event to have a row, and `TieIsUncertain`
needs `NewestTouchWins`, because a tie at the newest position arises only from an
event level with the row, never from one ahead of it. `CurrentFenceIsFresh` rests
on the lease token: a touch that moves the row clears the token, and the next
claim writes another claimant's. Most actions change few fields, so two
lemmas about what a step keeps (`PositionsKept`, `FencesKept`) carry them; the
event and the claim are argued case by case.

### DailySlots

- `MovesKept`: `Spec => []MovesKeepTheirSlot`;
- `CapSafe`: `Spec => []CapHolds`;
- `ImplementsBudget`: `Spec => BudgetSpec`, the refinement of `MoveBudget`.

All three allow for `leaked`, the uncertain moves whose slot the worker's catch block
released: such a move has no slot, the day may see one move more for each, and a leak
is a step of `MoveBudget` of its own. Nothing else takes a slot from a move.

The inductive invariant is `SlotsInv`. `MovesKeepTheirSlot` alone is not
inductive: a release could give away the slot of a move if the attempt did not know
its own outcome (`NotYetMoved`), if its slot carried another attempt's id
(`AttemptOwns`, `AttemptsDistinct`), or if a reservation reused an id
(`AuditsKnown`). Ensuring, expiring and lapsing change only slots no attempt needs,
or turn a reservation uncertain; the definition `Harmless` states this of two tables
and `HarmlessStep` carries every such action at once, so that only reserving,
answering, settling and the catch block are argued on their own. The cap then follows by counting:
no row stands above the day's peak (`WithinPeak`), so the audit ids of the spent
rows, and the moves among them, are at most `peak` many.

The refinement needs one fact more (`SharesInv`): no two spent slots of a day have
the same holder, so that freeing a slot gives exactly one share back. `StepKinds` sorts the
steps into those that keep the holders (`SameHolders`), reserve, settle, leak or move, and
`BudgetStep` finds the step of `MoveBudget` for each. A reservation stays within the budget
because the rows above the largest limit are absent.

### WorkerRunLease

- `LeaderIsAlone`: `Spec => []OneLeader`;
- `PassesAreApart`: `Spec => CooldownKept`.

The invariant says that a pass which believes it leads is the one the row names, with the
same expiry (`LeaderIsNamed`), that the row carries the cooldown of the latest activity
(`RowIsCool`), and what a pass has read and found before it writes (`Judged`). A
stale clock only makes the judgement stricter: a row that had expired by an earlier
reading has expired now (`NoLeaderBut`). The compare-and-set does the rest.

### InactivityWorker

- `OnePatchAtATime`, `TestingStopsForUncertain`: `OnePatchInFlight`, `UncertainStopsTesting`;
- `ConfirmedMovesAreSpent`, `PossibleMovesAreSpent`: `ConfirmedKeepsSlot`,
  `UncertainKeepsSlotUnfailing`;
- `LimitIsKept`: the confirmed moves, and while nothing fails the moves that may have
  happened, are at most as many as the table has slots;
- `MovedWatchesAreReal`, `AuditsAreTrue`: `MovedIsReal`, `AuditsTellTruth`;
- `RequeuedGivesSlotBack`: `Spec => RequeuedWithoutSlot`.

They hold for any set of passes and leads and any set of setups, hence any limit, mode,
number of touches and number of failed statements (`PassAssumption`,
`SetupAssumption`). One inductive invariant carries them all (`Invariance`); TLC checked
it first, on the worker's setups. Only the part of `UncertainStopsTesting` about runs
without a failure has a second one on top of it, `OpenMoves`: while nothing failed, a
move whose fate is open belongs to the claim its pass is at, or to a pass that lost the
run lease (`PendingIsCurrent`, `LostIsOld`), and a confirmed slot belongs to a confirmed
move (`ConfirmedSlotsAreTrue`).

The properties compare records that different statements write, so the invariant follows
the only thing that connects them, the locals of the pass:

- `Fresh` and `Once`: a pass claims a lead once, and a claim that has not begun has left
  nothing in slots, audits or amoCRM;
- `Knows`: what a pass believes at each step of a claim (its outcome, its slot, what it
  has settled) is what the client reported, so a confirmed outcome was confirmed;
- `Owns` and `Ends`: from its reservation to the settlement a claim's slot is its own or
  was turned uncertain by another pass; after the settlement the slot has the state that
  the outcome or the catch block wrote, and if the lead may be queued again, none;
- `Truth`: what slot, verdict and audit of a claim say together, whoever is at work;
- `SendersHoldRun`: a pass between its last fence and the end of its PATCH holds the run
  lease, which does not lapse meanwhile;
- `Alone`: in testing, to the pass that holds the run lease every other pass still at
  work whose reservation may stand for a move is old (`Overtaken`, `OldHaveBegun`), and
  once it has passed the check for uncertain slots no move of theirs is open
  (`NothingOpen`);
- `SlotsAreClaims`: spent slots carry audit ids, so that moves can be counted by slots.

Each action is proved to keep the parts it can disturb from a description of its effect
(`Others`, `SameClaim`, `SameEnds`: what it leaves to the other passes and to its own
claim; `Aged`, `Keeps`, `Spares`: what it does to the table and to the watches). The
bound on the moves is a counting argument: each counted move has a slot of its own.

### MovementSwitch

- `ClearedWatchesStayDropped`: `Spec => ClearedStaysDropped`;
- `StopsHold`: `Spec /\ []FlagIsUp => StopHolds`, and `FlagStaysUp`:
  `Spec /\ []OneCommand => []FlagIsUp`;
- `OnlyStaleWritesLoseTheCap`: an explicit cap changes only by a command for the cap or by
  a `StaleWrite`; `ExplicitCapIsKept`: `Spec /\ []OneCommand => ExplicitCapStays`.

Each command reads the row and writes it back whole, so two operators can undo each
other: with two, TLC shows `StopHolds` and `ExplicitCapStays` violated (the hazard at
`S/inactivityMovementSwitch.ts:189`). The theorems say how far that goes. An explicit
cap is lost only when a command overwrites a row that changed since it was read
(`StaleWrite`), and a stop is broken only when the row stops saying so (`FlagIsUp`): while it
does, no order of webhooks, passes and commands lets a move through. `OneCommand`, that no
two operators are in the middle of a command, excludes both. It is a fact about the
operators, met when one person uses the commands (as in the run), and not
guaranteed by the code.

`ClearedStaysDropped` needs no hypothesis: a watch that a stop cleared is in a final
state, whose only way back is a touch (`ClearedIsInert`). `StopHolds` rests on `Quiet`: a
lead touched during a stop is not leased, and not due in the time of the pass that was
under way; no other pass starts while the flag is up.

### CallTask

- `AnswersAreKept`, `NothingIsLeftHalfDone`, `OnlyCalledForTasks`: `AnswersStand`,
  `SettledUnlessCrashed`, `TasksAreCalledFor`;
- `AskedOnce`: `Spec => OnceSpec`, the refinement of `CallTaskPromise`.

The core of the invariant is that one actor at a time is past the claim of the task
(`OneExecutor`) and that the status says where it is (`InStep`). `Made` says what each
status implies of amoCRM, `Told` that whoever has an answer finds it in the
ledger for good, `Owned` that a status which must go on has its actor, or one that
crashed, and `CalledFor` what an actor about to ask has checked. The refinement
then takes each step to the request it makes, or to a stutter.

### CallStage

- `MovesAreSlotted`, `LedgerIsTrue`, `NothingIsLeftHalfDone`: `EveryMoveHoldsASlot`,
  `LedgerTellsTheTruth`, `SettledUnlessCrashed`;
- `OnlyForward`: `Spec => MovesForward`.

A run is classified by its program counter: `Deciding`, `Slotted` (from its reservation
to its end), `Tried` (its PATCH may have been applied), `Checked` (after its last reading of
the lead). `Claims`: of the runs past the claim of a call's move only one is at work, and
the action is its own. `SlotsOk`: a slot in use names a call and its deal, and no deal has two.
`HasSlot`: a run that is `Slotted` finds its slot reserved or expired, never free.
`MovedOnce`: who has not tried has not moved. `EveryMoveHoldsASlot` follows, since a slot
of a deal keeps every other call of it from reserving. `LedgerTellsTheTruth` needs the
equivalence of "confirmed" in action and slot, which one transaction writes (`Ledger`).
`MovesForward` needs `Ahead`: between the last reading and the PATCH either the lead has not
moved, or the history, which the last fence reads, tells that it has.

### CallQueue

- `ProcessedCallsAreWhole`: `Spec => []ProcessedIsWhole`;
- `NoRowIsStranded`: `Spec => []NothingIsStranded`.

`Deals` strengthens the first: a worker past the lookup has a call with a deal, one
past the analysis has an analysed call, and neither fact is ever undone,
whichever other job of the call writes the row. The second needs that a row leaves
the statuses in progress, or that the job which put it there stays alive or is replaced. Both are
facts about one job's step in the company of the others, so the lemma `JobStep`
states what a step owes, and every action only shows that it pays.

### The guests

- **`Discipline`**: `LockoutNeedsAMishap`, `SnapshotIsThere`,
  `RestoredBeforeForgotten`. Without a mishap one handler at a time is between its
  reads and writes (`Alone`), the place it is at tells what the row and the role hold (`Progress`), and
  who is still to be visited is not restricted (`Listed`).
- **`RateLimiter`**: `SlotsAreExclusive` (no slot carries two requests, every request
  was let through within its slot) and `RateIsKept`: of six requests, the last leaves
  more than four intervals, less the time the first was held up after its check, after
  the first. The invariant says that every slot held or used lies below the row's value
  and that a slot belongs to one caller and one request (`GivenAwayOnce`). The
  re-check after the sleep keeps a replica that was paused in its sleep from using an
  old slot. Nothing in the code notices a pause between that check and the departure of
  the request, so the limit of five a second holds as long as such a delay is at most
  40 ms (four intervals of 260 ms make 1040).
- **`Sweeps`**: `StopsBite` (after a stop a sweep moves at most the candidate
  it was at), `TouchesAreHeeded`, `TokensAreSpentOnce`, `DaysAreSweptOnce` (with the
  exception the code leaves: a replica that claims a day which is over). Each has an
  invariant of its own: `StopInv`, `FenceInv`, `TokenInv`, `DayInv`.
- **`Baseline`**: `BaselineIsComplete`, `WorkerWaits` (the worker moves nothing in
  production before completion, and no historical lead that is not enrolled; the sweeps
  do, and the theorem exempts them), `EnrolmentHasItsWatch`
  and, on the other side, `PartialRunBlocks`: a run that died with the marker
  is never completed by a later one, so the worker waits for ever. The argument
  follows what each run has enrolled of its list (`Progress`) and what the worker may
  watch (`WatchesAreAllowed`).
- **`FieldOptions`**: `OriginalsAreKept`, `ClosedRowsAreGone` and
  `RollbackSparesPeople`. The strengthenings: every id anybody holds was once given
  by amoCRM, so a new one is in no list, log or plan (`Ids`); a run past the capture
  has the original stored (`Armed`); and what a rollback took out of its list stays
  out (`Gone`), which rests on amoCRM never giving an id twice. `ClosedRowsAreGone`
  assumes `FullAnswers`; without it a rollback takes an option for gone that it merely
  was not told of, and a PATCH prepared from an empty list drops all the others, which
  `RollbackSparesPeople` counts as overwritten.
- **`TestSlots`**: `TestIsBounded`, `HistoryStaysOut`, `SpentRowsStay`, with a row
  held exactly when it is not free (`HeldRows`), and with the boundaries, once
  written, never changed (`Admitted`).

### Only model-checked

- The liveness properties `ClaimsEnd` and `EveryCallIsFiled`: liveness under fairness
  is out of the prover's reach.
- Four properties are refuted by their runs and are findings, not theorems.

## Not modelled

- The Telegram dialogs (pending input, keyboards, deduplication, account linking): the
  handlers that change another part's state are in that part's module, and what is
  left concerns one chat.
- Salary, revenue, plan and performance reports: sums over listings in decimals and
  dates, which unit tests reach better than a model checker.
- Daily reports and sheets, the webhook subscription, start-up and one-off
  scripts: they format, read, or write once, with no state between two steps. The
  scripts with a protocol are in `Baseline` and `FieldOptions`.
- Token refresh, archive download and the call log of the exchange: caches and inserts
  with no protocol of the calls.

`PROJECT.json` lists the hazards that no property covers, each with its reason.

## Plan

1. Done: the modules, runs and proofs above.
2. The spared watch of `MovementSwitch` after a restart.
3. The pending inputs and the one-time codes of the Telegram bot on two replicas.
