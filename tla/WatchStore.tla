----------------------------- MODULE WatchStore -----------------------------
(***************************************************************************)
(* The row operations on a lead inactivity watch: what each statement of   *)
(* leadInactivityPrismaPersistence.ts does to one row of the table         *)
(* LeadInactivityWatch, and which row it matches.                          *)
(*                                                                         *)
(* A row keeps its activity position (lastActivityAt, then the tie breaker *)
(* lastActivityReceivedAt) as natural numbers.  Deadlines are not numbers: *)
(* `due' says that dueAt <= now, `lapsed' that leaseExpiresAt <= now.  The *)
(* modules that hold the table decide when time raises these flags.        *)
(* A lead without a row is `Absent'.                                       *)
(***************************************************************************)
EXTENDS Naturals

CONSTANTS NoToken,        \* leaseToken: null
          NoFingerprint   \* no event recorded yet

WatchStates == {"watching", "leased", "mutating", "moved", "outside_scope",
                "skipped", "uncertain"}

\* States in which a worker owns the row (finishWatchClaim, releaseExpiredWatchLeases).
ClaimStates == {"leased", "mutating"}

\* States the worker or an operator leaves a finished watch in.
FinalStates == {"moved", "outside_scope", "skipped", "uncertain"}

Absent == [state |-> "none", at |-> 0, recv |-> 0, fp |-> NoFingerprint,
           cycle |-> 0, gen |-> 0, token |-> NoToken, due |-> FALSE,
           lapsed |-> FALSE]

-----------------------------------------------------------------------------
(* Activity events: [fp, at, recv], the fingerprint, eventAt, receivedAt.  *)

\* compareWatchActivityOrder: eventAt decides, receivedAt breaks the tie.
Before(x, y) == x.at < y.at \/ (x.at = y.at /\ x.recv < y.recv)

SamePosition(x, y) == x.at = y.at /\ x.recv = y.recv

NewWatch(e) ==
  [Absent EXCEPT !.state = "watching", !.at = e.at, !.recv = e.recv,
                 !.fp = e.fp, !.cycle = 1]

\* advanceWatchIfNewer: any state restarts, the lease is revoked and
\* leaseGeneration is not written, so it never goes back.
Advance(w, e) ==
  [w EXCEPT !.state = "watching", !.at = e.at, !.recv = e.recv, !.fp = e.fp,
            !.cycle = IF w.state = "moved" THEN @ + 1 ELSE @,
            !.token = NoToken, !.lapsed = FALSE, !.due = FALSE]

\* markWatchUncertainForOrderConflict
OrderConflict(w) ==
  [w EXCEPT !.state = "uncertain", !.token = NoToken, !.lapsed = FALSE]

\* A bug that forgets to revoke the lease when a newer touch arrives.
RecordEvent_KeepsLease(w, e) ==
  CASE w.state = "none" -> NewWatch(e)
    [] w.state # "none" /\ Before(w, e) ->
         [w EXCEPT !.at = e.at, !.recv = e.recv, !.fp = e.fp]
    [] w.state # "none" /\ SamePosition(w, e) -> OrderConflict(w)
    [] OTHER -> w

\* A bug that lets the last webhook to arrive win.
RecordEvent_LastArrivalWins(w, e) ==
  IF w.state = "none" THEN NewWatch(e) ELSE Advance(w, e)

\* A bug that takes an event at the watch's own position for a duplicate.
RecordEvent_TieIgnored(w, e) ==
  CASE w.state = "none" -> NewWatch(e)
    [] w.state # "none" /\ Before(w, e) -> Advance(w, e)
    [] OTHER -> w

\* reconcileWithCurrentWatch, for an event whose fingerprint was not yet logged.
RecordEvent(w, e) ==
  CASE w.state = "none" -> NewWatch(e)
    [] w.state # "none" /\ Before(w, e) -> Advance(w, e)
    [] w.state # "none" /\ SamePosition(w, e) -> OrderConflict(w)
    [] OTHER -> w

-----------------------------------------------------------------------------
(* Claims.  A claimant keeps [token, gen] of the row it was given.         *)

Claimable(w) == w.state = "watching" /\ w.due

Claim(w, t) ==
  [w EXCEPT !.state = "leased", !.token = t, !.gen = @ + 1, !.lapsed = FALSE]

HoldsFence(w, c) == w.token = c.token /\ w.gen = c.gen

\* isWatchClaimCurrent, and the match of beginMoveMutation
IsClaimCurrent(w, c) == w.state = "leased" /\ HoldsFence(w, c)

BeginMove(w) == [w EXCEPT !.state = "mutating"]

\* isMoveMutationCurrent: leaseExpiresAt is not part of the match.
IsMoveCurrent(w, c) == w.state = "mutating" /\ HoldsFence(w, c)

\* The match of finishWatchClaim
IsFinishable(w, c) == w.state \in ClaimStates /\ HoldsFence(w, c)

Finish(w, s) == [w EXCEPT !.state = s, !.token = NoToken, !.lapsed = FALSE]

\* releaseExpiredWatchLeases
IsLapsed(w) == w.state \in ClaimStates /\ w.lapsed

ReleaseLease(w) ==
  [w EXCEPT !.state = "watching", !.token = NoToken, !.lapsed = FALSE]

\* A bug that writes a state no other code knows.
StopClear_UnknownState(w) ==
  IF w.state \in {"watching", "leased"} THEN [w EXCEPT !.state = "stopped"] ELSE w

\* clearActiveInactivityWatches: a mutating watch is left to its worker.
StopClear(w) ==
  IF w.state \in {"watching", "leased"}
  THEN [w EXCEPT !.state = "skipped", !.token = NoToken, !.lapsed = FALSE]
  ELSE w
=============================================================================
