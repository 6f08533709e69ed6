---------------------------- MODULE WatchLedger -----------------------------
(***************************************************************************)
(* The lead inactivity watch ledger: the watch and event tables behind     *)
(* leadInactivityStore.ts, under webhook deliveries that arrive late,      *)
(* twice or out of order and under workers that claim due watches and may  *)
(* die at any point.  Each action is one store call; each store call is    *)
(* one database statement or one Serializable transaction, hence atomic.   *)
(*                                                                         *)
(* A fingerprint is the hash of a touch, so it fixes the lead and the      *)
(* time of the touch; the time of receipt differs from one delivery of it  *)
(* to the next.  A claim's lease token is a fresh UUID in the code; here   *)
(* it is the claimant itself, which tells less apart.                      *)
(***************************************************************************)
EXTENDS WatchStore

CONSTANTS Leads,         \* lead ids
          Claimants,     \* worker passes that can hold a claim
          Fingerprints,  \* distinct touches amoCRM may report
          Stamps,        \* the times a touch or a delivery can carry
          NoClaim,       \* a claimant between two claims
          MaxGen         \* bound on leaseGeneration, for TLC

ASSUME StampsAssumption == Stamps \subseteq Nat
ASSUME ClaimantAssumption == NoToken \notin Claimants
ASSUME MaxGenAssumption == MaxGen \in Nat

VARIABLES touch,   \* fingerprint -> the touch it stands for; never changes
          log,     \* rows of LeadInactivityEvent
          watch,   \* lead -> row of LeadInactivityWatch
          claim    \* claimant -> the row it was handed, or NoClaim

vars == <<touch, log, watch, claim>>

Touches == [lead : Leads, at : Stamps]

Events == [lead : Leads, fp : Fingerprints, at : Stamps, recv : Stamps]

Claims == [lead : Leads, gen : Nat, at : Nat, recv : Nat]

Rows == [state : WatchStates \cup {"none"}, at : Nat, recv : Nat,
         fp : Fingerprints \cup {NoFingerprint}, cycle : Nat, gen : Nat,
         token : Claimants \cup {NoToken}, due : BOOLEAN, lapsed : BOOLEAN]

Fence(c) == [token |-> c, gen |-> claim[c].gen]

Init ==
  /\ touch \in [Fingerprints -> Touches]
  /\ log = {}
  /\ watch = [l \in Leads |-> Absent]
  /\ claim = [c \in Claimants |-> NoClaim]

-----------------------------------------------------------------------------
(* The event path: webhook or history event, recorded in one transaction.  *)

EventOf(f, r) == [lead |-> touch[f].lead, fp |-> f, at |-> touch[f].at, recv |-> r]

\* insertEventIfAbsent: the unique index on the fingerprint.
IsLogged(f) == \E e \in log : e.fp = f

\* recordEvent: a replay of a logged fingerprint changes nothing.
RecordLeadEvent(f, r) ==
  LET e == EventOf(f, r) IN
  /\ ~IsLogged(f)
  /\ log' = log \cup {e}
  /\ watch' = [watch EXCEPT ![e.lead] = RecordEvent(@, e)]
  /\ UNCHANGED <<touch, claim>>

-----------------------------------------------------------------------------
(* Claims.                                                                 *)

ClaimDueWatch(c, l) ==
  /\ claim[c] = NoClaim
  /\ Claimable(watch[l])
  /\ watch[l].gen < MaxGen
  /\ watch' = [watch EXCEPT ![l] = Claim(@, c)]
  /\ claim' = [claim EXCEPT ![c] = [lead |-> l, gen |-> watch[l].gen + 1,
                                    at |-> watch[l].at, recv |-> watch[l].recv]]
  /\ UNCHANGED <<touch, log>>

BeginMoveMutation(c) ==
  /\ claim[c] # NoClaim
  /\ IsClaimCurrent(watch[claim[c].lead], Fence(c))
  /\ watch' = [watch EXCEPT ![claim[c].lead] = BeginMove(@)]
  /\ UNCHANGED <<touch, log, claim>>

\* A bug that finishes by lead id alone, without the fence.
FinishWatchClaim_NoFence(c, s) ==
  /\ claim[c] # NoClaim
  /\ watch' = [watch EXCEPT ![claim[c].lead] = Finish(@, s)]
  /\ claim' = [claim EXCEPT ![c] = NoClaim]
  /\ UNCHANGED <<touch, log>>

FinishWatchClaim(c, s) ==
  /\ claim[c] # NoClaim
  /\ IsFinishable(watch[claim[c].lead], Fence(c))
  /\ watch' = [watch EXCEPT ![claim[c].lead] = Finish(@, s)]
  /\ claim' = [claim EXCEPT ![c] = NoClaim]
  /\ UNCHANGED <<touch, log>>

\* The claimant crashes, or gives up a claim whose fence it found stale.
AbandonClaim(c) ==
  /\ claim[c] # NoClaim
  /\ claim' = [claim EXCEPT ![c] = NoClaim]
  /\ UNCHANGED <<touch, log, watch>>

-----------------------------------------------------------------------------
(* Maintenance and the clock.                                              *)

\* A bug that looks for expired leases among the leased rows only.
ReleaseExpiredWatchLeases_LeasedOnly ==
  /\ \E l \in Leads : IsLapsed(watch[l])
  /\ watch' = [l \in Leads |->
                 IF IsLapsed(watch[l]) /\ watch[l].state = "leased"
                 THEN ReleaseLease(watch[l]) ELSE watch[l]]
  /\ UNCHANGED <<touch, log, claim>>

ReleaseExpiredWatchLeases ==
  /\ \E l \in Leads : IsLapsed(watch[l])
  /\ watch' = [l \in Leads |->
                 IF IsLapsed(watch[l]) THEN ReleaseLease(watch[l]) ELSE watch[l]]
  /\ UNCHANGED <<touch, log, claim>>

\* The stop command of the movement switch empties the queue.
ClearActiveWatches ==
  /\ watch' = [l \in Leads |-> StopClear(watch[l])]
  /\ UNCHANGED <<touch, log, claim>>

\* dueAt passes.
BecomeDue(l) ==
  /\ watch[l].state # "none"
  /\ ~watch[l].due
  /\ watch' = [watch EXCEPT ![l].due = TRUE]
  /\ UNCHANGED <<touch, log, claim>>

\* leaseExpiresAt passes.
LeaseLapses(l) ==
  /\ watch[l].state \in ClaimStates
  /\ ~watch[l].lapsed
  /\ watch' = [watch EXCEPT ![l].lapsed = TRUE]
  /\ UNCHANGED <<touch, log, claim>>

-----------------------------------------------------------------------------
FinishStates == FinalStates \cup {"watching"}

Next ==
  \/ \E f \in Fingerprints, r \in Stamps : RecordLeadEvent(f, r)
  \/ \E c \in Claimants, l \in Leads : ClaimDueWatch(c, l)
  \/ \E c \in Claimants : BeginMoveMutation(c)
  \/ \E c \in Claimants, s \in FinishStates : FinishWatchClaim(c, s)
  \/ \E c \in Claimants : AbandonClaim(c)
  \/ ReleaseExpiredWatchLeases
  \/ ClearActiveWatches
  \/ \E l \in Leads : BecomeDue(l)
  \/ \E l \in Leads : LeaseLapses(l)

Spec == Init /\ [][Next]_vars

\* Time passes, and a worker pass starts every minute and releases leases.
Fairness ==
  /\ \A l \in Leads : WF_vars(LeaseLapses(l))
  /\ WF_vars(ReleaseExpiredWatchLeases)

FairSpec == Spec /\ Fairness

-----------------------------------------------------------------------------
(* Properties.                                                             *)

TypeOK ==
  /\ touch \in [Fingerprints -> Touches]
  /\ log \subseteq Events
  /\ watch \in [Leads -> Rows]
  /\ claim \in [Claimants -> Claims \cup {NoClaim}]

\* A watch stands at the newest touch that was ever recorded for its lead, in
\* whatever order, how late and how often the deliveries came: recordEvent
\* never moves a deadline backwards.
NewestTouchWins ==
  \A e \in log : /\ watch[e.lead].state # "none"
                 /\ ~Before(watch[e.lead], e)

\* When two distinct touches stand level at the newest position, their order
\* is unknown, and the lead is uncertain: no worker may claim and move it until
\* a newer touch settles the order (the fail-closed branch of recordEvent).
TieIsUncertain ==
  \A d, e \in log :
    (/\ d # e
     /\ d.lead = e.lead
     /\ SamePosition(d, watch[d.lead])
     /\ SamePosition(e, watch[e.lead]))
    => watch[d.lead].state = "uncertain"

\* A claimant whose fence still matches has missed no touch: since it read the
\* row, no newer activity was recorded and no other claimant took over.  This
\* is what the worker relies on when it checks the fence before the PATCH.
CurrentFenceIsFresh ==
  \A c \in Claimants :
    (claim[c] # NoClaim /\ IsFinishable(watch[claim[c].lead], Fence(c)))
    => SamePosition(watch[claim[c].lead], claim[c])

\* A finished watch (moved, out of scope, stopped by the operator, uncertain)
\* starts again only from a touch newer than the one it was finished at; a
\* late or replayed delivery, a stale worker or the lease sweep cannot reopen it.
FinishedStaysFinished ==
  [][\A l \in Leads :
       (watch[l].state \in FinalStates /\ watch'[l].state \notin FinalStates)
       => Before(watch[l], watch'[l])]_vars

\* A claim whose worker died does not block its lead for ever: the lease
\* lapses and a later pass returns the watch to the queue.
ClaimsEnd ==
  \A l \in Leads : watch[l].state \in ClaimStates ~> watch[l].state \notin ClaimStates
=============================================================================
