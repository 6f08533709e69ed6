------------------------- MODULE WatchLedger_proofs -------------------------
(***************************************************************************)
(* Proofs about WatchLedger: its type invariant, the three safety          *)
(* invariants and the action property, for every set of leads, claimants,  *)
(* fingerprints and stamps.                                                *)
(***************************************************************************)
EXTENDS WatchLedger, TLAPS

-----------------------------------------------------------------------------
(* Lemmas about the row operations.                                        *)

\* Every row operation of the store maps rows to rows.
LEMMA RowOperationsTyped ==
  ASSUME NEW w \in Rows
  PROVE  /\ \A e \in Events : RecordEvent(w, e) \in Rows
         /\ \A c \in Claimants : Claim(w, c) \in Rows
         /\ BeginMove(w) \in Rows
         /\ \A s \in FinishStates : Finish(w, s) \in Rows
         /\ ReleaseLease(w) \in Rows
         /\ StopClear(w) \in Rows
<1> USE StampsAssumption DEF Rows, WatchStates, FinalStates, FinishStates
<1>0. w.cycle \in Nat /\ w.gen \in Nat /\ w.gen + 1 \in Nat
  OBVIOUS
<1>1. ASSUME NEW e \in Events PROVE RecordEvent(w, e) \in Rows
  <2>1. e.at \in Nat /\ e.recv \in Nat /\ e.fp \in Fingerprints
    BY DEF Events
  <2>2. NewWatch(e) \in Rows
    BY <2>1 DEF NewWatch, Absent
  <2>3. Advance(w, e) \in Rows
    <3>1. (IF w.state = "moved" THEN w.cycle + 1 ELSE w.cycle) \in Nat
      BY <1>0
    <3> QED
      BY <2>1, <3>1 DEF Advance
  <2>4. OrderConflict(w) \in Rows
    BY DEF OrderConflict
  <2> QED
    BY <2>2, <2>3, <2>4 DEF RecordEvent
<1>2. ASSUME NEW c \in Claimants PROVE Claim(w, c) \in Rows
  BY <1>0 DEF Claim
<1>3. BeginMove(w) \in Rows
  BY DEF BeginMove
<1>4. ASSUME NEW s \in FinishStates PROVE Finish(w, s) \in Rows
  BY DEF Finish
<1>5. ReleaseLease(w) \in Rows
  BY DEF ReleaseLease
<1>6. StopClear(w) \in Rows
  BY DEF StopClear
<1> QED
  BY <1>1, <1>2, <1>3, <1>4, <1>5, <1>6

\* The absent row is a row.
LEMMA AbsentTyped == Absent \in Rows
  BY DEF Absent, Rows

-----------------------------------------------------------------------------
(* The type invariant.                                                     *)

\* The initial state is well typed.
LEMMA TypeInit == Init => TypeOK
  BY AbsentTyped DEF Init, TypeOK

\* Every step keeps the state well typed.
LEMMA TypeStep == TypeOK /\ [Next]_vars => TypeOK'
<1> SUFFICES ASSUME TypeOK, [Next]_vars PROVE TypeOK'
  OBVIOUS
<1> USE DEF TypeOK
<1>1. ASSUME NEW f \in Fingerprints, NEW r \in Stamps, RecordLeadEvent(f, r)
      PROVE  TypeOK'
  <2>1. EventOf(f, r) \in Events
    BY DEF EventOf, Events, Touches
  <2>2. EventOf(f, r).lead \in Leads
    BY <2>1 DEF Events
  <2>3. RecordEvent(watch[EventOf(f, r).lead], EventOf(f, r)) \in Rows
    BY <2>1, <2>2, RowOperationsTyped
  <2> QED
    BY <1>1, <2>1, <2>2, <2>3 DEF RecordLeadEvent
<1>2. ASSUME NEW c \in Claimants, NEW l \in Leads, ClaimDueWatch(c, l)
      PROVE  TypeOK'
  <2>1. Claim(watch[l], c) \in Rows
    BY RowOperationsTyped
  <2>2. [lead |-> l, gen |-> watch[l].gen + 1, at |-> watch[l].at,
         recv |-> watch[l].recv] \in Claims
    BY DEF Rows, Claims
  <2> QED
    BY <1>2, <2>1, <2>2 DEF ClaimDueWatch
<1>3. ASSUME NEW c \in Claimants, BeginMoveMutation(c)
      PROVE  TypeOK'
  <2>1. claim[c].lead \in Leads
    BY <1>3 DEF BeginMoveMutation, Claims
  <2> QED
    BY <1>3, <2>1, RowOperationsTyped DEF BeginMoveMutation
<1>4. ASSUME NEW c \in Claimants, NEW s \in FinishStates, FinishWatchClaim(c, s)
      PROVE  TypeOK'
  <2>1. claim[c].lead \in Leads
    BY <1>4 DEF FinishWatchClaim, Claims
  <2> QED
    BY <1>4, <2>1, RowOperationsTyped DEF FinishWatchClaim
<1>5. ASSUME NEW c \in Claimants, AbandonClaim(c)
      PROVE  TypeOK'
  BY <1>5 DEF AbandonClaim
<1>6. CASE ReleaseExpiredWatchLeases
  BY <1>6, RowOperationsTyped DEF ReleaseExpiredWatchLeases
<1>7. CASE ClearActiveWatches
  BY <1>7, RowOperationsTyped DEF ClearActiveWatches
<1>8. ASSUME NEW l \in Leads, BecomeDue(l)
      PROVE  TypeOK'
  <2>1. watch' = [watch EXCEPT ![l] = [watch[l] EXCEPT !.due = TRUE]]
    BY <1>8 DEF BecomeDue
  <2>2. [watch[l] EXCEPT !.due = TRUE] \in Rows
    BY DEF Rows
  <2> QED
    BY <1>8, <2>1, <2>2 DEF BecomeDue
<1>9. ASSUME NEW l \in Leads, LeaseLapses(l)
      PROVE  TypeOK'
  <2>1. watch' = [watch EXCEPT ![l] = [watch[l] EXCEPT !.lapsed = TRUE]]
    BY <1>9 DEF LeaseLapses
  <2>2. [watch[l] EXCEPT !.lapsed = TRUE] \in Rows
    BY DEF Rows
  <2> QED
    BY <1>9, <2>1, <2>2 DEF LeaseLapses
<1>10. CASE UNCHANGED vars
  BY <1>10 DEF vars
<1> QED
  BY <1>1, <1>2, <1>3, <1>4, <1>5, <1>6, <1>7, <1>8, <1>9, <1>10 DEF Next

\* Every reachable state of the ledger is well typed.
THEOREM TypeCorrect == Spec => []TypeOK
  BY TypeInit, TypeStep, PTL DEF Spec

-----------------------------------------------------------------------------
(* The safety invariants.                                                  *)

\* The inductive invariant.  NewestTouchWins and TieIsUncertain need each
\* other: a fresh row has no older events, because logged events have a row.
LedgerInv == TypeOK /\ NewestTouchWins /\ TieIsUncertain /\ CurrentFenceIsFresh

\* A step that keeps the log and every row's position, and takes no row out
\* of `uncertain' or out of existence, keeps the two invariants on positions.
PositionsKept ==
  /\ log' = log
  /\ \A l \in Leads :
       /\ watch'[l].at = watch[l].at
       /\ watch'[l].recv = watch[l].recv
       /\ watch[l].state = "none" <=> watch'[l].state = "none"
       /\ watch[l].state = "uncertain" => watch'[l].state = "uncertain"

\* A step that keeps the log and the positions keeps the newest touches and the ties.
LEMMA PositionsKeptPreserves ==
  ASSUME TypeOK, NewestTouchWins, TieIsUncertain, PositionsKept
  PROVE  NewestTouchWins' /\ TieIsUncertain'
<1>1. \A e \in log : e.lead \in Leads
  BY DEF TypeOK, Events
<1> QED
  BY <1>1 DEF NewestTouchWins, TieIsUncertain, PositionsKept, Before, SamePosition

\* A step that leaves every claim alone, and every row either at its position
\* or without a claimant, keeps the fence invariant.
FencesKept ==
  /\ claim' = claim
  /\ \A l \in Leads :
       \/ watch'[l].state \notin ClaimStates
       \/ /\ watch[l].state \in ClaimStates
          /\ watch'[l].at = watch[l].at
          /\ watch'[l].recv = watch[l].recv
          /\ watch'[l].token = watch[l].token
          /\ watch'[l].gen = watch[l].gen

\* A step that hands out no fence and keeps the matching rows keeps the fences fresh.
LEMMA FencesKeptPreserves ==
  ASSUME TypeOK, CurrentFenceIsFresh, FencesKept
  PROVE  CurrentFenceIsFresh'
<1> SUFFICES ASSUME NEW c \in Claimants, claim'[c] # NoClaim,
                    IsFinishable(watch'[claim'[c].lead], Fence(c)')
             PROVE  SamePosition(watch'[claim'[c].lead], claim'[c])
  BY DEF CurrentFenceIsFresh
<1>1. claim[c] = claim'[c] /\ claim[c].lead \in Leads
  BY DEF FencesKept, TypeOK, Claims
<1>2. IsFinishable(watch[claim[c].lead], Fence(c))
  BY <1>1 DEF FencesKept, IsFinishable, HoldsFence, Fence
<1>3. SamePosition(watch[claim[c].lead], claim[c])
  BY <1>1, <1>2 DEF CurrentFenceIsFresh
<1>4. watch'[claim[c].lead].state \in ClaimStates
  BY <1>1 DEF IsFinishable
<1> QED
  BY <1>1, <1>3, <1>4 DEF FencesKept, SamePosition

\* The empty ledger satisfies the inductive invariant.
LEMMA LedgerInit == Init => LedgerInv
  BY TypeInit DEF Init, LedgerInv, NewestTouchWins, TieIsUncertain, CurrentFenceIsFresh

\* Recording an event keeps the newest touch, the ties and the fences right.
LEMMA RecordKeepsLedger ==
  ASSUME LedgerInv, NEW f \in Fingerprints, NEW r \in Stamps, RecordLeadEvent(f, r)
  PROVE  NewestTouchWins' /\ TieIsUncertain' /\ CurrentFenceIsFresh'
<1> DEFINE e == EventOf(f, r)
<1> DEFINE w == watch[e.lead]
<1>1. /\ e \in Events /\ e.lead \in Leads /\ e.at \in Nat /\ e.recv \in Nat
      /\ w \in Rows /\ w.at \in Nat /\ w.recv \in Nat
  BY StampsAssumption DEF LedgerInv, TypeOK, EventOf, Events, Touches, Rows
<1>2. \A d \in log : d.lead \in Leads /\ d.at \in Nat /\ d.recv \in Nat
  BY StampsAssumption DEF LedgerInv, TypeOK, Events
<1>3. /\ log' = log \cup {e}
      /\ watch'[e.lead] = RecordEvent(w, e)
      /\ \A l \in Leads : l # e.lead => watch'[l] = watch[l]
      /\ claim' = claim
  BY <1>1 DEF RecordLeadEvent, LedgerInv, TypeOK
<1> HIDE DEF e, w
\* What the row looks like afterwards, by the branch recordEvent takes.
<1>4. CASE w.state = "none"
  <2>1. /\ watch'[e.lead].state = "watching"
        /\ watch'[e.lead].at = e.at /\ watch'[e.lead].recv = e.recv
    BY <1>3, <1>4 DEF RecordEvent, NewWatch, Absent
  <2>2. \A d \in log : d.lead # e.lead
    BY <1>4 DEF LedgerInv, NewestTouchWins, w
  <2>3. NewestTouchWins'
    BY <1>1, <1>2, <1>3, <2>1, <2>2 DEF LedgerInv, NewestTouchWins, Before
  <2>4. TieIsUncertain'
    BY <1>2, <1>3, <2>1, <2>2 DEF LedgerInv, TieIsUncertain, SamePosition
  <2>5. FencesKept
    BY <1>3, <2>1 DEF FencesKept, ClaimStates
  <2> QED
    BY <2>3, <2>4, <2>5, FencesKeptPreserves DEF LedgerInv
<1>5. CASE w.state # "none" /\ Before(w, e)
  <2>1. /\ watch'[e.lead].state = "watching"
        /\ watch'[e.lead].at = e.at /\ watch'[e.lead].recv = e.recv
    <3>0. ~SamePosition(w, e)
      BY <1>1, <1>5 DEF Before, SamePosition
    <3>1. watch'[e.lead] = Advance(w, e)
      BY <1>3, <1>5, <3>0 DEF RecordEvent
    <3> QED
      BY <1>1, <3>1 DEF Advance, Rows
  <2>2. \A d \in log : d.lead = e.lead => Before(d, e)
    BY <1>1, <1>2, <1>5 DEF LedgerInv, NewestTouchWins, Before, w
  <2>3. NewestTouchWins'
    BY <1>1, <1>2, <1>3, <2>1, <2>2 DEF LedgerInv, NewestTouchWins, Before
  <2>4. TieIsUncertain'
    BY <1>1, <1>2, <1>3, <2>1, <2>2 DEF LedgerInv, TieIsUncertain, SamePosition, Before
  <2>5. FencesKept
    BY <1>3, <2>1 DEF FencesKept, ClaimStates
  <2> QED
    BY <2>3, <2>4, <2>5, FencesKeptPreserves DEF LedgerInv
<1>6. CASE w.state # "none" /\ SamePosition(w, e)
  <2>0. ~Before(w, e)
    BY <1>1, <1>6 DEF Before, SamePosition
  <2>1. /\ watch'[e.lead].state = "uncertain"
        /\ watch'[e.lead].at = w.at /\ watch'[e.lead].recv = w.recv
    BY <1>1, <1>3, <1>6, <2>0 DEF RecordEvent, OrderConflict, Rows
  <2>3. NewestTouchWins'
    BY <1>1, <1>2, <1>3, <1>6, <2>0, <2>1 DEF LedgerInv, NewestTouchWins, Before, w
  <2>4. TieIsUncertain'
    BY <1>1, <1>2, <1>3, <2>1 DEF LedgerInv, TieIsUncertain, SamePosition
  <2>5. FencesKept
    BY <1>3, <2>1 DEF FencesKept, ClaimStates
  <2> QED
    BY <2>3, <2>4, <2>5, FencesKeptPreserves DEF LedgerInv
<1>7. CASE w.state # "none" /\ ~Before(w, e) /\ ~SamePosition(w, e)
  <2>1. watch'[e.lead] = w
    BY <1>3, <1>7 DEF RecordEvent
  <2>2. \A l \in Leads : watch'[l] = watch[l]
    BY <1>3, <2>1 DEF w
  <2>3. NewestTouchWins'
    BY <1>1, <1>2, <1>3, <1>7, <2>2 DEF LedgerInv, NewestTouchWins, w
  <2>4. TieIsUncertain'
    BY <1>1, <1>2, <1>3, <1>7, <2>2 DEF LedgerInv, TieIsUncertain, SamePosition, w
  <2>5. FencesKept
    BY <1>3, <2>2 DEF FencesKept
  <2> QED
    BY <2>3, <2>4, <2>5, FencesKeptPreserves DEF LedgerInv
<1> QED
  BY <1>4, <1>5, <1>6, <1>7

\* Every step keeps the inductive invariant.
LEMMA LedgerStep == LedgerInv /\ [Next]_vars => LedgerInv'
<1> SUFFICES ASSUME LedgerInv, [Next]_vars PROVE LedgerInv'
  OBVIOUS
<1>t. TypeOK'
  BY TypeStep DEF LedgerInv
<1> USE DEF LedgerInv
<1>r. \A l \in Leads : watch[l] \in Rows
  BY DEF TypeOK
<1>1. ASSUME NEW f \in Fingerprints, NEW r \in Stamps, RecordLeadEvent(f, r)
      PROVE  LedgerInv'
  BY <1>t, <1>1, RecordKeepsLedger
<1>2. ASSUME NEW c \in Claimants, NEW l \in Leads, ClaimDueWatch(c, l)
      PROVE  LedgerInv'
  <2>1. /\ watch[l] \in Rows
        /\ \A k \in Leads : k # l => watch'[k] = watch[k]
        /\ watch'[l] = Claim(watch[l], c)
        /\ watch[l].state = "watching"
    BY <1>2 DEF ClaimDueWatch, TypeOK, Claimable
  <2>2. /\ watch'[l].state = "leased" /\ watch'[l].token = c
        /\ watch'[l].at = watch[l].at /\ watch'[l].recv = watch[l].recv
    BY <2>1 DEF Claim, Rows
  <2>3. PositionsKept
    BY <1>2, <2>1, <2>2 DEF PositionsKept, ClaimDueWatch
  <2>4. CurrentFenceIsFresh'
    <3> SUFFICES ASSUME NEW d \in Claimants, claim'[d] # NoClaim,
                        IsFinishable(watch'[claim'[d].lead], Fence(d)')
                 PROVE  SamePosition(watch'[claim'[d].lead], claim'[d])
      BY DEF CurrentFenceIsFresh
    <3>1. CASE d = c
      BY <1>2, <2>2, <3>1 DEF ClaimDueWatch, SamePosition, TypeOK
    <3>2. CASE d # c
      <4>1. claim'[d] = claim[d] /\ claim[d].lead \in Leads
        BY <1>2, <3>2 DEF ClaimDueWatch, TypeOK, Claims
      <4>2. claim[d].lead # l
        BY <2>2, <3>2, <4>1 DEF IsFinishable, HoldsFence, Fence
      <4> QED
        BY <2>1, <4>1, <4>2 DEF CurrentFenceIsFresh, Fence
    <3> QED
      BY <3>1, <3>2
  <2> QED
    BY <1>t, <2>3, <2>4, PositionsKeptPreserves
<1>3. ASSUME NEW c \in Claimants, BeginMoveMutation(c)
      PROVE  LedgerInv'
  <2> DEFINE l == claim[c].lead
  <2>1. /\ l \in Leads
        /\ \A k \in Leads : k # l => watch'[k] = watch[k]
        /\ watch'[l] = BeginMove(watch[l])
        /\ watch[l].state = "leased"
    BY <1>3 DEF BeginMoveMutation, TypeOK, Claims, IsClaimCurrent
  <2> HIDE DEF l
  <2>2. /\ watch'[l].state = "mutating"
        /\ watch'[l].at = watch[l].at /\ watch'[l].recv = watch[l].recv
        /\ watch'[l].token = watch[l].token /\ watch'[l].gen = watch[l].gen
    BY <1>r, <2>1 DEF BeginMove, Rows
  <2>3. PositionsKept
    BY <1>3, <2>1, <2>2 DEF PositionsKept, BeginMoveMutation
  <2>4. FencesKept
    BY <1>3, <2>1, <2>2 DEF FencesKept, BeginMoveMutation, ClaimStates
  <2> QED
    BY <1>t, <2>3, <2>4, PositionsKeptPreserves, FencesKeptPreserves
<1>4. ASSUME NEW c \in Claimants, NEW s \in FinishStates, FinishWatchClaim(c, s)
      PROVE  LedgerInv'
  <2> DEFINE l == claim[c].lead
  <2>1. /\ l \in Leads
        /\ \A k \in Leads : k # l => watch'[k] = watch[k]
        /\ watch'[l] = Finish(watch[l], s)
        /\ watch[l].state \in ClaimStates
        /\ claim' = [claim EXCEPT ![c] = NoClaim]
    BY <1>4 DEF FinishWatchClaim, TypeOK, Claims, IsFinishable
  <2> HIDE DEF l
  <2>2. /\ watch'[l].state = s /\ s \notin ClaimStates /\ s # "none"
        /\ watch'[l].at = watch[l].at /\ watch'[l].recv = watch[l].recv
    BY <1>r, <2>1 DEF Finish, Rows, FinishStates, FinalStates, ClaimStates
  <2>3. PositionsKept
    BY <1>4, <2>1, <2>2 DEF PositionsKept, FinishWatchClaim, ClaimStates
  <2>4. CurrentFenceIsFresh'
    <3> SUFFICES ASSUME NEW d \in Claimants, claim'[d] # NoClaim,
                        IsFinishable(watch'[claim'[d].lead], Fence(d)')
                 PROVE  SamePosition(watch'[claim'[d].lead], claim'[d])
      BY DEF CurrentFenceIsFresh
    <3>1. d # c /\ claim'[d] = claim[d] /\ claim[d].lead \in Leads
      BY <2>1 DEF TypeOK, Claims
    <3>2. claim[d].lead # l
      BY <2>2, <3>1 DEF IsFinishable
    <3> QED
      BY <2>1, <3>1, <3>2 DEF CurrentFenceIsFresh, Fence
  <2> QED
    BY <1>t, <2>3, <2>4, PositionsKeptPreserves
<1>5. ASSUME NEW c \in Claimants, AbandonClaim(c)
      PROVE  LedgerInv'
  <2>1. PositionsKept
    BY <1>5 DEF AbandonClaim, PositionsKept
  <2>2. CurrentFenceIsFresh'
    BY <1>5 DEF AbandonClaim, CurrentFenceIsFresh, TypeOK, Fence
  <2> QED
    BY <1>t, <2>1, <2>2, PositionsKeptPreserves
<1>6. CASE ReleaseExpiredWatchLeases
  <2>1. \A l \in Leads : \/ watch'[l] = watch[l]
                         \/ /\ watch'[l] = ReleaseLease(watch[l])
                            /\ watch[l].state \in ClaimStates
    BY <1>6 DEF ReleaseExpiredWatchLeases, IsLapsed
  <2>2. \A l \in Leads : \/ watch'[l] = watch[l]
                         \/ /\ watch'[l].state = "watching"
                            /\ watch'[l].at = watch[l].at
                            /\ watch'[l].recv = watch[l].recv
                            /\ watch[l].state \in ClaimStates
    <3>1. \A l \in Leads : /\ ReleaseLease(watch[l]).state = "watching"
                           /\ ReleaseLease(watch[l]).at = watch[l].at
                           /\ ReleaseLease(watch[l]).recv = watch[l].recv
      BY <1>r DEF ReleaseLease, Rows
    <3> QED
      BY <2>1, <3>1
  <2>3. PositionsKept
    BY <1>6, <2>2 DEF PositionsKept, ReleaseExpiredWatchLeases, ClaimStates
  <2>4. FencesKept
    BY <1>6, <2>2 DEF FencesKept, ReleaseExpiredWatchLeases, ClaimStates
  <2> QED
    BY <1>t, <2>3, <2>4, PositionsKeptPreserves, FencesKeptPreserves
<1>7. CASE ClearActiveWatches
  <2>1. \A l \in Leads : \/ watch'[l] = watch[l]
                         \/ /\ watch'[l].state = "skipped"
                            /\ watch'[l].at = watch[l].at
                            /\ watch'[l].recv = watch[l].recv
                            /\ watch[l].state \in {"watching", "leased"}
    BY <1>7, <1>r DEF ClearActiveWatches, StopClear, Rows
  <2>2. PositionsKept
    BY <1>7, <2>1 DEF PositionsKept, ClearActiveWatches
  <2>3. FencesKept
    BY <1>7, <2>1 DEF FencesKept, ClearActiveWatches, ClaimStates
  <2> QED
    BY <1>t, <2>2, <2>3, PositionsKeptPreserves, FencesKeptPreserves
<1>8. ASSUME NEW l \in Leads, BecomeDue(l)
      PROVE  LedgerInv'
  <2>1. PositionsKept /\ FencesKept
    BY <1>8, <1>r DEF PositionsKept, FencesKept, BecomeDue, TypeOK, Rows
  <2> QED
    BY <1>t, <2>1, PositionsKeptPreserves, FencesKeptPreserves
<1>9. ASSUME NEW l \in Leads, LeaseLapses(l)
      PROVE  LedgerInv'
  <2>1. PositionsKept /\ FencesKept
    BY <1>9, <1>r DEF PositionsKept, FencesKept, LeaseLapses, TypeOK, Rows
  <2> QED
    BY <1>t, <2>1, PositionsKeptPreserves, FencesKeptPreserves
<1>10. CASE UNCHANGED vars
  <2>1. NewestTouchWins' /\ TieIsUncertain'
    BY <1>10 DEF vars, NewestTouchWins, TieIsUncertain
  <2>2. CurrentFenceIsFresh'
    BY <1>10 DEF vars, CurrentFenceIsFresh, Fence
  <2> QED
    BY <1>t, <2>1, <2>2
<1> QED
  BY <1>1, <1>2, <1>3, <1>4, <1>5, <1>6, <1>7, <1>8, <1>9, <1>10 DEF Next

\* The three safety invariants hold in every reachable state.
LEMMA LedgerSafe == Spec => [](NewestTouchWins /\ TieIsUncertain /\ CurrentFenceIsFresh)
<1>1. LedgerInv => NewestTouchWins /\ TieIsUncertain /\ CurrentFenceIsFresh
  BY DEF LedgerInv
<1> QED
  BY LedgerInit, LedgerStep, <1>1, PTL DEF Spec

\* However late, often or out of order the touches arrive (recordEvent), the watch of a
\* lead stands at the newest of them.
THEOREM NewestWins == Spec => []NewestTouchWins
BY LedgerSafe, PTL

\* Two touches level at the newest position make the lead uncertain, whatever workers and
\* sweeps of leases do meanwhile (the fail-closed branch of recordEvent).
THEOREM TiesStop == Spec => []TieIsUncertain
BY LedgerSafe, PTL

\* A worker whose fence still matches (isMoveMutationCurrent, finishWatchClaim) has missed
\* no touch since it claimed the watch.
THEOREM FencesAreFresh == Spec => []CurrentFenceIsFresh
BY LedgerSafe, PTL

-----------------------------------------------------------------------------
(* The action property.                                                    *)

\* Only an event newer than the row takes a finished watch back to the queue.
LEMMA FinishedStep ==
  ASSUME LedgerInv, [Next]_vars, NEW l \in Leads,
         watch[l].state \in FinalStates, watch'[l].state \notin FinalStates
  PROVE  Before(watch[l], watch'[l])
<1> USE DEF LedgerInv, TypeOK
<1>0. watch[l] \in Rows
  OBVIOUS
<1>1. ASSUME NEW f \in Fingerprints, NEW r \in Stamps, RecordLeadEvent(f, r)
      PROVE  Before(watch[l], watch'[l])
  <2> DEFINE e == EventOf(f, r)
  <2>1. e.lead \in Leads /\ e.at \in Nat /\ e.recv \in Nat
    BY StampsAssumption DEF EventOf, Touches
  <2>2. watch' = [watch EXCEPT ![e.lead] = RecordEvent(@, e)]
    BY <1>1 DEF RecordLeadEvent
  <2> HIDE DEF e
  <2>3. e.lead = l /\ watch'[l] = RecordEvent(watch[l], e)
    BY <2>1, <2>2
  <2>4. watch[l].state # "none"
    BY DEF FinalStates
  <2>5. CASE Before(watch[l], e)
    <3>1. ~SamePosition(watch[l], e)
      BY <1>0, <2>1, <2>5 DEF Before, SamePosition, Rows
    <3>2. watch'[l] = Advance(watch[l], e)
      BY <2>3, <2>4, <2>5, <3>1 DEF RecordEvent
    <3>3. watch'[l].at = e.at /\ watch'[l].recv = e.recv
      BY <1>0, <3>2 DEF Advance, Rows
    <3> QED
      BY <2>5, <3>3 DEF Before
  <2>6. CASE ~Before(watch[l], e)
    <3>1. watch'[l] = OrderConflict(watch[l]) \/ watch'[l] = watch[l]
      BY <2>3, <2>4, <2>6 DEF RecordEvent
    <3>2. OrderConflict(watch[l]).state = "uncertain"
      BY <1>0 DEF OrderConflict, Rows
    <3> QED
      BY <3>1, <3>2 DEF FinalStates
  <2> QED
    BY <2>5, <2>6
<1>2. ASSUME NEW c \in Claimants, NEW k \in Leads, ClaimDueWatch(c, k)
      PROVE  FALSE
  BY <1>2 DEF ClaimDueWatch, Claimable, FinalStates
<1>3. ASSUME NEW c \in Claimants, BeginMoveMutation(c)
      PROVE  FALSE
  BY <1>3 DEF BeginMoveMutation, IsClaimCurrent, Claims, FinalStates
<1>4. ASSUME NEW c \in Claimants, NEW s \in FinishStates, FinishWatchClaim(c, s)
      PROVE  FALSE
  BY <1>4 DEF FinishWatchClaim, IsFinishable, Claims, FinalStates, ClaimStates
<1>5. ASSUME NEW c \in Claimants, AbandonClaim(c)
      PROVE  FALSE
  BY <1>5 DEF AbandonClaim
<1>6. CASE ReleaseExpiredWatchLeases
  BY <1>6 DEF ReleaseExpiredWatchLeases, IsLapsed, FinalStates, ClaimStates
<1>7. CASE ClearActiveWatches
  BY <1>7 DEF ClearActiveWatches, StopClear, FinalStates
<1>8. ASSUME NEW k \in Leads, BecomeDue(k)
      PROVE  FALSE
  <2>1. watch'[l].state = watch[l].state
    BY <1>0, <1>8 DEF BecomeDue, Rows
  <2> QED
    BY <2>1
<1>9. ASSUME NEW k \in Leads, LeaseLapses(k)
      PROVE  FALSE
  <2>1. watch'[l].state = watch[l].state
    BY <1>0, <1>9 DEF LeaseLapses, Rows
  <2> QED
    BY <2>1
<1>10. CASE UNCHANGED vars
  BY <1>10 DEF vars
<1> QED
  BY <1>1, <1>2, <1>3, <1>4, <1>5, <1>6, <1>7, <1>8, <1>9, <1>10 DEF Next

\* A finished watch is reopened by a newer touch and by nothing else.
THEOREM FinishedSafe == Spec => FinishedStaysFinished
<1>1. LedgerInv /\ [Next]_vars
      => [\A l \in Leads :
            (watch[l].state \in FinalStates /\ watch'[l].state \notin FinalStates)
            => Before(watch[l], watch'[l])]_vars
  BY FinishedStep
<1> QED
  BY LedgerInit, LedgerStep, <1>1, PTL DEF Spec, FinishedStaysFinished

-----------------------------------------------------------------------------
(* The baseline, which fills the ledger before production (Baseline).      *)
(* The baseline's safety properties for any number of leads and of runs of *)
(* the script, from one inductive invariant: its owner, its progress, and  *)
(* what the watches and the moves rest on.                                 *)

CONSTANTS Born, Runs, Hours, None

VARIABLES baseNow, boundary, baseAt, run, done, mine, pc, todo, listed, source, based,
          baseRows, watched, baseWorker, baseMoves

Base == INSTANCE Baseline WITH now <- baseNow, at <- baseAt, rows <- baseRows, worker <-
        baseWorker, moves <- baseMoves

IInv == /\ Base!TypeOK /\ Base!OneOwner /\ Base!CompleteIsEnrolled /\ Base!MovesAfterBaseline
        /\ Base!Progress /\ Base!WatchesAreAllowed /\ Base!EnrolledHasWatch

\* Nothing is set, enrolled or moved at the start.
LEMMA InitHolds == Base!Dates /\ Base!Init => IInv
BY DEF Base!Dates, Base!Init, IInv, Base!TypeOK, Base!OneOwner, Base!CompleteIsEnrolled,
       Base!MovesAfterBaseline, Base!Progress,
       Base!WatchesAreAllowed, Base!EnrolledHasWatch, Base!Modes

\* Every step keeps the types.
LEMMA BaseTypeStep == Base!Dates /\ Base!TypeOK /\ [Base!Next]_(Base!vars) => Base!TypeOK'
<1> SUFFICES ASSUME Base!Dates, Base!TypeOK, [Base!Next]_(Base!vars) PROVE Base!TypeOK'
  OBVIOUS
<1> USE DEF Base!Dates, Base!TypeOK, Base!Goto, Base!settings, Base!script, Base!Modes,
            Base!Follow
<1>1. ASSUME NEW r \in Runs, Base!ReadAt(r) \/ Base!CreateAt(r) PROVE Base!TypeOK'
  BY <1>1 DEF Base!ReadAt, Base!CreateAt
<1>2. ASSUME NEW r \in Runs, Base!ClaimRun(r) \/ Base!CheckDone(r) \/ Base!List(r) PROVE Base!TypeOK'
  BY <1>2 DEF Base!ClaimRun, Base!CheckDone, Base!List
<1>3. ASSUME NEW r \in Runs, NEW l \in Leads, Base!Enrol(r, l) PROVE Base!TypeOK'
  BY <1>3 DEF Base!Enrol
<1>4. ASSUME NEW r \in Runs, Base!CheckOwner(r) \/ Base!Mark(r) \/ Base!Die(r) PROVE Base!TypeOK'
  BY <1>4 DEF Base!CheckOwner, Base!Mark, Base!Die
<1>5. ASSUME NEW l \in Leads, Base!Record(l) \/ Base!Move(l) \/ Base!SweepMove(l)
      PROVE Base!TypeOK'
  BY <1>5 DEF Base!Record, Base!Move, Base!SweepMove
<1>6. ASSUME NEW mode \in Base!Modes, Base!Deploy(mode) PROVE Base!TypeOK'
  BY <1>6 DEF Base!Deploy
<1>7. CASE Base!Activate \/ Base!OpenPass \/ Base!Rearrange \/ Base!Clear \/ Base!Tick
  BY <1>7 DEF Base!Activate, Base!OpenPass, Base!Rearrange, Base!Clear, Base!Tick
<1>8. CASE UNCHANGED Base!vars
  BY <1>8 DEF Base!vars
<1> QED BY <1>1, <1>2, <1>3, <1>4, <1>5, <1>6, <1>7, <1>8 DEF Base!Next, Base!Script

\* The marker goes to one run, which alone reaches the later steps; it writes the
\* completion when no listed lead is left.
LEMMA ScriptStep ==
  Base!Dates /\ IInv /\ [Base!Next]_(Base!vars) => Base!OneOwner' /\ Base!Progress' /\ Base!CompleteIsEnrolled'
<1> DEFINE Goal == Base!OneOwner /\ Base!Progress /\ Base!CompleteIsEnrolled
<1> SUFFICES ASSUME Base!Dates, IInv, [Base!Next]_(Base!vars) PROVE Goal'
  OBVIOUS
<1> USE DEF Base!Goto, Base!OneOwner, Base!Progress, Base!CompleteIsEnrolled, Base!settings,
            Base!script
<1>0. /\ pc \in [Runs -> {"new", "create", "claim", "claimed", "list", "enrol", "mark",
                          "finished", "dead"}]
      /\ todo \in [Runs -> SUBSET Leads] /\ listed \in [Runs -> SUBSET Leads]
      /\ run \in Runs \cup {None} /\ None \notin Runs /\ source \subseteq Leads
      /\ Base!OneOwner /\ Base!Progress /\ Base!CompleteIsEnrolled
  BY DEF IInv, Base!TypeOK, Base!Dates
<1> HIDE DEF IInv
<1>1. ASSUME NEW r \in Runs, Base!ReadAt(r) \/ Base!CreateAt(r) \/ Base!Die(r) PROVE Goal'
  BY <1>0, <1>1 DEF Base!ReadAt, Base!CreateAt, Base!Die
<1>2. ASSUME NEW r \in Runs, Base!ClaimRun(r) PROVE Goal'
  BY <1>0, <1>2 DEF Base!ClaimRun
<1>3. ASSUME NEW r \in Runs, Base!CheckDone(r) PROVE Goal'
  BY <1>0, <1>3 DEF Base!CheckDone
<1>4. ASSUME NEW r \in Runs, Base!List(r) PROVE Goal'
  BY <1>0, <1>4 DEF Base!List
<1>5. ASSUME NEW r \in Runs, NEW l \in Leads, Base!Enrol(r, l) PROVE Goal'
  BY <1>0, <1>5 DEF Base!Enrol
<1>6. ASSUME NEW r \in Runs, Base!CheckOwner(r) PROVE Goal'
  BY <1>0, <1>6 DEF Base!CheckOwner
<1>7. ASSUME NEW r \in Runs, Base!Mark(r) PROVE Goal'
  BY <1>0, <1>7 DEF Base!Mark
<1>8. ASSUME NEW l \in Leads, Base!Record(l) \/ Base!Move(l) \/ Base!SweepMove(l) PROVE Goal'
  BY <1>0, <1>8 DEF Base!Record, Base!Move, Base!SweepMove
<1>9. CASE (\E mode \in Base!Modes : Base!Deploy(mode)) \/ Base!Activate \/ Base!OpenPass \/ Base!Rearrange \/ Base!Clear \/ Base!Tick
  BY <1>0, <1>9 DEF Base!Deploy, Base!Activate, Base!OpenPass, Base!Rearrange, Base!Clear,
                    Base!Tick
<1>10. CASE UNCHANGED Base!vars
  BY <1>0, <1>10 DEF Base!vars
<1> QED BY <1>1, <1>2, <1>3, <1>4, <1>5, <1>6, <1>7, <1>8, <1>9, <1>10 DEF Base!Next,
     Base!Script

\* A pass is open only after completion, and a watch belongs to a lead that is enrolled
\* or was created after the boundary.
LEMMA WorkerStep ==
  Base!Dates /\ IInv /\ [Base!Next]_(Base!vars) => Base!MovesAfterBaseline' /\ Base!WatchesAreAllowed' /\ Base!EnrolledHasWatch'
<1> DEFINE Goal == Base!MovesAfterBaseline /\ Base!WatchesAreAllowed /\ Base!EnrolledHasWatch
<1> SUFFICES ASSUME Base!Dates, IInv, [Base!Next]_(Base!vars) PROVE Goal'
  OBVIOUS
<1> USE DEF Base!Goto, Base!Follow, Base!MovesAfterBaseline, Base!WatchesAreAllowed,
            Base!EnrolledHasWatch, Base!Admitted, Base!settings, Base!script
<1>0. /\ baseNow \in Nat /\ boundary \in Nat \cup {None} /\ None \notin Nat \cup Runs
      /\ Born \in [Leads -> Nat]
      /\ Base!MovesAfterBaseline /\ Base!WatchesAreAllowed /\ Base!EnrolledHasWatch
  BY DEF IInv, Base!TypeOK, Base!Dates
<1> HIDE DEF IInv
<1>1. ASSUME NEW r \in Runs, NEW l \in Leads, Base!Enrol(r, l) PROVE Goal'
  BY <1>0, <1>1 DEF Base!Enrol
<1>2. ASSUME NEW r \in Runs, Base!Mark(r) PROVE Goal'
  <2>1. done # None => done' # None
    BY <1>2 DEF Base!Mark
  <2> QED BY <1>0, <1>2, <2>1 DEF Base!Mark
<1>3. ASSUME NEW r \in Runs, Base!Script(r), ~Base!Mark(r), \A l \in Leads : ~Base!Enrol(r, l) PROVE Goal'
  BY <1>0, <1>3 DEF Base!Script, Base!ReadAt, Base!CreateAt, Base!ClaimRun, Base!CheckDone,
                    Base!List, Base!CheckOwner, Base!Die
<1>4. ASSUME NEW l \in Leads, Base!Record(l) PROVE Goal'
  BY <1>0, <1>4 DEF Base!Record
<1>5. ASSUME NEW l \in Leads, Base!Move(l) \/ Base!SweepMove(l) PROVE Goal'
  BY <1>0, <1>5 DEF Base!Move, Base!SweepMove
<1>6. CASE Base!Activate
  BY <1>0, <1>6 DEF Base!Activate
<1>7. CASE (\E mode \in Base!Modes : Base!Deploy(mode)) \/ Base!OpenPass
  BY <1>0, <1>7 DEF Base!Deploy, Base!OpenPass, Base!Modes
<1>8. CASE Base!Rearrange \/ Base!Clear \/ Base!Tick
  BY <1>0, <1>8 DEF Base!Rearrange, Base!Clear, Base!Tick
<1>9. CASE UNCHANGED Base!vars
  BY <1>0, <1>9 DEF Base!vars
<1> QED BY <1>1, <1>2, <1>3, <1>4, <1>5, <1>6, <1>7, <1>8, <1>9 DEF Base!Next

LEMMA Invariant == ASSUME Base!Dates PROVE Base!Spec => []IInv
<1>1. IInv /\ [Base!Next]_(Base!vars) => IInv'
  BY BaseTypeStep, ScriptStep, WorkerStep DEF IInv
<1> QED BY <1>1, InitHolds, PTL DEF Base!Spec

\* However many runs of the script are started, and wherever they die, one enrols, and
\* the completion marker means that all it was listed is enrolled
\* (beginProductionBaseline, completeProductionBaseline).
THEOREM BaselineIsComplete == ASSUME Base!Dates PROVE Base!Spec => [](Base!OneOwner /\ Base!CompleteIsEnrolled)
BY Invariant, PTL DEF IInv

\* The worker in production moves nothing before the baseline is complete, and never a
\* historical lead that was not enrolled (runOnce, recordEvent).  This binds the worker
\* alone: a sweep's moves, taken at any time, neither wait for the baseline nor disturb
\* what it promises of the worker (moveSweepCandidates).
THEOREM WorkerWaits == ASSUME Base!Dates PROVE Base!Spec => []Base!MovesAfterBaseline
BY Invariant, PTL DEF IInv

\* No lead is enrolled without a watch row, so the error of a duplicate event without
\* one (recordEvent) cannot end a run of the script.
THEOREM EnrolmentHasItsWatch == ASSUME Base!Dates PROVE Base!Spec => []Base!EnrolledHasWatch
BY Invariant, PTL DEF IInv

\* A run that dies with the marker blocks production for good: no later run of the
\* script completes the baseline in its place.
THEOREM PartialRunBlocks == ASSUME Base!Dates PROVE Base!Spec => Base!StaysIncomplete
<1> DEFINE Blocked == run # None /\ pc[run] = "dead" /\ done = None => done' = None
<1>1. IInv /\ [Base!Next]_(Base!vars) => [Blocked]_(Base!vars)
  <2> SUFFICES ASSUME IInv, [Base!Next]_(Base!vars), run # None, pc[run] = "dead", done = None
               PROVE  done' = None
    OBVIOUS
  <2>1. ASSUME NEW r \in Runs, Base!Mark(r) PROVE FALSE
    BY <2>1 DEF Base!Mark, IInv, Base!OneOwner
  <2>2. ASSUME NEW r \in Runs, Base!Script(r) PROVE done' = None
    BY <2>1, <2>2 DEF Base!Script, Base!ReadAt, Base!CreateAt, Base!ClaimRun, Base!CheckDone,
                      Base!List, Base!Enrol, Base!CheckOwner,
                      Base!Die, Base!settings
  <2>3. CASE ~\E r \in Runs : Base!Script(r)
    BY <2>3 DEF Base!Next, Base!Record, Base!Move, Base!SweepMove, Base!Deploy, Base!Activate, Base!OpenPass,
                Base!Rearrange, Base!Clear, Base!Tick, Base!vars,
                Base!settings
  <2> QED BY <2>2, <2>3
<1> QED BY <1>1, Invariant, PTL DEF Base!Spec, Base!StaysIncomplete
=============================================================================
