-------------------------- MODULE CallStage_proofs ---------------------------
(***************************************************************************)
(* Call-stage automation moves a deal once, forward, within a test slot,   *)
(* and its ledger tells the truth of it, for any number of calls, deals,   *)
(* runs and slots.                                                         *)
(***************************************************************************)
EXTENDS CallStage, FiniteSetTheorems, WellFoundedInduction, TLAPS

\* A run that has claimed the move, without a slot yet, and from there on.
Deciding == {"routing", "filling", "rerouting", "history", "reserving",
             "skipped_early", "blocked_early", "uncertain_early"}
Slotted == {"source", "fence", "fence_history", "source_again", "fence_again",
            "fence_again_history", "last_fence", "last_fence_history", "patch", "readback",
            "readback_unsure", "noting", "confirming", "skipped", "blocked", "uncertain",
            "release", "spend"}
Claimed == (Deciding \cup Slotted) \ {"release", "spend"}

\* A run whose PATCH may have been applied, and one that has read, for the last
\* time, where its deal stands.
Tried == {"readback", "readback_unsure", "noting", "confirming", "uncertain", "spend"}
Checked == {"fence_again", "fence_again_history", "last_fence", "last_fence_history"}

-----------------------------------------------------------------------------
(* The inductive invariant.                                                *)

\* The types, but for the fields that a run is filling in.
Shape ==
  /\ known \subseteq Calls /\ eligible \subseteq Calls
  /\ live \in BOOLEAN
  /\ action \in [Calls -> [status : Statuses, target : Targets \cup {Nobody},
                           token : Runs \cup {Nobody}, lapsed : BOOLEAN]]
  /\ slots \in [Slots -> [state : {"free", "reserved", "confirmed", "uncertain"},
                          call : Calls \cup {Nobody}, deal : Deals \cup {Nobody},
                          lapsed : BOOLEAN]]
  /\ lead \in [Deals -> [stage : Stages \cup Targets, moved : BOOLEAN,
                         fields : [Fields -> [value : Values, by : {"person", "model"}]]]]
  /\ sent \in [Calls -> Nat]
  /\ job \in [Runs -> [pc : Steps, call : Calls \cup {Nobody},
                       source : Stages \cup Targets \cup {Nobody}, moved : BOOLEAN]]

AskedShape == asked \in [Runs -> SUBSET Fields]

\* A run works on an eligible call, and past the analysis only when live.
AtWork ==
  \A r \in Runs : Running(r) =>
    /\ job[r].call \in known \cap eligible
    /\ job[r].pc \notin {"looking", "creating", "reclaiming", "analyzing"} => live

\* The ledger stands where the run is that has claimed the move, and there is one.
Claims ==
  /\ \A r \in Runs :
       /\ job[r].pc \in Claimed => Holds(r)
       /\ job[r].pc = "release" =>
            action[job[r].call].status \in {"skipped", "blocked_missing_fields"}
       /\ job[r].pc = "spend" => action[job[r].call].status = "uncertain"
  /\ \A r, k \in Runs :
       job[r].pc \in Deciding \cup Slotted /\ job[k].pc \in Deciding \cup Slotted
       /\ job[r].call = job[k].call => r = k

\* Who owns an action that must go on, and what its status says.
Ledger ==
  \A c \in Calls :
    /\ action[c].status \in {"pending_move", "moving"} => action[c].target \in Targets
    /\ action[c].status = "analyzing" =>
         /\ action[c].token \in Runs
         /\ \/ At(action[c].token, "crashed")
            \/ At(action[c].token, "analyzing") /\ job[action[c].token].call = c
    /\ action[c].status = "moving" =>
         /\ action[c].token \in Runs
         /\ \/ At(action[c].token, "crashed")
            \/ job[action[c].token].pc \in Claimed /\ job[action[c].token].call = c
    /\ action[c].status = "confirmed" <=>
         \E n \in Slots : slots[n].state = "confirmed" /\ slots[n].call = c

\* A slot of this rollout in use is of one call and its deal, no other slot is of
\* that deal, and a reservation is of a run at work or crashed.
SlotsOk ==
  /\ \A n \in Slots :
       /\ slots[n].state = "free" => slots[n].call = Nobody /\ slots[n].deal = Nobody
       /\ n < FirstSlot => slots[n].call = Nobody /\ slots[n].state \in {"free", "confirmed"}
       /\ n >= FirstSlot /\ slots[n].state # "free" =>
            slots[n].call \in Calls /\ slots[n].deal = DealOf[slots[n].call]
       /\ slots[n].state = "reserved" =>
            \E r \in Runs : \/ At(r, "crashed")
                            \/ job[r].pc \in Slotted /\ job[r].call = slots[n].call
  /\ \A n, m \in Slots : slots[n].deal = slots[m].deal /\ slots[n].deal # Nobody => n = m

\* The run between its reservation and its end has its slot, expired or not.
HasSlot ==
  \A r \in Runs : job[r].pc \in Slotted =>
    \E n \in Slots : slots[n].call = job[r].call /\ slots[n].state \in {"reserved", "uncertain"}

\* A deal is moved within a slot and once, and not before the run tried.
MovedOnce ==
  /\ \A c \in Calls : sent[c] > 0 => sent[c] = 1 /\ \E n \in Slots : slots[n].call = c
  /\ \A c \in Calls :
       action[c].status \notin {"moving", "confirmed", "uncertain"} => sent[c] = 0
  /\ \A r \in Runs :
       job[r].pc \in (Deciding \cup Slotted) \ Tried => sent[job[r].call] = 0

\* Between the last read of the lead and the PATCH, either the lead stands behind
\* its target or the history will tell that it moved.
Ahead ==
  \A r \in Runs : job[r].pc \in Checked =>
    \/ job[r].moved
    \/ /\ lead[Deal(r)].stage \in DOMAIN StageOrder
       /\ IsForward(lead[Deal(r)].stage, action[job[r].call].target)

IInv == Shape /\ AtWork /\ Claims /\ Ledger /\ SlotsOk /\ HasSlot /\ MovedOnce /\ Ahead


JobRows == [pc : Steps, call : Calls \cup {Nobody}, source : Stages \cup Targets \cup {Nobody},
            moved : BOOLEAN]
Jobs == [Runs -> [pc : Steps, call : Calls \cup {Nobody},
                  source : Stages \cup Targets \cup {Nobody}, moved : BOOLEAN]]
Rows == [status : Statuses, target : Targets \cup {Nobody}, token : Runs \cup {Nobody},
         lapsed : BOOLEAN]
SlotRows == [state : {"free", "reserved", "confirmed", "uncertain"}, call : Calls \cup {Nobody},
             deal : Deals \cup {Nobody}, lapsed : BOOLEAN]
Leads == [stage : Stages \cup Targets, moved : BOOLEAN,
          fields : [Fields -> [value : Values, by : {"person", "model"}]]]

-----------------------------------------------------------------------------
(* What the operators of the module do.                                    *)

\* The steps of a run, the tables of its fences and of its ends.
LEMMA StepSets ==
  /\ DOMAIN FenceNext = {"fence", "fence_history", "fence_again", "fence_again_history",
                         "last_fence", "last_fence_history"}
  /\ DOMAIN Ending = {"skipped_early", "blocked_early", "uncertain_early", "skipped", "blocked",
                      "uncertain"}
  /\ Deciding \cup Slotted \subseteq Steps
  /\ Steps = {"ready", "looking", "creating", "reclaiming", "analyzing", "claiming", "done",
              "crashed"} \cup Deciding \cup Slotted
<1>1. DOMAIN FenceNext = {"fence", "fence_history", "fence_again", "fence_again_history",
                          "last_fence", "last_fence_history"}
  BY DEF FenceNext
<1>2. DOMAIN Ending = {"skipped_early", "blocked_early", "uncertain_early", "skipped", "blocked",
                       "uncertain"}
  BY DEF Ending, Outcome
<1> QED BY <1>1, <1>2 DEF Deciding, Slotted, Steps

\* The stages of the pipeline, and what a target is.
LEMMA StageFacts ==
  /\ Targets = {"takenInWork", "qualified", "ozhop", "formalization", "partiallyPaid",
                "successful", "closedLost"}
  /\ DOMAIN StageOrder = Targets \cup {"newLead"}
  /\ \A s \in DOMAIN StageOrder : IsUzumLead(s)
<1>1. Targets = {"takenInWork", "qualified", "ozhop", "formalization", "partiallyPaid",
                 "successful", "closedLost"}
  BY DEF Targets, TargetOrder
<1>2. DOMAIN StageOrder = Targets \cup {"newLead"}
  BY DEF StageOrder
<1> QED BY <1>1, <1>2 DEF IsUzumLead, Elsewhere

\* How a run goes on: the others stay where they are.
LEMMA GotoFact ==
  ASSUME job \in Jobs, NEW r \in Runs, NEW s \in Steps, Goto(r, s)
  PROVE  /\ job' \in Jobs /\ job'[r].pc = s
         /\ s \notin {"done", "crashed"} => job'[r].call = job[r].call
         /\ s \notin Over => job'[r].moved = job[r].moved
         /\ \A k \in Runs \ {r} : job'[k] = job[k]
<1>1. job[r].call \in Calls \cup {Nobody} /\ job[r].source \in Stages \cup Targets \cup {Nobody}
      /\ job[r].moved \in BOOLEAN
  BY DEF Jobs
<1>2. To(r, s) \in [pc : Steps, call : Calls \cup {Nobody},
                    source : Stages \cup Targets \cup {Nobody}, moved : BOOLEAN]
  <2>1. (s \notin Over /\ job[r].moved) \in BOOLEAN
    OBVIOUS
  <2> QED BY <1>1, <2>1 DEF To
<1>3. /\ To(r, s).pc = s
      /\ s \notin {"done", "crashed"} => To(r, s).call = job[r].call
      /\ s \notin Over => To(r, s).moved = job[r].moved
  BY <1>1 DEF To
<1>4. job' = [job EXCEPT ![r] = To(r, s)]
  BY DEF Goto
<1> QED BY <1>2, <1>3, <1>4 DEF Jobs

-----------------------------------------------------------------------------
(* Steps of a run that change nothing but the run.                         *)

BeforeClaim == {"ready", "looking", "creating", "reclaiming", "analyzing", "claiming"}

\* Reservations may expire, and fields of leads be filled in, at any time.
SlotsAge ==
  /\ slots' \in [Slots -> SlotRows]
  /\ \A n \in Slots :
       /\ slots'[n].call = slots[n].call /\ slots'[n].deal = slots[n].deal
       /\ \/ slots'[n].state = slots[n].state
          \/ slots[n].state = "reserved" /\ slots'[n].state = "uncertain"

LeadsStay ==
  /\ lead' \in [Deals -> Leads]
  /\ \A d \in Deals : lead'[d].stage = lead[d].stage

Unchanged == SlotsAge /\ LeadsStay /\ UNCHANGED <<known, eligible, live, action, sent>>

\* Slots that stand still only age, and deals that stand still stay.
LEMMA SameSlots == Shape /\ slots' = slots => SlotsAge
BY DEF Shape, SlotsAge, SlotRows

LEMMA SameLeads == Shape /\ lead' = lead => LeadsStay
BY DEF Shape, LeadsStay, Leads

\* Where reservations only expire, the slots stay what they are to the ledger.
LEMMA AgeFact ==
  ASSUME IInv, SlotsAge
  PROVE  /\ \A c \in Calls :
              (\E n \in Slots : slots'[n].state = "confirmed" /\ slots'[n].call = c)
              <=> \E n \in Slots : slots[n].state = "confirmed" /\ slots[n].call = c
         /\ \A c : (\E n \in Slots : slots[n].call = c) => \E n \in Slots : slots'[n].call = c
         /\ \A c : (\E n \in Slots : slots[n].call = c
                                      /\ slots[n].state \in {"reserved", "uncertain"})
                   => \E n \in Slots : slots'[n].call = c
                                      /\ slots'[n].state \in {"reserved", "uncertain"}
         /\ (\A n \in Slots : slots[n].state = "reserved" =>
                \E k \in Runs : \/ At(k, "crashed")'
                                \/ job'[k].pc \in Slotted /\ job'[k].call = slots[n].call)
            => SlotsOk'
<1>1. \A n \in Slots : slots[n].state \in {"free", "reserved", "confirmed", "uncertain"}
  BY DEF IInv, Shape
<1>2. \A n \in Slots : n \in Nat /\ FirstSlot \in Nat
  BY StageAssumption DEF Slots
<1>3. SlotsOk
  BY DEF IInv
<1>4. ASSUME \A n \in Slots : slots[n].state = "reserved" =>
               \E k \in Runs : \/ At(k, "crashed")'
                               \/ job'[k].pc \in Slotted /\ job'[k].call = slots[n].call
      PROVE  SlotsOk'
  <2>1. \A n \in Slots : n < FirstSlot => slots'[n].state \in {"free", "confirmed"}
    BY <1>3 DEF SlotsOk, SlotsAge
  <2>2. \A n \in Slots : slots'[n].state = "reserved" => slots[n].state = "reserved"
    BY DEF SlotsAge
  <2>3. \A n \in Slots : slots'[n].state = "free" <=> slots[n].state = "free"
    BY <1>1 DEF SlotsAge
  <2> QED BY <1>3, <1>4, <2>1, <2>2, <2>3 DEF SlotsOk, SlotsAge, At
<1> QED BY <1>1, <1>4 DEF SlotsAge

\* How a run may go on with the ledger as it is.
Passes(r, s) ==
  /\ s \in Steps \ {"ready", "release", "spend"}
  /\ \/ s = "crashed" /\ Running(r)
     \/ job[r].pc \in BeforeClaim /\ s \in {"looking", "creating", "reclaiming", "done"}
     \/ /\ job[r].pc \in Claimed /\ s \in Claimed
        /\ job[r].pc \in Slotted <=> s \in Slotted
        /\ job[r].pc \in Tried => s \in Tried

\* What the run works on: it keeps its call or has just taken one, it owns no
\* analysis it leaves behind, and it is checked again only against a lead ahead.
Carries(r, s) ==
  /\ s \notin {"done", "crashed"} =>
       \/ job[r].pc # "ready" /\ job'[r].call = job[r].call
       \/ s = "looking" /\ job'[r].call \in known \cap eligible
  /\ job[r].pc = "analyzing" =>
       s = "crashed" \/ ~(action[job[r].call].status = "analyzing"
                          /\ action[job[r].call].token = r)
  /\ s \in Checked =>
       \/ job[r].pc \in Checked /\ job'[r].moved = job[r].moved
       \/ /\ lead[Deal(r)].stage \in DOMAIN StageOrder
          /\ IsForward(lead[Deal(r)].stage, action[job[r].call].target)

\* A run goes from one step to another, and nothing else moves: what the invariant asks of it.
LEMMA PassStep ==
  ASSUME IInv, NEW r \in Runs, NEW s, Passes(r, s), Carries(r, s),
         job' \in Jobs, job'[r].pc = s, \A k \in Runs \ {r} : job'[k] = job[k],
         Unchanged
  PROVE  IInv'
<1> USE DEF IInv, Unchanged
<1>s. s \notin {"release", "spend", "ready"} /\ s \in Steps
  BY DEF Passes
<1>c. \/ s = "crashed"
      \/ s \in {"looking", "creating", "reclaiming", "done"} /\ job[r].pc \in BeforeClaim
      \/ /\ s \in Claimed /\ job[r].pc \in Claimed /\ job'[r].call = job[r].call
         /\ job[r].pc \in Slotted <=> s \in Slotted
         /\ job[r].pc \in Tried => s \in Tried
  BY DEF Passes, Carries, Claimed, Deciding, Slotted, BeforeClaim
<1>f. \A k \in Runs \ {r} : job'[k].pc = job[k].pc /\ job'[k].call = job[k].call
        /\ job'[k].moved = job[k].moved
  OBVIOUS
<1>1. Shape'
  BY DEF Shape, Jobs, SlotsAge, LeadsStay, SlotRows, Leads
<1>2. AtWork'
  <2>1. s \notin {"done", "crashed"} => job'[r].call \in known \cap eligible
    BY <1>s DEF Carries, AtWork, Running, Passes, BeforeClaim, Claimed, Deciding, Slotted
  <2>2. s \notin {"looking", "creating", "reclaiming", "analyzing", "done", "crashed"} => live
    BY <1>c DEF AtWork, Running, Claimed, Deciding, Slotted
  <2> QED BY <1>s, <1>f, <2>1, <2>2 DEF AtWork, Running
<1>3. Claims'
  <2>1. \A k \in Runs : job'[k].pc \in Deciding \cup Slotted =>
          job[k].pc \in Deciding \cup Slotted /\ job'[k].call = job[k].call
    BY <1>c, <1>f DEF Claimed, Deciding, Slotted
  <2>2. \A k \in Runs : job'[k].pc \in Claimed => job[k].pc \in Claimed /\ job'[k].call = job[k].call
    BY <1>c, <1>f DEF Claimed, Deciding, Slotted
  <2> QED BY <1>s, <1>f, <2>1, <2>2 DEF Claims, Holds
<1>4. Ledger'
  <2>l. Ledger
    OBVIOUS
  <2>d. Claimed \cap BeforeClaim = {} /\ "analyzing" \notin Claimed
        /\ "crashed" \notin Claimed \cup BeforeClaim
    BY DEF BeforeClaim, Claimed, Deciding, Slotted
  <2> HIDE DEF IInv
  <2>1. ASSUME NEW c \in Calls, action[c].status = "analyzing"
        PROVE  \/ At(action[c].token, "crashed")'
               \/ At(action[c].token, "analyzing")' /\ job'[action[c].token].call = c
    <3> DEFINE t == action[c].token
    <3>1. t \in Runs /\ (job[t].pc = "crashed" \/ (job[t].pc = "analyzing" /\ job[t].call = c))
      BY <2>l, <2>1 DEF Ledger, At
    <3>2. CASE t # r
      BY <1>f, <3>1, <3>2 DEF At
    <3>3. CASE t = r
      <4>1. s = "crashed"
        BY <1>c, <2>1, <2>d, <3>1, <3>3 DEF Carries
      <4> QED BY <3>3, <4>1 DEF At
    <3> QED BY <3>2, <3>3
  <2>2. ASSUME NEW c \in Calls, action[c].status = "moving"
        PROVE  \/ At(action[c].token, "crashed")'
               \/ job'[action[c].token].pc \in Claimed /\ job'[action[c].token].call = c
    <3> DEFINE t == action[c].token
    <3>1. t \in Runs /\ (job[t].pc = "crashed" \/ (job[t].pc \in Claimed /\ job[t].call = c))
      BY <2>l, <2>2 DEF Ledger, At
    <3>2. CASE t # r
      BY <1>f, <3>1, <3>2 DEF At
    <3>3. CASE t = r
      <4>1. s = "crashed" \/ (s \in Claimed /\ job'[r].call = c)
        BY <1>c, <2>d, <3>1, <3>3
      <4> QED BY <3>3, <4>1 DEF At
    <3> QED BY <3>2, <3>3
  <2>3. \A c \in Calls :
          action[c].status = "confirmed" <=>
            \E n \in Slots : slots'[n].state = "confirmed" /\ slots'[n].call = c
    BY <2>l, AgeFact DEF Ledger
  <2> QED BY <2>l, <2>1, <2>2, <2>3 DEF Ledger
<1>5. SlotsOk'
  <2>1. \A k \in Runs : At(k, "crashed") => At(k, "crashed")'
    BY <1>c, <1>f DEF At, BeforeClaim, Claimed, Deciding, Slotted, Passes, Running
  <2>2. \A k \in Runs : job[k].pc \in Slotted =>
          \/ At(k, "crashed")'
          \/ job'[k].pc \in Slotted /\ job'[k].call = job[k].call
    BY <1>c, <1>f DEF At, BeforeClaim, Claimed, Deciding, Slotted
  <2>3. \A n \in Slots : slots[n].state = "reserved" =>
          \E k \in Runs : \/ At(k, "crashed")'
                          \/ job'[k].pc \in Slotted /\ job'[k].call = slots[n].call
    BY <2>1, <2>2 DEF SlotsOk
  <2> HIDE DEF IInv
  <2> QED BY <2>3, AgeFact
<1>6. HasSlot'
  <2>1. \A k \in Runs : job'[k].pc \in Slotted => job[k].pc \in Slotted /\ job'[k].call = job[k].call
    BY <1>c, <1>f DEF BeforeClaim, Claimed, Deciding, Slotted
  <2>2. HasSlot
    OBVIOUS
  <2> HIDE DEF IInv
  <2> QED BY <2>1, <2>2, AgeFact DEF HasSlot
<1>7. MovedOnce'
  <2>1. \A k \in Runs : job'[k].pc \in (Deciding \cup Slotted) \ Tried =>
          job[k].pc \in (Deciding \cup Slotted) \ Tried /\ job'[k].call = job[k].call
    BY <1>c, <1>f DEF BeforeClaim, Claimed, Deciding, Slotted, Tried
  <2>2. MovedOnce
    OBVIOUS
  <2> HIDE DEF IInv
  <2>3. \A c \in Calls : sent[c] > 0 => sent[c] = 1 /\ \E n \in Slots : slots'[n].call = c
    <3>1. \A c \in Calls : sent[c] > 0 => sent[c] = 1 /\ \E n \in Slots : slots[n].call = c
      BY <2>2 DEF MovedOnce
    <3>2. \A c : (\E n \in Slots : slots[n].call = c) => \E n \in Slots : slots'[n].call = c
      BY AgeFact
    <3> QED BY <3>1, <3>2
  <2> QED BY <2>1, <2>2, <2>3 DEF MovedOnce
<1>8. Ahead'
  <2> SUFFICES ASSUME NEW k \in Runs, job'[k].pc \in Checked
               PROVE  \/ job'[k].moved
                      \/ /\ lead'[DealOf[job'[k].call]].stage \in DOMAIN StageOrder
                         /\ IsForward(lead'[DealOf[job'[k].call]].stage,
                                      action[job'[k].call].target)
    BY DEF Ahead, Deal
  <2>1. CASE k # r
    <3>1. job[k].call \in Calls /\ DealOf[job[k].call] \in Deals
      BY <1>f, <2>1, StageAssumption DEF AtWork, Running, Checked, Shape
    <3> QED BY <1>f, <2>1, <3>1 DEF Ahead, Deal, LeadsStay
  <2>2. CASE k = r
    <3>1. job'[r].call = job[r].call /\ s \in Checked
      BY <1>c, <2>2 DEF Checked, Claimed, Deciding, Slotted
    <3>2. job[r].call \in Calls /\ DealOf[job[r].call] \in Deals
      BY <1>2, <2>2, <3>1, StageAssumption DEF AtWork, Running, Checked, Shape
    <3> QED BY <2>2, <3>1, <3>2 DEF Carries, Ahead, Deal, LeadsStay
  <2> QED BY <2>1, <2>2
<1> QED BY <1>1, <1>2, <1>3, <1>4, <1>5, <1>6, <1>7, <1>8

\* The same, for the step as the module writes it.
LEMMA GotoStep ==
  ASSUME IInv, NEW r \in Runs, NEW s, Passes(r, s), Goto(r, s), Unchanged,
         job[r].pc # "ready" \/ s = "done",
         job[r].pc = "analyzing" =>
           s = "crashed" \/ ~(action[job[r].call].status = "analyzing"
                              /\ action[job[r].call].token = r),
         s \in Checked =>
           \/ job[r].pc \in Checked
           \/ /\ lead[Deal(r)].stage \in DOMAIN StageOrder
              /\ IsForward(lead[Deal(r)].stage, action[job[r].call].target)
  PROVE  IInv'
<1>1. job \in Jobs /\ s \in Steps
  BY DEF IInv, Shape, Jobs, Passes
<1>2. /\ job' \in Jobs /\ job'[r].pc = s /\ \A k \in Runs \ {r} : job'[k] = job[k]
      /\ s \notin {"done", "crashed"} => job'[r].call = job[r].call
      /\ s \notin Over => job'[r].moved = job[r].moved
  BY <1>1, GotoFact
<1>3. s \in Checked => s \notin Over
  BY DEF Checked, Over
<1>4. Carries(r, s)
  BY <1>2, <1>3 DEF Carries
<1> QED BY <1>2, <1>4, PassStep DEF Unchanged

\* A run that has claimed the move goes on with it, before or after it has a slot.
LEMMA ClaimedStep ==
  ASSUME IInv, NEW r \in Runs, NEW s, job[r].pc \in Claimed, s \in Claimed,
         job[r].pc \in Slotted <=> s \in Slotted,
         job[r].pc \in Tried => s \in Tried,
         s \notin Checked \/ job[r].pc \in Checked,
         Goto(r, s), Unchanged
  PROVE  IInv'
<1>1. job[r].pc \notin {"ready", "analyzing"}
  BY DEF Claimed, Deciding, Slotted
<1>2. s \in Steps \ {"ready", "release", "spend"}
  BY StepSets DEF Claimed, Deciding, Slotted
<1>3. Passes(r, s)
  BY <1>2 DEF Passes
<1> QED BY <1>1, <1>3, GotoStep

\* Before the claim: nothing is done, or the analysis is another's.
LEMMA FinishStep ==
  ASSUME IInv, NEW r \in Runs, job[r].pc \in BeforeClaim, Finish(r), Unchanged,
         job[r].pc = "analyzing" => ~(action[job[r].call].status = "analyzing"
                                      /\ action[job[r].call].token = r)
  PROVE  IInv'
<1>1. Passes(r, "done") /\ Goto(r, "done")
  BY StepSets DEF Passes, Finish
<1>2. "done" \notin Checked
  BY DEF Checked
<1> QED BY <1>1, <1>2, GotoStep

\* The first look at the call and its lead keeps the invariant.
LEMMA BeginHolds == ASSUME IInv, NEW r \in Runs, Begin(r) PROVE IInv'
<1>1. job[r].pc = "ready" /\ Unchanged
  BY SameSlots, SameLeads DEF Begin, At, Unchanged, IInv
<1>2. CASE Finish(r)
  BY <1>1, <1>2, FinishStep DEF BeforeClaim
<1>3. CASE ~Finish(r)
  <2>1. PICK c \in known :
          /\ c \in eligible
          /\ job' = [job EXCEPT ![r] = [pc |-> "looking", call |-> c, source |-> Nobody,
                                        moved |-> lead[DealOf[c]].moved]]
    BY <1>3 DEF Begin
  <2>2. c \in Calls /\ lead[DealOf[c]].moved \in BOOLEAN
    BY StageAssumption DEF IInv, Shape
  <2>3. /\ job' \in Jobs /\ job'[r].pc = "looking" /\ job'[r].call = c
        /\ \A k \in Runs \ {r} : job'[k] = job[k]
    BY <2>1, <2>2, StepSets DEF IInv, Shape, Jobs
  <2>4. Passes(r, "looking")
    BY <1>1, StepSets DEF Passes, BeforeClaim
  <2>5. Carries(r, "looking")
    BY <1>1, <2>1, <2>3 DEF Carries, Checked
  <2> QED BY <1>1, <2>3, <2>4, <2>5, PassStep DEF Unchanged
<1> QED BY <1>2, <1>3

\* The read of the action keeps the invariant.
LEMMA LookUpHolds == ASSUME IInv, NEW r \in Runs, LookUp(r) PROVE IInv'
<1>1. job[r].pc = "looking" /\ Unchanged
  BY SameSlots, SameLeads DEF LookUp, At, Unchanged, IInv
<1>2. ASSUME NEW s \in {"creating", "reclaiming"}, Goto(r, s) PROVE IInv'
  <2>1. Passes(r, s) /\ s \notin Checked
    BY <1>1, StepSets DEF Passes, BeforeClaim, Checked
  <2> QED BY <1>1, <1>2, <2>1, GotoStep
<1>3. CASE Finish(r)
  BY <1>1, <1>3, FinishStep DEF BeforeClaim
<1>4. Goto(r, "creating") \/ Goto(r, "reclaiming") \/ Finish(r)
  <2> DEFINE row == action[job[r].call]
  <2>1. CASE row.status = "absent" /\ ~(row.status = "analyzing" /\ row.lapsed)
    BY <2>1 DEF LookUp
  <2>2. CASE row.status # "absent" /\ row.status = "analyzing" /\ row.lapsed
    BY <2>2 DEF LookUp
  <2>3. CASE row.status # "absent" /\ ~(row.status = "analyzing" /\ row.lapsed)
    BY <2>3 DEF LookUp
  <2> QED BY <2>1, <2>2, <2>3
<1> QED BY <1>2, <1>3, <1>4

\* The steps of a claimed move that only look.
LEMMA LookingHolds ==
  ASSUME IInv, NEW r \in Runs,
         \/ Reroute(r) \/ History(r) \/ ReadSource(r) \/ FenceLedger(r) \/ FenceHistory(r)
         \/ ReadBack(r) \/ AddNote(r)
  PROVE  IInv'
<1>u. UNCHANGED <<known, eligible, live, action, slots, lead, sent>> => Unchanged
  BY SameSlots, SameLeads DEF Unchanged, IInv
<1> USE DEF At
<1>s. /\ Claimed = (Deciding \cup Slotted) \ {"release", "spend"}
      /\ Deciding \cap Slotted = {} /\ Tried \subseteq Slotted /\ Checked \subseteq Slotted \ Tried
  BY DEF Claimed, Deciding, Slotted, Tried, Checked
<1>1. ASSUME Reroute(r) PROVE IInv'
  <2>1. job[r].pc \in {"routing", "rerouting"} /\ Unchanged
    BY <1>1, <1>u DEF Reroute
  <2>2. ASSUME NEW s \in {"uncertain_early", "filling", "blocked_early", "skipped_early"}, Goto(r, s)
        PROVE  IInv'
    BY <2>1, <2>2, ClaimedStep DEF Claimed, Deciding, Slotted, Tried, Checked
  <2>3. CASE job' = [job EXCEPT ![r].pc = "history", ![r].source = lead[Deal(r)].stage]
    <3>1. job[r] \in [pc : Steps, call : Calls \cup {Nobody},
                      source : Stages \cup Targets \cup {Nobody}, moved : BOOLEAN]
      BY DEF IInv, Shape
    <3>2. job[r].call \in Calls /\ lead[Deal(r)].stage \in Stages \cup Targets
      BY <2>1, StageAssumption DEF IInv, Shape, AtWork, Running, Deal
    <3> DEFINE src == lead[Deal(r)].stage
               rec == [pc |-> "history", call |-> job[r].call, source |-> src,
                       moved |-> job[r].moved]
    <3>3. [[job[r] EXCEPT !.pc = "history"] EXCEPT !.source = src] = rec
      <4>1. job[r] = [pc |-> job[r].pc, call |-> job[r].call, source |-> job[r].source,
                      moved |-> job[r].moved]
        BY <3>1
      <4>2. [job[r] EXCEPT !.pc = "history"]
            = [pc |-> "history", call |-> job[r].call, source |-> job[r].source,
               moved |-> job[r].moved]
        BY <4>1
      <4>3. [[pc |-> "history", call |-> job[r].call, source |-> job[r].source,
              moved |-> job[r].moved] EXCEPT !.source = src] = rec
        OBVIOUS
      <4> HIDE DEF rec
      <4> QED BY <4>2, <4>3, Zenon
    <3>4. job' = [job EXCEPT ![r] = [[job[r] EXCEPT !.pc = "history"] EXCEPT !.source = src]]
      BY <2>3
    <3>5. "history" \in Steps
      BY StepSets DEF Deciding
    <3>6. rec \in [pc : Steps, call : Calls \cup {Nobody},
                   source : Stages \cup Targets \cup {Nobody}, moved : BOOLEAN]
      BY <3>1, <3>2, <3>5
    <3>7. rec.pc = "history" /\ rec.call = job[r].call
      OBVIOUS
    <3>8. job' = [job EXCEPT ![r] = rec]
      BY <3>3, <3>4
    <3> HIDE DEF rec, src
    <3>9. /\ job' \in Jobs /\ job'[r].pc = "history" /\ job'[r].call = job[r].call
          /\ \A k \in Runs \ {r} : job'[k] = job[k]
      BY <3>6, <3>7, <3>8 DEF IInv, Shape, Jobs
    <3>10. Passes(r, "history")
      BY <2>1, <3>5 DEF Passes, Claimed, Deciding, Slotted, Tried
    <3>11. Carries(r, "history")
      BY <2>1, <3>9 DEF Carries, Checked
    <3> QED BY <2>1, <3>9, <3>10, <3>11, PassStep
  <2>4. \/ \E s \in {"uncertain_early", "filling", "blocked_early", "skipped_early"} : Goto(r, s)
        \/ job' = [job EXCEPT ![r].pc = "history", ![r].source = lead[Deal(r)].stage]
    BY <1>1, <1>u DEF Reroute
  <2> QED BY <2>2, <2>3, <2>4
<1>2. ASSUME History(r) PROVE IInv'
  <2>1. /\ job[r].pc = "history" /\ Unchanged
        /\ \E s \in {"skipped_early", "reserving"} : Goto(r, s)
    BY <1>2, <1>u DEF History
  <2> QED BY <2>1, ClaimedStep DEF Claimed, Deciding, Slotted, Tried, Checked
<1>3. ASSUME ReadSource(r) PROVE IInv'
  <2>1. job[r].pc \in {"source", "source_again"} /\ Unchanged
    BY <1>3, <1>u DEF ReadSource
  <2>2. ASSUME NEW s \in {"uncertain", "skipped", "fence", "blocked"}, Goto(r, s) PROVE IInv'
    BY <2>1, <2>2, ClaimedStep DEF Claimed, Deciding, Slotted, Tried, Checked
  <2> DEFINE stage == lead[Deal(r)].stage
             target == action[job[r].call].target
             route == Route(stage, target, lead[Deal(r)].fields)
  <2>3. ASSUME route = "allowed", Goto(r, "fence_again") PROVE IInv'
    <3>1. stage \in DOMAIN StageOrder /\ IsForward(stage, target)
      BY <2>3 DEF Route
    <3>2. "fence_again" \in Steps
      BY StepSets DEF Slotted
    <3>3. Passes(r, "fence_again")
      BY <2>1, <3>2 DEF Passes, Claimed, Deciding, Slotted, Tried
    <3> HIDE DEF route
    <3> QED BY <2>1, <2>3, <3>1, <3>3, GotoStep
  <2>4. \/ \E s \in {"uncertain", "skipped", "fence", "blocked"} : Goto(r, s)
        \/ route = "allowed" /\ Goto(r, "fence_again")
    <3>1. \/ \E s \in {"uncertain", "skipped", "fence"} : Goto(r, s)
          \/ Goto(r, CASE route = "allowed"        -> "fence_again"
                       [] route = "missing_fields" -> "blocked"
                       [] OTHER                    -> "skipped")
      BY <1>3, <1>u DEF ReadSource
    <3>2. CASE route = "allowed"
      BY <3>1, <3>2
    <3>3. CASE route = "missing_fields"
      BY <3>1, <3>3
    <3>4. CASE route \notin {"allowed", "missing_fields"}
      BY <3>1, <3>4
    <3> QED BY <3>2, <3>3, <3>4
  <2> HIDE DEF route, stage, target
  <2> QED BY <2>2, <2>3, <2>4
<1>4. ASSUME FenceLedger(r) PROVE IInv'
  <2>1. job[r].pc \in {"fence", "fence_again", "last_fence"} /\ Unchanged
    BY <1>4, <1>u DEF FenceLedger
  <2>2. ASSUME NEW s \in {"uncertain", "skipped", "readback_unsure"}, Goto(r, s) PROVE IInv'
    BY <2>1, <2>2, ClaimedStep DEF Claimed, Deciding, Slotted, Tried, Checked
  <2>3. CASE job[r].pc = "fence" /\ Goto(r, "fence_history")
    BY <2>1, <2>3, ClaimedStep DEF Claimed, Deciding, Slotted, Tried, Checked
  <2>4. CASE job[r].pc = "fence_again" /\ Goto(r, "fence_again_history")
    BY <2>1, <2>4, ClaimedStep DEF Claimed, Deciding, Slotted, Tried, Checked
  <2>5. CASE job[r].pc = "last_fence" /\ Goto(r, "last_fence_history")
    BY <2>1, <2>5, ClaimedStep DEF Claimed, Deciding, Slotted, Tried, Checked
  <2>6. /\ FenceNext["fence"] = "fence_history"
        /\ FenceNext["fence_again"] = "fence_again_history"
        /\ FenceNext["last_fence"] = "last_fence_history"
    BY DEF FenceNext
  <2>7. \/ \E s \in {"uncertain", "skipped", "readback_unsure"} : Goto(r, s)
        \/ Goto(r, FenceNext[job[r].pc])
    BY <1>4, <1>u DEF FenceLedger
  <2> QED BY <2>1, <2>2, <2>3, <2>4, <2>5, <2>6, <2>7
<1>5. ASSUME FenceHistory(r) PROVE IInv'
  <2>1. job[r].pc \in {"fence_history", "fence_again_history", "last_fence_history"} /\ Unchanged
    BY <1>5, <1>u DEF FenceHistory
  <2>2. CASE Goto(r, "skipped")
    BY <2>1, <2>2, ClaimedStep DEF Claimed, Deciding, Slotted, Tried, Checked
  <2>3. CASE job[r].pc = "fence_history" /\ Goto(r, "source_again")
    BY <2>1, <2>3, ClaimedStep DEF Claimed, Deciding, Slotted, Tried, Checked
  <2>4. CASE job[r].pc = "fence_again_history" /\ Goto(r, "last_fence")
    BY <2>1, <2>4, ClaimedStep DEF Claimed, Deciding, Slotted, Tried, Checked
  <2>5. CASE job[r].pc = "last_fence_history" /\ Goto(r, "patch")
    BY <2>1, <2>5, ClaimedStep DEF Claimed, Deciding, Slotted, Tried, Checked
  <2>6. /\ FenceNext["fence_history"] = "source_again"
        /\ FenceNext["fence_again_history"] = "last_fence"
        /\ FenceNext["last_fence_history"] = "patch"
    BY DEF FenceNext
  <2>7. Goto(r, "skipped") \/ Goto(r, FenceNext[job[r].pc])
    BY <1>5, <1>u DEF FenceHistory
  <2> QED BY <2>1, <2>2, <2>3, <2>4, <2>5, <2>6, <2>7
<1>6. ASSUME ReadBack(r) PROVE IInv'
  <2>1. /\ job[r].pc \in {"readback", "readback_unsure"} /\ Unchanged
        /\ \E s \in {"uncertain", "noting"} : Goto(r, s)
    BY <1>6, <1>u DEF ReadBack
  <2> QED BY <2>1, ClaimedStep DEF Claimed, Deciding, Slotted, Tried, Checked
<1>7. ASSUME AddNote(r) PROVE IInv'
  <2>1. /\ job[r].pc = "noting" /\ Unchanged
        /\ \E s \in {"uncertain", "confirming"} : Goto(r, s)
    BY <1>7, <1>u DEF AddNote
  <2> QED BY <2>1, ClaimedStep DEF Claimed, Deciding, Slotted, Tried, Checked
<1> QED BY <1>1, <1>2, <1>3, <1>4, <1>5, <1>6, <1>7

\* A crash keeps the invariant: it leaves the ledger and the slots to a crashed run.
LEMMA CrashHolds == ASSUME IInv, NEW r \in Runs, Crash(r) PROVE IInv'
<1>1. Running(r) /\ Goto(r, "crashed") /\ Unchanged /\ job[r].pc # "ready"
  BY SameSlots, SameLeads DEF Crash, Unchanged, Running, IInv
<1>2. Passes(r, "crashed") /\ "crashed" \notin Checked
  BY <1>1, StepSets DEF Passes, Checked
<1> QED BY <1>1, <1>2, GotoStep

-----------------------------------------------------------------------------
(* The ledger: analysis, claim and end of a move.                          *)

\* One action row is rewritten.
Rewrites(c, row) ==
  /\ action' \in [Calls -> Rows]
  /\ action'[c] = row
  /\ \A b \in Calls \ {c} : action'[b] = action[b]

\* A write of the ledger leaves the target of the row as it is.
LEMMA RowFact ==
  ASSUME NEW u \in Rows, NEW st, NEW tk
  PROVE  [[u EXCEPT !.status = st] EXCEPT !.token = tk]
           = [status |-> st, target |-> u.target, token |-> tk, lapsed |-> u.lapsed]
<1>1. u = [status |-> u.status, target |-> u.target, token |-> u.token, lapsed |-> u.lapsed]
  BY DEF Rows
<1>2. [u EXCEPT !.status = st]
        = [status |-> st, target |-> u.target, token |-> u.token, lapsed |-> u.lapsed]
  BY <1>1
<1>3. [[status |-> st, target |-> u.target, token |-> u.token, lapsed |-> u.lapsed]
         EXCEPT !.token = tk]
        = [status |-> st, target |-> u.target, token |-> tk, lapsed |-> u.lapsed]
  OBVIOUS
<1> QED BY <1>2, <1>3, Zenon

\* What stays when a run that has not claimed a move goes on, or ends, with the
\* row of its call before its claim, too.
LEMMA AnalysisStep ==
  ASSUME IInv, NEW r \in Runs, job[r].pc \in {"creating", "reclaiming", "analyzing"},
         NEW row \in Rows, Rewrites(job[r].call, row),
         action[job[r].call].status \in {"absent", "analyzing"},
         row.status \in {"analyzing", "review", "skipped", "pending_move"},
         row.status = "pending_move" => row.target \in Targets,
         row.status = "analyzing" => row.token = r,
         job[r].pc = "analyzing" => action[job[r].call].token = r,
         NEW s \in {"analyzing", "claiming", "done"}, Goto(r, s),
         s = "claiming" => live,
         s = "analyzing" <=> row.status = "analyzing",
         UNCHANGED <<known, eligible, live, slots, lead, sent>>
  PROVE  IInv'
<1> DEFINE c == job[r].call
<1>g. job \in Jobs /\ s \in Steps /\ c \in known \cap eligible /\ c \in Calls
  BY StepSets DEF IInv, Shape, Jobs, AtWork, Running
<1>j. /\ job' \in Jobs /\ job'[r].pc = s /\ \A k \in Runs \ {r} : job'[k] = job[k]
      /\ s # "done" => job'[r].call = c
  BY <1>g, GotoFact
<1>a. /\ action' \in [Calls -> Rows] /\ action'[c] = row
      /\ \A b \in Calls \ {c} : action'[b] = action[b]
  BY DEF Rewrites
<1>p. /\ {"creating", "reclaiming", "analyzing", "claiming", "done"}
           \cap (Deciding \cup Slotted \cup Claimed \cup Checked) = {}
      /\ Claimed \subseteq Deciding \cup Slotted /\ Checked \subseteq Claimed
      /\ "release" \in Slotted /\ "spend" \in Slotted
  BY DEF Claimed, Deciding, Slotted, Checked
<1>k. \A k \in Runs : job'[k].pc \in Deciding \cup Slotted =>
        /\ k # r /\ job'[k] = job[k] /\ job[k].call \in Calls \ {c}
        /\ action'[job[k].call] = action[job[k].call]
  <2>1. ASSUME NEW k \in Runs, job'[k].pc \in Deciding \cup Slotted
        PROVE  k # r /\ job'[k] = job[k] /\ job[k].call \in Calls
    BY <2>1, <1>j, <1>p DEF IInv, AtWork, Running, Deciding, Slotted, Shape
  <2>2. ASSUME NEW k \in Runs, job[k].pc \in Deciding \cup Slotted PROVE job[k].call # c
    <3>1. job[k].pc \in Claimed \/ job[k].pc = "release" \/ job[k].pc = "spend"
      BY <2>2 DEF Claimed
    <3>2. action[job[k].call].status \in {"moving", "skipped", "blocked_missing_fields", "uncertain"}
      BY <3>1 DEF IInv, Claims, Holds
    <3> QED BY <3>2
  <2> HIDE DEF c
  <2> QED BY <1>a, <1>j, <2>1, <2>2
<1> HIDE DEF c
<1>1. Shape'
  BY <1>a, <1>j DEF IInv, Shape, Jobs, Rows
<1>2. AtWork'
  <2>1. AtWork
    BY DEF IInv
  <2> QED BY <2>1, <1>g, <1>j DEF AtWork, Running
<1>3. Claims'
  <2>1. Claims
    BY DEF IInv
  <2> QED BY <2>1, <1>k, <1>p DEF Claims, Holds
<1>4. Ledger'
  <2>l. Ledger
    BY DEF IInv
  <2>o. \A b \in Calls \ {c} :
          action[b].status \in {"analyzing", "moving"} /\ action[b].token = r =>
            job[r].pc = "crashed"
    BY <2>l, <1>p DEF Ledger, At, c
  <2> SUFFICES ASSUME NEW b \in Calls
               PROVE  /\ action'[b].status \in {"pending_move", "moving"} =>
                           action'[b].target \in Targets
                      /\ action'[b].status = "analyzing" =>
                           /\ action'[b].token \in Runs
                           /\ \/ job'[action'[b].token].pc = "crashed"
                              \/ /\ job'[action'[b].token].pc = "analyzing"
                                 /\ job'[action'[b].token].call = b
                      /\ action'[b].status = "moving" =>
                           /\ action'[b].token \in Runs
                           /\ \/ job'[action'[b].token].pc = "crashed"
                              \/ /\ job'[action'[b].token].pc \in Claimed
                                 /\ job'[action'[b].token].call = b
                      /\ action'[b].status = "confirmed" <=>
                           \E n \in Slots : slots[n].state = "confirmed" /\ slots[n].call = b
    BY DEF Ledger, At
  <2>1. CASE b = c
    <3>1. ~\E n \in Slots : slots[n].state = "confirmed" /\ slots[n].call = b
      BY <2>l, <2>1 DEF Ledger, c
    <3> QED BY <1>a, <1>j, <2>1, <3>1
  <2>2. CASE b # c
    <3>1. action'[b] = action[b] /\ job[r].pc # "crashed"
      BY <1>a, <2>2
    <3>2. action[b].status \in {"analyzing", "moving"} => action[b].token # r
      BY <2>2, <2>o, <3>1
    <3> QED BY <1>j, <2>l, <3>1, <3>2 DEF Ledger, At
  <2> QED BY <2>1, <2>2
<1>5. SlotsOk' /\ HasSlot'
  <2>1. SlotsOk /\ HasSlot
    BY DEF IInv
  <2>2. \A n \in Slots : slots[n].state = "reserved" =>
          \E k \in Runs : \/ job'[k].pc = "crashed"
                          \/ job'[k].pc \in Slotted /\ job'[k].call = slots[n].call
    BY <2>1, <1>j, <1>p DEF SlotsOk, At
  <2>3. SlotsOk'
    BY <2>1, <2>2 DEF SlotsOk, At
  <2>4. HasSlot'
    BY <2>1, <1>k DEF HasSlot
  <2> QED BY <2>3, <2>4
<1>6. MovedOnce'
  <2>1. MovedOnce
    BY DEF IInv
  <2>2. sent[c] = 0
    BY <2>1, <1>g DEF MovedOnce, c
  <2>3. \A b \in Calls : action'[b].status \notin {"moving", "confirmed", "uncertain"} => sent[b] = 0
    BY <1>a, <2>1, <2>2 DEF MovedOnce
  <2> QED BY <2>1, <2>3, <1>k DEF MovedOnce
<1>7. Ahead'
  <2>1. Ahead
    BY DEF IInv
  <2> QED BY <2>1, <1>k, <1>p DEF Ahead, Deal
<1> QED BY <1>1, <1>2, <1>3, <1>4, <1>5, <1>6, <1>7 DEF IInv

\* The claim of the analysis keeps the invariant, whether it creates the row or takes it over.
LEMMA ClaimAnalysisHolds == ASSUME IInv, NEW r \in Runs, ClaimAnalysis(r) PROVE IInv'
<1> DEFINE c == job[r].call
           free == IF At(r, "creating") THEN action[c].status = "absent"
                   ELSE action[c].status = "analyzing" /\ action[c].lapsed
<1>1. job[r].pc \in {"creating", "reclaiming"} /\ c \in Calls
      /\ UNCHANGED <<known, eligible, live, slots, lead, sent>>
  BY DEF ClaimAnalysis, At, IInv, Shape, AtWork, Running
<1>2. CASE ~free
  BY <1>1, <1>2, FinishStep, SameSlots, SameLeads DEF ClaimAnalysis, Unchanged, BeforeClaim,
                                                      IInv
<1>3. CASE free
  <2>1. /\ action' = [action EXCEPT ![c].status = "analyzing", ![c].token = r, ![c].lapsed = FALSE]
        /\ Goto(r, "analyzing") /\ action[c].status \in {"absent", "analyzing"}
    BY <1>3 DEF ClaimAnalysis
  <2> HIDE DEF c
  <2>2. action \in [Calls -> Rows]
    BY DEF IInv, Shape, Rows
  <2>3. /\ action' \in [Calls -> Rows]
        /\ action'[c].status = "analyzing" /\ action'[c].token = r
        /\ \A b \in Calls \ {c} : action'[b] = action[b]
    <3>1. action' = [action EXCEPT ![c] =
            [[[action[c] EXCEPT !.status = "analyzing"] EXCEPT !.token = r] EXCEPT !.lapsed = FALSE]]
      BY <2>1
    <3>2. action[c] \in Rows
      BY <1>1, <2>2
    <3> DEFINE u == [[action[c] EXCEPT !.status = "analyzing"] EXCEPT !.token = r]
    <3>3. u \in Rows /\ u.status = "analyzing" /\ u.token = r
      BY <3>2 DEF Rows, Statuses
    <3> HIDE DEF u
    <3>4. /\ [u EXCEPT !.lapsed = FALSE] \in Rows
          /\ [u EXCEPT !.lapsed = FALSE].status = "analyzing"
          /\ [u EXCEPT !.lapsed = FALSE].token = r
      BY <3>3 DEF Rows
    <3>5. action' = [action EXCEPT ![c] = [u EXCEPT !.lapsed = FALSE]]
      BY <3>1 DEF u
    <3> QED BY <1>1, <2>2, <3>4, <3>5
  <2>4. Rewrites(c, action'[c])
    BY <2>3 DEF Rewrites
  <2>5. action'[c] \in Rows
    BY <1>1, <2>3
  <2> QED BY <1>1, <2>1, <2>3, <2>4, <2>5, AnalysisStep DEF c
<1> QED BY <1>2, <1>3

\* The end of the analysis keeps the invariant.
LEMMA FinalizeHolds == ASSUME IInv, NEW r \in Runs, FinalizeAnalysis(r) PROVE IInv'
<1> DEFINE c == job[r].call
           Row(status, target) == [status |-> status, target |-> target, token |-> Nobody,
                                   lapsed |-> FALSE]
<1>1. /\ job[r].pc = "analyzing" /\ c \in Calls /\ action \in [Calls -> Rows]
      /\ UNCHANGED <<known, eligible, live, slots, lead, sent>>
  BY DEF FinalizeAnalysis, At, IInv, Shape, AtWork, Running, Rows
<1>2. CASE ~(action[c].status = "analyzing" /\ action[c].token = r)
  BY <1>1, <1>2, FinishStep, SameSlots, SameLeads DEF FinalizeAnalysis, Unchanged,
                                                      BeforeClaim, IInv
<1>3. CASE action[c].status = "analyzing" /\ action[c].token = r
  <2>1. ASSUME NEW status \in {"skipped", "review"}, action' = [action EXCEPT ![c] = Row(status, Nobody)],
               Finish(r)
        PROVE  IInv'
    <3>1. Row(status, Nobody) \in Rows
      BY DEF Rows, Statuses
    <3>2. Row(status, Nobody).status = status
      OBVIOUS
    <3> HIDE DEF Row
    <3>3. Rewrites(c, Row(status, Nobody))
      BY <1>1, <2>1, <3>1 DEF Rewrites
    <3> HIDE DEF c
    <3>4. Goto(r, "done")
      BY <2>1 DEF Finish
    <3> QED BY <1>1, <1>3, <3>1, <3>2, <3>3, <3>4, AnalysisStep DEF c
  <2>2. ASSUME NEW t \in Proposals, action' = [action EXCEPT ![c] = Row("pending_move", t)],
               IF live THEN Goto(r, "claiming") ELSE Finish(r)
        PROVE  IInv'
    <3>1. Row("pending_move", t) \in Rows /\ t \in Targets
      BY StageAssumption DEF Rows, Statuses
    <3>2. Row("pending_move", t).status = "pending_move" /\ Row("pending_move", t).target = t
      OBVIOUS
    <3> HIDE DEF Row
    <3>3. Rewrites(c, Row("pending_move", t))
      BY <1>1, <2>2, <3>1 DEF Rewrites
    <3> HIDE DEF c
    <3>4. \/ live /\ Goto(r, "claiming")
          \/ Goto(r, "done")
      BY <2>2 DEF Finish
    <3> QED BY <1>1, <1>3, <3>1, <3>2, <3>3, <3>4, AnalysisStep DEF c
  <2> QED BY <1>3, <2>1, <2>2 DEF FinalizeAnalysis
<1> QED BY <1>2, <1>3

\* The claim of the move keeps the invariant: nobody else has claimed that call.
LEMMA ClaimMoveHolds == ASSUME IInv, NEW r \in Runs, ClaimMove(r) PROVE IInv'
<1> DEFINE c == job[r].call
<1>1. /\ job[r].pc = "claiming" /\ c \in Calls /\ c \in known \cap eligible /\ live
      /\ action \in [Calls -> Rows] /\ job \in Jobs
      /\ UNCHANGED <<known, eligible, live, slots, lead, sent>>
  BY DEF ClaimMove, At, IInv, Shape, AtWork, Running, Rows, Jobs
<1>2. CASE action[c].status # "pending_move"
  BY <1>1, <1>2, FinishStep, SameSlots, SameLeads DEF ClaimMove, Unchanged, BeforeClaim, IInv
<1>3. CASE action[c].status = "pending_move"
  <2> DEFINE row == [status |-> "moving", target |-> action[c].target, token |-> r,
                     lapsed |-> action[c].lapsed]
  <2>1. Goto(r, "routing") /\ action' = [action EXCEPT ![c].status = "moving", ![c].token = r]
    BY <1>3 DEF ClaimMove
  <2>2. [[action[c] EXCEPT !.status = "moving"] EXCEPT !.token = r] = row
    <3>1. action[c] \in Rows
      BY <1>1
    <3> QED BY <3>1, RowFact, Zenon
  <2>3. row \in Rows /\ row.status = "moving" /\ row.token = r /\ row.target = action[c].target
    BY <1>1 DEF Rows, Statuses
  <2>4. action' = [action EXCEPT ![c] = row]
    <3>1. action' = [action EXCEPT ![c] = [[action[c] EXCEPT !.status = "moving"] EXCEPT !.token = r]]
      BY <2>1
    <3> HIDE DEF row
    <3> QED BY <2>2, <3>1
  <2> HIDE DEF row
  <2>a. /\ action' \in [Calls -> Rows] /\ action'[c].status = "moving" /\ action'[c].token = r
        /\ action'[c].target = action[c].target
        /\ \A b \in Calls \ {c} : action'[b] = action[b]
    BY <1>1, <2>3, <2>4
  <2>j. /\ job' \in Jobs /\ job'[r].pc = "routing" /\ job'[r].call = c
        /\ \A k \in Runs \ {r} : job'[k] = job[k]
    BY <1>1, <2>1, GotoFact, StepSets DEF Deciding
  <2>p. /\ "claiming" \notin Deciding \cup Slotted /\ "routing" \in Deciding \cap Claimed
        /\ "routing" \notin Slotted \cup Checked
        /\ Claimed \subseteq Deciding \cup Slotted /\ Checked \subseteq Claimed
        /\ "release" \in Slotted /\ "spend" \in Slotted
    BY DEF Claimed, Deciding, Slotted, Checked
  <2>k. \A k \in Runs \ {r} : job[k].pc \in Deciding \cup Slotted =>
          job[k].call \in Calls \ {c} /\ action'[job[k].call] = action[job[k].call]
    <3>1. ASSUME NEW k \in Runs, job[k].pc \in Deciding \cup Slotted
          PROVE  job[k].call \in Calls /\ job[k].call # c
      <4>1. job[k].pc \in Claimed \/ job[k].pc = "release" \/ job[k].pc = "spend"
        BY <3>1 DEF Claimed
      <4>2. action[job[k].call].status \in {"moving", "skipped", "blocked_missing_fields", "uncertain"}
        BY <4>1 DEF IInv, Claims, Holds
      <4>3. job[k].call \in Calls
        BY <3>1 DEF IInv, AtWork, Running, Deciding, Slotted, Shape
      <4> QED BY <1>3, <4>2, <4>3
    <3> HIDE DEF c
    <3> QED BY <2>a, <3>1
  <2> HIDE DEF c
  <2>5. Shape'
    BY <1>1, <2>a, <2>j DEF IInv, Shape, Jobs, Rows
  <2>6. AtWork'
    BY <1>1, <2>j DEF IInv, AtWork, Running
  <2>7. Claims'
    <3>1. Claims
      BY DEF IInv
    <3>2. \A k \in Runs : job'[k].pc \in Claimed => Holds(k)'
      BY <3>1, <2>a, <2>j, <2>k, <2>p DEF Claims, Holds
    <3> QED BY <3>1, <3>2, <2>a, <2>j, <2>k, <2>p DEF Claims
  <2>8. Ledger'
    <3>l. Ledger
      BY DEF IInv
    <3>1. ASSUME NEW b \in Calls \ {c}
          PROVE  /\ action'[b] = action[b]
                 /\ action[b].status \in {"analyzing", "moving"} => action[b].token # r
      BY <3>l, <1>1, <2>a, <2>p DEF Ledger, At
    <3>2. ASSUME NEW b \in Calls \ {c}
          PROVE  /\ action[b].status = "analyzing" =>
                      \/ job'[action[b].token].pc = "crashed"
                      \/ /\ job'[action[b].token].pc = "analyzing"
                         /\ job'[action[b].token].call = b
                 /\ action[b].status = "moving" =>
                      \/ job'[action[b].token].pc = "crashed"
                      \/ /\ job'[action[b].token].pc \in Claimed
                         /\ job'[action[b].token].call = b
      BY <3>l, <3>1, <2>j DEF Ledger, At
    <3>3. ~\E n \in Slots : slots[n].state = "confirmed" /\ slots[n].call = c
      BY <3>l, <1>1, <1>3 DEF Ledger, c
    <3>4. action[c].target \in Targets
      BY <3>l, <1>1, <1>3 DEF Ledger, c
    <3> QED BY <3>l, <3>1, <3>2, <3>3, <3>4, <1>1, <2>a, <2>j, <2>p DEF Ledger, At
  <2>9. SlotsOk' /\ HasSlot'
    <3>1. SlotsOk /\ HasSlot
      BY DEF IInv
    <3>2. \A n \in Slots : slots[n].state = "reserved" =>
            \E k \in Runs : \/ job'[k].pc = "crashed"
                            \/ job'[k].pc \in Slotted /\ job'[k].call = slots[n].call
      BY <3>1, <1>1, <2>j, <2>p DEF SlotsOk, At
    <3>3. SlotsOk'
      BY <3>1, <3>2, <1>1 DEF SlotsOk, At
    <3>4. HasSlot'
      BY <3>1, <1>1, <2>j, <2>p DEF HasSlot
    <3> QED BY <3>3, <3>4
  <2>10. MovedOnce'
    <3>1. MovedOnce
      BY DEF IInv
    <3>2. sent[c] = 0
      BY <3>1, <1>1, <1>3 DEF MovedOnce, c
    <3> QED BY <3>1, <3>2, <1>1, <2>a, <2>j DEF MovedOnce
  <2>11. Ahead'
    <3>1. Ahead
      BY DEF IInv
    <3> QED BY <3>1, <1>1, <2>j, <2>k, <2>p DEF Ahead, Deal
  <2> QED BY <2>5, <2>6, <2>7, <2>8, <2>9, <2>10, <2>11 DEF IInv
<1> QED BY <1>2, <1>3

\* How each end of a move is written down, and what becomes of its slot.
LEMMA EndFact ==
  ASSUME NEW pc \in DOMAIN Ending
  PROVE  \/ /\ pc \in {"skipped_early", "blocked_early", "uncertain_early"}
            /\ Ending[pc].then = "keep"
            /\ Ending[pc].status \in {"skipped", "blocked_missing_fields", "uncertain"}
         \/ /\ pc \in {"skipped", "blocked"} /\ Ending[pc].then = "release"
            /\ Ending[pc].status \in {"skipped", "blocked_missing_fields"}
         \/ pc = "uncertain" /\ Ending[pc].then = "spend" /\ Ending[pc].status = "uncertain"
<1>1. /\ Ending["skipped_early"] = [status |-> "skipped", then |-> "keep"]
      /\ Ending["blocked_early"] = [status |-> "blocked_missing_fields", then |-> "keep"]
      /\ Ending["uncertain_early"] = [status |-> "uncertain", then |-> "keep"]
      /\ Ending["skipped"] = [status |-> "skipped", then |-> "release"]
      /\ Ending["blocked"] = [status |-> "blocked_missing_fields", then |-> "release"]
      /\ Ending["uncertain"] = [status |-> "uncertain", then |-> "spend"]
  BY DEF Ending, Outcome
<1>2. CASE pc = "skipped_early"
  BY <1>1, <1>2
<1>3. CASE pc = "blocked_early"
  BY <1>1, <1>3
<1>4. CASE pc = "uncertain_early"
  BY <1>1, <1>4
<1>5. CASE pc = "skipped"
  BY <1>1, <1>5
<1>6. CASE pc = "blocked"
  BY <1>1, <1>6
<1>7. CASE pc = "uncertain"
  BY <1>1, <1>7
<1> QED BY StepSets, <1>2, <1>3, <1>4, <1>5, <1>6, <1>7

\* When a run ends the move it has claimed, the rows and the runs of other calls
\* stay as they are.
LEMMA EndedRow ==
  ASSUME IInv, NEW r \in Runs, job[r].pc \in Claimed, NEW st \in Statuses,
         action' = [action EXCEPT ![job[r].call].status = st, ![job[r].call].token = Nobody],
         NEW s \in Steps, Goto(r, s), s \notin Claimed
  PROVE  LET c == job[r].call IN
         /\ c \in known \cap eligible /\ c \in Calls /\ live
         /\ action' \in [Calls -> Rows] /\ action'[c].status = st
         /\ \A b \in Calls \ {c} : action'[b] = action[b]
         /\ job' \in Jobs /\ job'[r].pc = s /\ (s \notin {"done", "crashed"} => job'[r].call = c)
         /\ \A k \in Runs \ {r} : job'[k] = job[k]
         /\ \A k \in Runs \ {r} : job[k].pc \in Deciding \cup Slotted =>
              job[k].call \in Calls \ {c} /\ action'[job[k].call] = action[job[k].call]
         /\ \A b \in Calls \ {c} :
              action[b].status \in {"analyzing", "moving"} => action[b].token # r
         /\ ~\E n \in Slots : slots[n].state = "confirmed" /\ slots[n].call = c
<1> DEFINE c == job[r].call
<1>1. /\ c \in known \cap eligible /\ c \in Calls /\ live /\ Holds(r)
      /\ action \in [Calls -> Rows] /\ job \in Jobs
  BY DEF IInv, Shape, AtWork, Running, Claims, Claimed, Deciding, Slotted, Rows, Jobs
<1> DEFINE row == [status |-> st, target |-> action[c].target, token |-> Nobody,
                   lapsed |-> action[c].lapsed]
<1>2. [[action[c] EXCEPT !.status = st] EXCEPT !.token = Nobody] = row
  <2>1. action[c] \in Rows
    BY <1>1
  <2> QED BY <2>1, RowFact, Zenon
<1>3. row \in Rows /\ row.status = st
  BY <1>1 DEF Rows
<1>4. action' = [action EXCEPT ![c] = row]
  <2>1. action' = [action EXCEPT ![c] = [[action[c] EXCEPT !.status = st] EXCEPT !.token = Nobody]]
    OBVIOUS
  <2> HIDE DEF row
  <2> QED BY <1>2, <2>1
<1> HIDE DEF row
<1>5. /\ action' \in [Calls -> Rows] /\ action'[c].status = st
      /\ \A b \in Calls \ {c} : action'[b] = action[b]
  BY <1>1, <1>3, <1>4
<1>6. /\ job' \in Jobs /\ job'[r].pc = s /\ (s \notin {"done", "crashed"} => job'[r].call = c)
      /\ \A k \in Runs \ {r} : job'[k] = job[k]
  BY <1>1, GotoFact
<1>7. ASSUME NEW k \in Runs \ {r}, job[k].pc \in Deciding \cup Slotted
      PROVE  job[k].call \in Calls \ {c}
  <2>1. job[r].pc \in Deciding \cup Slotted
    BY DEF Claimed
  <2>2. job[k].call # c
    BY <1>7, <2>1 DEF IInv, Claims
  <2>3. job[k].call \in Calls
    BY <1>7 DEF IInv, AtWork, Running, Deciding, Slotted, Shape
  <2> QED BY <2>2, <2>3
<1>8. \A b \in Calls \ {c} : action[b].status \in {"analyzing", "moving"} => action[b].token # r
  <2>1. job[r].pc # "analyzing" /\ job[r].pc # "crashed"
    BY DEF Claimed, Deciding, Slotted
  <2> QED BY <2>1 DEF IInv, Ledger, At
<1>9. ~\E n \in Slots : slots[n].state = "confirmed" /\ slots[n].call = c
  <2>1. action[c].status = "moving"
    BY <1>1 DEF Holds
  <2>2. action[c].status = "confirmed" <=>
          \E n \in Slots : slots[n].state = "confirmed" /\ slots[n].call = c
    BY <1>1 DEF IInv, Ledger
  <2> QED BY <2>1, <2>2
<1> QED BY <1>1, <1>5, <1>6, <1>7, <1>8, <1>9

\* The end of a move in the ledger keeps the invariant.
LEMMA EndMoveHolds == ASSUME IInv, NEW r \in Runs, EndMove(r) PROVE IInv'
<1> DEFINE c == job[r].call
           st == Ending[job[r].pc].status
           s == IF Ending[job[r].pc].then = "keep" THEN "done" ELSE Ending[job[r].pc].then
<1>1. job[r].pc \in DOMAIN Ending /\ job[r].pc \in Claimed
      /\ UNCHANGED <<known, eligible, live, slots, lead, sent>>
  BY StepSets DEF EndMove, Claimed, Deciding, Slotted
<1>2. /\ \/ job[r].pc \in Deciding /\ s = "done"
         \/ job[r].pc \in Slotted /\ s = "release"
         \/ job[r].pc \in Slotted /\ s = "spend" /\ st = "uncertain"
      /\ st \in {"skipped", "blocked_missing_fields", "uncertain"}
      /\ st # "uncertain" => job[r].pc \notin Tried
      /\ s = "release" => st \in {"skipped", "blocked_missing_fields"} /\ job[r].pc \notin Tried
  BY <1>1, EndFact DEF Deciding, Slotted, Tried
<1>3. Goto(r, s)
  BY DEF EndMove, Finish
<1>4. action' = [action EXCEPT ![c].status = st, ![c].token = Nobody]
  BY <1>1 DEF EndMove, IInv, Claims
<1>5. s \in Steps /\ s \notin Claimed /\ st \in Statuses
  BY <1>2, StepSets DEF Claimed, Deciding, Slotted, Statuses
<1> HIDE DEF c, st, s
<1>6. /\ c \in known \cap eligible /\ c \in Calls /\ live
      /\ action' \in [Calls -> Rows] /\ action'[c].status = st
      /\ \A b \in Calls \ {c} : action'[b] = action[b]
      /\ job' \in Jobs /\ job'[r].pc = s /\ (s # "done" => job'[r].call = c)
      /\ \A k \in Runs \ {r} : job'[k] = job[k]
      /\ \A k \in Runs \ {r} : job[k].pc \in Deciding \cup Slotted =>
           job[k].call \in Calls \ {c} /\ action'[job[k].call] = action[job[k].call]
      /\ \A b \in Calls \ {c} :
           action[b].status \in {"analyzing", "moving"} => action[b].token # r
      /\ ~\E n \in Slots : slots[n].state = "confirmed" /\ slots[n].call = c
  BY <1>1, <1>2, <1>3, <1>4, <1>5, EndedRow DEF c
<1>p. /\ "done" \notin Deciding \cup Slotted \cup Checked
      /\ Claimed \subseteq Deciding \cup Slotted /\ Checked \subseteq Claimed
      /\ "release" \in Slotted \ Checked /\ "spend" \in (Slotted \cap Tried) \ Checked
      /\ Deciding \cap Tried = {} /\ job[r].pc \in Deciding \cup Slotted
      /\ job[r].pc # "crashed" /\ Deciding \cap Slotted = {}
  BY <1>1 DEF Claimed, Deciding, Slotted, Checked, Tried
<1>10. Shape'
  BY <1>1, <1>6 DEF IInv, Shape, Jobs, Rows
<1>11. AtWork'
  BY <1>1, <1>6 DEF IInv, AtWork, Running
<1>12. Claims'
  <2>1. Claims
    BY DEF IInv
  <2> QED BY <2>1, <1>1, <1>2, <1>5, <1>6, <1>p DEF Claims, Holds, c
<1>13. Ledger'
  <2>l. Ledger
    BY DEF IInv
  <2>1. ASSUME NEW b \in Calls \ {c}
        PROVE  /\ action'[b] = action[b]
               /\ action[b].status = "analyzing" =>
                    \/ job'[action[b].token].pc = "crashed"
                    \/ /\ job'[action[b].token].pc = "analyzing"
                       /\ job'[action[b].token].call = b
               /\ action[b].status = "moving" =>
                    \/ job'[action[b].token].pc = "crashed"
                    \/ /\ job'[action[b].token].pc \in Claimed
                       /\ job'[action[b].token].call = b
    BY <2>l, <1>6 DEF Ledger, At
  <2> QED BY <2>l, <2>1, <1>1, <1>2, <1>6 DEF Ledger, At
<1>14. SlotsOk' /\ HasSlot'
  <2>1. SlotsOk /\ HasSlot
    BY DEF IInv
  <2>2. \A n \in Slots : slots[n].state = "reserved" =>
          \E k \in Runs : \/ job'[k].pc = "crashed"
                          \/ job'[k].pc \in Slotted /\ job'[k].call = slots[n].call
    BY <2>1, <1>1, <1>2, <1>6, <1>p DEF SlotsOk, At, c
  <2>3. SlotsOk'
    BY <2>1, <2>2, <1>1 DEF SlotsOk, At
  <2>4. HasSlot'
    BY <2>1, <1>1, <1>2, <1>6, <1>p DEF HasSlot, c
  <2> QED BY <2>3, <2>4
<1>15. MovedOnce'
  <2>1. MovedOnce
    BY DEF IInv
  <2>2. job[r].pc \notin Tried => sent[c] = 0
    BY <2>1, <1>p DEF MovedOnce, c
  <2>3. \A b \in Calls : action'[b].status \notin {"moving", "confirmed", "uncertain"} => sent[b] = 0
    BY <2>1, <2>2, <1>2, <1>6 DEF MovedOnce
  <2>4. \A k \in Runs : job'[k].pc \in (Deciding \cup Slotted) \ Tried => sent[job'[k].call] = 0
    BY <2>1, <2>2, <1>2, <1>6, <1>p DEF MovedOnce
  <2> QED BY <2>1, <2>3, <2>4, <1>1 DEF MovedOnce
<1>16. Ahead'
  <2>1. Ahead
    BY DEF IInv
  <2> QED BY <2>1, <1>1, <1>2, <1>6, <1>p DEF Ahead, Deal
<1> QED BY <1>10, <1>11, <1>12, <1>13, <1>14, <1>15, <1>16 DEF IInv

\* A lapsed analysis keeps the invariant.
LEMMA AnalysisLapsesHolds == ASSUME IInv, NEW c \in Calls, AnalysisLapses(c) PROVE IInv'
<1>1. /\ action[c].status = "analyzing" /\ action' = [action EXCEPT ![c].lapsed = TRUE]
      /\ UNCHANGED <<known, eligible, live, slots, lead, sent, job>>
      /\ action \in [Calls -> Rows]
  BY DEF AnalysisLapses, IInv, Shape, Rows
<1>2. /\ action' \in [Calls -> Rows]
      /\ \A b \in Calls : /\ action'[b].status = action[b].status
                          /\ action'[b].token = action[b].token
                          /\ action'[b].target = action[b].target
  BY <1>1 DEF Rows
<1>3. Shape'
  BY <1>1, <1>2 DEF IInv, Shape, Rows
<1>4. \A k \in Runs : job[k].pc \in Deciding \cup Slotted => job[k].call \in Calls
  BY DEF IInv, AtWork, Running, Deciding, Slotted, Shape
<1>5. Claims' /\ Ahead'
  <2>1. Claims /\ Ahead
    BY DEF IInv
  <2>2. /\ Claimed \subseteq Deciding \cup Slotted /\ Checked \subseteq Claimed
        /\ "release" \in Slotted /\ "spend" \in Slotted
    BY DEF Claimed, Deciding, Slotted, Checked
  <2>3. Claims'
    BY <2>1, <2>2, <1>1, <1>2, <1>4 DEF Claims, Holds
  <2>4. Ahead'
    BY <2>1, <2>2, <1>1, <1>2, <1>4 DEF Ahead, Deal
  <2> QED BY <2>3, <2>4
<1>6. Ledger'
  BY <1>1, <1>2 DEF IInv, Ledger, At
<1>7. AtWork' /\ SlotsOk' /\ HasSlot'
  BY <1>1 DEF IInv, AtWork, Running, SlotsOk, HasSlot, At
<1>8. MovedOnce'
  BY <1>1, <1>2 DEF IInv, MovedOnce
<1> QED BY <1>3, <1>5, <1>6, <1>7, <1>8 DEF IInv

-----------------------------------------------------------------------------
(* The slots, and the world around the runs.                               *)

\* What happens around the runs and the ledger keeps the invariant.
LEMMA WorldStep ==
  ASSUME IInv, SlotsAge, LeadsStay, UNCHANGED <<live, action, sent, job>>,
         known \subseteq known', known' \subseteq Calls,
         eligible \subseteq eligible', eligible' \subseteq Calls
  PROVE  IInv'
<1>1. Shape'
  BY DEF IInv, Shape, SlotsAge, LeadsStay, SlotRows, Leads
<1>2. AtWork' /\ Claims'
  BY DEF IInv, AtWork, Claims, Running, Holds
<1>3. Ledger'
  <2>1. \A c \in Calls :
          action[c].status = "confirmed" <=>
            \E n \in Slots : slots'[n].state = "confirmed" /\ slots'[n].call = c
    BY AgeFact DEF IInv, Ledger
  <2> QED BY <2>1 DEF IInv, Ledger, At
<1>4. SlotsOk'
  <2>1. \A n \in Slots : slots[n].state = "reserved" =>
          \E k \in Runs : \/ At(k, "crashed")'
                          \/ job'[k].pc \in Slotted /\ job'[k].call = slots[n].call
    BY DEF IInv, SlotsOk, At
  <2> QED BY <2>1, AgeFact
<1>5. HasSlot'
  <2>1. HasSlot
    BY DEF IInv
  <2> QED BY <2>1, AgeFact DEF HasSlot
<1>6. MovedOnce'
  <2>1. \A c \in Calls : sent[c] > 0 => sent[c] = 1 /\ \E n \in Slots : slots'[n].call = c
    <3>1. \A c \in Calls : sent[c] > 0 => sent[c] = 1 /\ \E n \in Slots : slots[n].call = c
      BY DEF IInv, MovedOnce
    <3>2. \A c : (\E n \in Slots : slots[n].call = c) => \E n \in Slots : slots'[n].call = c
      BY AgeFact
    <3> QED BY <3>1, <3>2
  <2> QED BY <2>1 DEF IInv, MovedOnce
<1>7. Ahead'
  <2>1. \A k \in Runs : job[k].pc \in Checked => Deal(k) \in Deals
    BY StageAssumption DEF IInv, Shape, AtWork, Running, Checked, Deal
  <2> QED BY <2>1 DEF IInv, Ahead, Deal, LeadsStay
<1> QED BY <1>1, <1>2, <1>3, <1>4, <1>5, <1>6, <1>7 DEF IInv

\* What the call worker, the activation, the clock and people who fill in fields do keeps it.
LEMMA AroundHolds ==
  ASSUME IInv,
         \/ \E c \in Calls : CallCompleted(c)
         \/ \E d \in Handled : HalfAnHourPasses(d) \/ PersonFills(d)
         \/ \E n \in Slots : SlotLapses(n)
         \/ Activate
         \/ UNCHANGED vars
  PROVE  IInv'
<1>0. /\ slots' = slots => SlotsAge
      /\ lead' = lead => LeadsStay
      /\ known \subseteq Calls /\ eligible \subseteq Calls
      /\ lead \in [Deals -> Leads] /\ slots \in [Slots -> SlotRows]
  BY SameSlots, SameLeads DEF IInv, Shape, SlotRows, Leads
<1>1. ASSUME NEW c \in Calls, CallCompleted(c) PROVE IInv'
  BY <1>0, <1>1, WorldStep DEF CallCompleted
<1>2. ASSUME NEW d \in Handled, HalfAnHourPasses(d) PROVE IInv'
  <2>1. d \in Deals /\ lead' = [lead EXCEPT ![d].moved = FALSE]
    BY <1>2, StageAssumption DEF HalfAnHourPasses
  <2>2. LeadsStay
    BY <1>0, <2>1 DEF LeadsStay, Leads
  <2> QED BY <1>0, <1>2, <2>2, WorldStep DEF HalfAnHourPasses
<1>3. ASSUME NEW d \in Handled, PersonFills(d) PROVE IInv'
  <2>1. PICK f \in Fields, v \in {"Yoq", "Bor"} :
          d \in Deals /\ lead' = [lead EXCEPT ![d].fields[f] = [value |-> v, by |-> "person"]]
    BY <1>3, StageAssumption DEF PersonFills
  <2> DEFINE F == [Fields -> [value : Values, by : {"person", "model"}]]
             g == [lead[d].fields EXCEPT ![f] = [value |-> v, by |-> "person"]]
  <2>2. [value |-> v, by |-> "person"] \in [value : Values, by : {"person", "model"}]
    BY DEF Values
  <2>3. g \in F
    BY <1>0, <2>1, <2>2 DEF Leads
  <2>4. lead' = [lead EXCEPT ![d] = [lead[d] EXCEPT !.fields = g]]
    BY <2>1
  <2> HIDE DEF g
  <2>5. /\ [lead[d] EXCEPT !.fields = g] \in Leads
        /\ [lead[d] EXCEPT !.fields = g].stage = lead[d].stage
    BY <1>0, <2>1, <2>3 DEF Leads
  <2>6. LeadsStay
    BY <1>0, <2>4, <2>5 DEF LeadsStay
  <2> QED BY <1>0, <1>3, <2>6, WorldStep DEF PersonFills
<1>4. ASSUME NEW n \in Slots, SlotLapses(n) PROVE IInv'
  <2>1. SlotsAge
    BY <1>0, <1>4 DEF SlotLapses, SlotsAge, SlotRows
  <2> QED BY <1>0, <1>4, <2>1, WorldStep DEF SlotLapses
<1>5. ASSUME Activate PROVE IInv'
  BY <1>0, <1>5, WorldStep DEF Activate
<1>6. ASSUME UNCHANGED vars PROVE IInv'
  BY <1>0, <1>6, WorldStep DEF vars
<1> QED BY <1>1, <1>2, <1>3, <1>4, <1>5, <1>6

\* The fields the model fills in keep the invariant: the stage stays.
LEMMA FillFieldsHolds == ASSUME IInv, NEW r \in Runs, FillFields(r) PROVE IInv'
<1> DEFINE d == Deal(r)
<1>1. /\ job[r].pc = "filling" /\ d \in Deals /\ lead \in [Deals -> Leads]
      /\ UNCHANGED <<known, eligible, live, action, sent>> /\ SlotsAge
  BY StageAssumption, SameSlots
     DEF FillFields, At, IInv, Shape, AtWork, Running, Deal, Leads
<1>2. LeadsStay
  <2>1. CASE lead' = lead
    BY <2>1, SameLeads DEF IInv
  <2>2. CASE lead' # lead
    <3> DEFINE missing == asked[r]
    <3>1. PICK value \in [missing -> Values \ {"empty"}] :
            lead' = [lead EXCEPT ![d].fields = [f \in Fields |->
                       IF f \in missing THEN [value |-> value[f], by |-> "model"]
                       ELSE lead[d].fields[f]]]
      BY <2>2 DEF FillFields
    <3> DEFINE g == [f \in Fields |-> IF f \in missing THEN [value |-> value[f], by |-> "model"]
                                      ELSE lead[d].fields[f]]
    <3> HIDE DEF missing, d
    <3>2. g \in [Fields -> [value : Values, by : {"person", "model"}]]
      BY <1>1 DEF Leads
    <3>3. lead' = [lead EXCEPT ![d] = [lead[d] EXCEPT !.fields = g]]
      BY <3>1
    <3> HIDE DEF g
    <3>4. /\ [lead[d] EXCEPT !.fields = g] \in Leads
          /\ [lead[d] EXCEPT !.fields = g].stage = lead[d].stage
      BY <1>1, <3>2 DEF Leads
    <3> QED BY <1>1, <3>3, <3>4 DEF LeadsStay
  <2> QED BY <2>1, <2>2
<1>3. \E s \in {"blocked_early", "rerouting"} : Goto(r, s)
  BY DEF FillFields
<1>4. Unchanged
  BY <1>1, <1>2 DEF Unchanged
<1> QED BY <1>1, <1>3, <1>4, ClaimedStep DEF Claimed, Deciding, Slotted, Tried, Checked

\* A set of naturals has a least element.
LEMMA LeastExists ==
  ASSUME NEW S \in SUBSET Nat, S # {}
  PROVE  \E n \in S : \A k \in S : n <= k
<1> DEFINE Upto == {0..n : n \in S}
<1>1. Upto \subseteq FiniteSubsetsOf(Nat) /\ Upto # {}
  <2>1. ASSUME NEW n \in S PROVE 0..n \in FiniteSubsetsOf(Nat)
    <3>1. IsFiniteSet(0..n) /\ 0..n \subseteq Nat
      BY FS_Interval
    <3> QED BY <3>1 DEF FiniteSubsetsOf
  <2> QED BY <2>1
<1>2. PICK x \in Upto : \A y \in Upto : <<y, x>> \notin StrictSubsetOrdering(Nat)
  BY <1>1, WFMin, FS_StrictSubsetOrderingWellFounded
<1>3. PICK n \in S : x = 0..n
  BY <1>2
<1>4. ASSUME NEW k \in S, k < n PROVE FALSE
  <2>1. 0..k \subseteq 0..n /\ 0..k # 0..n
    BY <1>4
  <2>2. 0..k \in Upto
    OBVIOUS
  <2>3. <<0..k, 0..n>> \notin StrictSubsetOrdering(Nat)
    BY <1>2, <1>3, <2>2
  <2>4. 0..k \in SUBSET Nat /\ 0..n \in SUBSET Nat
    OBVIOUS
  <2> HIDE DEF Upto
  <2> QED BY <2>1, <2>3, <2>4 DEF StrictSubsetOrdering
<1> QED BY <1>3, <1>4

\* Expiring changes no slot but a reservation.
LEMMA ExpireFact ==
  ASSUME IInv
  PROVE  /\ Expire(slots) \in [Slots -> SlotRows]
         /\ \A n \in Slots :
              /\ Expire(slots)[n].call = slots[n].call /\ Expire(slots)[n].deal = slots[n].deal
              /\ \/ Expire(slots)[n].state = slots[n].state
                 \/ slots[n].state = "reserved" /\ Expire(slots)[n].state = "uncertain"
<1>1. slots \in [Slots -> SlotRows]
  BY DEF IInv, Shape, SlotRows
<1> QED BY <1>1 DEF Expire, SlotRows

\* A reservation keeps the invariant: the slot was free and no slot was of the deal.
LEMMA ReserveHolds == ASSUME IInv, NEW r \in Runs, Reserve(r) PROVE IInv'
<1> DEFINE c == job[r].call
           d == Deal(r)
           own == {n \in Slots : slots[n].deal = d}
           aged == Expire(slots)
           free == {n \in FirstSlot..LastSlot : aged[n].state = "free"}
<1>1. /\ job[r].pc = "reserving" /\ c \in known \cap eligible /\ c \in Calls /\ live
      /\ d = DealOf[c] /\ d \in Deals /\ job \in Jobs /\ slots \in [Slots -> SlotRows]
      /\ UNCHANGED <<known, eligible, live, action, lead, sent>>
  BY StageAssumption
     DEF Reserve, At, IInv, Shape, AtWork, Running, Deal, Jobs, SlotRows
<1>e. /\ aged \in [Slots -> SlotRows]
      /\ \A n \in Slots : /\ aged[n].call = slots[n].call /\ aged[n].deal = slots[n].deal
                          /\ \/ aged[n].state = slots[n].state
                             \/ slots[n].state = "reserved" /\ aged[n].state = "uncertain"
  BY ExpireFact
<1> HIDE DEF aged
<1>2. CASE own # {} \/ free = {}
  <2>1. Goto(r, "skipped_early") /\ (\/ slots' = [n \in Slots |-> IF n \in own THEN aged[n] ELSE slots[n]]
                                     \/ slots' = aged)
    BY <1>2 DEF Reserve, aged
  <2>2. SlotsAge
    BY <1>1, <1>e, <2>1 DEF SlotsAge
  <2>3. LeadsStay
    BY <1>1, SameLeads DEF IInv
  <2> QED BY <1>1, <2>1, <2>2, <2>3, ClaimedStep
          DEF Unchanged, Claimed, Deciding, Slotted, Tried, Checked
<1>3. CASE own = {} /\ free # {}
  <2> DEFINE n == CHOOSE x \in free : \A m \in free : x <= m
             new == [state |-> "reserved", call |-> c, deal |-> d, lapsed |-> FALSE]
  <2>1. n \in free
    <3>1. free \in SUBSET Nat
      BY StageAssumption
    <3> HIDE DEF free
    <3>2. \E x \in free : \A m \in free : x <= m
      BY <1>3, <3>1, LeastExists
    <3> QED BY <3>2
  <2>2. slots' = [aged EXCEPT ![n] = new] /\ Goto(r, "source")
    BY <1>3 DEF Reserve, aged
  <2>3. n \in Slots /\ n \in Nat /\ n >= FirstSlot /\ aged[n].state = "free" /\ FirstSlot \in Nat
    BY <2>1, StageAssumption DEF Slots
  <2>4. /\ new \in SlotRows /\ new.state = "reserved" /\ new.call = c /\ new.deal = d
    BY <1>1 DEF SlotRows
  <2> HIDE DEF n, new, free
  <2>5. /\ slots' \in [Slots -> SlotRows]
        /\ slots'[n].state = "reserved" /\ slots'[n].call = c /\ slots'[n].deal = d
        /\ \A m \in Slots \ {n} :
             /\ slots'[m].call = slots[m].call /\ slots'[m].deal = slots[m].deal
             /\ \/ slots'[m].state = slots[m].state
                \/ slots[m].state = "reserved" /\ slots'[m].state = "uncertain"
    BY <1>e, <2>2, <2>3, <2>4
  <2>6. /\ slots[n].state = "free" /\ slots[n].call = Nobody
        /\ \A m \in Slots : slots[m].deal # d
    BY <1>3, <1>e, <2>3 DEF IInv, SlotsOk
  <2>j. /\ job' \in Jobs /\ job'[r].pc = "source" /\ job'[r].call = c
        /\ \A k \in Runs \ {r} : job'[k] = job[k]
    BY <1>1, <2>2, GotoFact, StepSets DEF Slotted
  <2>p. /\ "reserving" \in (Deciding \cap Claimed) \ (Tried \cup Slotted)
        /\ "source" \in (Slotted \cap Claimed) \ (Tried \cup Checked)
        /\ Claimed \subseteq Deciding \cup Slotted /\ Checked \subseteq Claimed
        /\ "reserving" \notin {"release", "spend"} /\ "source" \notin {"release", "spend"}
    BY DEF Claimed, Deciding, Slotted, Tried, Checked
  <2>n. \A k \in Runs : job[k].pc \in Slotted => job[k].call \in Calls
    BY DEF IInv, AtWork, Running, Slotted, Shape
  <2>q. Nobody \notin Calls
    BY StageAssumption
  <2> HIDE DEF c, d, own
  <2>7. Shape'
    BY <1>1, <2>5, <2>j DEF IInv, Shape, Jobs, SlotRows
  <2>8. AtWork'
    BY <1>1, <2>j DEF IInv, AtWork, Running
  <2>9. Claims'
    <3>1. \A k \in Runs : job'[k].pc \in Deciding \cup Slotted =>
            job[k].pc \in Deciding \cup Slotted /\ job'[k].call = job[k].call
      BY <1>1, <2>j, <2>p DEF c
    <3>2. \A k \in Runs : job'[k].pc \in Claimed =>
            job[k].pc \in Claimed /\ job'[k].call = job[k].call
      BY <1>1, <2>j, <2>p DEF c
    <3> QED BY <3>1, <3>2, <1>1, <2>j, <2>p DEF IInv, Claims, Holds
  <2>10. Ledger'
    <3>1. \A b \in Calls :
            (\E m \in Slots : slots'[m].state = "confirmed" /\ slots'[m].call = b)
            <=> \E m \in Slots : slots[m].state = "confirmed" /\ slots[m].call = b
      BY <2>3, <2>5, <2>6
    <3>2. \A k \in Runs : /\ job[k].pc \in {"crashed", "analyzing"} => job'[k] = job[k]
                          /\ job[k].pc \in Claimed => job'[k].pc \in Claimed /\ job'[k].call = job[k].call
      BY <1>1, <2>j, <2>p DEF c
    <3> HIDE DEF Slots
    <3> QED BY <1>1, <3>1, <3>2 DEF IInv, Ledger, At
  <2>11. SlotsOk'
    <3>1. SlotsOk
      BY DEF IInv
    <3>2. \A k \in Runs : /\ job[k].pc = "crashed" => job'[k].pc = "crashed"
                          /\ job[k].pc \in Slotted => job'[k].pc \in Slotted /\ job'[k].call = job[k].call
      BY <1>1, <2>j, <2>p DEF c
    <3>3. ASSUME NEW m \in Slots, slots'[m].state = "reserved"
          PROVE  \E k \in Runs : \/ job'[k].pc = "crashed"
                                 \/ job'[k].pc \in Slotted /\ job'[k].call = slots'[m].call
      <4>1. CASE m = n
        BY <2>5, <2>j, <2>p, <4>1
      <4>2. CASE m # n
        <5>1. slots[m].state = "reserved" /\ slots'[m].call = slots[m].call
          BY <2>5, <3>3, <4>2
        <5> QED BY <3>1, <3>2, <5>1 DEF SlotsOk, At
      <4> QED BY <4>1, <4>2
    <3>4. ASSUME NEW m \in Slots
          PROVE  /\ slots'[m].state = "free" => slots'[m].call = Nobody /\ slots'[m].deal = Nobody
                 /\ m < FirstSlot => slots'[m].call = Nobody /\ slots'[m].state \in {"free", "confirmed"}
                 /\ m >= FirstSlot /\ slots'[m].state # "free" =>
                      slots'[m].call \in Calls /\ slots'[m].deal = DealOf[slots'[m].call]
      <4>1. CASE m = n
        BY <1>1, <2>3, <2>5, <4>1
      <4>2. CASE m # n
        BY <2>5, <3>1, <4>2 DEF SlotsOk
      <4> QED BY <4>1, <4>2
    <3>5. \A m, o \in Slots : slots'[m].deal = slots'[o].deal /\ slots'[m].deal # Nobody => m = o
      BY <2>5, <2>6, <3>1 DEF SlotsOk
    <3> HIDE DEF Slots
    <3> QED BY <3>3, <3>4, <3>5 DEF SlotsOk, At
  <2>12. HasSlot'
    <3>1. ASSUME NEW k \in Runs, job'[k].pc \in Slotted
          PROVE  \E m \in Slots : /\ slots'[m].call = job'[k].call
                                  /\ slots'[m].state \in {"reserved", "uncertain"}
      <4>1. CASE k = r
        BY <2>3, <2>5, <2>j, <4>1
      <4>2. CASE k # r
        <5>1. job'[k] = job[k] /\ job[k].pc \in Slotted /\ job[k].call \in Calls
          BY <2>j, <2>n, <3>1, <4>2
        <5>2. PICK m \in Slots : slots[m].call = job[k].call
                                 /\ slots[m].state \in {"reserved", "uncertain"}
          BY <5>1 DEF IInv, HasSlot
        <5>3. m # n
          BY <2>6, <2>q, <5>1, <5>2
        <5> QED BY <2>5, <5>1, <5>2, <5>3
      <4> QED BY <4>1, <4>2
    <3> QED BY <3>1 DEF HasSlot
  <2>13. MovedOnce'
    <3>1. MovedOnce
      BY DEF IInv
    <3>2. \A b \in Calls : (\E m \in Slots : slots[m].call = b) => \E m \in Slots : slots'[m].call = b
      BY <2>5, <2>6, <2>q
    <3>3. \A b \in Calls : sent[b] > 0 => sent[b] = 1 /\ \E m \in Slots : slots'[m].call = b
      BY <3>1, <3>2 DEF MovedOnce
    <3>4. \A k \in Runs : job'[k].pc \in (Deciding \cup Slotted) \ Tried =>
            job[k].pc \in (Deciding \cup Slotted) \ Tried /\ job'[k].call = job[k].call
      BY <1>1, <2>j, <2>p DEF c
    <3> QED BY <1>1, <3>1, <3>3, <3>4 DEF MovedOnce
  <2>14. Ahead'
    BY <1>1, <2>j, <2>p DEF IInv, Ahead, Deal
  <2> QED BY <2>7, <2>8, <2>9, <2>10, <2>11, <2>12, <2>13, <2>14 DEF IInv
<1> QED BY <1>2, <1>3

\* A run that is done with its slot takes none from the others, and leaves no
\* reservation behind.
LEMMA SlotDone ==
  ASSUME IInv, NEW r \in Runs, job[r].pc \in Slotted, slots' \in [Slots -> SlotRows],
         \A n \in Slots \ Reserved(job[r].call) : slots'[n] = slots[n],
         \A n \in Reserved(job[r].call) :
           \/ slots'[n] = FreeSlot
           \/ /\ slots'[n].call = slots[n].call /\ slots'[n].deal = slots[n].deal
              /\ slots'[n].state \in {"confirmed", "uncertain"},
         job'[r].pc = "done", \A k \in Runs \ {r} : job'[k] = job[k]
  PROVE  SlotsOk' /\ HasSlot'
<1> DEFINE c == job[r].call
<1>1. SlotsOk /\ HasSlot /\ c \in Calls /\ Nobody \notin Calls
  BY StageAssumption DEF IInv, AtWork, Running, Slotted, Shape
<1>2. \A k \in Runs \ {r} : job[k].pc \in Slotted => job[k].call # c
  BY DEF IInv, Claims
<1>3. /\ FreeSlot.state = "free" /\ FreeSlot.call = Nobody /\ FreeSlot.deal = Nobody
      /\ "done" \notin Slotted /\ "crashed" \notin Slotted
  BY DEF FreeSlot, Slotted
<1>4. \A n \in Reserved(c) : n \in Slots /\ slots[n].state = "reserved" /\ slots[n].call = c
                             /\ ~(n < FirstSlot)
  BY <1>1 DEF Reserved, SlotsOk
<1>5. ASSUME NEW n \in Slots
      PROVE  /\ slots'[n].state = "free" => slots'[n].call = Nobody /\ slots'[n].deal = Nobody
             /\ n < FirstSlot => slots'[n].call = Nobody /\ slots'[n].state \in {"free", "confirmed"}
             /\ n >= FirstSlot /\ slots'[n].state # "free" =>
                  slots'[n].call \in Calls /\ slots'[n].deal = DealOf[slots'[n].call]
             /\ slots'[n].deal \in {slots[n].deal, Nobody}
  <2>1. CASE n \in Reserved(c)
    <3>1. n >= FirstSlot
      BY <1>4, <2>1, StageAssumption DEF Slots
    <3> QED BY <1>1, <1>3, <1>4, <2>1, <3>1 DEF SlotsOk
  <2>2. CASE n \notin Reserved(c)
    BY <1>1, <2>2 DEF SlotsOk
  <2> QED BY <2>1, <2>2
<1>6. ASSUME NEW n \in Slots, slots'[n].state = "reserved"
      PROVE  \E k \in Runs : \/ job'[k].pc = "crashed"
                             \/ job'[k].pc \in Slotted /\ job'[k].call = slots'[n].call
  <2>1. n \notin Reserved(c)
    BY <1>3, <1>6
  <2>2. slots'[n] = slots[n] /\ slots[n].state = "reserved" /\ slots[n].call # c
    BY <1>6, <2>1 DEF Reserved
  <2>3. PICK k \in Runs : \/ job[k].pc = "crashed"
                          \/ job[k].pc \in Slotted /\ job[k].call = slots[n].call
    BY <1>1, <2>2 DEF SlotsOk, At
  <2>4. k # r
    BY <1>3, <2>2, <2>3
  <2> QED BY <2>2, <2>3, <2>4
<1>7. SlotsOk'
  <2>1. \A n, m \in Slots : slots'[n].deal = slots'[m].deal /\ slots'[n].deal # Nobody => n = m
    BY <1>1, <1>5 DEF SlotsOk
  <2> QED BY <1>5, <1>6, <2>1 DEF SlotsOk, At
<1>8. HasSlot'
  <2> SUFFICES ASSUME NEW k \in Runs, job'[k].pc \in Slotted
               PROVE  \E n \in Slots : /\ slots'[n].call = job'[k].call
                                       /\ slots'[n].state \in {"reserved", "uncertain"}
    BY DEF HasSlot
  <2>1. k # r /\ job'[k] = job[k]
    BY <1>3
  <2>2. PICK n \in Slots : slots[n].call = job[k].call /\ slots[n].state \in {"reserved", "uncertain"}
    BY <1>1, <2>1 DEF HasSlot
  <2>3. n \notin Reserved(c)
    BY <1>2, <2>1, <2>2 DEF Reserved
  <2> QED BY <2>1, <2>2, <2>3
<1> QED BY <1>7, <1>8

\* Releasing and spending.
LEMMA SlotEndsHolds == ASSUME IInv, NEW r \in Runs, Release(r) \/ Spend(r) PROVE IInv'
<1> DEFINE c == job[r].call
<1>1. /\ job[r].pc \in {"release", "spend"} /\ job[r].pc \in Slotted /\ c \in Calls
      /\ UNCHANGED <<known, eligible, live, action, lead, sent>>
      /\ job \in Jobs /\ slots \in [Slots -> SlotRows]
  BY DEF Release, Spend, At, Slotted, IInv, Shape, AtWork, Running, Jobs, SlotRows
<1>2. /\ job' \in Jobs /\ job'[r].pc = "done" /\ \A k \in Runs \ {r} : job'[k] = job[k]
  <2>1. Goto(r, "done") /\ "done" \in Steps
    BY StepSets DEF Release, Spend, Finish
  <2> QED BY <1>1, <2>1, GotoFact
<1>3. /\ slots' \in [Slots -> SlotRows]
      /\ \A n \in Slots \ Reserved(c) : slots'[n] = slots[n]
      /\ \A n \in Reserved(c) : /\ n \in Slots /\ slots[n].state = "reserved" /\ slots[n].call = c
                                /\ \/ slots'[n] = FreeSlot /\ job[r].pc = "release"
                                   \/ /\ slots'[n].call = slots[n].call
                                      /\ slots'[n].deal = slots[n].deal
                                      /\ slots'[n].state = "uncertain"
  <2>1. CASE Release(r)
    <3>1. FreeSlot \in SlotRows
      BY DEF FreeSlot, SlotRows
    <3> QED BY <1>1, <2>1, <3>1 DEF Release, At, Reserved
  <2>2. CASE Spend(r)
    BY <1>1, <2>2 DEF Spend, Reserved, SlotRows
  <2> QED BY <2>1, <2>2
<1>f. FreeSlot.state = "free" /\ FreeSlot.call = Nobody /\ Nobody \notin Calls
  BY StageAssumption DEF FreeSlot
<1>p. /\ {"done", "release", "spend"} \cap Claimed = {} /\ "done" \notin Deciding \cup Slotted
      /\ "release" \notin Tried /\ Checked \subseteq Claimed
      /\ {"crashed", "analyzing"} \cap Slotted = {}
  BY DEF Claimed, Deciding, Slotted, Tried, Checked
<1>4. SlotsOk' /\ HasSlot'
  BY <1>1, <1>2, <1>3, SlotDone
<1> HIDE DEF c
<1>5. Shape'
  BY <1>1, <1>2, <1>3 DEF IInv, Shape, Jobs, SlotRows
<1>6. AtWork'
  BY <1>1, <1>2 DEF IInv, AtWork, Running
<1>7. Claims'
  BY <1>1, <1>2, <1>p DEF IInv, Claims, Holds
<1>8. Ledger'
  <2>1. \A b \in Calls :
          (\E n \in Slots : slots'[n].state = "confirmed" /\ slots'[n].call = b)
          <=> \E n \in Slots : slots[n].state = "confirmed" /\ slots[n].call = b
    BY <1>3, <1>f
  <2>2. \A k \in Runs : job[k].pc \in {"crashed", "analyzing"} \cup Claimed => job'[k] = job[k]
    BY <1>1, <1>2, <1>p
  <2> HIDE DEF Slots
  <2> QED BY <1>1, <2>1, <2>2 DEF IInv, Ledger, At
<1>9. MovedOnce'
  <2>1. MovedOnce
    BY DEF IInv
  <2>2. job[r].pc = "release" => sent[c] = 0
    BY <1>1, <1>p, <2>1 DEF MovedOnce, c
  <2>3. ASSUME NEW b \in Calls, sent[b] > 0
        PROVE  sent[b] = 1 /\ \E n \in Slots : slots'[n].call = b
    <3>1. sent[b] = 1 /\ \E n \in Slots : slots[n].call = b
      BY <2>1, <2>3 DEF MovedOnce
    <3>2. PICK n \in Slots : slots[n].call = b
      BY <3>1
    <3>3. CASE n \in Reserved(c)
      <4>1. b = c /\ job[r].pc # "release"
        BY <1>3, <2>2, <2>3, <3>2, <3>3
      <4> QED BY <1>3, <3>1, <3>2, <3>3, <4>1
    <3>4. CASE n \notin Reserved(c)
      BY <1>3, <3>1, <3>2, <3>4
    <3> QED BY <3>3, <3>4
  <2>4. \A k \in Runs : job'[k].pc \in (Deciding \cup Slotted) \ Tried => job'[k] = job[k]
    BY <1>2, <1>p
  <2> QED BY <1>1, <2>1, <2>3, <2>4 DEF MovedOnce
<1>10. Ahead'
  BY <1>1, <1>2, <1>p DEF IInv, Ahead, Deal
<1> QED BY <1>4, <1>5, <1>6, <1>7, <1>8, <1>9, <1>10 DEF IInv

\* The confirmation keeps the invariant: the action and its slot change together.
LEMMA ConfirmHolds == ASSUME IInv, NEW r \in Runs, Confirm(r) PROVE IInv'
<1> DEFINE c == job[r].call
<1>1. /\ job[r].pc = "confirming" /\ job[r].pc \in Claimed /\ job[r].pc \in Slotted
      /\ Holds(r) /\ UNCHANGED <<known, eligible, live, lead, sent>>
      /\ job \in Jobs /\ slots \in [Slots -> SlotRows]
  BY DEF Confirm, At, Claimed, Deciding, Slotted, IInv, Claims, Shape, Jobs, SlotRows
<1>2. CASE Goto(r, "uncertain") /\ UNCHANGED <<action, slots>>
  <2>1. Unchanged
    BY <1>1, <1>2, SameSlots, SameLeads DEF Unchanged, IInv
  <2> QED BY <1>1, <1>2, <2>1, ClaimedStep DEF Claimed, Deciding, Slotted, Tried, Checked
<1>3. CASE MarkConfirmed(c) /\ Finish(r)
  <2>1. /\ action' = [action EXCEPT ![c].status = "confirmed", ![c].token = Nobody]
        /\ Reserved(c) # {} /\ Goto(r, "done")
    BY <1>3 DEF MarkConfirmed, Finish
  <2> DEFINE st == "confirmed"
             s == "done"
  <2>2. st \in Statuses /\ s \in Steps /\ s \notin Claimed
    BY StepSets DEF Statuses, Claimed, Deciding, Slotted
  <2>s. Goto(r, s) /\ action' = [action EXCEPT ![c].status = st, ![c].token = Nobody]
    BY <2>1
  <2>v. st = "confirmed" /\ s = "done"
    OBVIOUS
  <2> HIDE DEF c, st, s
  <2>e. /\ c \in known \cap eligible /\ c \in Calls /\ live
        /\ action' \in [Calls -> Rows] /\ action'[c].status = st
        /\ \A b \in Calls \ {c} : action'[b] = action[b]
        /\ job' \in Jobs /\ job'[r].pc = s
        /\ \A k \in Runs \ {r} : job'[k] = job[k]
        /\ \A k \in Runs \ {r} : job[k].pc \in Deciding \cup Slotted =>
             job[k].call \in Calls \ {c} /\ action'[job[k].call] = action[job[k].call]
        /\ \A b \in Calls \ {c} :
             action[b].status \in {"analyzing", "moving"} => action[b].token # r
    BY <1>1, <2>2, <2>s, EndedRow DEF c
  <2> USE DEF c
  <2>3. /\ c \in known \cap eligible /\ c \in Calls /\ live
        /\ action' \in [Calls -> Rows] /\ action'[c].status = "confirmed"
        /\ \A b \in Calls \ {c} : action'[b] = action[b]
        /\ job' \in Jobs /\ job'[r].pc = "done"
        /\ \A k \in Runs \ {r} : job'[k] = job[k]
        /\ \A k \in Runs \ {r} : job[k].pc \in Deciding \cup Slotted =>
             job[k].call \in Calls \ {c} /\ action'[job[k].call] = action[job[k].call]
        /\ \A b \in Calls \ {c} :
             action[b].status \in {"analyzing", "moving"} => action[b].token # r
    BY <2>e, <2>v
  <2>4. /\ slots' \in [Slots -> SlotRows]
        /\ \A n \in Slots \ Reserved(c) : slots'[n] = slots[n]
        /\ \A n \in Reserved(c) : /\ n \in Slots /\ slots[n].state = "reserved" /\ slots[n].call = c
                                  /\ slots'[n].call = slots[n].call
                                  /\ slots'[n].deal = slots[n].deal
                                  /\ slots'[n].state = "confirmed"
    BY <1>1, <1>3 DEF MarkConfirmed, Reserved, SlotRows
  <2>5. SlotsOk' /\ HasSlot'
    BY <1>1, <2>3, <2>4, SlotDone
  <2>p. /\ "done" \notin Deciding \cup Slotted /\ Checked \subseteq Claimed
        /\ Claimed \subseteq Deciding \cup Slotted
        /\ "release" \in Slotted /\ "spend" \in Slotted
    BY DEF Claimed, Deciding, Slotted, Checked
  <2> HIDE DEF c
  <2>6. Shape'
    BY <1>1, <2>3, <2>4 DEF IInv, Shape, Jobs, SlotRows, Rows
  <2>7. AtWork'
    BY <1>1, <2>3 DEF IInv, AtWork, Running
  <2>8. Claims'
    <3>1. Claims
      BY DEF IInv
    <3> QED BY <3>1, <2>3, <2>p DEF Claims, Holds
  <2>9. Ledger'
    <3>l. Ledger
      BY DEF IInv
    <3>1. ASSUME NEW b \in Calls \ {c}
          PROVE  /\ action'[b] = action[b]
                 /\ action[b].status = "analyzing" =>
                      \/ job'[action[b].token].pc = "crashed"
                      \/ /\ job'[action[b].token].pc = "analyzing"
                         /\ job'[action[b].token].call = b
                 /\ action[b].status = "moving" =>
                      \/ job'[action[b].token].pc = "crashed"
                      \/ /\ job'[action[b].token].pc \in Claimed
                         /\ job'[action[b].token].call = b
      BY <3>l, <2>3 DEF Ledger, At
    <3>2. \A b \in Calls \ {c} :
            (\E n \in Slots : slots'[n].state = "confirmed" /\ slots'[n].call = b)
            <=> \E n \in Slots : slots[n].state = "confirmed" /\ slots[n].call = b
      BY <2>4
    <3>3. \E n \in Slots : slots'[n].state = "confirmed" /\ slots'[n].call = c
      BY <2>1, <2>4
    <3> HIDE DEF Slots
    <3> QED BY <3>l, <3>1, <3>2, <3>3, <2>3 DEF Ledger, At
  <2>10. MovedOnce'
    <3>1. MovedOnce
      BY DEF IInv
    <3>2. \A b \in Calls : (\E n \in Slots : slots[n].call = b) => \E n \in Slots : slots'[n].call = b
      BY <2>4
    <3>3. \A b \in Calls : sent[b] > 0 => sent[b] = 1 /\ \E n \in Slots : slots'[n].call = b
      BY <3>1, <3>2 DEF MovedOnce
    <3>4. \A k \in Runs : job'[k].pc \in (Deciding \cup Slotted) \ Tried => job'[k] = job[k]
      BY <2>3, <2>p
    <3> QED BY <1>1, <2>3, <3>1, <3>3, <3>4 DEF MovedOnce
  <2>11. Ahead'
    BY <1>1, <2>3, <2>p DEF IInv, Ahead, Deal
  <2> QED BY <2>5, <2>6, <2>7, <2>8, <2>9, <2>10, <2>11 DEF IInv
<1> QED BY <1>1, <1>2, <1>3 DEF Confirm

-----------------------------------------------------------------------------
(* Deals that move.                                                        *)

\* A deal that moves stands where it was moved to; the others stay.
LEMMA LeadMoves ==
  ASSUME IInv, NEW d \in Deals, NEW stage \in Stages \cup Targets,
         lead' = [lead EXCEPT ![d].stage = stage, ![d].moved = TRUE]
  PROVE  /\ lead' \in [Deals -> Leads] /\ lead'[d].stage = stage
         /\ \A e \in Deals \ {d} : lead'[e] = lead[e]
<1>1. lead \in [Deals -> Leads]
  BY DEF IInv, Shape, Leads
<1> DEFINE l == [lead[d] EXCEPT !.stage = stage]
<1>2. l \in Leads /\ l.stage = stage
  BY <1>1 DEF Leads
<1>3. lead' = [lead EXCEPT ![d] = [l EXCEPT !.moved = TRUE]]
  OBVIOUS
<1> HIDE DEF l
<1>4. [l EXCEPT !.moved = TRUE] \in Leads /\ [l EXCEPT !.moved = TRUE].stage = stage
  BY <1>2 DEF Leads
<1> QED BY <1>1, <1>3, <1>4

\* A move shows in the history of the runs that have not ended theirs: what a run that
\* looks on holds after the deal d moved.
Seen(k, d) == IF Running(k) /\ job[k].pc \notin Over /\ Deal(k) = d
              THEN [job[k] EXCEPT !.moved = TRUE] ELSE job[k]

\* It stays where it is, and learns of the movement.
LEMMA SeenFact ==
  ASSUME IInv, NEW d, NEW k \in Runs
  PROVE  /\ Seen(k, d) \in JobRows /\ Seen(k, d).pc = job[k].pc /\ Seen(k, d).call = job[k].call
         /\ job[k].pc \in Checked =>
              Seen(k, d).moved = TRUE \/ (Deal(k) # d /\ Seen(k, d).moved = job[k].moved)
<1> DEFINE went == [job[k] EXCEPT !.moved = TRUE]
<1>1. /\ job[k] \in JobRows /\ went \in JobRows /\ went.pc = job[k].pc /\ went.call = job[k].call
      /\ went.moved = TRUE
  BY DEF IInv, Shape, JobRows
<1>2. job[k].pc \in Checked => Running(k) /\ job[k].pc \notin Over
  BY DEF Checked, Running, Over
<1>3. \/ Seen(k, d) = went
      \/ Seen(k, d) = job[k] /\ ~(Running(k) /\ job[k].pc \notin Over /\ Deal(k) = d)
  BY DEF Seen
<1> HIDE DEF went
<1> QED BY <1>1, <1>2, <1>3

\* A person who moves a deal keeps the invariant: a run that has checked the lead will see it.
LEMMA PersonMovesHolds == ASSUME IInv, NEW d \in Handled, PersonMoves(d) PROVE IInv'
<1>1. PICK s \in Stages : Moves(d, s, << >>)
  BY DEF PersonMoves
<1>2. d \in Deals /\ DOMAIN << >> = {} /\ s \in Stages \cup Targets
  BY StageAssumption
<1>3. UNCHANGED <<known, eligible, live, action, slots, sent>>
  BY DEF PersonMoves
<1>4. /\ lead' \in [Deals -> Leads] /\ job' \in Jobs
      /\ \A e \in Deals \ {d} : lead'[e] = lead[e]
      /\ \A k \in Runs :
           /\ job'[k].pc = job[k].pc /\ job'[k].call = job[k].call
           /\ job[k].pc \in Checked =>
                job'[k].moved = TRUE \/ (Deal(k) # d /\ job'[k].moved = job[k].moved)
  <2>1. lead' = [lead EXCEPT ![d].stage = s, ![d].moved = TRUE]
    BY <1>1 DEF Moves
  <2>2. job' = [k \in Runs |-> Seen(k, d)]
    BY <1>1, <1>2 DEF Moves, Seen
  <2>3. job' \in [Runs -> JobRows] /\ \A k \in Runs : job'[k] = Seen(k, d)
    BY <2>2, SeenFact
  <2>4. lead' \in [Deals -> Leads] /\ \A e \in Deals \ {d} : lead'[e] = lead[e]
    BY <1>2, <2>1, LeadMoves
  <2>5. job' \in Jobs
    BY <2>3 DEF Jobs, JobRows
  <2>6. ASSUME NEW k \in Runs PROVE Seen(k, d).pc = job[k].pc /\ Seen(k, d).call = job[k].call
    BY SeenFact
  <2>7. ASSUME NEW k \in Runs, job[k].pc \in Checked
        PROVE  Seen(k, d).moved = TRUE \/ (Deal(k) # d /\ Seen(k, d).moved = job[k].moved)
    BY <2>7, SeenFact
  <2> QED BY <2>3, <2>4, <2>5, <2>6, <2>7
<1>5. Shape'
  BY <1>3, <1>4 DEF IInv, Shape, Leads, Jobs
<1>6. AtWork' /\ Claims'
  BY <1>3, <1>4 DEF IInv, AtWork, Claims, Running, Holds
<1>7. Ledger'
  BY <1>3, <1>4 DEF IInv, Ledger, At
<1>8. SlotsOk' /\ HasSlot'
  BY <1>3, <1>4 DEF IInv, SlotsOk, HasSlot, At
<1>9. MovedOnce'
  BY <1>3, <1>4 DEF IInv, MovedOnce
<1>10. Ahead'
  <2>1. \A k \in Runs : job[k].pc \in Checked => Deal(k) \in Deals
    BY StageAssumption DEF IInv, Shape, AtWork, Running, Checked, Deal
  <2> QED BY <1>3, <1>4, <2>1 DEF IInv, Ahead, Deal
<1> QED BY <1>5, <1>6, <1>7, <1>8, <1>9, <1>10 DEF IInv

\* The PATCH keeps the invariant: it is the first of its call.
LEMMA PatchHolds == ASSUME IInv, NEW r \in Runs, Patch(r) PROVE IInv'
<1> DEFINE c == job[r].call
           d == Deal(r)
<1>1. /\ job[r].pc = "patch" /\ c \in Calls /\ d \in Deals /\ Holds(r)
      /\ action[c].target \in Targets /\ sent[c] = 0 /\ sent \in [Calls -> Nat]
      /\ UNCHANGED <<known, eligible, live, action, slots>>
  <2>1. /\ job[r].pc = "patch" /\ c \in Calls /\ sent \in [Calls -> Nat]
        /\ UNCHANGED <<known, eligible, live, action, slots>>
    BY DEF Patch, At, IInv, Shape, AtWork, Running
  <2>2. Holds(r) /\ sent[c] = 0
    BY <2>1 DEF IInv, Claims, MovedOnce, Claimed, Deciding, Slotted, Tried
  <2>3. action[c].target \in Targets
    BY <2>1, <2>2 DEF IInv, Ledger, Holds
  <2> QED BY <2>1, <2>2, <2>3, StageAssumption DEF Deal
<1>2. PICK o \in PatchOutcomes :
        IF o.made
        THEN /\ Moves(d, action[c].target, [x \in {r} |-> o.step])
             /\ sent' = [sent EXCEPT ![c] = @ + 1]
        ELSE Goto(r, o.step) /\ UNCHANGED <<lead, sent>>
  BY DEF Patch
<1>3. /\ o.made => o.step \in {"readback", "readback_unsure"}
      /\ ~o.made => o.step \in {"readback_unsure", "skipped"}
  <2>1. CASE o = [made |-> TRUE, step |-> "readback"]
    BY <2>1
  <2>2. CASE o = [made |-> TRUE, step |-> "readback_unsure"]
    BY <2>2
  <2>3. CASE o = [made |-> FALSE, step |-> "readback_unsure"]
    BY <2>3
  <2>4. CASE o = [made |-> FALSE, step |-> "skipped"]
    BY <2>4
  <2> QED BY <2>1, <2>2, <2>3, <2>4, Zenon DEF PatchOutcomes
<1>4. CASE ~o.made
  <2>1. Unchanged
    BY <1>1, <1>2, <1>4, SameSlots, SameLeads DEF Unchanged, IInv
  <2> QED BY <1>1, <1>2, <1>3, <1>4, <2>1, ClaimedStep DEF Claimed, Deciding, Slotted, Tried,
                                                           Checked
<1>5. CASE o.made
  <2> DEFINE at == [x \in {r} |-> o.step]
  <2>1. DOMAIN at = {r} /\ at[r] = o.step /\ o.step \in {"readback", "readback_unsure"}
    BY <1>3, <1>5
  <2>2. Moves(d, action[c].target, at) /\ sent' = [sent EXCEPT ![c] = @ + 1]
    BY <1>2, <1>5
  <2> HIDE DEF at, d
  <2>3. /\ lead' \in [Deals -> Leads] /\ job' \in Jobs
        /\ \A e \in Deals \ {d} : lead'[e] = lead[e]
        /\ job'[r].pc \in {"readback", "readback_unsure"} /\ job'[r].call = c
        /\ \A k \in Runs \ {r} :
             /\ job'[k].pc = job[k].pc /\ job'[k].call = job[k].call
             /\ job[k].pc \in Checked =>
                  job'[k].moved = TRUE \/ (Deal(k) # d /\ job'[k].moved = job[k].moved)
    <3> DEFINE t == action[c].target
    <3>1. lead' = [lead EXCEPT ![d].stage = t, ![d].moved = TRUE] /\ t \in Stages \cup Targets
      BY <1>1, <2>2 DEF Moves
    <3>2. job' = [k \in Runs |-> IF k = r THEN To(k, o.step) ELSE Seen(k, d)]
      BY <2>1, <2>2 DEF Moves, Seen
    <3>3. lead' \in [Deals -> Leads] /\ \A e \in Deals \ {d} : lead'[e] = lead[e]
      <4> HIDE DEF t
      <4> QED BY <1>1, <3>1, LeadMoves
    <3>4. /\ To(r, o.step) \in JobRows /\ To(r, o.step).pc = o.step /\ To(r, o.step).call = c
      <4>1. o.step \in Steps /\ o.step \in Over /\ o.step \notin {"done", "crashed"}
        BY <2>1, StepSets DEF Over, Slotted
      <4> QED BY <1>1, <4>1 DEF To, JobRows
    <3>5. job' \in [Runs -> JobRows] /\ job'[r] = To(r, o.step)
          /\ \A k \in Runs \ {r} : job'[k] = Seen(k, d)
      BY <3>2, <3>4, SeenFact
    <3>6. job' \in Jobs
      BY <3>5 DEF Jobs, JobRows
    <3>7. ASSUME NEW k \in Runs \ {r}
          PROVE  /\ job'[k].pc = job[k].pc /\ job'[k].call = job[k].call
                 /\ job[k].pc \in Checked =>
                      job'[k].moved = TRUE \/ (Deal(k) # d /\ job'[k].moved = job[k].moved)
      <4>1. Seen(k, d).pc = job[k].pc /\ Seen(k, d).call = job[k].call
        BY SeenFact
      <4>2. ASSUME job[k].pc \in Checked
            PROVE  Seen(k, d).moved = TRUE \/ (Deal(k) # d /\ Seen(k, d).moved = job[k].moved)
        BY <4>2, SeenFact
      <4> QED BY <3>5, <4>1, <4>2
    <3> QED BY <2>1, <3>3, <3>4, <3>5, <3>6, <3>7
  <2>4. /\ sent' \in [Calls -> Nat] /\ sent'[c] = 1
        /\ \A b \in Calls \ {c} : sent'[b] = sent[b]
    BY <1>1, <2>2
  <2>p. /\ "patch" \in Claimed /\ "patch" \in Slotted /\ "patch" \notin Checked
        /\ {"readback", "readback_unsure"} \subseteq Claimed \cap Slotted \cap Tried
        /\ {"readback", "readback_unsure"} \cap Checked = {}
    BY DEF Claimed, Deciding, Slotted, Tried, Checked
  <2>c. \A k \in Runs : job'[k].call = job[k].call
    BY <2>3
  <2>5. Shape'
    BY <1>1, <2>3, <2>4 DEF IInv, Shape, Leads, Jobs
  <2>6. AtWork'
    BY <1>1, <2>3 DEF IInv, AtWork, Running
  <2>7. Claims'
    <3>1. \A k \in Runs : /\ job'[k].pc \in Deciding \cup Slotted <=> job[k].pc \in Deciding \cup Slotted
                          /\ job'[k].pc \in Claimed <=> job[k].pc \in Claimed
                          /\ job'[k].pc \in {"release", "spend"} => job'[k].pc = job[k].pc
      BY <1>1, <2>3, <2>p
    <3> HIDE DEF c
    <3> QED BY <1>1, <3>1, <2>c DEF IInv, Claims, Holds
  <2>8. Ledger'
    <3>1. \A k \in Runs : /\ job[k].pc \in {"crashed", "analyzing"} => job'[k].pc = job[k].pc
                          /\ job[k].pc \in Claimed => job'[k].pc \in Claimed
      BY <1>1, <2>3, <2>p
    <3> HIDE DEF c
    <3> QED BY <1>1, <3>1, <2>c DEF IInv, Ledger, At
  <2>9. SlotsOk' /\ HasSlot'
    <3>1. \A k \in Runs : /\ job[k].pc = "crashed" => job'[k].pc = "crashed"
                          /\ job[k].pc \in Slotted <=> job'[k].pc \in Slotted
      BY <1>1, <2>3, <2>p
    <3> HIDE DEF c
    <3> QED BY <1>1, <3>1, <2>c DEF IInv, SlotsOk, HasSlot, At
  <2>10. MovedOnce'
    <3>1. MovedOnce
      BY DEF IInv
    <3>2. \E n \in Slots : slots[n].call = c
      BY <1>1, <2>p DEF IInv, HasSlot
    <3>3. \A b \in Calls : sent'[b] > 0 => sent'[b] = 1 /\ \E n \in Slots : slots[n].call = b
      BY <2>4, <3>1, <3>2 DEF MovedOnce
    <3>4. action[c].status = "moving"
      BY <1>1 DEF Holds
    <3>5. ASSUME NEW k \in Runs, job'[k].pc \in (Deciding \cup Slotted) \ Tried
          PROVE  sent'[job'[k].call] = 0
      <4>1. k # r /\ job[k].pc \in (Deciding \cup Slotted) \ Tried
        BY <2>3, <2>p, <3>5
      <4>2. job[k].call \in Calls \ {c}
        BY <1>1, <2>p, <4>1 DEF IInv, Claims, AtWork, Running, Deciding, Slotted, Shape
      <4> QED BY <2>c, <2>4, <3>1, <4>1, <4>2 DEF MovedOnce
    <3> QED BY <1>1, <2>4, <3>1, <3>3, <3>4, <3>5 DEF MovedOnce
  <2>11. Ahead'
    <3>1. \A k \in Runs : job[k].pc \in Checked => Deal(k) \in Deals
      BY StageAssumption DEF IInv, Shape, AtWork, Running, Checked, Deal
    <3>2. \A k \in Runs : job'[k].pc \in Checked => k # r /\ job[k].pc \in Checked
      BY <1>1, <2>3, <2>p
    <3> QED BY <1>1, <2>3, <3>1, <3>2 DEF IInv, Ahead, Deal
  <2> QED BY <2>5, <2>6, <2>7, <2>8, <2>9, <2>10, <2>11 DEF IInv
<1> QED BY <1>4, <1>5

-----------------------------------------------------------------------------
(* The theorems.                                                           *)

\* The invariant holds at the start, with the slots of the earlier rollout.
LEMMA InitHolds == Init => IInv
<1> SUFFICES ASSUME Init PROVE IInv
  OBVIOUS
<1>1. PICK d \in (Deals \ Handled) \cup {Nobody} :
        slots = [n \in Slots |-> IF n = 1 /\ 1 < FirstSlot /\ d # Nobody
                                 THEN [FreeSlot EXCEPT !.state = "confirmed", !.deal = d]
                                 ELSE FreeSlot]
  BY DEF Init
<1>2. /\ FreeSlot \in SlotRows /\ FreeSlot.state = "free" /\ FreeSlot.call = Nobody
      /\ FreeSlot.deal = Nobody
  BY DEF FreeSlot, SlotRows
<1> DEFINE old == [FreeSlot EXCEPT !.state = "confirmed", !.deal = d]
<1>3. old \in SlotRows /\ old.state = "confirmed" /\ old.call = Nobody /\ old.deal = d
  BY DEF FreeSlot, SlotRows
<1> HIDE DEF old
<1>4. /\ slots \in [Slots -> SlotRows]
      /\ \A n \in Slots : IF n = 1 /\ 1 < FirstSlot /\ d # Nobody
                          THEN slots[n] = old ELSE slots[n] = FreeSlot
  BY <1>1, <1>2, <1>3 DEF old
<1>5. \A n \in Slots : n \in Nat
  BY DEF Slots
<1>6. /\ \A r \in Runs : job[r] = [pc |-> "ready", call |-> Nobody, source |-> Nobody, moved |-> FALSE]
      /\ \A c \in Calls : action[c].status = "absent" /\ sent[c] = 0
  BY DEF Init
<1>7. Shape
  <2>1. lead \in [Deals -> Leads]
    <3>1. lead \in [Deals -> [stage : Stages, moved : {FALSE},
                     fields : {[f \in Fields |-> [value |-> "empty", by |-> "person"]]}]]
      BY DEF Init
    <3>2. [f \in Fields |-> [value |-> "empty", by |-> "person"]]
            \in [Fields -> [value : Values, by : {"person", "model"}]]
      BY DEF Values
    <3> QED BY <3>1, <3>2 DEF Leads
  <2>2. job \in Jobs
    BY StepSets DEF Init, Jobs
  <2>3. action \in [Calls -> Rows]
    BY DEF Init, Rows, Statuses
  <2> QED BY <1>4, <2>1, <2>2, <2>3 DEF Init, Shape, Leads, Jobs, Rows, SlotRows
<1>8. \A r \in Runs : job[r].pc = "ready"
  BY <1>6
<1>9. "ready" \notin Deciding \cup Slotted \cup Claimed \cup Checked
  BY DEF Deciding, Slotted, Claimed, Checked
<1>10. AtWork /\ Claims /\ HasSlot /\ MovedOnce /\ Ahead
  BY <1>6, <1>8, <1>9 DEF AtWork, Running, Claims, HasSlot, MovedOnce, Ahead
<1>11. SlotsOk /\ Ledger
  <2>1. \A n \in Slots : slots[n].call = Nobody /\ slots[n].state \in {"free", "confirmed"}
    BY <1>2, <1>3, <1>4
  <2>2. \A n \in Slots : n >= FirstSlot => slots[n] = FreeSlot
    BY <1>4, <1>5, StageAssumption
  <2>3. \A n \in Slots : slots[n].deal # Nobody => n = 1
    BY <1>2, <1>4
  <2>4. SlotsOk
    <3>1. ASSUME NEW n \in Slots
          PROVE  /\ slots[n].state = "free" => slots[n].call = Nobody /\ slots[n].deal = Nobody
                 /\ n >= FirstSlot => slots[n].state = "free"
                 /\ slots[n].state # "reserved"
      <4>1. slots[n] = FreeSlot \/ slots[n].state = "confirmed"
        BY <1>3, <1>4
      <4> QED BY <1>2, <2>1, <2>2, <4>1
    <3>2. \A n, m \in Slots : slots[n].deal = slots[m].deal /\ slots[n].deal # Nobody => n = m
      BY <2>3
    <3> QED BY <2>1, <3>1, <3>2 DEF SlotsOk
  <2>5. Ledger
    BY <1>6, <2>1, StageAssumption DEF Ledger
  <2> QED BY <2>4, <2>5
<1> QED BY <1>7, <1>10, <1>11 DEF IInv

\* Every step keeps the invariant.
LEMMA Invariant == Spec => []IInv
<1>1. IInv /\ [Next]_vars => IInv'
  BY BeginHolds, LookUpHolds, ClaimAnalysisHolds, FinalizeHolds, ClaimMoveHolds, LookingHolds,
     FillFieldsHolds, ReserveHolds, PatchHolds, ConfirmHolds, EndMoveHolds, SlotEndsHolds,
     CrashHolds, AnalysisLapsesHolds, AroundHolds, PersonMovesHolds
     DEF Next, Analyse, Decide, Move
<1> QED BY <1>1, InitHolds, PTL DEF Spec

\* The fields amoCRM asks of a target are fields.
LEMMA FieldsOfTarget ==
  ASSUME NEW t \in Targets PROVE RequiredFor[t] \subseteq Fields /\ DuplicateField \in Fields
<1>1. RequiredFor[t] \in {RequiredFor[u] : u \in Targets}
  BY Zenon
<1>2. ASSUME NEW S \in {RequiredFor[u] : u \in Targets}
      PROVE  S \subseteq UNION {RequiredFor[u] : u \in Targets}
  BY Zenon
<1>3. UNION {RequiredFor[u] : u \in Targets} \subseteq Fields /\ DuplicateField \in Fields
  BY Zenon DEF Fields
<1> QED BY <1>1, <1>2, <1>3, Zenon

\* What a run fills in are fields: its claimed action has a target.
LEMMA AskedHolds == IInv /\ AskedShape /\ [Next]_vars => AskedShape'
<1> SUFFICES ASSUME IInv, AskedShape, [Next]_vars PROVE AskedShape'
  OBVIOUS
<1>1. ASSUME NEW r \in Runs, Reroute(r) PROVE AskedShape'
  <2> DEFINE t == action[job[r].call].target
             found == Missing(t, lead[Deal(r)].fields)
  <2>1. job[r].pc \in Claimed /\ Running(r)
    BY <1>1 DEF Reroute, At, Claimed, Deciding, Slotted, Running
  <2>2. job[r].call \in Calls /\ Holds(r)
    BY <2>1 DEF IInv, AtWork, Claims, Shape
  <2>3. t \in Targets
    BY <2>2 DEF IInv, Ledger, Holds
  <2>4. found \subseteq Fields
    <3>1. found \subseteq RequiredFor[t] \cup {DuplicateField}
      BY DEF Missing
    <3> HIDE DEF found
    <3> QED BY <2>3, <3>1, FieldsOfTarget
  <2>5. asked' = [asked EXCEPT ![r] = IF job'[r].pc = "filling" THEN found ELSE {}]
    BY <1>1 DEF Reroute
  <2> HIDE DEF found
  <2> QED BY <2>4, <2>5 DEF AskedShape
<1>2. ASSUME NEW r \in Runs, FillFields(r) \/ Crash(r) PROVE AskedShape'
  BY <1>2 DEF FillFields, Crash, AskedShape
<1>3. ASSUME asked' = asked PROVE AskedShape'
  BY <1>3 DEF AskedShape
<1>4. ASSUME NEW r \in Runs, Analyse(r) PROVE asked' = asked
  BY <1>4 DEF Analyse, Begin, LookUp, ClaimAnalysis, FinalizeAnalysis
<1>5. ASSUME NEW r \in Runs, ClaimMove(r) \/ History(r) \/ Reserve(r) PROVE asked' = asked
  BY <1>5 DEF ClaimMove, History, Reserve
<1>6. ASSUME NEW r \in Runs, Move(r) PROVE asked' = asked
  BY <1>6 DEF Move, ReadSource, FenceLedger, FenceHistory, Patch, ReadBack, AddNote, Confirm,
              EndMove, Release, Spend
<1>7. CASE \/ \E c \in Calls : CallCompleted(c) \/ AnalysisLapses(c)
           \/ \E d \in Handled : HalfAnHourPasses(d) \/ PersonMoves(d) \/ PersonFills(d)
           \/ \E n \in Slots : SlotLapses(n)
           \/ Activate \/ UNCHANGED vars
  <2>1. asked' = asked
    BY <1>7 DEF CallCompleted, AnalysisLapses, HalfAnHourPasses, PersonMoves, PersonFills,
                SlotLapses, Activate, vars
  <2> QED BY <2>1, <1>3
<1> QED BY <1>1, <1>2, <1>3, <1>4, <1>5, <1>6, <1>7 DEF Next, Decide

\* The ledger, the slots, the deals and the runs stay well formed.
THEOREM TypeCorrect == Spec => []TypeOK
<1>1. Init => AskedShape
  BY DEF Init, AskedShape
<1>2. IInv /\ AskedShape => TypeOK
  BY DEF IInv, Shape, AskedShape, TypeOK
<1>3. Spec => []AskedShape
  BY <1>1, AskedHolds, Invariant, PTL DEF Spec
<1> QED BY <1>2, <1>3, Invariant, PTL

\* Every deal the automation moves (moveLeadToTarget) is moved once and holds a slot of
\* this rollout for good, which no other call of the deal can have: however many
\* calls, runs and slots there are, no more deals are moved than slots.
THEOREM MovesAreSlotted == Spec => []EveryMoveHoldsASlot
<1>1. IInv => EveryMoveHoldsASlot
  <2> SUFFICES ASSUME IInv, NEW c \in Calls, sent[c] > 0
               PROVE  /\ sent[c] = 1
                      /\ \E n \in FirstSlot..LastSlot : slots[n].state # "free" /\ slots[n].call = c
                      /\ \A other \in Calls \ {c} : DealOf[other] = DealOf[c] => sent[other] = 0
    BY DEF EveryMoveHoldsASlot
  <2>0. /\ Nobody \notin Calls \cup Deals /\ FirstSlot \in Nat /\ LastSlot \in Nat
        /\ \A b \in Calls : DealOf[b] \in Deals
    BY StageAssumption
  <2>1. \A b \in Calls : sent[b] \in Nat
    BY DEF IInv, Shape
  <2>2. ASSUME NEW b \in Calls, sent[b] > 0
        PROVE  \E n \in Slots : /\ n >= FirstSlot /\ n <= LastSlot /\ slots[n].state # "free"
                                /\ slots[n].call = b /\ slots[n].deal = DealOf[b]
    <3>1. PICK n \in Slots : slots[n].call = b
      BY <2>2 DEF IInv, MovedOnce
    <3>2. n \in Nat /\ n <= LastSlot
      BY <2>0 DEF Slots
    <3>3. n >= FirstSlot /\ slots[n].state # "free"
      BY <2>0, <3>1, <3>2 DEF IInv, SlotsOk
    <3> QED BY <3>1, <3>2, <3>3 DEF IInv, SlotsOk
  <2>3. sent[c] = 1
    BY DEF IInv, MovedOnce
  <2>4. PICK n \in Slots : /\ n >= FirstSlot /\ n <= LastSlot /\ slots[n].state # "free"
                           /\ slots[n].call = c /\ slots[n].deal = DealOf[c]
    BY <2>2
  <2>5. n \in FirstSlot..LastSlot
    BY <2>0, <2>4 DEF Slots
  <2>6. ASSUME NEW other \in Calls \ {c}, DealOf[other] = DealOf[c], sent[other] # 0 PROVE FALSE
    <3>1. sent[other] > 0
      BY <2>1, <2>6
    <3>2. PICK m \in Slots : slots[m].call = other /\ slots[m].deal = DealOf[other]
      BY <2>2, <3>1
    <3>3. slots[m].deal = slots[n].deal /\ slots[m].deal # Nobody
      BY <2>0, <2>4, <2>6, <3>2
    <3>4. m = n
      BY <3>3 DEF IInv, SlotsOk
    <3> QED BY <2>4, <2>6, <3>2, <3>4
  <2> QED BY <2>3, <2>4, <2>5, <2>6
<1> QED BY <1>1, Invariant, PTL

\* A move the ledger calls confirmed (markMoveConfirmed) is one whose slot is, and one it
\* calls skipped, blocked or to be reviewed sent nothing.
THEOREM LedgerIsTrue == Spec => []LedgerTellsTheTruth
<1>1. IInv => LedgerTellsTheTruth
  <2> SUFFICES ASSUME IInv, NEW c \in Calls
               PROVE  /\ action[c].status = "confirmed" <=>
                           \E n \in FirstSlot..LastSlot :
                             slots[n].state = "confirmed" /\ slots[n].call = c
                      /\ action[c].status \in {"skipped", "blocked_missing_fields", "review"} =>
                           sent[c] = 0
    BY DEF LedgerTellsTheTruth
  <2>0. Nobody \notin Calls /\ FirstSlot \in Nat \ {0} /\ LastSlot \in Nat
    BY StageAssumption
  <2>1. \A n \in Slots : slots[n].call = c => n \in FirstSlot..LastSlot
    BY <2>0 DEF IInv, SlotsOk, Slots
  <2>2. FirstSlot..LastSlot \subseteq Slots
    BY <2>0 DEF Slots
  <2>3. action[c].status = "confirmed" <=>
          \E n \in Slots : slots[n].state = "confirmed" /\ slots[n].call = c
    BY DEF IInv, Ledger
  <2>4. action[c].status \in {"skipped", "blocked_missing_fields", "review"} => sent[c] = 0
    BY DEF IInv, MovedOnce
  <2> QED BY <2>1, <2>2, <2>3, <2>4
<1> QED BY <1>1, Invariant, PTL

\* Without a crash, every analysis and every claimed move is brought to an end in the
\* ledger, and every reservation is confirmed, released or spent.
THEOREM NothingIsLeftHalfDone == Spec => []SettledUnlessCrashed
<1>1. IInv => SettledUnlessCrashed
  <2> SUFFICES ASSUME IInv, \A r \in Runs : ~Running(r) /\ ~At(r, "crashed")
               PROVE  /\ \A c \in Calls : action[c].status \notin {"analyzing", "moving"}
                      /\ \A n \in Slots : slots[n].state # "reserved"
    BY DEF SettledUnlessCrashed
  <2>1. \A r \in Runs : job[r].pc \in {"ready", "done"}
    BY DEF Running, At
  <2>2. {"ready", "done"} \cap (Claimed \cup Slotted \cup {"crashed", "analyzing"}) = {}
    BY DEF Claimed, Deciding, Slotted
  <2> QED BY <2>1, <2>2 DEF IInv, Ledger, SlotsOk, At
<1> QED BY <1>1, Invariant, PTL

\* Only the last look at the history lets a PATCH go.
LEMMA IntoPatch ==
  ASSUME IInv, Next, NEW r \in Runs, ~At(r, "patch"), job'[r].pc = "patch"
  PROVE  FenceHistory(r) /\ At(r, "last_fence_history") /\ ~Recent(r)
<1>1. job \in Jobs /\ job[r].pc # "patch"
  BY DEF IInv, Shape, Jobs, At
<1>2. ASSUME NEW k \in Runs, NEW s, s # "patch", Goto(k, s) PROVE FALSE
  BY <1>1, <1>2 DEF Goto, To, Jobs
<1>3. ASSUME NEW d, NEW stage, NEW at, Moves(d, stage, at), \A k \in DOMAIN at : at[k] # "patch"
      PROVE  FALSE
  <2>1. CASE r \in DOMAIN at
    BY <1>3, <2>1 DEF Moves, To
  <2>2. CASE r \notin DOMAIN at
    BY <1>1, <1>3, <2>2 DEF Moves, Jobs
  <2> QED BY <2>1, <2>2
<1>4. job' # job
  BY <1>1
<1>5. ASSUME NEW k \in Runs, Analyse(k) PROVE FALSE
  <2>1. CASE Begin(k)
    <3>1. PICK c \in known : \/ Finish(k)
                             \/ job' = [job EXCEPT ![k] = [pc |-> "looking", call |-> c,
                                          source |-> Nobody, moved |-> lead[DealOf[c]].moved]]
      BY <2>1 DEF Begin
    <3> QED BY <1>1, <1>2, <3>1 DEF Finish, Jobs
  <2>2. CASE LookUp(k)
    BY <1>2, <2>2 DEF LookUp, Finish
  <2>3. CASE ClaimAnalysis(k)
    BY <1>2, <2>3 DEF ClaimAnalysis, Finish
  <2>4. CASE FinalizeAnalysis(k)
    BY <1>2, <2>4 DEF FinalizeAnalysis, Finish
  <2> QED BY <1>5, <2>1, <2>2, <2>3, <2>4 DEF Analyse
<1>6. ASSUME NEW k \in Runs, Decide(k) PROVE FALSE
  <2>1. CASE ClaimMove(k)
    BY <1>2, <2>1 DEF ClaimMove, Finish
  <2>2. CASE Reroute(k)
    <3>1. CASE \E stage : job' = [job EXCEPT ![k].pc = "history", ![k].source = stage]
      BY <1>1, <3>1 DEF Jobs
    <3>2. CASE \E s \in {"uncertain_early", "filling", "blocked_early", "skipped_early"} : Goto(k, s)
      BY <1>2, <3>2
    <3> QED BY <2>2, <3>1, <3>2 DEF Reroute
  <2>3. CASE History(k)
    BY <1>2, <2>3 DEF History
  <2>4. CASE FillFields(k)
    BY <1>2, <2>4 DEF FillFields
  <2>5. CASE Reserve(k)
    BY <1>2, <2>5 DEF Reserve
  <2> QED BY <1>6, <2>1, <2>2, <2>3, <2>4, <2>5 DEF Decide
<1>7. ASSUME NEW k \in Runs, Move(k), ~FenceHistory(k) PROVE FALSE
  <2>1. CASE ReadSource(k)
    <3>1. PICK s \in {"uncertain", "skipped", "fence", "fence_again", "blocked"} : Goto(k, s)
      BY <2>1 DEF ReadSource
    <3> QED BY <1>2, <3>1
  <2>2. CASE FenceLedger(k)
    <3>1. /\ FenceNext["fence"] = "fence_history" /\ FenceNext["fence_again"] = "fence_again_history"
          /\ FenceNext["last_fence"] = "last_fence_history"
      BY DEF FenceNext
    <3>2. PICK s \in {"fence_history", "fence_again_history", "last_fence_history", "skipped",
                      "readback_unsure", "uncertain"} : Goto(k, s)
      BY <2>2, <3>1 DEF FenceLedger
    <3> QED BY <1>2, <3>2
  <2>3. CASE Patch(k)
    <3>1. PICK o \in PatchOutcomes :
            \/ Moves(Deal(k), action[job[k].call].target, [x \in {k} |-> o.step])
            \/ Goto(k, o.step)
      BY <2>3 DEF Patch
    <3>2. o.step # "patch"
      BY DEF PatchOutcomes
    <3> QED BY <1>2, <1>3, <3>1, <3>2
  <2>4. CASE ReadBack(k) \/ AddNote(k)
    BY <1>2, <2>4 DEF ReadBack, AddNote
  <2>5. CASE Confirm(k)
    BY <1>2, <2>5 DEF Confirm, Finish
  <2>6. CASE EndMove(k)
    <3>1. Ending[job[k].pc].then \in {"keep", "release", "spend"}
      BY <2>6, EndFact DEF EndMove
    <3> QED BY <1>2, <2>6, <3>1 DEF EndMove, Finish
  <2>7. CASE Release(k) \/ Spend(k)
    BY <1>2, <2>7 DEF Release, Spend, Finish
  <2> QED BY <1>7, <2>1, <2>2, <2>3, <2>4, <2>5, <2>6, <2>7 DEF Move
<1>8. ASSUME NEW k \in Runs, FenceHistory(k)
      PROVE  k = r /\ At(r, "last_fence_history") /\ ~Recent(r)
  <2>1. /\ FenceNext["fence_history"] = "source_again"
        /\ FenceNext["fence_again_history"] = "last_fence"
    BY DEF FenceNext
  <2>2. ~Recent(k) /\ job[k].pc = "last_fence_history" /\ Goto(k, FenceNext[job[k].pc])
    BY <1>2, <1>8, <2>1 DEF FenceHistory
  <2>3. k = r
    BY <1>1, <2>2 DEF Goto, Jobs
  <2> QED BY <2>2, <2>3 DEF At
<1>9. ASSUME NEW k \in Runs, Crash(k) PROVE FALSE
  BY <1>2, <1>9 DEF Crash
<1>10. ASSUME NEW c \in Calls, CallCompleted(c) \/ AnalysisLapses(c) PROVE FALSE
  BY <1>4, <1>10 DEF CallCompleted, AnalysisLapses
<1>11. ASSUME NEW d \in Handled, HalfAnHourPasses(d) \/ PersonMoves(d) \/ PersonFills(d) PROVE FALSE
  <2>1. CASE PersonMoves(d)
    <3>1. PICK s : Moves(d, s, << >>)
      BY <2>1 DEF PersonMoves
    <3> QED BY <1>3, <3>1
  <2> QED BY <1>4, <1>11, <2>1 DEF HalfAnHourPasses, PersonFills
<1>12. ~Activate /\ \A n \in Slots : ~SlotLapses(n)
  BY <1>4 DEF Activate, SlotLapses
<1> QED BY <1>5, <1>6, <1>7, <1>8, <1>9, <1>10, <1>11, <1>12 DEF Next

\* When the last fence (isMoveMutationCurrent, after the wait for a request slot) lets a
\* PATCH go, its target is ahead of where the deal stands at that moment.
THEOREM OnlyForward == Spec => MovesForward
<1>1. IInv /\ [Next]_vars =>
        [\A r \in Runs : ~At(r, "patch") /\ job'[r].pc = "patch" =>
           /\ live /\ job[r].call \in eligible
           /\ IsUzumLead(lead[Deal(r)].stage)
           /\ IsForward(lead[Deal(r)].stage, action[job[r].call].target)]_vars
  <2> SUFFICES ASSUME IInv, Next, NEW r \in Runs, ~At(r, "patch"), job'[r].pc = "patch"
               PROVE  /\ live /\ job[r].call \in eligible
                      /\ IsUzumLead(lead[Deal(r)].stage)
                      /\ IsForward(lead[Deal(r)].stage, action[job[r].call].target)
    OBVIOUS
  <2>1. FenceHistory(r) /\ job[r].pc = "last_fence_history" /\ ~Recent(r)
    BY IntoPatch DEF At
  <2>2. job[r].pc \in Checked /\ ~job[r].moved
    BY <2>1 DEF Checked, Recent
  <2>3. /\ lead[Deal(r)].stage \in DOMAIN StageOrder
        /\ IsForward(lead[Deal(r)].stage, action[job[r].call].target)
    BY <2>2 DEF IInv, Ahead
  <2>4. live /\ job[r].call \in eligible
    BY <2>1 DEF IInv, AtWork, Running
  <2> QED BY <2>3, <2>4, StageFacts
<1> QED BY <1>1, Invariant, PTL DEF Spec, MovesForward

-----------------------------------------------------------------------------
(* The options the automation adds to a field (FieldOptions).              *)
(* What the record of the added options is worth, for any number of runs,  *)
(* rollbacks and people at once.  amoCRM gives an id once and a snapshot   *)
(* comes before every addition; the rest follows from where the steps of a *)
(* run and of a rollback stand.                                            *)

CONSTANTS Options, FieldValues, Value, Norm, Core, Near, FieldRuns, Rollbacks,
          FullAnswers, None

VARIABLES list, ours, fieldTheirs, overwritten, deleted, snapshot, log, reverted, fieldPc,
          seen, want, fieldMade, fieldStep, adds, cur

Field == INSTANCE FieldOptions WITH Values <- FieldValues, Runs <- FieldRuns, theirs <-
         fieldTheirs, pc <- fieldPc, made <- fieldMade, step <- fieldStep

FieldIInv == /\ Field!TypeOK /\ Field!SnapshotIsOriginal /\ Field!SnapshotComesFirst
             /\ Field!PeoplesOptionsStay /\ Field!Ids /\ Field!Armed /\ Field!Ready
             /\ FullAnswers => Field!ClosedIsGone /\ Field!Gone

\* At the start people made every option there is.
LEMMA FieldInitHolds == Field!Texts /\ Field!Init => FieldIInv
<1> SUFFICES ASSUME Field!Texts, Field!Init PROVE FieldIInv
  OBVIOUS
<1>1. Field!TypeOK
  BY DEF Field!Texts, Field!Init, Field!TypeOK
<1>2. Field!SnapshotIsOriginal /\ Field!SnapshotComesFirst /\ Field!ClosedIsGone /\ Field!PeoplesOptionsStay
  BY DEF Field!Init, Field!SnapshotIsOriginal, Field!SnapshotComesFirst, Field!ClosedIsGone,
         Field!PeoplesOptionsStay
<1>3. Field!Ids /\ Field!Armed /\ Field!Gone /\ Field!Ready
  BY DEF Field!Init, Field!Ids, Field!Armed, Field!Gone, Field!Ready
<1> QED BY <1>1, <1>2, <1>3 DEF FieldIInv

\* Every step keeps the types.
LEMMA TypeStep == Field!Texts /\ Field!TypeOK /\ [Field!Next]_(Field!vars) => Field!TypeOK'
<1> SUFFICES ASSUME Field!Texts, Field!TypeOK, [Field!Next]_(Field!vars) PROVE Field!TypeOK'
  OBVIOUS
<1> USE DEF Field!Texts, Field!TypeOK, Field!Answers, Field!Removed, Field!Kept, Field!AlreadyGone,
            Field!Goto, Field!RbGoto,
            Field!amo, Field!registry, Field!autofill, Field!rollback
<1>1. ASSUME NEW r \in FieldRuns, Field!ReadField(r) \/ Field!Capture(r) \/ Field!Fail(r) PROVE Field!TypeOK'
  BY <1>1 DEF Field!ReadField, Field!Capture, Field!Fail
<1>2. ASSUME NEW r \in FieldRuns, Field!Plan(r) PROVE Field!TypeOK'
  BY <1>2 DEF Field!Plan
<1>3. ASSUME NEW r \in FieldRuns, Field!Get(r) PROVE Field!TypeOK'
  BY <1>3 DEF Field!Get
<1>4. ASSUME NEW r \in FieldRuns, Field!Patch(r) PROVE Field!TypeOK'
  BY <1>4 DEF Field!Patch, Field!Unused, Field!Replaced
<1>5. ASSUME NEW r \in FieldRuns, Field!ReadBack(r) PROVE Field!TypeOK'
  BY <1>5 DEF Field!ReadBack
<1>6. ASSUME NEW r \in FieldRuns, Field!Record(r) PROVE Field!TypeOK'
  BY <1>6 DEF Field!Record
<1>7. ASSUME NEW b \in Rollbacks, Field!ListAdditions(b) \/ Field!GetOptions(b) \/ Field!Check(b) \/ Field!Stop(b)
      PROVE  Field!TypeOK'
  BY <1>7 DEF Field!ListAdditions, Field!GetOptions, Field!Check, Field!Stop
<1>8. ASSUME NEW b \in Rollbacks, Field!Replace(b) PROVE Field!TypeOK'
  BY <1>8 DEF Field!Replace, Field!Unused, Field!Replaced
<1>9. ASSUME NEW b \in Rollbacks, Field!MarkRemoved(b) \/ Field!MarkGone(b) PROVE Field!TypeOK'
  BY <1>9 DEF Field!MarkRemoved, Field!MarkGone
<1>10. CASE Field!AddByHand \/ Field!DeleteByHand
  BY <1>10 DEF Field!AddByHand, Field!DeleteByHand, Field!Unused
<1>11. CASE UNCHANGED Field!vars
  BY <1>11 DEF Field!vars
<1> QED BY <1>1, <1>2, <1>3, <1>4, <1>5, <1>6, <1>7, <1>8, <1>9, <1>10, <1>11
        DEF Field!Next, Field!Fill, Field!TakeBack

\* Ids are given once: what is read, used, logged or closed exists or has existed.
LEMMA IdsStep == Field!Texts /\ FieldIInv /\ [Field!Next]_(Field!vars) => Field!Ids'
<1> SUFFICES ASSUME Field!Texts, Field!TypeOK, Field!Ids, [Field!Next]_(Field!vars) PROVE Field!Ids'
  BY DEF FieldIInv
<1> USE DEF Field!TypeOK, Field!Ids, Field!Answers, Field!Removed, Field!Kept, Field!AlreadyGone, Field!Goto,
            Field!RbGoto,
            Field!amo, Field!registry, Field!autofill, Field!rollback
<1>1. ASSUME NEW r \in FieldRuns, Field!ReadField(r) \/ Field!Capture(r) \/ Field!Fail(r) PROVE Field!Ids'
  BY <1>1 DEF Field!ReadField, Field!Capture, Field!Fail
<1>2. ASSUME NEW r \in FieldRuns, Field!Plan(r) PROVE Field!Ids'
  BY <1>2 DEF Field!Plan
<1>3. ASSUME NEW r \in FieldRuns, Field!Get(r) PROVE Field!Ids'
  BY <1>3 DEF Field!Get
<1>4. ASSUME NEW r \in FieldRuns, Field!Patch(r) PROVE Field!Ids'
  BY <1>4 DEF Field!Patch, Field!Unused, Field!Replaced
<1>5. ASSUME NEW r \in FieldRuns, Field!ReadBack(r) PROVE Field!Ids'
  BY <1>5 DEF Field!ReadBack
<1>6. ASSUME NEW r \in FieldRuns, Field!Record(r) PROVE Field!Ids'
  BY <1>6 DEF Field!Record
<1>7. ASSUME NEW b \in Rollbacks, Field!ListAdditions(b) \/ Field!GetOptions(b) \/ Field!Check(b) \/ Field!Stop(b)
      PROVE  Field!Ids'
  BY <1>7 DEF Field!ListAdditions, Field!GetOptions, Field!Check, Field!Stop
<1>8. ASSUME NEW b \in Rollbacks, Field!Replace(b) PROVE Field!Ids'
  BY <1>8 DEF Field!Replace, Field!Unused, Field!Replaced
<1>9. ASSUME NEW b \in Rollbacks, Field!MarkRemoved(b) \/ Field!MarkGone(b) PROVE Field!Ids'
  BY <1>9 DEF Field!MarkRemoved, Field!MarkGone
<1>10. CASE Field!AddByHand \/ Field!DeleteByHand
  BY <1>10 DEF Field!AddByHand, Field!DeleteByHand, Field!Unused
<1>11. CASE UNCHANGED Field!vars
  BY <1>11 DEF Field!vars
<1> QED BY <1>1, <1>2, <1>3, <1>4, <1>5, <1>6, <1>7, <1>8, <1>9, <1>10, <1>11
        DEF Field!Next, Field!Fill, Field!TakeBack

\* Only a PATCH makes options of the automation, and it comes after the snapshot, which
\* was then taken when there were none.
LEMMA SnapshotStep ==
  Field!Texts /\ FieldIInv /\ [Field!Next]_(Field!vars) 
  => Field!SnapshotIsOriginal' /\ Field!SnapshotComesFirst' /\ Field!Armed' /\ Field!Ready'
<1> DEFINE Goal == Field!SnapshotIsOriginal /\ Field!SnapshotComesFirst /\ Field!Armed /\ Field!Ready
<1> SUFFICES ASSUME Field!Texts, Field!TypeOK, Field!Ids, Goal, [Field!Next]_(Field!vars) PROVE Goal'
  BY DEF FieldIInv
<1> USE DEF Field!TypeOK, Field!Ids, Field!SnapshotIsOriginal, Field!SnapshotComesFirst,
            Field!Armed, Field!Ready, Field!Answers, Field!Goto, Field!RbGoto,
            Field!amo, Field!registry, Field!autofill, Field!rollback
<1>1. ASSUME NEW r \in FieldRuns, Field!ReadField(r) \/ Field!Plan(r) \/ Field!Get(r) \/ Field!ReadBack(r) \/ Field!Fail(r)
      PROVE  Goal'
  BY <1>1 DEF Field!ReadField, Field!Plan, Field!Get, Field!ReadBack, Field!Fail
<1>2. ASSUME NEW r \in FieldRuns, Field!Capture(r) PROVE Goal'
  <2>1. CASE snapshot = None
    BY <1>2, <2>1 DEF Field!Capture, Field!Texts
  <2>2. CASE snapshot # None
    BY <1>2, <2>2 DEF Field!Capture, Field!Texts
  <2> QED BY <2>1, <2>2
<1>3. ASSUME NEW r \in FieldRuns, Field!Patch(r) PROVE Goal'
  <2>1. snapshot # None /\ snapshot \subseteq ours \cup fieldTheirs
    BY <1>3 DEF Field!Patch
  <2>2. snapshot \cap Field!Unused = {}
    BY <2>1 DEF Field!Unused
  <2> QED BY <1>3, <2>1, <2>2 DEF Field!Patch
<1>4. ASSUME NEW r \in FieldRuns, Field!Record(r) PROVE Goal'
  BY <1>4 DEF Field!Record
<1>5. ASSUME NEW b \in Rollbacks, Field!ListAdditions(b) \/ Field!GetOptions(b) \/ Field!Check(b) \/ Field!Stop(b)
      PROVE  Goal'
  BY <1>5 DEF Field!ListAdditions, Field!GetOptions, Field!Check, Field!Stop
<1>6. ASSUME NEW b \in Rollbacks, Field!Replace(b) PROVE Goal'
  <2>1. snapshot # None /\ snapshot \subseteq ours \cup fieldTheirs
    BY <1>6 DEF Field!Replace
  <2>2. snapshot \cap Field!Unused = {}
    BY <2>1 DEF Field!Unused
  <2> QED BY <1>6, <2>1, <2>2 DEF Field!Replace
<1>7. ASSUME NEW b \in Rollbacks, Field!MarkRemoved(b) \/ Field!MarkGone(b) PROVE Goal'
  BY <1>7 DEF Field!MarkRemoved, Field!MarkGone
<1>8. CASE Field!AddByHand \/ Field!DeleteByHand
  BY <1>8 DEF Field!AddByHand, Field!DeleteByHand, Field!Unused
<1>9. CASE UNCHANGED Field!vars
  BY <1>9 DEF Field!vars
<1> QED BY <1>1, <1>2, <1>3, <1>4, <1>5, <1>6, <1>7, <1>8, <1>9 DEF Field!Next, Field!Fill,
     Field!TakeBack

\* With full answers, what a rollback closes is what it read back as gone, and ids do not
\* return.
LEMMA GoneStep ==
  Field!Texts /\ FieldIInv /\ FullAnswers /\ [Field!Next]_(Field!vars) => Field!ClosedIsGone' /\ Field!Gone'
<1> DEFINE Goal == Field!ClosedIsGone /\ Field!Gone
<1> SUFFICES ASSUME Field!Texts, Field!TypeOK, Field!Ids, Goal, FullAnswers, [Field!Next]_(Field!vars)
             PROVE  Goal'
  BY DEF FieldIInv
<1> USE DEF Field!TypeOK, Field!Ids, Field!ClosedIsGone, Field!Gone, Field!Removed,
            Field!Kept, Field!AlreadyGone, Field!Answers, Field!Goto, Field!RbGoto,
            Field!amo, Field!registry, Field!autofill, Field!rollback
<1>1. ASSUME NEW r \in FieldRuns, Field!ReadField(r) \/ Field!Capture(r) \/ Field!Fail(r) PROVE Goal'
  BY <1>1 DEF Field!ReadField, Field!Capture, Field!Fail
<1>2. ASSUME NEW r \in FieldRuns, Field!Plan(r) \/ Field!Get(r) \/ Field!ReadBack(r) \/ Field!Record(r) PROVE Goal'
  BY <1>2 DEF Field!Plan, Field!Get, Field!ReadBack, Field!Record
<1>3. ASSUME list' \cap (ours \cup fieldTheirs) \subseteq list,
             UNCHANGED <<Field!registry, Field!rollback>>
      PROVE  Goal'
  BY <1>3
<1>4. ASSUME NEW r \in FieldRuns, Field!Patch(r) PROVE Goal'
  BY <1>3, <1>4 DEF Field!Patch, Field!Unused, Field!Replaced
<1>5. ASSUME NEW b \in Rollbacks, Field!ListAdditions(b) PROVE Goal'
  BY <1>5 DEF Field!ListAdditions
<1>6. ASSUME NEW b \in Rollbacks, Field!GetOptions(b) PROVE Goal'
  BY <1>6 DEF Field!GetOptions
<1>7. ASSUME NEW b \in Rollbacks, Field!Replace(b) PROVE Goal'
  BY <1>7 DEF Field!Replace, Field!Unused, Field!Replaced
<1>8. ASSUME NEW b \in Rollbacks, Field!Check(b) \/ Field!Stop(b) PROVE Goal'
  BY <1>8 DEF Field!Check, Field!Stop
<1>9. ASSUME NEW b \in Rollbacks, Field!MarkRemoved(b) PROVE Goal'
  BY <1>9 DEF Field!MarkRemoved
<1>10. ASSUME NEW b \in Rollbacks, Field!MarkGone(b) PROVE Goal'
  BY <1>10 DEF Field!MarkGone
<1>11. CASE Field!AddByHand \/ Field!DeleteByHand
  BY <1>3, <1>11 DEF Field!AddByHand, Field!DeleteByHand, Field!Unused
<1>12. CASE UNCHANGED Field!vars
  BY <1>12 DEF Field!vars
<1> QED BY <1>1, <1>2, <1>4, <1>5, <1>6, <1>7, <1>8, <1>9, <1>10, <1>11, <1>12
        DEF Field!Next, Field!Fill, Field!TakeBack

\* A whole-list PATCH drops what its sender did not read; a rollback drops what was logged.
LEMMA StayStep == Field!Texts /\ FieldIInv /\ [Field!Next]_(Field!vars) => Field!PeoplesOptionsStay'
<1> SUFFICES ASSUME Field!Texts, Field!TypeOK, Field!Ids, Field!PeoplesOptionsStay, [Field!Next]_(Field!vars)
             PROVE  Field!PeoplesOptionsStay'
  BY DEF FieldIInv
<1> USE DEF Field!PeoplesOptionsStay, Field!amo, Field!registry, Field!autofill, Field!rollback
<1>1. ASSUME NEW r \in FieldRuns, Field!ReadField(r) \/ Field!Plan(r) \/ Field!Capture(r) \/ Field!Get(r) \/ Field!ReadBack(r)
                             \/ Field!Record(r) \/ Field!Fail(r)
      PROVE  Field!PeoplesOptionsStay'
  BY <1>1 DEF Field!ReadField, Field!Plan, Field!Capture, Field!Get, Field!ReadBack,
              Field!Record, Field!Fail
<1>2. ASSUME NEW r \in FieldRuns, Field!Patch(r) PROVE Field!PeoplesOptionsStay'
  BY <1>2 DEF Field!Patch, Field!Replaced
<1>3. ASSUME NEW b \in Rollbacks, Field!Replace(b) PROVE Field!PeoplesOptionsStay'
  BY <1>3 DEF Field!Replace, Field!Replaced, Field!Kept, Field!Ids
<1>4. ASSUME NEW b \in Rollbacks, Field!ListAdditions(b) \/ Field!GetOptions(b) \/ Field!Check(b)
                                  \/ Field!MarkRemoved(b) \/ Field!MarkGone(b) \/ Field!Stop(b)
      PROVE  Field!PeoplesOptionsStay'
  BY <1>4 DEF Field!ListAdditions, Field!GetOptions, Field!Check, Field!MarkRemoved,
              Field!MarkGone, Field!Stop
<1>5. CASE Field!AddByHand \/ Field!DeleteByHand
  BY <1>5 DEF Field!AddByHand, Field!DeleteByHand
<1>6. CASE UNCHANGED Field!vars
  BY <1>6 DEF Field!vars
<1> QED BY <1>1, <1>2, <1>3, <1>4, <1>5, <1>6 DEF Field!Next, Field!Fill, Field!TakeBack

LEMMA FieldInvariant == ASSUME Field!Texts PROVE Field!Spec => []FieldIInv
<1>1. FieldIInv /\ [Field!Next]_(Field!vars) => FieldIInv'
  BY TypeStep, IdsStep, SnapshotStep, GoneStep, StayStep DEF FieldIInv
<1> QED BY <1>1, FieldInitHolds, PTL DEF Field!Spec

\* The stored original of a field is older than every option the automation made, although
\* it is the list a run read long before it was stored (captureSnapshot), and no option is
\* made or logged without one.
THEOREM OriginalsAreKept ==
  ASSUME Field!Texts PROVE Field!Spec => [](Field!SnapshotIsOriginal /\ Field!SnapshotComesFirst)
BY FieldInvariant, PTL DEF FieldIInv

\* If amoCRM answers with whole lists, no rollback closes the row of an option that amoCRM
\* still has, even when other PATCHes come between its read-back and its update
\* (markReverted).
THEOREM ClosedRowsAreGone ==
  ASSUME Field!Texts, FullAnswers PROVE Field!Spec => []Field!ClosedIsGone
<1>1. FieldIInv => Field!ClosedIsGone
  BY DEF FieldIInv
<1> QED BY <1>1, FieldInvariant, PTL

\* Neither the automation nor the rollback takes a person's option, but under a list
\* that was read without it and for one that was logged as an addition (planOptionRollback).
THEOREM RollbackSparesPeople == ASSUME Field!Texts PROVE Field!Spec => []Field!PeoplesOptionsStay
BY FieldInvariant, PTL DEF FieldIInv
=============================================================================
