----------------------------- MODULE Discipline -----------------------------
(***************************************************************************)
(* The discipline pilot (disciplineCheck.ts, amoRights.ts, disciplinePilot *)
(* .ts, the admin commands test_restrict and test_restore): a pilot        *)
(* manager who has not talked enough to the coach by the deadline loses    *)
(* sight of the new-lead stages until he has.  The rights of his amoCRM    *)
(* role are read, replaced, and what was read is kept in the manager's     *)
(* row; the restoration writes it back.  The check, the commands and the   *)
(* messages of the managers are handlers of one process: they interleave   *)
(* at every await, and a crash ends them all.                              *)
(***************************************************************************)
EXTENDS Integers

CONSTANTS Managers,
          PilotRole,      \* PILOT_MANAGER_CONFIGS: pilot manager -> amoRoleId
          Roles,          \* amoCRM roles
          Handlers,       \* handler invocations at work, the check among them
          Cron,           \* the handler of the check
          Stages, NewLeadStages,    \* all stages, HIDDEN_NEW_LEAD_STAGES
          Norm,           \* MIN_DISCIPLINE_MESSAGES_PER_DAY
          None            \* a null column, an unreadable answer

Pilots == DOMAIN PilotRole

\* A role's rights: the access per stage, the delete and export switches, and (of the
\* model only) whether they are as people set them or hide stages on our behalf.
Access == {"A", "G", "M", "D", "default"}
Rights == [stage : [Stages -> Access], delete : {"A", "D"}, by : {"people", "us"}]

\* What the theorems assume of the constants: every pilot has a role of his own.
Config ==
  /\ PilotRole \in [Pilots -> Roles] /\ Pilots \subseteq Managers
  /\ \A m, n \in Pilots : PilotRole[m] = PilotRole[n] => m = n
  /\ Cron \in Handlers /\ NewLeadStages \subseteq Stages /\ Norm \in Nat
  /\ None \notin Rights /\ None \notin Pilots

VARIABLES active, pilot, restricted, saved,   \* the manager's row
          rights, roleOf,                     \* amoCRM: role -> rights, user -> role
          met,                                \* manager -> valid messages today
          due,                                \* the managers the check has still to visit
          pc, who, kept,                      \* handler -> its place, manager, rights in hand
          mishap                              \* history: managers with a mishap, see below

row == <<active, pilot, restricted, saved>>
amo == <<rights, roleOf>>
vars == <<row, amo, met, due, pc, who, kept, mishap>>

Init ==
  /\ active \in SUBSET Managers /\ pilot = {}
  /\ restricted = {} /\ saved = [m \in Managers |-> None]
  /\ rights \in [Roles -> {R \in Rights : R.by = "people"}]
  /\ roleOf \in [Managers -> Roles \cup {None}]
  /\ met = [m \in Managers |-> 0] /\ due = {}
  /\ pc = [h \in Handlers |-> "idle"]
  /\ who = [h \in Handlers |-> None] /\ kept = [h \in Handlers |-> None]
  /\ mishap = {}

-----------------------------------------------------------------------------

\* normalizeRoleRights: whatever is written, delete and export stay off.
Normalized(R) == [stage |-> R.stage, delete |-> "D", by |-> R.by]

\* buildRestrictedRoleRights
Hidden(R) ==
  [stage |-> [s \in Stages |-> IF s \in NewLeadStages THEN "D" ELSE R.stage[s]],
   delete |-> "D", by |-> "us"]

\* extractEmbeddedUserIds
HoldersOf(r) == {m \in Managers : roleOf[m] = r}

\* A handler is at work on a manager, the check from the moment it lists him.
Works(h, m) == (pc[h] # "idle" /\ who[h] = m) \/ (h = Cron /\ m \in due)
Busy(h, m) == \E g \in Handlers \ {h} : Works(g, m)

\* What may go wrong is noted: two handlers at work on a manager at once, or a restriction
\* that amoCRM has and the row was never told of.
Overlapping(h, M) == mishap' = mishap \cup {m \in M : Busy(h, m)}

Go(h, place) == pc' = [pc EXCEPT ![h] = place]
Still == UNCHANGED mishap

-----------------------------------------------------------------------------
(* A restriction: by the check at the deadline, or by an administrator.    *)

\* runDisciplineCheck lists the managers once.
List ==
  /\ pc[Cron] = "idle" /\ due = {}
  /\ due' = {m \in pilot : m \in active /\ m \notin restricted}
  /\ Overlapping(Cron, due')
  /\ UNCHANGED <<row, amo, met, pc, who, kept>>

\* It visits them one by one, those who met the norm in vain.
Visit(m) ==
  /\ pc[Cron] = "idle" /\ m \in due
  /\ due' = due \ {m}
  /\ IF met[m] >= Norm THEN UNCHANGED <<pc, who>>
     ELSE Go(Cron, "user") /\ who' = [who EXCEPT ![Cron] = m]
  /\ Still /\ UNCHANGED <<row, amo, met, kept>>

\* test_restrict
TestRestrict(h, m) ==
  /\ h # Cron /\ pc[h] = "idle"
  /\ m \in pilot /\ m \notin restricted
  /\ Go(h, "user") /\ who' = [who EXCEPT ![h] = m]
  /\ Overlapping(h, {m})
  /\ UNCHANGED <<row, amo, met, due, kept>>

\* prepareRestrictedRoleRights: the user must have the role,
ReadUser(h) ==
  /\ pc[h] = "user"
  /\ Go(h, IF roleOf[who[h]] = PilotRole[who[h]] THEN "role" ELSE "idle")
  /\ Still /\ UNCHANGED <<row, amo, met, due, who, kept>>

\* and have it to himself.
ReadRole(h) ==
  /\ pc[h] = "role"
  /\ IF HoldersOf(PilotRole[who[h]]) \subseteq {who[h]}
     THEN Go(h, "hide") /\ kept' = [kept EXCEPT ![h] = rights[PilotRole[who[h]]]]
     ELSE Go(h, "idle") /\ UNCHANGED kept
  /\ Still /\ UNCHANGED <<row, amo, met, due, who>>

\* The PATCH of the rights, made of what was read; its answer may be lost.
Hide(h) ==
  /\ pc[h] = "hide"
  /\ rights' = [rights EXCEPT ![PilotRole[who[h]]] = Hidden(kept[h])]
  /\ \/ Go(h, "save") /\ Still
     \/ Go(h, "idle") /\ mishap' = mishap \cup {who[h]}
  /\ UNCHANGED <<row, roleOf, met, due, who, kept>>

Save(h) ==
  /\ pc[h] = "save"
  /\ restricted' = restricted \cup {who[h]}
  /\ saved' = [saved EXCEPT ![who[h]] = kept[h]]
  /\ Go(h, "idle")
  /\ Still /\ UNCHANGED <<active, pilot, amo, met, due, who, kept>>

-----------------------------------------------------------------------------
(* A restoration: by the manager's own message, or by an administrator.    *)

\* maybeRestorePilotManagerAccess reads the row, then counts the messages.
ReadRow(h, m) ==
  /\ h # Cron /\ pc[h] = "idle"
  /\ m \in pilot /\ m \in restricted
  /\ Go(h, "count") /\ who' = [who EXCEPT ![h] = m]
  /\ kept' = [kept EXCEPT ![h] = saved[m]]
  /\ Overlapping(h, {m})
  /\ UNCHANGED <<row, amo, met, due>>

Count(h) ==
  /\ pc[h] = "count"
  /\ Go(h, IF met[who[h]] >= Norm /\ kept[h] # None THEN "open" ELSE "idle")
  /\ Still /\ UNCHANGED <<row, amo, met, due, who, kept>>

\* test_restore asks nothing of the messages.
TestRestore(h, m) ==
  /\ h # Cron /\ pc[h] = "idle"
  /\ m \in pilot /\ m \in restricted /\ saved[m] # None
  /\ Go(h, "open") /\ who' = [who EXCEPT ![h] = m]
  /\ kept' = [kept EXCEPT ![h] = saved[m]]
  /\ Overlapping(h, {m})
  /\ UNCHANGED <<row, amo, met, due>>

\* The PATCH of the saved rights; the row is cleared only after its answer.
Open(h) ==
  /\ pc[h] = "open"
  /\ rights' = [rights EXCEPT ![PilotRole[who[h]]] = Normalized(kept[h])]
  /\ Go(h, "clear") \/ Go(h, "idle")
  /\ Still /\ UNCHANGED <<row, roleOf, met, due, who, kept>>

Clear(h) ==
  /\ pc[h] = "clear"
  /\ restricted' = restricted \ {who[h]}
  /\ saved' = [saved EXCEPT ![who[h]] = None]
  /\ Go(h, "idle")
  /\ Still /\ UNCHANGED <<active, pilot, amo, met, due, who, kept>>

-----------------------------------------------------------------------------
(* Failures, the manager synchronisation, managers and people in amoCRM.   *)

\* A request, a read or a write fails: the handler ends there.
Fail(h) ==
  /\ pc[h] # "idle" /\ Go(h, "idle")
  /\ mishap' = IF pc[h] = "save" THEN mishap \cup {who[h]} ELSE mishap
  /\ UNCHANGED <<row, amo, met, due, who, kept>>

Crash ==
  /\ pc' = [h \in Handlers |-> "idle"] /\ due' = {}
  /\ mishap' = mishap \cup {m \in Managers : \E h \in Handlers : pc[h] = "save" /\ who[h] = m}
  /\ UNCHANGED <<row, amo, met, who, kept>>

\* syncManagersFromPbx: a manager PBX knows is active, a pilot's row gets his role; one it
\* does not know any more is not active.
SyncListed(m) ==
  /\ active' = active \cup {m}
  /\ pilot' = pilot \cup ({m} \cap Pilots)
  /\ Still /\ UNCHANGED <<restricted, saved, amo, met, due, pc, who, kept>>

SyncGone(m) ==
  /\ active' = active \ {m}
  /\ Still /\ UNCHANGED <<pilot, restricted, saved, amo, met, due, pc, who, kept>>

\* applyPilotDisciplineManagerConfig, after every synchronisation and at every start
ApplyConfig(M) ==
  /\ M \subseteq Pilots /\ pilot' = pilot \cup M
  /\ Still /\ UNCHANGED <<active, restricted, saved, amo, met, due, pc, who, kept>>

\* A message of enough words is stored before the row is read (ReadRow).
Message(m) ==
  /\ met' = [met EXCEPT ![m] = @ + 1]
  /\ Still /\ UNCHANGED <<row, amo, due, pc, who, kept>>

\* startOfToday moves on.
Midnight ==
  /\ met' = [m \in Managers |-> 0]
  /\ Still /\ UNCHANGED <<row, amo, due, pc, who, kept>>

EditRights(r, R) ==
  /\ R.by = "people" /\ rights' = [rights EXCEPT ![r] = R]
  /\ Still /\ UNCHANGED <<row, roleOf, met, due, pc, who, kept>>

Reassign(m, r) ==
  /\ roleOf' = [roleOf EXCEPT ![m] = r]
  /\ Still /\ UNCHANGED <<row, rights, met, due, pc, who, kept>>

Restrict(h) == ReadUser(h) \/ ReadRole(h) \/ Hide(h) \/ Save(h)
Restore(h) == Count(h) \/ Open(h) \/ Clear(h)

Environment ==
  \/ Midnight \/ \E M \in SUBSET Pilots : ApplyConfig(M)
  \/ \E m \in Managers :
       SyncListed(m) \/ SyncGone(m) \/ Message(m) \/ \E r \in Roles \cup {None} : Reassign(m, r)
  \/ \E r \in Roles, R \in Rights : EditRights(r, R)

Next ==
  \/ List \/ Crash \/ Environment
  \/ \E h \in Handlers : Restrict(h) \/ Restore(h) \/ Fail(h)
  \/ \E m \in Managers :
       \/ Visit(m)
       \/ \E h \in Handlers : TestRestrict(h, m) \/ ReadRow(h, m) \/ TestRestore(h, m)

Spec == Init /\ [][Next]_vars

-----------------------------------------------------------------------------

Places == {"idle", "user", "role", "hide", "save", "count", "open", "clear"}

TypeOK ==
  /\ active \subseteq Managers /\ pilot \subseteq Pilots /\ restricted \subseteq Pilots
  /\ saved \in [Managers -> Rights \cup {None}]
  /\ rights \in [Roles -> Rights] /\ roleOf \in [Managers -> Roles \cup {None}]
  /\ met \in [Managers -> Nat] /\ due \subseteq Pilots
  /\ pc \in [Handlers -> Places]
  /\ who \in [Handlers -> Pilots \cup {None}] /\ kept \in [Handlers -> Rights \cup {None}]
  /\ mishap \subseteq Managers

\* The row of a restricted manager always has the rights to give back: "Missing saved role
\* rights snapshot" cannot come true.
RestrictedHasSaved == \A m \in Managers : m \in restricted <=> saved[m] # None

\* A role that hides its stages on our behalf belongs to a manager whose row says so and
\* has the people's rights to give back, or is about to, unless a mishap befell him: only
\* an overlap, a crash or a lost answer locks a manager out.
NobodyIsLockedOut ==
  \A m \in Pilots \ mishap : rights[PilotRole[m]].by = "us" =>
    \/ m \in restricted /\ saved[m].by = "people"
    \/ \E h \in Handlers : pc[h] = "save" /\ who[h] = m /\ kept[h].by = "people"

\* What is given back is what people had set, never our own restriction read back.
SnapshotsArePeoples ==
  \A m \in Pilots \ mishap : saved[m] # None => saved[m].by = "people"

\* The row forgets a restriction only when amoCRM has the people's rights again.
ForgottenWhenOpen ==
  [][\A m \in Pilots \ mishap :
       m \in restricted /\ m \notin restricted' => rights'[PilotRole[m]].by = "people"]_vars

\* The strengthening: where no mishap befell, one handler at a time is at work, and the
\* place it is at tells what row and role hold.
Alone == \A m \in Pilots \ mishap : \A g, h \in Handlers : Works(g, m) /\ Works(h, m) => g = h

Progress ==
  \A h \in Handlers :
    /\ pc[h] # "idle" => who[h] \in Pilots
    /\ pc[h] \in {"hide", "save", "count", "open", "clear"} => kept[h] # None
    /\ pc[h] # "idle" /\ who[h] \notin mishap =>
         /\ pc[h] \in {"user", "role", "hide"} =>
              who[h] \notin restricted /\ rights[PilotRole[who[h]]].by = "people"
         /\ pc[h] = "save" => who[h] \notin restricted
         /\ pc[h] \in {"hide", "save", "count", "open", "clear"} => kept[h].by = "people"
         /\ pc[h] = "clear" => rights[PilotRole[who[h]]].by = "people"

Listed ==
  /\ \A m \in due \ mishap : m \notin restricted /\ rights[PilotRole[m]].by = "people"
  /\ pc[Cron] # "idle" => who[Cron] \notin due
=============================================================================
