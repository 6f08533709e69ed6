---------------------------- MODULE FieldOptions ----------------------------
(***************************************************************************)
(* The options of one amoCRM select field, which the call-stage automation *)
(* extends when the model's value matches none of them                     *)
(* (amoOptionMatching.ts, autofillBlockingFields, addFieldOption), the     *)
(* durable record of that (amoFieldOptionRegistry.ts) and the script that  *)
(* takes the additions back (rollbackAmoFieldOptions.ts).  amoCRM has no   *)
(* call that changes one option: every change sends the whole list.  Runs  *)
(* of the automation, rollbacks and people work at the same time; a step   *)
(* is one call or one statement, and any of them may fail.  Fields are     *)
(* independent, as every row and list is kept by field.                    *)
(***************************************************************************)
EXTENDS Integers

CONSTANTS Options,     \* amoCRM's option ids, each given once
          Values, Value,   \* the texts, and option -> its text
          Norm, Core,  \* text -> its normalized form, and that without qualifiers
          Near,        \* the pairs of texts within the typo tolerance
          Runs,        \* fields that runs of the automation fill
          Rollbacks,   \* runs of the rollback script
          FullAnswers, \* amoCRM answers the read of one field with its whole list
          None         \* no snapshot

\* What the theorems assume of the constants.
Texts == Value \in [Options -> Values] /\ None \notin SUBSET Options

VARIABLES list,              \* the field's options in amoCRM
          ours, theirs,      \* the options the automation and people have ever made
          overwritten,       \* people's options that a whole-list PATCH has dropped
          deleted,           \* the options that people removed
          snapshot,          \* amoFieldOptionSnapshot
          log, reverted,     \* amoFieldOptionAddition, and its rows with revertedAt
          pc, seen, want, made,      \* run -> its step, the list it read, the value it needs,
                                     \* and the option it uses
          step, adds, cur    \* rollback -> its step, the additions and the list it read

amo == <<list, ours, theirs, overwritten, deleted>>
registry == <<snapshot, log, reverted>>
autofill == <<pc, seen, want, made>>
rollback == <<step, adds, cur>>
vars == <<amo, registry, autofill, rollback>>

Init ==
  /\ list \in SUBSET Options
  /\ ours = {} /\ theirs = list /\ overwritten = {} /\ deleted = {}
  /\ snapshot = None /\ log = {} /\ reverted = {}
  /\ pc = [r \in Runs |-> "new"] /\ seen = [r \in Runs |-> {}]
  /\ want \in [Runs -> Values] /\ made = [r \in Runs |-> {}]
  /\ step = [b \in Rollbacks |-> "list"]
  /\ adds = [b \in Rollbacks |-> {}] /\ cur = [b \in Rollbacks |-> {}]

\* normalizeFieldEnums: an answer without a list counts as an empty list.
Answers == IF FullAnswers THEN {list} ELSE {list, {}}

Unused == Options \ (ours \cup theirs)

\* What amoCRM makes of a list: options sent without an id, or with one it no longer has,
\* get new ids; options that are not sent are gone.
Replaced(sent, fresh) == (sent \cap list) \cup fresh

-----------------------------------------------------------------------------
(* matchFieldOption.                                                       *)

SameText(v, o) == Norm[Value[o]] = Norm[v]
SameCore(v, o) == Core[Value[o]] = Core[v]
Typo(v, o) == <<Value[o], v>> \in Near

Exact(v, S) == {o \in S : SameText(v, o)}
Qualified(v, S) == {o \in S : SameCore(v, o)}
Mistyped(v, S) == {o \in S : Typo(v, o)}
Loose(v, S) == IF Qualified(v, S) # {} THEN Qualified(v, S) ELSE Mistyped(v, S)

\* An equal option is used, a looser match only if it is the only one.
Reuses(v, S, o) == o \in Exact(v, S) \/ (Exact(v, S) = {} /\ Loose(v, S) = {o})
NoneFits(v, S) == Exact(v, S) = {} /\ Loose(v, S) = {}

-----------------------------------------------------------------------------
(* A run of the automation fills the field.                                *)

Goto(r, at) == pc' = [pc EXCEPT ![r] = at]

\* getLeadCustomFields, long before the values are known; an unreadable list counts as empty
ReadField(r) ==
  /\ pc[r] = "new"
  /\ \E S \in {list, {}} : seen' = [seen EXCEPT ![r] = S]
  /\ Goto(r, "plan")
  /\ UNCHANGED <<amo, registry, want, made, rollback>>

\* planFieldAutofill: an option that exists, a new one, or a person must decide
Plan(r) ==
  /\ pc[r] = "plan"
  /\ \/ \E o \in seen[r] : /\ Reuses(want[r], seen[r], o)
                           /\ made' = [made EXCEPT ![r] = {o}] /\ Goto(r, "write")
     \/ NoneFits(want[r], seen[r]) /\ Goto(r, "capture") /\ UNCHANGED made
     \/ /\ ~NoneFits(want[r], seen[r]) /\ \A o \in seen[r] : ~Reuses(want[r], seen[r], o)
        /\ Goto(r, "failed") /\ UNCHANGED made
  /\ UNCHANGED <<amo, registry, seen, want, rollback>>

\* captureSnapshot keeps the first list and must succeed before anything is added.
Capture(r) ==
  /\ pc[r] = "capture"
  /\ snapshot' = IF snapshot = None THEN seen[r] ELSE snapshot
  /\ Goto(r, "get")
  /\ UNCHANGED <<amo, log, reverted, seen, want, made, rollback>>

\* addFieldOption reads the list again and takes an option of the same text.
Get(r) ==
  /\ pc[r] = "get"
  /\ \E S \in Answers :
       /\ seen' = [seen EXCEPT ![r] = S]
       /\ \/ \E o \in S : /\ Value[o] = want[r]
                          /\ made' = [made EXCEPT ![r] = {o}] /\ Goto(r, "record")
          \/ (\A o \in S : Value[o] # want[r]) /\ Goto(r, "patch") /\ UNCHANGED made
  /\ UNCHANGED <<amo, registry, want, rollback>>

\* The PATCH sends what was read and the new option; its answer may be lost.
Patch(r) ==
  /\ pc[r] = "patch"
  /\ \E fresh \in SUBSET Unused :
       /\ \E o \in fresh : Value[o] = want[r]
       /\ list' = Replaced(seen[r], fresh)
       /\ ours' = ours \cup fresh
  /\ overwritten' = overwritten \cup (list \ seen[r])
  /\ Goto(r, "readback") \/ Goto(r, "failed")
  /\ UNCHANGED <<theirs, deleted, registry, seen, want, made, rollback>>

ReadBack(r) ==
  /\ pc[r] = "readback"
  /\ \E S \in Answers :
       \/ \E o \in S : /\ Value[o] = want[r]
                       /\ made' = [made EXCEPT ![r] = {o}] /\ Goto(r, "record")
       \/ (\A o \in S : Value[o] # want[r]) /\ Goto(r, "failed") /\ UNCHANGED made
  /\ UNCHANGED <<amo, registry, seen, want, rollback>>

\* recordAddition; a failure here is only reported
Record(r) ==
  /\ pc[r] = "record"
  /\ log' = log \cup made[r] \/ UNCHANGED log
  /\ Goto(r, "write")
  /\ UNCHANGED <<amo, snapshot, reverted, seen, want, made, rollback>>

\* Any call fails, or the process ends.
Fail(r) ==
  /\ Goto(r, "failed")
  /\ UNCHANGED <<amo, registry, seen, want, made, rollback>>

-----------------------------------------------------------------------------
(* The rollback script.                                                    *)

RbGoto(b, at) == step' = [step EXCEPT ![b] = at]

\* planOptionRollback and alreadyGoneAdditions
Removed(b) == adds[b] \cap cur[b]
Kept(b) == cur[b] \ adds[b]
AlreadyGone(b) == adds[b] \ cur[b]

\* listActiveAdditions
ListAdditions(b) ==
  /\ step[b] = "list"
  /\ adds' = [adds EXCEPT ![b] = log \ reverted]
  /\ RbGoto(b, "get")
  /\ UNCHANGED <<amo, registry, autofill, cur>>

\* getFieldOptions; planOptionRollback finds what to remove
GetOptions(b) ==
  /\ step[b] = "get"
  /\ \E S \in Answers : /\ cur' = [cur EXCEPT ![b] = S]
                        /\ RbGoto(b, IF adds[b] \cap S = {} THEN "gone" ELSE "replace")
  /\ UNCHANGED <<amo, registry, autofill, adds>>

\* replaceFieldOptions; its answer may be lost
Replace(b) ==
  /\ step[b] = "replace"
  /\ \E fresh \in SUBSET Unused :
       /\ list' = Replaced(Kept(b), fresh)
       /\ ours' = ours \cup fresh
  /\ overwritten' = overwritten \cup (list \ cur[b])
  /\ RbGoto(b, "check") \/ RbGoto(b, "stopped")
  /\ UNCHANGED <<theirs, deleted, registry, autofill, adds, cur>>

\* The read-back must show the kept options and no other.
Check(b) ==
  /\ step[b] = "check"
  /\ \E S \in Answers : RbGoto(b, IF S = Kept(b) THEN "mark" ELSE "stopped")
  /\ UNCHANGED <<amo, registry, autofill, adds, cur>>

MarkRemoved(b) ==
  /\ step[b] = "mark"
  /\ reverted' = reverted \cup Removed(b)
  /\ RbGoto(b, "gone")
  /\ UNCHANGED <<amo, snapshot, log, autofill, adds, cur>>

\* alreadyGoneAdditions are closed too.
MarkGone(b) ==
  /\ step[b] = "gone"
  /\ reverted' = reverted \cup AlreadyGone(b)
  /\ RbGoto(b, "stopped")
  /\ UNCHANGED <<amo, snapshot, log, autofill, adds, cur>>

\* A dry run, a failed call, or the end of the script.
Stop(b) ==
  /\ RbGoto(b, "stopped")
  /\ UNCHANGED <<amo, registry, autofill, adds, cur>>

-----------------------------------------------------------------------------
(* People edit the list in amoCRM.                                         *)

AddByHand ==
  \E o \in Unused : /\ list' = list \cup {o} /\ theirs' = theirs \cup {o}
                    /\ UNCHANGED <<ours, overwritten, deleted, registry, autofill, rollback>>

DeleteByHand ==
  \E o \in list : /\ list' = list \ {o} /\ deleted' = deleted \cup {o}
                  /\ UNCHANGED <<ours, theirs, overwritten, registry, autofill, rollback>>

Fill(r) ==
  ReadField(r) \/ Plan(r) \/ Capture(r) \/ Get(r) \/ Patch(r) \/ ReadBack(r) \/ Record(r) \/ Fail(r)

TakeBack(b) ==
  \/ ListAdditions(b) \/ GetOptions(b) \/ Replace(b) \/ Check(b) \/ MarkRemoved(b) \/ MarkGone(b)
  \/ Stop(b)

Next ==
  \/ \E r \in Runs : Fill(r)
  \/ \E b \in Rollbacks : TakeBack(b)
  \/ AddByHand \/ DeleteByHand

Spec == Init /\ [][Next]_vars

-----------------------------------------------------------------------------

TypeOK ==
  /\ list \subseteq Options /\ ours \subseteq Options /\ theirs \subseteq Options
  /\ overwritten \subseteq Options /\ deleted \subseteq Options
  /\ snapshot \in (SUBSET Options) \cup {None}
  /\ log \subseteq Options /\ reverted \subseteq Options
  /\ pc \in [Runs -> {"new", "plan", "capture", "get", "patch", "readback", "record",
                      "write", "failed"}]
  /\ seen \in [Runs -> SUBSET Options] /\ want \in [Runs -> Values]
  /\ made \in [Runs -> SUBSET Options]
  /\ step \in [Rollbacks -> {"list", "get", "replace", "check", "mark", "gone", "stopped"}]
  /\ adds \in [Rollbacks -> SUBSET Options] /\ cur \in [Rollbacks -> SUBSET Options]

\* The stored original holds no option of the automation, whoever stored it.
SnapshotIsOriginal == snapshot # None => snapshot \cap ours = {}

\* Nothing is added or logged without a stored original.
SnapshotComesFirst == ours \cup log # {} => snapshot # None

\* An addition is closed only when amoCRM no longer has the option.  This needs full
\* answers: a rollback that reads a list as empty closes what it takes for gone.
ClosedIsGone == reverted \cap list = {}

\* A person's option goes away only by a person's hand, under a list whose sender did not
\* read it, or because a run logged it as its own.
PeoplesOptionsStay == theirs \subseteq list \cup deleted \cup overwritten \cup log

\* The strengthenings.
Ids ==
  /\ list \subseteq ours \cup theirs
  /\ reverted \subseteq log /\ log \subseteq ours \cup theirs
  /\ snapshot # None => snapshot \subseteq ours \cup theirs
  /\ \A r \in Runs : seen[r] \cup made[r] \subseteq ours \cup theirs
  /\ \A b \in Rollbacks : adds[b] \subseteq log /\ cur[b] \subseteq ours \cup theirs

Armed ==
  \A r \in Runs : pc[r] \in {"get", "patch", "readback", "record"} => snapshot # None

Ready == \A b \in Rollbacks : step[b] = "replace" => adds[b] # {}

Gone ==
  \A b \in Rollbacks :
    /\ step[b] = "mark" => adds[b] \cap list = {}
    /\ step[b] \in {"replace", "check", "mark", "gone"} => (adds[b] \ cur[b]) \cap list = {}
    /\ step[b] = "gone" => adds[b] \cap cur[b] \cap list = {}
=============================================================================
