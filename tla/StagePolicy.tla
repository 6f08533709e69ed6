----------------------------- MODULE StagePolicy -----------------------------
(***************************************************************************)
(* The UZUM workflow policy (callStagePolicy.ts): the stages of the        *)
(* pipeline, how far along each is, and what may be moved where.  A lead   *)
(* is at a stage and holds values in its custom fields; a stage asks for   *)
(* values in some of them (requiredFieldsForUzumTarget).                   *)
(***************************************************************************)
EXTENDS Integers

CONSTANT RequiredFor   \* target -> the ordinary fields amoCRM asks of it

\* UZUM_STAGE_TARGETS
TargetOrder ==
  [takenInWork |-> 1, qualified |-> 2, ozhop |-> 3, formalization |-> 4,
   partiallyPaid |-> 5, successful |-> 6, closedLost |-> 6]

Targets == DOMAIN TargetOrder

\* UZUM_STAGE_ORDERS: "unprocessed" and other pipelines have no order.
StageOrder == [s \in Targets \cup {"newLead"} |-> IF s = "newLead" THEN 0 ELSE TargetOrder[s]]

Elsewhere == {"unprocessed", "other_pipeline"}

\* isUzumLead
IsUzumLead(stage) == stage \notin Elsewhere

\* A deal is won only out of the partial payment.
IsForward(stage, target) ==
  /\ TargetOrder[target] > StageOrder[stage]
  /\ target = "successful" => stage = "partiallyPaid"

DuplicateField == "Sdelkani dubl bormi"

\* The required fields without an accepted value: any value will do, but the
\* duplicate check before takenInWork must say "Yoq".
Missing(target, fields) ==
  {f \in RequiredFor[target] : fields[f].value = "empty"} \cup
  {f \in {DuplicateField} : target = "takenInWork" /\ fields[f].value # "Yoq"}

\* evaluateUzumStageRoute
Route(stage, target, fields) ==
  IF stage \notin DOMAIN StageOrder        THEN "out_of_scope"
  ELSE IF ~IsForward(stage, target)        THEN "not_forward"
  ELSE IF Missing(target, fields) # {}     THEN "missing_fields"
  ELSE                                          "allowed"
=============================================================================
