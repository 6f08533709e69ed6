--------------------------- MODULE CallTaskPromise ---------------------------
(***************************************************************************)
(* What call-task automation promises of one call, whoever acts on it and  *)
(* however often: one POST of a task at most and, once the task is known   *)
(* to exist, one POST of its note at most, both dated ahead; and a refusal *)
(* that is final.  amoCRM's POSTs are not idempotent.                      *)
(***************************************************************************)
EXTENDS Naturals

VARIABLES posts,      \* POSTs of the task
          task,       \* the task exists
          notePosts,  \* POSTs of the note
          note,       \* the note exists
          refused     \* the ledger says that there will be no task

vars == <<posts, task, notePosts, note, refused>>

Init ==
  /\ posts = 0 /\ notePosts = 0
  /\ task = FALSE /\ note = FALSE /\ refused = FALSE

PostTask ==
  /\ ~refused /\ posts = 0
  /\ posts' = 1
  /\ task' \in BOOLEAN
  /\ UNCHANGED <<notePosts, note, refused>>

PostNote ==
  /\ task /\ notePosts = 0
  /\ notePosts' = 1
  /\ note' \in BOOLEAN
  /\ UNCHANGED <<posts, task, refused>>

Refuse ==
  /\ ~task
  /\ refused' = TRUE
  /\ UNCHANGED <<posts, task, notePosts, note>>

Next == PostTask \/ PostNote \/ Refuse

Spec == Init /\ [][Next]_vars
=============================================================================
