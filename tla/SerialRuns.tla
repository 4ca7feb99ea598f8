----------------------------- MODULE SerialRuns -----------------------------
(***************************************************************************)
(* What the engine promises its user while nobody resets it: the decrees   *)
(* run one at a time, a live one never begins while the engine is paused,  *)
(* one that is told to stop begins at most one more action, and every one  *)
(* ends.  Queues, tasks, events and failures are not visible here; Engine  *)
(* implements this module under the mapping given at its end.              *)
(***************************************************************************)
EXTENDS Naturals

VARIABLES
  paused,   \* the user has paused the engine
  count,    \* how many runs have begun
  current,  \* the run in progress, 0 when there is none
  dry,      \* it only rehearses its actions
  told,     \* it has been told to stop
  acting,   \* one of its actions is executing
  spent     \* it has begun the one action it may begin after that

vars == <<paused, count, current, dry, told, acting, spent>>

Init ==
  /\ paused = FALSE /\ count = 0 /\ current = 0
  /\ dry = FALSE /\ told = FALSE /\ acting = FALSE /\ spent = FALSE

Pause ==
  /\ paused' \in BOOLEAN
  /\ UNCHANGED <<count, current, dry, told, acting, spent>>

Begin ==
  /\ current = 0 /\ count' = count + 1 /\ current' = count + 1
  /\ dry' \in BOOLEAN /\ (paused => dry')
  /\ UNCHANGED <<paused, told, acting, spent>>

Stop ==
  /\ current # 0 /\ told' = TRUE
  /\ UNCHANGED <<paused, count, current, dry, acting, spent>>

BeginAction ==
  /\ current # 0 /\ ~acting /\ ~spent
  /\ acting' = TRUE /\ spent' = told
  /\ UNCHANGED <<paused, count, current, dry, told>>

EndAction ==
  /\ acting /\ acting' = FALSE
  /\ UNCHANGED <<paused, count, current, dry, told, spent>>

\* Its last action is over, it has been stopped, it has failed or been lost.
End ==
  /\ current # 0 /\ ~acting /\ current' = 0
  /\ dry' = FALSE /\ told' = FALSE /\ spent' = FALSE
  /\ UNCHANGED <<paused, count, acting>>

Next == Pause \/ Begin \/ Stop \/ BeginAction \/ EndAction \/ End

EveryRunEnds == (current # 0) ~> (current = 0)

Spec == Init /\ [][Next]_vars /\ EveryRunEnds
=============================================================================
