------------------------------ MODULE Executor ------------------------------
(***************************************************************************)
(* What execute_sync promises its caller (trait Executor of executor.rs),  *)
(* as far as both executors keep it.  An execution prepares the observers  *)
(* one after the other, runs the target, decides on a status, tells every  *)
(* observer and returns; or it gives up with an error before any observer  *)
(* was told.                                                               *)
(*                                                                         *)
(* The caller may rely on this: a status that speaks of the target means   *)
(* that every observer was prepared before the run and told after it.      *)
(***************************************************************************)
EXTENDS Naturals

CONSTANT NumObservers

VARIABLES
  busy,      \* execute_sync is running
  pre,       \* observers whose pre_exec has succeeded
  post,      \* observers whose post_exec has been called
  status     \* the ExecutionStatus decided on, "none" before

vars == <<busy, pre, post, status>>

Statuses == {"Ok", "Crash", "Timeout", "ObserverError", "Other"}

Init ==
  /\ busy = FALSE
  /\ pre = 0
  /\ post = 0
  /\ status = "none"

Execute ==
  /\ ~busy
  /\ busy' = TRUE
  /\ pre' = 0
  /\ post' = 0
  /\ status' = "none"

Prepare ==
  /\ busy
  /\ status = "none"
  /\ pre < NumObservers
  /\ pre' = pre + 1
  /\ UNCHANGED <<busy, post, status>>

\* The error that ends an execution early; it never speaks of the target.
GiveUp ==
  /\ busy
  /\ status = "none"
  /\ status' \in {"ObserverError", "Other"}
  /\ busy' = FALSE
  /\ UNCHANGED <<pre, post>>

Decide ==
  /\ busy
  /\ status = "none"
  /\ pre = NumObservers
  /\ status' \in {"Ok", "Crash", "Timeout", "Other"}
  /\ UNCHANGED <<busy, pre, post>>

Tell ==
  /\ busy
  /\ status # "none"
  /\ post < NumObservers
  /\ post' = post + 1
  /\ UNCHANGED <<busy, pre, status>>

\* Only an Ok gives way to the error of an observer.
Return ==
  /\ busy
  /\ status # "none"
  /\ post = NumObservers
  /\ busy' = FALSE
  /\ status' \in {status} \cup (IF status = "Ok" THEN {"ObserverError"} ELSE {})
  /\ UNCHANGED <<pre, post>>

Next == Execute \/ Prepare \/ GiveUp \/ Decide \/ Tell \/ Return

Spec == Init /\ [][Next]_vars
=============================================================================
