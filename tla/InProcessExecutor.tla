------------------------- MODULE InProcessExecutor --------------------------
(***************************************************************************)
(* InProcessExecutor of executor.rs: the harness runs in the fuzzer's own  *)
(* process and its panic is caught.  A harness that does not return hangs  *)
(* the fuzzer; the model has only harnesses that return or panic.          *)
(*                                                                         *)
(* Faulty... definitions are mistakes the properties must notice.          *)
(***************************************************************************)
EXTENDS Naturals

CONSTANTS
  NumObservers,
  MaxFaults        \* bound: observer hooks that fail

VARIABLES
  pc,              \* "idle", or the step execute_sync is at
  pre, post,       \* observers prepared and told
  exit,            \* how the harness ended: "ok", or "crash" for a panic
  obsErr,          \* an observer failed in post_exec
  status,
  faults

vars == <<pc, pre, post, exit, obsErr, status, faults>>

Fault == faults < MaxFaults /\ faults' = faults + 1

Init ==
  /\ pc = "idle"
  /\ pre = 0
  /\ post = 0
  /\ exit = "none"
  /\ obsErr = FALSE
  /\ status = "none"
  /\ faults = 0

Execute ==
  /\ pc = "idle"
  /\ pc' = "pre"
  /\ pre' = 0
  /\ post' = 0
  /\ exit' = "none"
  /\ obsErr' = FALSE
  /\ status' = "none"
  /\ UNCHANGED faults

PreExec ==
  /\ pc = "pre"
  /\ pre < NumObservers
  /\ pre' = pre + 1
  /\ UNCHANGED <<pc, post, exit, obsErr, status, faults>>

\* The observers prepared before stay prepared and are not told.
PreExecFails ==
  /\ pc = "pre"
  /\ pre < NumObservers
  /\ Fault
  /\ status' = "ObserverError"
  /\ pc' = "idle"
  /\ UNCHANGED <<pre, post, exit, obsErr>>

RunHarness ==
  /\ pc = "pre"
  /\ pre = NumObservers
  /\ exit' \in {"ok", "crash"}
  /\ status' = IF exit' = "crash" THEN "Crash" ELSE "Ok"
  /\ pc' = "post"
  /\ UNCHANGED <<pre, post, obsErr, faults>>

PostExec ==
  /\ pc = "post"
  /\ post < NumObservers
  /\ post' = post + 1
  /\ \/ UNCHANGED <<obsErr, faults>>
     \/ Fault /\ obsErr' = TRUE
  /\ UNCHANGED <<pc, pre, exit, status>>

FaultyFinalStatus == IF obsErr THEN "ObserverError" ELSE status

\* A crash outranks the error of an observer.
FinalStatus == IF status = "Ok" /\ obsErr THEN "ObserverError" ELSE status

Return ==
  /\ pc = "post"
  /\ post = NumObservers
  /\ pc' = "idle"
  /\ status' = FinalStatus
  /\ UNCHANGED <<pre, post, exit, obsErr, faults>>

\* What the executor does by itself once execute_sync is called.
Proceed == PreExec \/ RunHarness \/ PostExec \/ Return

Next == Execute \/ Proceed \/ PreExecFails

Spec == Init /\ [][Next]_vars /\ WF_vars(Proceed)

-----------------------------------------------------------------------------
(* Properties                                                              *)

\* A panic of the harness is reported as a crash whatever the observers do,
\* and nothing else is.
PanicIsCrash ==
  pc = "idle" /\ status # "none" => (exit = "crash" <=> status = "Crash")
=============================================================================
