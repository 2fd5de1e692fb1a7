---------------------------- MODULE AnyExecutor -----------------------------
(***************************************************************************)
(* The Box<dyn Executor> of main.rs: the executor that executor_type       *)
(* names, for the whole campaign.  The two share the state of a call; the  *)
(* one that runs in the fuzzer's process has no target, no pipes, no file  *)
(* and no clock.                                                           *)
(***************************************************************************)
EXTENDS CommandExecutor

VARIABLE executor_type

InProcess == INSTANCE InProcessExecutor

anyVars   == <<vars, executor_type>>

AnyInit ==
  /\ executor_type \in {"Command", "InProcess"}
  /\ Init
  /\ InProcess!Init

AsCommand(action) ==
  /\ executor_type = "Command"
  /\ action
  /\ UNCHANGED executor_type

AsInProcess(action) ==
  /\ executor_type = "InProcess"
  /\ action
  /\ UNCHANGED <<executor_type, mode, left, tempFile, clock, target, program,
                 ending, over, inPipe, outPipe, inOpen>>

AnyNext == AsCommand(Next) \/ AsInProcess(InProcess!Next)

\* Whichever executor it is, the operating system runs it, and its target.
AnySpec ==
  /\ AnyInit /\ [][AnyNext]_anyVars
  /\ WF_anyVars(AsCommand(Proceed))
  /\ WF_anyVars(AsCommand(Target))
  /\ WF_anyVars(AsInProcess(InProcess!Proceed))

-----------------------------------------------------------------------------
(* Properties.  Those of CommandExecutor hold of either, and               *)
(* ImplementsExecutor says that either keeps the contract.                 *)

\* A panic of the harness is reported as a crash whatever the observers do,
\* and nothing else is.
PanicIsCrash == executor_type = "InProcess" => InProcess!PanicIsCrash
=============================================================================
