-------------------------- MODULE CommandExecutor ---------------------------
(***************************************************************************)
(* CommandExecutor of executor.rs: the fuzzer spawns the target, feeds it  *)
(* the input and polls it until it ends or its time is up.                 *)
(*                                                                         *)
(* Two processes run: the fuzzer (pc) and the target.  They meet in two    *)
(* pipes of PipeCapacity units, the target's stdin and its output, which   *)
(* the fuzzer pipes but never reads.  A target is a program of reads and   *)
(* writes that then ends or hangs; it closes its pipes by ending.  Time is *)
(* counted in units of the loop's sleep and runs while the fuzzer waits:   *)
(* only that loop looks at the timeout, which starts with it.              *)
(*                                                                         *)
(* Faulty... definitions are mistakes the properties must notice.          *)
(***************************************************************************)
EXTENDS Naturals, Sequences

CONSTANTS
  NumObservers,
  Modes,          \* input delivery modes a configuration may have
  Lengths,        \* bound: input lengths, in units of the pipe
  PipeCapacity,
  MaxOps,         \* bound: operations of a target
  Deadline,       \* the timeout, in sleeps of the polling loop
  MaxFaults       \* bound: failing system calls and observer hooks

ASSUME ConstantsAssumption ==
  /\ NumObservers \in Nat
  /\ Modes \subseteq {"stdin", "file"}
  /\ Lengths \subseteq Nat
  /\ PipeCapacity \in Nat \ {0}
  /\ MaxOps \in Nat
  /\ Deadline \in Nat
  /\ MaxFaults \in Nat

VARIABLES
  mode,           \* input_delivery_mode
  pc,             \* "idle", or the step execute_sync is at
  pre, post,      \* observers prepared and told
  obsErr,         \* an observer failed in post_exec
  status,         \* the status decided on, "none" before
  left,           \* input not yet written to the target's stdin
  tempFile,       \* the temporary input file exists
  clock,          \* time since the wait began
  target,         \* "none", "running", or "ended" and not yet waited for
  program,        \* what the target has still to do
  ending,         \* how it ends then
  exit,           \* how it ended: "ok", "crash", "killed"
  over,           \* it had ended by itself when the last poll began
  inPipe, inOpen, \* stdin: units in the pipe, the fuzzer may write more
  outPipe,        \* units of output in the pipe
  faults

observers == <<pre, post, obsErr>>
child     == <<target, program, ending, exit, over, inPipe, outPipe>>
vars      == <<mode, pc, observers, status, left, tempFile, clock, child,
               inOpen, faults>>

Programs == UNION {[1 .. n -> {"read", "write"}] : n \in 0 .. MaxOps}

Fault == faults < MaxFaults /\ faults' = faults + 1

Init ==
  /\ mode \in Modes
  /\ pc = "idle"
  /\ pre = 0 /\ post = 0 /\ obsErr = FALSE
  /\ status = "none"
  /\ left = 0
  /\ tempFile = FALSE
  /\ clock = 0
  /\ target = "none"
  /\ program = <<>>
  /\ ending = "ok"
  /\ exit = "none"
  /\ over = FALSE
  /\ inPipe = 0 /\ inOpen = FALSE
  /\ outPipe = 0
  /\ faults = 0

-----------------------------------------------------------------------------
(* The target                                                              *)

\* A target that was given a file reads it without waiting; one that reads
\* its stdin waits for a unit or for the end of the input.
CanRead == mode = "file" \/ inPipe > 0 \/ ~inOpen

TargetReads ==
  /\ target = "running"
  /\ program # <<>> /\ Head(program) = "read"
  /\ CanRead
  /\ program' = Tail(program)
  /\ inPipe' = IF inPipe > 0 THEN inPipe - 1 ELSE 0
  /\ UNCHANGED <<target, ending, exit, over, outPipe>>

TargetWrites ==
  /\ target = "running"
  /\ program # <<>> /\ Head(program) = "write"
  /\ outPipe < PipeCapacity
  /\ program' = Tail(program)
  /\ outPipe' = outPipe + 1
  /\ UNCHANGED <<target, ending, exit, over, inPipe>>

TargetEnds ==
  /\ target = "running"
  /\ program = <<>>
  /\ ending # "hang"
  /\ target' = "ended"
  /\ exit' = ending
  /\ UNCHANGED <<program, ending, over, inPipe, outPipe>>

Target ==
  /\ TargetReads \/ TargetWrites \/ TargetEnds
  /\ UNCHANGED <<mode, pc, observers, status, left, tempFile, clock, inOpen,
                 faults>>

-----------------------------------------------------------------------------
(* execute_sync up to the spawn                                            *)

Execute ==
  /\ pc = "idle"
  /\ pc' = "pre"
  /\ pre' = 0 /\ post' = 0 /\ obsErr' = FALSE
  /\ status' = "none"
  /\ left' \in Lengths
  /\ clock' = 0
  /\ target' = "none" /\ program' = <<>> /\ ending' = "ok"
  /\ exit' = "none" /\ over' = FALSE
  /\ inPipe' = 0 /\ outPipe' = 0 /\ inOpen' = FALSE
  /\ UNCHANGED <<mode, tempFile, faults>>

PreExec ==
  /\ pc = "pre"
  /\ pre < NumObservers
  /\ pre' = pre + 1
  /\ UNCHANGED <<mode, pc, post, obsErr, status, left, tempFile, clock, child,
                 inOpen, faults>>

\* An early return: no observer is told.
GiveUp(s) ==
  /\ status' = s
  /\ pc' = "idle"
  /\ tempFile' = FALSE

PreExecFails ==
  /\ pc = "pre"
  /\ pre < NumObservers
  /\ Fault
  /\ GiveUp("ObserverError")
  /\ UNCHANGED <<mode, observers, left, clock, child, inOpen>>

\* The command is put together; in file mode the input goes to a temporary
\* file that lives as long as its guard.
FaultyPrepare ==   \* the guard is not kept
  /\ pc = "pre"
  /\ pre = NumObservers
  /\ pc' = "spawn"
  /\ UNCHANGED <<mode, observers, status, left, tempFile, clock, child, inOpen,
                 faults>>

Prepare ==
  /\ pc = "pre"
  /\ pre = NumObservers
  /\ tempFile' = (mode = "file")
  /\ pc' = "spawn"
  /\ UNCHANGED <<mode, observers, status, left, clock, child, inOpen, faults>>

\* No command, or the temporary file cannot be made, written or named.
PrepareFails ==
  /\ pc = "pre"
  /\ pre = NumObservers
  /\ Fault
  /\ GiveUp("Other")
  /\ UNCHANGED <<mode, observers, left, clock, child, inOpen>>

Spawn ==
  /\ pc = "spawn"
  /\ target' = "running"
  /\ program' \in Programs
  /\ ending' \in {"ok", "crash", "hang"}
  /\ inOpen' = (mode = "stdin")
  /\ pc' = IF mode = "stdin" THEN "stdin" ELSE "poll"
  /\ UNCHANGED <<mode, observers, status, left, tempFile, clock, exit, over,
                 inPipe, outPipe, faults>>

\* The observers are told, then the function returns and drops the file.
SpawnFails ==
  /\ pc = "spawn"
  /\ Fault
  /\ status' = "Other"
  /\ pc' = "post"
  /\ UNCHANGED <<mode, observers, left, tempFile, clock, child, inOpen>>

-----------------------------------------------------------------------------
(* Writing to the target's stdin; nothing watches the time meanwhile       *)

\* write_all waits while the pipe is full.
WriteStdin ==
  /\ pc = "stdin"
  /\ left > 0
  /\ target = "running"
  /\ inPipe < PipeCapacity
  /\ inPipe' = inPipe + 1
  /\ left' = left - 1
  /\ UNCHANGED <<mode, pc, observers, status, tempFile, clock, target, program,
                 ending, exit, over, inOpen, outPipe, faults>>

PollBegins ==
  /\ pc' = "poll"
  /\ over' = (target = "ended")
  /\ UNCHANGED <<target, program, ending, exit, inPipe, outPipe>>

\* The write end is dropped.
CloseStdin ==
  /\ pc = "stdin"
  /\ left = 0
  /\ inOpen' = FALSE
  /\ PollBegins
  /\ UNCHANGED <<mode, observers, status, left, tempFile, clock, faults>>

FaultyBrokenPipe ==   \* the child is not waited for
  /\ pc = "stdin"
  /\ left > 0
  /\ target = "ended"
  /\ GiveUp("Other")
  /\ inOpen' = FALSE
  /\ UNCHANGED <<mode, observers, left, clock, child, faults>>

\* Nobody will read what is left: the target is killed and waited for.
BrokenPipe ==
  /\ pc = "stdin"
  /\ left > 0
  /\ target = "ended"
  /\ target' = "none"
  /\ GiveUp("Other")
  /\ inOpen' = FALSE
  /\ UNCHANGED <<mode, observers, left, clock, program, ending, exit, over,
                 inPipe, outPipe, faults>>

\* The write fails for another reason.
WriteFails ==
  /\ pc = "stdin"
  /\ left > 0
  /\ Fault
  /\ target' = "none"
  /\ exit' = IF target = "running" THEN "killed" ELSE exit
  /\ GiveUp("Other")
  /\ inOpen' = FALSE
  /\ UNCHANGED <<mode, observers, left, clock, program, ending, over, inPipe,
                 outPipe>>

-----------------------------------------------------------------------------
(* run_and_wait_with_timeout                                               *)

\* The wait is over: the file is dropped and the observers come next.
Decide(s) ==
  /\ status' = s
  /\ pc' = "post"
  /\ tempFile' = FALSE
  /\ UNCHANGED <<mode, observers, left, clock, inOpen>>

FaultyVerdict == IF exit = "crash" THEN "Ok" ELSE "Crash"
Verdict == IF exit = "ok" THEN "Ok" ELSE "Crash"

PollEnded ==
  /\ pc = "poll"
  /\ target = "ended"
  /\ target' = "none"
  /\ Decide(Verdict)
  /\ UNCHANGED <<program, ending, exit, over, inPipe, outPipe, faults>>

\* try_wait finds the target running.
Look ==
  /\ pc = "poll"
  /\ target = "running"
  /\ pc' = "check"
  /\ UNCHANGED <<mode, observers, status, left, tempFile, clock, child, inOpen,
                 faults>>

\* The fuzzer is held up before it looks at the time, and the target may end
\* meanwhile.
Delay ==
  /\ pc = "check"
  /\ clock < Deadline
  /\ clock' = clock + 1
  /\ UNCHANGED <<mode, pc, observers, status, left, tempFile, child, inOpen,
                 faults>>

FaultyPollSleeps ==   \* nobody looks at the time
  /\ pc = "check"
  /\ pc' = "sleep"
  /\ UNCHANGED <<mode, observers, status, left, tempFile, clock, child, inOpen,
                 faults>>

PollSleeps ==
  /\ pc = "check"
  /\ clock < Deadline
  /\ pc' = "sleep"
  /\ UNCHANGED <<mode, observers, status, left, tempFile, clock, child, inOpen,
                 faults>>

FaultyWake ==   \* the start time is taken anew at every poll
  /\ pc = "sleep"
  /\ clock' = 0
  /\ PollBegins
  /\ UNCHANGED <<mode, observers, status, left, tempFile, inOpen, faults>>

Wake ==
  /\ pc = "sleep"
  /\ clock' = clock + 1
  /\ PollBegins
  /\ UNCHANGED <<mode, observers, status, left, tempFile, inOpen, faults>>

FaultyPollExpires ==   \* the time is looked at before the target
  /\ pc \in {"poll", "check"}
  /\ clock >= Deadline
  /\ pc' = "kill"
  /\ UNCHANGED <<mode, observers, status, left, tempFile, clock, child, inOpen,
                 faults>>

\* The time is up; the target is not looked at again.
PollExpires ==
  /\ pc = "check"
  /\ clock >= Deadline
  /\ pc' = "kill"
  /\ UNCHANGED <<mode, observers, status, left, tempFile, clock, child, inOpen,
                 faults>>

\* Killing a target that has ended meanwhile does nothing.
Kill ==
  /\ pc = "kill"
  /\ target' = "ended"
  /\ exit' = IF target = "running" THEN "killed" ELSE exit
  /\ pc' = "reap"
  /\ UNCHANGED <<mode, observers, status, left, tempFile, clock, program, ending,
                 over, inPipe, inOpen, outPipe, faults>>

Reap ==
  /\ pc = "reap"
  /\ target' = "none"
  /\ Decide("Timeout")
  /\ UNCHANGED <<program, ending, exit, over, inPipe, outPipe, faults>>

\* try_wait, kill or wait fails: the target is left to itself.
WaitFails ==
  /\ pc \in {"poll", "kill", "reap"}
  /\ Fault
  /\ Decide("Other")
  /\ UNCHANGED child

-----------------------------------------------------------------------------
(* Telling the observers                                                   *)

PostExec ==
  /\ pc = "post"
  /\ post < NumObservers
  /\ post' = post + 1
  /\ \/ UNCHANGED <<obsErr, faults>>
     \/ Fault /\ obsErr' = TRUE
  /\ UNCHANGED <<mode, pc, pre, status, left, tempFile, clock, child, inOpen>>

FaultyFinalStatus == IF obsErr THEN "ObserverError" ELSE status

\* Crash, Timeout and Other outrank the error of an observer.
FinalStatus == IF status = "Ok" /\ obsErr THEN "ObserverError" ELSE status

FaultyReturn ==   \* the first failing observer ends the round
  /\ pc = "post"
  /\ post = NumObservers \/ obsErr
  /\ status' = FinalStatus
  /\ pc' = "idle"
  /\ tempFile' = FALSE
  /\ UNCHANGED <<mode, observers, left, clock, child, inOpen, faults>>

Return ==
  /\ pc = "post"
  /\ post = NumObservers
  /\ status' = FinalStatus
  /\ pc' = "idle"
  /\ tempFile' = FALSE
  /\ UNCHANGED <<mode, observers, left, clock, child, inOpen, faults>>

-----------------------------------------------------------------------------

\* What the fuzzer does by itself once execute_sync is called and no call
\* fails.
Proceed ==
  \/ PreExec \/ Prepare \/ Spawn
  \/ WriteStdin \/ CloseStdin \/ BrokenPipe
  \/ PollEnded \/ Look \/ PollSleeps \/ Wake \/ PollExpires \/ Kill \/ Reap
  \/ PostExec \/ Return

Next ==
  \/ Target
  \/ Execute
  \/ Proceed
  \/ Delay
  \/ PreExecFails \/ PrepareFails \/ SpawnFails \/ WriteFails \/ WaitFails

\* Both processes are run by the operating system as long as they can.
Spec == Init /\ [][Next]_vars /\ WF_vars(Proceed) /\ WF_vars(Target)

-----------------------------------------------------------------------------
(* Properties                                                              *)

\* Every variable has its type.
TypeOK ==
  /\ mode \in Modes
  /\ pc \in {"idle", "pre", "spawn", "stdin", "poll", "check", "sleep", "kill",
          "reap", "post"}
  /\ pre \in 0 .. NumObservers /\ post \in 0 .. NumObservers
  /\ obsErr \in BOOLEAN
  /\ status \in {"none", "Ok", "Crash", "Timeout", "ObserverError", "Other"}
  /\ left \in Nat
  /\ tempFile \in BOOLEAN
  /\ clock \in 0 .. Deadline
  /\ target \in {"none", "running", "ended"}
  /\ program \in Seq({"read", "write"})
  /\ ending \in {"ok", "crash", "hang"}
  /\ exit \in {"none", "ok", "crash", "killed"}
  /\ over \in BOOLEAN
  /\ inPipe \in 0 .. PipeCapacity /\ inOpen \in BOOLEAN
  /\ outPipe \in 0 .. PipeCapacity
  /\ faults \in 0 .. MaxFaults

\* When execute_sync returns, no target is running or waiting to be reaped,
\* on any path, unless waiting for it or killing it failed.
NoStrayTarget ==
  pc = "idle" /\ target # "none" => status = "Other" /\ faults > 0

\* A target in file mode never sees its file disappear while the fuzzer waits
\* for it, and no execution leaves a file behind.
TempFileScope ==
  /\ mode = "file" /\ target = "running" /\ status = "none" => tempFile
  /\ pc = "idle" => ~tempFile

\* Ok and Crash are only said of a target that ended that way by itself: a
\* killed target is never counted as a crash.
VerdictIsTrue ==
  /\ status = "Ok" => exit = "ok"
  /\ status = "Crash" => exit = "crash"

\* Timeout is said only when the time is up, and never of a target that had
\* ended by itself when the last poll began, as one does that ends while the
\* fuzzer sleeps.  A target that ends between that poll's try_wait and its look
\* at the time may be called a timeout.
NoFalseTimeout == status = "Timeout" => clock >= Deadline /\ ~over

\* Once the whole input was delivered, a target that fails is reported as a
\* crash whatever the observers do, unless a call of the fuzzer failed, or the
\* time was up and the target had not yet ended when the last poll began.
DeliveredCrashReported ==
  pc = "idle" /\ left = 0 /\ exit = "crash" =>
    \/ status = "Crash"
    \/ status = "Other" /\ faults > 0
    \/ status = "Timeout" /\ ~over

Busy == pc # "idle"

Contract == INSTANCE Executor WITH busy <- Busy

\* CommandExecutor is an executor: it tells every observer of a run before it
\* returns a status of the target.
ImplementsExecutor == Contract!Spec

\* execute_sync returns, whatever the target does, if the input fits into the
\* pipe: its writing then never waits, and the wait for the target is timed.
FittingExecuteReturns == pc = "pre" /\ left <= PipeCapacity ~> ~Busy

-----------------------------------------------------------------------------
(* Statements of the documentation that the code does not keep             *)

\* "If the target runs longer than this, it's considered a timeout"
\* (config.rs:42): whatever the target does, execute_sync returns.
ExecuteReturns == Busy ~> ~Busy

\* "Interprets non-zero exit codes and termination signals (on Unix) as
\* crashes" (DESIGN_DOCUMENT.md:83): a target that fails, and whose time was not
\* up, is a crash.
TargetCrashReported ==
  pc = "idle" /\ exit = "crash" /\ status # "Timeout" => status = "Crash"
=============================================================================
