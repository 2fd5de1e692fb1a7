------------------------- MODULE AnyExecutor_proofs -------------------------
(***************************************************************************)
(* Proofs about the executors, for every target of reads and writes, every *)
(* capacity of the pipes, every deadline, any number of observers and any  *)
(* number of failing calls.  CommandExecutor comes first.  Its safety      *)
(* properties hold together: what a status may say depends on where the    *)
(* target can be when it is decided on.  Then the executor of a campaign,  *)
(* whichever it is, any of whose observers' hooks may fail.                *)
(***************************************************************************)
EXTENDS AnyExecutor, TLAPS

-----------------------------------------------------------------------------
(* CommandExecutor                                                         *)

\* TypeOK in two parts: the call, and what it works on.
ControlTypes ==
  /\ mode \in Modes
  /\ pc \in {"idle", "pre", "spawn", "stdin", "poll", "check", "sleep", "kill",
          "reap", "post"}
  /\ pre \in 0 .. NumObservers /\ post \in 0 .. NumObservers
  /\ obsErr \in BOOLEAN
  /\ status \in {"none", "Ok", "Crash", "Timeout", "ObserverError", "Other"}
  /\ faults \in 0 .. MaxFaults

DataTypes ==
  /\ left \in Nat
  /\ tempFile \in BOOLEAN
  /\ clock \in 0 .. Deadline
  /\ target \in {"none", "running", "ended"}
  /\ program \in Seq({"read", "write"})
  /\ ending \in {"ok", "crash", "hang"}
  /\ exit \in {"none", "ok", "crash", "killed"}
  /\ over \in BOOLEAN
  /\ inPipe \in 0 .. PipeCapacity /\ inOpen \in BOOLEAN
  /\ outPipe \in 0 .. PipeCapacity

\* The target is there and not killed.
Feeding == {"stdin", "poll", "check", "sleep", "kill"}

\* What the fuzzer knows at each step of a call.
Progress ==
  /\ pc \in {"pre", "spawn", "reap"} \cup Feeding => status = "none"
  /\ pc = "post" => status # "none"
  /\ pc \in {"spawn", "reap", "post"} \cup Feeding => pre = NumObservers
  /\ pc = "sleep" => clock < Deadline
  /\ pc \in {"kill", "reap"} => clock >= Deadline

\* Where the target can be meanwhile, and what its end can have been.
TargetState ==
  /\ pc \in {"pre", "spawn"} \/ (pc = "idle" /\ status = "none") =>
       target = "none" /\ exit = "none" /\ ~over
  /\ pc \in Feeding => target # "none"
  /\ pc = "reap" => target = "ended"
  /\ target = "running" => ~over /\ exit = "none"
  /\ pc \in Feeding /\ target = "ended" => exit \in {"ok", "crash"}
  /\ pc \in {"check", "kill", "reap"} => ~over

\* A target that is still there once the status is decided on.
Abandoned ==
  pc \in {"idle", "post"} /\ target # "none" => status = "Other" /\ faults > 0

\* The input file is there from the command's preparation to the verdict.
FileState ==
  /\ pc \in {"spawn", "reap"} \cup Feeding => tempFile = (mode = "file")
  /\ pc \in {"idle", "pre"} => ~tempFile

\* DeliveredCrashReported already before the observers are told.
CrashDecided ==
  pc \in {"idle", "post"} /\ left = 0 /\ exit = "crash" =>
    \/ status = "Crash"
    \/ status = "Other" /\ faults > 0
    \/ status = "Timeout" /\ ~over

Inv ==
  /\ TypeOK
  /\ Progress
  /\ TargetState
  /\ Abandoned
  /\ FileState
  /\ VerdictIsTrue
  /\ NoFalseTimeout
  /\ CrashDecided

-----------------------------------------------------------------------------

\* No step of a call leaves the types.
LEMMA ControlTypeStep == TypeOK /\ Progress /\ [Next]_vars => ControlTypes'
<1> SUFFICES ASSUME TypeOK /\ Progress, [Next]_vars PROVE ControlTypes'
  OBVIOUS
<1> USE ConstantsAssumption DEF TypeOK, Progress, ControlTypes, observers, child
<1>1. CASE Target /\ TargetReads
  BY <1>1 DEF Target, TargetReads
<1>2. CASE Target /\ TargetWrites
  BY <1>2 DEF Target, TargetWrites
<1>3. CASE Target /\ TargetEnds
  BY <1>3 DEF Target, TargetEnds
<1>4. CASE Execute
  <2>1. /\ pc' = "pre" /\ status' = "none"
        /\ pre' = 0 /\ post' = 0
        /\ UNCHANGED <<mode, faults>>
    BY <1>4 DEF Execute
  <2>2. obsErr' \in BOOLEAN
    BY <1>4 DEF Execute
  <2>3. QED
    BY <2>1, <2>2
<1>5. CASE PreExec
  BY <1>5 DEF PreExec
<1>6. CASE Prepare
  BY <1>6 DEF Prepare
<1>7. CASE Spawn
  BY <1>7 DEF Spawn
<1>8. CASE WriteStdin
  BY <1>8 DEF WriteStdin
<1>9. CASE CloseStdin
  BY <1>9 DEF CloseStdin, PollBegins
<1>10. CASE BrokenPipe
  BY <1>10 DEF BrokenPipe, GiveUp
<1>11. CASE PollEnded
  BY <1>11 DEF PollEnded, Decide, Verdict
<1>12. CASE PollSleeps
  BY <1>12 DEF PollSleeps
<1>13. CASE Wake
  BY <1>13 DEF Wake, PollBegins
<1>14. CASE PollExpires
  BY <1>14 DEF PollExpires
<1>15. CASE Kill
  BY <1>15 DEF Kill
<1>16. CASE Reap
  BY <1>16 DEF Reap, Decide
<1>17. CASE PostExec
  <2>1. obsErr' \in BOOLEAN
    BY <1>17 DEF PostExec
  <2>2. faults' \in 0 .. MaxFaults
    BY <1>17 DEF PostExec, Fault
  <2>3. post' \in 0 .. NumObservers
    BY <1>17 DEF PostExec
  <2>4. UNCHANGED <<mode, pc, pre, status>>
    BY <1>17 DEF PostExec
  <2>5. QED
    BY <2>1, <2>2, <2>3, <2>4
<1>18. CASE Return
  BY <1>18 DEF Return, FinalStatus
<1>19. CASE PreExecFails
  BY <1>19 DEF PreExecFails, GiveUp, Fault
<1>20. CASE PrepareFails
  BY <1>20 DEF PrepareFails, GiveUp, Fault
<1>21. CASE SpawnFails
  BY <1>21 DEF SpawnFails, Fault
<1>22. CASE WriteFails
  BY <1>22 DEF WriteFails, GiveUp, Fault
<1>23. CASE WaitFails
  BY <1>23 DEF WaitFails, Decide, Fault
<1>24. CASE Look
  BY <1>24 DEF Look
<1>25. CASE Delay
  BY <1>25 DEF Delay
<1>26. CASE UNCHANGED vars
  BY <1>26 DEF vars
<1> QED
  BY <1>1, <1>2, <1>3, <1>4, <1>5, <1>6, <1>7, <1>8, <1>9, <1>10, <1>11, <1>12,
     <1>13, <1>14, <1>15, <1>16, <1>17, <1>18, <1>19, <1>20, <1>21, <1>22,
     <1>23, <1>24, <1>25, <1>26 DEF Next, Proceed, Target

\* No step leaves the types of the target, the pipes and the clock.
LEMMA DataTypeStep == TypeOK /\ Progress /\ [Next]_vars => DataTypes'
<1> SUFFICES ASSUME TypeOK /\ Progress, [Next]_vars PROVE DataTypes'
  OBVIOUS
<1> USE ConstantsAssumption DEF TypeOK, Progress, DataTypes, Programs,
    observers, child
<1>1. CASE Target /\ TargetReads
  BY <1>1 DEF Target, TargetReads
<1>2. CASE Target /\ TargetWrites
  BY <1>2 DEF Target, TargetWrites
<1>3. CASE Target /\ TargetEnds
  BY <1>3 DEF Target, TargetEnds
<1>4. CASE Execute
  <2>1. /\ left' \in Lengths
        /\ clock' = 0
        /\ target' = "none" /\ ending' = "ok"
        /\ exit' = "none"
        /\ inPipe' = 0 /\ outPipe' = 0
        /\ UNCHANGED tempFile
    BY <1>4 DEF Execute
  <2>2. program' \in Seq({"read", "write"})
    BY <1>4 DEF Execute
  <2>3. inOpen' \in BOOLEAN /\ over' \in BOOLEAN
    BY <1>4 DEF Execute
  <2>4. QED
    BY <2>1, <2>2, <2>3
<1>5. CASE PreExec
  BY <1>5 DEF PreExec
<1>6. CASE Prepare
  BY <1>6 DEF Prepare
<1>7. CASE Spawn
  BY <1>7 DEF Spawn
<1>8. CASE WriteStdin
  BY <1>8 DEF WriteStdin
<1>9. CASE CloseStdin
  BY <1>9 DEF CloseStdin, PollBegins
<1>10. CASE BrokenPipe
  BY <1>10 DEF BrokenPipe, GiveUp
<1>11. CASE PollEnded
  BY <1>11 DEF PollEnded, Decide, Verdict
<1>12. CASE PollSleeps
  BY <1>12 DEF PollSleeps
<1>13. CASE Wake
  BY <1>13 DEF Wake, PollBegins
<1>14. CASE PollExpires
  BY <1>14 DEF PollExpires
<1>15. CASE Kill
  BY <1>15 DEF Kill
<1>16. CASE Reap
  BY <1>16 DEF Reap, Decide
<1>17. CASE PostExec
  BY <1>17 DEF PostExec, Fault
<1>18. CASE Return
  BY <1>18 DEF Return, FinalStatus
<1>19. CASE PreExecFails
  BY <1>19 DEF PreExecFails, GiveUp, Fault
<1>20. CASE PrepareFails
  BY <1>20 DEF PrepareFails, GiveUp, Fault
<1>21. CASE SpawnFails
  BY <1>21 DEF SpawnFails, Fault
<1>22. CASE WriteFails
  BY <1>22 DEF WriteFails, GiveUp, Fault
<1>23. CASE WaitFails
  BY <1>23 DEF WaitFails, Decide, Fault
<1>24. CASE Look
  BY <1>24 DEF Look
<1>25. CASE Delay
  BY <1>25 DEF Delay
<1>26. CASE UNCHANGED vars
  BY <1>26 DEF vars
<1> QED
  BY <1>1, <1>2, <1>3, <1>4, <1>5, <1>6, <1>7, <1>8, <1>9, <1>10, <1>11, <1>12,
     <1>13, <1>14, <1>15, <1>16, <1>17, <1>18, <1>19, <1>20, <1>21, <1>22,
     <1>23, <1>24, <1>25, <1>26 DEF Next, Proceed, Target

\* Together they are the types.
LEMMA TypeStep == TypeOK /\ Progress /\ [Next]_vars => TypeOK'
<1>1. TypeOK' <=> ControlTypes' /\ DataTypes'
  BY DEF TypeOK, ControlTypes, DataTypes
<1>2. QED
  BY <1>1, ControlTypeStep, DataTypeStep

\* What the fuzzer knows stays true.
LEMMA ProgressStep == TypeOK /\ Progress /\ [Next]_vars => Progress'
<1> SUFFICES ASSUME TypeOK /\ Progress, [Next]_vars PROVE Progress'
  OBVIOUS
<1> USE ConstantsAssumption DEF TypeOK, Progress, Feeding, observers, child
<1>1. CASE Target /\ TargetReads
  BY <1>1 DEF Target, TargetReads
<1>2. CASE Target /\ TargetWrites
  BY <1>2 DEF Target, TargetWrites
<1>3. CASE Target /\ TargetEnds
  BY <1>3 DEF Target, TargetEnds
<1>4. CASE Execute
  BY <1>4 DEF Execute
<1>5. CASE PreExec
  BY <1>5 DEF PreExec
<1>6. CASE Prepare
  BY <1>6 DEF Prepare
<1>7. CASE Spawn
  BY <1>7 DEF Spawn
<1>8. CASE WriteStdin
  BY <1>8 DEF WriteStdin
<1>9. CASE CloseStdin
  BY <1>9 DEF CloseStdin, PollBegins
<1>10. CASE BrokenPipe
  BY <1>10 DEF BrokenPipe, GiveUp
<1>11. CASE PollEnded
  BY <1>11 DEF PollEnded, Decide, Verdict
<1>12. CASE PollSleeps
  BY <1>12 DEF PollSleeps
<1>13. CASE Wake
  BY <1>13 DEF Wake, PollBegins
<1>14. CASE PollExpires
  BY <1>14 DEF PollExpires
<1>15. CASE Kill
  BY <1>15 DEF Kill
<1>16. CASE Reap
  BY <1>16 DEF Reap, Decide
<1>17. CASE PostExec
  BY <1>17 DEF PostExec, Fault
<1>18. CASE Return
  BY <1>18 DEF Return, FinalStatus
<1>19. CASE PreExecFails
  BY <1>19 DEF PreExecFails, GiveUp, Fault
<1>20. CASE PrepareFails
  BY <1>20 DEF PrepareFails, GiveUp, Fault
<1>21. CASE SpawnFails
  BY <1>21 DEF SpawnFails, Fault
<1>22. CASE WriteFails
  BY <1>22 DEF WriteFails, GiveUp, Fault
<1>23. CASE WaitFails
  BY <1>23 DEF WaitFails, Decide, Fault
<1>24. CASE Look
  BY <1>24 DEF Look
<1>25. CASE Delay
  BY <1>25 DEF Delay
<1>26. CASE UNCHANGED vars
  BY <1>26 DEF vars
<1> QED
  BY <1>1, <1>2, <1>3, <1>4, <1>5, <1>6, <1>7, <1>8, <1>9, <1>10, <1>11, <1>12,
     <1>13, <1>14, <1>15, <1>16, <1>17, <1>18, <1>19, <1>20, <1>21, <1>22,
     <1>23, <1>24, <1>25, <1>26 DEF Next, Proceed, Target

\* The target is where the fuzzer may expect it.
LEMMA TargetStep ==
  TypeOK /\ Progress /\ TargetState /\ [Next]_vars => TargetState'
<1> SUFFICES ASSUME TypeOK /\ Progress /\ TargetState, [Next]_vars
             PROVE  TargetState'
  OBVIOUS
<1> USE ConstantsAssumption DEF TypeOK, Progress, TargetState, Feeding,
    observers, child
<1>1. CASE Target /\ TargetReads
  BY <1>1 DEF Target, TargetReads
<1>2. CASE Target /\ TargetWrites
  BY <1>2 DEF Target, TargetWrites
<1>3. CASE Target /\ TargetEnds
  BY <1>3 DEF Target, TargetEnds
<1>4. CASE Execute
  BY <1>4 DEF Execute
<1>5. CASE PreExec
  BY <1>5 DEF PreExec
<1>6. CASE Prepare
  BY <1>6 DEF Prepare
<1>7. CASE Spawn
  BY <1>7 DEF Spawn
<1>8. CASE WriteStdin
  BY <1>8 DEF WriteStdin
<1>9. CASE CloseStdin
  BY <1>9 DEF CloseStdin, PollBegins
<1>10. CASE BrokenPipe
  BY <1>10 DEF BrokenPipe, GiveUp
<1>11. CASE PollEnded
  BY <1>11 DEF PollEnded, Decide, Verdict
<1>12. CASE PollSleeps
  BY <1>12 DEF PollSleeps
<1>13. CASE Wake
  BY <1>13 DEF Wake, PollBegins
<1>14. CASE PollExpires
  BY <1>14 DEF PollExpires
<1>15. CASE Kill
  BY <1>15 DEF Kill
<1>16. CASE Reap
  BY <1>16 DEF Reap, Decide
<1>17. CASE PostExec
  BY <1>17 DEF PostExec, Fault
<1>18. CASE Return
  BY <1>18 DEF Return, FinalStatus
<1>19. CASE PreExecFails
  BY <1>19 DEF PreExecFails, GiveUp, Fault
<1>20. CASE PrepareFails
  BY <1>20 DEF PrepareFails, GiveUp, Fault
<1>21. CASE SpawnFails
  BY <1>21 DEF SpawnFails, Fault
<1>22. CASE WriteFails
  BY <1>22 DEF WriteFails, GiveUp, Fault
<1>23. CASE WaitFails
  BY <1>23 DEF WaitFails, Decide, Fault
<1>24. CASE Look
  BY <1>24 DEF Look
<1>25. CASE Delay
  BY <1>25 DEF Delay
<1>26. CASE UNCHANGED vars
  BY <1>26 DEF vars
<1> QED
  BY <1>1, <1>2, <1>3, <1>4, <1>5, <1>6, <1>7, <1>8, <1>9, <1>10, <1>11, <1>12,
     <1>13, <1>14, <1>15, <1>16, <1>17, <1>18, <1>19, <1>20, <1>21, <1>22,
     <1>23, <1>24, <1>25, <1>26 DEF Next, Proceed, Target

\* Only a failed call abandons a target.
LEMMA AbandonedStep ==
  TypeOK /\ Progress /\ TargetState /\ Abandoned /\ [Next]_vars => Abandoned'
<1> SUFFICES ASSUME TypeOK /\ Progress /\ TargetState /\ Abandoned, [Next]_vars
             PROVE  Abandoned'
  OBVIOUS
<1> USE ConstantsAssumption DEF TypeOK, Progress, TargetState, Abandoned,
    Feeding, observers, child
<1>1. CASE Target /\ TargetReads
  BY <1>1 DEF Target, TargetReads
<1>2. CASE Target /\ TargetWrites
  BY <1>2 DEF Target, TargetWrites
<1>3. CASE Target /\ TargetEnds
  BY <1>3 DEF Target, TargetEnds
<1>4. CASE Execute
  BY <1>4 DEF Execute
<1>5. CASE PreExec
  BY <1>5 DEF PreExec
<1>6. CASE Prepare
  BY <1>6 DEF Prepare
<1>7. CASE Spawn
  BY <1>7 DEF Spawn
<1>8. CASE WriteStdin
  BY <1>8 DEF WriteStdin
<1>9. CASE CloseStdin
  BY <1>9 DEF CloseStdin, PollBegins
<1>10. CASE BrokenPipe
  BY <1>10 DEF BrokenPipe, GiveUp
<1>11. CASE PollEnded
  BY <1>11 DEF PollEnded, Decide, Verdict
<1>12. CASE PollSleeps
  BY <1>12 DEF PollSleeps
<1>13. CASE Wake
  BY <1>13 DEF Wake, PollBegins
<1>14. CASE PollExpires
  BY <1>14 DEF PollExpires
<1>15. CASE Kill
  BY <1>15 DEF Kill
<1>16. CASE Reap
  BY <1>16 DEF Reap, Decide
<1>17. CASE PostExec
  BY <1>17 DEF PostExec, Fault
<1>18. CASE Return
  BY <1>18 DEF Return, FinalStatus
<1>19. CASE PreExecFails
  BY <1>19 DEF PreExecFails, GiveUp, Fault
<1>20. CASE PrepareFails
  BY <1>20 DEF PrepareFails, GiveUp, Fault
<1>21. CASE SpawnFails
  BY <1>21 DEF SpawnFails, Fault
<1>22. CASE WriteFails
  BY <1>22 DEF WriteFails, GiveUp, Fault
<1>23. CASE WaitFails
  BY <1>23 DEF WaitFails, Decide, Fault
<1>24. CASE Look
  BY <1>24 DEF Look
<1>25. CASE Delay
  BY <1>25 DEF Delay
<1>26. CASE UNCHANGED vars
  BY <1>26 DEF vars
<1> QED
  BY <1>1, <1>2, <1>3, <1>4, <1>5, <1>6, <1>7, <1>8, <1>9, <1>10, <1>11, <1>12,
     <1>13, <1>14, <1>15, <1>16, <1>17, <1>18, <1>19, <1>20, <1>21, <1>22,
     <1>23, <1>24, <1>25, <1>26 DEF Next, Proceed, Target

\* How a target has ended is known once the observers are told, unless a call
\* failed.
EndKnown ==
  /\ pc = "reap" => exit # "none"
  /\ post > 0 => pc \in {"idle", "post"}
  /\ pc = "post" \/ post > 0 =>
       exit # "none" \/ (status = "Other" /\ faults > 0)

LEMMA EndKnownStep ==
  TypeOK /\ Progress /\ TargetState /\ EndKnown /\ [Next]_vars => EndKnown'
<1> SUFFICES ASSUME TypeOK /\ Progress /\ TargetState /\ EndKnown, [Next]_vars
             PROVE  EndKnown'
  OBVIOUS
<1> USE ConstantsAssumption DEF TypeOK, Progress, TargetState, EndKnown,
    Feeding, observers, child
<1>1. CASE Target /\ TargetReads
  BY <1>1 DEF Target, TargetReads
<1>2. CASE Target /\ TargetWrites
  BY <1>2 DEF Target, TargetWrites
<1>3. CASE Target /\ TargetEnds
  BY <1>3 DEF Target, TargetEnds
<1>4. CASE Execute
  BY <1>4 DEF Execute
<1>5. CASE PreExec
  BY <1>5 DEF PreExec
<1>6. CASE Prepare
  BY <1>6 DEF Prepare
<1>7. CASE Spawn
  BY <1>7 DEF Spawn
<1>8. CASE WriteStdin
  BY <1>8 DEF WriteStdin
<1>9. CASE CloseStdin
  BY <1>9 DEF CloseStdin, PollBegins
<1>10. CASE BrokenPipe
  BY <1>10 DEF BrokenPipe, GiveUp
<1>11. CASE PollEnded
  BY <1>11 DEF PollEnded, Decide, Verdict
<1>12. CASE PollSleeps
  BY <1>12 DEF PollSleeps
<1>13. CASE Wake
  BY <1>13 DEF Wake, PollBegins
<1>14. CASE PollExpires
  BY <1>14 DEF PollExpires
<1>15. CASE Kill
  BY <1>15 DEF Kill
<1>16. CASE Reap
  BY <1>16 DEF Reap, Decide
<1>17. CASE PostExec
  BY <1>17 DEF PostExec, Fault
<1>18. CASE Return
  BY <1>18 DEF Return, FinalStatus
<1>19. CASE PreExecFails
  BY <1>19 DEF PreExecFails, GiveUp, Fault
<1>20. CASE PrepareFails
  BY <1>20 DEF PrepareFails, GiveUp, Fault
<1>21. CASE SpawnFails
  BY <1>21 DEF SpawnFails, Fault
<1>22. CASE WriteFails
  BY <1>22 DEF WriteFails, GiveUp, Fault
<1>23. CASE WaitFails
  BY <1>23 DEF WaitFails, Decide, Fault
<1>24. CASE Look
  BY <1>24 DEF Look
<1>25. CASE Delay
  BY <1>25 DEF Delay
<1>26. CASE UNCHANGED vars
  BY <1>26 DEF vars
<1> QED
  BY <1>1, <1>2, <1>3, <1>4, <1>5, <1>6, <1>7, <1>8, <1>9, <1>10, <1>11, <1>12,
     <1>13, <1>14, <1>15, <1>16, <1>17, <1>18, <1>19, <1>20, <1>21, <1>22,
     <1>23, <1>24, <1>25, <1>26 DEF Next, Proceed, Target

\* The file stays for the whole wait and no longer.
LEMMA FileStep == TypeOK /\ FileState /\ [Next]_vars => FileState'
<1> SUFFICES ASSUME TypeOK /\ FileState, [Next]_vars PROVE FileState'
  OBVIOUS
<1> USE ConstantsAssumption DEF TypeOK, FileState, Feeding, observers, child
<1>1. CASE Target /\ TargetReads
  BY <1>1 DEF Target, TargetReads
<1>2. CASE Target /\ TargetWrites
  BY <1>2 DEF Target, TargetWrites
<1>3. CASE Target /\ TargetEnds
  BY <1>3 DEF Target, TargetEnds
<1>4. CASE Execute
  BY <1>4 DEF Execute
<1>5. CASE PreExec
  BY <1>5 DEF PreExec
<1>6. CASE Prepare
  BY <1>6 DEF Prepare
<1>7. CASE Spawn
  BY <1>7 DEF Spawn
<1>8. CASE WriteStdin
  BY <1>8 DEF WriteStdin
<1>9. CASE CloseStdin
  BY <1>9 DEF CloseStdin, PollBegins
<1>10. CASE BrokenPipe
  BY <1>10 DEF BrokenPipe, GiveUp
<1>11. CASE PollEnded
  BY <1>11 DEF PollEnded, Decide, Verdict
<1>12. CASE PollSleeps
  BY <1>12 DEF PollSleeps
<1>13. CASE Wake
  BY <1>13 DEF Wake, PollBegins
<1>14. CASE PollExpires
  BY <1>14 DEF PollExpires
<1>15. CASE Kill
  BY <1>15 DEF Kill
<1>16. CASE Reap
  BY <1>16 DEF Reap, Decide
<1>17. CASE PostExec
  BY <1>17 DEF PostExec, Fault
<1>18. CASE Return
  BY <1>18 DEF Return, FinalStatus
<1>19. CASE PreExecFails
  BY <1>19 DEF PreExecFails, GiveUp, Fault
<1>20. CASE PrepareFails
  BY <1>20 DEF PrepareFails, GiveUp, Fault
<1>21. CASE SpawnFails
  BY <1>21 DEF SpawnFails, Fault
<1>22. CASE WriteFails
  BY <1>22 DEF WriteFails, GiveUp, Fault
<1>23. CASE WaitFails
  BY <1>23 DEF WaitFails, Decide, Fault
<1>24. CASE Look
  BY <1>24 DEF Look
<1>25. CASE Delay
  BY <1>25 DEF Delay
<1>26. CASE UNCHANGED vars
  BY <1>26 DEF vars
<1> QED
  BY <1>1, <1>2, <1>3, <1>4, <1>5, <1>6, <1>7, <1>8, <1>9, <1>10, <1>11, <1>12,
     <1>13, <1>14, <1>15, <1>16, <1>17, <1>18, <1>19, <1>20, <1>21, <1>22,
     <1>23, <1>24, <1>25, <1>26 DEF Next, Proceed, Target

\* A verdict is true when it is given, and the target is gone then.
LEMMA VerdictStep == Inv /\ [Next]_vars => (VerdictIsTrue /\ NoFalseTimeout)'
<1> SUFFICES ASSUME Inv, [Next]_vars PROVE (VerdictIsTrue /\ NoFalseTimeout)'
  OBVIOUS
<1> USE ConstantsAssumption DEF Inv, TypeOK, Progress, TargetState, Abandoned,
    VerdictIsTrue, NoFalseTimeout, Feeding, observers, child
<1>1. CASE Target /\ TargetReads
  BY <1>1 DEF Target, TargetReads
<1>2. CASE Target /\ TargetWrites
  BY <1>2 DEF Target, TargetWrites
<1>3. CASE Target /\ TargetEnds
  BY <1>3 DEF Target, TargetEnds
<1>4. CASE Execute
  BY <1>4 DEF Execute
<1>5. CASE PreExec
  BY <1>5 DEF PreExec
<1>6. CASE Prepare
  BY <1>6 DEF Prepare
<1>7. CASE Spawn
  BY <1>7 DEF Spawn
<1>8. CASE WriteStdin
  BY <1>8 DEF WriteStdin
<1>9. CASE CloseStdin
  BY <1>9 DEF CloseStdin, PollBegins
<1>10. CASE BrokenPipe
  BY <1>10 DEF BrokenPipe, GiveUp
<1>11. CASE PollEnded
  BY <1>11 DEF PollEnded, Decide, Verdict
<1>12. CASE PollSleeps
  BY <1>12 DEF PollSleeps
<1>13. CASE Wake
  BY <1>13 DEF Wake, PollBegins
<1>14. CASE PollExpires
  BY <1>14 DEF PollExpires
<1>15. CASE Kill
  BY <1>15 DEF Kill
<1>16. CASE Reap
  BY <1>16 DEF Reap, Decide
<1>17. CASE PostExec
  BY <1>17 DEF PostExec, Fault
<1>18. CASE Return
  BY <1>18 DEF Return, FinalStatus
<1>19. CASE PreExecFails
  BY <1>19 DEF PreExecFails, GiveUp, Fault
<1>20. CASE PrepareFails
  BY <1>20 DEF PrepareFails, GiveUp, Fault
<1>21. CASE SpawnFails
  BY <1>21 DEF SpawnFails, Fault
<1>22. CASE WriteFails
  BY <1>22 DEF WriteFails, GiveUp, Fault
<1>23. CASE WaitFails
  BY <1>23 DEF WaitFails, Decide, Fault
<1>24. CASE Look
  BY <1>24 DEF Look
<1>25. CASE Delay
  BY <1>25 DEF Delay
<1>26. CASE UNCHANGED vars
  BY <1>26 DEF vars
<1> QED
  BY <1>1, <1>2, <1>3, <1>4, <1>5, <1>6, <1>7, <1>8, <1>9, <1>10, <1>11, <1>12,
     <1>13, <1>14, <1>15, <1>16, <1>17, <1>18, <1>19, <1>20, <1>21, <1>22,
     <1>23, <1>24, <1>25, <1>26 DEF Next, Proceed, Target

\* A crash is decided on as one, or a call has failed or the time was up.
LEMMA CrashStep == Inv /\ [Next]_vars => CrashDecided'
<1> SUFFICES ASSUME Inv, [Next]_vars PROVE CrashDecided'
  OBVIOUS
<1> USE ConstantsAssumption DEF Inv, TypeOK, Progress, TargetState, Abandoned,
    CrashDecided, Feeding, observers, child
<1>1. CASE Target /\ TargetReads
  BY <1>1 DEF Target, TargetReads
<1>2. CASE Target /\ TargetWrites
  BY <1>2 DEF Target, TargetWrites
<1>3. CASE Target /\ TargetEnds
  BY <1>3 DEF Target, TargetEnds
<1>4. CASE Execute
  BY <1>4 DEF Execute
<1>5. CASE PreExec
  BY <1>5 DEF PreExec
<1>6. CASE Prepare
  BY <1>6 DEF Prepare
<1>7. CASE Spawn
  BY <1>7 DEF Spawn
<1>8. CASE WriteStdin
  BY <1>8 DEF WriteStdin
<1>9. CASE CloseStdin
  BY <1>9 DEF CloseStdin, PollBegins
<1>10. CASE BrokenPipe
  BY <1>10 DEF BrokenPipe, GiveUp
<1>11. CASE PollEnded
  BY <1>11 DEF PollEnded, Decide, Verdict
<1>12. CASE PollSleeps
  BY <1>12 DEF PollSleeps
<1>13. CASE Wake
  BY <1>13 DEF Wake, PollBegins
<1>14. CASE PollExpires
  BY <1>14 DEF PollExpires
<1>15. CASE Kill
  BY <1>15 DEF Kill
<1>16. CASE Reap
  BY <1>16 DEF Reap, Decide
<1>17. CASE PostExec
  BY <1>17 DEF PostExec, Fault
<1>18. CASE Return
  BY <1>18 DEF Return, FinalStatus
<1>19. CASE PreExecFails
  BY <1>19 DEF PreExecFails, GiveUp, Fault
<1>20. CASE PrepareFails
  BY <1>20 DEF PrepareFails, GiveUp, Fault
<1>21. CASE SpawnFails
  BY <1>21 DEF SpawnFails, Fault
<1>22. CASE WriteFails
  BY <1>22 DEF WriteFails, GiveUp, Fault
<1>23. CASE WaitFails
  BY <1>23 DEF WaitFails, Decide, Fault
<1>24. CASE Look
  BY <1>24 DEF Look
<1>25. CASE Delay
  BY <1>25 DEF Delay
<1>26. CASE UNCHANGED vars
  BY <1>26 DEF vars
<1> QED
  BY <1>1, <1>2, <1>3, <1>4, <1>5, <1>6, <1>7, <1>8, <1>9, <1>10, <1>11, <1>12,
     <1>13, <1>14, <1>15, <1>16, <1>17, <1>18, <1>19, <1>20, <1>21, <1>22,
     <1>23, <1>24, <1>25, <1>26 DEF Next, Proceed, Target

-----------------------------------------------------------------------------

\* No execution has been asked for yet.
Fresh ==
  /\ mode \in Modes /\ faults \in 0 .. MaxFaults
  /\ pc = "idle" /\ pre = 0 /\ post = 0 /\ obsErr = FALSE /\ status = "none"
  /\ left = 0 /\ tempFile = FALSE /\ clock = 0
  /\ target = "none" /\ program = <<>> /\ ending = "ok" /\ exit = "none"
  /\ over = FALSE /\ inPipe = 0 /\ inOpen = FALSE /\ outPipe = 0

LEMMA FreshInv == Fresh => Inv
<1> SUFFICES ASSUME Fresh PROVE Inv
  OBVIOUS
<1> USE ConstantsAssumption DEF Fresh
<1>1. TypeOK
  <2>1. /\ obsErr \in BOOLEAN /\ tempFile \in BOOLEAN /\ inOpen \in BOOLEAN
        /\ over \in BOOLEAN
    OBVIOUS
  <2>2. program \in Seq({"read", "write"})
    OBVIOUS
  <2>3. QED
    BY <2>1, <2>2 DEF TypeOK
<1>2. Progress /\ TargetState /\ Abandoned /\ FileState
  BY DEF Progress, TargetState, Abandoned, FileState, Feeding
<1>3. VerdictIsTrue /\ NoFalseTimeout /\ CrashDecided
  BY DEF VerdictIsTrue, NoFalseTimeout, CrashDecided
<1>4. QED
  BY <1>1, <1>2, <1>3 DEF Inv

LEMMA InvInit == Init => Inv
BY FreshInv, ConstantsAssumption DEF Init, Fresh

LEMMA InvStep == Inv /\ [Next]_vars => Inv'
BY TypeStep, ProgressStep, TargetStep, AbandonedStep, FileStep, VerdictStep,
   CrashStep
   DEF Inv

LEMMA InvHolds == Spec => []Inv
BY InvInit, InvStep, PTL DEF Spec

\* Every variable has its type.
THEOREM TypeCorrect == Spec => []TypeOK
<1>1. Inv => TypeOK
  BY DEF Inv
<1>2. QED
  BY <1>1, InvHolds, PTL

\* When execute_sync returns, no target is running or waiting to be reaped, on
\* any path, unless waiting for it or killing it failed.
THEOREM NoTargetIsLeft == Spec => []NoStrayTarget
<1>1. Inv => NoStrayTarget
  BY DEF Inv, Abandoned, NoStrayTarget
<1>2. QED
  BY <1>1, InvHolds, PTL

\* A target in file mode never sees its file disappear while the fuzzer waits
\* for it, and no execution leaves a file behind.
THEOREM FileOutlivesTarget == Spec => []TempFileScope
<1>1. Inv => TempFileScope
  BY DEF Inv, TypeOK, Progress, TargetState, FileState, TempFileScope, Feeding
<1>2. QED
  BY <1>1, InvHolds, PTL

\* Ok and Crash are only said of a target that ended that way by itself.
THEOREM Verdicts == Spec => []VerdictIsTrue
<1>1. Inv => VerdictIsTrue
  BY DEF Inv
<1>2. QED
  BY <1>1, InvHolds, PTL

\* Timeout is said only when the time is up, and never of a target that had
\* ended by itself when the last poll began.
THEOREM Timeouts == Spec => []NoFalseTimeout
<1>1. Inv => NoFalseTimeout
  BY DEF Inv
<1>2. QED
  BY <1>1, InvHolds, PTL

\* Once the whole input was delivered, a target that fails is reported as a
\* crash, unless a call of the fuzzer failed, or the time was up and the target
\* had not yet ended when the last poll began.
THEOREM CrashesAreReported == Spec => []DeliveredCrashReported
<1>1. Inv => DeliveredCrashReported
  BY DEF Inv, CrashDecided, DeliveredCrashReported
<1>2. QED
  BY <1>1, InvHolds, PTL

-----------------------------------------------------------------------------

\* The steps the contract does not see: the target's, and those of the fuzzer
\* between two that it does.
LEMMA Unseen ==
  ASSUME Target \/ Prepare \/ Spawn \/ WriteStdin \/ CloseStdin \/ Look \/ Delay
           \/ PollSleeps \/ Wake \/ PollExpires \/ Kill
  PROVE  UNCHANGED Contract!vars
BY DEF Target, Prepare, Spawn, WriteStdin, CloseStdin, PollBegins, Look, Delay,
       PollSleeps, Wake, PollExpires, Kill, observers, Busy, Contract!vars

\* The ways to end early, and to a verdict.
LEMMA GivesUp ==
  ASSUME Inv, PreExecFails \/ PrepareFails \/ BrokenPipe \/ WriteFails
  PROVE  Contract!GiveUp
BY DEF Inv, TypeOK, Progress, Feeding, Busy, observers, PreExecFails,
       PrepareFails, BrokenPipe, WriteFails, GiveUp, Contract!GiveUp

LEMMA Decides ==
  ASSUME Inv, PollEnded \/ Reap \/ WaitFails \/ SpawnFails
  PROVE  Contract!Decide
BY DEF Inv, TypeOK, Progress, Feeding, Busy, observers, PollEnded, Reap,
       WaitFails, SpawnFails, Decide, Verdict, Contract!Decide

\* Every other step is a step of the contract.
LEMMA ContractStep == Inv /\ [Next]_vars => [Contract!Next]_Contract!vars
<1> SUFFICES ASSUME Inv, [Next]_vars
             PROVE  [Contract!Next]_Contract!vars
  OBVIOUS
<1> USE DEF Inv, TypeOK, Progress, Feeding, Busy, observers
<1>1. CASE Execute
  BY <1>1 DEF Execute, Contract!Execute, Contract!Next
<1>2. CASE PreExec
  BY <1>2 DEF PreExec, Contract!Prepare, Contract!Next
<1>3. CASE PreExecFails \/ PrepareFails \/ BrokenPipe \/ WriteFails
  BY <1>3, GivesUp DEF Contract!Next
<1>4. CASE PollEnded \/ Reap \/ WaitFails \/ SpawnFails
  BY <1>4, Decides DEF Contract!Next
<1>5. CASE PostExec
  BY <1>5 DEF PostExec, Contract!Tell, Contract!Next
<1>6. CASE Return
  BY <1>6 DEF Return, FinalStatus, Contract!Return, Contract!Next
<1>7. CASE Target \/ Prepare \/ Spawn \/ WriteStdin \/ CloseStdin \/ Look
             \/ Delay \/ PollSleeps \/ Wake \/ PollExpires \/ Kill
  BY <1>7, Unseen
<1>8. CASE UNCHANGED vars
  BY <1>8 DEF vars, Contract!vars
<1>9. QED
  BY <1>1, <1>2, <1>3, <1>4, <1>5, <1>6, <1>7, <1>8 DEF Next, Proceed

LEMMA ContractInit == Init => Contract!Init
BY DEF Init, Contract!Init, Busy

\* CommandExecutor is an executor: every step is a step of the contract or
\* leaves its state alone.
THEOREM Refinement == Spec => ImplementsExecutor
BY ContractInit, ContractStep, InvHolds, PTL
   DEF Spec, ImplementsExecutor, Contract!Spec

-----------------------------------------------------------------------------
(* The executor of a campaign                                              *)

\* In process: the status decided on is that of the harness until the
\* observers are told, and a call that ends early has run no harness.
StatusOfHarness ==
  /\ pc \in {"idle", "pre", "post"}
  /\ pc = "pre" => status = "none" /\ exit = "none"
  /\ pc = "post" => status = IF exit = "crash" THEN "Crash" ELSE "Ok"
  /\ pc = "idle" /\ status # "none" => (exit = "crash" <=> status = "Crash")

AnyInv ==
  /\ executor_type \in {"Command", "InProcess"}
  /\ executor_type = "Command" => Inv
  /\ executor_type = "InProcess" => StatusOfHarness

-----------------------------------------------------------------------------

LEMMA HarnessStep == StatusOfHarness /\ InProcess!Next => StatusOfHarness'
<1> SUFFICES ASSUME StatusOfHarness, InProcess!Next
             PROVE  StatusOfHarness'
  OBVIOUS
<1> USE DEF StatusOfHarness
<1>1. CASE InProcess!Execute
  BY <1>1 DEF InProcess!Execute
<1>2. CASE InProcess!PreExec
  BY <1>2 DEF InProcess!PreExec
<1>3. CASE InProcess!PreExecFails
  BY <1>3 DEF InProcess!PreExecFails
<1>4. CASE InProcess!RunHarness
  BY <1>4 DEF InProcess!RunHarness
<1>5. CASE InProcess!PostExec
  BY <1>5 DEF InProcess!PostExec
<1>6. CASE InProcess!Return
  BY <1>6 DEF InProcess!Return, InProcess!FinalStatus
<1>7. QED
  BY <1>1, <1>2, <1>3, <1>4, <1>5, <1>6 DEF InProcess!Next, InProcess!Proceed

LEMMA Stutter ==
  ASSUME UNCHANGED anyVars
  PROVE  UNCHANGED vars /\ UNCHANGED executor_type /\ UNCHANGED <<pc, exit, status>>
BY DEF anyVars, vars, child

LEMMA AnyInvHolds == AnySpec => []AnyInv
<1>1. AnyInit => AnyInv
  <2> SUFFICES ASSUME AnyInit PROVE AnyInv
    OBVIOUS
  <2>1. Inv
    BY InvInit DEF AnyInit
  <2>2. StatusOfHarness
    BY DEF AnyInit, Init, StatusOfHarness
  <2>3. QED
    BY <2>1, <2>2 DEF AnyInit, AnyInv
<1>2. AnyInv /\ [AnyNext]_anyVars => AnyInv'
  <2> SUFFICES ASSUME AnyInv, [AnyNext]_anyVars
               PROVE  AnyInv'
    OBVIOUS
  <2>1. CASE AsCommand(Next)
    BY <2>1, InvStep DEF AsCommand, AnyInv
  <2>2. CASE AsInProcess(InProcess!Next)
    BY <2>2, HarnessStep DEF AsInProcess, AnyInv
  <2>3. CASE UNCHANGED anyVars
    <3>1. Inv => Inv'
      BY <2>3, Stutter, InvStep
    <3>2. StatusOfHarness => StatusOfHarness'
      BY <2>3, Stutter DEF StatusOfHarness
    <3>3. QED
      BY <2>3, <3>1, <3>2, Stutter DEF AnyInv
  <2>4. QED
    BY <2>1, <2>2, <2>3 DEF AnyNext
<1>3. QED
  BY <1>1, <1>2, PTL DEF AnySpec

\* A panic of the harness is reported as a crash whatever the observers do, and
\* nothing else is.
THEOREM PanicIsACrash == AnySpec => []PanicIsCrash
<1>1. AnyInv => PanicIsCrash
  BY DEF AnyInv, StatusOfHarness, PanicIsCrash, InProcess!PanicIsCrash
<1>2. QED
  BY <1>1, AnyInvHolds, PTL

-----------------------------------------------------------------------------

LEMMA HarnessContractStep ==
  StatusOfHarness /\ InProcess!Next => Contract!Next
<1> SUFFICES ASSUME StatusOfHarness, InProcess!Next
             PROVE  Contract!Next
  OBVIOUS
<1> USE DEF Busy, StatusOfHarness
<1>1. ASSUME InProcess!Execute PROVE Contract!Execute
  BY <1>1 DEF InProcess!Execute, Contract!Execute
<1>2. ASSUME InProcess!PreExec PROVE Contract!Prepare
  BY <1>2 DEF InProcess!PreExec, Contract!Prepare
<1>3. ASSUME InProcess!PreExecFails PROVE Contract!GiveUp
  BY <1>3 DEF InProcess!PreExecFails, Contract!GiveUp
<1>4. ASSUME InProcess!RunHarness PROVE Contract!Decide
  BY <1>4 DEF InProcess!RunHarness, Contract!Decide
<1>5. ASSUME InProcess!PostExec PROVE Contract!Tell
  BY <1>5 DEF InProcess!PostExec, Contract!Tell
<1>6. ASSUME InProcess!Return PROVE Contract!Return
  BY <1>6 DEF InProcess!Return, InProcess!FinalStatus, Contract!Return
<1>7. QED
  BY <1>1, <1>2, <1>3, <1>4, <1>5, <1>6
     DEF InProcess!Next, InProcess!Proceed, Contract!Next

\* The executor of a campaign, whichever it is, keeps the contract the fuzz loop
\* builds on: every observer of a run is told before its status is returned.
THEOREM EitherRefines == AnySpec => ImplementsExecutor
<1>1. AnyInit => Contract!Init
  BY ContractInit DEF AnyInit
<1>2. AnyInv /\ [AnyNext]_anyVars => [Contract!Next]_Contract!vars
  <2> SUFFICES ASSUME AnyInv, [AnyNext]_anyVars
               PROVE  [Contract!Next]_Contract!vars
    OBVIOUS
  <2>1. CASE AsCommand(Next)
    BY <2>1, ContractStep DEF AsCommand, AnyInv
  <2>2. CASE AsInProcess(InProcess!Next)
    BY <2>2, HarnessContractStep DEF AsInProcess, AnyInv
  <2>3. CASE UNCHANGED anyVars
    BY <2>3 DEF anyVars, vars, observers, Contract!vars, Busy
  <2>4. QED
    BY <2>1, <2>2, <2>3 DEF AnyNext
<1>3. QED
  BY <1>1, <1>2, AnyInvHolds, PTL DEF AnySpec, ImplementsExecutor, Contract!Spec
=============================================================================
