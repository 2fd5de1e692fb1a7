------------------------- MODULE Campaign_proofs ----------------------------
(***************************************************************************)
(* Proofs about Campaign, for all inputs and seeds, either feedback and    *)
(* all bounds.                                                             *)
(*                                                                         *)
(* PD, PX and PL are the proofs about the corpus, the executor and the     *)
(* loop, of Campaign's variables: every step of main is one of the first   *)
(* two, so what they are proved to keep holds here, and the lemmas of the  *)
(* third apply once Campaign is shown to be a FuzzLoop.                    *)
(***************************************************************************)
EXTENDS Campaign, SequenceTheorems, FiniteSetTheorems, TLAPS

\* The proofs about the corpus.
PD == INSTANCE OnDiskCorpus_proofs WITH
        Input <- Inputs, Descr <- Descrs, MaxFaults <- MaxDiskFaults,
        pc <- diskPc, faults <- diskFaults

\* The proofs about the executor, whose type is fixed: main runs commands.
PX == INSTANCE AnyExecutor_proofs WITH
        NumObservers <- 1, MaxFaults <- MaxExecFaults,
        pc <- execPc, faults <- execFaults, executor_type <- "Command"

\* The proofs about the loop, with the substitution of Campaign's Loop.
PL == INSTANCE FuzzLoop_proofs WITH
        MaxFaults <- 2 * MaxDiskFaults,
        pc        <- LoopPc,
        open      <- step \notin {"down", "new"},
        entries   <- LoopEntries,
        found     <- IF step \in {"get", "mutate"} THEN found ELSE {},
        known     <- LoopKnown,
        busy      <- execPc # "idle",
        faults    <- failed

\* Disk and PD are one module under two names, which the prover has to be told.
LEMMA DiskSame ==
  /\ Disk!OpenLoad <=> PD!OpenLoad
  /\ Disk!OpenFresh <=> PD!OpenFresh
  /\ Disk!OpenFails <=> PD!OpenFails
  /\ Disk!AddCall <=> PD!AddCall
  /\ Disk!SeedNext <=> PD!SeedNext
  /\ Disk!CreateInput <=> PD!CreateInput
  /\ Disk!WriteInput <=> PD!WriteInput
  /\ Disk!TruncateIndex <=> PD!TruncateIndex
  /\ CallEnds <=> PD!CallEnds
  /\ Disk!LoadSeeds <=> PD!LoadSeeds
  /\ Disk!SeedsDone <=> PD!SeedsDone
  /\ Disk!SeedsFail <=> PD!SeedsFail
  /\ \A id : Disk!Lookup(id) <=> PD!Lookup(id)
  /\ Disk!RandomSelect <=> PD!RandomSelect
  /\ Disk!Exit <=> PD!Exit
  /\ Disk!Crash <=> PD!Crash
BY DEF Disk!OpenLoad, PD!OpenLoad, Disk!OpenFresh, PD!OpenFresh,
   Disk!OpenFails, PD!OpenFails, Disk!AddCall, PD!AddCall, Disk!SeedNext,
   PD!SeedNext, Disk!StartAdd, PD!StartAdd, Disk!Idle, PD!Idle, Disk!NewId,
   PD!NewId, Disk!AddOp, PD!AddOp, Disk!CreateInput, PD!CreateInput,
   Disk!WriteInput, PD!WriteInput, Disk!TruncateIndex, PD!TruncateIndex,
   CallEnds, PD!CallEnds, Disk!FlushIndex, PD!FlushIndex, Disk!FlushLost,
   PD!FlushLost, Disk!CreateInputFails, PD!CreateInputFails,
   Disk!WriteInputFails, PD!WriteInputFails, Disk!TruncateFails,
   PD!TruncateFails, Disk!FlushFails, PD!FlushFails, Disk!ReturnOk,
   PD!ReturnOk, Disk!ReturnErr, PD!ReturnErr, Disk!Fault, PD!Fault,
   Disk!Broken, PD!Broken, Disk!IndexFile, PD!IndexFile, Disk!NoMeta,
   PD!NoMeta, Disk!Stem, PD!Stem, Disk!NewOp, PD!NewOp, Disk!NoOp, PD!NoOp,
   Disk!LoadSeeds, PD!LoadSeeds, Disk!SeedsDone, PD!SeedsDone, Disk!SeedsFail,
   PD!SeedsFail, Disk!SeedsReturn, PD!SeedsReturn, Disk!Lookup, PD!Lookup,
   Disk!GetHit, PD!GetHit, Disk!GetMiss, PD!GetMiss, Disk!GetFails,
   PD!GetFails, Disk!Hit, PD!Hit, Disk!Loaded, PD!Loaded, Disk!Cached,
   PD!Cached, Disk!Readable, PD!Readable, Disk!RandomSelect, PD!RandomSelect,
   Disk!Exit, PD!Exit, Disk!Crash, PD!Crash, Disk!Forget, PD!Forget, Disk!disk,
   PD!disk, Disk!memory, PD!memory, Disk!caller, PD!caller, Disk!bounds,
   PD!bounds

\* So are Exec and PX, the latter with its executor's type fixed.
LEMMA ExecSame ==
  /\ Exec!Target <=> PX!Target
  /\ Exec!Execute <=> PX!Execute
  /\ Exec!PreExec <=> PX!PreExec
  /\ Exec!PreExecFails <=> PX!PreExecFails
  /\ Exec!Prepare <=> PX!Prepare
  /\ Exec!PrepareFails <=> PX!PrepareFails
  /\ Exec!Spawn <=> PX!Spawn
  /\ Exec!SpawnFails <=> PX!SpawnFails
  /\ Exec!WriteStdin <=> PX!WriteStdin
  /\ Exec!CloseStdin <=> PX!CloseStdin
  /\ Exec!BrokenPipe <=> PX!BrokenPipe
  /\ Exec!WriteFails <=> PX!WriteFails
  /\ Exec!PollEnded <=> PX!PollEnded
  /\ Exec!Look <=> PX!Look
  /\ Exec!Delay <=> PX!Delay
  /\ Exec!PollSleeps <=> PX!PollSleeps
  /\ Exec!Wake <=> PX!Wake
  /\ Exec!PollExpires <=> PX!PollExpires
  /\ Exec!Kill <=> PX!Kill
  /\ Exec!Reap <=> PX!Reap
  /\ Exec!WaitFails <=> PX!WaitFails
  /\ Exec!PostExec <=> PX!PostExec
  /\ Exec!Return <=> PX!Return
BY DEF
  Exec!Target, PX!Target, Exec!Execute, PX!Execute, Exec!PreExec, PX!PreExec,
  Exec!PreExecFails, PX!PreExecFails, Exec!Prepare, PX!Prepare,
  Exec!PrepareFails, PX!PrepareFails, Exec!Spawn, PX!Spawn, Exec!SpawnFails,
  PX!SpawnFails, Exec!WriteStdin, PX!WriteStdin, Exec!CloseStdin,
  PX!CloseStdin, Exec!BrokenPipe, PX!BrokenPipe, Exec!WriteFails,
  PX!WriteFails, Exec!PollEnded, PX!PollEnded, Exec!PollSleeps, PX!PollSleeps,
  Exec!Wake, PX!Wake, Exec!PollExpires, PX!PollExpires, Exec!Kill, PX!Kill,
  Exec!Reap, PX!Reap, Exec!WaitFails, PX!WaitFails, Exec!PostExec,
  PX!PostExec, Exec!Return, PX!Return, Exec!CanRead, PX!CanRead,
  Exec!TargetReads, PX!TargetReads, Exec!TargetWrites, PX!TargetWrites,
  Exec!TargetEnds, PX!TargetEnds, Exec!GiveUp, PX!GiveUp, Exec!Decide,
  PX!Decide, Exec!Verdict, PX!Verdict, Exec!FinalStatus, PX!FinalStatus,
  Exec!Fault, PX!Fault, Exec!observers, PX!observers, Exec!child, PX!child,
  Exec!Programs, PX!Programs, Exec!Look, PX!Look, Exec!Delay, PX!Delay,
  Exec!PollBegins, PX!PollBegins

-----------------------------------------------------------------------------
(* The invariant                                                           *)

Booting == {"down", "new", "seeds", "default"}

\* What main remembers of its corpus and of its campaign before each begins.
Memory ==
  /\ step \in {"down", "new"} =>
       /\ seedsLeft = {} /\ iter = 0 /\ mutated = DefaultSeed
       /\ obsHash = NoHash /\ added = FALSE
       /\ pre = 0 /\ post = 0 /\ status = "none"
  /\ step \in Booting => known = {}
  /\ step # "register" => learned = 0 /\ unread = {}
  /\ seedsLeft \subseteq Seeds
  /\ step = "new" => runs < MaxRuns

\* Which add of the corpus each step of main waits for.
AddAsked ==
  \/ /\ step = "seeds"
     /\ op.input \in seedsLeft /\ op.descr = "seed"
  \/ /\ step = "default"
     /\ op.id = 0 /\ op.input = DefaultSeed /\ op.descr = "default"
  \/ /\ step = "feedback"
     /\ op.input = mutated /\ op.descr = "feedback" /\ mutated \in known
     /\ feedback = "MockBitmapCoverage" =>
          obsHash # NoHash /\ obsHash \notin known \ {mutated}
  \/ /\ step = "oracle"
     /\ op.input = mutated /\ op.descr = "crash"
     /\ status = "Crash" /\ ~added

\* A call runs only at a step that waits for it.
Calling ==
  /\ step \in Booting \cup {"register", "next", "get", "mutate", "execute",
                            "feedback", "oracle", "exit"}
  /\ step = "down" <=> diskPc = "down"
  /\ step = "new" <=> op = PD!NewOp
  /\ step \in {"register", "next", "get", "mutate", "execute", "exit"} =>
       diskPc = "idle"
  /\ step # "seeds" => ~seeding
  /\ op.call = "add" => AddAsked
  /\ step = "execute" <=> execPc # "idle"

\* The entries main has read so far: it knows them, or could not read them.
Learning ==
  step = "register" =>
    /\ learned \in 0 .. Len(stems)
    /\ \E missing \in SUBSET (1 .. learned) :
         /\ known = {LoopEntries[k].input : k \in (1 .. learned) \ missing}
         /\ unread = {LoopEntries[k].input : k \in missing}

\* The cache has the entry that main is about to get.
Scheduled == step = "get" => found # {} /\ cache = found

\* A call that fails has met a failing operation, but for seed files.
Budget ==
  /\ failed \in Nat
  /\ failed + (IF unread = {} THEN 0 ELSE 1) <= diskFaults + MaxDiskFaults

\* The observer has data if it was told, and what the coverage feedback has
\* taken for new had data.
Told ==
  /\ step \in {"execute", "feedback"} /\ obsHash # NoHash => post = 1
  /\ /\ feedback = "MockBitmapCoverage"
     /\ \/ step = "oracle" /\ added
        \/ step = "feedback" /\ op.call = "add"
     => post = 1

CallInv ==
  /\ PD!Inv /\ PD!Stored
  /\ PX!Inv /\ PX!EndKnown

Inv ==
  /\ CallInv
  /\ Memory
  /\ Calling
  /\ Learning
  /\ Scheduled
  /\ Budget
  /\ Told
  /\ feedback \in Feedbacks /\ runs \in 0 .. MaxRuns

-----------------------------------------------------------------------------
(* The steps of the corpus and of the executor                             *)

\* The assumptions of the three modules are Campaign's.
LEMMA PDAssumption == PD!ConstantsAssumption
BY ConstantsAssumption DEF PD!ConstantsAssumption

LEMMA PXAssumption == PX!ConstantsAssumption
BY ConstantsAssumption DEF PX!ConstantsAssumption

LEMMA PLAssumption == PL!ConstantsAssumption
BY ConstantsAssumption DEF PL!ConstantsAssumption

\* A step that leaves a module's variables alone is a stutter of it.
LEMMA SameDisk == UNCHANGED disk <=> UNCHANGED PD!vars
BY DEF disk, PD!vars, PD!disk, PD!memory, PD!caller, PD!bounds

LEMMA SameExec == UNCHANGED executor <=> UNCHANGED PX!vars
BY DEF executor, PX!vars, PX!observers, PX!child

\* Loop and PL are one module, too.
LEMMA LoopSame == [Loop!Next]_Loop!vars => [PL!Next]_PL!vars
BY DEF Loop!Next, PL!Next, Loop!vars, PL!vars, Loop!Start, PL!Start, Loop!Run,
   PL!Run, Loop!LoadSeedFails, PL!LoadSeedFails, Loop!DefaultSeedFails,
   PL!DefaultSeedFails, Loop!AddToCorpusFails, PL!AddToCorpusFails, Loop!Kill,
   PL!Kill, Loop!Down, PL!Down, Loop!LoadSeed, PL!LoadSeed, Loop!SeedsLoaded,
   PL!SeedsLoaded, Loop!DefaultSeedAdded, PL!DefaultSeedAdded, Loop!Register,
   PL!Register, Loop!Schedule, PL!Schedule, Loop!Skip, PL!Skip, Loop!Execute,
   PL!Execute, Loop!PreExec, PL!PreExec, Loop!GiveUp, PL!GiveUp, Loop!Decide,
   PL!Decide, Loop!PostExec, PL!PostExec, Loop!Return, PL!Return,
   Loop!NotInteresting, PL!NotInteresting, Loop!AddToCorpus, PL!AddToCorpus,
   Loop!NoBug, PL!NoBug, Loop!BugAdded, PL!BugAdded, Loop!Finish, PL!Finish,
   Loop!Fault, PL!Fault, Loop!Add, PL!Add, Loop!AddFails, PL!AddFails,
   Loop!Reset, PL!Reset, Loop!IsInteresting, PL!IsInteresting, Loop!Keep,
   PL!Keep, Loop!IterationEnds, PL!IterationEnds, Loop!corpus, PL!corpus,
   Loop!executor, PL!executor, Loop!bounds, PL!bounds, Loop!Corpus!Open,
   PL!Corpus!Open, Loop!Corpus!Close, PL!Corpus!Close, Loop!Corpus!Add,
   PL!Corpus!Add, Loop!Corpus!Lookup, PL!Corpus!Lookup, Loop!Corpus!NoAnswer,
   PL!Corpus!NoAnswer, Loop!Corpus!Answer, PL!Corpus!Answer, Loop!Corpus!Entry,
   PL!Corpus!Entry, Loop!Executor!Execute, PL!Executor!Execute,
   Loop!Executor!Prepare, PL!Executor!Prepare, Loop!Executor!GiveUp,
   PL!Executor!GiveUp, Loop!Executor!Decide, PL!Executor!Decide,
   Loop!Executor!Tell, PL!Executor!Tell, Loop!Executor!Return,
   PL!Executor!Return

\* The index of an entry that main reads is one that OnDiskCorpus may be asked
\* for.
LEMMA ReadIds ==
  ASSUME PD!Inv, Learning, step = "register", learned < Len(stems)
  PROVE  learned \in 0 .. Len(stems) - 1 /\ learned \in PD!IdArg
<1>1. Len(stems) <= MaxEntries /\ Len(stems) \in Nat
  BY PDAssumption, PD!LengthBound DEF PD!Inv, PD!TypeOK
<1> QED
  BY <1>1, ConstantsAssumption DEF Learning, PD!IdArg

\* What main does with its corpus is what OnDiskCorpus may be asked to do.
LEMMA DiskStep ==
  ASSUME PD!Inv, Calling, Learning, [Next]_vars
  PROVE  [PD!Next]_PD!vars
<1> USE DiskSame, SameDisk DEF PD!Next
<1>1. CASE Start \/ StartFails
  BY <1>1 DEF Start, StartFails
<1>2. CASE CallGoesOn
  BY <1>2 DEF CallGoesOn
<1>3. CASE NewReturns \/ SeedAdded \/ DefaultSeedAdded \/ FeedbackAdded \/ CrashAdded
  BY <1>3 DEF NewReturns, SeedAdded, DefaultSeedAdded, FeedbackAdded,
     CrashAdded, AddReturns, PD!CallEnds
<1>4. CASE LoadSeeds \/ LoadSeedsFails \/ SeedsLoaded
  BY <1>4 DEF LoadSeeds, LoadSeedsFails, SeedsLoaded
<1>5. CASE AddDefaultSeed \/ Feedback \/ Oracle
  BY <1>5 DEF AddDefaultSeed, Feedback, Oracle
<1>6. CASE Register
  <2>1. learned \in PD!IdArg /\ PD!Lookup(learned)
    BY <1>6, ReadIds DEF Register
  <2>2. PD!Idle
    BY <1>6 DEF Register, Calling, PD!Idle
  <2> QED
    BY <2>1, <2>2 DEF PD!Get
<1>7. CASE GetSelected
  <2>1. PICK a \in found : PD!Lookup(a.id)
    BY <1>7 DEF GetSelected
  <2>2. PD!Idle
    BY <1>7 DEF GetSelected, Calling, PD!Idle
  <2>3. a.id \in PD!IdArg
    BY ConstantsAssumption DEF PD!Inv, PD!TypeOK, PD!Item, PD!Stem, PD!IdArg
  <2> QED
    BY <2>1, <2>2, <2>3 DEF PD!Get
<1>8. CASE Schedule
  BY <1>8 DEF Schedule
<1>9. CASE Registered \/ Execute \/ Executing \/ Target \/ UNCHANGED vars
  BY <1>9 DEF Registered, Execute, Executing, Target, vars
<1>10. CASE Finish \/ Kill
  BY <1>10 DEF Finish, Kill
<1> QED
  BY <1>1, <1>2, <1>3, <1>4, <1>5, <1>6, <1>7, <1>8, <1>9, <1>10 DEF Next, Run

\* Nor does it ask more of its executor; a process that ends leaves one that
\* has not been used.
LEMMA ExecStep ==
  ASSUME PX!Inv, [Next]_vars
  PROVE  [PX!Next]_PX!vars \/ PX!Fresh'
<1> USE ExecSame, SameExec DEF PX!Next, PX!Proceed
<1>1. CASE Finish \/ Kill
  <2>1. Down
    BY <1>1 DEF Finish, Kill
  <2>2. mode \in Modes /\ execFaults \in 0 .. MaxExecFaults
    BY DEF PX!Inv, PX!TypeOK
  <2> QED
    BY <2>1, <2>2 DEF Down, PX!Fresh
<1>2. CASE Execute \/ Target
  BY <1>2 DEF Execute, Target
<1>3. CASE Executing
  BY <1>3 DEF Executing
<1>4. CASE Start \/ StartFails \/ CallGoesOn \/ NewReturns \/ SeedAdded \/ DefaultSeedAdded
             \/ FeedbackAdded \/ CrashAdded
  BY <1>4 DEF Start, StartFails, CallGoesOn, NewReturns, SeedAdded,
     DefaultSeedAdded, FeedbackAdded, CrashAdded, AddReturns
<1>5. CASE LoadSeeds \/ LoadSeedsFails \/ SeedsLoaded \/ AddDefaultSeed \/ Register
             \/ Registered \/ Schedule \/ GetSelected \/ Feedback \/ Oracle
             \/ UNCHANGED vars
  BY <1>5 DEF LoadSeeds, LoadSeedsFails, SeedsLoaded, AddDefaultSeed, Register,
     Registered, Schedule, GetSelected, Feedback, Oracle, vars
<1> QED
  BY <1>1, <1>2, <1>3, <1>4, <1>5 DEF Next, Run

\* An executor that has not been used satisfies its invariant.
LEMMA FreshExec == PX!Fresh' => PX!Inv'
<1>1. PX!Fresh => PX!Inv
  BY PXAssumption, PX!FreshInv
<1> QED
  BY <1>1, PTL

\* The invariants of the corpus and the executor hold of a campaign's.
LEMMA CallInvStep ==
  ASSUME CallInv, Calling, Learning, [Next]_vars
  PROVE  CallInv'
<1>1. (PD!Inv /\ PD!Stored)'
  BY DiskStep, PDAssumption, PD!InvInductive, PD!StepStored DEF CallInv
<1>2. (PX!Inv /\ PX!EndKnown)'
  <2>1. CASE [PX!Next]_PX!vars
    BY <2>1, PXAssumption, PX!InvStep, PX!EndKnownStep DEF CallInv, PX!Inv
  <2>2. CASE PX!Fresh'
    BY <2>2, FreshExec DEF PX!Fresh, PX!EndKnown
  <2> QED
    BY <2>1, <2>2, ExecStep DEF CallInv
<1> QED
  BY <1>1, <1>2 DEF CallInv

-----------------------------------------------------------------------------
(* The calls of the corpus                                                 *)

\* What main has of its corpus is what the calls that returned have made of it.
LEMMA EntriesAreReturned ==
  LoopEntries = PD!Returned /\ LoopEntries' = PD!Returned'
BY DEF LoopEntries, PD!Returned, Disk!Up, PD!Up, Disk!Entries, PD!Entries,
       Disk!View, PD!View, Disk!Acknowledged, PD!Acknowledged

\* A call that ends at any step but "new" is the add this step waits for.
LEMMA AddEnds ==
  ASSUME CallInv, CallInv', Calling, step # "new", CallEnds
  PROVE  LET e == [input |-> op.input, descr |-> op.descr]
         IN  /\ op.call = "add" /\ AddAsked
             /\ e \in PD!Contract!Entry
             /\ diskPc # "idle" /\ diskPc' = "idle" /\ op' = PD!NoOp
             /\ UNCHANGED found
             /\ seeding' \in {seeding, FALSE}
             /\ \/ /\ result' = "ok"
                   /\ LoopEntries' = Append(LoopEntries, e)
                   /\ diskFaults' \in {diskFaults, diskFaults + 1}
                \/ /\ result' = "err" /\ seeding' = FALSE
                   /\ diskFaults' = diskFaults + 1
                   /\ LoopEntries' \in {LoopEntries, Append(LoopEntries, e)}
<1>1. PD!CallEnds
  BY DiskSame
<1>2. op.call = "add" /\ diskPc # "idle"
  <2>1. diskPc \in {"create", "write", "truncate", "flush"}
    BY <1>1 DEF PD!CallEnds, PD!FlushIndex, PD!FlushLost, PD!CreateInputFails,
       PD!WriteInputFails, PD!TruncateFails, PD!FlushFails
  <2>2. op # PD!NoOp /\ op # PD!NewOp
    BY <2>1 DEF CallInv, PD!Inv, PD!CallState, Calling, PD!NoOp
  <2> QED
    BY <2>1, <2>2 DEF CallInv, PD!Inv, PD!TypeOK
<1>3. /\ UNCHANGED found
      /\ seeding' \in {seeding, FALSE}
      /\ result' = "err" => seeding' = FALSE
      /\ diskFaults' \in {diskFaults, diskFaults + 1}
  BY <1>1 DEF PD!CallEnds, PD!FlushIndex, PD!FlushLost, PD!CreateInputFails,
     PD!WriteInputFails, PD!TruncateFails, PD!FlushFails, PD!ReturnOk,
     PD!ReturnErr, PD!Fault, PD!caller, PD!bounds
<1> DEFINE e == [input |-> op.input, descr |-> op.descr]
<1>4. /\ e \in PD!Contract!Entry
      /\ diskPc' = "idle" /\ op' = PD!NoOp
      /\ \/ result' = "ok" /\ PD!Returned' = Append(PD!Returned, e)
         \/ /\ result' = "err" /\ diskFaults' = diskFaults + 1
            /\ PD!Returned' \in {PD!Returned, Append(PD!Returned, e)}
  BY <1>1, <1>2, PDAssumption, PD!AddEnds DEF CallInv
<1>5. AddAsked
  BY <1>2 DEF Calling
<1> HIDE DEF e
<1>6. /\ e \in PD!Contract!Entry
      /\ \/ /\ result' = "ok"
            /\ LoopEntries' = Append(LoopEntries, e)
            /\ diskFaults' \in {diskFaults, diskFaults + 1}
         \/ /\ result' = "err" /\ seeding' = FALSE
            /\ diskFaults' = diskFaults + 1
            /\ LoopEntries' \in {LoopEntries, Append(LoopEntries, e)}
  BY <1>3, <1>4, EntriesAreReturned
<1> QED
  BY <1>2, <1>3, <1>4, <1>5, <1>6 DEF e

\* A new that ends leaves an empty corpus, or no process.
LEMMA NewEnds ==
  ASSUME CallInv, CallInv', Calling, step = "new", CallEnds
  PROVE  /\ LoopEntries' = LoopEntries
         /\ op' = PD!NoOp /\ ~seeding'
         /\ diskFaults' \in {diskFaults, diskFaults + 1}
         /\ result' \in {"ok", "err"}
         /\ diskPc' = IF result' = "ok" THEN "idle" ELSE "down"
<1>1. PD!CallEnds
  BY DiskSame
<1>2. /\ seeding' \in {seeding, FALSE}
      /\ diskFaults' \in {diskFaults, diskFaults + 1}
  BY <1>1 DEF PD!CallEnds, PD!FlushIndex, PD!FlushLost, PD!CreateInputFails,
     PD!WriteInputFails, PD!TruncateFails, PD!FlushFails, PD!ReturnOk,
     PD!ReturnErr, PD!Fault, PD!bounds
<1>3. ~seeding'
  BY <1>2 DEF Calling
<1>4. /\ PD!Returned' = PD!Returned
      /\ op' = PD!NoOp
      /\ result' \in {"ok", "err"}
      /\ diskPc' = IF result' = "ok" THEN "idle" ELSE "down"
  BY <1>1, PDAssumption, PD!NewEnds DEF CallInv, Calling
<1> QED
  BY <1>2, <1>3, <1>4, EntriesAreReturned

\* An add that begins or goes on leaves the corpus as it is, for now.
LEMMA CallsKeepEntries ==
  ASSUME CallInv, CallInv',
         \/ Disk!AddCall \/ Disk!SeedNext
         \/ Disk!CreateInput \/ Disk!WriteInput \/ Disk!TruncateIndex
         \/ Disk!LoadSeeds \/ Disk!SeedsDone \/ Disk!SeedsFail
         \/ Disk!OpenLoad \/ Disk!OpenFresh \/ Disk!OpenFails
         \/ UNCHANGED disk
  PROVE  LoopEntries' = LoopEntries
<1>1. CASE \/ Disk!AddCall \/ Disk!SeedNext
           \/ Disk!CreateInput \/ Disk!WriteInput \/ Disk!TruncateIndex
           \/ Disk!LoadSeeds \/ Disk!SeedsDone \/ Disk!SeedsFail
  BY <1>1, DiskSame, PDAssumption, PD!CallGoesOn, EntriesAreReturned DEF
     CallInv
<1>2. CASE Disk!OpenLoad \/ Disk!OpenFresh \/ Disk!OpenFails
  BY <1>2, DiskSame, PDAssumption, PD!Opens, EntriesAreReturned DEF CallInv
<1>3. CASE UNCHANGED disk
  BY <1>3 DEF disk, LoopEntries, Disk!Up, Disk!Entries, Disk!View,
     Disk!Acknowledged
<1> QED
  BY <1>1, <1>2, <1>3

\* A process that ends leaves entries from the front.
LEMMA EndLeavesPrefix ==
  ASSUME CallInv, Finish \/ Kill
  PROVE  \E n \in 0 .. Len(LoopEntries) : LoopEntries' = SubSeq(LoopEntries, 1, n)
<1>1. Disk!Exit \/ Disk!Crash
  BY DEF Finish, Kill
<1> QED
  BY <1>1, DiskSame, PDAssumption, PD!Closes, EntriesAreReturned DEF CallInv

\* main reads the entry that it asks for, or a read fails.
LEMMA ReadsEntry ==
  ASSUME CallInv, CallInv', diskPc = "idle", NEW id \in 0 .. Len(stems) - 1,
         Disk!Lookup(id)
  PROVE  LET e == LoopEntries[id + 1]
         IN  /\ LoopEntries' = LoopEntries
             /\ Len(LoopEntries) = Len(stems)
             /\ cache' = found'
             /\ UNCHANGED <<diskPc, op, seeding, files, stems>>
             /\ e.input = files[stems[id + 1]]
             /\ \/ /\ found' = {[id |-> id, input |-> e.input, descr |-> e.descr]}
                   /\ diskFaults' = diskFaults
                \/ found' = {} /\ diskFaults' = diskFaults + 1
<1>1. PD!Lookup(id) /\ UNCHANGED <<diskPc, op, seeding, files, stems>>
  BY DiskSame DEF PD!Lookup, PD!disk
<1>2. /\ PD!Returned' = PD!Returned
      /\ cache' = found'
      /\ \/ /\ found' = {[id    |-> id,
                          input |-> PD!Returned[id + 1].input,
                          descr |-> PD!Returned[id + 1].descr]}
            /\ diskFaults' = diskFaults
         \/ found' = {} /\ diskFaults' = diskFaults + 1
  BY <1>1, PDAssumption, PD!LookupAnswers DEF CallInv
<1>3. PD!ReturnedOfMemory /\ PD!Acknowledged = Len(stems)
  BY PDAssumption, PD!ReturnedUp, PD!ReturnedIdle DEF CallInv, PD!Up
<1>4. /\ Len(PD!Returned) = Len(stems)
      /\ PD!Returned[id + 1] = [input |-> files[stems[id + 1]], descr |-> metadata[stems[id + 1]]]
  BY <1>3 DEF PD!ReturnedOfMemory
<1> QED
  BY <1>1, <1>2, <1>4, EntriesAreReturned

AddEnded == SeedAdded \/ DefaultSeedAdded \/ FeedbackAdded \/ CrashAdded

\* The state of the corpus's calls after an add.
LEMMA AddLeaves ==
  ASSUME CallInv, CallInv', Calling, AddEnded
  PROVE  /\ AddAsked /\ AddReturns
         /\ diskPc # "down" /\ diskPc' = "idle" /\ op' = PD!NoOp
         /\ seeding' = FALSE \/ (seeding' = seeding /\ result' = "ok")
         /\ result' \in {"ok", "err"}
         /\ diskFaults' \in {diskFaults, diskFaults + 1}
         /\ result' = "err" => diskFaults' = diskFaults + 1
<1>1. step # "new" /\ step # "down" /\ AddReturns /\ CallEnds
  BY DEF AddEnded, SeedAdded, DefaultSeedAdded, FeedbackAdded, CrashAdded,
     AddReturns
<1>2. diskPc # "down"
  BY <1>1 DEF Calling
<1> QED
  BY <1>1, <1>2, AddEnds
\* What main has in memory begins anew with every process.
LEMMA MemoryStep ==
  ASSUME Memory, [Next]_vars
  PROVE  Memory'
<1> USE DEF Memory, Booting, memory, past, executor
<1>1. CASE Start
  BY <1>1 DEF Start
<1>2. CASE StartFails
  BY <1>2 DEF StartFails
<1>3. CASE CallGoesOn
  BY <1>3 DEF CallGoesOn
<1>4. CASE NewReturns
  BY <1>4 DEF NewReturns
<1>5. CASE SeedAdded
  BY <1>5 DEF SeedAdded, AddReturns
<1>6. CASE DefaultSeedAdded
  BY <1>6 DEF DefaultSeedAdded, AddReturns
<1>7. CASE FeedbackAdded
  BY <1>7 DEF FeedbackAdded, AddReturns
<1>8. CASE CrashAdded
  BY <1>8 DEF CrashAdded, AddReturns
<1>9. CASE LoadSeeds
  BY <1>9 DEF LoadSeeds
<1>10. CASE LoadSeedsFails
  BY <1>10 DEF LoadSeedsFails
<1>11. CASE SeedsLoaded
  BY <1>11 DEF SeedsLoaded
<1>12. CASE AddDefaultSeed
  BY <1>12 DEF AddDefaultSeed
<1>13. CASE Register
  BY <1>13 DEF Register
<1>14. CASE Registered
  BY <1>14 DEF Registered
<1>15. CASE Schedule
  BY <1>15 DEF Schedule
<1>16. CASE GetSelected
  BY <1>16 DEF GetSelected
<1>17. CASE Execute
  BY <1>17 DEF Execute
<1>18. CASE Executing
  BY <1>18 DEF Executing
<1>19. CASE Target
  BY <1>19 DEF Target, Exec!Target, Exec!observers
<1>20. CASE Feedback
  BY <1>20 DEF Feedback
<1>21. CASE Oracle
  BY <1>21 DEF Oracle
<1>22. CASE Finish
  BY <1>22 DEF Finish, Down
<1>23. CASE Kill
  BY <1>23 DEF Kill, Down
<1>24. CASE UNCHANGED vars
  BY <1>24 DEF vars
<1> QED
  BY <1>1, <1>2, <1>3, <1>4, <1>5, <1>6, <1>7, <1>8, <1>9, <1>10, <1>11, <1>12,
     <1>13, <1>14, <1>15, <1>16, <1>17, <1>18, <1>19, <1>20, <1>21, <1>22,
     <1>23, <1>24 DEF Next, Run

\* Every call of the corpus is one its step waits for.
LEMMA CallingStep ==
  ASSUME CallInv, CallInv', Calling, Memory, [Next]_vars
  PROVE  Calling'
<1> USE DEF Calling, AddAsked, Booting, memory, past, disk, PD!disk, PD!memory,
   PD!caller, PD!bounds, PD!NewOp, PD!NoOp
<1>1. CASE Start
  BY <1>1, DiskSame DEF Start, PD!OpenLoad, PD!OpenFresh, CallInv, PD!Inv,
     PD!CallState, executor
<1>2. CASE StartFails
  BY <1>2, DiskSame DEF StartFails, PD!OpenFails, executor
<1>3. CASE CallGoesOn
  BY <1>3, DiskSame DEF CallGoesOn, PD!CreateInput, PD!WriteInput,
     PD!TruncateIndex, executor
<1>4. CASE NewReturns
  BY <1>4, NewEnds DEF NewReturns, executor
<1>5. CASE SeedAdded
  <2>1. /\ diskPc # "down" /\ diskPc' = "idle" /\ op' = PD!NoOp
        /\ seeding' = FALSE \/ (seeding' = seeding /\ result' = "ok")
    BY <1>5, AddLeaves DEF AddEnded
  <2>2. op' # PD!NewOp /\ op'.call # "add"
    BY <2>1
  <2> QED
    BY <1>5, <2>1, <2>2 DEF SeedAdded, AddReturns, executor
<1>6. CASE DefaultSeedAdded
  <2>1. /\ diskPc # "down" /\ diskPc' = "idle" /\ op' = PD!NoOp
        /\ seeding' = FALSE \/ (seeding' = seeding /\ result' = "ok")
    BY <1>6, AddLeaves DEF AddEnded
  <2>2. op' # PD!NewOp /\ op'.call # "add"
    BY <2>1
  <2> QED
    BY <1>6, <2>1, <2>2 DEF DefaultSeedAdded, AddReturns, executor
<1>7. CASE FeedbackAdded
  <2>1. /\ diskPc # "down" /\ diskPc' = "idle" /\ op' = PD!NoOp
        /\ seeding' = FALSE \/ (seeding' = seeding /\ result' = "ok")
    BY <1>7, AddLeaves DEF AddEnded
  <2>2. op' # PD!NewOp /\ op'.call # "add"
    BY <2>1
  <2> QED
    BY <1>7, <2>1, <2>2 DEF FeedbackAdded, AddReturns, executor
<1>8. CASE CrashAdded
  <2>1. /\ diskPc # "down" /\ diskPc' = "idle" /\ op' = PD!NoOp
        /\ seeding' = FALSE \/ (seeding' = seeding /\ result' = "ok")
    BY <1>8, AddLeaves DEF AddEnded
  <2>2. op' # PD!NewOp /\ op'.call # "add"
    BY <2>1
  <2> QED
    BY <1>8, <2>1, <2>2 DEF CrashAdded, AddReturns, executor
<1>9. CASE LoadSeeds
  BY <1>9, DiskSame DEF LoadSeeds, PD!LoadSeeds, PD!SeedNext, PD!StartAdd,
     PD!AddOp, Calls, executor
<1>10. CASE LoadSeedsFails
  BY <1>10, DiskSame DEF LoadSeedsFails, PD!SeedsFail, PD!SeedsReturn, CallInv,
     PD!Inv, PD!CallState, executor
<1>11. CASE SeedsLoaded
  BY <1>11, DiskSame DEF SeedsLoaded, PD!SeedsDone, PD!SeedsReturn, CallInv,
     PD!Inv, PD!CallState, executor
<1>12. CASE AddDefaultSeed
  <2>1. CASE stems = <<>>
    <3>1. op' = PD!AddOp(0, DefaultSeed, "default") /\ diskPc' = "create" /\ diskPc = "idle" /\ ~seeding'
      BY <1>12, <2>1, DiskSame DEF AddDefaultSeed, PD!AddCall, PD!StartAdd,
         PD!AddOp, PD!NewId, PD!Idle, Calls
    <3>2. /\ op'.id = 0 /\ op'.input = DefaultSeed /\ op'.descr = "default" /\ op' # PD!NewOp
      BY <3>1 DEF PD!AddOp
    <3> QED
      BY <1>12, <2>1, <3>1, <3>2 DEF AddDefaultSeed, executor
  <2>2. CASE stems # <<>>
    BY <1>12, <2>2 DEF AddDefaultSeed, Disk!Idle, CallInv, PD!Inv,
       PD!CallState, executor
  <2> QED
    BY <2>1, <2>2
<1>13. CASE Register
  BY <1>13, DiskSame DEF Register, PD!Lookup, executor
<1>14. CASE Registered
  BY <1>14 DEF Registered, executor
<1>15. CASE Schedule
  BY <1>15, DiskSame DEF Schedule, PD!RandomSelect, PD!Lookup, executor
<1>16. CASE GetSelected
  BY <1>16, DiskSame DEF GetSelected, PD!Lookup, executor
<1>17. CASE Execute
  BY <1>17, ExecSame DEF Execute, PX!Execute
<1>18. CASE Executing
  BY <1>18 DEF Executing
<1>19. CASE Target
  BY <1>19, ExecSame DEF Target, PX!Target, PX!observers
<1>20. CASE Feedback
  <2>1. CASE Loop!Keep
    <3>1. diskPc' = "create" /\ diskPc = "idle" /\ ~seeding'
      BY <1>20, <2>1, DiskSame DEF Feedback, PD!AddCall, PD!StartAdd, PD!Idle
    <3>2. /\ op'.input = mutated /\ op'.descr = "feedback" /\ op' # PD!NewOp
      BY <1>20, <2>1, DiskSame DEF Feedback, PD!AddCall, PD!StartAdd, PD!AddOp,
         Calls
    <3>3. op.call # "add"
      BY <3>1 DEF CallInv, PD!Inv, PD!CallState
    <3>4. feedback = "MockBitmapCoverage" => obsHash # NoHash /\ obsHash \notin known
      BY <1>20, <2>1, <3>1 DEF Feedback, Loop!Keep, Loop!IsInteresting,
         LoopKnown, Adding
    <3> QED
      BY <1>20, <2>1, <3>1, <3>2, <3>4 DEF Feedback, executor
  <2>2. CASE ~Loop!Keep
    BY <1>20, <2>2 DEF Feedback, Disk!Idle, CallInv, PD!Inv, PD!CallState,
       executor
  <2> QED
    BY <2>1, <2>2
<1>21. CASE Oracle
  BY <1>21, DiskSame DEF Oracle, PD!AddCall, PD!StartAdd, PD!AddOp, PD!Idle,
     Disk!Idle, Calls, executor
<1>22. CASE Finish
  BY <1>22, DiskSame DEF Finish, Down, PD!Exit, PD!Crash, PD!Forget
<1>23. CASE Kill
  BY <1>23, DiskSame DEF Kill, Down, PD!Exit, PD!Crash, PD!Forget
<1>24. CASE UNCHANGED vars
  BY <1>24 DEF vars, executor
<1> QED
  BY <1>1, <1>2, <1>3, <1>4, <1>5, <1>6, <1>7, <1>8, <1>9, <1>10, <1>11, <1>12,
     <1>13, <1>14, <1>15, <1>16, <1>17, <1>18, <1>19, <1>20, <1>21, <1>22,
     <1>23, <1>24 DEF Next, Run

\* A step counts at most one failing operation.
LEMMA FaultsGrow ==
  ASSUME PD!Inv, Calling, Learning, [Next]_vars
  PROVE  diskFaults \in Nat /\ diskFaults' \in {diskFaults, diskFaults + 1}
<1>1. [PD!Next]_PD!vars
  BY DiskStep
<1>2. diskFaults \in Nat
  BY PDAssumption DEF PD!Inv, PD!TypeOK, PD!ConstantsAssumption
<1>3. diskFaults' \in {diskFaults, diskFaults + 1}
  BY <1>1 DEF PD!Next, PD!vars, PD!bounds, PD!OpenLoad, PD!OpenFresh,
     PD!OpenFails, PD!AddCall, PD!SeedNext, PD!StartAdd, PD!CreateInput,
     PD!CreateInputFails, PD!WriteInput, PD!WriteInputFails, PD!TruncateIndex,
     PD!TruncateFails, PD!FlushIndex, PD!FlushLost, PD!FlushFails,
     PD!LoadSeeds, PD!SeedsDone, PD!SeedsFail, PD!SeedsReturn, PD!Get,
     PD!RandomSelect, PD!RandomSelectEmpty, PD!Lookup, PD!GetHit, PD!GetMiss,
     PD!GetFails, PD!Exit, PD!Crash, PD!Forget, PD!Fault
<1> QED
  BY <1>2, <1>3

\* Entry after entry is known or noted as unread.
LEMMA LearningStep ==
  ASSUME CallInv, CallInv', Memory, Calling, Learning, [Next]_vars
  PROVE  Learning'
<1> SUFFICES ASSUME step' = "register" PROVE Learning'
  BY DEF Learning
<1>1. CASE Register
  <2>1. learned \in 0 .. Len(stems) - 1 /\ step = "register" /\ diskPc = "idle"
    BY <1>1, ReadIds DEF Register, CallInv, Calling
  <2>2. PICK missing \in SUBSET (1 .. learned) :
          /\ known = {LoopEntries[k].input : k \in (1 .. learned) \ missing}
          /\ unread = {LoopEntries[k].input : k \in missing}
    BY <2>1 DEF Learning
  <2> DEFINE e == LoopEntries[learned + 1]
  <2>3. /\ LoopEntries' = LoopEntries /\ UNCHANGED stems
        /\ e.input = files[stems[learned + 1]]
        /\ \/ found' = {[id |-> learned, input |-> e.input, descr |-> e.descr]}
           \/ found' = {}
    BY <1>1, <2>1, ReadsEntry DEF Register
  <2>4. /\ learned' = learned + 1 /\ learned' \in 0 .. Len(stems) /\ learned \in Nat
        /\ (1 .. learned') = (1 .. learned) \cup {learned + 1}
        /\ learned + 1 \notin 1 .. learned
    BY <1>1, <2>1 DEF Register
  <2>5. CASE found' = {}
    <3>1. known' = known /\ unread' = unread \cup {e.input}
      BY <1>1, <2>3, <2>5 DEF Register
    <3>2. /\ known' = {LoopEntries'[k].input : k \in (1 .. learned') \ (missing \cup {learned + 1})}
          /\ unread' = {LoopEntries'[k].input : k \in missing \cup {learned + 1}}
      BY <2>2, <2>3, <2>4, <3>1
    <3> QED
      BY <2>2, <2>3, <2>4, <3>2 DEF Learning
  <2>6. CASE found' = {[id |-> learned, input |-> e.input, descr |-> e.descr]}
    <3>1. known' = known \cup {e.input} /\ unread' = unread
      BY <1>1, <2>6 DEF Register
    <3>2. /\ known' = {LoopEntries'[k].input : k \in (1 .. learned') \ missing}
          /\ unread' = {LoopEntries'[k].input : k \in missing}
      BY <2>2, <2>3, <2>4, <3>1
    <3> QED
      BY <2>2, <2>3, <2>4, <3>2 DEF Learning
  <2> QED
    BY <2>3, <2>5, <2>6
<1>2. CASE DefaultSeedAdded \/ AddDefaultSeed
  <2>1. learned' = 0 /\ known' = {} /\ unread' = {}
    BY <1>2 DEF DefaultSeedAdded, AddReturns, AddDefaultSeed, Memory, Booting,
       memory
  <2>2. 0 \in 0 .. Len(stems')
    BY PDAssumption DEF CallInv, PD!Inv, PD!TypeOK
  <2> DEFINE inputs(S) == {LoopEntries'[k].input : k \in S}
  <2>3. {} \in SUBSET (1 .. 0) /\ (1 .. 0) \ {} = {}
    OBVIOUS
  <2>4. inputs({}) = {}
    OBVIOUS
  <2>5. known' = inputs((1 .. 0) \ {}) /\ unread' = inputs({})
    BY <2>1, <2>3, <2>4
  <2>6. \E missing \in SUBSET (1 .. 0) :
          known' = inputs((1 .. 0) \ missing) /\ unread' = inputs(missing)
    BY <2>3, <2>5
  <2> QED
    BY <2>1, <2>2, <2>6 DEF Learning
<1>3. CASE Target \/ UNCHANGED vars
  <2>1. UNCHANGED disk /\ UNCHANGED <<step, memory>>
    BY <1>3 DEF Target, vars
  <2>2. LoopEntries' = LoopEntries
    BY <2>1, CallsKeepEntries
  <2> QED
    BY <2>1, <2>2 DEF Learning, memory, disk
<1>4. CASE StartFails \/ CallGoesOn
  BY <1>4, DiskSame DEF StartFails, CallGoesOn, Calling, PD!CreateInput,
     PD!WriteInput, PD!TruncateIndex
<1> QED
  BY <1>1, <1>2, <1>3, <1>4 DEF Next, Run, Start, NewReturns, SeedAdded,
     FeedbackAdded, CrashAdded, LoadSeeds, LoadSeedsFails, SeedsLoaded,
     Registered, Schedule, GetSelected, Execute, Executing, Feedback, Oracle,
     Finish, Kill, Down

\* The answer of the scheduler is still in the cache when main asks for it.
LEMMA ScheduledStep ==
  ASSUME CallInv, CallInv', Calling, Scheduled, [Next]_vars
  PROVE  Scheduled'
<1> SUFFICES ASSUME step' = "get" PROVE Scheduled'
  BY DEF Scheduled
<1>1. CASE Schedule
  <2>1. found' # {} /\ diskPc = "idle"
    BY <1>1 DEF Schedule, Calling
  <2>2. PICK id \in 0 .. Len(stems) - 1 : Disk!Lookup(id)
    BY <1>1 DEF Schedule, Disk!RandomSelect
  <2>3. cache' = found'
    BY <2>1, <2>2, ReadsEntry
  <2> QED
    BY <2>1, <2>3 DEF Scheduled
<1>2. CASE Target \/ UNCHANGED vars
  BY <1>2 DEF Target, vars, disk, Scheduled
<1>3. CASE StartFails \/ CallGoesOn
  BY <1>3, DiskSame DEF StartFails, CallGoesOn, Calling, PD!CreateInput,
     PD!WriteInput, PD!TruncateIndex
<1> QED
  BY <1>1, <1>2, <1>3 DEF Next, Run, Start, NewReturns, SeedAdded,
     DefaultSeedAdded, FeedbackAdded, CrashAdded, LoadSeeds, LoadSeedsFails,
     SeedsLoaded, AddDefaultSeed, Register, Registered, GetSelected, Execute,
     Executing, Feedback, Oracle, Finish, Kill, Down

\* main may skip its seed files up to MaxDiskFaults times in all.  Every other
\* call that it counts as failed has met a failing operation; of its reads that
\* fail while it registers the corpus it counts one.
LEMMA BudgetStep ==
  ASSUME CallInv, CallInv', Memory, Calling, Learning, Budget, [Next]_vars
  PROVE  Budget'
<1>1. diskFaults \in Nat /\ (diskFaults' = diskFaults \/ diskFaults' = diskFaults + 1) /\ MaxDiskFaults \in Nat
  BY FaultsGrow, ConstantsAssumption DEF CallInv
<1>2. CASE AddEnded
  <2>1. UNCHANGED unread /\ unread = {}
    BY <1>2 DEF AddEnded, SeedAdded, DefaultSeedAdded, FeedbackAdded,
       CrashAdded, AddReturns, Memory
  <2>2. failed' = IF result' = "ok" THEN failed ELSE failed + 1
    BY <1>2 DEF AddEnded, SeedAdded, DefaultSeedAdded, FeedbackAdded,
       CrashAdded, AddReturns
  <2>3. result' # "ok" => diskFaults' = diskFaults + 1
    BY <1>2, AddLeaves
  <2> QED
    BY <1>1, <2>1, <2>2, <2>3 DEF Budget
<1>3. CASE Register
  <2>1. UNCHANGED failed
    BY <1>3 DEF Register, past
  <2>2. learned \in 0 .. Len(stems) - 1 /\ diskPc = "idle" /\ Disk!Lookup(learned)
    BY <1>3, ReadIds DEF Register, CallInv, Calling
  <2>3. unread' = {} => unread = {}
    BY <1>3 DEF Register
  <2>4. found' = {} => diskFaults' = diskFaults + 1
    BY <2>2, ReadsEntry
  <2>5. found' # {} => unread' = unread
    BY <1>3 DEF Register
  <2> QED
    BY <1>1, <2>1, <2>3, <2>4, <2>5 DEF Budget
<1>4. CASE Registered
  BY <1>1, <1>4 DEF Registered, Budget
<1>5. CASE LoadSeedsFails
  BY <1>1, <1>5 DEF LoadSeedsFails, Budget, Memory, memory
<1>6. CASE Finish \/ Kill
  BY <1>1, <1>6 DEF Finish, Kill, Down, Budget, past
<1>7. CASE UNCHANGED <<unread, failed>>
  BY <1>1, <1>7 DEF Budget
<1> QED
  BY <1>2, <1>3, <1>4, <1>5, <1>6, <1>7 DEF Next, Run, Start, StartFails,
     CallGoesOn, NewReturns, AddEnded, LoadSeeds, SeedsLoaded, AddDefaultSeed,
     Schedule, GetSelected, Execute, Executing, Target, Feedback, Oracle,
     memory, past, vars

\* The observer's data and the feedback's verdict rest on post_exec.
LEMMA ToldStep ==
  ASSUME CallInv, CallInv', Calling, Told, [Next]_vars
  PROVE  Told'
<1>1. op.call # "add" \/ step \in {"seeds", "default", "feedback", "oracle"}
  BY DEF Calling, AddAsked
<1>2. CASE Executing
  <2>1. UNCHANGED op /\ UNCHANGED <<added, feedback>> /\ step' # "oracle" /\ step = "execute"
    BY <1>2 DEF Executing, disk, past
  <2>2. op'.call # "add"
    BY <1>1, <2>1
  <2>3. \/ obsHash' = NoHash
        \/ post' = post + 1 /\ post < 1
        \/ UNCHANGED <<obsHash, post>>
    BY <1>2, ExecSame DEF Executing, PX!PreExec, PX!PostExec, PX!Prepare,
       PX!Spawn, PX!WriteStdin, PX!CloseStdin, PX!BrokenPipe, PX!PollEnded,
       PX!PollBegins, PX!Look, PX!Delay, PX!PollSleeps, PX!Wake,
       PX!PollExpires, PX!Kill, PX!Reap, PX!Return, PX!PrepareFails,
       PX!SpawnFails, PX!WriteFails, PX!WaitFails, PX!Decide, PX!GiveUp, PX!observers
  <2>4. post \in 0 .. 1
    BY DEF CallInv, PX!Inv, PX!TypeOK
  <2> QED
    BY <2>1, <2>2, <2>3, <2>4 DEF Told
<1>3. CASE Feedback
  <2>1. CASE Loop!Keep
    <3>1. feedback = "MockBitmapCoverage" => obsHash # NoHash
      BY <2>1 DEF Loop!Keep, Loop!IsInteresting
    <3> QED
      BY <1>3, <2>1, <3>1 DEF Feedback, Told, executor, past
  <2>2. CASE ~Loop!Keep
    BY <1>3, <2>2 DEF Feedback, Told, executor, disk, past
  <2> QED
    BY <2>1, <2>2
<1>4. CASE FeedbackAdded
  <2>1. op'.call # "add"
    BY <1>4, AddLeaves DEF AddEnded, PD!NoOp
  <2>2. op.call = "add"
    BY <1>4, AddEnds DEF FeedbackAdded, AddReturns
  <2> QED
    BY <1>4, <2>1, <2>2 DEF FeedbackAdded, AddReturns, Told, executor, past
<1>5. CASE CallGoesOn \/ SeedAdded \/ DefaultSeedAdded \/ CrashAdded
  BY <1>5, DiskSame DEF CallGoesOn, SeedAdded, DefaultSeedAdded, CrashAdded,
     AddReturns, Told, executor, memory, past, PD!CreateInput, PD!WriteInput,
     PD!TruncateIndex
<1>6. CASE Oracle \/ Execute
  BY <1>6 DEF Oracle, Execute, Told, memory, past, executor
<1>7. CASE Target \/ UNCHANGED vars
  BY <1>7, ExecSame DEF Target, PX!Target, PX!observers, vars, memory, past,
     disk, executor, Told
<1>8. CASE step' \notin {"execute", "feedback", "oracle"}
  BY <1>8 DEF Told
<1> QED
  BY <1>2, <1>3, <1>4, <1>5, <1>6, <1>7, <1>8 DEF Next, Run, Start, StartFails,
     NewReturns, LoadSeeds, LoadSeedsFails, SeedsLoaded, AddDefaultSeed,
     Register, Registered, Schedule, GetSelected, Finish, Kill, Down

\* Inv is inductive.
LEMMA InvStep == Inv /\ [Next]_vars => Inv'
<1> SUFFICES ASSUME Inv, [Next]_vars PROVE Inv'
  OBVIOUS
<1>1. CallInv'
  BY CallInvStep DEF Inv
<1>2. Memory' /\ Calling' /\ Learning' /\ Scheduled' /\ Budget' /\ Told'
  BY <1>1, MemoryStep, CallingStep, LearningStep, ScheduledStep, BudgetStep,
     ToldStep DEF Inv
<1>3. feedback' \in Feedbacks /\ runs' \in 0 .. MaxRuns
  <2>1. feedback' = feedback /\ (runs' = runs \/ (runs' = runs + 1 /\ runs < MaxRuns))
    BY DEF Inv, Memory, Next, Run, Start, StartFails, CallGoesOn, NewReturns,
       SeedAdded, DefaultSeedAdded, FeedbackAdded, CrashAdded, AddReturns,
       LoadSeeds, LoadSeedsFails, SeedsLoaded, AddDefaultSeed, Register,
       Registered, Schedule, GetSelected, Execute, Executing, Target, Feedback,
       Oracle, Finish, Kill, Down, past, vars
  <2> QED
    BY <2>1, ConstantsAssumption DEF Inv
<1> QED
  BY <1>1, <1>2, <1>3 DEF Inv

-----------------------------------------------------------------------------
(* A campaign is a FuzzLoop                                                *)

LoopOpen  == step \notin {"down", "new"}
LoopFound == IF step \in {"get", "mutate"} THEN found ELSE {}
LoopBusy  == execPc # "idle"

\* What FuzzLoop sees, but for the corpus's entries and what the feedback knows.
Rest == <<feedback, LoopPc, seedsLeft, LoopOpen, LoopFound, missed, iter, mutated,
          LoopBusy, pre, post, status, obsHash, added, runs, failed>>

\* A step that FuzzLoop does not see.
LEMMA Stutters ==
  ASSUME UNCHANGED Rest, UNCHANGED LoopEntries, UNCHANGED LoopKnown
  PROVE  UNCHANGED Loop!vars
BY DEF Rest, LoopOpen, LoopFound, LoopBusy, Loop!vars, Loop!corpus,
   Loop!executor, Loop!bounds

\* Opening the corpus.
LEMMA StartRefines ==
  ASSUME Inv, Inv', Start \/ StartFails
  PROVE  Loop!Start \/ UNCHANGED Loop!vars
<1>1. LoopEntries' = LoopEntries
  BY CallsKeepEntries DEF Start, StartFails, Inv
<1>2. CASE Start /\ step' = "seeds"
  BY <1>1, <1>2 DEF Start, Inv, Calling, Loop!Start, Loop!Corpus!Open,
     Loop!executor, LoopPc, LoopKnown, executor
<1>3. CASE StartFails \/ (Start /\ step' = "new")
  <2>1. UNCHANGED LoopKnown /\ UNCHANGED Rest
    BY <1>3 DEF Start, StartFails, Rest, LoopPc, LoopOpen, LoopFound, LoopBusy,
       LoopKnown, memory, past, executor
  <2> QED
    BY <1>1, <2>1, Stutters
<1> QED
  BY <1>2, <1>3 DEF Start

\* A new that returns opens FuzzLoop's corpus if it succeeded.
LEMMA NewRefines ==
  ASSUME Inv, Inv', NewReturns
  PROVE  Loop!Start \/ UNCHANGED Loop!vars
<1>1. LoopEntries' = LoopEntries /\ result' \in {"ok", "err"}
  BY NewEnds DEF NewReturns, Inv
<1>2. CASE result' = "ok"
  BY <1>1, <1>2 DEF NewReturns, Inv, Memory, Loop!Start, Loop!Corpus!Open,
     Loop!executor, LoopPc, LoopKnown, executor
<1>3. CASE result' # "ok"
  <2>1. UNCHANGED LoopKnown /\ UNCHANGED Rest
    BY <1>3 DEF NewReturns, Rest, LoopPc, LoopOpen, LoopFound, LoopBusy,
       LoopKnown, executor
  <2> QED
    BY <1>1, <2>1, Stutters
<1> QED
  BY <1>2, <1>3

\* Steps of the corpus that FuzzLoop does not see.
LEMMA CallRefines ==
  ASSUME Inv, Inv', CallGoesOn \/ LoadSeeds
  PROVE  UNCHANGED Loop!vars
<1>1. LoopEntries' = LoopEntries
  BY CallsKeepEntries DEF CallGoesOn, LoadSeeds, Inv
<1>2. UNCHANGED <<step, memory, past, executor>>
  BY DEF CallGoesOn, LoadSeeds
<1>3. UNCHANGED Adding \/ step # "feedback"
  BY DiskSame DEF CallGoesOn, LoadSeeds, Adding, PD!CreateInput, PD!WriteInput,
     PD!TruncateIndex
<1>4. UNCHANGED LoopKnown
  BY <1>2, <1>3 DEF LoopKnown, memory
<1>5. UNCHANGED found \/ step \notin {"get", "mutate"}
  BY DiskSame DEF CallGoesOn, LoadSeeds, PD!CreateInput, PD!WriteInput,
     PD!TruncateIndex, PD!caller
<1>6. UNCHANGED Rest
  BY <1>2, <1>5 DEF Rest, LoopPc, LoopOpen, LoopFound, LoopBusy, memory, past,
     executor
<1> QED
  BY <1>1, <1>4, <1>6, Stutters

\* The arithmetic of the budget.
LEMMA Slack ==
  ASSUME NEW n \in Nat, NEW m \in Nat, NEW calls \in Nat, NEW d \in 0 .. n,
         calls + m <= d + n
  PROVE  calls <= 2 * n
OBVIOUS

\* The budget of FuzzLoop allows every call that fails.
LEMMA FaultAllowed ==
  ASSUME Inv, Inv', failed' = failed + 1
  PROVE  Loop!Fault
<1>1. diskFaults' \in 0 .. MaxDiskFaults
  BY DEF Inv, CallInv, PD!Inv, PD!TypeOK
<1>2. MaxDiskFaults \in Nat /\ failed \in Nat
  BY ConstantsAssumption DEF Inv, Budget
<1> DEFINE m == IF unread = {} THEN 0 ELSE 1
<1>3. m' \in Nat /\ failed' + m' <= diskFaults' + MaxDiskFaults /\ failed' \in Nat
  BY DEF Inv, Budget
<1> HIDE DEF m
<1>4. failed' <= 2 * MaxDiskFaults
  BY <1>1, <1>2, <1>3, Slack
<1>5. failed < 2 * MaxDiskFaults
  BY <1>2, <1>4
<1> QED
  BY <1>5 DEF Loop!Fault

\* An add that returns is an add of FuzzLoop, or one that fails.
LEMMA AddRefines ==
  ASSUME Inv, Inv', AddEnded
  PROVE  /\ AddAsked
         /\ \/ result' = "ok" /\ failed' = failed /\ Loop!Add(op.input, op.descr)
            \/ result' # "ok" /\ Loop!AddFails(op.input, op.descr)
<1> DEFINE e == [input |-> op.input, descr |-> op.descr]
<1>1. AddAsked /\ AddReturns
  BY AddLeaves DEF Inv
<1>2. /\ e \in PD!Contract!Entry
      /\ \/ result' = "ok" /\ LoopEntries' = Append(LoopEntries, e)
         \/ result' = "err" /\ LoopEntries' \in {LoopEntries, Append(LoopEntries, e)}
  BY AddEnds DEF Inv, AddEnded, SeedAdded, DefaultSeedAdded, FeedbackAdded,
     CrashAdded, AddReturns
<1>3. e \in Loop!Corpus!Entry
  BY <1>2 DEF PD!Contract!Entry, Loop!Corpus!Entry, Descrs
<1>4. /\ step \notin {"down", "new"} /\ step' \notin {"down", "new"}
      /\ step' \notin {"get", "mutate"}
  BY DEF AddEnded, SeedAdded, DefaultSeedAdded, FeedbackAdded, CrashAdded
<1> HIDE DEF e
<1>5. LoopEntries' = Append(LoopEntries, e) => Loop!Add(op.input, op.descr)
  <2> HAVE LoopEntries' = Append(LoopEntries, e)
  <2>1. Loop!Corpus!Add
    BY <1>3, <1>4 DEF Loop!Corpus!Add
  <2> QED
    BY <2>1 DEF Loop!Add, e
<1>6. LoopEntries' = LoopEntries => Loop!Corpus!NoAnswer
  BY <1>4 DEF Loop!Corpus!NoAnswer
<1>7. CASE result' = "ok"
  BY <1>1, <1>2, <1>5, <1>7 DEF AddReturns, e
<1>8. CASE result' # "ok"
  <2>1. Loop!Fault
    BY <1>1, <1>8, FaultAllowed DEF AddReturns
  <2>2. LoopEntries' = LoopEntries \/ LoopEntries' = Append(LoopEntries, e)
    BY <1>2, <1>8
  <2>3. Loop!Add(op.input, op.descr) \/ Loop!Corpus!NoAnswer
    BY <2>2, <1>5, <1>6
  <2> QED
    BY <1>1, <1>8, <2>1, <2>3 DEF Loop!AddFails
<1> QED
  BY <1>7, <1>8

\* The corpus is empty while its first entry is added, and only then once it is
\* open.
LEMMA NoneYet ==
  ASSUME CallInv, op.call = "add", op.id = 0
  PROVE  LoopEntries = <<>>
<1>1. PD!Up /\ PD!ReturnedOfMemory
  BY PDAssumption, PD!ReturnedUp DEF CallInv, PD!Inv, PD!CallState, PD!Up,
     PD!NoOp
<1>2. PD!Acknowledged = 0
  <2>1. CASE Len(stems) = 0
    BY <2>1 DEF PD!Acknowledged
  <2>2. CASE Len(stems) # 0
    <3>1. diskPc \in {"truncate", "flush"}
      BY <2>2 DEF CallInv, PD!Inv, PD!TypeOK, PD!CallState, PD!NoOp
    <3>2. Len(stems) = 1
      BY <3>1 DEF CallInv, PD!Stored
    <3> QED
      BY <3>2 DEF PD!Acknowledged
  <2> QED
    BY <2>1, <2>2
<1> QED
  BY <1>1, <1>2, EntriesAreReturned DEF PD!ReturnedOfMemory

\* Once an entry is in the maps and no call runs, FuzzLoop's corpus has one.
LEMMA SomeYet ==
  ASSUME CallInv, diskPc = "idle", stems # <<>>
  PROVE  LoopEntries # <<>>
<1>1. PD!ReturnedOfMemory /\ PD!Acknowledged = Len(stems)
  BY PDAssumption, PD!ReturnedUp, PD!ReturnedIdle DEF CallInv, PD!Up
<1>2. Len(PD!Returned) # 0
  BY <1>1 DEF PD!ReturnedOfMemory, CallInv, PD!Inv, PD!TypeOK
<1> QED
  BY <1>2, EntriesAreReturned

\* All entries have been read once main has asked for as many as there are.
LEMMA AllRead ==
  ASSUME CallInv, diskPc = "idle"
  PROVE  DOMAIN LoopEntries = 1 .. Len(stems)
<1>1. PD!ReturnedOfMemory /\ PD!Acknowledged = Len(stems)
  BY PDAssumption, PD!ReturnedUp, PD!ReturnedIdle DEF CallInv, PD!Up
<1> QED
  BY <1>1, EntriesAreReturned DEF PD!ReturnedOfMemory

\* The only prefix of the empty sequence.
LEMMA EmptyPrefix ==
  ASSUME NEW n \in 0 .. Len(<<>>)
  PROVE  SubSeq(<<>>, 1, n) = <<>>
OBVIOUS

\* The add of a seed file returns.
LEMMA SeedRefines ==
  ASSUME Inv, Inv', SeedAdded
  PROVE  Loop!LoadSeed \/ Loop!LoadSeedFails
<1>1. /\ step = "seeds" /\ UNCHANGED <<feedback, known, missed, iter, mutated, obsHash, added, runs>>
      /\ step' = IF result' = "ok" THEN "seeds" ELSE "default"
      /\ seedsLeft' = IF result' = "ok" THEN seedsLeft \ {op.input} ELSE seedsLeft
      /\ UNCHANGED <<execPc, pre, post, status>>
  BY DEF SeedAdded, AddReturns, executor
<1>2. op.input \in seedsLeft /\ op.descr = "seed"
  BY <1>1, AddRefines DEF AddEnded, AddAsked
<1>3. \/ result' = "ok" /\ failed' = failed /\ Loop!Add(op.input, "seed")
      \/ result' # "ok" /\ Loop!AddFails(op.input, "seed")
  BY <1>2, AddRefines DEF AddEnded
<1>4. LoopPc = "seeds" /\ LoopPc' = step' /\ UNCHANGED LoopKnown
  BY <1>1 DEF LoopPc, LoopKnown
<1>5. CASE result' = "ok"
  BY <1>1, <1>2, <1>3, <1>4, <1>5 DEF Loop!LoadSeed, Loop!executor, Loop!bounds
<1>6. CASE result' # "ok"
  BY <1>1, <1>2, <1>3, <1>4, <1>6 DEF Loop!LoadSeedFails, Loop!executor
<1> QED
  BY <1>5, <1>6

\* The add of the default seed returns.
LEMMA DefaultRefines ==
  ASSUME Inv, Inv', DefaultSeedAdded
  PROVE  Loop!DefaultSeedAdded \/ Loop!DefaultSeedFails
<1>1. /\ step = "default"
      /\ UNCHANGED <<feedback, seedsLeft, known, missed, iter, mutated, obsHash, added, runs>>
      /\ step' = IF result' = "ok" THEN "register" ELSE "exit"
      /\ UNCHANGED <<execPc, pre, post, status>>
  BY DEF DefaultSeedAdded, AddReturns, executor
<1>2. op.id = 0 /\ op.input = DefaultSeed /\ op.descr = "default"
  BY <1>1, AddRefines DEF AddEnded, AddAsked
<1>3. \/ result' = "ok" /\ failed' = failed /\ Loop!Add(DefaultSeed, "default")
      \/ result' # "ok" /\ Loop!AddFails(DefaultSeed, "default")
  BY <1>2, AddRefines DEF AddEnded
<1>4. known = {}
  BY <1>1 DEF Inv, Memory, Booting
<1>5. LoopPc = "default" /\ LoopPc' = step' /\ UNCHANGED LoopKnown
  BY <1>1, <1>4 DEF LoopPc, LoopKnown
<1>6. LoopEntries = <<>>
  <2>1. op.call = "add"
    BY AddEnds DEF DefaultSeedAdded, AddReturns, Inv
  <2> QED
    BY <1>2, <2>1, NoneYet DEF Inv
<1>7. CASE result' = "ok"
  BY <1>1, <1>3, <1>5, <1>6, <1>7 DEF Loop!DefaultSeedAdded, Loop!executor,
     Loop!bounds
<1>8. CASE result' # "ok"
  BY <1>1, <1>3, <1>5, <1>6, <1>8 DEF Loop!DefaultSeedFails, Loop!executor
<1> QED
  BY <1>7, <1>8

\* The add of an input that the feedback found interesting returns.
LEMMA FeedbackRefines ==
  ASSUME Inv, Inv', FeedbackAdded
  PROVE  Loop!AddToCorpus \/ Loop!AddToCorpusFails
<1>1. /\ step = "feedback"
      /\ UNCHANGED <<feedback, seedsLeft, known, missed, iter, mutated, obsHash, runs>>
      /\ IF result' = "ok" THEN step' = "oracle" /\ added' = TRUE
                           ELSE step' = "exit" /\ UNCHANGED added
      /\ UNCHANGED <<execPc, pre, post, status>>
  BY DEF FeedbackAdded, AddReturns, executor
<1>2. /\ op.input = mutated /\ op.descr = "feedback" /\ mutated \in known
      /\ feedback = "MockBitmapCoverage" => obsHash # NoHash /\ obsHash \notin known \ {mutated}
  BY <1>1, AddRefines DEF AddEnded, AddAsked
<1>3. \/ result' = "ok" /\ failed' = failed /\ Loop!Add(mutated, "feedback")
      \/ result' # "ok" /\ Loop!AddFails(mutated, "feedback")
  BY <1>2, AddRefines DEF AddEnded
<1>4. Adding
  BY AddLeaves, AddEnds DEF Adding, FeedbackAdded, AddReturns, Inv
<1>5. /\ LoopPc = "feedback" /\ LoopPc' = step'
      /\ LoopKnown = known \ {mutated} /\ LoopKnown' = LoopKnown \cup {mutated}
  BY <1>1, <1>2, <1>4 DEF LoopPc, LoopKnown
<1>6. Loop!Keep
  BY <1>2, <1>5 DEF Loop!Keep, Loop!IsInteresting
<1>7. CASE result' = "ok"
  BY <1>1, <1>3, <1>5, <1>6, <1>7 DEF Loop!AddToCorpus, Loop!executor,
     Loop!bounds
<1>8. CASE result' # "ok"
  BY <1>1, <1>3, <1>5, <1>6, <1>8 DEF Loop!AddToCorpusFails, Loop!executor
<1> QED
  BY <1>7, <1>8

\* The add of a crashing input returns.
LEMMA CrashRefines ==
  ASSUME Inv, Inv', CrashAdded
  PROVE  Loop!BugAdded
<1>1. /\ step = "oracle" /\ step' = "next" /\ iter' = iter + 1
      /\ UNCHANGED <<feedback, seedsLeft, known, missed, mutated, obsHash, added, runs>>
      /\ UNCHANGED <<execPc, pre, post, status>>
  BY DEF CrashAdded, AddReturns, executor
<1>2. op.input = mutated /\ op.descr = "crash" /\ status = "Crash" /\ ~added
  BY <1>1, AddRefines DEF AddEnded, AddAsked
<1>3. \/ failed' = failed /\ Loop!Add(mutated, "crash")
      \/ Loop!AddFails(mutated, "crash")
  BY <1>2, AddRefines DEF AddEnded
<1>4. LoopPc = "oracle" /\ LoopPc' = "next" /\ UNCHANGED LoopKnown
  BY <1>1 DEF LoopPc, LoopKnown
<1> QED
  BY <1>1, <1>2, <1>3, <1>4 DEF Loop!BugAdded, Loop!IterationEnds,
     Loop!executor

-----------------------------------------------------------------------------

\* The rest of a process's start.
LEMMA SetupRefines ==
  ASSUME Inv, Inv', LoadSeedsFails \/ SeedsLoaded \/ AddDefaultSeed
  PROVE  Loop!LoadSeedFails \/ Loop!SeedsLoaded \/ Loop!DefaultSeedAdded \/ UNCHANGED Loop!vars
<1>1. LoopEntries' = LoopEntries
  BY CallsKeepEntries DEF LoadSeedsFails, SeedsLoaded, AddDefaultSeed, Inv
<1>2. /\ UNCHANGED <<feedback, seedsLeft, known, missed, iter, mutated, obsHash, added, runs>>
      /\ UNCHANGED <<execPc, pre, post, status>>
      /\ step \in {"seeds", "default"} /\ known = {}
  BY DEF LoadSeedsFails, SeedsLoaded, AddDefaultSeed, memory, past, executor,
     Inv, Memory, Booting
<1>3. CASE LoadSeedsFails
  <2>1. Loop!Fault /\ Loop!Corpus!NoAnswer
    BY <1>1, <1>3, FaultAllowed DEF LoadSeedsFails, Loop!Corpus!NoAnswer
  <2>2. PICK s : s \in seedsLeft
    BY <1>3 DEF LoadSeedsFails
  <2>3. Loop!AddFails(s, "seed")
    BY <2>1 DEF Loop!AddFails
  <2>4. LoopPc = "seeds" /\ LoopPc' = "default" /\ UNCHANGED LoopKnown
    BY <1>2, <1>3 DEF LoadSeedsFails, LoopPc, LoopKnown
  <2> QED
    BY <1>2, <2>2, <2>3, <2>4 DEF Loop!LoadSeedFails, Loop!executor
<1>4. CASE SeedsLoaded
  BY <1>1, <1>2, <1>4 DEF SeedsLoaded, LoopPc, LoopKnown, past,
     Loop!SeedsLoaded, Loop!corpus, Loop!executor, Loop!bounds
<1>5. CASE AddDefaultSeed /\ stems = <<>>
  <2>1. UNCHANGED LoopKnown /\ UNCHANGED Rest
    BY <1>2, <1>5 DEF AddDefaultSeed, past, Rest, LoopPc, LoopOpen, LoopFound,
       LoopBusy, LoopKnown
  <2> QED
    BY <1>1, <2>1, Stutters
<1>6. CASE AddDefaultSeed /\ stems # <<>>
  <2>1. LoopEntries # <<>>
    BY <1>6, SomeYet DEF AddDefaultSeed, Disk!Idle, Inv
  <2>2. LoopPc = "default" /\ LoopPc' = "register" /\ UNCHANGED LoopKnown /\ step' = "register"
    BY <1>2, <1>6 DEF AddDefaultSeed, LoopPc, LoopKnown
  <2>3. UNCHANGED failed
    BY <1>6 DEF AddDefaultSeed, past
  <2> QED
    BY <1>1, <1>2, <2>1, <2>2, <2>3, <1>6 DEF AddDefaultSeed,
       Loop!DefaultSeedAdded, Loop!corpus, Loop!executor, Loop!bounds
<1> QED
  BY <1>3, <1>4, <1>5, <1>6

\* FuzzLoop learns all entries in one step.
LEMMA RegisterRefines ==
  ASSUME Inv, Inv', Register \/ Registered
  PROVE  Loop!Register \/ UNCHANGED Loop!vars
<1>1. CASE Register
  <2>1. learned \in 0 .. Len(stems) - 1 /\ step = "register" /\ diskPc = "idle" /\ Disk!Lookup(learned)
    BY <1>1, ReadIds DEF Register, Inv, CallInv, Calling
  <2>2. LoopEntries' = LoopEntries
    BY <2>1, ReadsEntry DEF Inv
  <2>3. UNCHANGED LoopKnown /\ UNCHANGED Rest
    BY <1>1 DEF Register, past, executor, Rest, LoopPc, LoopOpen, LoopFound,
       LoopBusy, LoopKnown
  <2> QED
    BY <2>2, <2>3, Stutters
<1>2. CASE Registered
  <2>1. LoopEntries' = LoopEntries
    BY <1>2, CallsKeepEntries DEF Registered, Inv
  <2>2. Loop!Corpus!NoAnswer
    BY <1>2, <2>1 DEF Registered, Loop!Corpus!NoAnswer
  <2>3. PICK missing \in SUBSET (1 .. learned) :
          /\ known = {LoopEntries[k].input : k \in (1 .. learned) \ missing}
          /\ unread = {LoopEntries[k].input : k \in missing}
    BY <1>2 DEF Registered, Inv, Learning
  <2>4. DOMAIN LoopEntries = 1 .. learned
    BY <1>2, AllRead DEF Registered, Inv, Calling
  <2>5. missing = {} <=> unread = {}
    BY <2>3
  <2>6. IF missing = {} THEN UNCHANGED failed ELSE Loop!Fault
    BY <1>2, <2>5, FaultAllowed DEF Registered
  <2>7. /\ LoopKnown' = {LoopEntries[k].input : k \in DOMAIN LoopEntries \ missing}
        /\ missed' = missed \cup {LoopEntries[k].input : k \in missing}
        /\ missing \in SUBSET DOMAIN LoopEntries
    BY <1>2, <2>3, <2>4 DEF Registered, LoopKnown
  <2>8. LoopPc = "register" /\ LoopPc' = "next"
    BY <1>2 DEF Registered, LoopPc
  <2> QED
    BY <1>2, <2>2, <2>6, <2>7, <2>8 DEF Registered, Loop!Register,
       Loop!executor, executor
<1> QED
  BY <1>1, <1>2

\* A selection that gets an entry, and main's get of the same entry, are one
\* step of FuzzLoop.
LEMMA ScheduleRefines ==
  ASSUME Inv, Inv', Schedule
  PROVE  Loop!Schedule \/ Loop!Skip
<1>1. /\ step = "next" /\ iter < MaxIterations /\ diskPc = "idle"
      /\ UNCHANGED <<seedsLeft, known, mutated, obsHash, added, feedback, missed, runs, failed>>
      /\ UNCHANGED <<execPc, pre, post, status>>
  BY DEF Schedule, Inv, Calling, past, executor
<1>2. PICK id \in 0 .. Len(stems) - 1 : Disk!Lookup(id)
  BY DEF Schedule, Disk!RandomSelect
<1>3. /\ LoopEntries' = LoopEntries /\ Len(LoopEntries) = Len(stems)
      /\ \/ found' = {Loop!Corpus!Answer(id)}
         \/ found' = {}
  BY <1>1, <1>2, ReadsEntry DEF Loop!Corpus!Answer, Inv
<1>4. LoopPc = "next" /\ UNCHANGED LoopKnown
  BY <1>1 DEF Schedule, LoopPc, LoopKnown
<1>5. CASE found' # {}
  <2>1. step' = "get" /\ UNCHANGED iter /\ LoopPc' = "mutate"
    BY <1>5 DEF Schedule, LoopPc
  <2>2. Loop!Corpus!Lookup
    BY <1>1, <1>3, <1>5, <2>1 DEF Loop!Corpus!Lookup
  <2> QED
    BY <1>1, <1>4, <2>1, <2>2 DEF Loop!Schedule, Loop!executor, Loop!bounds
<1>6. CASE found' = {}
  <2>1. step' = "next" /\ iter' = iter + 1 /\ LoopPc' = "next"
    BY <1>6 DEF Schedule, LoopPc
  <2>2. Loop!Corpus!NoAnswer
    BY <1>1, <1>3, <2>1 DEF Loop!Corpus!NoAnswer
  <2> QED
    BY <1>1, <1>4, <2>1, <2>2 DEF Loop!Skip, Loop!executor, Loop!bounds
<1> QED
  BY <1>5, <1>6

\* main gets the input it selected from the cache.
LEMMA GetRefines ==
  ASSUME Inv, Inv', GetSelected
  PROVE  UNCHANGED Loop!vars
<1>1. step = "get" /\ found # {} /\ cache = found /\ diskPc = "idle" /\ op.call # "add"
  BY DEF GetSelected, Inv, Scheduled, Calling, AddAsked
<1>2. PICK a \in found : Disk!Lookup(a.id)
  BY DEF GetSelected
<1>3. PD!GetHit(a.id) /\ UNCHANGED <<files, index, stems, metadata, diskPc, op>>
  BY <1>1, <1>2, DiskSame DEF PD!Lookup, PD!GetMiss, PD!GetFails, PD!Hit,
     PD!disk
<1>4. a.id \in PD!IdArg
  BY ConstantsAssumption DEF Inv, CallInv, PD!Inv, PD!TypeOK, PD!Item, PD!Stem,
     PD!IdArg
<1>5. found' = found
  BY <1>1, <1>3, <1>4, PDAssumption, PD!HitAnswer DEF Inv, CallInv
<1>6. LoopEntries' = LoopEntries
  BY <1>3 DEF LoopEntries, Disk!Up, Disk!Entries, Disk!View, Disk!Acknowledged
<1>7. step' = "mutate"
  BY <1>1, <1>5 DEF GetSelected
<1>8. UNCHANGED LoopKnown /\ UNCHANGED Rest
  BY <1>1, <1>5, <1>7 DEF GetSelected, LoopKnown, Rest, LoopPc, LoopOpen,
     LoopFound, LoopBusy, memory, past, executor
<1> QED
  BY <1>6, <1>8, Stutters

\* main mutates the input and calls the executor.
LEMMA ExecuteRefines ==
  ASSUME Inv, Inv', Execute
  PROVE  Loop!Execute
<1>1. LoopEntries' = LoopEntries
  BY CallsKeepEntries DEF Execute, Inv
<1>2. /\ execPc = "idle" /\ execPc' = "pre"
      /\ pre' = 0 /\ post' = 0 /\ status' = "none"
  BY ExecSame DEF Execute, PX!Execute
<1>3. Loop!Executor!Execute
  BY <1>2 DEF Loop!Executor!Execute
<1>4. Loop!Corpus!NoAnswer
  BY <1>1 DEF Execute, Loop!Corpus!NoAnswer
<1>5. LoopPc = "mutate" /\ LoopPc' = "execute" /\ UNCHANGED LoopKnown
  BY DEF Execute, LoopPc, LoopKnown
<1> QED
  BY <1>3, <1>4, <1>5 DEF Execute, Loop!Execute, Loop!Reset, Loop!bounds, past

\* An execution is one of the executor's contract.
LEMMA ExecutingRefines ==
  ASSUME Inv, Inv', Executing
  PROVE  \/ Loop!PreExec \/ Loop!GiveUp \/ Loop!Decide \/ Loop!PostExec \/ Loop!Return
         \/ UNCHANGED Loop!vars
<1>1. LoopEntries' = LoopEntries
  BY CallsKeepEntries DEF Executing, Inv
<1>2. /\ step = "execute" /\ execPc # "idle"
      /\ UNCHANGED <<feedback, seedsLeft, known, missed, iter, mutated, added, runs, failed>>
      /\ step' = IF execPc' = "idle" THEN "feedback" ELSE "execute"
  BY DEF Executing, past, Inv, Calling
<1>3. UNCHANGED disk
  BY DEF Executing
<1>4. ~Adding /\ ~Adding'
  BY <1>2, <1>3 DEF Inv, Calling, AddAsked, Adding, disk
<1>5. LoopPc = "execute" /\ LoopPc' = step' /\ UNCHANGED LoopKnown
  BY <1>2, <1>4 DEF LoopPc, LoopKnown
<1>6. UNCHANGED Loop!corpus
  BY <1>1, <1>2 DEF Loop!corpus
<1>7. PX!Inv /\ PX!ConstantsAssumption
  BY PXAssumption DEF Inv, CallInv
<1>8. CASE Exec!PreExec /\ obsHash' = NoHash
  <2>1. PX!PreExec
    BY <1>8, ExecSame
  <2>2. Loop!Executor!Prepare /\ step' = "execute"
    BY <1>2, <1>7, <2>1 DEF PX!PreExec, PX!Inv, PX!Progress,
       Loop!Executor!Prepare
  <2> QED
    BY <1>2, <1>5, <1>6, <1>8, <2>2 DEF Loop!PreExec, Loop!Reset, Loop!bounds
<1>9. CASE Exec!PostExec /\ obsHash' = mutated
  <2>1. PX!PostExec
    BY <1>9, ExecSame
  <2>2. Loop!Executor!Tell /\ step' = "execute"
    BY <1>2, <1>7, <2>1 DEF PX!PostExec, PX!Inv, PX!Progress,
       Loop!Executor!Tell
  <2> QED
    BY <1>2, <1>5, <1>6, <1>9, <2>2 DEF Loop!PostExec, Loop!bounds
<1>10. CASE Exec!Return /\ UNCHANGED obsHash
  <2>1. PX!Return
    BY <1>10, ExecSame
  <2>2. Loop!Executor!Return /\ step' = "feedback"
    BY <1>2, <1>7, <2>1 DEF PX!Return, PX!FinalStatus, PX!Inv, PX!Progress,
       PX!observers, Loop!Executor!Return
  <2> QED
    BY <1>2, <1>5, <1>6, <1>10, <2>2 DEF Loop!Return, Loop!bounds
<1>11. CASE (Exec!PrepareFails \/ Exec!BrokenPipe \/ Exec!WriteFails) /\ UNCHANGED obsHash
  <2>1. PX!Contract!GiveUp
    BY <1>7, <1>11, ExecSame, PX!GivesUp
  <2>2. Loop!Executor!GiveUp /\ step' = "feedback"
    BY <1>2, <2>1 DEF PX!Contract!GiveUp, PX!Busy, Loop!Executor!GiveUp
  <2> QED
    BY <1>2, <1>5, <1>6, <1>11, <2>2 DEF Loop!GiveUp, Loop!bounds
<1>12. CASE (Exec!PollEnded \/ Exec!Reap \/ Exec!WaitFails \/ Exec!SpawnFails) /\ UNCHANGED obsHash
  <2>1. PX!Contract!Decide
    BY <1>7, <1>12, ExecSame, PX!Decides
  <2>2. Loop!Executor!Decide /\ step' = "execute"
    BY <1>2, <2>1 DEF PX!Contract!Decide, PX!Busy, Loop!Executor!Decide
  <2> QED
    BY <1>2, <1>5, <1>6, <1>12, <2>2 DEF Loop!Decide, Loop!bounds
<1>13. CASE /\ \/ Exec!Prepare \/ Exec!Spawn \/ Exec!WriteStdin \/ Exec!CloseStdin
               \/ Exec!Look \/ Exec!Delay \/ Exec!PollSleeps \/ Exec!Wake
               \/ Exec!PollExpires \/ Exec!Kill
            /\ UNCHANGED obsHash
  <2>1. UNCHANGED PX!Contract!vars
    BY <1>7, <1>13, ExecSame, PX!Unseen
  <2>2. UNCHANGED <<pre, post, status>> /\ execPc' # "idle"
    BY <1>2, <2>1 DEF PX!Contract!vars, PX!Busy
  <2>3. UNCHANGED Rest
    BY <1>2, <1>5, <1>13, <2>2 DEF Rest, LoopOpen, LoopFound, LoopBusy
  <2> QED
    BY <1>1, <1>5, <2>3, Stutters
<1> QED
  BY <1>8, <1>9, <1>10, <1>11, <1>12, <1>13 DEF Executing

\* FuzzLoop does not see the target run.
LEMMA TargetRefines ==
  ASSUME Inv, Inv', Target
  PROVE  UNCHANGED Loop!vars
<1>1. LoopEntries' = LoopEntries
  BY CallsKeepEntries DEF Target, Inv
<1>2. UNCHANGED <<pre, post, status, execPc>>
  BY ExecSame DEF Target, PX!Target, PX!observers
<1>3. UNCHANGED LoopKnown /\ UNCHANGED Rest
  BY <1>2 DEF Target, memory, past, disk, Rest, LoopPc, LoopOpen, LoopFound,
     LoopBusy, LoopKnown, Adding
<1> QED
  BY <1>1, <1>3, Stutters

-----------------------------------------------------------------------------

\* What main makes of an execution: it judges the input, or begins to add it.
LEMMA JudgeRefines ==
  ASSUME Inv, Inv', Feedback
  PROVE  Loop!NotInteresting \/ UNCHANGED Loop!vars
<1>1. LoopEntries' = LoopEntries
  BY CallsKeepEntries DEF Feedback, Inv
<1>2. /\ step = "feedback" /\ diskPc = "idle" /\ ~Adding /\ LoopKnown = known
      /\ UNCHANGED <<feedback, seedsLeft, missed, iter, mutated, obsHash, runs, failed>>
      /\ UNCHANGED <<execPc, pre, post, status>>
  BY DEF Feedback, Disk!Idle, Adding, LoopKnown, past, executor
<1>3. CASE Loop!Keep
  <2>1. mutated \notin known
    BY <1>2, <1>3 DEF Loop!Keep
  <2>2. Adding' /\ known' = known \cup {mutated} /\ step' = step /\ UNCHANGED added
    BY <1>3, DiskSame DEF Feedback, PD!AddCall, PD!StartAdd, PD!AddOp, Adding
  <2>3. LoopKnown' = LoopKnown
    BY <1>2, <2>1, <2>2 DEF LoopKnown
  <2>4. UNCHANGED Rest
    BY <1>2, <2>2 DEF Rest, LoopPc, LoopOpen, LoopFound, LoopBusy
  <2> QED
    BY <1>1, <2>3, <2>4, Stutters
<1>4. CASE ~Loop!Keep
  <2>1. step' = "oracle" /\ added' = FALSE /\ known' = known /\ UNCHANGED disk
    BY <1>4 DEF Feedback
  <2>2. LoopPc = "feedback" /\ LoopPc' = "oracle" /\ LoopKnown' = LoopKnown
    BY <1>2, <2>1 DEF LoopPc, LoopKnown
  <2> QED
    BY <1>1, <1>2, <1>4, <2>1, <2>2 DEF Loop!NotInteresting, Loop!corpus,
       Loop!executor, Loop!bounds
<1> QED
  BY <1>3, <1>4

\* The oracle decides, and keeps a crash or not.
LEMMA OracleRefines ==
  ASSUME Inv, Inv', Oracle
  PROVE  Loop!NoBug \/ UNCHANGED Loop!vars
<1>1. LoopEntries' = LoopEntries
  BY CallsKeepEntries DEF Oracle, Inv
<1>2. /\ step = "oracle"
      /\ UNCHANGED <<feedback, seedsLeft, known, missed, mutated, obsHash, added, runs, failed>>
      /\ UNCHANGED <<execPc, pre, post, status>>
  BY DEF Oracle, past, executor
<1>3. CASE status = "Crash" /\ ~added
  <2>1. UNCHANGED <<step, iter>>
    BY <1>3 DEF Oracle
  <2>2. UNCHANGED LoopKnown /\ UNCHANGED Rest
    BY <1>2, <2>1 DEF Rest, LoopPc, LoopOpen, LoopFound, LoopBusy, LoopKnown
  <2> QED
    BY <1>1, <2>2, Stutters
<1>4. CASE ~(status = "Crash" /\ ~added)
  <2>1. step' = "next" /\ iter' = iter + 1
    BY <1>4 DEF Oracle
  <2>2. LoopPc = "oracle" /\ LoopPc' = "next" /\ UNCHANGED LoopKnown
    BY <1>2, <2>1 DEF LoopPc, LoopKnown
  <2> QED
    BY <1>1, <1>2, <1>4, <2>1, <2>2 DEF Loop!NoBug, Loop!IterationEnds,
       Loop!corpus, Loop!executor
<1> QED
  BY <1>3, <1>4

\* The end of a process that has opened its corpus, or has not yet.
LEMMA EndRefines ==
  ASSUME Inv, Inv', Finish \/ Kill
  PROVE  Loop!Finish \/ Loop!Kill \/ UNCHANGED Loop!vars
<1>1. \E n \in 0 .. Len(LoopEntries) : LoopEntries' = SubSeq(LoopEntries, 1, n)
  BY EndLeavesPrefix DEF Inv
<1>2. /\ step' = "down" /\ LoopPc' = "down" /\ LoopKnown' = {} /\ seedsLeft' = {} /\ iter' = 0
      /\ mutated' = DefaultSeed /\ obsHash' = NoHash /\ added' = FALSE
      /\ execPc' = "idle" /\ pre' = 0 /\ post' = 0 /\ status' = "none"
      /\ UNCHANGED <<feedback, missed, runs, failed>>
  BY DEF Finish, Kill, Down, LoopPc, LoopKnown, past
<1>3. step # "down"
  BY DiskSame DEF Finish, Kill, PD!Crash, Inv, Calling
<1>4. CASE step # "new"
  <2>1. Loop!Corpus!Close
    BY <1>1, <1>2, <1>3, <1>4 DEF Loop!Corpus!Close
  <2>2. Loop!Down
    BY <1>2, <2>1 DEF Loop!Down, Loop!bounds
  <2>3. LoopPc # "down"
    BY <1>3, <1>4 DEF LoopPc
  <2> QED
    BY <2>2, <2>3 DEF Loop!Kill
<1>5. CASE step = "new"
  <2>1. LoopEntries = <<>>
    BY <1>5, PDAssumption, PD!ReturnedNew, EntriesAreReturned DEF Inv, CallInv,
       Calling
  <2>2. LoopEntries' = LoopEntries
    BY <1>1, <2>1, EmptyPrefix
  <2>3. UNCHANGED Rest /\ UNCHANGED LoopKnown
    BY <1>2, <1>5 DEF Rest, LoopPc, LoopOpen, LoopFound, LoopBusy, LoopKnown,
       Inv, Memory, Calling, Booting
  <2> QED
    BY <2>2, <2>3, Stutters
<1> QED
  BY <1>4, <1>5

\* Every step of a campaign is one of FuzzLoop or a stutter.
LEMMA LoopStep == Inv /\ Inv' /\ [Next]_vars => [Loop!Next]_Loop!vars
<1> SUFFICES ASSUME Inv, Inv', [Next]_vars
             PROVE  Loop!Next \/ UNCHANGED Loop!vars
  OBVIOUS
<1>1. CASE Start \/ StartFails \/ NewReturns
  BY <1>1, StartRefines, NewRefines DEF Loop!Next
<1>2. CASE CallGoesOn \/ LoadSeeds
  BY <1>2, CallRefines
<1>3. CASE SeedAdded \/ DefaultSeedAdded \/ FeedbackAdded \/ CrashAdded
  BY <1>3, SeedRefines, DefaultRefines, FeedbackRefines, CrashRefines DEF
     Loop!Next, Loop!Run
<1>4. CASE LoadSeedsFails \/ SeedsLoaded \/ AddDefaultSeed
  BY <1>4, SetupRefines DEF Loop!Next, Loop!Run
<1>5. CASE Register \/ Registered \/ Schedule \/ GetSelected
  BY <1>5, RegisterRefines, ScheduleRefines, GetRefines DEF Loop!Next, Loop!Run
<1>6. CASE Execute \/ Executing \/ Target
  BY <1>6, ExecuteRefines, ExecutingRefines, TargetRefines DEF Loop!Next,
     Loop!Run
<1>7. CASE Feedback \/ Oracle
  BY <1>7, JudgeRefines, OracleRefines DEF Loop!Next, Loop!Run
<1>8. CASE Finish \/ Kill
  BY <1>8, EndRefines DEF Loop!Next, Loop!Run
<1>9. CASE UNCHANGED vars
  <2>1. LoopEntries' = LoopEntries
    BY <1>9, CallsKeepEntries DEF vars, Inv
  <2>2. UNCHANGED LoopKnown /\ UNCHANGED Rest
    BY <1>9 DEF vars, memory, past, disk, executor, Rest, LoopPc, LoopOpen,
       LoopFound, LoopBusy, LoopKnown, Adding
  <2> QED
    BY <2>1, <2>2, Stutters
<1> QED
  BY <1>1, <1>2, <1>3, <1>4, <1>5, <1>6, <1>7, <1>8, <1>9 DEF Next, Run

-----------------------------------------------------------------------------
(* The theorems                                                            *)

\* A campaign begins in Inv.
LEMMA InitInv == Init => Inv
<1> SUFFICES ASSUME Init PROVE Inv
  OBVIOUS
<1>1. PD!Inv /\ PD!Stored
  <2>1. PD!Init
    BY DEF Init, Disk!Init, PD!Init, Disk!NoFiles, PD!NoFiles, Disk!Stem,
       PD!Stem, Disk!NoMeta, PD!NoMeta, Disk!IndexFile, PD!IndexFile,
       Disk!NoOp, PD!NoOp
  <2> QED
    BY <2>1, PDAssumption, PD!InitInv DEF PD!Init, PD!Stored
<1>2. PX!Inv /\ PX!EndKnown
  <2>1. PX!Init
    BY DEF Init, Exec!Init, PX!Init
  <2>2. PX!EndKnown
    BY <2>1 DEF PX!Init, PX!EndKnown
  <2> QED
    BY <2>1, <2>2, PXAssumption, PX!InvInit
<1>3. Memory /\ Learning /\ Scheduled
  BY DEF Init, Exec!Init, Memory, Booting, Learning, Scheduled
<1>4. Calling
  BY DEF Init, Disk!Init, Exec!Init, Disk!NoOp, PD!NewOp, Calling, Booting
<1>5. Budget
  BY ConstantsAssumption DEF Init, Disk!Init, Budget
<1>6. Told
  BY DEF Init, Told
<1>7. feedback \in Feedbacks /\ runs \in 0 .. MaxRuns
  BY ConstantsAssumption DEF Init
<1> QED
  BY <1>1, <1>2, <1>3, <1>4, <1>5, <1>6, <1>7 DEF Inv, CallInv

\* Inv holds of every campaign.
LEMMA InvHolds == Spec => []Inv
BY InitInv, InvStep, PTL DEF Spec

\* A campaign begins as a FuzzLoop.
LEMMA LoopInit == Init => Loop!Init
<1> SUFFICES ASSUME Init PROVE Loop!Init
  OBVIOUS
<1>1. LoopEntries = <<>>
  BY DEF Init, Disk!Init, Disk!IndexFile, LoopEntries, Disk!Up, Disk!Entries,
     Disk!View
<1> QED
  BY <1>1 DEF Init, Exec!Init, Loop!Init, Loop!Corpus!Init, Loop!Executor!Init,
     LoopPc, LoopKnown

\* ImplementsFuzzLoop: the loop of main.rs over OnDiskCorpus and
\* CommandExecutor, each of whose calls takes many steps and may be cut short
\* by a failing operation or a kill, behaves as the loop over their contracts.
THEOREM Refinement == Spec => ImplementsFuzzLoop
BY LoopInit, LoopStep, InvHolds, PTL DEF Spec, ImplementsFuzzLoop

\* UnrunKeptOnlyIfTold: with main's MockBitmapCoverageFeedback, an input that
\* reaches the oracle as just kept although its target never ended was told to
\* the observers in this iteration, after a spawn or a wait that failed.
THEOREM KeptOnlyIfTold == Spec => []UnrunKeptOnlyIfTold
<1>1. Inv => UnrunKeptOnlyIfTold
  <2> SUFFICES ASSUME Inv, feedback = "MockBitmapCoverage", step = "oracle", added, exit = "none"
               PROVE  status = "Other" /\ post = 1 /\ execFaults > 0
    BY DEF UnrunKeptOnlyIfTold
  <2>1. post = 1
    BY DEF Inv, Told
  <2> QED
    BY <2>1 DEF Inv, CallInv, PX!EndKnown
<1> QED
  BY <1>1, InvHolds, PTL

\* The same of PL.
LEMMA LoopInitSame == Init => PL!Init
BY LoopInit DEF Loop!Init, PL!Init, Loop!Corpus!Init, PL!Corpus!Init,
   Loop!Executor!Init, PL!Executor!Init

\* What FuzzLoop is proved to keep, the campaign keeps.
LEMMA LoopInvHolds == Spec => []PL!Inv
<1>1. Init => PL!Inv
  BY LoopInitSame, PLAssumption, PL!InvInit
<1>2. PL!Inv /\ Inv /\ Inv' /\ [Next]_vars => PL!Inv'
  BY LoopStep, LoopSame, PLAssumption, PL!InvStep
<1> QED
  BY <1>1, <1>2, InvHolds, PTL DEF Spec

\* DeliveredCrashOnDisk: a target that crashed, having taken all of its input,
\* is named by the index on disk when main's iteration ends, unless an operation
\* failed or the time was up.  The executor's proofs say that such a crash is reported,
\* the loop's that a reported one is kept, the corpus's that what is kept is
\* saved.
THEOREM CrashesAreOnDisk == Spec => []DeliveredCrashOnDisk
<1>1. Spec => []PD!InSyncOutsideSave
  <2>1. Init => PD!InSyncOutsideSave
    BY DEF Init, Disk!Init, PD!InSyncOutsideSave
  <2>2. PD!InSyncOutsideSave /\ Inv /\ [Next]_vars => PD!InSyncOutsideSave'
    BY DiskStep, PDAssumption, PD!InSyncStep DEF Inv, CallInv
  <2> QED
    BY <2>1, <2>2, InvHolds, PTL DEF Spec
<1>2. Inv /\ PL!Inv /\ PD!InSyncOutsideSave => DeliveredCrashOnDisk
  <2> SUFFICES ASSUME Inv, PL!Inv, PD!InSyncOutsideSave,
                      step = "next", exit = "crash", left = 0,
                      over \/ status # "Timeout",
                      diskFaults = 0, execFaults = 0
               PROVE  \E k \in DOMAIN index.stems : files[index.stems[k]] = mutated
    BY DEF DeliveredCrashOnDisk
  <2>1. execPc = "idle" /\ diskPc = "idle"
    BY DEF Inv, Calling
  <2>2. status = "Crash"
    BY <2>1 DEF Inv, CallInv, PX!Inv, PX!CrashDecided
  <2>3. LoopPc = "next"
    BY DEF LoopPc
  <2>4. PICK k \in DOMAIN LoopEntries : LoopEntries[k].input = mutated
    BY <2>2, <2>3 DEF PL!Inv, PL!CorpusState, PL!EveryCrashIsKept, PL!Kept
  <2>5. DOMAIN LoopEntries = 1 .. Len(stems) /\ PD!ReturnedOfMemory /\ PD!Acknowledged = Len(stems)
    BY <2>1, AllRead, PDAssumption, PD!ReturnedUp, PD!ReturnedIdle DEF Inv,
       CallInv, PD!Up
  <2>6. LoopEntries[k] = [input |-> files[stems[k]], descr |-> metadata[stems[k]]]
    BY <2>4, <2>5, EntriesAreReturned DEF PD!ReturnedOfMemory
  <2>7. index.stems = stems /\ DOMAIN stems = 1 .. Len(stems)
    BY <2>1 DEF PD!InSyncOutsideSave, Inv, CallInv, PD!Inv, PD!TypeOK
  <2> QED
    BY <2>4, <2>5, <2>6, <2>7
<1> QED
  BY <1>1, <1>2, InvHolds, LoopInvHolds, PTL

\* An entry that is stored and not yet acknowledged is that of the running add.
LEMMA EntryInFlight ==
  ASSUME CallInv
  PROVE  LET e == [input |-> op.input, descr |-> op.descr]
             n == Len(LoopEntries)
         IN  \/ Disk!Entries = LoopEntries
             \/ /\ op.call = "add" /\ n \in Nat
                /\ DOMAIN LoopEntries = 1 .. n /\ DOMAIN Disk!Entries = 1 .. n + 1
                /\ \A k \in 1 .. n : Disk!Entries[k] = LoopEntries[k]
                /\ Disk!Entries[n + 1] = e
<1>1. Disk!Entries = PD!Entries /\ LoopEntries = PD!Returned
  BY EntriesAreReturned DEF Disk!Entries, PD!Entries, Disk!Up, PD!Up,
     Disk!View, PD!View
<1>2. CASE ~PD!Up
  BY <1>1, <1>2 DEF PD!Returned
<1>3. CASE PD!Up /\ op.call = "add" /\ Len(stems) > op.id
  <2> DEFINE n == Len(PD!Returned)
  <2>1. PD!ReturnedOfMemory /\ PD!EntriesOfMemory
    BY <1>3, PDAssumption, PD!ReturnedUp, PD!EntriesUp DEF CallInv
  <2>2. diskPc \in {"truncate", "flush"} /\ op.id \in Nat
    BY <1>3 DEF CallInv, PD!Inv, PD!TypeOK, PD!CallState, PD!NoOp, PD!NewOp,
       PD!Stem
  <2>3. /\ Len(stems) = op.id + 1
        /\ files[op.id] = op.input /\ metadata[op.id] = op.descr
    BY <1>3, <2>2 DEF CallInv, PD!Stored
  <2>4. PD!Acknowledged = op.id /\ n = PD!Acknowledged
    BY <1>3, <2>1, <2>2, <2>3 DEF PD!ReturnedOfMemory, PD!Acknowledged
  <2>5. stems[op.id + 1] = op.id
    <3>1. PD!Numbered(stems)
      BY DEF CallInv, PD!Inv
    <3>2. op.id + 1 \in 1 .. Len(stems) /\ (op.id + 1) - 1 = op.id
      BY <2>2, <2>3
    <3> QED
      BY <3>1, <3>2 DEF PD!Numbered
  <2> HIDE DEF n
  <2>6. /\ DOMAIN PD!Returned = 1 .. n /\ DOMAIN PD!Entries = 1 .. n + 1
        /\ \A k \in 1 .. n : PD!Entries[k] = PD!Returned[k]
    <3>1. /\ DOMAIN PD!Returned = 1 .. n /\ Len(stems) = n + 1 /\ n \in Nat
          /\ DOMAIN PD!Entries = 1 .. n + 1
      BY <2>1, <2>2, <2>3, <2>4 DEF PD!ReturnedOfMemory, PD!EntriesOfMemory, n
    <3>2. \A k \in 1 .. n : k \in 1 .. Len(stems)
      BY <3>1
    <3> QED
      BY <2>1, <2>4, <3>1, <3>2 DEF PD!ReturnedOfMemory, PD!EntriesOfMemory
  <2>7. PD!Entries[n + 1] = [input |-> op.input, descr |-> op.descr]
    BY <2>1, <2>2, <2>3, <2>4, <2>5 DEF PD!EntriesOfMemory
  <2> QED
    BY <1>1, <1>3, <2>2, <2>4, <2>6, <2>7 DEF n
<1>4. CASE PD!Up /\ ~(op.call = "add" /\ Len(stems) > op.id)
  <2>1. PD!Acknowledged = Len(PD!Entries) /\ PD!Entries \in Seq(PD!Contract!Entry)
    BY <1>4, PDAssumption, PD!EntriesUp DEF CallInv, PD!EntriesOfMemory,
       PD!Acknowledged
  <2>2. SubSeq(PD!Entries, 1, Len(PD!Entries)) = PD!Entries
    BY <2>1
  <2> QED
    BY <1>1, <1>4, <2>1, <2>2 DEF PD!Returned
<1> QED
  BY <1>2, <1>3, <1>4

\* PL's finite sets are finite sets.
LEMMA SameSize ==
  \A S : PL!Cardinality(S) = Cardinality(S) /\ (PL!IsFiniteSet(S) <=> IsFiniteSet(S))
BY DEF PL!Cardinality, Cardinality, PL!IsFiniteSet, IsFiniteSet

\* SeedsOncePerProcess: main adds a seed file at most once in each process, so
\* the corpus has no more copies of one than there were processes, the add that
\* runs included.
THEOREM SeedsAddedOnce == Spec => []SeedsOncePerProcess
<1>1. Spec => []PL!SeedsCounted
  <2>1. Init => PL!SeedsCounted
    BY LoopInitSame, PLAssumption, PL!SeedsCountedInit
  <2>2. PL!Inv /\ PL!SeedsCounted /\ Inv /\ Inv' /\ [Next]_vars => PL!SeedsCounted'
    BY LoopStep, LoopSame, PLAssumption, PL!SeedsCountedStep DEF PL!Inv
  <2> QED
    BY <2>1, <2>2, InvHolds, LoopInvHolds, PTL DEF Spec
<1>2. Inv /\ PL!Inv /\ PL!SeedsCounted => SeedsOncePerProcess
  <2> DEFINE copies(s) == {k \in DOMAIN Disk!Entries :
                             Disk!Entries[k] = [input |-> s, descr |-> "seed"]}
  <2> SUFFICES ASSUME Inv, PL!Inv, PL!SeedsCounted, NEW s \in Seeds
               PROVE  Cardinality(copies(s)) <= runs
    BY DEF SeedsOncePerProcess
  <2> DEFINE n == Len(LoopEntries)
  <2>1. /\ Cardinality(PL!Copies(s)) <= runs
        /\ LoopPc = "seeds" /\ s \in seedsLeft => Cardinality(PL!Copies(s)) < runs
    BY SameSize DEF PL!SeedsCounted
  <2>2. /\ IsFiniteSet(PL!Copies(s)) /\ Cardinality(PL!Copies(s)) \in Nat
        /\ PL!Copies(s) \subseteq 1 .. n
    BY PLAssumption, PL!CopiesFinite, SameSize DEF PL!Inv, PL!TypeOK
  <2>3. CASE Disk!Entries = LoopEntries
    <3>1. copies(s) = PL!Copies(s)
      BY <2>3 DEF PL!Copies
    <3> QED
      BY <2>1, <3>1
  <2>4. CASE /\ op.call = "add" /\ n \in Nat
             /\ DOMAIN LoopEntries = 1 .. n /\ DOMAIN Disk!Entries = 1 .. n + 1
             /\ \A k \in 1 .. n : Disk!Entries[k] = LoopEntries[k]
             /\ Disk!Entries[n + 1] = [input |-> op.input, descr |-> op.descr]
    <3> HIDE DEF n
    <3>1. CASE op.input = s /\ op.descr = "seed"
      <4>1. step = "seeds" /\ s \in seedsLeft
        BY <2>4, <3>1 DEF Inv, Calling, AddAsked
      <4>2. Cardinality(PL!Copies(s)) < runs
        BY <2>1, <4>1 DEF LoopPc
      <4>3. copies(s) = PL!Copies(s) \cup {n + 1} /\ n + 1 \notin PL!Copies(s)
        BY <2>4, <3>1 DEF PL!Copies
      <4>4. Cardinality(copies(s)) = Cardinality(PL!Copies(s)) + 1
        BY <2>2, <4>3, FS_AddElement
      <4>5. runs \in Nat
        BY ConstantsAssumption DEF Inv
      <4> HIDE DEF copies
      <4> QED
        BY <2>2, <4>2, <4>4, <4>5
    <3>2. CASE ~(op.input = s /\ op.descr = "seed")
      <4>1. Disk!Entries[n + 1] # [input |-> s, descr |-> "seed"]
        BY <2>4, <3>2
      <4>2. copies(s) = PL!Copies(s)
        BY <2>4, <4>1 DEF PL!Copies
      <4> QED
        BY <2>1, <4>2
    <3> QED
      BY <3>1, <3>2
  <2> QED
    BY <2>3, <2>4, EntryInFlight DEF Inv
<1> QED
  BY <1>1, <1>2, InvHolds, LoopInvHolds, PTL
=============================================================================
