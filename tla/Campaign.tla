------------------------------ MODULE Campaign ------------------------------
(***************************************************************************)
(* A whole campaign: the loop of main.rs over OnDiskCorpus and             *)
(* CommandExecutor themselves, in place of the contracts that FuzzLoop     *)
(* builds on.  Three parties take steps: the fuzzer, the target and        *)
(* whoever kills the fuzzer.                                               *)
(*                                                                         *)
(* The steps of the corpus and of the executor are those of their modules. *)
(* This module says which call main makes next and what it does with the   *)
(* answer.  `step` is where main is; a call is running while diskPc or     *)
(* execPc is not "idle".                                                   *)
(*                                                                         *)
(* Faulty... definitions are mistakes the properties must notice.          *)
(***************************************************************************)
EXTENDS Naturals, Sequences, FiniteSets

CONSTANTS
  Inputs, Seeds, DefaultSeed, NoHash, Feedbacks, MaxIterations, MaxRuns,
  Unreadable, NoDescr, MaxEntries, MaxDiskFaults, MaxCrashes,
  Modes, Lengths, PipeCapacity, MaxOps, Deadline, MaxExecFaults

VARIABLES
  step,
  feedback, seedsLeft, known, missed, iter, mutated, obsHash, added,
  learned,        \* entries main has read while it registers them
  unread,         \* the inputs it could not read meanwhile
  runs,
  failed,         \* corpus calls that failed in this and earlier processes
  files, index, stems, metadata, cache, diskPc, op, seeding, found, result,
  diskFaults, crashes,
  mode, execPc, pre, post, obsErr, status, left, tempFile, clock,
  target, program, ending, exit, over, inPipe, inOpen, outPipe, execFaults

Descrs == {"seed", "default", "feedback", "crash"}

ASSUME ConstantsAssumption ==
  /\ Seeds \subseteq Inputs
  /\ DefaultSeed \in Inputs
  /\ NoHash \notin Inputs /\ Unreadable \notin Inputs /\ NoDescr \notin Descrs
  /\ Feedbacks \subseteq {"MockBitmapCoverage", "UniqueInput"}
  /\ Modes \subseteq {"stdin", "file"} /\ Lengths \subseteq Nat
  /\ PipeCapacity \in Nat \ {0} /\ Deadline \in Nat
  /\ \A bound \in {MaxIterations, MaxRuns, MaxEntries, MaxDiskFaults, MaxCrashes,
                   MaxOps, MaxExecFaults} : bound \in Nat

Disk == INSTANCE OnDiskCorpus WITH
          Input <- Inputs, Descr <- Descrs, MaxFaults <- MaxDiskFaults,
          pc <- diskPc, faults <- diskFaults

Exec == INSTANCE CommandExecutor WITH
          NumObservers <- 1, MaxFaults <- MaxExecFaults,
          pc <- execPc, faults <- execFaults

disk     == <<files, index, stems, metadata, cache, diskPc, op, seeding, found,
              result, diskFaults, crashes>>
executor == <<mode, execPc, pre, post, obsErr, status, left, tempFile, clock,
              target, program, ending, exit, over, inPipe, inOpen, outPipe,
              execFaults>>
memory   == <<seedsLeft, known, iter, mutated, obsHash, added, learned, unread>>
past     == <<feedback, missed, runs, failed>>
vars     == <<step, memory, past, disk, executor>>

-----------------------------------------------------------------------------
(* The campaign as FuzzLoop sees it                                        *)

Adding == diskPc # "idle" /\ op.call = "add"

\* An add counts when it returns; so does what the feedback has learned by it.
LoopEntries == IF Disk!Up THEN SubSeq(Disk!Entries, 1, Disk!Acknowledged)
                          ELSE Disk!Entries
LoopKnown == CASE step = "register"            -> {}
               [] step = "feedback" /\ Adding  -> known \ {mutated}
               [] OTHER                        -> known
LoopPc    == CASE step = "new" -> "down"
               [] step = "get" -> "mutate"
               [] OTHER        -> step

Loop == INSTANCE FuzzLoop WITH
          MaxFaults <- 2 * MaxDiskFaults,
          pc        <- LoopPc,
          open      <- step \notin {"down", "new"},
          entries   <- LoopEntries,
          found     <- IF step \in {"get", "mutate"} THEN found ELSE {},
          known     <- LoopKnown,
          busy      <- execPc # "idle",
          faults    <- failed

-----------------------------------------------------------------------------

Init ==
  /\ step = "down"
  /\ feedback \in Feedbacks
  /\ seedsLeft = {} /\ known = {} /\ missed = {}
  /\ iter = 0
  /\ mutated = DefaultSeed
  /\ obsHash = NoHash
  /\ added = FALSE
  /\ learned = 0 /\ unread = {}
  /\ runs = 0 /\ failed = 0
  /\ Disk!Init
  /\ Exec!Init

-----------------------------------------------------------------------------
(* OnDiskCorpus::new                                                       *)

\* An index file is loaded, or a first one has to be saved.
Start ==
  /\ step = "down"
  /\ runs < MaxRuns
  /\ \/ /\ Disk!OpenLoad
        /\ step' = "seeds" /\ seedsLeft' = Seeds /\ runs' = runs + 1
     \/ /\ Disk!OpenFresh
        /\ step' = "new" /\ UNCHANGED <<seedsLeft, runs>>
  /\ UNCHANGED <<known, iter, mutated, obsHash, added, learned, unread, feedback,
                 missed, failed, executor>>

\* main returns the error of new.
StartFails ==
  /\ step = "down"
  /\ Disk!OpenFails
  /\ UNCHANGED <<step, memory, past, executor>>

-----------------------------------------------------------------------------
(* A running call of the corpus, and what main makes of its result         *)

CallGoesOn ==
  /\ Disk!CreateInput \/ Disk!WriteInput \/ Disk!TruncateIndex
  /\ UNCHANGED <<step, memory, past, executor>>

CallEnds ==
  \/ Disk!FlushIndex \/ Disk!FlushLost
  \/ Disk!CreateInputFails \/ Disk!WriteInputFails
  \/ Disk!TruncateFails \/ Disk!FlushFails

NewReturns ==
  /\ step = "new"
  /\ CallEnds
  /\ IF result' = "ok"
       THEN step' = "seeds" /\ seedsLeft' = Seeds /\ runs' = runs + 1
       ELSE step' = "down" /\ UNCHANGED <<seedsLeft, runs>>
  /\ UNCHANGED <<known, iter, mutated, obsHash, added, learned, unread, feedback,
                 missed, failed, executor>>

\* failed counts the calls; every add ends here.
AddReturns ==
  /\ CallEnds
  /\ failed' = IF result' = "ok" THEN failed ELSE failed + 1
  /\ UNCHANGED <<known, mutated, obsHash, learned, unread, feedback, missed, runs,
                 executor>>

FaultySeedAdded ==   \* a seed that could not be added is tried again
  /\ step = "seeds"
  /\ AddReturns
  /\ seedsLeft' = IF result' = "ok" THEN seedsLeft \ {op.input} ELSE seedsLeft
  /\ UNCHANGED <<step, iter, added>>

\* The first seed that cannot be added ends the loading; main warns.
SeedAdded ==
  /\ step = "seeds"
  /\ AddReturns
  /\ step' = IF result' = "ok" THEN "seeds" ELSE "default"
  /\ seedsLeft' = IF result' = "ok" THEN seedsLeft \ {op.input} ELSE seedsLeft
  /\ UNCHANGED <<iter, added>>

DefaultSeedAdded ==
  /\ step = "default"
  /\ AddReturns
  /\ step' = IF result' = "ok" THEN "register" ELSE "exit"
  /\ UNCHANGED <<seedsLeft, iter, added>>

FeedbackAdded ==
  /\ step = "feedback"
  /\ AddReturns
  /\ IF result' = "ok" THEN step' = "oracle" /\ added' = TRUE
                       ELSE step' = "exit" /\ UNCHANGED added
  /\ UNCHANGED <<seedsLeft, iter>>

\* A crashing input that cannot be added is only warned about.
CrashAdded ==
  /\ step = "oracle"
  /\ AddReturns
  /\ step' = "next"
  /\ iter' = iter + 1
  /\ UNCHANGED <<seedsLeft, added>>

-----------------------------------------------------------------------------
(* Setting up                                                              *)

Calls(input, descr) == op'.input = input /\ op'.descr = descr

LoadSeeds ==
  /\ step = "seeds"
  /\ \/ Disk!LoadSeeds
     \/ Disk!SeedNext /\ \E s \in seedsLeft : Calls(s, "seed")
  /\ UNCHANGED <<step, memory, past, executor>>

\* A seed file cannot be read.
LoadSeedsFails ==
  /\ step = "seeds" /\ seedsLeft # {}
  /\ failed < MaxDiskFaults
  /\ failed' = failed + 1
  /\ Disk!SeedsFail
  /\ step' = "default"
  /\ UNCHANGED <<memory, feedback, missed, runs, executor>>

SeedsLoaded ==
  /\ step = "seeds" /\ seedsLeft = {}
  /\ Disk!SeedsDone
  /\ step' = "default"
  /\ UNCHANGED <<memory, past, executor>>

AddDefaultSeed ==
  /\ step = "default"
  /\ IF stems = <<>>
       THEN /\ Disk!AddCall /\ Calls(DefaultSeed, "default")
            /\ UNCHANGED step
       ELSE /\ Disk!Idle /\ step' = "register"
            /\ UNCHANGED disk
  /\ UNCHANGED <<memory, past, executor>>

\* main gets entry after entry; one that cannot be read is passed over.
Register ==
  /\ step = "register" /\ learned < Len(stems)
  /\ Disk!Lookup(learned)
  /\ learned' = learned + 1
  /\ known' = known \cup {a.input : a \in found'}
  /\ unread' = IF found' = {} THEN unread \cup {files[stems[learned + 1]]}
                              ELSE unread
  /\ UNCHANGED <<step, seedsLeft, iter, mutated, obsHash, added, past, executor>>

Registered ==
  /\ step = "register" /\ learned = Len(stems)
  /\ step' = "next"
  /\ learned' = 0 /\ unread' = {}
  /\ missed' = missed \cup unread
  /\ failed' = IF unread = {} THEN failed ELSE failed + 1
  /\ UNCHANGED <<seedsLeft, known, iter, mutated, obsHash, added, feedback, runs,
                 disk, executor>>

-----------------------------------------------------------------------------
(* One iteration                                                           *)

\* RandomScheduler: without an answer main skips the iteration.
Schedule ==
  /\ step = "next" /\ iter < MaxIterations
  /\ Disk!RandomSelect
  /\ IF found' # {} THEN step' = "get" /\ UNCHANGED iter
                    ELSE step' = "next" /\ iter' = iter + 1
  /\ UNCHANGED <<seedsLeft, known, mutated, obsHash, added, learned, unread, past,
                 executor>>

\* main gets the entry selected, and stops the loop without an answer.
GetSelected ==
  /\ step = "get"
  /\ \E a \in found : Disk!Lookup(a.id)
  /\ step' = IF found' # {} THEN "mutate" ELSE "exit"
  /\ UNCHANGED <<memory, past, executor>>

Execute ==
  /\ step = "mutate"
  /\ mutated' \in Inputs \ {a.input : a \in found}
  /\ obsHash' = NoHash
  /\ Exec!Execute
  /\ step' = "execute"
  /\ UNCHANGED <<seedsLeft, known, iter, added, learned, unread, past, disk>>

\* The executor takes a step; the coverage observer's hooks never fail.
Executing ==
  /\ step = "execute"
  /\ \/ Exec!PreExec /\ obsHash' = NoHash
     \/ Exec!PostExec /\ ~obsErr' /\ obsHash' = mutated
     \/ /\ \/ Exec!Prepare \/ Exec!Spawn
           \/ Exec!WriteStdin \/ Exec!CloseStdin \/ Exec!BrokenPipe
           \/ Exec!PollEnded \/ Exec!Look \/ Exec!Delay \/ Exec!PollSleeps
           \/ Exec!Wake \/ Exec!PollExpires \/ Exec!Kill \/ Exec!Reap
           \/ Exec!Return
           \/ Exec!PrepareFails \/ Exec!SpawnFails
           \/ Exec!WriteFails \/ Exec!WaitFails
        /\ UNCHANGED obsHash
  /\ step' = IF execPc' = "idle" THEN "feedback" ELSE "execute"
  /\ UNCHANGED <<seedsLeft, known, iter, mutated, added, learned, unread, past,
                 disk>>

Target == Exec!Target /\ UNCHANGED <<step, memory, past, disk>>

\* The hash is recorded before the add.
Feedback ==
  /\ step = "feedback" /\ Disk!Idle
  /\ IF Loop!Keep
       THEN /\ known' = known \cup {mutated}
            /\ Disk!AddCall /\ Calls(mutated, "feedback")
            /\ UNCHANGED <<step, added>>
       ELSE /\ step' = "oracle" /\ added' = FALSE
            /\ UNCHANGED <<known, disk>>
  /\ UNCHANGED <<seedsLeft, iter, mutated, obsHash, learned, unread, past,
                 executor>>

Oracle ==
  /\ step = "oracle" /\ Disk!Idle
  /\ IF status = "Crash" /\ ~added
       THEN /\ Disk!AddCall /\ Calls(mutated, "crash")
            /\ UNCHANGED <<step, iter>>
       ELSE /\ step' = "next" /\ iter' = iter + 1
            /\ UNCHANGED disk
  /\ UNCHANGED <<seedsLeft, known, mutated, obsHash, added, learned, unread, past,
                 executor>>

-----------------------------------------------------------------------------
(* The end of the process                                                  *)

\* All that was in memory is gone.
Down ==
  /\ step' = "down"
  /\ seedsLeft' = {} /\ known' = {} /\ iter' = 0
  /\ mutated' = DefaultSeed /\ obsHash' = NoHash /\ added' = FALSE
  /\ learned' = 0 /\ unread' = {}
  /\ execPc' = "idle" /\ pre' = 0 /\ post' = 0 /\ obsErr' = FALSE
  /\ status' = "none" /\ left' = 0 /\ tempFile' = FALSE /\ clock' = 0
  /\ target' = "none" /\ program' = <<>> /\ ending' = "ok"
  /\ exit' = "none" /\ over' = FALSE
  /\ inPipe' = 0 /\ inOpen' = FALSE /\ outPipe' = 0
  /\ UNCHANGED <<mode, execFaults>>
  /\ UNCHANGED past

Finish ==
  /\ \/ step = "next" /\ iter = MaxIterations
     \/ step = "exit"
  /\ Disk!Exit
  /\ Down

Kill == Disk!Crash /\ Down

-----------------------------------------------------------------------------

Run ==
  \/ CallGoesOn \/ NewReturns
  \/ SeedAdded \/ DefaultSeedAdded \/ FeedbackAdded \/ CrashAdded
  \/ LoadSeeds \/ SeedsLoaded \/ AddDefaultSeed \/ Register \/ Registered
  \/ Schedule \/ GetSelected \/ Execute \/ Executing \/ Feedback \/ Oracle
  \/ Finish

Next ==
  \/ Start \/ StartFails
  \/ Run \/ LoadSeedsFails
  \/ Target
  \/ Kill

Spec == Init /\ [][Next]_vars /\ WF_vars(Run) /\ WF_vars(Target)

-----------------------------------------------------------------------------
(* Properties                                                              *)

\* The campaign is a FuzzLoop: OnDiskCorpus and CommandExecutor together give
\* main what it builds on, so all that holds of FuzzLoop holds of them.  An add
\* takes effect when it returns, and main always gets the entry that the
\* scheduler has selected.
ImplementsFuzzLoop == Loop!Init /\ [][Loop!Next]_Loop!vars

\* What the fuzzer is for: when no call failed, an input that was delivered and
\* crashed its target is listed by the index file, complete, by the end of its
\* iteration, whatever was killed before.  Only a target that had not ended when
\* the last poll began may have been called a timeout instead.
DeliveredCrashOnDisk ==
  /\ step = "next" /\ exit = "crash" /\ left = 0
  /\ over \/ status # "Timeout"
  /\ diskFaults = 0 /\ execFaults = 0
  => \E k \in DOMAIN index.stems : files[index.stems[k]] = mutated

\* Every process adds each seed to the corpus at most once, also when an add
\* that failed has stored its entry: a corpus on disk grows by its seeds once
\* for each process, and by no more.
SeedsOncePerProcess ==
  LET copies(s) == {k \in DOMAIN Disk!Entries :
                      Disk!Entries[k] = [input |-> s, descr |-> "seed"]}
  IN  \A s \in Seeds : Cardinality(copies(s)) <= runs

\* The coverage feedback keeps an input whose target did not end only if the
\* observers were told of it all the same, after a failed spawn or a failed
\* wait.
UnrunKeptOnlyIfTold ==
  /\ feedback = "MockBitmapCoverage"
  /\ step = "oracle" /\ added /\ exit = "none"
  => status = "Other" /\ post = 1 /\ execFaults > 0

\* Every process that has opened its corpus ends, whatever its targets do, if
\* every input fits into the pipe.
CampaignEnds == step # "down" ~> step = "down"
=============================================================================
