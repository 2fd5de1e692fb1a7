------------------------------ MODULE FuzzLoop ------------------------------
(***************************************************************************)
(* The drifter process: main.rs sets up a corpus and a feedback and runs   *)
(* the fuzz loop over the contracts of the corpus and of the executor,     *)
(* with the scheduler, the mutator, the coverage observer, the feedback    *)
(* and the crash oracle as the parts of one iteration.  The process can    *)
(* be killed at any point and started again on what the corpus has kept.   *)
(*                                                                         *)
(* An input stands for its MD5 digest, collisions aside.                   *)
(*                                                                         *)
(* Faulty... definitions are mistakes the properties must notice.          *)
(***************************************************************************)
EXTENDS Naturals, Sequences

CONSTANTS
  Inputs,
  Seeds,          \* inputs in the files of initial_seed_paths
  DefaultSeed,    \* "INIT"
  NoHash,         \* the observer has no data
  Feedbacks,      \* kinds of feedback a process may be built with
  MaxIterations,
  MaxRuns,        \* bound: processes started
  MaxFaults       \* bound: corpus calls that fail

ASSUME ConstantsAssumption ==
  /\ Seeds \subseteq Inputs
  /\ DefaultSeed \in Inputs
  /\ NoHash \notin Inputs
  /\ Feedbacks \subseteq {"MockBitmapCoverage", "UniqueInput"}
  /\ MaxIterations \in Nat /\ MaxRuns \in Nat /\ MaxFaults \in Nat

VARIABLES
  feedback,               \* the kind of feedback
  pc,                     \* "down", or the step main is at
  seedsLeft,              \* seed files load_initial_seeds has still to read
  open, entries, found,   \* the corpus
  known,                  \* global_coverage_hashes or known_input_hashes
  missed,                 \* inputs some process could not read when it started
  iter,                   \* current_iteration
  mutated,                \* mutated_input
  busy, pre, post, status,\* the executor
  obsHash,                \* current_input_hash of the coverage observer
  added,                  \* input_was_added_by_feedback
  runs, faults

corpus   == <<open, entries, found>>
executor == <<busy, pre, post, status>>
bounds   == <<runs, faults>>
vars     == <<feedback, pc, seedsLeft, corpus, known, missed, iter, mutated,
              executor, obsHash, added, bounds>>

Corpus   == INSTANCE Corpus WITH
              Input <- Inputs,
              Descr <- {"seed", "default", "feedback", "crash"}
Executor == INSTANCE Executor WITH NumObservers <- 1

Kept    == {entries[i].input : i \in DOMAIN entries}
Looping == pc \in {"next", "mutate", "execute", "feedback", "oracle"}

Fault == faults < MaxFaults /\ faults' = faults + 1

Init ==
  /\ feedback \in Feedbacks
  /\ pc = "down"
  /\ seedsLeft = {}
  /\ Corpus!Init
  /\ known = {}
  /\ missed = {}
  /\ iter = 0
  /\ mutated = DefaultSeed
  /\ Executor!Init
  /\ obsHash = NoHash
  /\ added = FALSE
  /\ runs = 0 /\ faults = 0

-----------------------------------------------------------------------------
(* Calls of the corpus                                                     *)

Add(input, descr) ==
  /\ entries' = Append(entries, [input |-> input, descr |-> descr])
  /\ Corpus!Add

\* An add that reports an error may have stored the entry all the same.
AddFails(input, descr) ==
  /\ Fault
  /\ \/ Add(input, descr)
     \/ Corpus!NoAnswer

-----------------------------------------------------------------------------
(* Starting and ending                                                     *)

Start ==
  /\ pc = "down"
  /\ runs < MaxRuns
  /\ runs' = runs + 1
  /\ pc' = "seeds"
  /\ Corpus!Open
  /\ seedsLeft' = Seeds
  /\ UNCHANGED <<feedback, known, missed, iter, mutated, executor, obsHash,
                 added, faults>>

\* The process is gone, with all it had in memory.
Down ==
  /\ pc' = "down"
  /\ Corpus!Close
  /\ seedsLeft' = {} /\ known' = {} /\ iter' = 0 /\ mutated' = DefaultSeed
  /\ busy' = FALSE /\ pre' = 0 /\ post' = 0 /\ status' = "none"
  /\ obsHash' = NoHash /\ added' = FALSE
  /\ UNCHANGED <<feedback, missed, bounds>>

Kill == pc # "down" /\ Down

\* load_initial_seeds reads the files in the order the system lists them.
LoadSeed ==
  /\ pc = "seeds"
  /\ \E s \in seedsLeft : Add(s, "seed") /\ seedsLeft' = seedsLeft \ {s}
  /\ UNCHANGED <<feedback, pc, known, missed, iter, mutated, executor, obsHash,
                 added, bounds>>

\* The first seed that cannot be read or added ends the loading; main warns.
LoadSeedFails ==
  /\ pc = "seeds"
  /\ \E s \in seedsLeft : AddFails(s, "seed")
  /\ pc' = "default"
  /\ UNCHANGED <<feedback, seedsLeft, known, missed, iter, mutated, executor,
                 obsHash, added, runs>>

SeedsLoaded ==
  /\ pc = "seeds"
  /\ seedsLeft = {}
  /\ pc' = "default"
  /\ UNCHANGED <<feedback, seedsLeft, corpus, known, missed, iter, mutated,
                 executor, obsHash, added, bounds>>

FaultyDefaultSeed ==   \* only a run without seed paths gets a default seed
  /\ pc = "default"
  /\ IF entries = <<>> /\ Seeds = {}
       THEN Add(DefaultSeed, "default")
       ELSE UNCHANGED corpus
  /\ pc' = "register"
  /\ UNCHANGED <<feedback, seedsLeft, known, missed, iter, mutated, executor,
                 obsHash, added, bounds>>

\* An empty corpus gets a default seed.
DefaultSeedAdded ==
  /\ pc = "default"
  /\ IF entries = <<>>
       THEN Add(DefaultSeed, "default")
       ELSE UNCHANGED corpus
  /\ pc' = "register"
  /\ UNCHANGED <<feedback, seedsLeft, known, missed, iter, mutated, executor,
                 obsHash, added, bounds>>

\* main returns the error.
DefaultSeedFails ==
  /\ pc = "default"
  /\ entries = <<>>
  /\ AddFails(DefaultSeed, "default")
  /\ pc' = "exit"
  /\ UNCHANGED <<feedback, seedsLeft, known, missed, iter, mutated, executor,
                 obsHash, added, runs>>

FaultyRegister ==   \* the feedback starts from nothing
  /\ pc = "register"
  /\ Corpus!NoAnswer
  /\ pc' = "next"
  /\ UNCHANGED <<feedback, seedsLeft, known, missed, iter, mutated, executor,
                 obsHash, added, bounds>>

\* The feedback learns every entry that can be read.
Register ==
  /\ pc = "register"
  /\ Corpus!NoAnswer
  /\ \E unread \in SUBSET DOMAIN entries :
       /\ IF unread = {} THEN UNCHANGED faults ELSE Fault
       /\ known' = {entries[i].input : i \in DOMAIN entries \ unread}
       /\ missed' = missed \cup {entries[i].input : i \in unread}
  /\ pc' = "next"
  /\ UNCHANGED <<feedback, seedsLeft, iter, mutated, executor, obsHash, added,
                 runs>>

-----------------------------------------------------------------------------
(* One iteration                                                           *)

FaultySchedule ==   \* one iteration too many
  /\ pc = "next"
  /\ iter <= MaxIterations
  /\ Corpus!Lookup
  /\ pc' = "mutate"
  /\ UNCHANGED <<feedback, seedsLeft, known, missed, iter, mutated, executor,
                 obsHash, added, bounds>>

\* RandomScheduler selects an entry, and main gets it.
Schedule ==
  /\ pc = "next"
  /\ iter < MaxIterations
  /\ Corpus!Lookup
  /\ pc' = "mutate"
  /\ UNCHANGED <<feedback, seedsLeft, known, missed, iter, mutated, executor,
                 obsHash, added, bounds>>

\* The selected entry cannot be read: RandomScheduler says CorpusEmpty, and
\* main skips the iteration as the corpus is not empty.
Skip ==
  /\ pc = "next"
  /\ iter < MaxIterations
  /\ Corpus!NoAnswer
  /\ iter' = iter + 1
  /\ UNCHANGED <<feedback, pc, seedsLeft, known, missed, mutated, executor,
                 obsHash, added, bounds>>

FaultyReset == UNCHANGED obsHash

\* MockCoverageObserver::reset
Reset == obsHash' = NoHash

\* The mutator changes the entry, always, and main resets the observers and
\* calls execute_sync.
Execute ==
  /\ pc = "mutate"
  /\ mutated' \in Inputs \ {a.input : a \in found}
  /\ Reset
  /\ Executor!Execute
  /\ pc' = "execute"
  /\ Corpus!NoAnswer
  /\ UNCHANGED <<feedback, seedsLeft, known, missed, iter, added, bounds>>

PreExec ==
  /\ pc = "execute"
  /\ Executor!Prepare
  /\ Reset
  /\ UNCHANGED <<feedback, pc, seedsLeft, corpus, known, missed, iter, mutated,
                 added, bounds>>

\* An early return of the executor, before or after the target was started.
GiveUp ==
  /\ pc = "execute"
  /\ Executor!GiveUp
  /\ pc' = "feedback"
  /\ UNCHANGED <<feedback, seedsLeft, corpus, known, missed, iter, mutated,
                 obsHash, added, bounds>>

FaultyDecide ==   \* the observers are not told of a crash
  /\ pc = "execute"
  /\ Executor!Decide
  /\ pc' = IF status' = "Crash" THEN "feedback" ELSE "execute"
  /\ UNCHANGED <<feedback, seedsLeft, corpus, known, missed, iter, mutated,
                 obsHash, added, bounds>>

\* The target ends, runs out of time or cannot be spawned or waited for.
Decide ==
  /\ pc = "execute"
  /\ Executor!Decide
  /\ UNCHANGED <<feedback, pc, seedsLeft, corpus, known, missed, iter, mutated,
                 obsHash, added, bounds>>

PostExec ==
  /\ pc = "execute"
  /\ Executor!Tell
  /\ obsHash' = mutated
  /\ UNCHANGED <<feedback, pc, seedsLeft, corpus, known, missed, iter, mutated,
                 added, bounds>>

Return ==
  /\ pc = "execute"
  /\ Executor!Return
  /\ pc' = "feedback"
  /\ UNCHANGED <<feedback, seedsLeft, corpus, known, missed, iter, mutated,
                 obsHash, added, bounds>>

FaultyIsInteresting ==   \* missing data is taken for new data
  IF feedback = "MockBitmapCoverage"
    THEN obsHash \notin known
    ELSE mutated \notin known

IsInteresting ==
  IF feedback = "MockBitmapCoverage"
    THEN obsHash # NoHash /\ obsHash \notin known
    ELSE mutated \notin known

\* is_interesting and the insert of add_to_corpus both say so.
Keep == IsInteresting /\ mutated \notin known

NotInteresting ==
  /\ pc = "feedback"
  /\ ~Keep
  /\ added' = FALSE
  /\ pc' = "oracle"
  /\ UNCHANGED <<feedback, seedsLeft, corpus, known, missed, iter, mutated,
                 executor, obsHash, bounds>>

\* add_to_corpus: the hash of the input is recorded before the input is added.
AddToCorpus ==
  /\ pc = "feedback"
  /\ Keep
  /\ known' = known \cup {mutated}
  /\ Add(mutated, "feedback")
  /\ added' = TRUE
  /\ pc' = "oracle"
  /\ UNCHANGED <<feedback, seedsLeft, missed, iter, mutated, executor, obsHash,
                 bounds>>

FaultyAddToCorpusFails ==   \* the loop goes on
  /\ pc = "feedback"
  /\ Keep
  /\ known' = known \cup {mutated}
  /\ AddFails(mutated, "feedback")
  /\ added' = FALSE
  /\ pc' = "oracle"
  /\ UNCHANGED <<feedback, seedsLeft, missed, iter, mutated, executor, obsHash,
                 runs>>

\* main returns the error; a stored entry may outlive the process.
AddToCorpusFails ==
  /\ pc = "feedback"
  /\ Keep
  /\ known' = known \cup {mutated}
  /\ AddFails(mutated, "feedback")
  /\ pc' = "exit"
  /\ UNCHANGED <<feedback, seedsLeft, missed, iter, mutated, executor, obsHash,
                 added, runs>>

FaultyIterationEnds ==   \* only what the feedback adds is progress
  /\ pc' = "next"
  /\ iter' = IF added THEN iter + 1 ELSE iter
  /\ UNCHANGED <<feedback, seedsLeft, known, missed, mutated, executor, obsHash,
                 added, runs>>

IterationEnds ==
  /\ pc' = "next"
  /\ iter' = iter + 1
  /\ UNCHANGED <<feedback, seedsLeft, known, missed, mutated, executor, obsHash,
                 added, runs>>

NoBug ==
  /\ pc = "oracle"
  /\ status # "Crash" \/ added
  /\ IterationEnds
  /\ UNCHANGED <<corpus, faults>>

\* CrashOracle reports a crash whose input the feedback has not just added:
\* main adds it, and only prints an error.
BugAdded ==
  /\ pc = "oracle"
  /\ status = "Crash" /\ ~added
  /\ IterationEnds
  /\ \/ Add(mutated, "crash") /\ UNCHANGED faults
     \/ AddFails(mutated, "crash")

\* The iterations are done, or main returns an error.
Finish ==
  /\ \/ pc = "next" /\ iter = MaxIterations
     \/ pc = "exit"
  /\ Down

Run ==
  \/ LoadSeed \/ SeedsLoaded \/ DefaultSeedAdded \/ Register
  \/ Schedule \/ Skip \/ Execute
  \/ PreExec \/ GiveUp \/ Decide \/ PostExec \/ Return
  \/ NotInteresting \/ AddToCorpus \/ NoBug \/ BugAdded
  \/ Finish

Next ==
  \/ Start
  \/ Run
  \/ LoadSeedFails \/ DefaultSeedFails \/ AddToCorpusFails
  \/ Kill

\* The process is run as long as it can; execute_sync returns.
Spec == Init /\ [][Next]_vars /\ WF_vars(Run)

-----------------------------------------------------------------------------
(* Properties                                                              *)

\* Every variable has its type.
TypeOK ==
  /\ feedback \in Feedbacks
  /\ pc \in {"down", "seeds", "default", "register", "next", "mutate", "execute",
             "feedback", "oracle", "exit"}
  /\ seedsLeft \in SUBSET Seeds
  /\ open \in BOOLEAN
  /\ entries \in Seq(Corpus!Entry)
  /\ known \in SUBSET Inputs /\ missed \in SUBSET Inputs
  /\ iter \in 0 .. MaxIterations
  /\ mutated \in Inputs
  /\ busy \in BOOLEAN /\ pre \in 0 .. 1 /\ post \in 0 .. 1
  /\ status \in Executor!Statuses \cup {"none"}
  /\ added \in BOOLEAN
  /\ obsHash \in Inputs \cup {NoHash}
  /\ runs \in 0 .. MaxRuns /\ faults \in 0 .. MaxFaults

\* The feedback never judges an input by the data of another execution, also
\* after executions that ended early, and a status that speaks of the target
\* comes with the data of that run.
FeedbackSeesThisExecution ==
  pc = "feedback" =>
    /\ obsHash \in {NoHash, mutated}
    /\ status \in {"Ok", "Crash", "Timeout"} => obsHash = mutated

\* The feedback knows the inputs of the corpus and no others: nothing it will
\* call a duplicate is missing from the corpus, and nothing in the corpus but
\* what could not be read at the start will be called new.
KnownMatchesCorpus ==
  Looping => known \subseteq Kept /\ Kept \subseteq known \cup missed

\* The feedback adds no input that is in the corpus already, over any number
\* of processes, unless that entry could not be read when a process started.
FeedbackAddsOnce ==
  \A i, j \in DOMAIN entries :
    /\ i < j
    /\ entries[j].descr = "feedback"
    /\ entries[i].input = entries[j].input
    => entries[i].input \in missed

\* An iteration that found a crash leaves its input in the corpus, even one
\* that could not add the crashing input.
EveryCrashIsKept ==
  pc = "next" /\ status = "Crash" => mutated \in Kept

\* Whenever main adds a crashing input itself, the corpus has it already:
\* every crash that is new was taken for new coverage and added as such.
CrashAddsOnlyRepeats ==
  pc = "oracle" /\ status = "Crash" /\ ~added => mutated \in Kept

\* The loop never finds the corpus empty: main's emergency seed is never
\* needed.
CorpusNeverEmpty ==
  Looping => entries # <<>>

\* Every process that starts ends, however many iterations are skipped.
CampaignEnds == pc # "down" ~> pc = "down"
=============================================================================
