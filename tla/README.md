# drifter: specifications, model checking and proofs

drifter is a fuzzer in Rust: a library of components (`drifter_core`) and a
command line program (`drifter_cli`) that builds a campaign out of them. It
mutates inputs of a corpus, runs a target on them, and keeps the inputs that
its feedback finds interesting or that crash the target. This directory holds
TLA+ models of those components and of their composition, the TLC configurations
that check them, and TLAPS proofs about the corpus on disk (alone and shared),
both executors, the fuzz loop and the mutators. Paths below are relative to the
root of the repository.

## 1. Inventory

| component | state it keeps | operations | talks to |
|---|---|---|---|
| Corpus (`corpus.rs`): trait, `InMemoryCorpus`, `OnDiskCorpus` | entries; on disk, one file per input and `corpus_index.json`; in memory, two maps and a cache of one entry | `new`, `add`, `get`, `random_select`, `load_initial_seeds` | the file system; called by feedback, scheduler and main |
| Executor (`executor.rs`): trait, `InProcessExecutor`, `CommandExecutor` | nothing between calls; during one, a child process, its pipes and a temporary file | `execute_sync` | observers, the target, the operating system |
| Observer (`observer.rs`) | hash of the last input | `reset`, `pre_exec`, `post_exec`, `serialize_data` | called by the executor and by main |
| Feedback (`feedback.rs`) | set of known hashes | `is_interesting`, `add_to_corpus`, `add_known_input_hash` | observer data, corpus |
| Oracle (`oracle.rs`) | none | `examine` | execution status |
| Scheduler (`scheduler.rs`) | none | `next`, `report_feedback` (does nothing) | corpus |
| Mutators (`mutator.rs`) | none | `mutate` | random numbers |
| Configuration (`config.rs`, first part of `main.rs`) | `DrifterConfig` | load, two overrides, building the executor | TOML parser, command line |
| Fuzz loop (`main.rs`) | iteration, selected and mutated input, flags | set up, iterate, report | all of the above |
| Input (`input.rs`), crate root, test targets, commit hooks | none | | |

What is hard about it:

* **A crash or an error between two file operations.** `OnDiskCorpus::add`
  writes a file, extends two maps and rewrites the index; any of these can fail
  or be the last thing the process does, and the next process starts from what
  is left.
* **Two processes and two pipes.** `CommandExecutor` and its target block each
  other through a stdin pipe that is written before the timeout starts, and
  output pipes nobody reads. The target may end, hang or fail at any step, and
  be killed while it ends by itself.
* **State that three components must agree on.** The feedback's hashes, the
  observer's hash and the corpus each hold a part of "have we seen this input?",
  each with its own error path, and only the corpus survives a restart.
* **Two layers of defaults** for the same setting in the configuration.
* **Numbers at the ends of their ranges** in the mutators: bytes wrap, JSON
  integers saturate at one of two ends and may not fit the field they came from.

Nothing in the repository runs in parallel within the fuzzer itself: a
component is called with `&mut self` by one thread. Interleaving comes from the
target, from processes that are killed and started again, and from a second
fuzzer on the same corpus directory, which nothing in the code keeps out.

`PROJECT.json` lists every component, what of it is modelled, and each hazard
at its line with the properties that would catch it.

## 2. Modules

```
Corpus <--- OnDiskCorpus <--- CorpusSharer <--- SharedCorpus
   ^          ^                (one process)     (two processes)
   |          |
FuzzLoop <- Campaign           (Campaign: the loop over the detailed modules)
   |          |
   v          v
Executor <- CommandExecutor   <--- AnyExecutor
         <- InProcessExecutor <--- (either of the two)

Setup    FlipSingleByteMutator    JsonStructureAwareMutator
```

`X_proofs` holds the proofs about `X`, for `OnDiskCorpus`, `CorpusSharer`,
`SharedCorpus`, `AnyExecutor` (with those about `CommandExecutor`), `FuzzLoop`,
`Campaign`, `MCMutators` (about both mutators) and `Setup`. `MCOnDiskCorpus`,
`MCMutators` and `MCSetup` add to a module what only TLC needs; the other
modules are checked as they are.

`Corpus` and `Executor` are contracts: what a caller may rely on. The detailed
modules are shown to implement them, and `FuzzLoop` is built on the contracts
alone, so what holds of it holds with either corpus and either executor.
`Campaign` puts the detailed modules in their place and is shown to be a
`FuzzLoop`.

A definition whose name begins with `Faulty` is not part of a model. It is a
mistake that the definition after it could have contained; `PROJECT.json` names,
for each property, one such mistake that makes TLC report the property.

### Corpus

The trait, which is `InMemoryCorpus`: an append-only sequence of entries whose
position is their ID, and lookups that answer with the entry asked for or with
nothing. `Close` may drop entries from the end, as closing `InMemoryCorpus`
drops all and a lost index drops all.

### OnDiskCorpus

One step per file system operation, each able to fail, and `Crash` between any
two. The variables are the fields of the struct (`stems` is
`id_to_filename_stem`, `metadata` is `filename_to_metadata_index`, `cache` is
`last_accessed_cache`), the two kinds of file, and the point `pc` the running
call has reached. A call is a chain of steps:

| code | steps |
|---|---|
| `new` | `OpenLoad`, or `OpenFresh` then a save, or `OpenFails` |
| `add` | `AddCall`, `CreateInput`, `WriteInput`, then a save |
| `save_index_to_disk` | `TruncateIndex`, `FlushIndex`; `FlushLost` when the error of the BufWriter's last write is swallowed; `FlushFails` when it is reported |
| `load_initial_seeds` | `LoadSeeds`, `SeedNext` with the steps of `add` for each seed, `SeedsDone` or `SeedsFail` |
| `get`, `random_select` | `Get`, `RandomSelect`: `GetHit`, `GetMiss` or `GetFails` |

The contents of a file are an input, or `Unreadable` if decoding it fails. An
index file is missing, empty, torn, or intact with the maps it holds. A stem is
the zero-padded ID, which is injective, so a stem is modelled as its ID. Crash
means the death of the process; what reached the operating system stays. Loss
of power is not modelled. A torn index needs an index larger than the
BufWriter's buffer; the model allows it at any size.

### CorpusSharer, SharedCorpus

`CorpusSharer` is `OnDiskCorpus` as one process among several: the steps that
are atomic for a process alone and are not for one among others are taken apart.
`SharedCorpus` instantiates it twice over the same `files` and `index`, each
with maps, a cache and a running call of its own.

* `new` looks for the index file when it loads it and again before it creates
  one (`corpus.rs:390`): `Look`, `LookAgain`. An index saved by the other in
  between is neither loaded nor replaced.
* A file that one process opens for writing while the other is still writing it is
  *mixed*: an input is written in as many writes as `write_all` needs and an
  index in one for every 8 KiB of its BufWriter, so either process may
  overwrite any part of what the other has written. This is the content
  `Mixture` of an input file (`CreateMixed`, `WriteMixed`) and the state `"mixed"` of the
  index (`TruncateMixed`, `FlushMixed`). The file stays mixed, also when a write is
  given up or its process is killed, until one of them empties it while the other
  is not writing.
* A mixed file reads as anything: as one of the inputs written, as an input no one
  added, or not at all (`LookupMixed`). A mixed index does not parse, or parses to any
  list of stems that one of the two could have written, with metadata that
  may be anyone's or missing (`LoadMixed`). The lists of two indexes agree as far as
  the shorter one goes, so they do not mix.
* A read that overlaps a write of the other takes effect while that write goes on,
  and reads as from a mixed file (the same two actions).
* A write that fails or is killed leaves a file that is not mixed cut short
  (`Spoil`).

`given` and `spoiled` are history: which adds have written their input, and
under which IDs a write was given up half way. `load_initial_seeds` is a
sequence of adds here, and `random_select` a `Get` of any ID.

### Executor, InProcessExecutor, CommandExecutor

`Executor` counts observers prepared (`pre`) and told (`post`) and the status.
It promises that a status which speaks of the target is returned only after
every observer was prepared and then told, and that only `Ok` gives way to an
observer's error.

`InProcessExecutor` runs a harness that returns or panics. A harness that does
not return, or aborts, takes the fuzzer with it.

`CommandExecutor` runs beside a `Target`: a program of at most `MaxOps` reads
and writes that then exits with success, fails, or hangs. They share
two pipes of `PipeCapacity` units. `inPipe` is the target's stdin. `outPipe` is
stdout and stderr together, which the code pipes and never reads. The clock
counts rounds of the polling loop, because that loop is the only code that
looks at the time. `try_wait` (`Look`), the look at the time (`PollSleeps`,
`PollExpires`) and the end of the sleep (`Wake`) are steps of their own: the target may
end between any two of them, and `Delay` lets time pass between the first two. `exit`
and `over` are history, to compare verdicts with: how the target ended, and
whether it had ended by itself when the last poll began.

| code | steps |
|---|---|
| observers prepared, command built | `PreExec`, `Prepare` and their failures |
| spawn | `Spawn`, `SpawnFails` |
| `write_all` to stdin | `WriteStdin`, `CloseStdin`, `BrokenPipe`, `WriteFails` |
| `run_and_wait_with_timeout` | `PollEnded`, `Look`, `Delay`, `PollSleeps`, `Wake`, `PollExpires`, `Kill`, `Reap`, `WaitFails` |
| observers told, status returned | `PostExec`, `Return` |

A target closes its pipes only by ending. Its descendants are not modelled:
killing a shell leaves them running, in the code too.

`AnyExecutor` is the `Box<dyn Executor>` of main: one of the two, chosen by
`executor_type` at the start. Both work on the variables of a call.

### FuzzLoop

The process from the opened corpus on: seeds, default seed, the feedback
learning the corpus, then iterations of `Schedule` (or `Skip`), `Execute`, the
steps of the executor's contract, the feedback (`AddToCorpus`,
`AddToCorpusFails`, `NotInteresting`) and the oracle (`BugAdded`, `NoBug`). The
process ends by `Finish`, after its last iteration or after an error that main
returns (`pc = "exit"`), or by `Kill`, and may be started again on what the
corpus has kept. `known` is the feedback's set of
hashes, `obsHash` the observer's; an input stands for its own MD5 digest.
`missed` is history: the inputs a starting process could not read.

An `add` may fail with or without the entry being stored, since
`OnDiskCorpus` does both. `Kill` between the steps of one execution is
included; a kill that leaves a target process behind has no effect on the loop.

Left out because it cannot happen: the emergency seed of lines 286-323
(`CorpusNeverEmpty`), and the break of lines 278-284 (`Campaign` has it, and
would not be a `FuzzLoop` if it were ever taken). The mutator never
fails and never returns its input unchanged (`FlipIsOneByte`).

### Campaign

The loop of main over `OnDiskCorpus` and `CommandExecutor` themselves. `step` is
where main is, `diskPc` and `execPc` are where a running call of the corpus or
the executor is; the steps of a call are those of its module, and this module
says which call main makes next and what it does with the answer.

`CallEnds` are the steps with which a call of the corpus returns. `NewReturns`,
`SeedAdded`, `DefaultSeedAdded`, `FeedbackAdded` and `CrashAdded` are what main
does then. `Register` reads one entry at a time for the feedback. `GetSelected`
is the second `get` of the entry that the scheduler has already got. `Kill` and
`Finish` forget what was in memory.

The mapping to `FuzzLoop` makes an add take effect when it returns: until then
`FuzzLoop` has neither the entry nor the hash that the feedback recorded before
the call. The entries registered so far, and the process while it opens its
corpus, are hidden too. `failed` counts the corpus calls that failed, as `faults` of
`FuzzLoop` does. A kill during an execution takes the target with it: a target
that outlives its fuzzer, and the temporary file left then, are no state that
any later process looks at.

### Setup

Tables and fields of the TOML file are sets of at most one value, so absence is
the empty set. `Parsed` is what serde makes of the file, `BuiltIn` is
`DrifterConfig::default`, `DerivedSettings` the derived `Default` of the command
settings; `OverrideIterations`, `OverrideCommand` and the `Build...` actions
follow main. Parse errors other than an unknown delivery name, the corpus
section and the unused thread count are left out.

### FlipSingleByteMutator, JsonStructureAwareMutator

Random choices are sets of results or alternatives; the probabilities behind
them are left out, all being neither 0 nor 1 (a recursion probability of 1 has
fewer outcomes).

`FlipSingleByteMutator` is pure: `Mutate(input)` is the set of what `mutate` may
return. `JsonStructureAwareMutator` is a state machine because `mutate` is called
on its own results. A structure is the sequence of its leaves in the order in
which the recursion meets them, each with its depth, its kind and, for an
integer, its range. Objects and arrays are never mutated. The kinds are integer, float,
string, boolean, `Option<f64>`, and what is null in JSON. `Call` decodes and makes the
JSON, `Visit` is `mutate_json_value` at one leaf (the recursion's depth, `current_depth + 1`
at each node, is the depth of the leaf), `Return` takes the JSON back or not. Characters are members of a set, a finite float is just finite, and
`Delta`, `MinI64`, `MaxI64`, `MaxU64` are parameters so that TLC can have small
integers with the same boundaries. An input that does not decode is one value,
`Undecodable`; the encoding of bincode is otherwise left out.

## 3. Runs

The longest run, `corpus_shared`, takes TLC about two minutes on two cores, `loop`
and `campaign` a minute each, the others seconds.

| run | expects | what it shows |
|---|---|---|
| `corpus` | pass | With two failing operations and two killed processes: the cache never holds anything but its entry (`CacheCoherent`), every entry in memory and in an index that parses has a complete input file (`EntriesReadable`, `SavedIndexSound`), the index equals memory outside a save as long as nothing failed (`InSyncOutsideSave`), and the whole is a `Corpus` (`ImplementsCorpus`). |
| `corpus_crash` | violation | A process killed inside the save loses every acknowledged entry. |
| `corpus_ack` | violation | `add` returns Ok although the index was not written. |
| `corpus_shared` | pass | Two processes on one directory, their reads and writes overlapping, a failing operation, a kill: IDs count up without gaps in every map and every index (`IdsAreStems`); the file of what is listed holds an input added under its ID, unless both wrote it at once, one is writing it or gave up (`EntriesWhole`); what `get` reads was added by one of the two under that ID, unless the file, or the index its metadata came with, was written by both at once or is being written (`AnswersWereGiven`). |
| `executors` | pass | Whichever executor main has: as commands, targets are reaped, the input file outlives its reader, `Ok` and `Crash` are true of the target (`VerdictIsTrue`), `Timeout` is only said when the time is up and never of a target that ended before the last poll began, such as one that ended during the sleep (`NoFalseTimeout`), and a crash after the input was delivered is reported unless it came after that (`DeliveredCrashReported`); in process, a panic is a crash whatever the observers do. The contract holds of both, and `execute_sync` returns if the input fits into the pipe. |
| `stall` | violation | With an input one unit longer, it may never return. |
| `lost_crash` | violation | A crash before the input was written is reported as `Other`. |
| `loop` | pass | The feedback only sees data of this execution; what it knows is what the corpus holds; it adds an input once, across restarts; no crashing input is lost; the corpus is never empty; every process ends. |
| `campaign` | pass | With the real corpus and executor: the whole is a `FuzzLoop` (`ImplementsFuzzLoop`); if no call failed, an input that crashed its target, other than after the last poll before the timeout began, is complete and listed on disk by the end of its iteration (`DeliveredCrashOnDisk`); each process adds a seed at most once (`SeedsOncePerProcess`); an input that did not run is kept by the coverage feedback only after a failed spawn or wait (`UnrunKeptOnlyIfTold`); every process ends, whatever its targets do. |
| `mutators` | pass | A flip changes exactly one byte; leaves at the depth limit stay, an `Option<f64>` that is not finite apart; no sequence of calls takes an integer across the end of i64; a float that is not finite keeps the structure from ever changing or, in an `Option`, is `None` after the first change (`NonFiniteFloats`); every result is a structure. |
| `setup` | pass | Iterations and command reach the campaign as asked, whatever is missing in the file. |
| `setup_timeout` | violation | A command from the command line alone gets a timeout of 0 ms. |

`CrashAddsOnlyRepeats` in `loop` deserves a remark: the branch of main that adds
a crashing input (lines 385-398) only ever adds inputs the corpus already has. A
crash is reported only after the observers were told, so a crashing input that
is new is interesting to the feedback too, and is added there. The branch is
not what keeps crashes, and all it adds are duplicates.

`corpus_shared` has no run for what sharing breaks, because neither code nor
documentation promises it: two processes give the same ID to different inputs,
an entry may come back with the other's input and its own description, and
whoever saves last decides which entries the next process finds. When their
writes overlap, an entry may be a mixture of two inputs that decodes to one
nobody added, and an index larger than 8 KiB may list a stem without metadata.
What the run shows is where this ends: numbering survives all of it, and every
wrong answer comes from a file or an index that both wrote at once, or from a
write that was under way or was given up half way.

`NonFiniteFloats` and `EndOfI64IsABarrier` describe limits of
`JsonStructureAwareMutator` that its documentation does not mention. A NaN or an
infinity, which bincode decodes, is null in JSON. A float refuses null on the way
back, which undoes all other mutations of the structure, in every call; an
`Option<f64>` takes it as `None`, so the value is lost with the first change, also
below the depth limit. A u64 field never leaves its side of the largest i64, and
above it only grows.

Other differences between documentation and code that the models have, and for
which there is no run of their own:

* `add` of `OnDiskCorpus` keeps the entry in memory when it returns the error of
  a failed save (`corpus.rs:538`, against the contract of lines 109-110):
  `FlushFails` after `WriteInput`. It is why `Add` of `FuzzLoop` may fail with or
  without the entry being stored.
* The early returns of `execute_sync` between `pre_exec` and the spawn, and after
  a failed write, tell no observer that was prepared (`executor.rs:37-42`):
  `PrepareFails`, `BrokenPipe`, `WriteFails`, and `GiveUp` of the contract.
* A failed spawn does tell them (`executor.rs:343`), so the coverage feedback
  keeps an input that never ran: `SpawnFails` and `AddToCorpus`.
  `UnrunKeptOnlyIfTold` says that this and a failed wait are the only ways. It
  is about the coverage feedback that main builds: `UniqueInputFeedback` asks no
  observer and keeps any new input, run or not.
* Every start adds the seed files again (`main.rs:194`): a corpus on disk grows
  by its seeds with each process, though by no more (`SeedsOncePerProcess`).
* A target that ends after the last `try_wait` and before the look at the time is
  called a timeout, and its crash is not reported, although it may have ended
  in time (`executor.rs:206-209`, against the enum's comment at line 16, "The
  target execution exceeded the configured timeout"): `Look`, `Delay`,
  `PollExpires`. So `DeliveredCrashReported` and `DeliveredCrashOnDisk` speak of targets
  that had ended when the last poll began.
* A crashing input the feedback added in an earlier iteration is added again at
  each crash (`main.rs:385`, against `DESIGN_DOCUMENT.md:152`): `BugAdded`.
* `input-delivery = "StdIn"`, the example of `config.rs:10`, does not parse:
  `LoadFails` of `Setup`.

### Bounds, and why they are enough

* `corpus`: 2 inputs, 2 descriptions, 3 entries, 2 faults, 2 crashes. Each
  operation touches the last entry and one other; three entries give a first, a
  last and one between. Two faults and two crashes suffice for a failure during
  the recovery from another. Inputs are only compared, so they are symmetric.
* `corpus_shared`: one input for each process, so that whose input a file holds
  can be told; 2 entries, so that one map can be longer than the other and one
  index written over a longer one; one fault and one kill, in either process. A
  process also ends and starts again by itself, on what the other left. A mixed
  file needs neither fault nor kill.
* `executors`: pipes of 2 units and inputs of 0 to 3 units: empty, fitting, exactly
  full, and too large. Targets of up to 3 operations can read it all, part of it
  or none and can fill the output pipe. A deadline of 2 polls has a poll
  before, at and after. With 2 observers one can fail before or after another;
  the proofs have any number.
* `stall` has an input one unit larger than those for which `executors` shows
  that `execute_sync` returns; that is the boundary.
* `loop`: three inputs (the default seed, a seed, another), two processes of two
  iterations, two faults. An input added in one iteration is met again in the
  next and in the next process. A fault in each of two places
  is what it takes to lose a crashing input under the mistake that
  `EveryCrashIsKept` must notice.
* `campaign`: two processes of one iteration each, a seed and another input,
  targets of one operation and inputs that just fill the pipe of stdin, one failing disk operation,
  one failing call of the executor, one kill. The second process
  meets whatever the first has left; a second iteration in a
  process is the business of `loop`, which the refinement carries over.
* `mutators`: a u64 stand-in of 0 to 9 with the end of i64 at 4, an i32 stand-in
  of -2 to 2, sums of at most 2, so one call reaches either end and three calls
  could cross from far; leaves above, just above and at the limit. Bytes keep
  their 256 values.
* `setup`: every combination of present and absent tables and fields, with 0
  among the numbers.

### Deadlock and fairness

Deadlock is checked where the system always has a next step: in the corpus runs,
`corpus_shared` included, and `lost_crash`. `executors` and `stall` do without,
as the fuzzer and its target may truly block each other for ever. In `loop`,
`campaign` and the `setup` runs the process ends, and `mutators` ends
at its bound on calls.

Safety needs no fairness. `FittingExecuteReturns` and `ExecuteReturns` assume that the operating system
keeps running a process that can run: weak fairness of the fuzzer's own steps
and of the target's. No action of failing is forced, and a target that hangs
need not end. `CampaignEnds` of `loop` assumes weak fairness of the process's steps
together, including the executor's contract; that is what `FittingExecuteReturns`
provides for inputs that fit into the pipe. `CampaignEnds` of `campaign` assumes
no contract: weak fairness of the fuzzer's steps (`Run`) and of the target's,
both of which the operating system schedules. Nothing forces a read to succeed.

## 4. Proofs

`OnDiskCorpus_proofs` proves, for all sets of inputs and descriptions and all
bounds (from `ConstantsAssumption`: the two markers are not members of the
sets, and bounds are natural numbers):

| theorem | statement |
|---|---|
| `TypeCorrect` | `Spec => []TypeOK` |
| `CacheIsCoherent` | `Spec => []CacheCoherent` |
| `MemoryIsReadable` | `Spec => []EntriesReadable` |
| `IndexIsSound` | `Spec => []SavedIndexSound` |
| `InSync` | `Spec => []InSyncOutsideSave` |
| `Refinement` | `Spec => ImplementsCorpus` |

None of these invariants is inductive alone. `Inv` adds what ties them together:
stems are the numbers from 0 in order (`Numbered`), in memory and in the index,
so a new ID never names a file an entry uses; a running `add` has an ID just
past the maps before its input is written and the last ID after
(`CallState`); an index that does not parse has no content (`IndexContent`);
memory extends what the index lists (`MemoryExtendsIndex`); what the index lists
is readable (`IndexReadable`); and the cache has at most one item
(`CacheSingle`). The proof has one lemma per conjunct, each a case split on the
actions of `Next`. `Refinement` maps the corpus its caller sees to the maps in
memory while a process has them and to what `new` would load otherwise; the
steps that matter are `WriteInput` (an `Add`), `Get` and `RandomSelect`
(`Lookup`), and the death of the process (a `Close`, which drops what the index
does not list).

`SharedCorpus_proofs` proves, for any inputs of the two processes and all bounds,
`Numbering` (`Spec => []IdsAreStems`), `WholeEntries` (`Spec => []EntriesWhole`)
and `TrueAnswers` (`Spec => AnswersWereGiven`). The invariant is about one
process and the directory, so it is stated and proved once, in
`CorpusSharer_proofs`, and instantiated for each: `Own` says that the process's maps
list stems under which something was given, with a description that was given, is
missing or came with a mixed index, and what its running call owns; `Directory` the
same of the index, and of each file that it is mixed, holds an input that was
given, or cannot be read because it is being written or was given up.
`BlendMaps` shows the first of whatever a mixed index parses to. `StepKeeps` shows
that a step of one keeps its own part and the directory's, given which files the
other is writing; the other's part is disturbed by no more than further members
of `given`. `StepAnswers` is about the step in which a `get` returns.

`AnyExecutor_proofs` proves of `CommandExecutor`, for any number of observers and all pipe
capacities, programs, inputs and deadlines (from `ConstantsAssumption`: they are
natural numbers, the pipe holds something):

| theorem | statement |
|---|---|
| `TypeCorrect` | `Spec => []TypeOK` |
| `NoTargetIsLeft` | `Spec => []NoStrayTarget` |
| `FileOutlivesTarget` | `Spec => []TempFileScope` |
| `Verdicts` | `Spec => []VerdictIsTrue` |
| `Timeouts` | `Spec => []NoFalseTimeout` |
| `CrashesAreReported` | `Spec => []DeliveredCrashReported` |
| `Refinement` | `Spec => ImplementsExecutor` |

What makes them inductive is which state the target can be in at each point of
the call, what a status that is not returned yet says of how the target ended,
and that a target that was over when a poll began is found by its `try_wait`. Of `AnyExecutor`, which adds the
executor that runs in process, it proves `PanicIsACrash`
(`AnySpec => []PanicIsCrash`), from an invariant that ties the status decided on
to how the harness ended, and `EitherRefines` (`AnySpec => ImplementsExecutor`).

`FuzzLoop_proofs` proves, for all inputs, seeds, kinds of feedback and bounds
(from `ConstantsAssumption`: `NoHash` is not an input, the seeds and the
default seed are):

| theorem | statement |
|---|---|
| `TypeCorrect` | `Spec => []TypeOK` |
| `DataIsCurrent` | `Spec => []FeedbackSeesThisExecution` |
| `KnowledgeIsTrue` | `Spec => []KnownMatchesCorpus` |
| `AddedOnce` | `Spec => []FeedbackAddsOnce` |
| `CrashesAreKept` | `Spec => []EveryCrashIsKept` |
| `CrashesAreRepeats` | `Spec => []CrashAddsOnlyRepeats` |
| `NeverEmpty` | `Spec => []CorpusNeverEmpty` |

`FeedbackAddsOnce` is part of the invariant; to it come `ExecutionState`, what
the observer's hash and the status are at each point of an execution, and
`CorpusState`, what is known and in the corpus at each point of the loop. The
first gives that the feedback decides on this execution's data, the second that
an input it finds new is not in the corpus. Together they also give that the
crash branch adds only repeats: a crash is reported after the observers were
told, so a new crashing input has been added by the feedback.

`Campaign_proofs` proves, for all inputs, seeds, kinds of feedback, deadlines,
pipes and bounds (from `ConstantsAssumption`: those of the modules below it):

| theorem | statement |
|---|---|
| `Refinement` | `Spec => ImplementsFuzzLoop` |
| `CrashesAreOnDisk` | `Spec => []DeliveredCrashOnDisk` |
| `SeedsAddedOnce` | `Spec => []SeedsOncePerProcess` |
| `KeptOnlyIfTold` | `Spec => []UnrunKeptOnlyIfTold` |

It proves nothing of the corpus, the executor or the loop again. It instantiates
their proofs for `Campaign`'s variables (`PD`, `PX`, `PL`), in four stages:

1. Every step of a campaign is a step of `OnDiskCorpus` or leaves it alone
   (`DiskStep`), and so for the executor (`ExecStep`), but for the death of a
   process, which leaves an executor that has not been used. So the invariants of
   both hold here (`CallInvStep`).
2. `Inv` adds what ties main to them. `Calling`: a call runs only at the step of
   main that waits for it, and has its input and description (`AddAsked`);
   without it nothing says which entry an `add` that returns has added. `Memory`:
   what main has before it begins. `Learning`: which entries main knows while it
   reads one at a time; `FuzzLoop` learns all at once. `Scheduled`: the cache
   has the entry that main selected, so its second `get` cannot fail. `Told`:
   an observer that was not told has no data. `Budget`: the corpus calls that
   failed are no more than `MaxDiskFaults` twice, once for failing operations
   and once for seed files that cannot be read, which is the bound with which
   `FuzzLoop` is instantiated.
3. Every step is one of `FuzzLoop` or a stutter (`LoopStep`), with a lemma for
   each. The entries that `FuzzLoop` sees are those of the calls that returned:
   `OnDiskCorpus_proofs` defines them (`Returned`), ties them to memory
   (`ReturnedOfMemory`) and shows what each end of a call makes of them.
4. So the invariants of `FuzzLoop` hold too (`LoopInvHolds`). `CrashesAreOnDisk`
   joins all three: a delivered crash is reported (`CrashDecided`, executor), a
   reported one is kept (`EveryCrashIsKept`, loop) and what memory has is in the
   index (`InSyncOutsideSave`, corpus). `SeedsAddedOnce` rests on a count in the
   loop, `SeedsCounted`: the copies of a seed are fewer than the processes while
   this process has it yet to add. The entry of an `add` that has not returned
   is one more (`EntryInFlight`), and then it is still to be added.

`MCMutators_proofs` proves `FlipIsOneByte`: for every byte string, each result has
the same length (one for the empty string) and differs in exactly one byte.
`FuzzLoop` builds on it; `FlipChanges` (`Spec => []FlipChangesOneByte`) is what
the run checks of it.

It also proves, of `JsonStructureAwareMutator`, for all fields, depth limits, integer
ranges and numbers of calls (from `ConstantsAssumption` and
`StructuresAssumption`: the ranges are ordered, every field's range lies between
the ends of i64 and u64, and the structures to begin with have their types):

| theorem | statement |
|---|---|
| `TypeCorrect` | `Spec => []TypeOK` |
| `DepthIsALimit` | `Spec => DeepLeavesStay` |
| `NoIntegerCrosses` | `Spec => EndOfI64IsABarrier` |
| `NonFiniteFate` | `Spec => NonFiniteFloats` |

All follow from one invariant, `Related`: while a call runs, each leaf of the
JSON is related to the leaf it was made from as the theorems say of the result.

`Setup_proofs` proves `IterationsAsAsked` (`Spec => []IterationsByPrecedence`) and
`CommandIsAsAsked` (`Spec => []CommandAsAsked`) for every file, command line
and default. The invariant says, of each point of main, in whose hands a setting
is: the file's table, the configuration, the options or the campaign.

Only model-checked: all liveness (`FittingExecuteReturns`,
`CampaignEnds`), which is out of the prover's reach, as is ENABLED; and what the
runs that expect a violation refute. Every other property of a run is proved.

## 5. Not modelled

* The order in which a directory of seeds is listed while `add` creates files in
  it: what `read_dir` says of a directory that grows is up to the operating
  system. `SeedNext` may add any input any number of times, which covers
  what such a seeding does to the corpus.
* What a killed fuzzer leaves outside its corpus directory: a target without a
  parent, and its input file.
* More than two fuzzers on one directory. Any process other than the one taking
  a step is the same to it.
* Structures with leaves of other kinds: an enum or a `char`, whose mutated string
  may not fit, and an `Option` of a type that is null itself, such as
  `Option<Option<T>>`, which comes back as `None` like an `Option<f64>` with a NaN.
* Errors of `serde_json::to_value` and of bincode's encoder, which no structure
  with derived implementations meets. The CLI uses `FlipSingleByteMutator` only.
* `ProcessOutput`: its exit code and signal are computed and dropped, and
  observers get an empty one (`executor.rs:389`). No observer reads it.
* Loss of power, collisions of MD5, logging, progress output, the random number
  generator's fixed seed, `input.rs`, the crate root, test scripts and hooks.

## 6. Plan

Done, in this order: the corpus on disk with its contract and proofs; both
executors with their contract; the fuzz loop over the contracts; the mutators
with proofs; the configuration; the campaign over the detailed modules; two
processes on one directory, with proofs; the proofs about the executors and the
fuzz loop; the proofs about the configuration, and about the campaign on top of
all others.

What could follow: a proof of the refinement of two processes on one directory to
what `EntriesWhole` leaves of the contract; the rest of the configuration's parse
errors. The remaining parts of the repository keep no state.
