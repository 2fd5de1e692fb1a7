---------------------------- MODULE OnDiskCorpus ----------------------------
(***************************************************************************)
(* OnDiskCorpus of corpus.rs: one file per input, a JSON index that maps   *)
(* IDs to file name stems and stems to metadata, the same two maps in      *)
(* memory, and a cache of the last entry read.                             *)
(*                                                                         *)
(* Each file system operation is a step, so that a crash can fall between  *)
(* any two of them and each can fail.  A call runs to its end before the   *)
(* next begins (every method takes &mut self).                             *)
(*                                                                         *)
(* A stem is "input_" and the zero-padded ID, which is injective: the stem *)
(* of ID i is modelled as i.                                               *)
(*                                                                         *)
(* A definition named Faulty... is not part of the model: it is a mistake  *)
(* the definition after it could have contained, kept to show that the     *)
(* properties would notice.                                                *)
(***************************************************************************)
EXTENDS Naturals, Sequences

CONSTANTS
  Input,        \* inputs
  Descr,        \* metadata descriptions
  Unreadable,   \* a file that is missing, empty or cut short: decoding fails
  NoDescr,      \* a stem without an entry in the metadata map
  MaxEntries,   \* bound: entries
  MaxFaults,    \* bound: file system operations that fail
  MaxCrashes    \* bound: processes that die at an arbitrary point

ASSUME ConstantsAssumption ==
  /\ Unreadable \notin Input
  /\ NoDescr \notin Descr
  /\ MaxEntries \in Nat
  /\ MaxFaults \in Nat
  /\ MaxCrashes \in Nat

VARIABLES
  files,        \* disk: the input file of each stem
  index,        \* disk: corpus_index.json
  stems,        \* memory: id_to_filename_stem
  metadata,     \* memory: filename_to_metadata_index
  cache,        \* memory: last_accessed_cache, {} for None
  pc,           \* the operation the running call does next; "down": no process
  op,           \* the running call and its arguments
  seeding,      \* the running add is one of load_initial_seeds
  found,        \* what the last get or random_select returned, {} for None;
                \* the ID is the one asked for
  result,       \* how the last new, add or load_initial_seeds ended
  faults,       \* operations that failed so far
  crashes       \* processes killed so far

disk   == <<files, index>>
memory == <<stems, metadata, cache>>
caller == <<found, result>>
bounds == <<faults, crashes>>
vars   == <<disk, memory, pc, op, seeding, caller, bounds>>

Stem    == 0 .. MaxEntries - 1
IdArg   == 0 .. MaxEntries          \* IDs asked for: one is never given out
Meta    == [Stem -> Descr \cup {NoDescr}]
Index   == [state    : {"missing", "empty", "torn", "saved"},
            stems    : Seq(Stem),
            metadata : Meta]
Item    == [id : Stem, input : Input, descr : Descr]

NoFiles == [s \in Stem |-> Unreadable]
NoMeta  == [s \in Stem |-> NoDescr]

\* An index file of the given state.  One that is not intact has no content.
IndexFile(state) == [state |-> state, stems |-> <<>>, metadata |-> NoMeta]
Broken == {"empty", "torn"}

NoOp  == [call |-> "none"]
NewOp == [call |-> "new"]
FaultyAddOp(id, input, descr) ==   \* the metadata is not converted
  [call |-> "add", id |-> id, input |-> input, descr |-> NoDescr]

AddOp(id, input, descr) ==
  [call |-> "add", id |-> id, input |-> input, descr |-> descr]

Fault == /\ faults < MaxFaults
         /\ faults' = faults + 1

-----------------------------------------------------------------------------

Init ==
  /\ files = NoFiles
  /\ index = IndexFile("missing")
  /\ stems = <<>>
  /\ metadata = NoMeta
  /\ cache = {}
  /\ pc = "down"
  /\ op = NoOp
  /\ seeding = FALSE
  /\ found = {}
  /\ result = "none"
  /\ faults = 0
  /\ crashes = 0

-----------------------------------------------------------------------------
(* OnDiskCorpus::new                                                       *)

\* The index file exists: an intact one is loaded, an empty one is taken for
\* a new corpus.
OpenLoad ==
  /\ pc = "down"
  /\ index.state \in {"empty", "saved"}
  /\ stems' = index.stems
  /\ metadata' = index.metadata
  /\ pc' = "idle"
  /\ result' = "ok"
  /\ UNCHANGED <<disk, cache, op, seeding, found, bounds>>

\* No index file: start empty, and save an index at once.
OpenFresh ==
  /\ pc = "down"
  /\ index.state = "missing"
  /\ pc' = "truncate"
  /\ op' = NewOp
  /\ result' = "none"
  /\ UNCHANGED <<disk, memory, seeding, found, bounds>>

\* An index that does not parse, or a directory or file that cannot be
\* opened: new returns the error and there is no corpus.
OpenFails ==
  /\ pc = "down"
  /\ \/ index.state = "torn" /\ UNCHANGED faults
     \/ Fault
  /\ result' = "err"
  /\ UNCHANGED <<disk, memory, pc, op, seeding, found, crashes>>

-----------------------------------------------------------------------------
(* add                                                                     *)

Idle == pc = "idle" /\ ~seeding

FaultyNewId ==   \* the ID of the last entry again
  IF stems = <<>> THEN 0 ELSE Len(stems) - 1

NewId == Len(stems)

\* The call: the ID and the stem come from the length of the ID map.
StartAdd ==
  /\ NewId < MaxEntries
  /\ \E input \in Input, descr \in Descr : op' = AddOp(NewId, input, descr)
  /\ pc' = "create"
  /\ found' = {}
  /\ result' = "none"
  /\ UNCHANGED <<disk, memory, seeding, bounds>>

AddCall == Idle /\ StartAdd

\* `?` on an error: add ends, and so does the load_initial_seeds it is part
\* of; new leaves no corpus.
ReturnErr ==
  /\ pc' = IF op.call = "new" THEN "down" ELSE "idle"
  /\ op' = NoOp
  /\ seeding' = FALSE
  /\ result' = "err"

\* File::create makes the file, or empties one that a lost entry left behind.
CreateInput ==
  /\ pc = "create"
  /\ files' = [files EXCEPT ![op.id] = Unreadable]
  /\ pc' = "write"
  /\ UNCHANGED <<index, memory, op, seeding, caller, bounds>>

FaultyCreateInputFails ==   \* the error is ignored
  /\ pc = "create"
  /\ Fault
  /\ stems' = Append(stems, op.id)
  /\ metadata' = [metadata EXCEPT ![op.id] = op.descr]
  /\ pc' = "truncate"
  /\ UNCHANGED <<disk, cache, op, seeding, caller, crashes>>

\* The input cannot be encoded, or its file cannot be created.
CreateInputFails ==
  /\ pc = "create"
  /\ Fault
  /\ ReturnErr
  /\ UNCHANGED <<disk, memory, found, crashes>>

FaultyWriteInput ==   \* the index is not saved
  /\ pc = "write"
  /\ files' = [files EXCEPT ![op.id] = op.input]
  /\ stems' = Append(stems, op.id)
  /\ metadata' = [metadata EXCEPT ![op.id] = op.descr]
  /\ pc' = "idle"
  /\ op' = NoOp
  /\ result' = "ok"
  /\ UNCHANGED <<index, cache, seeding, found, bounds>>

\* The input is written; then the entry enters the maps in memory.
WriteInput ==
  /\ pc = "write"
  /\ files' = [files EXCEPT ![op.id] = op.input]
  /\ stems' = Append(stems, op.id)
  /\ metadata' = [metadata EXCEPT ![op.id] = op.descr]
  /\ pc' = "truncate"
  /\ UNCHANGED <<index, cache, op, seeding, caller, bounds>>

FaultyWriteInputFails ==   \* the error is ignored
  /\ pc = "write"
  /\ Fault
  /\ stems' = Append(stems, op.id)
  /\ metadata' = [metadata EXCEPT ![op.id] = op.descr]
  /\ pc' = "truncate"
  /\ UNCHANGED <<disk, cache, op, seeding, caller, crashes>>

\* The write fails part way: the file stays cut short.
WriteInputFails ==
  /\ pc = "write"
  /\ Fault
  /\ ReturnErr
  /\ UNCHANGED <<disk, memory, found, crashes>>

-----------------------------------------------------------------------------
(* save_index_to_disk, the tail of add and of a new without an index file  *)

\* add drops its cache once the index is saved; in new there is none yet.
ReturnOk ==
  /\ pc' = "idle"
  /\ op' = NoOp
  /\ cache' = {}
  /\ result' = "ok"

\* File::create empties the index file in place.
TruncateIndex ==
  /\ pc = "truncate"
  /\ index' = IndexFile("empty")
  /\ pc' = "flush"
  /\ UNCHANGED <<files, memory, op, seeding, caller, bounds>>

TruncateFails ==
  /\ pc = "truncate"
  /\ Fault
  /\ ReturnErr
  /\ UNCHANGED <<disk, memory, found, crashes>>

FaultyFlushIndex ==   \* what is saved was put together before the new entry
  /\ pc = "flush"
  /\ LET ids == SelectSeq(stems, LAMBDA k : op.call = "new" \/ k # op.id)
     IN  index' = [state |-> "saved", stems |-> ids, metadata |-> metadata]
  /\ ReturnOk
  /\ UNCHANGED <<files, stems, metadata, seeding, found, bounds>>

FlushIndex ==
  /\ pc = "flush"
  /\ index' = [state |-> "saved", stems |-> stems, metadata |-> metadata]
  /\ ReturnOk
  /\ UNCHANGED <<files, stems, metadata, seeding, found, bounds>>

\* Writing fails while the BufWriter is dropped, which ignores the error:
\* the save succeeds.
FlushLost ==
  /\ pc = "flush"
  /\ Fault
  /\ \E state \in Broken : index' = IndexFile(state)
  /\ ReturnOk
  /\ UNCHANGED <<files, stems, metadata, seeding, found, crashes>>

\* Writing fails while the buffer fills, and to_writer_pretty reports it.
FlushFails ==
  /\ pc = "flush"
  /\ Fault
  /\ \E state \in Broken : index' = IndexFile(state)
  /\ ReturnErr
  /\ UNCHANGED <<files, memory, found, crashes>>

-----------------------------------------------------------------------------
(* load_initial_seeds: hidden files and the index itself are skipped       *)

LoadSeeds ==
  /\ Idle
  /\ seeding' = TRUE
  /\ found' = {}
  /\ result' = "none"
  /\ UNCHANGED <<disk, memory, pc, op, bounds>>

SeedNext == pc = "idle" /\ seeding /\ StartAdd

SeedsReturn(res) ==
  /\ pc = "idle"
  /\ seeding
  /\ seeding' = FALSE
  /\ result' = res
  /\ UNCHANGED <<disk, memory, pc, op, found, bounds>>

SeedsDone == SeedsReturn("ok")

\* A seed that cannot be read or decoded ends the call; the seeds before it
\* stay.
SeedsFail == SeedsReturn("err")

-----------------------------------------------------------------------------
(* get and random_select                                                   *)

Cached(id) == [id    |-> id,
               input |-> files[stems[id + 1]],
               descr |-> metadata[stems[id + 1]]]

Readable(id) == /\ files[stems[id + 1]] # Unreadable
                /\ metadata[stems[id + 1]] # NoDescr

\* What a miss finds: nothing for an ID out of range or an entry that cannot
\* be read.
Loaded(id) == {Cached(i) : i \in {j \in {id} : j < Len(stems) /\ Readable(j)}}

FaultyHit(id) == cache # {}   \* the ID is not compared

Hit(id) == \E item \in cache : item.id = id

GetHit(id) ==
  /\ Hit(id)
  /\ found' = {[item EXCEPT !.id = id] : item \in cache}
  /\ UNCHANGED <<cache, faults>>

\* take() leaves the cache empty when the ID is another one.
GetMiss(id) ==
  /\ ~Hit(id)
  /\ found' = Loaded(id)
  /\ cache' = Loaded(id)
  /\ UNCHANGED faults

GetFails(id) ==
  /\ ~Hit(id)
  /\ id < Len(stems)
  /\ Fault
  /\ found' = {}
  /\ cache' = {}

Lookup(id) ==
  /\ GetHit(id) \/ GetMiss(id) \/ GetFails(id)
  /\ UNCHANGED <<disk, stems, metadata, pc, op, seeding, result, crashes>>

Get == Idle /\ \E id \in IdArg : Lookup(id)

RandomSelect ==
  /\ Idle
  /\ \E id \in 0 .. Len(stems) - 1 : Lookup(id)

RandomSelectEmpty ==
  /\ Idle
  /\ stems = <<>>
  /\ found' = {}
  /\ cache' = {}
  /\ UNCHANGED <<disk, stems, metadata, pc, op, seeding, result, bounds>>

-----------------------------------------------------------------------------
(* The process ends, at a quiet point or at any other                      *)

Forget ==
  /\ pc' = "down"
  /\ stems' = <<>>
  /\ metadata' = NoMeta
  /\ cache' = {}
  /\ op' = NoOp
  /\ seeding' = FALSE
  /\ found' = {}
  /\ UNCHANGED <<files, result, faults>>

Exit ==
  /\ Idle
  /\ Forget
  /\ UNCHANGED <<index, crashes>>

\* A process killed while the index is written leaves it empty or torn.
Crash ==
  /\ pc # "down"
  /\ crashes < MaxCrashes
  /\ crashes' = crashes + 1
  /\ Forget
  /\ \/ UNCHANGED index
     \/ pc = "flush" /\ index' = IndexFile("torn")

-----------------------------------------------------------------------------

Next ==
  \/ OpenLoad \/ OpenFresh \/ OpenFails
  \/ AddCall \/ CreateInput \/ CreateInputFails \/ WriteInput \/ WriteInputFails
  \/ TruncateIndex \/ TruncateFails \/ FlushIndex \/ FlushLost \/ FlushFails
  \/ LoadSeeds \/ SeedNext \/ SeedsDone \/ SeedsFail
  \/ Get \/ RandomSelect \/ RandomSelectEmpty
  \/ Exit \/ Crash

Spec == Init /\ [][Next]_vars

-----------------------------------------------------------------------------
(* Properties                                                              *)

\* Every variable has its type.
TypeOK ==
  /\ files \in [Stem -> Input \cup {Unreadable}]
  /\ index \in Index
  /\ stems \in Seq(Stem)
  /\ metadata \in Meta
  /\ cache \subseteq Item
  /\ pc \in {"down", "idle", "create", "write", "truncate", "flush"}
  /\ op \in {NoOp, NewOp} \cup
           [call : {"add"}, id : Stem, input : Input, descr : Descr]
  /\ seeding \in BOOLEAN
  /\ found \subseteq Item
  /\ result \in {"none", "ok", "err"}
  /\ faults \in 0 .. MaxFaults
  /\ crashes \in 0 .. MaxCrashes

\* A cached item is the entry its ID names, through every add, failed save
\* and re-read: get may answer from the cache without looking at the disk.
CacheCoherent ==
  \A item \in cache : /\ item.id < Len(stems)
                      /\ item = Cached(item.id)

\* Every entry of the maps in memory has a complete input file and metadata,
\* whatever failed or died before: the error branches of get are met only
\* when a read itself fails.
EntriesReadable ==
  \A id \in 0 .. Len(stems) - 1 : Readable(id)

\* An index that parses lists only complete input files, at every instant at
\* which the process may be killed, and never an entry the running process
\* does not know.
SavedIndexSound ==
  /\ \A k \in 1 .. Len(index.stems) :
       /\ files[index.stems[k]] # Unreadable
       /\ index.metadata[index.stems[k]] # NoDescr
  /\ pc # "down" => \A k \in 1 .. Len(index.stems) :
       k <= Len(stems) /\ stems[k] = index.stems[k]

\* As long as no operation failed, a process killed anywhere but inside
\* save_index_to_disk loses nothing: the index file holds what memory holds.
InSyncOutsideSave ==
  faults = 0 /\ pc \in {"idle", "create", "write"} =>
    /\ index.stems = stems
    /\ index.metadata = metadata

\* The corpus its callers see: the maps in memory while a process has them,
\* what new would load while there is none.
View(fs, ids, meta) ==
  [k \in 1 .. Len(ids) |-> [input |-> fs[ids[k]], descr |-> meta[ids[k]]]]

Up == pc # "down"

Entries == IF Up THEN View(files, stems, metadata)
                 ELSE View(files, index.stems, index.metadata)

Contract == INSTANCE Corpus WITH open <- Up, entries <- Entries

\* OnDiskCorpus is a corpus: entries are only ever appended, keep their IDs
\* and contents across failed calls and restarts, and a lookup answers with
\* the entry asked for.
ImplementsCorpus == Contract!Spec

-----------------------------------------------------------------------------
(* Statements of the documentation that the code does not keep             *)

\* "provides persistence across fuzzer runs" (corpus.rs:295): an entry that
\* add has acknowledged is in the corpus the next run loads.
Acknowledged == IF op.call = "add" /\ Len(stems) > op.id
                THEN Len(stems) - 1 ELSE Len(stems)

CrashKeepsAcknowledged ==
  [][Up /\ ~Up' => Len(index'.stems) >= Acknowledged]_vars

\* "Persist index change" (corpus.rs:537): when add returns Ok, the index file
\* lists the new entry.
AddOkMeansPersisted ==
  [][op.call = "add" /\ result' = "ok" => index'.stems = stems']_vars
=============================================================================
