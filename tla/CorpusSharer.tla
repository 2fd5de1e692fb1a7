---------------------------- MODULE CorpusSharer ----------------------------
(***************************************************************************)
(* One of two processes that have the same corpus directory open, seen     *)
(* from its side.  Nothing in OnDiskCorpus keeps the other out: a process  *)
(* reads the index once, in new, and from then on goes by its own maps.    *)
(*                                                                         *)
(* What OnDiskCorpus takes as one step is not one among several processes. *)
(* An input is written in as many writes as write_all needs, an index in   *)
(* one for every 8 KiB of its BufWriter, and both are read in pieces.  If  *)
(* a process opens a file for writing while the other is still writing it, *)
(* either may overwrite any part of what the other has written: the file   *)
(* is mixed, and stays so, whatever the two do, until one of them empties  *)
(* it while the other is not writing.  A mixed file reads as anything, and *)
(* so does one that the other is writing.                                  *)
(*                                                                         *)
(* The seeds of load_initial_seeds are adds like any other here.           *)
(***************************************************************************)
EXTENDS OnDiskCorpus

CONSTANT
  Mixture      \* what a mixed file says, and what is read from one or loaded
               \* with one: an input, or a description, that may be anyone's
               \* or no one's

VARIABLES
  given,        \* every add, of any process, that has written its input
  spoiled,      \* stems whose last write was given up half way
  othersWrite,  \* the stems whose input the other process is writing
  otherSaves    \* the other process is writing the index

history == <<given, spoiled>>

-----------------------------------------------------------------------------
(* The index                                                               *)

\* The maps that a mixed index may parse to.  Its list of stems is that of one
\* of those written into it: stems have one length, so the lists agree as far
\* as the shorter one goes, and a piece that goes on elsewhere does not parse.
\* The metadata may come from any of them, and some may be missing (that of
\* stems not listed is never looked at).
Blend(n, missing) ==
  [stems    |-> [k \in 1 .. n |-> k - 1],
   metadata |-> [s \in Stem |-> IF s < n /\ s \notin missing THEN Mixture ELSE NoDescr]]

Given == {g.id : g \in given}

Blends == {Blend(n, missing) : n \in {m \in 0 .. MaxEntries : 0 .. m - 1 \subseteq Given},
                               missing \in SUBSET Stem}

\* load_index_from_disk finds no index file.
Look ==
  /\ pc = "down"
  /\ index.state = "missing"
  /\ pc' = "looked"
  /\ UNCHANGED <<disk, memory, op, seeding, caller, bounds>>

\* Then new checks again whether it has to save one: if another process has
\* meanwhile, that index is neither loaded nor replaced.
LookAgain ==
  /\ pc = "looked"
  /\ IF index.state = "missing"
       THEN pc' = "truncate" /\ op' = NewOp /\ result' = "none"
       ELSE pc' = "idle" /\ result' = "ok" /\ UNCHANGED op
  /\ UNCHANGED <<disk, memory, seeding, found, bounds>>

\* The index is mixed, or the other process is saving it.
LoadMixed ==
  /\ pc = "down"
  /\ otherSaves \/ index.state = "mixed"
  /\ \/ \E blend \in Blends : /\ stems' = blend.stems
                              /\ metadata' = blend.metadata
        /\ pc' = "idle" /\ result' = "ok"
     \/ result' = "err" /\ UNCHANGED <<stems, metadata, pc>>
  /\ UNCHANGED <<disk, cache, op, seeding, found, bounds>>

TruncateMixed ==
  /\ pc = "truncate"
  /\ index' = IndexFile("mixed")
  /\ pc' = "flush"
  /\ UNCHANGED <<files, memory, op, seeding, caller, bounds>>

Truncate == IF otherSaves THEN TruncateMixed ELSE TruncateIndex

\* The save of a mixed index ends, and leaves it mixed.
FlushMixed ==
  /\ pc = "flush"
  /\ \/ ReturnOk /\ UNCHANGED <<stems, metadata, faults>>
     \/ Fault /\ ReturnErr /\ UNCHANGED memory
  /\ UNCHANGED <<disk, seeding, found, crashes>>

Flush == IF index.state = "mixed" THEN FlushMixed
                                  ELSE FlushIndex \/ FlushLost \/ FlushFails

\* A process that is killed does not make a mixed index any better.
Killed ==
  /\ Crash
  /\ index.state = "mixed" => UNCHANGED index

-----------------------------------------------------------------------------
(* The input files                                                         *)

CreateMixed ==
  /\ files' = [files EXCEPT ![op.id] = Mixture]
  /\ pc' = "write"
  /\ UNCHANGED <<index, memory, op, seeding, caller, bounds>>

Create ==
  /\ pc = "create"
  /\ IF op.id \in othersWrite THEN CreateMixed ELSE CreateInput

\* The write to a mixed file ends, and leaves it mixed.
WriteMixed ==
  /\ stems' = Append(stems, op.id)
  /\ metadata' = [metadata EXCEPT ![op.id] = op.descr]
  /\ pc' = "truncate"
  /\ UNCHANGED <<disk, cache, op, seeding, caller, bounds>>

Write ==
  /\ pc = "write"
  /\ IF files[op.id] = Mixture THEN WriteMixed ELSE WriteInput
  /\ given' = given \cup {[id |-> op.id, input |-> op.input, descr |-> op.descr]}
  /\ spoiled' = spoiled \ {op.id}

\* A write that fails or is killed: a file that is not mixed stays cut short.
Spoil ==
  /\ pc = "write"
  /\ WriteInputFails \/ Killed
  /\ spoiled' = spoiled \cup {op.id}
  /\ UNCHANGED given

\* The file of the entry is mixed, or the other process is writing it.
LookupMixed(id) ==
  /\ ~Hit(id)
  /\ id < Len(stems)
  /\ stems[id + 1] \in othersWrite \/ files[stems[id + 1]] = Mixture
  /\ \/ /\ metadata[stems[id + 1]] # NoDescr
        /\ found' = {[Cached(id) EXCEPT !.input = Mixture]}
     \/ found' = {}
  /\ cache' = found'
  /\ UNCHANGED <<disk, stems, metadata, pc, op, seeding, result, bounds>>

GetMixed == Idle /\ \E id \in IdArg : LookupMixed(id)

-----------------------------------------------------------------------------

\* Steps that write no input.
Quiet ==
  \/ OpenLoad \/ OpenFails \/ Look \/ LookAgain \/ LoadMixed
  \/ AddCall \/ Create \/ CreateInputFails
  \/ Truncate \/ TruncateFails \/ Flush
  \/ Get \/ GetMixed
  \/ Exit
  \/ pc # "write" /\ Killed

Step ==
  \/ Quiet /\ UNCHANGED history
  \/ Write
  \/ Spoil
=============================================================================
