------------------------------- MODULE Corpus -------------------------------
(***************************************************************************)
(* What a corpus promises its callers (trait Corpus of corpus.rs, with     *)
(* InMemoryCorpus, which does nothing more): an append-only sequence of    *)
(* entries whose position is the entry's ID.  While the corpus is open an  *)
(* entry is never changed, moved or removed, and a lookup answers with the *)
(* entry of the ID asked for, or with nothing.                             *)
(*                                                                         *)
(* A corpus that lives on disk can be closed and opened again.  The        *)
(* contract lets a close drop entries, but only from the end: what is left *)
(* keeps its IDs.                                                          *)
(***************************************************************************)
EXTENDS Naturals, Sequences

CONSTANTS
  Input,       \* inputs a fuzzer stores
  Descr        \* metadata descriptions

VARIABLES
  open,        \* the corpus value exists in some process
  entries,     \* the stored entries; entry ID i is entries[i + 1]
  found        \* the references the last lookup returned, with the ID asked
               \* for: at most one answer

vars == <<open, entries, found>>

Entry == [input : Input, descr : Descr]

Answer(id) == [id    |-> id,
               input |-> entries[id + 1].input,
               descr |-> entries[id + 1].descr]

Init ==
  /\ open = FALSE
  /\ entries = <<>>
  /\ found = {}

Open ==
  /\ ~open
  /\ open' = TRUE
  /\ UNCHANGED <<entries, found>>

\* Add appends: the new ID is the old length.  It takes the corpus by
\* exclusive reference, so no earlier answer survives it.
Add ==
  /\ open
  /\ \E e \in Entry : entries' = Append(entries, e)
  /\ found' = {}
  /\ UNCHANGED open

\* Get, and random selection, which is a get of an ID in range.
Lookup ==
  /\ open
  /\ \E id \in 0 .. Len(entries) - 1 : found' = {Answer(id)}
  /\ UNCHANGED <<open, entries>>

\* A lookup that has nothing to return, and any other call that drops the
\* references the last one returned.
NoAnswer ==
  /\ open
  /\ found' = {}
  /\ UNCHANGED <<open, entries>>

Close ==
  /\ open
  /\ open' = FALSE
  /\ \E n \in 0 .. Len(entries) : entries' = SubSeq(entries, 1, n)
  /\ found' = {}

Next == Open \/ Add \/ Lookup \/ NoAnswer \/ Close

Spec == Init /\ [][Next]_vars
=============================================================================
