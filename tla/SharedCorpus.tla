---------------------------- MODULE SharedCorpus ----------------------------
(***************************************************************************)
(* Two fuzzer processes, A and B, on one corpus directory.  They share the *)
(* input files and the index file, each step of one may fall between any   *)
(* two of the other, and either may be killed and started again.           *)
(*                                                                         *)
(* They give out the same IDs, overwrite each other's inputs, lose each    *)
(* other's entries and can mix their files up: the properties say what is  *)
(* true all the same.                                                      *)
(***************************************************************************)
EXTENDS Naturals, Sequences

CONSTANTS
  InputA, InputB,   \* inputs either process comes upon
  Unreadable, NoDescr, Mixture, MaxEntries, MaxFaults, MaxCrashes

ASSUME ConstantsAssumption ==
  /\ MaxEntries \in Nat /\ MaxFaults \in Nat /\ MaxCrashes \in Nat
  /\ Unreadable \notin InputA \cup InputB \cup {Mixture}
  /\ NoDescr \notin {"A", "B"}

VARIABLES
  files, index, given, spoiled, faults, crashes,
  stemsA, metadataA, cacheA, pcA, opA, seedingA, foundA, resultA,
  stemsB, metadataB, cacheB, pcB, opB, seedingB, foundB, resultB

processA == <<stemsA, metadataA, cacheA, pcA, opA, seedingA, foundA, resultA>>
processB == <<stemsB, metadataB, cacheB, pcB, opB, seedingB, foundB, resultB>>
vars == <<files, index, given, spoiled, faults, crashes, processA, processB>>

\* The stems whose input a process is writing.
WritesA == IF pcA = "write" THEN {opA.id} ELSE {}
WritesB == IF pcB = "write" THEN {opB.id} ELSE {}

\* A description tells whose entry it is.
A == INSTANCE CorpusSharer WITH
       Input <- InputA, Descr <- {"A"},
       stems <- stemsA, metadata <- metadataA, cache <- cacheA, pc <- pcA,
       op <- opA, seeding <- seedingA, found <- foundA, result <- resultA,
       othersWrite <- WritesB, otherSaves <- pcB = "flush"
B == INSTANCE CorpusSharer WITH
       Input <- InputB, Descr <- {"B"},
       stems <- stemsB, metadata <- metadataB, cache <- cacheB, pc <- pcB,
       op <- opB, seeding <- seedingB, found <- foundB, result <- resultB,
       othersWrite <- WritesA, otherSaves <- pcA = "flush"

Init ==
  /\ A!Init
  /\ B!Init
  /\ given = {} /\ spoiled = {}

Next ==
  \/ A!Step /\ UNCHANGED processB
  \/ B!Step /\ UNCHANGED processA

Spec == Init /\ [][Next]_vars

-----------------------------------------------------------------------------
(* Properties                                                              *)

\* The maps of either process and those an index on disk would load.
Maps == {[stems |-> stemsA, metadata |-> metadataA],
         [stems |-> stemsB, metadata |-> metadataB],
         [stems |-> index.stems, metadata |-> index.metadata]}

\* In memory and on disk IDs count the stems up from 0 without gap or
\* repetition, whoever saved last, whichever index was loaded and however the
\* two were mixed up.
IdsAreStems ==
  \A m \in Maps : \A k \in 1 .. Len(m.stems) : m.stems[k] = k - 1

\* What get reads was given to the ID asked for, the input by one add and the
\* description by the same or another, unless the input was read from a file
\* that two processes wrote at once, or that one was writing, or the
\* description came with such an index.
Answered(item, othersWrite) ==
  /\ \/ item.id \in othersWrite \/ files[item.id] = Mixture
     \/ \E g \in given : g.id = item.id /\ g.input = item.input
  /\ \/ item.descr = Mixture
     \/ \E g \in given : g.id = item.id /\ g.descr = item.descr

AnswersWereGiven ==
  [][/\ \A item \in foundA' \ (foundA \cup cacheA) : Answered(item, WritesB)
     /\ \A item \in foundB' \ (foundB \cup cacheB) : Answered(item, WritesA)]_vars

\* The input file of an entry that any process lists holds an input added under
\* that ID, unless two processes wrote it at once, or one is writing it or gave
\* up half way.
EntriesWhole ==
  \A m \in Maps : \A k \in 1 .. Len(m.stems) :
    LET s == m.stems[k] IN
      \/ files[s] = Mixture
      \/ s \in spoiled \cup WritesA \cup WritesB
      \/ \E g \in given : g.id = s /\ g.input = files[s]
=============================================================================
