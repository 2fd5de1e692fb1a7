------------------------- MODULE SharedCorpus_proofs -------------------------
(***************************************************************************)
(* Proofs about SharedCorpus, for all inputs and any numbers of entries,   *)
(* faults and crashes.  What one process keeps is proved once, in          *)
(* CorpusSharer_proofs; here it is put together for the two.               *)
(***************************************************************************)
EXTENDS SharedCorpus, SequenceTheorems, TLAPS

PA == INSTANCE CorpusSharer_proofs WITH
        Input <- InputA, Descr <- {"A"},
        stems <- stemsA, metadata <- metadataA, cache <- cacheA, pc <- pcA,
        op <- opA, seeding <- seedingA, found <- foundA, result <- resultA,
        othersWrite <- WritesB, otherSaves <- pcB = "flush"
PB == INSTANCE CorpusSharer_proofs WITH
        Input <- InputB, Descr <- {"B"},
        stems <- stemsB, metadata <- metadataB, cache <- cacheB, pc <- pcB,
        op <- opB, seeding <- seedingB, found <- foundB, result <- resultB,
        othersWrite <- WritesA, otherSaves <- pcA = "flush"

Inv == PA!Own /\ PB!Own /\ PA!Directory(PB!Writing)

\* The steps of the model are those of the lemmas.
LEMMA StepA == A!Step => PA!Step
<1> USE DEF A!disk, PA!disk, A!memory, PA!memory, A!bounds, PA!bounds, A!caller,
            PA!caller, A!Fault, PA!Fault, A!Stem, PA!Stem,
            A!IndexFile, PA!IndexFile, A!NoMeta, PA!NoMeta, A!NoOp,
            PA!NoOp
<1>1. A!OpenLoad \/ A!OpenFails \/ A!Look \/ A!LookAgain
      => PA!OpenLoad \/ PA!OpenFails \/ PA!Look \/ PA!LookAgain
  BY DEF A!OpenLoad, PA!OpenLoad, A!OpenFails, PA!OpenFails, A!Look,
     PA!Look, A!LookAgain, PA!LookAgain, A!NewOp, PA!NewOp
<1>2. A!LoadMixed => PA!LoadMixed
  <2>1. \A n, missing : A!Blend(n, missing) = PA!Blend(n, missing)
    BY DEF A!Blend, PA!Blend
  <2>2. A!Given = PA!Given
    BY DEF A!Given, PA!Given
  <2>3. ASSUME NEW blend \in A!Blends PROVE blend \in PA!Blends
    <3>1. PICK n \in 0 .. MaxEntries, missing \in SUBSET A!Stem :
            0 .. n - 1 \subseteq A!Given /\ blend = A!Blend(n, missing)
      BY <2>3 DEF A!Blends
    <3> QED
      BY <3>1, <2>1, <2>2 DEF PA!Blends
  <2> QED
    BY <2>3 DEF A!LoadMixed, PA!LoadMixed
<1>3. A!AddCall \/ A!Create \/ A!CreateInputFails \/ A!TruncateFails
      => PA!AddCall \/ PA!Create \/ PA!CreateInputFails \/ PA!TruncateFails
  BY DEF A!AddCall, PA!AddCall, A!Idle, PA!Idle, A!StartAdd, PA!StartAdd,
     A!NewId, PA!NewId, A!AddOp, PA!AddOp, A!Create, PA!Create,
     A!CreateMixed, PA!CreateMixed, A!CreateInput, PA!CreateInput,
     A!CreateInputFails, PA!CreateInputFails, A!TruncateFails,
     PA!TruncateFails, A!ReturnErr, PA!ReturnErr
<1>4. A!Truncate \/ A!Flush => PA!Truncate \/ PA!Flush
  BY DEF A!Truncate, PA!Truncate, A!TruncateMixed, PA!TruncateMixed,
     A!TruncateIndex, PA!TruncateIndex, A!Flush, PA!Flush, A!FlushMixed,
     PA!FlushMixed, A!FlushIndex, PA!FlushIndex, A!FlushLost, PA!FlushLost,
     A!FlushFails, PA!FlushFails, A!Broken, PA!Broken, A!ReturnOk,
     PA!ReturnOk, A!ReturnErr, PA!ReturnErr
<1>5. A!Get => PA!Get
  BY DEF A!Get, PA!Get, A!Idle, PA!Idle, A!IdArg, PA!IdArg, A!Lookup,
     PA!Lookup, A!Hit, PA!Hit, A!GetHit, PA!GetHit, A!GetMiss, PA!GetMiss,
     A!GetFails, PA!GetFails, A!Loaded, PA!Loaded, A!Cached, PA!Cached,
     A!Readable, PA!Readable
<1>6. A!GetMixed => PA!GetMixed
  BY DEF A!GetMixed, PA!GetMixed, A!LookupMixed, PA!LookupMixed, A!Idle,
     PA!Idle, A!IdArg, PA!IdArg, A!Hit, PA!Hit, A!Cached, PA!Cached
<1>7. (A!Exit => PA!Exit) /\ (A!Killed => PA!Killed)
  BY DEF A!Exit, PA!Exit, A!Idle, PA!Idle, A!Killed, PA!Killed, A!Crash,
     PA!Crash, A!Forget, PA!Forget
<1>8. A!Write => PA!Write
  BY DEF A!Write, PA!Write, A!WriteMixed, PA!WriteMixed, A!WriteInput,
     PA!WriteInput
<1>9. A!Spoil => PA!Spoil
  BY DEF A!Spoil, PA!Spoil, A!WriteInputFails, PA!WriteInputFails,
     A!ReturnErr, PA!ReturnErr, A!Killed, PA!Killed, A!Crash, PA!Crash,
     A!Forget, PA!Forget
<1>10. A!Quiet => PA!Quiet
  BY <1>1, <1>2, <1>3, <1>4, <1>5, <1>6, <1>7 DEF A!Quiet, PA!Quiet
<1> QED
  BY <1>8, <1>9, <1>10 DEF A!Step, PA!Step, A!history, PA!history

LEMMA StepB == B!Step => PB!Step
<1> USE DEF B!disk, PB!disk, B!memory, PB!memory, B!bounds, PB!bounds, B!caller,
            PB!caller, B!Fault, PB!Fault, B!Stem, PB!Stem,
            B!IndexFile, PB!IndexFile, B!NoMeta, PB!NoMeta, B!NoOp,
            PB!NoOp
<1>1. B!OpenLoad \/ B!OpenFails \/ B!Look \/ B!LookAgain
      => PB!OpenLoad \/ PB!OpenFails \/ PB!Look \/ PB!LookAgain
  BY DEF B!OpenLoad, PB!OpenLoad, B!OpenFails, PB!OpenFails, B!Look,
     PB!Look, B!LookAgain, PB!LookAgain, B!NewOp, PB!NewOp
<1>2. B!LoadMixed => PB!LoadMixed
  <2>1. \A n, missing : B!Blend(n, missing) = PB!Blend(n, missing)
    BY DEF B!Blend, PB!Blend
  <2>2. B!Given = PB!Given
    BY DEF B!Given, PB!Given
  <2>3. ASSUME NEW blend \in B!Blends PROVE blend \in PB!Blends
    <3>1. PICK n \in 0 .. MaxEntries, missing \in SUBSET B!Stem :
            0 .. n - 1 \subseteq B!Given /\ blend = B!Blend(n, missing)
      BY <2>3 DEF B!Blends
    <3> QED
      BY <3>1, <2>1, <2>2 DEF PB!Blends
  <2> QED
    BY <2>3 DEF B!LoadMixed, PB!LoadMixed
<1>3. B!AddCall \/ B!Create \/ B!CreateInputFails \/ B!TruncateFails
      => PB!AddCall \/ PB!Create \/ PB!CreateInputFails \/ PB!TruncateFails
  BY DEF B!AddCall, PB!AddCall, B!Idle, PB!Idle, B!StartAdd, PB!StartAdd,
     B!NewId, PB!NewId, B!AddOp, PB!AddOp, B!Create, PB!Create,
     B!CreateMixed, PB!CreateMixed, B!CreateInput, PB!CreateInput,
     B!CreateInputFails, PB!CreateInputFails, B!TruncateFails,
     PB!TruncateFails, B!ReturnErr, PB!ReturnErr
<1>4. B!Truncate \/ B!Flush => PB!Truncate \/ PB!Flush
  BY DEF B!Truncate, PB!Truncate, B!TruncateMixed, PB!TruncateMixed,
     B!TruncateIndex, PB!TruncateIndex, B!Flush, PB!Flush, B!FlushMixed,
     PB!FlushMixed, B!FlushIndex, PB!FlushIndex, B!FlushLost, PB!FlushLost,
     B!FlushFails, PB!FlushFails, B!Broken, PB!Broken, B!ReturnOk,
     PB!ReturnOk, B!ReturnErr, PB!ReturnErr
<1>5. B!Get => PB!Get
  BY DEF B!Get, PB!Get, B!Idle, PB!Idle, B!IdArg, PB!IdArg, B!Lookup,
     PB!Lookup, B!Hit, PB!Hit, B!GetHit, PB!GetHit, B!GetMiss, PB!GetMiss,
     B!GetFails, PB!GetFails, B!Loaded, PB!Loaded, B!Cached, PB!Cached,
     B!Readable, PB!Readable
<1>6. B!GetMixed => PB!GetMixed
  BY DEF B!GetMixed, PB!GetMixed, B!LookupMixed, PB!LookupMixed, B!Idle,
     PB!Idle, B!IdArg, PB!IdArg, B!Hit, PB!Hit, B!Cached, PB!Cached
<1>7. (B!Exit => PB!Exit) /\ (B!Killed => PB!Killed)
  BY DEF B!Exit, PB!Exit, B!Idle, PB!Idle, B!Killed, PB!Killed, B!Crash,
     PB!Crash, B!Forget, PB!Forget
<1>8. B!Write => PB!Write
  BY DEF B!Write, PB!Write, B!WriteMixed, PB!WriteMixed, B!WriteInput,
     PB!WriteInput
<1>9. B!Spoil => PB!Spoil
  BY DEF B!Spoil, PB!Spoil, B!WriteInputFails, PB!WriteInputFails,
     B!ReturnErr, PB!ReturnErr, B!Killed, PB!Killed, B!Crash, PB!Crash,
     B!Forget, PB!Forget
<1>10. B!Quiet => PB!Quiet
  BY <1>1, <1>2, <1>3, <1>4, <1>5, <1>6, <1>7 DEF B!Quiet, PB!Quiet
<1> QED
  BY <1>8, <1>9, <1>10 DEF B!Step, PB!Step, B!history, PB!history

\* The two processes see the same directory.
LEMMA SameDirectory ==
  PA!Directory(PB!Writing) <=> PB!Directory(PA!Writing)
BY DEF PA!Directory, PB!Directory, PA!Maps, PB!Maps, PA!GaveInput, PB!GaveInput,
   PA!GaveDescr, PB!GaveDescr, PA!MayHold, PB!MayHold, PA!MayDescribe,
   PB!MayDescribe, PA!Stem, PB!Stem

\* A process that does nothing keeps what it has.
LEMMA AWaits ==
  ASSUME PA!Own, UNCHANGED processA, given \subseteq given'
  PROVE  PA!Own' /\ PA!Writing' = PA!Writing
<1> USE ConstantsAssumption DEF processA
<1>1. PA!Maps(given', stemsA, metadataA)
  BY PA!MapsLast DEF PA!Own
<1> QED
  BY <1>1 DEF PA!Own, PA!Adding, PA!Writing


\* A process that does nothing keeps what it has.
LEMMA BWaits ==
  ASSUME PB!Own, UNCHANGED processB, given \subseteq given'
  PROVE  PB!Own' /\ PB!Writing' = PB!Writing
<1> USE ConstantsAssumption DEF processB
<1>1. PB!Maps(given', stemsB, metadataB)
  BY PB!MapsLast DEF PB!Own
<1> QED
  BY <1>1 DEF PB!Own, PB!Adding, PB!Writing

LEMMA AMoves ==
  ASSUME Inv, A!Step, UNCHANGED processB
  PROVE  Inv'
<1>1. PA!Step
  BY StepA
<1>2. PICK w : w = PB!Writing
  OBVIOUS
<1>3. PA!Own /\ PA!Directory(w)
  BY <1>2, SameDirectory DEF Inv
<1>4. PA!Own' /\ PA!Directory(w)'
  BY <1>1, <1>3, PA!StepKeeps, ConstantsAssumption
<1>5. PB!Own' /\ PB!Writing' = w
  BY <1>1, <1>2, PA!GivenGrows, BWaits, ConstantsAssumption DEF Inv
<1>6. PA!Directory(PB!Writing)'
  BY <1>4, <1>5
<1> QED
  BY <1>4, <1>5, <1>6, SameDirectory, PTL DEF Inv

LEMMA BMoves ==
  ASSUME Inv, B!Step, UNCHANGED processA
  PROVE  Inv'
<1>1. PB!Step
  BY StepB
<1>2. PICK w : w = PA!Writing
  OBVIOUS
<1>3. PB!Own /\ PB!Directory(w)
  BY <1>2, SameDirectory DEF Inv
<1>4. PB!Own' /\ PB!Directory(w)'
  BY <1>1, <1>3, PB!StepKeeps, ConstantsAssumption
<1>5. PA!Own' /\ PA!Writing' = w
  BY <1>1, <1>2, PB!GivenGrows, AWaits, ConstantsAssumption DEF Inv
<1>6. PB!Directory(PA!Writing)'
  BY <1>4, <1>5
<1> QED
  BY <1>4, <1>5, <1>6, SameDirectory, PTL DEF Inv

-----------------------------------------------------------------------------
(* The theorems                                                            *)

LEMMA InvInit == Init => Inv
<1> SUFFICES ASSUME Init PROVE Inv
  OBVIOUS
<1>1. /\ PA!Maps({}, <<>>, PA!NoMeta) /\ PB!Maps({}, <<>>, PB!NoMeta)
  BY PA!EmptyMaps, PB!EmptyMaps, ConstantsAssumption
<1>2. /\ stemsA = <<>> /\ metadataA = PA!NoMeta /\ pcA = "down"
      /\ cacheA = {}
      /\ stemsB = <<>> /\ metadataB = PB!NoMeta /\ pcB = "down"
      /\ cacheB = {}
      /\ index.stems = <<>> /\ index.metadata = PA!NoMeta
      /\ files = [s \in PA!Stem |-> Unreadable]
      /\ given = {}
  BY DEF Init, A!Init, B!Init, A!IndexFile, A!NoMeta, B!NoMeta, PA!NoMeta,
     PB!NoMeta, A!NoFiles, A!Stem, B!Stem, PA!Stem, PB!Stem
<1>3. PA!Own /\ PB!Own
  BY <1>1, <1>2 DEF PA!Own, PB!Own, PA!Adding, PB!Adding
<1>4. PA!Directory(PB!Writing)
  BY <1>1, <1>2 DEF PA!Directory, PA!MayHold
<1> QED
  BY <1>3, <1>4 DEF Inv

\* What both processes and their directory keep, behind the theorems.
LEMMA InvHolds == Spec => []Inv
<1>1. Inv /\ [Next]_vars => Inv'
  <2> SUFFICES ASSUME Inv, [Next]_vars PROVE Inv'
    OBVIOUS
  <2>1. CASE UNCHANGED vars
    <3>1. /\ UNCHANGED <<processA, processB>>
          /\ UNCHANGED <<files, index, given, spoiled>>
      BY <2>1 DEF vars
    <3>2. PA!Own' /\ PB!Own' /\ PB!Writing' = PB!Writing /\ PA!Writing' = PA!Writing
      BY <3>1, AWaits, BWaits DEF Inv
    <3>3. PICK w : w = PB!Writing
      OBVIOUS
    <3>4. PA!Directory(w)'
      BY <3>1, <3>2, <3>3 DEF Inv, PA!Directory
    <3> QED
      BY <3>2, <3>3, <3>4 DEF Inv
  <2> QED
    BY <2>1, AMoves, BMoves DEF Next
<1> QED
  BY InvInit, <1>1, PTL DEF Spec

\* The maps a process has, or may load, count up from 0.
LEMMA MapsHold ==
  ASSUME Inv, NEW m \in Maps
  PROVE  PA!Maps(given, m.stems, m.metadata)
<1>1. PA!Maps(given, stemsA, metadataA)
  BY DEF Inv, PA!Own
<1>2. PA!Maps(given, stemsB, metadataB)
  BY DEF Inv, PB!Own, PA!Maps, PB!Maps, PA!MayDescribe, PB!MayDescribe,
     PA!GaveDescr, PB!GaveDescr, PA!Stem, PB!Stem
<1>3. PA!Maps(given, index.stems, index.metadata)
  BY DEF Inv, PA!Directory
<1> QED
  BY <1>1, <1>2, <1>3 DEF Maps

LEMMA ListedStem ==
  ASSUME Inv, NEW m \in Maps, NEW k \in 1 .. Len(m.stems)
  PROVE  /\ m.stems[k] = k - 1 /\ m.stems[k] \in PA!Stem
         /\ \E g \in given : g.id = m.stems[k]
<1>1. m.stems \in Seq(PA!Stem) /\ m.stems[k] = k - 1
      /\ \E g \in given : g.id = m.stems[k]
  BY MapsHold DEF PA!Maps
<1> QED
  BY <1>1, ElementOfSeq

\* add and load_index_from_disk: every ID map counts up from 0, of either
\* process and on disk, however their adds, saves and restarts interleave and
\* whatever an index that both wrote parses to.
THEOREM Numbering == Spec => []IdsAreStems
<1>1. Inv => IdsAreStems
  BY ListedStem DEF IdsAreStems
<1> QED
  BY <1>1, InvHolds, PTL

\* add: the file of a listed entry holds an input added under its ID, unless
\* both processes wrote it at once, or one is writing it or gave up half way.
THEOREM WholeEntries == Spec => []EntriesWhole
<1>1. ASSUME Inv, NEW m \in Maps, NEW k \in 1 .. Len(m.stems), NEW s, s = m.stems[k]
      PROVE  \/ files[s] = Mixture
             \/ s \in spoiled \cup WritesA \cup WritesB
             \/ \E g \in given : g.id = s /\ g.input = files[s]
  <2>1. s \in PA!Stem
    BY <1>1, ListedStem
  <2>2. PICK g \in given : g.id = s
    BY <1>1, ListedStem
  <2>3. files[s] = Unreadable => s \in spoiled \cup PB!Writing \cup PA!Writing
    BY <1>1, <2>2 DEF Inv, PA!Directory
  <2>4. files[s] \in {Unreadable, Mixture} \/ PA!GaveInput(given, s, files[s])
    BY <1>1, <2>1 DEF Inv, PA!Directory, PA!MayHold
  <2> QED
    BY <2>3, <2>4 DEF PA!GaveInput, PA!Writing, PB!Writing, WritesA, WritesB
<1>2. Inv => EntriesWhole
  BY <1>1 DEF EntriesWhole
<1> QED
  BY <1>2, InvHolds, PTL

\* get: what it answers was added under that ID by one process or the other,
\* unless it is read from a file, or came with an index, that both wrote at once
\* or one was writing.
THEOREM TrueAnswers == Spec => AnswersWereGiven
<1> DEFINE AnswersA == \A item \in foundA' \ (foundA \cup cacheA) : Answered(item, WritesB)
           AnswersB == \A item \in foundB' \ (foundB \cup cacheB) : Answered(item, WritesA)
<1>1. ASSUME Inv, A!Step, UNCHANGED processB PROVE AnswersA /\ AnswersB
  <2>1. PA!Step /\ PA!Own /\ PA!Directory(PB!Writing)
    BY <1>1, StepA DEF Inv
  <2>2. \A item \in foundA' \ (foundA \cup cacheA) : PA!Answer(item)
    BY <2>1, PA!StepAnswers, ConstantsAssumption
  <2>3. foundB' = foundB
    BY <1>1 DEF processB
  <2> QED
    BY <2>2, <2>3 DEF PA!Answer, PA!GaveInput, PA!GaveDescr, Answered
<1>2. ASSUME Inv, B!Step, UNCHANGED processA PROVE AnswersA /\ AnswersB
  <2>1. PB!Step /\ PB!Own /\ PB!Directory(PA!Writing)
    BY <1>2, StepB, SameDirectory DEF Inv
  <2>2. \A item \in foundB' \ (foundB \cup cacheB) : PB!Answer(item)
    BY <2>1, PB!StepAnswers, ConstantsAssumption
  <2>3. foundA' = foundA
    BY <1>2 DEF processA
  <2> QED
    BY <2>2, <2>3 DEF PB!Answer, PB!GaveInput, PB!GaveDescr, Answered
<1>3. ASSUME UNCHANGED vars PROVE AnswersA /\ AnswersB
  BY <1>3 DEF vars, processA, processB
<1>4. Inv /\ [Next]_vars => [AnswersA /\ AnswersB]_vars
  BY <1>1, <1>2, <1>3 DEF Next
<1> QED
  BY <1>4, InvHolds, PTL DEF Spec, AnswersWereGiven
==============================================================================
