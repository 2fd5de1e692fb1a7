------------------------- MODULE CorpusSharer_proofs -------------------------
(***************************************************************************)
(* What one process of several keeps true, whatever the others have done   *)
(* to the directory before.                                                *)
(***************************************************************************)
EXTENDS CorpusSharer, SequenceTheorems, TLAPS

\* One of the adds gave the stem this input, or this description.
GaveInput(adds, s, input) == \E a \in adds : a.id = s /\ a.input = input
GaveDescr(adds, s, descr) == \E a \in adds : a.id = s /\ a.descr = descr

\* What a map may say of a stem, and what a file may hold for it.
MayDescribe(adds, s, descr) == descr \in {NoDescr, Mixture} \/ GaveDescr(adds, s, descr)
MayHold(adds, s, input)     == input \in {Unreadable, Mixture} \/ GaveInput(adds, s, input)

\* Two maps, in memory or on disk: the stems count up from 0, and someone has
\* added an input under each of them.
Maps(adds, ids, meta) ==
  /\ ids \in Seq(Stem)
  /\ \A k \in 1 .. Len(ids) : ids[k] = k - 1 /\ \E a \in adds : a.id = ids[k]
  /\ \A s \in Stem : MayDescribe(adds, s, meta[s])
  /\ DOMAIN meta = Stem

\* What get puts together.
IsItem(item) == item = [id |-> item.id, input |-> item.input, descr |-> item.descr]

\* What get may answer with.
Answer(item) ==
  /\ \/ item.id \in othersWrite \/ files[item.id] = Mixture
     \/ GaveInput(given, item.id, item.input)
  /\ item.descr = Mixture \/ GaveDescr(given, item.id, item.descr)

\* An add names its file for the length of the process's own ID map.
Adding ==
  pc \in {"create", "write"} =>
    /\ op.id = Len(stems) /\ op.id < MaxEntries
    /\ op.input \in Input /\ op.descr \in Descr

\* What the process has in memory.
Own ==
  /\ Maps(given, stems, metadata)
  /\ Adding
  /\ \A item \in cache : IsItem(item)
  /\ \A a, b \in cache : a = b

Writing == IF pc = "write" THEN {op.id} ELSE {}

\* What is on disk, while the stems W are written by others.
Directory(W) ==
  /\ DOMAIN files = Stem
  /\ Maps(given, index.stems, index.metadata)
  /\ \A g \in given : g.id \in Stem
  /\ \A s \in Stem : MayHold(given, s, files[s])
  /\ \A g \in given : files[g.id] = Unreadable => g.id \in spoiled \cup W \cup Writing

-----------------------------------------------------------------------------

\* Further adds make no map wrong.
LEMMA MapsLast ==
  ASSUME NEW a, NEW b, a \subseteq b, NEW ids, NEW meta, Maps(a, ids, meta)
  PROVE  Maps(b, ids, meta)
BY DEF Maps, MayDescribe, GaveDescr

LEMMA EmptyMaps == \A adds : Maps(adds, <<>>, NoMeta)
<1>1. <<>> \in Seq(Stem) /\ Len(<<>>) = 0
  BY EmptySeq
<1> QED
  BY <1>1 DEF Maps, MayDescribe, NoMeta

\* What a mixed index may parse to counts up like any other.
LEMMA BlendMaps ==
  ASSUME MaxEntries \in Nat, \A g \in given : g.id \in Stem, NEW blend \in Blends
  PROVE  Maps(given, blend.stems, blend.metadata)
<1>1. PICK n \in 0 .. MaxEntries, missing \in SUBSET Stem :
        0 .. n - 1 \subseteq Given /\ blend = Blend(n, missing)
  BY DEF Blends
<1>2. blend.stems = [k \in 1 .. n |-> k - 1] /\ n \in Nat
  BY <1>1 DEF Blend
<1>3. \A k \in 1 .. n : k - 1 \in Stem /\ k - 1 \in Given
  BY <1>1 DEF Stem
<1>4. blend.stems \in Seq(Stem) /\ Len(blend.stems) = n
  BY <1>2, <1>3
<1>5. \A k \in 1 .. n : blend.stems[k] = k - 1 /\ \E a \in given : a.id = blend.stems[k]
  BY <1>2, <1>3 DEF Given
<1>6. /\ DOMAIN blend.metadata = Stem
      /\ \A s \in Stem : MayDescribe(given, s, blend.metadata[s])
  BY <1>1 DEF Blend, MayDescribe
<1> QED
  BY <1>4, <1>5, <1>6 DEF Maps

LEMMA AddMaps ==
  ASSUME MaxEntries \in Nat, NEW adds, NEW ids, NEW meta, Maps(adds, ids, meta),
         NEW d, Len(ids) < MaxEntries, GaveDescr(adds, Len(ids), d)
  PROVE  Maps(adds, Append(ids, Len(ids)), [meta EXCEPT ![Len(ids)] = d])
<1> DEFINE s    == Len(ids)
           ids2 == Append(ids, s)
           meta2 == [meta EXCEPT ![s] = d]
<1>1. ids \in Seq(Stem) /\ s \in Stem /\ s \in Nat
  BY DEF Maps, Stem
<1>2. /\ ids2 \in Seq(Stem) /\ Len(ids2) = s + 1
      /\ \A k \in 1 .. s : ids2[k] = ids[k]
      /\ ids2[s + 1] = s
  BY <1>1, AppendProperties
<1>3. DOMAIN meta2 = Stem /\ \A t \in Stem : meta2[t] = IF t = s THEN d ELSE meta[t]
  BY <1>1 DEF Maps
<1>4. \A k \in 1 .. Len(ids2) : ids2[k] = k - 1 /\ \E a \in adds : a.id = ids2[k]
  <2> TAKE k \in 1 .. Len(ids2)
  <2>1. CASE k = s + 1
    BY <1>1, <1>2, <2>1 DEF GaveDescr
  <2>2. CASE k \in 1 .. s
    BY <1>1, <1>2, <2>2 DEF Maps
  <2> QED
    BY <1>1, <1>2, <2>1, <2>2
<1>5. \A t \in Stem : MayDescribe(adds, t, meta2[t])
  BY <1>3 DEF Maps, MayDescribe
<1> QED
  BY <1>2, <1>3, <1>4, <1>5 DEF Maps

-----------------------------------------------------------------------------
(* The steps that write no input                                           *)

LEMMA QuietMaps ==
  ASSUME MaxEntries \in Nat, Own, NEW W, Directory(W), Quiet
  PROVE  /\ Maps(given, stems', metadata')
         /\ Maps(given, index'.stems, index'.metadata)
<1> USE DEF memory, disk, bounds, caller
<1>1. Maps(given, stems, metadata) /\ Maps(given, index.stems, index.metadata)
  BY DEF Own, Directory
<1>2. CASE OpenLoad
  BY <1>1, <1>2 DEF OpenLoad
<1>3. CASE LoadMixed
  BY <1>1, <1>3, BlendMaps DEF LoadMixed, Directory
<1>4. CASE OpenFails \/ Look \/ LookAgain \/ AddCall
  BY <1>1, <1>4 DEF OpenFails, Look, LookAgain, AddCall, StartAdd
<1>5. CASE Create \/ CreateInputFails \/ TruncateFails
  BY <1>1, <1>5 DEF Create, CreateInput, CreateMixed, CreateInputFails, TruncateFails
<1>6. CASE Truncate
  BY <1>1, <1>6, EmptyMaps DEF Truncate, TruncateIndex, TruncateMixed, IndexFile
<1>7. CASE Flush
  <2>1. CASE FlushMixed
    BY <1>1, <2>1 DEF FlushMixed
  <2>2. CASE FlushIndex
    BY <1>1, <2>2 DEF FlushIndex
  <2>3. CASE FlushLost \/ FlushFails
    BY <1>1, <2>3, EmptyMaps DEF FlushLost, FlushFails, IndexFile
  <2> QED
    BY <1>7, <2>1, <2>2, <2>3 DEF Flush
<1>8. CASE Get \/ GetMixed
  BY <1>1, <1>8 DEF Get, Lookup, GetMixed, LookupMixed
<1>9. CASE Exit \/ Killed
  BY <1>1, <1>9, EmptyMaps DEF Exit, Killed, Crash, Forget, IndexFile
<1> QED
  BY <1>2, <1>3, <1>4, <1>5, <1>6, <1>7, <1>8, <1>9 DEF Quiet

LEMMA QuietAdding ==
  ASSUME Own, Quiet
  PROVE  Adding'
<1> USE DEF memory, disk, bounds, caller, Own, Adding
<1>1. CASE OpenLoad \/ OpenFails \/ Look \/ LookAgain \/ LoadMixed
  BY <1>1 DEF OpenLoad, OpenFails, Look, LookAgain, LoadMixed
<1>2. CASE AddCall
  BY <1>2 DEF AddCall, Idle, StartAdd, NewId, AddOp
<1>3. CASE Create
  BY <1>3 DEF Create, CreateInput, CreateMixed
<1>4. CASE CreateInputFails \/ TruncateFails
  BY <1>4 DEF CreateInputFails, TruncateFails, ReturnErr
<1>5. CASE Truncate
  BY <1>5 DEF Truncate, TruncateIndex, TruncateMixed
<1>6. CASE Flush
  BY <1>6 DEF Flush, FlushMixed, FlushIndex, FlushLost, FlushFails, ReturnOk, ReturnErr
<1>7. CASE Get \/ GetMixed
  BY <1>7 DEF Get, Idle, Lookup, GetMixed, LookupMixed
<1>8. CASE Exit \/ Killed
  BY <1>8 DEF Exit, Killed, Crash, Forget
<1> QED
  BY <1>1, <1>2, <1>3, <1>4, <1>5, <1>6, <1>7, <1>8 DEF Quiet

\* Where a step of this kind leaves the files, and who is writing one.
LEMMA QuietFiles ==
  ASSUME MaxEntries \in Nat, Own, NEW W, Directory(W), Quiet
  PROVE  \/ files' = files /\ Writing' = Writing
         \/ /\ op.id \in Stem /\ Writing' = {op.id} /\ Writing = {}
            /\ \E f \in {Unreadable, Mixture} : files' = [files EXCEPT ![op.id] = f]
<1> USE DEF memory, disk, bounds, caller, Writing
<1>1. CASE OpenLoad \/ OpenFails \/ Look \/ LookAgain \/ LoadMixed \/ AddCall
  BY <1>1 DEF OpenLoad, OpenFails, Look, LookAgain, LoadMixed, AddCall, Idle, StartAdd
<1>2. CASE Create
  <2>1. op.id \in Stem /\ pc = "create"
    BY <1>2 DEF Create, Own, Adding, Maps, Stem
  <2> QED
    BY <1>2, <2>1 DEF Create, CreateInput, CreateMixed
<1>3. CASE CreateInputFails \/ TruncateFails
  BY <1>3 DEF CreateInputFails, TruncateFails, ReturnErr
<1>4. CASE Truncate
  BY <1>4 DEF Truncate, TruncateIndex, TruncateMixed
<1>5. CASE Flush
  BY <1>5 DEF Flush, FlushMixed, FlushIndex, FlushLost, FlushFails, ReturnOk, ReturnErr
<1>6. CASE Get \/ GetMixed
  BY <1>6 DEF Get, Idle, Lookup, GetMixed, LookupMixed
<1>7. CASE Exit \/ (pc # "write" /\ Killed)
  BY <1>7 DEF Exit, Killed, Crash, Forget, Idle
<1> QED
  BY <1>1, <1>2, <1>3, <1>4, <1>5, <1>6, <1>7 DEF Quiet

-----------------------------------------------------------------------------
(* get                                                                     *)

\* A lookup reads what the maps and the file say of its ID.
LEMMA Reads ==
  ASSUME Own, NEW id \in Nat, id < Len(stems)
  PROVE  id \in Stem /\ Cached(id) = [id |-> id, input |-> files[id], descr |-> metadata[id]]
<1>1. id + 1 \in 1 .. Len(stems) /\ stems \in Seq(Stem)
  BY DEF Own, Maps
<1>2. stems[id + 1] = id /\ id \in Stem
  BY <1>1, ElementOfSeq DEF Own, Maps
<1> QED
  BY <1>2 DEF Cached

LEMMA LoadedAnswers ==
  ASSUME Own, NEW W, Directory(W), NEW id \in Nat, NEW item \in Loaded(id)
  PROVE  Answer(item)
<1>1. id < Len(stems) /\ Readable(id) /\ item = Cached(id)
  BY DEF Loaded
<1>2. id \in Stem /\ item.id = id /\ item.input = files[id] /\ item.descr = metadata[id]
  BY <1>1, Reads
<1>3. stems[id + 1] = id
  BY <1>1 DEF Own, Maps
<1>4. files[id] # Unreadable /\ metadata[id] # NoDescr
  BY <1>1, <1>3 DEF Readable
<1> QED
  BY <1>2, <1>4 DEF Answer, Own, Maps, Directory, MayHold, MayDescribe

LEMMA LookupMixedAnswers ==
  ASSUME Own, NEW W, Directory(W), NEW id \in Nat, LookupMixed(id), NEW item \in found'
  PROVE  Answer(item)
<1>1. /\ id < Len(stems) /\ metadata[stems[id + 1]] # NoDescr
      /\ item = [Cached(id) EXCEPT !.input = Mixture]
      /\ stems[id + 1] \in othersWrite \/ files[stems[id + 1]] = Mixture
  BY DEF LookupMixed
<1>2. stems[id + 1] = id /\ id \in Stem
  BY <1>1, Reads DEF Own, Maps
<1>3. item.id = id /\ item.descr = metadata[id]
  BY <1>1, <1>2 DEF Cached
<1> QED
  BY <1>1, <1>2, <1>3 DEF Answer, Own, Maps, MayDescribe

\* get answers with what it has in its cache or can answer for.
LEMMA StepAnswers ==
  ASSUME MaxEntries \in Nat, Own, NEW W, Directory(W), Step,
         NEW item \in found' \ (found \cup cache)
  PROVE  Answer(item)
<1> USE DEF memory, disk, bounds, caller
<1>1. CASE Get
  <2>1. PICK id \in IdArg : Lookup(id)
    BY <1>1 DEF Get
  <2>2. CASE GetHit(id)
    BY <2>2 DEF GetHit, Hit, Own, IsItem
  <2>3. CASE GetMiss(id)
    BY <2>3, LoadedAnswers DEF GetMiss, IdArg
  <2>4. CASE GetFails(id)
    BY <2>4 DEF GetFails
  <2> QED
    BY <2>1, <2>2, <2>3, <2>4 DEF Lookup
<1>2. CASE GetMixed
  BY <1>2, LookupMixedAnswers DEF GetMixed, IdArg
<1>3. CASE OpenLoad \/ OpenFails \/ Look \/ LookAgain \/ LoadMixed \/ AddCall
  BY <1>3 DEF OpenLoad, OpenFails, Look, LookAgain, LoadMixed, AddCall, StartAdd
<1>4. CASE Create \/ CreateInputFails \/ TruncateFails
  BY <1>4 DEF Create, CreateInput, CreateMixed, CreateInputFails, TruncateFails
<1>5. CASE Truncate
  BY <1>5 DEF Truncate, TruncateIndex, TruncateMixed
<1>6. CASE Flush
  BY <1>6 DEF Flush, FlushMixed, FlushIndex, FlushLost, FlushFails
<1>7. CASE Exit \/ Killed
  BY <1>7 DEF Exit, Killed, Crash, Forget
<1>8. CASE Write \/ WriteInputFails
  BY <1>8 DEF Write, WriteInput, WriteMixed, WriteInputFails
<1> QED
  BY <1>1, <1>2, <1>3, <1>4, <1>5, <1>6, <1>7, <1>8 DEF Step, Quiet, Spoil

\* What is in the cache is an item, and there is one at most.
LEMMA StepCache ==
  ASSUME Own, Step
  PROVE  /\ \A item \in cache' : IsItem(item)
         /\ \A a, b \in cache' : a = b
<1> USE DEF memory, disk, bounds, caller, Own
<1>1. CASE Get
  <2>1. PICK id \in IdArg : Lookup(id)
    BY <1>1 DEF Get
  <2>2. CASE GetHit(id) \/ GetFails(id)
    BY <2>2 DEF GetHit, GetFails
  <2>3. CASE GetMiss(id)
    BY <2>3 DEF GetMiss, Loaded, Cached, IsItem
  <2> QED
    BY <2>1, <2>2, <2>3 DEF Lookup
<1>2. CASE GetMixed
  BY <1>2 DEF GetMixed, LookupMixed, Cached, IsItem
<1>3. CASE OpenLoad \/ OpenFails \/ Look \/ LookAgain \/ LoadMixed \/ AddCall
  BY <1>3 DEF OpenLoad, OpenFails, Look, LookAgain, LoadMixed, AddCall, StartAdd
<1>4. CASE Create \/ CreateInputFails \/ TruncateFails
  BY <1>4 DEF Create, CreateInput, CreateMixed, CreateInputFails, TruncateFails
<1>5. CASE Truncate
  BY <1>5 DEF Truncate, TruncateIndex, TruncateMixed
<1>6. CASE Flush
  BY <1>6 DEF Flush, FlushMixed, FlushIndex, FlushLost, FlushFails, ReturnOk
<1>7. CASE Exit \/ Killed
  BY <1>7 DEF Exit, Killed, Crash, Forget
<1>8. CASE Write \/ WriteInputFails
  BY <1>8 DEF Write, WriteInput, WriteMixed, WriteInputFails
<1> QED
  BY <1>1, <1>2, <1>3, <1>4, <1>5, <1>6, <1>7, <1>8 DEF Step, Quiet, Spoil

-----------------------------------------------------------------------------
(* All steps                                                               *)

LEMMA QuietStep ==
  ASSUME MaxEntries \in Nat, Own, NEW W, Directory(W), Quiet, UNCHANGED history
  PROVE  Own' /\ Directory(W)'
<1>1. given' = given /\ spoiled' = spoiled /\ Step
  BY DEF history, Step
<1>2. Own'
  BY <1>1, QuietMaps, QuietAdding, StepCache DEF Own
<1>3. DOMAIN files' = Stem
  BY QuietFiles DEF Directory
<1>4. \A s \in Stem : MayHold(given, s, files'[s])
  BY QuietFiles DEF Directory, MayHold
<1>5. \A g \in given : files'[g.id] = Unreadable => g.id \in spoiled \cup W \cup Writing'
  BY QuietFiles DEF Directory
<1> QED
  BY <1>1, <1>2, <1>3, <1>4, <1>5, QuietMaps DEF Directory

LEMMA SpoilStep ==
  ASSUME Own, NEW W, Directory(W), Spoil
  PROVE  Own' /\ Directory(W)'
<1> USE DEF memory, disk, bounds, caller
<1>1. pc = "write" /\ given' = given /\ spoiled' = spoiled \cup {op.id} /\ Step
  BY DEF Spoil, Step
<1>2. CASE WriteInputFails
  <2>1. pc' = "idle" \/ pc' = "down"
    BY <1>2 DEF WriteInputFails, ReturnErr
  <2>2. UNCHANGED <<files, index, stems, metadata>>
    BY <1>2 DEF WriteInputFails
  <2>3. Own'
    BY <1>1, <2>1, <2>2, StepCache DEF Own, Adding
  <2>4. Directory(W)'
    BY <1>1, <2>1, <2>2 DEF Directory, Writing
  <2> QED
    BY <2>3, <2>4
<1>3. CASE Killed
  <2>1. /\ pc' = "down" /\ stems' = <<>> /\ metadata' = NoMeta
        /\ UNCHANGED <<files, index>>
    BY <1>1, <1>3 DEF Killed, Crash, Forget
  <2>2. Own'
    BY <1>1, <2>1, EmptyMaps, StepCache DEF Own, Adding
  <2>3. Directory(W)'
    BY <1>1, <2>1 DEF Directory, Writing
  <2> QED
    BY <2>2, <2>3
<1> QED
  BY <1>2, <1>3 DEF Spoil

LEMMA WriteStep ==
  ASSUME MaxEntries \in Nat, Unreadable \notin Input, Mixture # Unreadable,
         Own, NEW W, Directory(W), Write
  PROVE  Own' /\ Directory(W)'
<1> DEFINE new == [id |-> op.id, input |-> op.input, descr |-> op.descr]
<1>1. /\ stems' = Append(stems, op.id)
      /\ metadata' = [metadata EXCEPT ![op.id] = op.descr]
      /\ given' = given \cup {new} /\ spoiled' = spoiled \ {op.id}
      /\ pc = "write" /\ pc' = "truncate"
      /\ UNCHANGED <<index, cache>>
  BY DEF Write, WriteInput, WriteMixed, disk
<1>2. /\ op.id = Len(stems) /\ op.id \in Stem /\ Len(stems) < MaxEntries
      /\ op.input # Unreadable
  BY <1>1 DEF Own, Adding, Stem, Maps
<1>3. given \subseteq given' /\ new \in given'
      /\ GaveInput(given', op.id, op.input) /\ GaveDescr(given', op.id, op.descr)
  <2>1. given \subseteq given' /\ new \in given'
    BY <1>1
  <2>2. new.id = op.id /\ new.input = op.input /\ new.descr = op.descr
    OBVIOUS
  <2> QED
    BY <2>1, <2>2 DEF GaveInput, GaveDescr
<1>4. Maps(given', stems', metadata')
  <2>1. Maps(given', stems, metadata)
    BY <1>3, MapsLast DEF Own
  <2> QED
    BY <1>1, <1>2, <1>3, <2>1, AddMaps
<1>5. Own'
  BY <1>1, <1>4, StepCache DEF Own, Adding, Step
<1>6. \/ files[op.id] = Mixture /\ files' = files
      \/ files' = [files EXCEPT ![op.id] = op.input]
  BY DEF Write, WriteInput, WriteMixed, disk
<1>7. PICK f \in {Mixture, op.input} :
        /\ DOMAIN files' = Stem
        /\ \A s \in Stem : files'[s] = IF s = op.id THEN f ELSE files[s]
  <2>1. CASE files[op.id] = Mixture /\ files' = files
    BY <1>2, <2>1 DEF Directory
  <2>2. CASE files' = [files EXCEPT ![op.id] = op.input]
    BY <1>2, <2>2 DEF Directory
  <2> QED
    BY <1>6, <2>1, <2>2
<1>8. Maps(given', index'.stems, index'.metadata)
  BY <1>1, <1>3, MapsLast DEF Directory
<1>9. \A s \in Stem : MayHold(given', s, files'[s])
  BY <1>3, <1>7 DEF Directory, MayHold, GaveInput
<1>10. \A g \in given' : g.id \in Stem
  BY <1>1, <1>2 DEF Directory
<1>11. \A g \in given' : files'[g.id] = Unreadable => g.id \in spoiled' \cup W \cup Writing'
  <2> SUFFICES ASSUME NEW g \in given', files'[g.id] = Unreadable
               PROVE  g.id \in spoiled' \cup W \cup Writing'
    OBVIOUS
  <2>1. g.id # op.id /\ g \in given
    BY <1>1, <1>2, <1>7
  <2>2. files[g.id] = Unreadable
    BY <1>7, <1>10, <2>1
  <2> QED
    BY <1>1, <2>1, <2>2 DEF Directory, Writing
<1> QED
  BY <1>5, <1>7, <1>8, <1>9, <1>10, <1>11 DEF Directory

\* Whatever a process does, its memory and the directory keep what they had.
LEMMA StepKeeps ==
  ASSUME MaxEntries \in Nat, Unreadable \notin Input, Mixture # Unreadable,
         Own, NEW W, Directory(W), Step
  PROVE  Own' /\ Directory(W)'
BY QuietStep, SpoilStep, WriteStep DEF Step

\* A step adds to what was given and takes nothing back.
LEMMA GivenGrows == ASSUME Step PROVE given \subseteq given'
BY DEF Step, Write, Spoil, history
=============================================================================
