------------------------ MODULE OnDiskCorpus_proofs -------------------------
(***************************************************************************)
(* Proofs about OnDiskCorpus, for any inputs, descriptions and bounds.     *)
(***************************************************************************)
EXTENDS OnDiskCorpus, SequenceTheorems, TLAPS

-----------------------------------------------------------------------------
(* The inductive invariant                                                 *)

\* An ID map gives ID i the stem of i.
Numbered(ids) == \A k \in 1 .. Len(ids) : ids[k] = k - 1

\* What each point of a call has done so far.
CallState ==
  /\ pc \in {"down", "idle"} => op = NoOp
  /\ pc # "idle" => found = {}
  /\ pc = "down" => stems = <<>> /\ cache = {} /\ ~seeding
  /\ pc \in {"create", "write"} => op.call = "add" /\ op.id = Len(stems)
  /\ pc \in {"truncate", "flush"} => op # NoOp
  /\ op = NewOp => stems = <<>> /\ cache = {} /\ ~seeding
  /\ pc = "flush" => index.state = "empty"

\* An index that is not intact lists nothing.
IndexContent ==
  index.state # "saved" => index.stems = <<>> /\ index.metadata = NoMeta

\* Memory agrees with the index on the entries the index lists.
MemoryExtendsIndex ==
  pc # "down" =>
    /\ Len(index.stems) <= Len(stems)
    /\ \A k \in 1 .. Len(index.stems) : index.metadata[k - 1] = metadata[k - 1]

\* Every entry the index lists could be loaded.
IndexReadable ==
  \A k \in 1 .. Len(index.stems) :
    /\ files[index.stems[k]] # Unreadable
    /\ index.metadata[index.stems[k]] # NoDescr

\* The cache is an Option.
CacheSingle == \A a, b \in cache : a = b

Inv ==
  /\ TypeOK
  /\ Numbered(stems)
  /\ Numbered(index.stems)
  /\ CallState
  /\ IndexContent
  /\ MemoryExtendsIndex
  /\ EntriesReadable
  /\ IndexReadable
  /\ CacheCoherent
  /\ CacheSingle

-----------------------------------------------------------------------------
(* Types                                                                   *)

DiskType ==
  /\ files \in [Stem -> Input \cup {Unreadable}]
  /\ index \in Index

MemoryType ==
  /\ stems \in Seq(Stem)
  /\ metadata \in Meta
  /\ cache \subseteq Item
  /\ found \subseteq Item

CallType ==
  /\ pc \in {"down", "idle", "create", "write", "truncate", "flush"}
  /\ op \in {NoOp, NewOp} \cup
           [call : {"add"}, id : Stem, input : Input, descr : Descr]
  /\ result \in {"none", "ok", "err"}
  /\ seeding \in BOOLEAN

CountType ==
  /\ faults \in 0 .. MaxFaults
  /\ crashes \in 0 .. MaxCrashes

LEMMA IndexFileType ==
  /\ NoMeta \in Meta
  /\ \A state \in {"missing", "empty", "torn"} :
       /\ IndexFile(state) \in Index
       /\ IndexFile(state).state = state
       /\ IndexFile(state).stems = <<>>
       /\ IndexFile(state).metadata = NoMeta
  BY DEF NoMeta, Meta, IndexFile, Index

LEMMA LengthBound == Inv => Len(stems) <= MaxEntries
<1> SUFFICES ASSUME Inv, stems # <<>> PROVE Len(stems) <= MaxEntries
  BY ConstantsAssumption
<1>1. Len(stems) \in 1 .. Len(stems)
  BY DEF Inv, TypeOK
<1>2. stems[Len(stems)] = Len(stems) - 1 /\ stems[Len(stems)] \in Stem
  BY <1>1 DEF Inv, TypeOK, Numbered
<1> QED
  BY <1>1, <1>2, ConstantsAssumption DEF Stem

\* What a miss reads is the entry asked for, whole, or nothing.
LEMMA LoadedType ==
  ASSUME Inv, NEW id \in IdArg
  PROVE  /\ Loaded(id) \subseteq Item
         /\ \A item \in Loaded(id) : item.id = id /\ id < Len(stems) /\ item = Cached(id)
<1> SUFFICES ASSUME id < Len(stems), Readable(id)
             PROVE  Cached(id) \in Item /\ Cached(id).id = id
  BY DEF Loaded
<1>1. id \in Nat /\ id + 1 \in 1 .. Len(stems) /\ id \in Stem
  BY LengthBound, ConstantsAssumption DEF IdArg, Stem, Inv, TypeOK
<1>2. stems[id + 1] \in Stem
  BY <1>1 DEF Inv, TypeOK
<1>3. files[stems[id + 1]] \in Input /\ metadata[stems[id + 1]] \in Descr
  BY <1>2 DEF Inv, TypeOK, Meta, Readable
<1> QED
  BY <1>1, <1>3 DEF Cached, Item

\* A hit answers with the cache as it is.
LEMMA HitAnswer ==
  ASSUME Inv, NEW id \in IdArg, GetHit(id)
  PROVE  found' = cache
<1>1. PICK item \in cache : item.id = id
  BY DEF GetHit, Hit
<1>2. item \in Item /\ cache = {item}
  BY DEF Inv, TypeOK, CacheSingle
<1>3. [item EXCEPT !.id = id] = item
  BY <1>1, <1>2 DEF Item
<1> QED
  BY <1>2, <1>3 DEF GetHit

LEMMA InitInv == Init => Inv
<1> SUFFICES ASSUME Init PROVE Inv
  OBVIOUS
<1>1. TypeOK
  <2>1. files \in [Stem -> Input \cup {Unreadable}]
    BY DEF Init, NoFiles
  <2>2. stems \in Seq(Stem) /\ cache \subseteq Item /\ found \subseteq Item
    BY DEF Init
  <2>3. faults \in 0 .. MaxFaults /\ crashes \in 0 .. MaxCrashes
    BY ConstantsAssumption DEF Init
  <2> QED
    BY <2>1, <2>2, <2>3, IndexFileType DEF Init, TypeOK
<1>2. index.stems = <<>> /\ index.metadata = NoMeta /\ index.state = "missing"
  BY IndexFileType DEF Init
<1>3. CallState /\ IndexContent /\ CacheCoherent /\ CacheSingle
  BY <1>2 DEF Init, CallState, IndexContent, CacheCoherent, CacheSingle, NoOp,
     NewOp
<1>4. MemoryExtendsIndex /\ Numbered(stems) /\ Numbered(index.stems)
  BY <1>2 DEF Init, MemoryExtendsIndex, Numbered
<1>5. EntriesReadable /\ IndexReadable
  BY <1>2 DEF Init, EntriesReadable, IndexReadable
<1> QED
  BY <1>1, <1>3, <1>4, <1>5 DEF Inv

LEMMA StepDisk == Inv /\ [Next]_vars => DiskType'
<1> SUFFICES ASSUME Inv, [Next]_vars PROVE DiskType'
  OBVIOUS
<1> USE ConstantsAssumption, IndexFileType DEF Inv, TypeOK, CallState, disk,
    memory, caller, bounds, DiskType, NoOp, NewOp, Index, Broken
<1>1. CASE OpenLoad
  BY <1>1 DEF OpenLoad
<1>2. CASE OpenFresh
  BY <1>2 DEF OpenFresh
<1>3. CASE OpenFails
  BY <1>3 DEF OpenFails, Fault
<1>4. CASE AddCall
  BY <1>4 DEF AddCall, Idle, StartAdd, NewId, AddOp
<1>5. CASE CreateInput
  BY <1>5 DEF CreateInput
<1>6. CASE CreateInputFails
  BY <1>6 DEF CreateInputFails, Fault, ReturnErr
<1>7. CASE WriteInput
  BY <1>7 DEF WriteInput
<1>8. CASE WriteInputFails
  BY <1>8 DEF WriteInputFails, Fault, ReturnErr
<1>9. CASE TruncateIndex
  BY <1>9 DEF TruncateIndex
<1>10. CASE TruncateFails
  BY <1>10 DEF TruncateFails, Fault, ReturnErr
<1>11. CASE FlushIndex
  BY <1>11 DEF FlushIndex, ReturnOk
<1>12. CASE FlushLost
  BY <1>12 DEF FlushLost, Fault, ReturnOk, Broken
<1>13. CASE FlushFails
  BY <1>13 DEF FlushFails, Fault, ReturnErr, Broken
<1>14. CASE LoadSeeds
  BY <1>14 DEF LoadSeeds, Idle
<1>15. CASE SeedNext
  BY <1>15 DEF SeedNext, StartAdd, NewId, AddOp
<1>16. CASE SeedsDone
  BY <1>16 DEF SeedsDone, SeedsReturn
<1>17. CASE SeedsFail
  BY <1>17 DEF SeedsFail, SeedsReturn
<1>18. CASE Get
  BY <1>18 DEF Get, Idle, IdArg, Lookup, GetHit, GetMiss, GetFails, Hit, Loaded,
     Readable, Cached, Fault
<1>19. CASE RandomSelect
  BY <1>19 DEF RandomSelect, Idle, Lookup, GetHit, GetMiss, GetFails, Hit,
     Loaded, Readable, Cached, Fault
<1>20. CASE RandomSelectEmpty
  BY <1>20 DEF RandomSelectEmpty, Idle
<1>21. CASE Exit
  BY <1>21 DEF Exit, Idle, Forget
<1>22. CASE Crash
  BY <1>22 DEF Crash, Forget
<1>23. CASE UNCHANGED vars
  BY <1>23 DEF vars
<1> QED
  BY <1>1, <1>2, <1>3, <1>4, <1>5, <1>6, <1>7, <1>8, <1>9, <1>10, <1>11, <1>12,
     <1>13, <1>14, <1>15, <1>16, <1>17, <1>18, <1>19, <1>20, <1>21, <1>22, <1>23
     DEF Next

LEMMA StepMemory == Inv /\ [Next]_vars => MemoryType'
<1> SUFFICES ASSUME Inv, [Next]_vars PROVE MemoryType'
  OBVIOUS
<1> USE ConstantsAssumption, IndexFileType DEF Inv, TypeOK, disk, memory,
    caller, bounds, MemoryType
<1>1. CASE OpenLoad
  BY <1>1 DEF OpenLoad, Index
<1>2. CASE OpenFresh
  BY <1>2 DEF OpenFresh
<1>3. CASE OpenFails
  BY <1>3 DEF OpenFails, Fault
<1>4. CASE AddCall
  BY <1>4 DEF AddCall, Idle, StartAdd, NewId, AddOp
<1>5. CASE CreateInput
  BY <1>5 DEF CreateInput
<1>6. CASE CreateInputFails
  BY <1>6 DEF CreateInputFails, Fault, ReturnErr
<1>7. CASE WriteInput
  <2>1. op.id \in Stem /\ op.descr \in Descr
    BY <1>7 DEF WriteInput, CallState, NoOp, NewOp
  <2> QED
    BY <1>7, <2>1 DEF WriteInput, Meta
<1>8. CASE WriteInputFails
  BY <1>8 DEF WriteInputFails, Fault, ReturnErr
<1>9. CASE TruncateIndex
  BY <1>9 DEF TruncateIndex
<1>10. CASE TruncateFails
  BY <1>10 DEF TruncateFails, Fault, ReturnErr
<1>11. CASE FlushIndex
  BY <1>11 DEF FlushIndex, ReturnOk
<1>12. CASE FlushLost
  BY <1>12 DEF FlushLost, Fault, ReturnOk, Broken
<1>13. CASE FlushFails
  BY <1>13 DEF FlushFails, Fault, ReturnErr, Broken
<1>14. CASE LoadSeeds
  BY <1>14 DEF LoadSeeds, Idle
<1>15. CASE SeedNext
  BY <1>15 DEF SeedNext, StartAdd, NewId, AddOp
<1>16. CASE SeedsDone
  BY <1>16 DEF SeedsDone, SeedsReturn
<1>17. CASE SeedsFail
  BY <1>17 DEF SeedsFail, SeedsReturn
<1>18. CASE Get
  <2>1. PICK id \in IdArg : Lookup(id)
    BY <1>18, LengthBound, ConstantsAssumption DEF Get, IdArg, Inv, TypeOK
  <2>2. found' \in {cache, Loaded(id), {}} /\ cache' \in {cache, Loaded(id), {}}
    BY <2>1, HitAnswer DEF Lookup, GetHit, GetMiss, GetFails
  <2>3. UNCHANGED <<stems, metadata>>
    BY <2>1 DEF Lookup
  <2> QED
    BY <2>2, <2>3, LoadedType
<1>19. CASE RandomSelect
  <2>1. PICK id \in IdArg : Lookup(id)
    BY <1>19, LengthBound, ConstantsAssumption DEF RandomSelect, IdArg, Inv,
       TypeOK
  <2>2. found' \in {cache, Loaded(id), {}} /\ cache' \in {cache, Loaded(id), {}}
    BY <2>1, HitAnswer DEF Lookup, GetHit, GetMiss, GetFails
  <2>3. UNCHANGED <<stems, metadata>>
    BY <2>1 DEF Lookup
  <2> QED
    BY <2>2, <2>3, LoadedType
<1>20. CASE RandomSelectEmpty
  BY <1>20 DEF RandomSelectEmpty, Idle
<1>21. CASE Exit
  BY <1>21 DEF Exit, Idle, Forget
<1>22. CASE Crash
  BY <1>22 DEF Crash, Forget
<1>23. CASE UNCHANGED vars
  BY <1>23 DEF vars
<1> QED
  BY <1>1, <1>2, <1>3, <1>4, <1>5, <1>6, <1>7, <1>8, <1>9, <1>10, <1>11, <1>12,
     <1>13, <1>14, <1>15, <1>16, <1>17, <1>18, <1>19, <1>20, <1>21, <1>22, <1>23
     DEF Next

LEMMA StepCallType == Inv /\ [Next]_vars => CallType'
<1> SUFFICES ASSUME Inv, [Next]_vars PROVE CallType'
  OBVIOUS
<1> USE ConstantsAssumption DEF Inv, TypeOK, CallState, disk, memory, caller,
    bounds, CallType, NoOp, NewOp, Stem
<1>1. CASE OpenLoad
  BY <1>1 DEF OpenLoad
<1>2. CASE OpenFresh
  BY <1>2 DEF OpenFresh
<1>3. CASE OpenFails
  BY <1>3 DEF OpenFails, Fault
<1>4. CASE AddCall
  BY <1>4 DEF AddCall, Idle, StartAdd, NewId, AddOp
<1>5. CASE CreateInput
  BY <1>5 DEF CreateInput
<1>6. CASE CreateInputFails
  BY <1>6 DEF CreateInputFails, Fault, ReturnErr
<1>7. CASE WriteInput
  BY <1>7 DEF WriteInput
<1>8. CASE WriteInputFails
  BY <1>8 DEF WriteInputFails, Fault, ReturnErr
<1>9. CASE TruncateIndex
  BY <1>9 DEF TruncateIndex
<1>10. CASE TruncateFails
  BY <1>10 DEF TruncateFails, Fault, ReturnErr
<1>11. CASE FlushIndex
  BY <1>11 DEF FlushIndex, ReturnOk
<1>12. CASE FlushLost
  BY <1>12 DEF FlushLost, Fault, ReturnOk, Broken
<1>13. CASE FlushFails
  BY <1>13 DEF FlushFails, Fault, ReturnErr, Broken
<1>14. CASE LoadSeeds
  BY <1>14 DEF LoadSeeds, Idle
<1>15. CASE SeedNext
  BY <1>15 DEF SeedNext, StartAdd, NewId, AddOp
<1>16. CASE SeedsDone
  BY <1>16 DEF SeedsDone, SeedsReturn
<1>17. CASE SeedsFail
  BY <1>17 DEF SeedsFail, SeedsReturn
<1>18. CASE Get
  BY <1>18 DEF Get, Idle, IdArg, Lookup, GetHit, GetMiss, GetFails, Hit, Loaded,
     Readable, Cached, Fault
<1>19. CASE RandomSelect
  BY <1>19 DEF RandomSelect, Idle, Lookup, GetHit, GetMiss, GetFails, Hit,
     Loaded, Readable, Cached, Fault
<1>20. CASE RandomSelectEmpty
  BY <1>20 DEF RandomSelectEmpty, Idle
<1>21. CASE Exit
  BY <1>21 DEF Exit, Idle, Forget
<1>22. CASE Crash
  BY <1>22 DEF Crash, Forget
<1>23. CASE UNCHANGED vars
  BY <1>23 DEF vars
<1> QED
  BY <1>1, <1>2, <1>3, <1>4, <1>5, <1>6, <1>7, <1>8, <1>9, <1>10, <1>11, <1>12,
     <1>13, <1>14, <1>15, <1>16, <1>17, <1>18, <1>19, <1>20, <1>21, <1>22, <1>23
     DEF Next

LEMMA StepCount == Inv /\ [Next]_vars => CountType'
<1> SUFFICES ASSUME Inv, [Next]_vars PROVE CountType'
  OBVIOUS
<1> USE ConstantsAssumption DEF Inv, TypeOK, CallState, disk, memory, caller,
    bounds, CountType
<1>1. CASE OpenLoad
  BY <1>1 DEF OpenLoad
<1>2. CASE OpenFresh
  BY <1>2 DEF OpenFresh
<1>3. CASE OpenFails
  BY <1>3 DEF OpenFails, Fault
<1>4. CASE AddCall
  BY <1>4 DEF AddCall, Idle, StartAdd, NewId, AddOp
<1>5. CASE CreateInput
  BY <1>5 DEF CreateInput
<1>6. CASE CreateInputFails
  BY <1>6 DEF CreateInputFails, Fault, ReturnErr
<1>7. CASE WriteInput
  BY <1>7 DEF WriteInput
<1>8. CASE WriteInputFails
  BY <1>8 DEF WriteInputFails, Fault, ReturnErr
<1>9. CASE TruncateIndex
  BY <1>9 DEF TruncateIndex
<1>10. CASE TruncateFails
  BY <1>10 DEF TruncateFails, Fault, ReturnErr
<1>11. CASE FlushIndex
  BY <1>11 DEF FlushIndex, ReturnOk
<1>12. CASE FlushLost
  BY <1>12 DEF FlushLost, Fault, ReturnOk, Broken
<1>13. CASE FlushFails
  BY <1>13 DEF FlushFails, Fault, ReturnErr, Broken
<1>14. CASE LoadSeeds
  BY <1>14 DEF LoadSeeds, Idle
<1>15. CASE SeedNext
  BY <1>15 DEF SeedNext, StartAdd, NewId, AddOp
<1>16. CASE SeedsDone
  BY <1>16 DEF SeedsDone, SeedsReturn
<1>17. CASE SeedsFail
  BY <1>17 DEF SeedsFail, SeedsReturn
<1>18. CASE Get
  BY <1>18 DEF Get, Idle, IdArg, Lookup, GetHit, GetMiss, GetFails, Hit, Loaded,
     Readable, Cached, Fault
<1>19. CASE RandomSelect
  BY <1>19 DEF RandomSelect, Idle, Lookup, GetHit, GetMiss, GetFails, Hit,
     Loaded, Readable, Cached, Fault
<1>20. CASE RandomSelectEmpty
  BY <1>20 DEF RandomSelectEmpty, Idle
<1>21. CASE Exit
  BY <1>21 DEF Exit, Idle, Forget
<1>22. CASE Crash
  BY <1>22 DEF Crash, Forget
<1>23. CASE UNCHANGED vars
  BY <1>23 DEF vars
<1> QED
  BY <1>1, <1>2, <1>3, <1>4, <1>5, <1>6, <1>7, <1>8, <1>9, <1>10, <1>11, <1>12,
     <1>13, <1>14, <1>15, <1>16, <1>17, <1>18, <1>19, <1>20, <1>21, <1>22, <1>23
     DEF Next

LEMMA StepCall == Inv /\ [Next]_vars => CallState'
<1> SUFFICES ASSUME Inv, [Next]_vars PROVE CallState'
  OBVIOUS
<1> USE ConstantsAssumption, IndexFileType DEF Inv, TypeOK, CallState, NoOp,
    NewOp, disk, memory, caller, bounds
<1>1. CASE OpenLoad
  BY <1>1 DEF OpenLoad
<1>2. CASE OpenFresh
  BY <1>2 DEF OpenFresh
<1>3. CASE OpenFails
  BY <1>3 DEF OpenFails, Fault
<1>4. CASE AddCall
  BY <1>4 DEF AddCall, Idle, StartAdd, NewId, AddOp
<1>5. CASE CreateInput
  BY <1>5 DEF CreateInput
<1>6. CASE CreateInputFails
  BY <1>6 DEF CreateInputFails, Fault, ReturnErr
<1>7. CASE WriteInput
  BY <1>7 DEF WriteInput
<1>8. CASE WriteInputFails
  BY <1>8 DEF WriteInputFails, Fault, ReturnErr
<1>9. CASE TruncateIndex
  BY <1>9 DEF TruncateIndex
<1>10. CASE TruncateFails
  BY <1>10 DEF TruncateFails, Fault, ReturnErr
<1>11. CASE FlushIndex
  BY <1>11 DEF FlushIndex, ReturnOk
<1>12. CASE FlushLost
  BY <1>12 DEF FlushLost, Fault, ReturnOk, Broken
<1>13. CASE FlushFails
  BY <1>13 DEF FlushFails, Fault, ReturnErr, Broken
<1>14. CASE LoadSeeds
  BY <1>14 DEF LoadSeeds, Idle
<1>15. CASE SeedNext
  BY <1>15 DEF SeedNext, StartAdd, NewId, AddOp
<1>16. CASE SeedsDone
  BY <1>16 DEF SeedsDone, SeedsReturn
<1>17. CASE SeedsFail
  BY <1>17 DEF SeedsFail, SeedsReturn
<1>18. CASE Get
  BY <1>18 DEF Get, Idle, IdArg, Lookup, GetHit, GetMiss, GetFails, Hit, Loaded,
     Readable, Cached, Fault
<1>19. CASE RandomSelect
  BY <1>19 DEF RandomSelect, Idle, Lookup, GetHit, GetMiss, GetFails, Hit,
     Loaded, Readable, Cached, Fault
<1>20. CASE RandomSelectEmpty
  BY <1>20 DEF RandomSelectEmpty, Idle
<1>21. CASE Exit
  BY <1>21 DEF Exit, Idle, Forget
<1>22. CASE Crash
  BY <1>22 DEF Crash, Forget
<1>23. CASE UNCHANGED vars
  BY <1>23 DEF vars
<1> QED
  BY <1>1, <1>2, <1>3, <1>4, <1>5, <1>6, <1>7, <1>8, <1>9, <1>10, <1>11, <1>12,
     <1>13, <1>14, <1>15, <1>16, <1>17, <1>18, <1>19, <1>20, <1>21, <1>22, <1>23
     DEF Next

LEMMA StepNumbered == Inv /\ [Next]_vars => Numbered(stems)' /\ Numbered(index.stems)'
<1> SUFFICES ASSUME Inv, [Next]_vars PROVE Numbered(stems)' /\ Numbered(index.stems)'
  OBVIOUS
<1> USE ConstantsAssumption, IndexFileType DEF Inv, TypeOK, CallState, disk,
    memory, caller, bounds, Index, Broken, Numbered, NoOp, NewOp
<1>1. CASE OpenLoad
  BY <1>1 DEF OpenLoad
<1>2. CASE OpenFresh
  BY <1>2 DEF OpenFresh
<1>3. CASE OpenFails
  BY <1>3 DEF OpenFails, Fault
<1>4. CASE AddCall
  BY <1>4 DEF AddCall, Idle, StartAdd, NewId, AddOp
<1>5. CASE CreateInput
  BY <1>5 DEF CreateInput
<1>6. CASE CreateInputFails
  BY <1>6 DEF CreateInputFails, Fault, ReturnErr
<1>7. CASE WriteInput
  BY <1>7 DEF WriteInput
<1>8. CASE WriteInputFails
  BY <1>8 DEF WriteInputFails, Fault, ReturnErr
<1>9. CASE TruncateIndex
  BY <1>9 DEF TruncateIndex
<1>10. CASE TruncateFails
  BY <1>10 DEF TruncateFails, Fault, ReturnErr
<1>11. CASE FlushIndex
  BY <1>11 DEF FlushIndex, ReturnOk
<1>12. CASE FlushLost
  BY <1>12 DEF FlushLost, Fault, ReturnOk, Broken
<1>13. CASE FlushFails
  BY <1>13 DEF FlushFails, Fault, ReturnErr, Broken
<1>14. CASE LoadSeeds
  BY <1>14 DEF LoadSeeds, Idle
<1>15. CASE SeedNext
  BY <1>15 DEF SeedNext, StartAdd, NewId, AddOp
<1>16. CASE SeedsDone
  BY <1>16 DEF SeedsDone, SeedsReturn
<1>17. CASE SeedsFail
  BY <1>17 DEF SeedsFail, SeedsReturn
<1>18. CASE Get
  BY <1>18 DEF Get, Idle, IdArg, Lookup, GetHit, GetMiss, GetFails, Hit, Loaded,
     Readable, Cached, Fault
<1>19. CASE RandomSelect
  BY <1>19 DEF RandomSelect, Idle, Lookup, GetHit, GetMiss, GetFails, Hit,
     Loaded, Readable, Cached, Fault
<1>20. CASE RandomSelectEmpty
  BY <1>20 DEF RandomSelectEmpty, Idle
<1>21. CASE Exit
  BY <1>21 DEF Exit, Idle, Forget
<1>22. CASE Crash
  BY <1>22 DEF Crash, Forget
<1>23. CASE UNCHANGED vars
  BY <1>23 DEF vars
<1> QED
  BY <1>1, <1>2, <1>3, <1>4, <1>5, <1>6, <1>7, <1>8, <1>9, <1>10, <1>11, <1>12,
     <1>13, <1>14, <1>15, <1>16, <1>17, <1>18, <1>19, <1>20, <1>21, <1>22, <1>23
     DEF Next

LEMMA StepContent == Inv /\ [Next]_vars => IndexContent'
<1> SUFFICES ASSUME Inv, [Next]_vars PROVE IndexContent'
  OBVIOUS
<1> USE ConstantsAssumption, IndexFileType DEF Inv, TypeOK, CallState, disk,
    memory, caller, bounds, Index, Broken, IndexContent
<1>1. CASE OpenLoad
  BY <1>1 DEF OpenLoad
<1>2. CASE OpenFresh
  BY <1>2 DEF OpenFresh
<1>3. CASE OpenFails
  BY <1>3 DEF OpenFails, Fault
<1>4. CASE AddCall
  BY <1>4 DEF AddCall, Idle, StartAdd, NewId, AddOp
<1>5. CASE CreateInput
  BY <1>5 DEF CreateInput
<1>6. CASE CreateInputFails
  BY <1>6 DEF CreateInputFails, Fault, ReturnErr
<1>7. CASE WriteInput
  BY <1>7 DEF WriteInput
<1>8. CASE WriteInputFails
  BY <1>8 DEF WriteInputFails, Fault, ReturnErr
<1>9. CASE TruncateIndex
  BY <1>9 DEF TruncateIndex
<1>10. CASE TruncateFails
  BY <1>10 DEF TruncateFails, Fault, ReturnErr
<1>11. CASE FlushIndex
  BY <1>11 DEF FlushIndex, ReturnOk
<1>12. CASE FlushLost
  BY <1>12 DEF FlushLost, Fault, ReturnOk, Broken
<1>13. CASE FlushFails
  BY <1>13 DEF FlushFails, Fault, ReturnErr, Broken
<1>14. CASE LoadSeeds
  BY <1>14 DEF LoadSeeds, Idle
<1>15. CASE SeedNext
  BY <1>15 DEF SeedNext, StartAdd, NewId, AddOp
<1>16. CASE SeedsDone
  BY <1>16 DEF SeedsDone, SeedsReturn
<1>17. CASE SeedsFail
  BY <1>17 DEF SeedsFail, SeedsReturn
<1>18. CASE Get
  BY <1>18 DEF Get, Idle, IdArg, Lookup, GetHit, GetMiss, GetFails, Hit, Loaded,
     Readable, Cached, Fault
<1>19. CASE RandomSelect
  BY <1>19 DEF RandomSelect, Idle, Lookup, GetHit, GetMiss, GetFails, Hit,
     Loaded, Readable, Cached, Fault
<1>20. CASE RandomSelectEmpty
  BY <1>20 DEF RandomSelectEmpty, Idle
<1>21. CASE Exit
  BY <1>21 DEF Exit, Idle, Forget
<1>22. CASE Crash
  BY <1>22 DEF Crash, Forget
<1>23. CASE UNCHANGED vars
  BY <1>23 DEF vars
<1> QED
  BY <1>1, <1>2, <1>3, <1>4, <1>5, <1>6, <1>7, <1>8, <1>9, <1>10, <1>11, <1>12,
     <1>13, <1>14, <1>15, <1>16, <1>17, <1>18, <1>19, <1>20, <1>21, <1>22, <1>23
     DEF Next

LEMMA StepExtends == Inv /\ [Next]_vars => MemoryExtendsIndex'
<1> SUFFICES ASSUME Inv, [Next]_vars PROVE MemoryExtendsIndex'
  OBVIOUS
<1> USE ConstantsAssumption, IndexFileType DEF Inv, TypeOK, CallState, disk,
    memory, caller, bounds, Index, Broken, MemoryExtendsIndex, IndexContent
<1>1. CASE OpenLoad
  BY <1>1 DEF OpenLoad
<1>2. CASE OpenFresh
  BY <1>2 DEF OpenFresh
<1>3. CASE OpenFails
  BY <1>3 DEF OpenFails, Fault
<1>4. CASE AddCall
  BY <1>4 DEF AddCall, Idle, StartAdd, NewId, AddOp
<1>5. CASE CreateInput
  BY <1>5 DEF CreateInput
<1>6. CASE CreateInputFails
  BY <1>6 DEF CreateInputFails, Fault, ReturnErr
<1>7. CASE WriteInput
  <2>1. op.id = Len(stems) /\ Len(stems') = Len(stems) + 1 /\ index' = index
    BY <1>7 DEF WriteInput
  <2>2. ASSUME NEW k \in 1 .. Len(index.stems)
        PROVE  metadata'[k - 1] = metadata[k - 1]
    <3>1. index.stems[k] = k - 1 /\ index.stems[k] \in Stem /\ k <= Len(stems)
      BY <1>7 DEF Numbered, WriteInput
    <3> QED
      BY <1>7, <2>1, <3>1 DEF WriteInput, Meta
  <2> QED
    BY <1>7, <2>1, <2>2 DEF WriteInput
<1>8. CASE WriteInputFails
  BY <1>8 DEF WriteInputFails, Fault, ReturnErr
<1>9. CASE TruncateIndex
  <2>1. index'.stems = <<>> /\ Len(index'.stems) = 0 /\ Len(stems') >= 0
    BY <1>9 DEF TruncateIndex
  <2> QED
    BY <2>1
<1>10. CASE TruncateFails
  BY <1>10 DEF TruncateFails, Fault, ReturnErr
<1>11. CASE FlushIndex
  BY <1>11 DEF FlushIndex, ReturnOk
<1>12. CASE FlushLost
  BY <1>12 DEF FlushLost, Fault, ReturnOk, Broken
<1>13. CASE FlushFails
  BY <1>13 DEF FlushFails, Fault, ReturnErr, Broken
<1>14. CASE LoadSeeds
  BY <1>14 DEF LoadSeeds, Idle
<1>15. CASE SeedNext
  BY <1>15 DEF SeedNext, StartAdd, NewId, AddOp
<1>16. CASE SeedsDone
  BY <1>16 DEF SeedsDone, SeedsReturn
<1>17. CASE SeedsFail
  BY <1>17 DEF SeedsFail, SeedsReturn
<1>18. CASE Get
  BY <1>18 DEF Get, Idle, IdArg, Lookup, GetHit, GetMiss, GetFails, Hit, Loaded,
     Readable, Cached, Fault
<1>19. CASE RandomSelect
  BY <1>19 DEF RandomSelect, Idle, Lookup, GetHit, GetMiss, GetFails, Hit,
     Loaded, Readable, Cached, Fault
<1>20. CASE RandomSelectEmpty
  BY <1>20 DEF RandomSelectEmpty, Idle
<1>21. CASE Exit
  BY <1>21 DEF Exit, Idle, Forget
<1>22. CASE Crash
  BY <1>22 DEF Crash, Forget
<1>23. CASE UNCHANGED vars
  BY <1>23 DEF vars
<1> QED
  BY <1>1, <1>2, <1>3, <1>4, <1>5, <1>6, <1>7, <1>8, <1>9, <1>10, <1>11, <1>12,
     <1>13, <1>14, <1>15, <1>16, <1>17, <1>18, <1>19, <1>20, <1>21, <1>22, <1>23
     DEF Next

LEMMA StepEntries == Inv /\ [Next]_vars => EntriesReadable'
<1> SUFFICES ASSUME Inv, [Next]_vars PROVE EntriesReadable'
  OBVIOUS
<1> USE ConstantsAssumption, IndexFileType DEF Inv, TypeOK, CallState, disk,
    memory, caller, bounds, EntriesReadable, Readable
<1>1. CASE OpenLoad
  <2>1. ASSUME NEW id \in 0 .. Len(index.stems) - 1
        PROVE  id + 1 \in 1 .. Len(index.stems)
    BY DEF Index
  <2> QED
    BY <1>1, <2>1 DEF OpenLoad, IndexReadable, Index
<1>2. CASE OpenFresh
  BY <1>2 DEF OpenFresh
<1>3. CASE OpenFails
  BY <1>3 DEF OpenFails, Fault
<1>4. CASE AddCall
  BY <1>4 DEF AddCall, Idle, StartAdd, NewId, AddOp
<1>5. CASE CreateInput
  <2>1. op.id = Len(stems)
    BY <1>5 DEF CreateInput
  <2>2. ASSUME NEW id \in 0 .. Len(stems) - 1
        PROVE  files'[stems[id + 1]] = files[stems[id + 1]]
    <3>1. stems[id + 1] = id /\ stems[id + 1] \in Stem
      BY DEF Numbered
    <3> QED
      BY <1>5, <2>1, <3>1 DEF CreateInput
  <2> QED
    BY <1>5, <2>2 DEF CreateInput, EntriesReadable, Readable
<1>6. CASE CreateInputFails
  BY <1>6 DEF CreateInputFails, Fault, ReturnErr
<1>7. CASE WriteInput
  <2>1. op.id = Len(stems) /\ op.id \in Stem /\ op.input \in Input /\ op.descr \in Descr
    BY <1>7 DEF WriteInput, NoOp, NewOp
  <2>2. ASSUME NEW id \in 0 .. Len(stems') - 1
        PROVE  Readable(id)'
    <3>1. CASE id = Len(stems)
      <4>1. stems'[id + 1] = op.id
        BY <1>7, <2>1, <3>1 DEF WriteInput
      <4> QED
        BY <1>7, <2>1, <4>1, ConstantsAssumption DEF WriteInput, Readable, Meta
    <3>2. CASE id < Len(stems)
      <4>1. id + 1 \in 1 .. Len(stems)
        BY <1>7, <3>2 DEF WriteInput
      <4>2. stems'[id + 1] = stems[id + 1] /\ stems[id + 1] = id /\ id \in Stem
        BY <1>7, <4>1 DEF WriteInput, Numbered
      <4> QED
        BY <1>7, <2>1, <3>2, <4>2 DEF WriteInput, Readable, Meta,
           EntriesReadable
    <3> QED
      BY <1>7, <2>2, <3>1, <3>2 DEF WriteInput
  <2> QED
    BY <2>2 DEF EntriesReadable
<1>8. CASE WriteInputFails
  BY <1>8 DEF WriteInputFails, Fault, ReturnErr
<1>9. CASE TruncateIndex
  BY <1>9 DEF TruncateIndex
<1>10. CASE TruncateFails
  BY <1>10 DEF TruncateFails, Fault, ReturnErr
<1>11. CASE FlushIndex
  BY <1>11 DEF FlushIndex, ReturnOk
<1>12. CASE FlushLost
  BY <1>12 DEF FlushLost, Fault, ReturnOk, Broken
<1>13. CASE FlushFails
  BY <1>13 DEF FlushFails, Fault, ReturnErr, Broken
<1>14. CASE LoadSeeds
  BY <1>14 DEF LoadSeeds, Idle
<1>15. CASE SeedNext
  BY <1>15 DEF SeedNext, StartAdd, NewId, AddOp
<1>16. CASE SeedsDone
  BY <1>16 DEF SeedsDone, SeedsReturn
<1>17. CASE SeedsFail
  BY <1>17 DEF SeedsFail, SeedsReturn
<1>18. CASE Get
  BY <1>18 DEF Get, Lookup
<1>19. CASE RandomSelect
  BY <1>19 DEF RandomSelect, Lookup
<1>20. CASE RandomSelectEmpty
  BY <1>20 DEF RandomSelectEmpty, Idle
<1>21. CASE Exit
  BY <1>21 DEF Exit, Idle, Forget
<1>22. CASE Crash
  BY <1>22 DEF Crash, Forget
<1>23. CASE UNCHANGED vars
  BY <1>23 DEF vars
<1> QED
  BY <1>1, <1>2, <1>3, <1>4, <1>5, <1>6, <1>7, <1>8, <1>9, <1>10, <1>11, <1>12,
     <1>13, <1>14, <1>15, <1>16, <1>17, <1>18, <1>19, <1>20, <1>21, <1>22, <1>23
     DEF Next

LEMMA StepIndex == Inv /\ [Next]_vars => IndexReadable'
<1> SUFFICES ASSUME Inv, [Next]_vars PROVE IndexReadable'
  OBVIOUS
<1> USE ConstantsAssumption, IndexFileType DEF Inv, TypeOK, CallState, disk,
    memory, caller, bounds, IndexReadable, Index, Broken
<1>1. CASE OpenLoad
  BY <1>1 DEF OpenLoad
<1>2. CASE OpenFresh
  BY <1>2 DEF OpenFresh
<1>3. CASE OpenFails
  BY <1>3 DEF OpenFails, Fault
<1>4. CASE AddCall
  BY <1>4 DEF AddCall, Idle, StartAdd, NewId, AddOp
<1>5. CASE CreateInput
  <2>1. ASSUME NEW k \in 1 .. Len(index.stems)
        PROVE  op.id # index.stems[k] /\ index.stems[k] \in Stem
    <3>1. index.stems[k] = k - 1 /\ k <= Len(stems)
      BY <1>5 DEF Numbered, MemoryExtendsIndex, CreateInput
    <3> QED
      BY <1>5, <3>1 DEF CreateInput
  <2> QED
    BY <1>5, <2>1 DEF CreateInput
<1>6. CASE CreateInputFails
  BY <1>6 DEF CreateInputFails, Fault, ReturnErr
<1>7. CASE WriteInput
  <2>1. ASSUME NEW k \in 1 .. Len(index.stems)
        PROVE  op.id # index.stems[k] /\ index.stems[k] \in Stem
    <3>1. index.stems[k] = k - 1 /\ k <= Len(stems)
      BY <1>7 DEF Numbered, MemoryExtendsIndex, WriteInput
    <3> QED
      BY <1>7, <3>1 DEF WriteInput
  <2> QED
    BY <1>7, <2>1 DEF WriteInput
<1>8. CASE WriteInputFails
  BY <1>8 DEF WriteInputFails, Fault, ReturnErr
<1>9. CASE TruncateIndex
  BY <1>9 DEF TruncateIndex
<1>10. CASE TruncateFails
  BY <1>10 DEF TruncateFails, Fault, ReturnErr
<1>11. CASE FlushIndex
  <2>1. ASSUME NEW k \in 1 .. Len(stems)
        PROVE  Readable(k - 1)
    BY DEF EntriesReadable
  <2> QED
    BY <1>11, <2>1 DEF FlushIndex, ReturnOk, Readable
<1>12. CASE FlushLost
  BY <1>12 DEF FlushLost, Fault, ReturnOk, Broken
<1>13. CASE FlushFails
  BY <1>13 DEF FlushFails, Fault, ReturnErr, Broken
<1>14. CASE LoadSeeds
  BY <1>14 DEF LoadSeeds, Idle
<1>15. CASE SeedNext
  BY <1>15 DEF SeedNext, StartAdd, NewId, AddOp
<1>16. CASE SeedsDone
  BY <1>16 DEF SeedsDone, SeedsReturn
<1>17. CASE SeedsFail
  BY <1>17 DEF SeedsFail, SeedsReturn
<1>18. CASE Get
  BY <1>18 DEF Get, Lookup
<1>19. CASE RandomSelect
  BY <1>19 DEF RandomSelect, Lookup
<1>20. CASE RandomSelectEmpty
  BY <1>20 DEF RandomSelectEmpty, Idle
<1>21. CASE Exit
  BY <1>21 DEF Exit, Idle, Forget
<1>22. CASE Crash
  BY <1>22 DEF Crash, Forget
<1>23. CASE UNCHANGED vars
  BY <1>23 DEF vars
<1> QED
  BY <1>1, <1>2, <1>3, <1>4, <1>5, <1>6, <1>7, <1>8, <1>9, <1>10, <1>11, <1>12,
     <1>13, <1>14, <1>15, <1>16, <1>17, <1>18, <1>19, <1>20, <1>21, <1>22, <1>23
     DEF Next

LEMMA StepCache == Inv /\ [Next]_vars => CacheCoherent'
<1> SUFFICES ASSUME Inv, [Next]_vars PROVE CacheCoherent'
  OBVIOUS
<1> USE ConstantsAssumption, IndexFileType DEF Inv, TypeOK, CallState, disk,
    memory, caller, bounds, CacheCoherent
<1>1. CASE OpenLoad
  BY <1>1 DEF Cached, OpenLoad
<1>2. CASE OpenFresh
  BY <1>2 DEF Cached, OpenFresh
<1>3. CASE OpenFails
  BY <1>3 DEF Cached, OpenFails, Fault
<1>4. CASE AddCall
  BY <1>4 DEF Cached, AddCall, Idle, StartAdd, NewId, AddOp
<1>5. CASE CreateInput
  <2>1. op.id = Len(stems) /\ op.id \in Stem
    BY <1>5 DEF CreateInput, NoOp, NewOp
  <2>2. ASSUME NEW item \in cache
        PROVE  item.id < Len(stems) /\ Cached(item.id)' = Cached(item.id)
    <3>1. item.id \in Nat /\ item.id < Len(stems) /\ item.id + 1 \in 1 .. Len(stems)
      BY ConstantsAssumption DEF Item, Stem
    <3>2. stems[item.id + 1] = item.id /\ stems[item.id + 1] \in Stem
      BY <3>1 DEF Numbered
    <3>3. stems'[item.id + 1] = stems[item.id + 1]
      BY <1>5, <3>1 DEF CreateInput
    <3> QED
      BY <1>5, <2>1, <3>1, <3>2, <3>3 DEF CreateInput, Cached, Meta
  <2> QED
    BY <1>5, <2>1, <2>2 DEF CreateInput
<1>6. CASE CreateInputFails
  BY <1>6 DEF Cached, CreateInputFails, Fault, ReturnErr
<1>7. CASE WriteInput
  <2>1. op.id = Len(stems) /\ op.id \in Stem
    BY <1>7 DEF WriteInput, NoOp, NewOp
  <2>2. ASSUME NEW item \in cache
        PROVE  item.id < Len(stems) /\ Cached(item.id)' = Cached(item.id)
    <3>1. item.id \in Nat /\ item.id < Len(stems) /\ item.id + 1 \in 1 .. Len(stems)
      BY ConstantsAssumption DEF Item, Stem
    <3>2. stems[item.id + 1] = item.id /\ stems[item.id + 1] \in Stem
      BY <3>1 DEF Numbered
    <3>3. stems'[item.id + 1] = stems[item.id + 1]
      BY <1>7, <3>1 DEF WriteInput
    <3> QED
      BY <1>7, <2>1, <3>1, <3>2, <3>3 DEF WriteInput, Cached, Meta
  <2>3. cache' = cache /\ Len(stems') = Len(stems) + 1 /\ Len(stems) \in Nat
    BY <1>7 DEF WriteInput
  <2>4. ASSUME NEW item \in cache'
        PROVE  item.id < Len(stems') /\ item = Cached(item.id)'
    BY <2>2, <2>3, ConstantsAssumption DEF Item, Stem
  <2> QED
    BY <2>4
<1>8. CASE WriteInputFails
  BY <1>8 DEF Cached, WriteInputFails, Fault, ReturnErr
<1>9. CASE TruncateIndex
  BY <1>9 DEF Cached, TruncateIndex
<1>10. CASE TruncateFails
  BY <1>10 DEF Cached, TruncateFails, Fault, ReturnErr
<1>11. CASE FlushIndex
  BY <1>11 DEF Cached, FlushIndex, ReturnOk
<1>12. CASE FlushLost
  BY <1>12 DEF Cached, FlushLost, Fault, ReturnOk, Broken
<1>13. CASE FlushFails
  BY <1>13 DEF Cached, FlushFails, Fault, ReturnErr, Broken
<1>14. CASE LoadSeeds
  BY <1>14 DEF Cached, LoadSeeds, Idle
<1>15. CASE SeedNext
  BY <1>15 DEF Cached, SeedNext, StartAdd, NewId, AddOp
<1>16. CASE SeedsDone
  BY <1>16 DEF Cached, SeedsDone, SeedsReturn
<1>17. CASE SeedsFail
  BY <1>17 DEF Cached, SeedsFail, SeedsReturn
<1>18. CASE Get
  <2>1. PICK id \in IdArg : Lookup(id)
    BY <1>18, LengthBound, ConstantsAssumption DEF Get, IdArg
  <2>2. cache' \in {cache, Loaded(id), {}} /\ UNCHANGED <<files, stems, metadata>>
    BY <2>1 DEF Lookup, GetHit, GetMiss, GetFails
  <2> QED
    BY <2>2, LoadedType DEF Cached
<1>19. CASE RandomSelect
  <2>1. PICK id \in IdArg : Lookup(id)
    BY <1>19, LengthBound, ConstantsAssumption DEF RandomSelect, IdArg
  <2>2. cache' \in {cache, Loaded(id), {}} /\ UNCHANGED <<files, stems, metadata>>
    BY <2>1 DEF Lookup, GetHit, GetMiss, GetFails
  <2> QED
    BY <2>2, LoadedType DEF Cached
<1>20. CASE RandomSelectEmpty
  BY <1>20 DEF Cached, RandomSelectEmpty, Idle
<1>21. CASE Exit
  BY <1>21 DEF Cached, Exit, Idle, Forget
<1>22. CASE Crash
  BY <1>22 DEF Cached, Crash, Forget
<1>23. CASE UNCHANGED vars
  BY <1>23 DEF vars, Cached
<1> QED
  BY <1>1, <1>2, <1>3, <1>4, <1>5, <1>6, <1>7, <1>8, <1>9, <1>10, <1>11, <1>12,
     <1>13, <1>14, <1>15, <1>16, <1>17, <1>18, <1>19, <1>20, <1>21, <1>22, <1>23
     DEF Next

LEMMA StepSingle == Inv /\ [Next]_vars => CacheSingle'
<1> SUFFICES ASSUME Inv, [Next]_vars PROVE CacheSingle'
  OBVIOUS
<1> USE ConstantsAssumption DEF Inv, CacheSingle, memory
<1>1. CASE OpenLoad
  BY <1>1 DEF OpenLoad
<1>2. CASE OpenFresh
  BY <1>2 DEF OpenFresh
<1>3. CASE OpenFails
  BY <1>3 DEF OpenFails, Fault
<1>4. CASE AddCall
  BY <1>4 DEF AddCall, Idle, StartAdd, NewId, AddOp
<1>5. CASE CreateInput
  BY <1>5 DEF CreateInput
<1>6. CASE CreateInputFails
  BY <1>6 DEF CreateInputFails, Fault, ReturnErr
<1>7. CASE WriteInput
  BY <1>7 DEF WriteInput
<1>8. CASE WriteInputFails
  BY <1>8 DEF WriteInputFails, Fault, ReturnErr
<1>9. CASE TruncateIndex
  BY <1>9 DEF TruncateIndex
<1>10. CASE TruncateFails
  BY <1>10 DEF TruncateFails, Fault, ReturnErr
<1>11. CASE FlushIndex
  BY <1>11 DEF FlushIndex, ReturnOk
<1>12. CASE FlushLost
  BY <1>12 DEF FlushLost, Fault, ReturnOk, Broken
<1>13. CASE FlushFails
  BY <1>13 DEF FlushFails, Fault, ReturnErr, Broken
<1>14. CASE LoadSeeds
  BY <1>14 DEF LoadSeeds, Idle
<1>15. CASE SeedNext
  BY <1>15 DEF SeedNext, StartAdd, NewId, AddOp
<1>16. CASE SeedsDone
  BY <1>16 DEF SeedsDone, SeedsReturn
<1>17. CASE SeedsFail
  BY <1>17 DEF SeedsFail, SeedsReturn
<1>18. CASE Get
  <2>1. PICK id \in IdArg : Lookup(id)
    BY <1>18, LengthBound, ConstantsAssumption DEF Get, IdArg
  <2>2. cache' \in {cache, Loaded(id), {}}
    BY <2>1 DEF Lookup, GetHit, GetMiss, GetFails
  <2> QED
    BY <2>2 DEF Loaded
<1>19. CASE RandomSelect
  <2>1. PICK id \in IdArg : Lookup(id)
    BY <1>19, LengthBound, ConstantsAssumption DEF RandomSelect, IdArg
  <2>2. cache' \in {cache, Loaded(id), {}}
    BY <2>1 DEF Lookup, GetHit, GetMiss, GetFails
  <2> QED
    BY <2>2 DEF Loaded
<1>20. CASE RandomSelectEmpty
  BY <1>20 DEF RandomSelectEmpty, Idle
<1>21. CASE Exit
  BY <1>21 DEF Exit, Idle, Forget
<1>22. CASE Crash
  BY <1>22 DEF Crash, Forget
<1>23. CASE UNCHANGED vars
  BY <1>23 DEF vars
<1> QED
  BY <1>1, <1>2, <1>3, <1>4, <1>5, <1>6, <1>7, <1>8, <1>9, <1>10, <1>11, <1>12,
     <1>13, <1>14, <1>15, <1>16, <1>17, <1>18, <1>19, <1>20, <1>21, <1>22, <1>23
     DEF Next

-----------------------------------------------------------------------------
(* Theorems                                                                *)

LEMMA InvInductive == Inv /\ [Next]_vars => Inv'
  BY StepDisk, StepMemory, StepCallType, StepCount, StepCall, StepNumbered,
     StepContent, StepExtends, StepEntries, StepIndex, StepCache, StepSingle
     DEF Inv, TypeOK, DiskType, MemoryType, CallType, CountType

LEMMA Invariance == Spec => []Inv
<1> QED
  BY InitInv, InvInductive, PTL DEF Spec

\* Types, for every instance.
THEOREM TypeCorrect == Spec => []TypeOK
<1>1. Inv => TypeOK
  BY DEF Inv
<1> QED
  BY <1>1, Invariance, PTL

\* The cache always answers as a read of the disk would.
THEOREM CacheIsCoherent == Spec => []CacheCoherent
<1>1. Inv => CacheCoherent
  BY DEF Inv
<1> QED
  BY <1>1, Invariance, PTL

\* No failure or crash leaves an entry of the maps in memory without its file.
THEOREM MemoryIsReadable == Spec => []EntriesReadable
<1>1. Inv => EntriesReadable
  BY DEF Inv
<1> QED
  BY <1>1, Invariance, PTL

\* The index file never lists what is not on disk or not in memory.
THEOREM IndexIsSound == Spec => []SavedIndexSound
<1>1. Inv => SavedIndexSound
  <2> SUFFICES ASSUME Inv, NEW k \in 1 .. Len(index.stems), pc # "down"
               PROVE  k <= Len(stems) /\ stems[k] = index.stems[k]
    BY DEF SavedIndexSound, Inv, IndexReadable
  <2>1. k \in 1 .. Len(stems)
    BY DEF Inv, TypeOK, Index, MemoryExtendsIndex
  <2> QED
    BY <2>1 DEF Inv, Numbered
<1> QED
  BY <1>1, Invariance, PTL

LEMMA FaultCounts == Inv /\ Fault => faults' # 0
  BY ConstantsAssumption DEF Inv, TypeOK, Fault

LEMMA InSyncStep == Inv /\ InSyncOutsideSave /\ [Next]_vars => InSyncOutsideSave'
<1> SUFFICES ASSUME Inv, InSyncOutsideSave, [Next]_vars
             PROVE  InSyncOutsideSave'
  OBVIOUS
<1> USE ConstantsAssumption DEF InSyncOutsideSave, disk, memory, caller,
    bounds
<1>1. CASE OpenLoad
  BY <1>1 DEF OpenLoad
<1>2. CASE OpenFresh
  BY <1>2 DEF OpenFresh
<1>3. CASE OpenFails
  BY <1>3, FaultCounts DEF OpenFails
<1>4. CASE AddCall
  BY <1>4 DEF AddCall, Idle, StartAdd, NewId, AddOp
<1>5. CASE CreateInput
  BY <1>5 DEF CreateInput
<1>6. CASE CreateInputFails
  BY <1>6, FaultCounts DEF CreateInputFails
<1>7. CASE WriteInput
  BY <1>7 DEF WriteInput
<1>8. CASE WriteInputFails
  BY <1>8, FaultCounts DEF WriteInputFails
<1>9. CASE TruncateIndex
  BY <1>9 DEF TruncateIndex
<1>10. CASE TruncateFails
  BY <1>10, FaultCounts DEF TruncateFails
<1>11. CASE FlushIndex
  BY <1>11 DEF FlushIndex, ReturnOk
<1>12. CASE FlushLost
  BY <1>12, FaultCounts DEF FlushLost
<1>13. CASE FlushFails
  BY <1>13, FaultCounts DEF FlushFails
<1>14. CASE LoadSeeds
  BY <1>14 DEF LoadSeeds, Idle
<1>15. CASE SeedNext
  BY <1>15 DEF SeedNext, StartAdd, NewId, AddOp
<1>16. CASE SeedsDone
  BY <1>16 DEF SeedsDone, SeedsReturn
<1>17. CASE SeedsFail
  BY <1>17 DEF SeedsFail, SeedsReturn
<1>18. CASE Get
  BY <1>18, FaultCounts DEF Get, Lookup, GetHit, GetMiss, GetFails
<1>19. CASE RandomSelect
  BY <1>19, FaultCounts DEF RandomSelect, Lookup, GetHit, GetMiss, GetFails
<1>20. CASE RandomSelectEmpty
  BY <1>20 DEF RandomSelectEmpty, Idle
<1>21. CASE Exit
  BY <1>21 DEF Exit, Idle, Forget
<1>22. CASE Crash
  BY <1>22 DEF Crash, Forget
<1>23. CASE UNCHANGED vars
  BY <1>23 DEF vars
<1> QED
  BY <1>1, <1>2, <1>3, <1>4, <1>5, <1>6, <1>7, <1>8, <1>9, <1>10, <1>11,
     <1>12, <1>13, <1>14, <1>15, <1>16, <1>17, <1>18, <1>19, <1>20, <1>21,
     <1>22, <1>23 DEF Next

\* Fault-free, a process can be killed outside a save without losing anything.
THEOREM InSync == Spec => []InSyncOutsideSave
<1>1. Init => InSyncOutsideSave
  BY DEF Init, InSyncOutsideSave
<1> QED
  BY <1>1, InSyncStep, Invariance, PTL DEF Spec

-----------------------------------------------------------------------------
(* OnDiskCorpus implements Corpus                                          *)

LEMMA ViewType ==
  ASSUME NEW fs, NEW ids \in Seq(Stem), NEW meta,
         \A k \in 1 .. Len(ids) : fs[ids[k]] \in Input /\ meta[ids[k]] \in Descr
  PROVE  /\ View(fs, ids, meta) \in Seq(Contract!Entry)
         /\ Len(View(fs, ids, meta)) = Len(ids)
         /\ \A k \in 1 .. Len(ids) :
              View(fs, ids, meta)[k] = [input |-> fs[ids[k]], descr |-> meta[ids[k]]]
<1>1. Len(ids) \in Nat
  OBVIOUS
<1>2. View(fs, ids, meta) \in [1 .. Len(ids) -> Contract!Entry]
  BY DEF View, Contract!Entry
<1>3. View(fs, ids, meta) \in Seq(Contract!Entry)
  BY <1>1, <1>2, SeqDef
<1>4. DOMAIN View(fs, ids, meta) = 1 .. Len(View(fs, ids, meta))
  BY <1>3, LenProperties
<1>5. Len(View(fs, ids, meta)) = Len(ids)
  BY <1>1, <1>2, <1>3, <1>4
<1> QED
  BY <1>3, <1>5 DEF View

\* Every entry a map lists has an input and a description.
LEMMA Listed ==
  ASSUME Inv
  PROVE  /\ index.stems \in Seq(Stem)
         /\ \A k \in 1 .. Len(stems) :
              files[stems[k]] \in Input /\ metadata[stems[k]] \in Descr
         /\ \A k \in 1 .. Len(index.stems) :
              files[index.stems[k]] \in Input /\ index.metadata[index.stems[k]] \in Descr
<1> USE DEF Inv, TypeOK, Index, Meta
<1>1. ASSUME NEW k \in 1 .. Len(stems)
      PROVE  files[stems[k]] \in Input /\ metadata[stems[k]] \in Descr
  <2>1. Readable(k - 1)
    BY DEF EntriesReadable
  <2> QED
    BY <2>1 DEF Readable
<1>2. ASSUME NEW k \in 1 .. Len(index.stems)
      PROVE  files[index.stems[k]] \in Input /\ index.metadata[index.stems[k]] \in Descr
  BY DEF IndexReadable
<1> QED
  BY <1>1, <1>2

\* Entries as a sequence, while the process is up.
LEMMA MemoryView ==
  ASSUME Inv
  PROVE  LET v == View(files, stems, metadata)
         IN  /\ v \in Seq(Contract!Entry)
             /\ Len(v) = Len(stems)
             /\ \A k \in 1 .. Len(stems) :
                  v[k] = [input |-> files[stems[k]], descr |-> metadata[stems[k]]]
  BY Listed, ViewType DEF Inv, TypeOK

LEMMA IndexView ==
  ASSUME Inv
  PROVE  LET v == View(files, index.stems, index.metadata)
         IN  /\ v \in Seq(Contract!Entry)
             /\ Len(v) = Len(index.stems)
             /\ \A k \in 1 .. Len(index.stems) :
                  v[k] = [input |-> files[index.stems[k]],
                          descr |-> index.metadata[index.stems[k]]]
  BY Listed, ViewType

\* A process that ends with no index, or with the one it had, leaves a prefix
\* of its entries.
LEMMA IndexIsPrefix ==
  ASSUME Inv, Up
  PROVE  /\ Len(index.stems) \in 0 .. Len(Entries)
         /\ View(files, index.stems, index.metadata) = SubSeq(Entries, 1, Len(index.stems))
<1> DEFINE v == View(files, index.stems, index.metadata)
           n == Len(index.stems)
<1>1. n \in 0 .. Len(stems) /\ Len(stems) = Len(Entries) /\ Entries \in Seq(Contract!Entry)
  BY MemoryView DEF Inv, TypeOK, Index, MemoryExtendsIndex, Up, Entries
<1>2. ASSUME NEW k \in 1 .. n
      PROVE  v[k] = Entries[k] /\ Entries[k] \in Contract!Entry
  <2>1. k \in 1 .. Len(stems) /\ index.stems[k] = k - 1 /\ stems[k] = k - 1
    BY <1>1 DEF Inv, Numbered
  <2>2. index.metadata[k - 1] = metadata[k - 1]
    BY DEF Inv, MemoryExtendsIndex, Up
  <2>3. Entries[k] = [input |-> files[stems[k]], descr |-> metadata[stems[k]]]
    BY <2>1, MemoryView DEF Entries, Up
  <2>4. v[k] = [input |-> files[index.stems[k]],
                descr |-> index.metadata[index.stems[k]]]
    BY IndexView
  <2> QED
    BY <1>1, <2>1, <2>2, <2>3, <2>4
<1>3. /\ SubSeq(Entries, 1, n) \in Seq(Contract!Entry)
      /\ Len(SubSeq(Entries, 1, n)) = n
      /\ \A k \in 1 .. n : SubSeq(Entries, 1, n)[k] = Entries[k]
  <2>1. /\ SubSeq(Entries, 1, n) \in Seq(Contract!Entry)
        /\ Len(SubSeq(Entries, 1, n)) = IF 1 <= n THEN n - 1 + 1 ELSE 0
        /\ \A k \in 1 .. n - 1 + 1 : SubSeq(Entries, 1, n)[k] = Entries[1 + k - 1]
    BY <1>1, <1>2, SubSeqProperties
  <2> QED
    BY <1>1, <2>1
<1>4. v \in Seq(Contract!Entry) /\ Len(v) = n
  BY IndexView
<1>5. v = SubSeq(Entries, 1, n)
  BY <1>2, <1>3, <1>4, SeqEqual
<1> QED
  BY <1>1, <1>5

\* A step that ends the process closes the corpus.
LEMMA EndRefines ==
  ASSUME Inv, Up, ~Up', UNCHANGED files, found' = {},
         index' = index \/ index'.stems = <<>>
  PROVE  Contract!Close
<1> DEFINE ids == index'.stems
           meta == index'.metadata
<1>1. Entries' = View(files, ids, meta)
  BY DEF Entries, Up, View
<1>2. CASE index' = index
  <2>1. /\ Len(index.stems) \in 0 .. Len(Entries)
        /\ Entries' = SubSeq(Entries, 1, Len(index.stems))
    BY <1>1, <1>2, IndexIsPrefix
  <2> QED
    BY <2>1 DEF Contract!Close, Up
<1>3. CASE index'.stems = <<>>
  <2>1. View(files, ids, meta) = <<>>
    BY <1>3 DEF View
  <2>2. SubSeq(Entries, 1, 0) = <<>> /\ 0 \in 0 .. Len(Entries)
    BY IndexIsPrefix, SubSeqEmpty
  <2>3. Entries' = SubSeq(Entries, 1, 0)
    BY <1>1, <2>1, <2>2
  <2> QED
    BY <2>2, <2>3 DEF Contract!Close, Up
<1> QED
  BY <1>2, <1>3

\* A process that starts shows what the index lists.
LEMMA StartRefines ==
  ASSUME Inv, ~Up, Up', UNCHANGED <<files, found>>,
         View(files, stems', metadata') = View(files, index.stems, index.metadata)
  PROVE  Contract!Open
<1>1. Entries' = Entries
  BY DEF Entries, Up, View
<1> QED
  BY <1>1 DEF Contract!Open, Up

\* A step that leaves the entries alone and the process up or down.
LEMMA QuietRefines ==
  ASSUME UNCHANGED <<files, index, stems, metadata>>, Up' = Up
  PROVE  Entries' = Entries
  BY DEF Entries, Up, View

EntriesOfMemory ==
  /\ Entries \in Seq(Contract!Entry)
  /\ Len(Entries) = Len(stems)
  /\ \A k \in 1 .. Len(stems) :
       Entries[k] = [input |-> files[stems[k]], descr |-> metadata[stems[k]]]

LEMMA EntriesUp ==
  ASSUME Inv, Up
  PROVE  EntriesOfMemory
  BY MemoryView DEF EntriesOfMemory, Entries, Up

LEMMA NextEntriesUp == Inv' /\ Up' => EntriesOfMemory'
<1>1. Inv /\ Up => EntriesOfMemory
  BY EntriesUp
<1> QED
  BY <1>1, PTL

\* The item of a lookup is the answer the contract gives.
LEMMA LookupRefines ==
  ASSUME Inv, Idle, NEW id \in IdArg, Lookup(id)
  PROVE  Contract!Lookup \/ Contract!NoAnswer
<1>1. Up /\ Up' /\ Entries' = Entries
  BY QuietRefines DEF Idle, Up, Lookup, disk
<1>2. ASSUME NEW item \in Item, item.id < Len(stems), item = Cached(item.id), found' = {item}
      PROVE  Contract!Lookup
  <2>1. item.id \in 0 .. Len(Entries) - 1 /\ item.id + 1 \in 1 .. Len(stems)
    BY <1>1, <1>2, EntriesUp, ConstantsAssumption DEF Item, Stem, Inv, TypeOK,
       EntriesOfMemory
  <2>2. item = Contract!Answer(item.id)
    <3> DEFINE i == item.id
               e == Entries[i + 1]
    <3>1. e = [input |-> files[stems[i + 1]], descr |-> metadata[stems[i + 1]]]
      BY <1>1, <2>1, EntriesUp DEF EntriesOfMemory
    <3>2. e.input = files[stems[i + 1]] /\ e.descr = metadata[stems[i + 1]]
      BY <3>1
    <3> HIDE DEF e
    <3>3. Cached(i) = [id |-> i, input |-> e.input, descr |-> e.descr]
      BY <3>2 DEF Cached
    <3> QED
      BY <1>2, <3>3 DEF Contract!Answer, e
  <2> QED
    BY <1>1, <1>2, <2>1, <2>2 DEF Contract!Lookup
<1>3. ASSUME found' = {}
      PROVE  Contract!NoAnswer
  BY <1>1, <1>3 DEF Contract!NoAnswer
<1>4. CASE found' = cache /\ cache # {}
  <2>1. PICK item \in cache : cache = {item}
    BY <1>4 DEF Inv, CacheSingle
  <2> QED
    BY <1>2, <1>4, <2>1 DEF Inv, TypeOK, CacheCoherent
<1>5. CASE found' = Loaded(id) /\ Loaded(id) # {}
  <2>1. PICK item \in Loaded(id) : Loaded(id) = {item}
    BY <1>5 DEF Loaded
  <2> QED
    BY <1>2, <1>5, <2>1, LoadedType
<1> QED
  BY <1>3, <1>4, <1>5, HitAnswer DEF Lookup, GetHit, GetMiss, GetFails, Hit

LEMMA StepRefines == Inv /\ Inv' /\ [Next]_vars => [Contract!Next]_(Contract!vars)
<1> SUFFICES ASSUME Inv, Inv', [Next]_vars
             PROVE  Contract!Next \/ UNCHANGED Contract!vars
  OBVIOUS
<1> USE DEF disk, memory, caller, bounds
<1>a. ASSUME UNCHANGED <<files, index, stems, metadata, found>>, Up' = Up
      PROVE  UNCHANGED Contract!vars
  BY <1>a, QuietRefines DEF Contract!vars
<1>b. ASSUME UNCHANGED <<files, index, stems, metadata>>, Up, Up', found' = {}
      PROVE  Contract!Next
  BY <1>b, QuietRefines DEF Contract!NoAnswer, Contract!Next
<1>c. ASSUME ReturnErr, UNCHANGED <<files, stems, metadata, found>>,
             pc \in {"create", "write", "truncate", "flush"},
             index' = index \/ index'.stems = <<>>
      PROVE  Contract!Next \/ UNCHANGED Contract!vars
  <2>1. CASE op.call = "new"
    <3>1. Up /\ ~Up' /\ found' = {}
      BY <1>c, <2>1 DEF ReturnErr, Up, Inv, CallState
    <3> QED
      BY <1>c, <3>1, EndRefines DEF Contract!Next
  <2>2. CASE op.call # "new"
    <3>1. Up /\ Up'
      BY <1>c, <2>2 DEF ReturnErr, Up
    <3> QED
      BY <1>c, <3>1 DEF Contract!vars, Entries, View
  <2> QED
    BY <2>1, <2>2
<1>d. ASSUME UNCHANGED <<files, stems, metadata, found>>, Up, Up'
      PROVE  UNCHANGED Contract!vars
  BY <1>d DEF Contract!vars, Entries, View
<1>1. CASE OpenLoad
  <2>1. ~Up /\ Up'
    BY <1>1 DEF OpenLoad, Up
  <2>2. View(files, stems', metadata') = View(files, index.stems, index.metadata)
    BY <1>1 DEF OpenLoad
  <2> QED
    BY <1>1, <2>1, <2>2, StartRefines DEF OpenLoad, Contract!Next
<1>2. CASE OpenFresh
  <2>1. ~Up /\ Up' /\ stems' = <<>> /\ index.stems = <<>>
    BY <1>2 DEF OpenFresh, Up, Inv, CallState, IndexContent
  <2>2. View(files, stems', metadata') = View(files, index.stems, index.metadata)
    BY <2>1 DEF View
  <2> QED
    BY <1>2, <2>1, <2>2, StartRefines DEF OpenFresh, Contract!Next
<1>3. CASE OpenFails
  BY <1>3, <1>a DEF OpenFails, Up
<1>4. CASE AddCall
  BY <1>4, <1>b DEF AddCall, Idle, StartAdd, Up
<1>5. CASE CreateInput
  <2>1. Up /\ Up' /\ UNCHANGED <<index, stems, metadata, found>>
    BY <1>5 DEF CreateInput, Up
  <2>2. ASSUME NEW k \in 1 .. Len(stems)
        PROVE  files'[stems[k]] = files[stems[k]]
    BY <1>5 DEF CreateInput, Inv, TypeOK, CallState, Numbered
  <2>3. View(files', stems, metadata) = View(files, stems, metadata)
    BY <2>2 DEF View
  <2> QED
    BY <2>1, <2>3 DEF Entries, Up, View, Contract!vars
<1>6. CASE CreateInputFails
  BY <1>6, <1>c DEF CreateInputFails
<1>7. CASE WriteInput
  <2>1. Up /\ Up' /\ found' = {} /\ op.id = Len(stems)
    BY <1>7 DEF WriteInput, Up, Inv, CallState
  <2> DEFINE e == [input |-> op.input, descr |-> op.descr]
  <2>2. e \in Contract!Entry /\ op.id \in Stem
    BY <1>7 DEF WriteInput, Inv, TypeOK, CallState, NoOp, NewOp, Contract!Entry
  <2>3. /\ Len(stems') = Len(stems) + 1
        /\ stems'[Len(stems) + 1] = op.id
        /\ \A k \in 1 .. Len(stems) : stems'[k] = stems[k]
        /\ Len(stems) \in Nat
    BY <1>7, <2>2 DEF WriteInput, Inv, TypeOK
  <2>4. /\ Entries' \in Seq(Contract!Entry)
        /\ Len(Entries') = Len(stems')
        /\ \A k \in 1 .. Len(stems') :
             Entries'[k] = [input |-> files'[stems'[k]], descr |-> metadata'[stems'[k]]]
    BY <2>1, NextEntriesUp DEF EntriesOfMemory
  <2>5. ASSUME NEW k \in 1 .. Len(stems)
        PROVE  Entries'[k] = Entries[k]
    <3>1. k \in 1 .. Len(stems') /\ stems'[k] = stems[k] /\ stems[k] = k - 1
      BY <2>3 DEF Inv, Numbered
    <3>2. files'[stems[k]] = files[stems[k]] /\ metadata'[stems[k]] = metadata[stems[k]]
      BY <1>7, <2>1, <3>1 DEF WriteInput, Inv, TypeOK, Meta
    <3> QED
      BY <2>1, <2>4, <3>1, <3>2, EntriesUp DEF EntriesOfMemory
  <2>6. Entries'[Len(stems) + 1] = e
    BY <1>7, <2>2, <2>3, <2>4 DEF WriteInput, Inv, TypeOK, Meta
  <2>7. /\ Append(Entries, e) \in Seq(Contract!Entry)
        /\ Len(Append(Entries, e)) = Len(stems) + 1
        /\ \A k \in 1 .. Len(stems) : Append(Entries, e)[k] = Entries[k]
        /\ Append(Entries, e)[Len(stems) + 1] = e
    BY <2>1, <2>2, EntriesUp, AppendProperties DEF EntriesOfMemory
  <2>8. \A k \in 1 .. Len(Entries') : Entries'[k] = Append(Entries, e)[k]
    BY <2>3, <2>4, <2>5, <2>6, <2>7
  <2>9. Entries' = Append(Entries, e)
    BY <2>3, <2>4, <2>7, <2>8, SeqEqual
  <2> QED
    BY <2>1, <2>2, <2>9 DEF Contract!Add, Contract!Next
<1>8. CASE WriteInputFails
  BY <1>8, <1>c DEF WriteInputFails
<1>9. CASE TruncateIndex
  BY <1>9, <1>d DEF TruncateIndex, Up
<1>10. CASE TruncateFails
  BY <1>10, <1>c DEF TruncateFails
<1>11. CASE FlushIndex
  BY <1>11, <1>d DEF FlushIndex, ReturnOk, Up
<1>12. CASE FlushLost
  BY <1>12, <1>d DEF FlushLost, ReturnOk, Up
<1>13. CASE FlushFails
  BY <1>13, <1>c, IndexFileType DEF FlushFails, Broken
<1>14. CASE LoadSeeds
  BY <1>14, <1>b DEF LoadSeeds, Idle, Up
<1>15. CASE SeedNext
  BY <1>15, <1>b DEF SeedNext, StartAdd, Up
<1>16. CASE SeedsDone
  BY <1>16, <1>a DEF SeedsDone, SeedsReturn, Up
<1>17. CASE SeedsFail
  BY <1>17, <1>a DEF SeedsFail, SeedsReturn, Up
<1>18. CASE Get
  BY <1>18, LookupRefines DEF Get, Contract!Next
<1>19. CASE RandomSelect
  <2>1. PICK id \in IdArg : Lookup(id)
    BY <1>19, LengthBound, ConstantsAssumption DEF RandomSelect, IdArg, Inv,
       TypeOK
  <2> QED
    BY <1>19, <2>1, LookupRefines DEF RandomSelect, Contract!Next
<1>20. CASE RandomSelectEmpty
  BY <1>20, <1>b DEF RandomSelectEmpty, Idle, Up
<1>21. CASE Exit
  BY <1>21, EndRefines DEF Exit, Idle, Forget, Up, Contract!Next
<1>22. CASE Crash
  BY <1>22, EndRefines, IndexFileType DEF Crash, Forget, Up, Contract!Next
<1>23. CASE UNCHANGED vars
  BY <1>23, <1>a DEF vars, Up
<1> QED
  BY <1>1, <1>2, <1>3, <1>4, <1>5, <1>6, <1>7, <1>8, <1>9, <1>10, <1>11, <1>12,
     <1>13, <1>14, <1>15, <1>16, <1>17, <1>18, <1>19, <1>20, <1>21, <1>22, <1>23
     DEF Next

\* OnDiskCorpus keeps the contract of Corpus, whatever fails or dies.
THEOREM Refinement == Spec => ImplementsCorpus
<1>1. Init => Contract!Init
  BY IndexFileType DEF Init, Contract!Init, Up, Entries, View
<1> QED
  BY <1>1, StepRefines, Invariance, PTL DEF Spec, ImplementsCorpus,
     Contract!Spec
-----------------------------------------------------------------------------
(* What the calls that have returned have made of the corpus.  An add that *)
(* is under way does not count; Campaign is a FuzzLoop in this sense.      *)

Returned == IF Up THEN SubSeq(Entries, 1, Acknowledged) ELSE Entries

\* An add that is about to save the index has stored its entry, the last one,
\* and the index does not list it yet.
Stored ==
  op.call = "add" /\ pc \in {"truncate", "flush"} =>
    /\ Len(stems) = op.id + 1
    /\ files[op.id] = op.input /\ metadata[op.id] = op.descr
    /\ Len(index.stems) <= op.id

LEMMA StepStored == Inv /\ Stored /\ [Next]_vars => Stored'
<1> SUFFICES ASSUME Inv, Stored, [Next]_vars PROVE Stored'
  OBVIOUS
<1> USE DEF disk, memory, caller, bounds
<1>1. CASE WriteInput
  <2>1. /\ op.id = Len(stems) /\ op.id \in Stem /\ op.call = "add" /\ Up
        /\ Len(index.stems) <= Len(stems)
    BY <1>1 DEF WriteInput, Inv, TypeOK, CallState, NoOp, NewOp, Up,
                MemoryExtendsIndex
  <2>2. Len(stems') = op.id + 1
    BY <1>1, <2>1 DEF WriteInput, Inv, TypeOK
  <2>3. files'[op.id] = op.input /\ metadata'[op.id] = op.descr
    BY <1>1, <2>1 DEF WriteInput, Inv, TypeOK, Meta
  <2> QED
    BY <1>1, <2>1, <2>2, <2>3 DEF WriteInput, Stored
<1>2. CASE TruncateIndex
  <2>1. op.call = "add" => op.id \in Nat
    BY DEF Inv, TypeOK, NoOp, NewOp, Stem
  <2> QED
    BY <1>2, <2>1 DEF TruncateIndex, Stored, IndexFile
<1>3. CASE OpenFresh
  BY <1>3 DEF OpenFresh, Stored, NewOp
<1>4. CASE UNCHANGED vars \/ OpenFails
  BY <1>4 DEF vars, OpenFails, Stored
<1>5. ASSUME pc' \in {"down", "idle", "create", "write"}
      PROVE  Stored'
  BY <1>5 DEF Stored
<1>6. CASE OpenLoad \/ AddCall \/ CreateInput \/ LoadSeeds \/ SeedNext
  BY <1>5, <1>6 DEF OpenLoad, AddCall, StartAdd, CreateInput, LoadSeeds, Idle,
                    SeedNext
<1>7. CASE CreateInputFails \/ WriteInputFails \/ TruncateFails \/ FlushFails
  BY <1>5, <1>7 DEF CreateInputFails, WriteInputFails, TruncateFails, FlushFails,
                    ReturnErr
<1>8. CASE FlushIndex \/ FlushLost \/ SeedsDone \/ SeedsFail
  BY <1>5, <1>8 DEF FlushIndex, FlushLost, ReturnOk, SeedsDone, SeedsFail,
                    SeedsReturn
<1>9. CASE Get \/ RandomSelect \/ RandomSelectEmpty
  BY <1>5, <1>9 DEF Get, RandomSelect, Lookup, RandomSelectEmpty, Idle
<1>10. CASE Exit \/ Crash
  BY <1>5, <1>10 DEF Exit, Crash, Forget
<1> QED
  BY <1>1, <1>2, <1>3, <1>4, <1>6, <1>7, <1>8, <1>9, <1>10 DEF Next

\* Returned as a sequence, while the process is up.
ReturnedOfMemory ==
  /\ Acknowledged \in 0 .. Len(stems)
  /\ Returned \in Seq(Contract!Entry)
  /\ Len(Returned) = Acknowledged
  /\ \A k \in 1 .. Acknowledged :
       Returned[k] = [input |-> files[stems[k]], descr |-> metadata[stems[k]]]

LEMMA AcknowledgedType == Inv => Acknowledged \in 0 .. Len(stems)
<1> SUFFICES ASSUME Inv PROVE Acknowledged \in 0 .. Len(stems)
  OBVIOUS
<1>1. Len(stems) \in Nat /\ (op.call = "add" => op.id \in Nat)
  BY DEF Inv, TypeOK, NoOp, NewOp, Stem
<1> QED
  BY <1>1 DEF Acknowledged

LEMMA ReturnedUp == Inv /\ Up => ReturnedOfMemory
<1> SUFFICES ASSUME Inv, Up PROVE ReturnedOfMemory
  OBVIOUS
<1> DEFINE n == Acknowledged
<1>1. n \in 0 .. Len(stems) /\ n \in Nat /\ Len(stems) \in Nat
  BY AcknowledgedType DEF Inv, TypeOK
<1>2. EntriesOfMemory
  BY EntriesUp
<1> HIDE DEF n
<1>3. ASSUME NEW k \in 1 .. n
      PROVE  Entries[k] \in Contract!Entry
  BY <1>1, <1>2 DEF EntriesOfMemory
<1>4. /\ SubSeq(Entries, 1, n) \in Seq(Contract!Entry)
      /\ Len(SubSeq(Entries, 1, n)) = IF 1 <= n THEN n - 1 + 1 ELSE 0
      /\ \A k \in 1 .. n - 1 + 1 : SubSeq(Entries, 1, n)[k] = Entries[1 + k - 1]
  BY <1>1, <1>2, <1>3, SubSeqProperties DEF EntriesOfMemory
<1>5. /\ Len(SubSeq(Entries, 1, n)) = n
      /\ \A k \in 1 .. n : SubSeq(Entries, 1, n)[k] = Entries[k]
  BY <1>1, <1>4
<1> QED
  BY <1>1, <1>2, <1>4, <1>5 DEF EntriesOfMemory, ReturnedOfMemory, Returned, n

LEMMA NextReturnedUp == Inv' /\ Up' => ReturnedOfMemory'
BY ReturnedUp, PTL

\* A step that leaves the acknowledged entries as they are.
LEMMA ReturnedStays ==
  ASSUME Inv, Inv', Up, Up', Acknowledged' = Acknowledged,
         \A k \in 1 .. Acknowledged :
           /\ files'[stems'[k]] = files[stems[k]]
           /\ metadata'[stems'[k]] = metadata[stems[k]]
  PROVE  Returned' = Returned
BY ReturnedUp, NextReturnedUp, SeqEqual DEF ReturnedOfMemory

\* A step that acknowledges one more.
LEMMA ReturnedGrows ==
  ASSUME Inv, Inv', Up, Up', Acknowledged' = Acknowledged + 1,
         UNCHANGED <<files, stems, metadata>>,
         NEW e \in Contract!Entry,
         e = [input |-> files[stems[Acknowledged + 1]],
              descr |-> metadata[stems[Acknowledged + 1]]]
  PROVE  Returned' = Append(Returned, e)
<1>1. ReturnedOfMemory /\ ReturnedOfMemory'
  BY ReturnedUp, NextReturnedUp
<1>2. /\ Append(Returned, e) \in Seq(Contract!Entry)
      /\ Len(Append(Returned, e)) = Acknowledged + 1
      /\ \A k \in 1 .. Acknowledged : Append(Returned, e)[k] = Returned[k]
      /\ Append(Returned, e)[Acknowledged + 1] = e
  BY <1>1, AppendProperties DEF ReturnedOfMemory
<1>3. \A k \in 1 .. Acknowledged + 1 : Returned'[k] = Append(Returned, e)[k]
  BY <1>1, <1>2 DEF ReturnedOfMemory
<1> QED
  BY <1>1, <1>2, <1>3, SeqEqual DEF ReturnedOfMemory

\* Between two calls all entries count.
LEMMA ReturnedIdle ==
  ASSUME Inv, pc = "idle"
  PROVE  Returned = Entries /\ Acknowledged = Len(stems)
<1>1. Up /\ Acknowledged = Len(stems)
  BY DEF Inv, CallState, Up, Acknowledged, NoOp
<1>2. /\ Entries \in Seq(Contract!Entry) /\ Len(Entries) = Len(stems)
      /\ Len(stems) \in Nat
  BY <1>1, EntriesUp DEF EntriesOfMemory, Inv, TypeOK
<1>3. SubSeq(Entries, 1, Len(Entries)) = Entries
  BY <1>2
<1> QED
  BY <1>1, <1>2, <1>3 DEF Returned

\* While no process has the corpus, or one is making it, all it has is what the
\* index lists.
LEMMA ReturnedNew ==
  ASSUME Inv, op = NewOp
  PROVE  Returned = <<>> /\ index.stems = <<>> /\ Up
<1>1. stems = <<>> /\ Up /\ pc # "down"
  BY DEF Inv, CallState, Up, NoOp, NewOp
<1>2. Len(index.stems) <= 0 /\ index.stems \in Seq(Stem)
  BY <1>1 DEF Inv, MemoryExtendsIndex, TypeOK, Index
<1>3. index.stems = <<>>
  BY <1>2
<1>4. Acknowledged = 0
  BY <1>1, AcknowledgedType
<1>5. ReturnedOfMemory
  BY <1>1, ReturnedUp
<1>6. Returned = <<>>
  BY <1>4, <1>5 DEF ReturnedOfMemory
<1> QED
  BY <1>1, <1>3, <1>6

\* Until it returns, a call changes nothing.
LEMMA CallGoesOn ==
  ASSUME Inv, Inv',
         \/ AddCall \/ SeedNext \/ CreateInput \/ WriteInput \/ TruncateIndex
         \/ LoadSeeds \/ SeedsDone \/ SeedsFail
  PROVE  Returned' = Returned
<1> USE DEF disk, memory, caller, bounds
<1>1. CASE AddCall \/ SeedNext
  <2>1. pc = "idle" /\ Up /\ Up' /\ UNCHANGED <<files, stems, metadata>>
    BY <1>1 DEF AddCall, SeedNext, StartAdd, Idle, Up
  <2>2. Len(stems) \in Nat /\ op'.call = "add" /\ op'.id = Len(stems)
    BY <1>1 DEF AddCall, SeedNext, StartAdd, AddOp, NewId, Inv, TypeOK
  <2>3. Acknowledged = Len(stems) /\ Acknowledged' = Len(stems)
    BY <2>1, <2>2, ReturnedIdle DEF Acknowledged
  <2> QED
    BY <2>1, <2>3, ReturnedStays
<1>2. CASE CreateInput
  <2>1. Up /\ Up' /\ UNCHANGED <<stems, metadata, op>> /\ op.id = Len(stems)
    BY <1>2 DEF CreateInput, Up, Inv, CallState
  <2>2. Acknowledged' = Acknowledged /\ Acknowledged \in 0 .. Len(stems)
    BY <2>1, AcknowledgedType DEF Acknowledged
  <2>3. ASSUME NEW k \in 1 .. Acknowledged
        PROVE  files'[stems[k]] = files[stems[k]]
    <3>1. k \in 1 .. Len(stems) /\ Len(stems) \in Nat
      BY <2>2 DEF Inv, TypeOK
    <3> QED
      BY <1>2, <2>1, <3>1 DEF CreateInput, Inv, TypeOK, Numbered
  <2> QED
    BY <2>1, <2>2, <2>3, ReturnedStays
<1>3. CASE WriteInput
  <2>1. /\ Up /\ Up' /\ UNCHANGED op
        /\ op.call = "add" /\ op.id = Len(stems) /\ op.id \in Stem
        /\ Len(stems) \in Nat
    BY <1>3 DEF WriteInput, Up, Inv, CallState, TypeOK, NoOp, NewOp
  <2>2. /\ Len(stems') = Len(stems) + 1
        /\ \A k \in 1 .. Len(stems) : stems'[k] = stems[k]
    BY <1>3, <2>1 DEF WriteInput, Inv, TypeOK
  <2>3. Acknowledged = Len(stems) /\ Acknowledged' = Len(stems)
    BY <2>1, <2>2 DEF Acknowledged
  <2>4. ASSUME NEW k \in 1 .. Len(stems)
        PROVE  /\ files'[stems[k]] = files[stems[k]]
               /\ metadata'[stems[k]] = metadata[stems[k]]
    <3>1. stems[k] = k - 1 /\ stems[k] # op.id /\ stems[k] \in Stem
      BY <2>1 DEF Inv, Numbered, TypeOK
    <3> QED
      BY <1>3, <2>1, <3>1 DEF WriteInput, Inv, TypeOK, Meta
  <2> QED
    BY <2>1, <2>2, <2>3, <2>4, ReturnedStays
<1>4. CASE TruncateIndex
  BY <1>4, ReturnedStays DEF TruncateIndex, Up, Acknowledged
<1>5. CASE LoadSeeds \/ SeedsDone \/ SeedsFail
  BY <1>5, ReturnedStays DEF LoadSeeds, SeedsDone, SeedsFail, SeedsReturn, Idle,
     Up, Acknowledged
<1> QED
  BY <1>1, <1>2, <1>3, <1>4, <1>5

CallEnds ==
  \/ FlushIndex \/ FlushLost
  \/ CreateInputFails \/ WriteInputFails \/ TruncateFails \/ FlushFails

\* An add that returns has appended its entry, or it has failed and appended it
\* all the same or not.
LEMMA AddEnds ==
  ASSUME Inv, Inv', Stored, op.call = "add", CallEnds
  PROVE  LET e == [input |-> op.input, descr |-> op.descr]
         IN  /\ e \in Contract!Entry
             /\ Up /\ pc' = "idle" /\ op' = NoOp
             /\ \/ result' = "ok" /\ Returned' = Append(Returned, e)
                \/ /\ result' = "err" /\ faults' = faults + 1
                   /\ Returned' \in {Returned, Append(Returned, e)}
<1> DEFINE e == [input |-> op.input, descr |-> op.descr]
<1> USE DEF disk, memory, caller, bounds
<1>1. e \in Contract!Entry /\ op.id \in Nat /\ op # NewOp
  BY DEF Inv, TypeOK, NoOp, NewOp, Stem, Contract!Entry
<1>2. /\ Up /\ pc' = "idle" /\ op' = NoOp /\ Up'
      /\ UNCHANGED <<files, stems, metadata>>
      /\ \/ result' = "ok" /\ pc = "flush"
         \/ result' = "err" /\ faults' = faults + 1
  BY DEF CallEnds, FlushIndex, FlushLost, CreateInputFails, WriteInputFails,
         TruncateFails, FlushFails, ReturnOk, ReturnErr, Fault, Up
<1>3. Acknowledged' = Len(stems)
  BY <1>2 DEF Acknowledged, NoOp
<1>4. CASE pc \in {"create", "write"}
  <2>1. Acknowledged = Len(stems)
    BY <1>4, AcknowledgedType DEF Inv, CallState, TypeOK, Acknowledged
  <2>2. Returned' = Returned
    BY <1>2, <1>3, <2>1, ReturnedStays
  <2> QED
    BY <1>1, <1>2, <1>4, <2>2
<1>5. CASE pc \in {"truncate", "flush"}
  <2>1. /\ Len(stems) = op.id + 1
        /\ files[op.id] = op.input /\ metadata[op.id] = op.descr
    BY <1>5 DEF Stored
  <2>2. Acknowledged = op.id /\ stems[op.id + 1] = op.id
    BY <1>1, <2>1 DEF Acknowledged, Inv, Numbered
  <2> HIDE DEF e
  <2>3. e = [input |-> files[stems[Acknowledged + 1]],
             descr |-> metadata[stems[Acknowledged + 1]]]
    BY <2>1, <2>2 DEF e
  <2>4. Returned' = Append(Returned, e)
    BY <1>1, <1>2, <1>3, <2>1, <2>2, <2>3, ReturnedGrows
  <2> QED
    BY <1>1, <1>2, <2>4 DEF e
<1>6. pc \in {"create", "write", "truncate", "flush"}
  BY DEF CallEnds, FlushIndex, FlushLost, CreateInputFails, WriteInputFails,
         TruncateFails, FlushFails
<1> QED
  BY <1>4, <1>5, <1>6

\* A new that returns leaves an empty corpus, or none.
LEMMA NewEnds ==
  ASSUME Inv, Inv', op = NewOp, CallEnds
  PROVE  /\ Returned' = Returned
         /\ op' = NoOp
         /\ result' \in {"ok", "err"}
         /\ pc' = IF result' = "ok" THEN "idle" ELSE "down"
<1> USE DEF disk, memory, caller, bounds
<1>1. Returned = <<>> /\ index.stems = <<>> /\ Up /\ stems = <<>>
  BY ReturnedNew DEF Inv, CallState
<1>2. pc \in {"truncate", "flush"}
  BY DEF Inv, CallState, CallEnds, FlushIndex, FlushLost, CreateInputFails,
         WriteInputFails, TruncateFails, FlushFails, NewOp
<1>3. /\ op' = NoOp /\ stems' = <<>>
      /\ result' \in {"ok", "err"}
      /\ pc' = IF result' = "ok" THEN "idle" ELSE "down"
      /\ index'.stems = <<>>
  BY <1>1, <1>2, IndexFileType
     DEF CallEnds, FlushIndex, FlushLost, CreateInputFails, WriteInputFails,
         TruncateFails, FlushFails, ReturnOk, ReturnErr, NewOp, Broken
<1>4. CASE Up'
  <2>1. Acknowledged' = 0
    BY <1>3 DEF Acknowledged, NoOp
  <2>2. ReturnedOfMemory'
    BY <1>4, NextReturnedUp
  <2>3. Returned' = <<>>
    BY <2>1, <2>2 DEF ReturnedOfMemory
  <2> QED
    BY <1>1, <1>3, <2>3
<1>5. CASE ~Up'
  <2>1. Returned' = <<>>
    BY <1>3, <1>5 DEF Returned, Entries, View, Up
  <2> QED
    BY <1>1, <1>3, <2>1
<1> QED
  BY <1>4, <1>5

LEMMA NextReturnedNew == Inv' /\ (op = NewOp)' => (Returned = <<>>)'
<1>1. Inv /\ op = NewOp => Returned = <<>>
  BY ReturnedNew
<1> QED
  BY <1>1, PTL

\* A process that starts gets what the index lists.
LEMMA Opens ==
  ASSUME Inv, Inv', OpenLoad \/ OpenFresh \/ OpenFails
  PROVE  Returned' = Returned
<1> DEFINE v == View(files, index.stems, index.metadata)
<1> USE DEF disk, memory, caller, bounds
<1>1. Returned = v
  BY DEF OpenLoad, OpenFresh, OpenFails, Returned, Entries, Up
<1>2. CASE OpenLoad
  <2>1. op' = NoOp /\ Up'
    BY <1>2 DEF OpenLoad, Inv, CallState, Up
  <2>2. Entries' = v
    BY <1>2, <2>1 DEF OpenLoad, Entries, Up, View
  <2>3. v \in Seq(Contract!Entry) /\ Len(v) = Len(index.stems)
    BY IndexView
  <2>4. Acknowledged' = Len(v)
    BY <1>2, <2>1, <2>3 DEF OpenLoad, Acknowledged, NoOp
  <2> HIDE DEF v
  <2>5. SubSeq(v, 1, Len(v)) = v
    BY <2>3
  <2> QED
    BY <1>1, <2>1, <2>2, <2>4, <2>5 DEF Returned
<1>3. CASE OpenFresh
  <2>1. index.stems = <<>> /\ op' = NewOp
    BY <1>3 DEF OpenFresh, Inv, IndexContent
  <2>2. Returned = <<>>
    BY <1>1, <2>1 DEF View
  <2> QED
    BY <2>1, <2>2, NextReturnedNew
<1>4. CASE OpenFails
  BY <1>4 DEF OpenFails, Returned, Entries, Up, View, Acknowledged
<1> QED
  BY <1>2, <1>3, <1>4

\* A process that ends leaves a prefix.
LEMMA Closes ==
  ASSUME Inv, Stored, Exit \/ Crash
  PROVE  \E n \in 0 .. Len(Returned) : Returned' = SubSeq(Returned, 1, n)
<1> DEFINE n == Len(index.stems)
<1>1. /\ Up /\ ~Up' /\ UNCHANGED files
      /\ index' = index \/ index' = IndexFile("torn")
  BY DEF Exit, Crash, Forget, Idle, Up
<1>2. ReturnedOfMemory /\ EntriesOfMemory
  BY <1>1, ReturnedUp, EntriesUp
<1>3. Returned' = View(files, index'.stems, index'.metadata)
  BY <1>1 DEF Returned, Entries, Up, View
<1>4. CASE index' = index
  <2>1. n \in 0 .. Len(stems) /\ Len(stems) \in Nat
    BY <1>1 DEF Inv, TypeOK, Index, MemoryExtendsIndex, Up
  <2>2. n <= Acknowledged
    <3>1. CASE op.call = "add" /\ Len(stems) > op.id
      <4>1. pc \in {"truncate", "flush"} /\ op.id \in Nat
        BY <2>1, <3>1 DEF Inv, TypeOK, CallState, NoOp, NewOp, Stem
      <4> QED
        BY <3>1, <4>1 DEF Stored, Acknowledged
    <3> QED
      BY <2>1, <3>1 DEF Acknowledged
  <2>3. Returned' = SubSeq(Entries, 1, n)
    BY <1>1, <1>3, <1>4, IndexIsPrefix
  <2>4. n \in 0 .. Len(Returned) /\ n \in Nat /\ Len(Returned) <= Len(Entries)
    BY <1>2, <2>1, <2>2 DEF ReturnedOfMemory, EntriesOfMemory
  <2>5. SubSeq(Entries, 1, n) = SubSeq(Returned, 1, n)
    <3>1. \A k \in 1 .. n : Entries[k] = Returned[k] /\ k \in 1 .. Len(Returned)
      BY <1>2, <2>4 DEF ReturnedOfMemory, EntriesOfMemory
    <3> HIDE DEF n
    <3> QED
      BY <1>2, <2>4, <3>1 DEF ReturnedOfMemory, EntriesOfMemory
  <2> QED
    BY <2>3, <2>4, <2>5
<1>5. CASE index' = IndexFile("torn")
  <2>1. Returned' = <<>>
    BY <1>3, <1>5, IndexFileType DEF View
  <2>2. SubSeq(Returned, 1, 0) = <<>> /\ 0 \in 0 .. Len(Returned)
    BY <1>2, SubSeqEmpty DEF ReturnedOfMemory
  <2> QED
    BY <2>1, <2>2
<1> QED
  BY <1>1, <1>4, <1>5

\* A lookup of an entry gets it, unless the read fails.
LEMMA LookupAnswers ==
  ASSUME Inv, Inv', pc = "idle", NEW id \in 0 .. Len(stems) - 1, Lookup(id)
  PROVE  /\ Returned' = Returned
         /\ cache' = found'
         /\ \/ /\ found' = {[id    |-> id,
                             input |-> Returned[id + 1].input,
                             descr |-> Returned[id + 1].descr]}
               /\ faults' = faults
            \/ found' = {} /\ faults' = faults + 1
<1>1. /\ id \in IdArg /\ id \in Nat /\ id + 1 \in 1 .. Len(stems)
  BY LengthBound, ConstantsAssumption DEF IdArg, Inv, TypeOK
<1>2. Returned' = Returned
  BY ReturnedStays DEF Lookup, disk, Up, Acknowledged
<1>3. Cached(id) = [id    |-> id,
                    input |-> Returned[id + 1].input,
                    descr |-> Returned[id + 1].descr]
  <2> DEFINE e == Returned[id + 1]
  <2>1. e = [input |-> files[stems[id + 1]], descr |-> metadata[stems[id + 1]]]
    BY <1>1, ReturnedIdle, ReturnedUp DEF ReturnedOfMemory, Up
  <2>2. e.input = files[stems[id + 1]] /\ e.descr = metadata[stems[id + 1]]
    BY <2>1
  <2> HIDE DEF e
  <2>3. Cached(id) = [id |-> id, input |-> e.input, descr |-> e.descr]
    BY <2>2 DEF Cached
  <2> QED
    BY <2>3 DEF e
<1>4. CASE GetHit(id)
  <2>1. found' = cache
    BY <1>1, <1>4, HitAnswer
  <2>2. PICK item \in cache : item.id = id
    BY <1>4 DEF GetHit, Hit
  <2>3. cache = {item} /\ item = Cached(id)
    BY <2>2 DEF Inv, CacheSingle, CacheCoherent
  <2> QED
    BY <1>2, <1>3, <1>4, <2>1, <2>3 DEF GetHit
<1>5. CASE GetMiss(id)
  <2>1. Readable(id)
    BY <1>1 DEF Inv, EntriesReadable
  <2>2. Loaded(id) = {Cached(id)}
    BY <1>1, <2>1 DEF Loaded
  <2> QED
    BY <1>2, <1>3, <1>5, <2>2 DEF GetMiss
<1>6. CASE GetFails(id)
  BY <1>2, <1>6 DEF GetFails, Fault
<1> QED
  BY <1>4, <1>5, <1>6 DEF Lookup
=============================================================================
