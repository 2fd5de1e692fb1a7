--------------------------- MODULE FuzzLoop_proofs ---------------------------
(***************************************************************************)
(* Proofs about FuzzLoop, for all inputs and seeds, either feedback, and   *)
(* any numbers of iterations, processes and failing calls.                 *)
(***************************************************************************)
EXTENDS FuzzLoop, SequenceTheorems, FiniteSetTheorems, TLAPS

\* What the status and the observer's data say of the running iteration.
ExecutionState ==
  /\ pc \in {"down", "seeds", "default", "register"} => status = "none"
  /\ pc = "execute" =>
       /\ obsHash = IF post = 1 THEN mutated ELSE NoHash
       /\ status = "none" => post = 0
  /\ pc \in {"feedback", "oracle"} =>
       /\ obsHash \in {NoHash, mutated}
       /\ status \in {"Ok", "Crash", "Timeout"} => obsHash = mutated
  /\ pc \in {"mutate", "execute", "feedback", "oracle"} => iter < MaxIterations

\* What the feedback knows, what the corpus has, and what becomes of a crash.
CorpusState ==
  /\ KnownMatchesCorpus
  /\ CorpusNeverEmpty
  /\ pc = "register" => entries # <<>>
  /\ pc = "oracle" /\ added => mutated \in Kept
  /\ CrashAddsOnlyRepeats
  /\ EveryCrashIsKept

Inv == TypeOK /\ ExecutionState /\ CorpusState /\ FeedbackAddsOnce

-----------------------------------------------------------------------------
(* The corpus as a sequence                                                *)

Descriptions == {"seed", "default", "feedback", "crash"}

\* A step that adds the input x, and one that drops entries from the end.
Grows(x, d) == entries' = Append(entries, [input |-> x, descr |-> d])
Shrinks     == \E n \in 0 .. Len(entries) : entries' = SubSeq(entries, 1, n)

LEMMA GrownCorpus ==
  ASSUME entries \in Seq(Corpus!Entry),
         NEW x \in Inputs, NEW d \in Descriptions, Grows(x, d)
  PROVE  /\ entries' \in Seq(Corpus!Entry)
         /\ entries' # <<>>
         /\ Kept' = Kept \cup {x}
         /\ Len(entries') = Len(entries) + 1
         /\ \A i \in 1 .. Len(entries) : entries'[i] = entries[i]
         /\ entries'[Len(entries) + 1] = [input |-> x, descr |-> d]
<1> DEFINE e == [input |-> x, descr |-> d]
<1>1. e \in Corpus!Entry
  BY DEF Corpus!Entry, Descriptions
<1>2. /\ entries' \in Seq(Corpus!Entry)
      /\ entries' # <<>>
      /\ Len(entries') = Len(entries) + 1
      /\ \A i \in 1 .. Len(entries) : entries'[i] = entries[i]
      /\ entries'[Len(entries) + 1] = e
  BY <1>1, AppendProperties DEF Grows
<1>3. /\ DOMAIN entries = 1 .. Len(entries)
      /\ DOMAIN entries' = 1 .. Len(entries) + 1
      /\ Len(entries) \in Nat
  BY <1>2
<1>4. Kept' = Kept \cup {x}
  <2>1. \A y \in Kept' : y \in Kept \cup {x}
    BY <1>2, <1>3 DEF Kept
  <2>2. \A y \in Kept \cup {x} : y \in Kept'
    BY <1>2, <1>3 DEF Kept
  <2>3. QED
    BY <2>1, <2>2
<1>5. QED
  BY <1>2, <1>4

LEMMA ShrunkCorpus ==
  ASSUME entries \in Seq(Corpus!Entry), Shrinks
  PROVE  /\ entries' \in Seq(Corpus!Entry)
         /\ \A i \in DOMAIN entries' :
              i \in DOMAIN entries /\ entries'[i] = entries[i]
<1>1. PICK n \in 0 .. Len(entries) : entries' = SubSeq(entries, 1, n)
  BY DEF Shrinks
<1>2. /\ SubSeq(entries, 1, n) \in Seq(Corpus!Entry)
      /\ Len(SubSeq(entries, 1, n)) = n
      /\ \A i \in 1 .. n : SubSeq(entries, 1, n)[i] = entries[i]
  BY SubSeqProperties
<1>3. QED
  BY <1>1, <1>2

LEMMA StoredInput ==
  ASSUME entries \in Seq(Corpus!Entry), NEW i \in DOMAIN entries
  PROVE  entries[i].input \in Inputs
<1>1. entries[i] \in Corpus!Entry
  BY ElementOfSeq
<1>2. QED
  BY <1>1 DEF Corpus!Entry

LEMMA KeptIsInputs ==
  ASSUME entries \in Seq(Corpus!Entry)
  PROVE  Kept \subseteq Inputs
BY StoredInput DEF Kept

\* What an action does to the corpus.
LEMMA SeedGrows ==
  ASSUME TypeOK, LoadSeed \/ LoadSeedFails
  PROVE  \/ UNCHANGED entries
         \/ \E x \in Inputs : Grows(x, "seed")
BY ConstantsAssumption
   DEF TypeOK, LoadSeed, LoadSeedFails, AddFails, Add, Corpus!NoAnswer, Grows

LEMMA DefaultGrows ==
  ASSUME DefaultSeedAdded \/ DefaultSeedFails
  PROVE  \/ UNCHANGED entries
         \/ Grows(DefaultSeed, "default")
BY DEF DefaultSeedAdded, DefaultSeedFails, AddFails, Add, Corpus!NoAnswer,
   Grows,
       corpus

LEMMA BugGrows ==
  ASSUME BugAdded
  PROVE  UNCHANGED entries \/ Grows(mutated, "crash")
BY DEF BugAdded, AddFails, Add, Corpus!NoAnswer, Grows

LEMMA FeedbackGrows ==
  ASSUME AddToCorpus \/ AddToCorpusFails
  PROVE  /\ pc = "feedback" /\ Keep
         /\ UNCHANGED entries \/ Grows(mutated, "feedback")
         /\ UNCHANGED missed
BY DEF AddToCorpus, AddToCorpusFails, AddFails, Add, Corpus!NoAnswer, Grows

LEMMA DownShrinks ==
  ASSUME Kill \/ Finish
  PROVE  pc' = "down" /\ Shrinks /\ UNCHANGED missed
BY DEF Kill, Finish, Down, Corpus!Close, Shrinks

LEMMA CorpusStays ==
  ASSUME \/ Start \/ SeedsLoaded \/ Register \/ Schedule \/ Skip \/ Execute
         \/ PreExec \/ GiveUp \/ Decide \/ PostExec \/ Return \/ NotInteresting
         \/ NoBug \/ UNCHANGED vars
  PROVE  UNCHANGED entries
BY DEF Start, SeedsLoaded, Register, Schedule, Skip, Execute, PreExec, GiveUp,
       Decide, PostExec, Return, NotInteresting, NoBug, Corpus!Open, Corpus!Lookup,
       Corpus!NoAnswer, corpus, vars

-----------------------------------------------------------------------------
(* Types                                                                   *)

\* TypeOK but for the entries.
LoopTypes ==
  /\ feedback \in Feedbacks
  /\ pc \in {"down", "seeds", "default", "register", "next", "mutate", "execute",
             "feedback", "oracle", "exit"}
  /\ seedsLeft \in SUBSET Seeds
  /\ iter \in 0 .. MaxIterations
  /\ mutated \in Inputs
  /\ obsHash \in Inputs \cup {NoHash}
  /\ runs \in 0 .. MaxRuns
  /\ faults \in 0 .. MaxFaults

ExecutorTypes ==
  /\ pre \in 0 .. 1 /\ post \in 0 .. 1
  /\ status \in Executor!Statuses \cup {"none"}

Flags == open \in BOOLEAN /\ busy \in BOOLEAN /\ added \in BOOLEAN

Knowledge == known \in SUBSET Inputs /\ missed \in SUBSET Inputs

\* No step leaves the types of the loop.
LEMMA LoopTypesStep ==
  TypeOK /\ ExecutionState /\ [Next]_vars => LoopTypes'
<1> SUFFICES ASSUME TypeOK /\ ExecutionState, [Next]_vars
             PROVE  LoopTypes'
  OBVIOUS
<1> USE ConstantsAssumption DEF TypeOK, ExecutionState, LoopTypes, executor
<1>1. CASE Start
  BY <1>1 DEF Start, Corpus!Open
<1>2. CASE Kill
  BY <1>2 DEF Kill, Down, Corpus!Close, bounds
<1>3. CASE Finish
  BY <1>3 DEF Finish, Down, Corpus!Close, bounds
<1>4. CASE LoadSeed
  BY <1>4 DEF LoadSeed, Add, Corpus!Add, bounds
<1>5. CASE LoadSeedFails
  BY <1>5 DEF LoadSeedFails, AddFails, Fault, Add, Corpus!Add, Corpus!NoAnswer
<1>6. CASE SeedsLoaded
  BY <1>6 DEF SeedsLoaded, corpus, bounds
<1>7. CASE DefaultSeedAdded
  BY <1>7 DEF DefaultSeedAdded, Add, Corpus!Add, corpus, bounds
<1>8. CASE DefaultSeedFails
  BY <1>8 DEF DefaultSeedFails, AddFails, Fault, Add, Corpus!Add,
     Corpus!NoAnswer
<1>9. CASE Register
  BY <1>9 DEF Register, Fault, Corpus!NoAnswer
<1>10. CASE Schedule
  BY <1>10 DEF Schedule, Corpus!Lookup, bounds
<1>11. CASE Skip
  BY <1>11 DEF Skip, Corpus!NoAnswer, bounds
<1>12. CASE Execute
  BY <1>12 DEF Execute, Reset, Executor!Execute, Corpus!NoAnswer, bounds
<1>13. CASE PreExec
  BY <1>13 DEF PreExec, Executor!Prepare, Reset, corpus, bounds
<1>14. CASE GiveUp
  BY <1>14 DEF GiveUp, Executor!GiveUp, corpus, bounds
<1>15. CASE Decide
  BY <1>15 DEF Decide, Executor!Decide, corpus, bounds
<1>16. CASE PostExec
  BY <1>16 DEF PostExec, Executor!Tell, corpus, bounds
<1>17. CASE Return
  BY <1>17 DEF Return, Executor!Return, corpus, bounds
<1>18. CASE NotInteresting
  BY <1>18 DEF NotInteresting, corpus, bounds
<1>19. CASE AddToCorpus
  BY <1>19 DEF AddToCorpus, Add, Corpus!Add, bounds
<1>20. CASE AddToCorpusFails
  BY <1>20 DEF AddToCorpusFails, AddFails, Fault, Add, Corpus!Add,
     Corpus!NoAnswer
<1>21. CASE NoBug
  BY <1>21 DEF NoBug, IterationEnds, corpus
<1>22. CASE BugAdded
  BY <1>22 DEF BugAdded, IterationEnds, AddFails, Fault, Add, Corpus!Add,
     Corpus!NoAnswer
<1>23. CASE UNCHANGED vars
  BY <1>23 DEF vars, corpus, executor, bounds
<1> QED
  BY <1>1, <1>2, <1>3, <1>4, <1>5, <1>6, <1>7, <1>8, <1>9, <1>10, <1>11, <1>12,
     <1>13, <1>14, <1>15, <1>16, <1>17, <1>18, <1>19, <1>20, <1>21, <1>22, <1>23
     DEF Next, Run

\* Nor those of the executor.
LEMMA ExecutorTypesStep ==
  TypeOK /\ [Next]_vars => ExecutorTypes'
<1> SUFFICES ASSUME TypeOK, [Next]_vars
             PROVE  ExecutorTypes'
  OBVIOUS
<1> USE DEF TypeOK, ExecutorTypes, executor, Executor!Statuses
<1>1. CASE Start
  BY <1>1 DEF Start, Corpus!Open
<1>2. CASE Kill
  BY <1>2 DEF Kill, Down, Corpus!Close, bounds
<1>3. CASE Finish
  BY <1>3 DEF Finish, Down, Corpus!Close, bounds
<1>4. CASE LoadSeed
  BY <1>4 DEF LoadSeed, Add, Corpus!Add, bounds
<1>5. CASE LoadSeedFails
  BY <1>5 DEF LoadSeedFails, AddFails, Fault, Add, Corpus!Add, Corpus!NoAnswer
<1>6. CASE SeedsLoaded
  BY <1>6 DEF SeedsLoaded, corpus, bounds
<1>7. CASE DefaultSeedAdded
  BY <1>7 DEF DefaultSeedAdded, Add, Corpus!Add, corpus, bounds
<1>8. CASE DefaultSeedFails
  BY <1>8 DEF DefaultSeedFails, AddFails, Fault, Add, Corpus!Add,
     Corpus!NoAnswer
<1>9. CASE Register
  BY <1>9 DEF Register, Fault, Corpus!NoAnswer
<1>10. CASE Schedule
  BY <1>10 DEF Schedule, Corpus!Lookup, bounds
<1>11. CASE Skip
  BY <1>11 DEF Skip, Corpus!NoAnswer, bounds
<1>12. CASE Execute
  BY <1>12 DEF Execute, Reset, Executor!Execute, Corpus!NoAnswer, bounds
<1>13. CASE PreExec
  BY <1>13 DEF PreExec, Executor!Prepare, Reset, corpus, bounds
<1>14. CASE GiveUp
  BY <1>14 DEF GiveUp, Executor!GiveUp, corpus, bounds
<1>15. CASE Decide
  BY <1>15 DEF Decide, Executor!Decide, corpus, bounds
<1>16. CASE PostExec
  BY <1>16 DEF PostExec, Executor!Tell, corpus, bounds
<1>17. CASE Return
  BY <1>17 DEF Return, Executor!Return, corpus, bounds
<1>18. CASE NotInteresting
  BY <1>18 DEF NotInteresting, corpus, bounds
<1>19. CASE AddToCorpus
  BY <1>19 DEF AddToCorpus, Add, Corpus!Add, bounds
<1>20. CASE AddToCorpusFails
  BY <1>20 DEF AddToCorpusFails, AddFails, Fault, Add, Corpus!Add,
     Corpus!NoAnswer
<1>21. CASE NoBug
  BY <1>21 DEF NoBug, IterationEnds, corpus
<1>22. CASE BugAdded
  BY <1>22 DEF BugAdded, IterationEnds, AddFails, Fault, Add, Corpus!Add,
     Corpus!NoAnswer
<1>23. CASE UNCHANGED vars
  BY <1>23 DEF vars, corpus, executor, bounds
<1> QED
  BY <1>1, <1>2, <1>3, <1>4, <1>5, <1>6, <1>7, <1>8, <1>9, <1>10, <1>11, <1>12,
     <1>13, <1>14, <1>15, <1>16, <1>17, <1>18, <1>19, <1>20, <1>21, <1>22, <1>23
     DEF Next, Run

\* Nor those of the flags.
LEMMA FlagsStep ==
  TypeOK /\ [Next]_vars => Flags'
<1> SUFFICES ASSUME TypeOK, [Next]_vars
             PROVE  Flags'
  OBVIOUS
<1> USE DEF TypeOK, Flags, executor
<1>1. CASE Start
  BY <1>1 DEF Start, Corpus!Open
<1>2. CASE Kill
  BY <1>2 DEF Kill, Down, Corpus!Close, bounds
<1>3. CASE Finish
  BY <1>3 DEF Finish, Down, Corpus!Close, bounds
<1>4. CASE LoadSeed
  BY <1>4 DEF LoadSeed, Add, Corpus!Add, bounds
<1>5. CASE LoadSeedFails
  BY <1>5 DEF LoadSeedFails, AddFails, Fault, Add, Corpus!Add, Corpus!NoAnswer
<1>6. CASE SeedsLoaded
  BY <1>6 DEF SeedsLoaded, corpus, bounds
<1>7. CASE DefaultSeedAdded
  BY <1>7 DEF DefaultSeedAdded, Add, Corpus!Add, corpus, bounds
<1>8. CASE DefaultSeedFails
  BY <1>8 DEF DefaultSeedFails, AddFails, Fault, Add, Corpus!Add,
     Corpus!NoAnswer
<1>9. CASE Register
  BY <1>9 DEF Register, Fault, Corpus!NoAnswer
<1>10. CASE Schedule
  BY <1>10 DEF Schedule, Corpus!Lookup, bounds
<1>11. CASE Skip
  BY <1>11 DEF Skip, Corpus!NoAnswer, bounds
<1>12. CASE Execute
  BY <1>12 DEF Execute, Reset, Executor!Execute, Corpus!NoAnswer, bounds
<1>13. CASE PreExec
  BY <1>13 DEF PreExec, Executor!Prepare, Reset, corpus, bounds
<1>14. CASE GiveUp
  BY <1>14 DEF GiveUp, Executor!GiveUp, corpus, bounds
<1>15. CASE Decide
  BY <1>15 DEF Decide, Executor!Decide, corpus, bounds
<1>16. CASE PostExec
  BY <1>16 DEF PostExec, Executor!Tell, corpus, bounds
<1>17. CASE Return
  BY <1>17 DEF Return, Executor!Return, corpus, bounds
<1>18. CASE NotInteresting
  BY <1>18 DEF NotInteresting, corpus, bounds
<1>19. CASE AddToCorpus
  BY <1>19 DEF AddToCorpus, Add, Corpus!Add, bounds
<1>20. CASE AddToCorpusFails
  BY <1>20 DEF AddToCorpusFails, AddFails, Fault, Add, Corpus!Add,
     Corpus!NoAnswer
<1>21. CASE NoBug
  BY <1>21 DEF NoBug, IterationEnds, corpus
<1>22. CASE BugAdded
  BY <1>22 DEF BugAdded, IterationEnds, AddFails, Fault, Add, Corpus!Add,
     Corpus!NoAnswer
<1>23. CASE UNCHANGED vars
  BY <1>23 DEF vars, corpus, executor, bounds
<1> QED
  BY <1>1, <1>2, <1>3, <1>4, <1>5, <1>6, <1>7, <1>8, <1>9, <1>10, <1>11, <1>12,
     <1>13, <1>14, <1>15, <1>16, <1>17, <1>18, <1>19, <1>20, <1>21, <1>22, <1>23
     DEF Next, Run

\* Nor those of what the feedback knows.
LEMMA KnowledgeStep ==
  TypeOK /\ [Next]_vars => Knowledge'
<1> SUFFICES ASSUME TypeOK, [Next]_vars
             PROVE  Knowledge'
  OBVIOUS
<1> USE DEF TypeOK, Knowledge, executor
<1>1. CASE Start
  BY <1>1 DEF Start, Corpus!Open
<1>2. CASE Kill
  BY <1>2 DEF Kill, Down, Corpus!Close, bounds
<1>3. CASE Finish
  BY <1>3 DEF Finish, Down, Corpus!Close, bounds
<1>4. CASE LoadSeed
  BY <1>4 DEF LoadSeed, Add, Corpus!Add, bounds
<1>5. CASE LoadSeedFails
  BY <1>5 DEF LoadSeedFails, AddFails, Fault, Add, Corpus!Add, Corpus!NoAnswer
<1>6. CASE SeedsLoaded
  BY <1>6 DEF SeedsLoaded, corpus, bounds
<1>7. CASE DefaultSeedAdded
  BY <1>7 DEF DefaultSeedAdded, Add, Corpus!Add, corpus, bounds
<1>8. CASE DefaultSeedFails
  BY <1>8 DEF DefaultSeedFails, AddFails, Fault, Add, Corpus!Add,
     Corpus!NoAnswer
<1>9. CASE Register
  <2>1. \A i \in DOMAIN entries : entries[i].input \in Inputs
    BY StoredInput
  <2>2. QED
    BY <1>9, <2>1 DEF Register
<1>10. CASE Schedule
  BY <1>10 DEF Schedule, Corpus!Lookup, bounds
<1>11. CASE Skip
  BY <1>11 DEF Skip, Corpus!NoAnswer, bounds
<1>12. CASE Execute
  BY <1>12 DEF Execute, Reset, Executor!Execute, Corpus!NoAnswer, bounds
<1>13. CASE PreExec
  BY <1>13 DEF PreExec, Executor!Prepare, Reset, corpus, bounds
<1>14. CASE GiveUp
  BY <1>14 DEF GiveUp, Executor!GiveUp, corpus, bounds
<1>15. CASE Decide
  BY <1>15 DEF Decide, Executor!Decide, corpus, bounds
<1>16. CASE PostExec
  BY <1>16 DEF PostExec, Executor!Tell, corpus, bounds
<1>17. CASE Return
  BY <1>17 DEF Return, Executor!Return, corpus, bounds
<1>18. CASE NotInteresting
  BY <1>18 DEF NotInteresting, corpus, bounds
<1>19. CASE AddToCorpus
  BY <1>19 DEF AddToCorpus, Add, Corpus!Add, bounds
<1>20. CASE AddToCorpusFails
  BY <1>20 DEF AddToCorpusFails, AddFails, Fault, Add, Corpus!Add,
     Corpus!NoAnswer
<1>21. CASE NoBug
  BY <1>21 DEF NoBug, IterationEnds, corpus
<1>22. CASE BugAdded
  BY <1>22 DEF BugAdded, IterationEnds, AddFails, Fault, Add, Corpus!Add,
     Corpus!NoAnswer
<1>23. CASE UNCHANGED vars
  BY <1>23 DEF vars, corpus, executor, bounds
<1> QED
  BY <1>1, <1>2, <1>3, <1>4, <1>5, <1>6, <1>7, <1>8, <1>9, <1>10, <1>11, <1>12,
     <1>13, <1>14, <1>15, <1>16, <1>17, <1>18, <1>19, <1>20, <1>21, <1>22, <1>23
     DEF Next, Run


\* What any step does to the corpus: it is left as it is, grows by an input
\* that is the feedback's only if the feedback keeps it, or loses its end.
LEMMA CorpusStep ==
  ASSUME TypeOK, [Next]_vars
  PROVE  \/ UNCHANGED entries
         \/ \E x \in Inputs, d \in Descriptions :
              /\ Grows(x, d)
              /\ d = "feedback" => pc = "feedback" /\ Keep /\ x = mutated
              /\ UNCHANGED missed
         \/ Shrinks /\ UNCHANGED missed
<1> USE DEF Descriptions
<1>1. CASE LoadSeed \/ LoadSeedFails
  <2>1. UNCHANGED missed
    BY <1>1 DEF LoadSeed, LoadSeedFails
  <2>2. QED
    BY <1>1, <2>1, SeedGrows
<1>2. CASE DefaultSeedAdded \/ DefaultSeedFails
  <2>1. UNCHANGED missed
    BY <1>2 DEF DefaultSeedAdded, DefaultSeedFails
  <2>2. QED
    BY <1>2, <2>1, DefaultGrows, ConstantsAssumption
<1>3. CASE AddToCorpus \/ AddToCorpusFails
  BY <1>3, FeedbackGrows DEF TypeOK
<1>4. CASE BugAdded
  <2>1. UNCHANGED missed
    BY <1>4 DEF BugAdded, IterationEnds
  <2>2. QED
    BY <1>4, <2>1, BugGrows DEF TypeOK
<1>5. CASE Kill \/ Finish
  BY <1>5, DownShrinks
<1>6. CASE \/ Start \/ SeedsLoaded \/ Register \/ Schedule \/ Skip \/ Execute
           \/ PreExec \/ GiveUp \/ Decide \/ PostExec \/ Return \/ NotInteresting
           \/ NoBug \/ UNCHANGED vars
  BY <1>6, CorpusStays
<1> QED
  BY <1>1, <1>2, <1>3, <1>4, <1>5, <1>6 DEF Next, Run

LEMMA EntriesTypeStep ==
  TypeOK /\ [Next]_vars => entries' \in Seq(Corpus!Entry)
<1> SUFFICES ASSUME TypeOK, [Next]_vars
             PROVE  entries' \in Seq(Corpus!Entry)
  OBVIOUS
<1>1. entries \in Seq(Corpus!Entry)
  BY DEF TypeOK
<1>2. CASE UNCHANGED entries
  BY <1>1, <1>2
<1>3. ASSUME NEW x \in Inputs, NEW d \in Descriptions, Grows(x, d)
      PROVE  entries' \in Seq(Corpus!Entry)
  BY <1>1, <1>3, GrownCorpus
<1>4. CASE Shrinks
  BY <1>1, <1>4, ShrunkCorpus
<1> QED
  BY <1>2, <1>3, <1>4, CorpusStep

LEMMA TypeStep == TypeOK /\ ExecutionState /\ [Next]_vars => TypeOK'
<1> SUFFICES ASSUME TypeOK, ExecutionState, [Next]_vars
             PROVE  TypeOK'
  OBVIOUS
<1>1. LoopTypes' /\ ExecutorTypes' /\ Flags' /\ Knowledge'
  BY LoopTypesStep, ExecutorTypesStep, FlagsStep, KnowledgeStep
<1>2. entries' \in Seq(Corpus!Entry)
  BY EntriesTypeStep
<1> QED
  BY <1>1, <1>2 DEF TypeOK, LoopTypes, ExecutorTypes, Flags, Knowledge

-----------------------------------------------------------------------------
(* The parts of the invariant                                              *)

\* The data of the observer stays that of the running execution.
LEMMA ExecutionStateStep ==
  TypeOK /\ ExecutionState /\ [Next]_vars => ExecutionState'
<1> SUFFICES ASSUME TypeOK /\ ExecutionState, [Next]_vars
             PROVE  ExecutionState'
  OBVIOUS
<1> USE DEF TypeOK, ExecutionState, executor, Executor!Statuses
<1>1. CASE Start
  BY <1>1 DEF Start, Corpus!Open
<1>2. CASE Kill
  BY <1>2 DEF Kill, Down, Corpus!Close, bounds
<1>3. CASE Finish
  BY <1>3 DEF Finish, Down, Corpus!Close, bounds
<1>4. CASE LoadSeed
  BY <1>4 DEF LoadSeed, Add, Corpus!Add, bounds
<1>5. CASE LoadSeedFails
  BY <1>5 DEF LoadSeedFails, AddFails, Fault, Add, Corpus!Add, Corpus!NoAnswer
<1>6. CASE SeedsLoaded
  BY <1>6 DEF SeedsLoaded, corpus, bounds
<1>7. CASE DefaultSeedAdded
  BY <1>7 DEF DefaultSeedAdded, Add, Corpus!Add, corpus, bounds
<1>8. CASE DefaultSeedFails
  BY <1>8 DEF DefaultSeedFails, AddFails, Fault, Add, Corpus!Add,
     Corpus!NoAnswer
<1>9. CASE Register
  BY <1>9 DEF Register, Fault, Corpus!NoAnswer
<1>10. CASE Schedule
  BY <1>10 DEF Schedule, Corpus!Lookup, bounds
<1>11. CASE Skip
  BY <1>11 DEF Skip, Corpus!NoAnswer, bounds
<1>12. CASE Execute
  BY <1>12 DEF Execute, Reset, Executor!Execute, Corpus!NoAnswer, bounds
<1>13. CASE PreExec
  BY <1>13 DEF PreExec, Executor!Prepare, Reset, corpus, bounds
<1>14. CASE GiveUp
  BY <1>14 DEF GiveUp, Executor!GiveUp, corpus, bounds
<1>15. CASE Decide
  BY <1>15 DEF Decide, Executor!Decide, corpus, bounds
<1>16. CASE PostExec
  BY <1>16 DEF PostExec, Executor!Tell, corpus, bounds
<1>17. CASE Return
  BY <1>17 DEF Return, Executor!Return, corpus, bounds
<1>18. CASE NotInteresting
  BY <1>18 DEF NotInteresting, corpus, bounds
<1>19. CASE AddToCorpus
  BY <1>19 DEF AddToCorpus, Add, Corpus!Add, bounds
<1>20. CASE AddToCorpusFails
  BY <1>20 DEF AddToCorpusFails, AddFails, Fault, Add, Corpus!Add,
     Corpus!NoAnswer
<1>21. CASE NoBug
  BY <1>21 DEF NoBug, IterationEnds, corpus
<1>22. CASE BugAdded
  BY <1>22 DEF BugAdded, IterationEnds, AddFails, Fault, Add, Corpus!Add,
     Corpus!NoAnswer
<1>23. CASE UNCHANGED vars
  BY <1>23 DEF vars, corpus, executor, bounds
<1> QED
  BY <1>1, <1>2, <1>3, <1>4, <1>5, <1>6, <1>7, <1>8, <1>9, <1>10, <1>11, <1>12,
     <1>13, <1>14, <1>15, <1>16, <1>17, <1>18, <1>19, <1>20, <1>21, <1>22, <1>23
     DEF Next, Run


\* The corpus is left alone, and so is all that CorpusState says of it.
LEMMA SameKept == UNCHANGED entries => UNCHANGED Kept
BY DEF Kept

\* The feedback and the corpus stay in step, and no crash is lost.
LEMMA CorpusStateStep ==
  TypeOK /\ ExecutionState /\ CorpusState /\ [Next]_vars => CorpusState'
<1> SUFFICES ASSUME TypeOK /\ ExecutionState /\ CorpusState, [Next]_vars
             PROVE  CorpusState'
  OBVIOUS
<1> USE DEF CorpusState, KnownMatchesCorpus, CorpusNeverEmpty,
           CrashAddsOnlyRepeats, EveryCrashIsKept, Looping
<1>1. CASE Start
  BY <1>1 DEF Start
<1>2. CASE Kill
  BY <1>2 DEF Kill, Down
<1>3. CASE Finish
  BY <1>3 DEF Finish, Down
<1>4. CASE LoadSeed
  BY <1>4 DEF LoadSeed
<1>5. CASE LoadSeedFails
  BY <1>5 DEF LoadSeedFails
<1>6. CASE SeedsLoaded
  BY <1>6 DEF SeedsLoaded
<1>7. CASE DefaultSeedAdded
  <2>1. CASE entries = <<>>
    <3>1. Grows(DefaultSeed, "default")
      BY <1>7, <2>1 DEF DefaultSeedAdded, Add, Grows
    <3>2. entries' # <<>>
      BY <3>1, GrownCorpus, ConstantsAssumption DEF Descriptions, TypeOK
    <3>3. QED
      BY <1>7, <3>2 DEF DefaultSeedAdded
  <2>2. CASE entries # <<>>
    BY <1>7, <2>2 DEF DefaultSeedAdded, corpus
  <2>3. QED
    BY <2>1, <2>2
<1>8. CASE DefaultSeedFails
  BY <1>8 DEF DefaultSeedFails
<1>9. CASE Register
  <2>1. UNCHANGED entries /\ UNCHANGED Kept
    BY <1>9, CorpusStays, SameKept
  <2>2. PICK unread \in SUBSET DOMAIN entries :
          /\ known' = {entries[i].input : i \in DOMAIN entries \ unread}
          /\ missed' = missed \cup {entries[i].input : i \in unread}
    BY <1>9 DEF Register
  <2>3. known' \subseteq Kept /\ Kept \subseteq known' \cup missed'
    BY <2>2 DEF Kept
  <2>4. pc' = "next" /\ entries # <<>> /\ status' = "none"
    BY <1>9 DEF Register, ExecutionState, executor
  <2>5. QED
    BY <2>1, <2>3, <2>4
<1>10. CASE Schedule
  <2>1. UNCHANGED entries
    BY <1>10, CorpusStays
  <2>2. QED
    BY <1>10, <2>1, SameKept DEF Schedule, executor
<1>11. CASE Skip
  <2>1. UNCHANGED entries
    BY <1>11, CorpusStays
  <2>2. QED
    BY <1>11, <2>1, SameKept DEF Skip, executor
<1>12. CASE Execute
  <2>1. UNCHANGED entries
    BY <1>12, CorpusStays
  <2>2. QED
    BY <1>12, <2>1, SameKept DEF Execute, executor
<1>13. CASE PreExec
  <2>1. UNCHANGED entries
    BY <1>13, CorpusStays
  <2>2. QED
    BY <1>13, <2>1, SameKept DEF PreExec, executor
<1>14. CASE GiveUp
  <2>1. UNCHANGED entries
    BY <1>14, CorpusStays
  <2>2. QED
    BY <1>14, <2>1, SameKept DEF GiveUp, executor
<1>15. CASE Decide
  <2>1. UNCHANGED entries
    BY <1>15, CorpusStays
  <2>2. QED
    BY <1>15, <2>1, SameKept DEF Decide, executor
<1>16. CASE PostExec
  <2>1. UNCHANGED entries
    BY <1>16, CorpusStays
  <2>2. QED
    BY <1>16, <2>1, SameKept DEF PostExec, executor
<1>17. CASE Return
  <2>1. UNCHANGED entries
    BY <1>17, CorpusStays
  <2>2. QED
    BY <1>17, <2>1, SameKept DEF Return, executor
<1>18. CASE NotInteresting
  <2>1. UNCHANGED entries /\ UNCHANGED Kept
    BY <1>18, CorpusStays, SameKept
  <2>2. status = "Crash" => mutated \in Kept
    <3>1. SUFFICES ASSUME status = "Crash" PROVE mutated \in known
      BY <1>18 DEF NotInteresting
    <3>2. obsHash = mutated /\ obsHash # NoHash
      BY <1>18, <3>1, ConstantsAssumption DEF NotInteresting, ExecutionState,
         TypeOK
    <3>3. QED
      BY <1>18, <3>2 DEF NotInteresting, Keep, IsInteresting
  <2>3. QED
    BY <1>18, <2>1, <2>2 DEF NotInteresting, executor
<1>19. CASE AddToCorpus
  <2>1. Grows(mutated, "feedback")
    BY <1>19 DEF AddToCorpus, Add, Grows
  <2>2. Kept' = Kept \cup {mutated} /\ entries' # <<>>
    BY <2>1, GrownCorpus DEF Descriptions, TypeOK
  <2>3. QED
    BY <1>19, <2>2 DEF AddToCorpus
<1>20. CASE AddToCorpusFails
  BY <1>20 DEF AddToCorpusFails
<1>21. CASE NoBug
  <2>1. UNCHANGED entries
    BY <1>21, CorpusStays
  <2>2. QED
    BY <1>21, <2>1, SameKept DEF NoBug, executor, IterationEnds
<1>22. CASE BugAdded
  <2>1. UNCHANGED Kept /\ entries' # <<>>
    <3>1. mutated \in Kept /\ entries # <<>>
      BY <1>22 DEF BugAdded
    <3>2. CASE UNCHANGED entries
      BY <3>1, <3>2, SameKept
    <3>3. CASE Grows(mutated, "crash")
      BY <3>1, <3>3, GrownCorpus DEF Descriptions, TypeOK
    <3>4. QED
      BY <1>22, <3>2, <3>3, BugGrows
  <2>2. QED
    BY <1>22, <2>1 DEF BugAdded, IterationEnds
<1>23. CASE UNCHANGED vars
  BY <1>23, SameKept DEF vars, corpus, executor, bounds
<1> QED
  BY <1>1, <1>2, <1>3, <1>4, <1>5, <1>6, <1>7, <1>8, <1>9, <1>10, <1>11, <1>12,
     <1>13, <1>14, <1>15, <1>16, <1>17, <1>18, <1>19, <1>20, <1>21, <1>22, <1>23
     DEF Next, Run


\* What was missed once is not forgotten.
LEMMA MissedGrows == [Next]_vars => missed \subseteq missed'
BY DEF Next, Run, Start, Kill, Finish, Down, LoadSeed, LoadSeedFails,
   SeedsLoaded,
       DefaultSeedAdded, DefaultSeedFails, Register, Schedule, Skip, Execute,
       PreExec, GiveUp, Decide, PostExec, Return, NotInteresting, AddToCorpus,
       AddToCorpusFails, NoBug, BugAdded, IterationEnds, vars

\* An input that the feedback adds is not in the corpus, or was missed.
LEMMA FeedbackAddsOnceStep ==
  TypeOK /\ CorpusState /\ FeedbackAddsOnce /\ [Next]_vars => FeedbackAddsOnce'
<1> SUFFICES ASSUME TypeOK, CorpusState, FeedbackAddsOnce, [Next]_vars,
                    NEW i \in DOMAIN entries', NEW j \in DOMAIN entries',
                    i < j, entries'[j].descr = "feedback",
                    entries'[i].input = entries'[j].input
             PROVE  entries'[i].input \in missed'
  BY DEF FeedbackAddsOnce
<1>1. entries \in Seq(Corpus!Entry) /\ Len(entries) \in Nat
  BY DEF TypeOK
<1>2. missed \subseteq missed'
  BY MissedGrows
<1>3. CASE UNCHANGED entries
  BY <1>2, <1>3 DEF FeedbackAddsOnce
<1>4. CASE Shrinks
  <2>1. /\ i \in DOMAIN entries /\ entries'[i] = entries[i]
        /\ j \in DOMAIN entries /\ entries'[j] = entries[j]
    BY <1>1, <1>4, ShrunkCorpus
  <2>2. QED
    BY <1>2, <2>1 DEF FeedbackAddsOnce
<1>5. ASSUME NEW x \in Inputs, NEW d \in Descriptions, Grows(x, d),
             d = "feedback" => pc = "feedback" /\ Keep /\ x = mutated
      PROVE  entries'[i].input \in missed'
  <2>1. /\ entries' \in Seq(Corpus!Entry)
        /\ Len(entries') = Len(entries) + 1
        /\ \A k \in 1 .. Len(entries) : entries'[k] = entries[k]
        /\ entries'[Len(entries) + 1] = [input |-> x, descr |-> d]
    BY <1>1, <1>5, GrownCorpus
  <2>2. i \in 1 .. Len(entries) /\ j \in 1 .. Len(entries) + 1
    BY <1>1, <2>1
  <2>3. CASE j \in 1 .. Len(entries)
    BY <1>1, <1>2, <2>1, <2>2, <2>3 DEF FeedbackAddsOnce
  <2>4. CASE j = Len(entries) + 1
    <3>1. d = "feedback" /\ entries[i].input = mutated
      BY <1>5, <2>1, <2>2, <2>4
    <3>2. mutated \in Kept /\ pc = "feedback" /\ mutated \notin known
      BY <1>1, <1>5, <2>2, <3>1 DEF Kept, Keep
    <3>3. mutated \in missed
      BY <3>2 DEF CorpusState, KnownMatchesCorpus, Looping
    <3>4. QED
      BY <1>2, <2>1, <2>2, <3>1, <3>3
  <2>5. QED
    BY <1>1, <2>2, <2>3, <2>4
<1> QED
  BY <1>3, <1>4, <1>5, CorpusStep

-----------------------------------------------------------------------------
(* The theorems                                                            *)

LEMMA InvInit == Init => Inv
<1> SUFFICES ASSUME Init PROVE Inv
  OBVIOUS
<1> USE DEF Init, Corpus!Init, Executor!Init
<1>1. entries \in Seq(Corpus!Entry) /\ DOMAIN entries = {}
  BY EmptySeq
<1>2. TypeOK
  <2>1. LoopTypes /\ ExecutorTypes /\ Knowledge
    BY ConstantsAssumption
       DEF LoopTypes, ExecutorTypes, Knowledge, Executor!Statuses
  <2>2. Flags
    BY DEF Flags
  <2>3. QED
    BY <1>1, <2>1, <2>2 DEF TypeOK, LoopTypes, ExecutorTypes, Knowledge, Flags
<1>3. ExecutionState /\ CorpusState
  BY DEF ExecutionState, CorpusState, KnownMatchesCorpus, CorpusNeverEmpty,
     Looping,
         CrashAddsOnlyRepeats, EveryCrashIsKept
<1>4. FeedbackAddsOnce
  BY <1>1 DEF FeedbackAddsOnce
<1> QED
  BY <1>2, <1>3, <1>4 DEF Inv

LEMMA InvStep == Inv /\ [Next]_vars => Inv'
BY TypeStep, ExecutionStateStep, CorpusStateStep, FeedbackAddsOnceStep DEF Inv

\* The invariant behind the theorems.
LEMMA InvHolds == Spec => []Inv
BY InvInit, InvStep, PTL DEF Spec

\* Every variable keeps its type.
THEOREM TypeCorrect == Spec => []TypeOK
<1>1. Inv => TypeOK
  BY DEF Inv
<1> QED
  BY <1>1, InvHolds, PTL

\* main.rs, feedback step: the data the feedback judges an input by is that of
\* its own execution, or none.
THEOREM DataIsCurrent == Spec => []FeedbackSeesThisExecution
<1>1. Inv => FeedbackSeesThisExecution
  BY DEF Inv, ExecutionState, FeedbackSeesThisExecution
<1> QED
  BY <1>1, InvHolds, PTL

\* init and add_to_corpus of the feedbacks: they know the corpus and no more,
\* whatever calls have failed and however often the process was killed.
THEOREM KnowledgeIsTrue == Spec => []KnownMatchesCorpus
<1>1. Inv => KnownMatchesCorpus
  BY DEF Inv, CorpusState
<1> QED
  BY <1>1, InvHolds, PTL

\* is_interesting and add_to_corpus: the feedback adds no input twice, over any
\* number of processes, but for entries that could not be read at a start.
THEOREM AddedOnce == Spec => []FeedbackAddsOnce
<1>1. Inv => FeedbackAddsOnce
  BY DEF Inv
<1> QED
  BY <1>1, InvHolds, PTL

\* main.rs, oracle step: no crash is lost, though a failed add is only printed.
THEOREM CrashesAreKept == Spec => []EveryCrashIsKept
<1>1. Inv => EveryCrashIsKept
  BY DEF Inv, CorpusState
<1> QED
  BY <1>1, InvHolds, PTL

\* main.rs, oracle step: what main adds itself is in the corpus already.
THEOREM CrashesAreRepeats == Spec => []CrashAddsOnlyRepeats
<1>1. Inv => CrashAddsOnlyRepeats
  BY DEF Inv, CorpusState
<1> QED
  BY <1>1, InvHolds, PTL

\* main.rs, CorpusEmpty arm: the emergency seed is unreachable.
THEOREM NeverEmpty == Spec => []CorpusNeverEmpty
<1>1. Inv => CorpusNeverEmpty
  BY DEF Inv, CorpusState
<1> QED
  BY <1>1, InvHolds, PTL

-----------------------------------------------------------------------------
(* The copies of a seed                                                    *)

Copies(s) == {k \in DOMAIN entries : entries[k] = [input |-> s, descr |-> "seed"]}

\* No seed has more copies than there were processes, and one that the running
\* process has still to add has fewer.
SeedsCounted ==
  \A s \in Seeds :
    /\ Cardinality(Copies(s)) <= runs
    /\ pc = "seeds" /\ s \in seedsLeft => Cardinality(Copies(s)) < runs

LEMMA CopiesFinite ==
  ASSUME entries \in Seq(Corpus!Entry), NEW s
  PROVE  /\ IsFiniteSet(Copies(s)) /\ Cardinality(Copies(s)) \in Nat
         /\ Copies(s) \subseteq 1 .. Len(entries) /\ Len(entries) \in Nat
<1>1. Len(entries) \in Nat /\ DOMAIN entries = 1 .. Len(entries)
  OBVIOUS
<1>2. Copies(s) \subseteq 1 .. Len(entries)
  BY <1>1 DEF Copies
<1>3. IsFiniteSet(1 .. Len(entries))
  BY <1>1, FS_Interval
<1>4. IsFiniteSet(Copies(s))
  BY <1>2, <1>3, FS_Subset
<1> QED
  BY <1>1, <1>2, <1>4, FS_CardinalityType

\* The ways in which a seed gets into the corpus.
LEMMA SeedSteps ==
  ASSUME TypeOK, [Next]_vars
  PROVE  \/ /\ UNCHANGED entries
            /\ \/ Start
               \/ /\ runs' = runs
                  /\ pc' = "seeds" => pc = "seeds" /\ seedsLeft' = seedsLeft
         \/ \E x \in seedsLeft :
              /\ Grows(x, "seed") /\ pc = "seeds" /\ runs' = runs
              /\ pc' = "seeds" => seedsLeft' = seedsLeft \ {x}
         \/ \E x \in Inputs, d \in Descriptions \ {"seed"} :
              Grows(x, d) /\ runs' = runs /\ pc' # "seeds"
         \/ Shrinks /\ runs' = runs /\ pc' # "seeds"
<1>1. CASE Start
  BY <1>1, CorpusStays
<1>2. CASE \/ SeedsLoaded \/ Register \/ Schedule \/ Skip \/ Execute \/ PreExec
           \/ GiveUp \/ Decide \/ PostExec \/ Return \/ NotInteresting \/ NoBug
           \/ UNCHANGED vars
  <2>1. UNCHANGED entries
    BY <1>2, CorpusStays
  <2>2. runs' = runs /\ (pc' = "seeds" => pc = "seeds" /\ seedsLeft' = seedsLeft)
    BY <1>2 DEF SeedsLoaded, Register, Schedule, Skip, Execute, PreExec, GiveUp,
       Decide, PostExec, Return, NotInteresting, NoBug, IterationEnds, bounds, vars
  <2> QED
    BY <2>1, <2>2
<1>3. CASE LoadSeed
  BY <1>3 DEF LoadSeed, Add, Grows, bounds
<1>4. CASE LoadSeedFails
  BY <1>4 DEF LoadSeedFails, AddFails, Add, Corpus!NoAnswer, Grows
<1>5. CASE DefaultSeedAdded \/ DefaultSeedFails
  <2>1. runs' = runs /\ pc' # "seeds"
    BY <1>5 DEF DefaultSeedAdded, DefaultSeedFails, bounds
  <2> QED
    BY <1>5, <2>1, DefaultGrows, ConstantsAssumption DEF Descriptions
<1>6. CASE AddToCorpus \/ AddToCorpusFails
  <2>1. runs' = runs /\ pc' # "seeds"
    BY <1>6 DEF AddToCorpus, AddToCorpusFails, bounds
  <2> QED
    BY <1>6, <2>1, FeedbackGrows DEF Descriptions, TypeOK
<1>7. CASE BugAdded
  <2>1. runs' = runs /\ pc' # "seeds"
    BY <1>7 DEF BugAdded, IterationEnds
  <2> QED
    BY <1>7, <2>1, BugGrows DEF Descriptions, TypeOK
<1>8. CASE Kill \/ Finish
  BY <1>8, DownShrinks DEF Kill, Finish, Down, bounds
<1> QED
  BY <1>1, <1>2, <1>3, <1>4, <1>5, <1>6, <1>7, <1>8 DEF Next, Run

LEMMA SeedsCountedStep == TypeOK /\ SeedsCounted /\ [Next]_vars => SeedsCounted'
<1> SUFFICES ASSUME TypeOK, SeedsCounted, [Next]_vars, NEW s \in Seeds
             PROVE  /\ Cardinality(Copies(s)') <= runs'
                    /\ pc' = "seeds" /\ s \in seedsLeft' => Cardinality(Copies(s)') < runs'
  BY DEF SeedsCounted
<1> DEFINE n == Cardinality(Copies(s))
<1>1. IsFiniteSet(Copies(s)) /\ n \in Nat /\ runs \in Nat /\ entries \in Seq(Corpus!Entry)
  BY CopiesFinite, ConstantsAssumption DEF TypeOK
<1>2. n <= runs /\ (pc = "seeds" /\ s \in seedsLeft => n < runs)
  BY DEF SeedsCounted
<1>3. CASE UNCHANGED entries
  <2>1. Copies(s)' = Copies(s)
    BY <1>3 DEF Copies
  <2>2. CASE Start
    <3>1. runs' = runs + 1
      BY <2>2 DEF Start
    <3> QED
      BY <1>1, <1>2, <2>1, <3>1
  <2>3. CASE runs' = runs /\ (pc' = "seeds" => pc = "seeds" /\ seedsLeft' = seedsLeft)
    BY <1>2, <2>1, <2>3
  <2>4. CASE \E x, d : Grows(x, d)
    BY <1>1, <1>3, <2>4 DEF Grows
  <2>5. CASE runs' = runs /\ pc' # "seeds"
    BY <1>2, <2>1, <2>5
  <2> QED
    BY <2>2, <2>3, <2>4, <2>5, SeedSteps
<1>4. ASSUME NEW x \in Inputs, NEW d \in Descriptions, Grows(x, d),
             [input |-> x, descr |-> d] # [input |-> s, descr |-> "seed"]
      PROVE  Copies(s)' = Copies(s)
  <2>1. /\ Len(entries) \in Nat /\ DOMAIN entries = 1 .. Len(entries)
        /\ DOMAIN entries' = 1 .. Len(entries) + 1
        /\ \A i \in 1 .. Len(entries) : entries'[i] = entries[i]
        /\ entries'[Len(entries) + 1] # [input |-> s, descr |-> "seed"]
    BY <1>1, <1>4, GrownCorpus
  <2> QED
    BY <2>1 DEF Copies
<1>5. CASE \E x \in Inputs, d \in Descriptions \ {"seed"} :
             Grows(x, d) /\ runs' = runs /\ pc' # "seeds"
  BY <1>2, <1>4, <1>5
<1>6. ASSUME NEW x \in seedsLeft, Grows(x, "seed"), pc = "seeds", runs' = runs,
             pc' = "seeds" => seedsLeft' = seedsLeft \ {x}
      PROVE  /\ Cardinality(Copies(s)') <= runs'
             /\ pc' = "seeds" /\ s \in seedsLeft' => Cardinality(Copies(s)') < runs'
  <2>1. x \in Inputs /\ "seed" \in Descriptions
    BY ConstantsAssumption DEF TypeOK, Descriptions
  <2>2. CASE x # s
    <3>1. Copies(s)' = Copies(s)
      BY <1>4, <1>6, <2>1, <2>2
    <3> QED
      BY <1>2, <1>6, <3>1
  <2>3. CASE x = s
    <3>1. /\ Len(entries) \in Nat /\ DOMAIN entries = 1 .. Len(entries)
          /\ DOMAIN entries' = 1 .. Len(entries) + 1
          /\ \A i \in 1 .. Len(entries) : entries'[i] = entries[i]
          /\ entries'[Len(entries) + 1] = [input |-> s, descr |-> "seed"]
      BY <1>1, <1>6, <2>1, <2>3, GrownCorpus
    <3>2. Copies(s)' = Copies(s) \cup {Len(entries) + 1} /\ Len(entries) + 1 \notin Copies(s)
      BY <3>1 DEF Copies
    <3>3. Cardinality(Copies(s)') = n + 1
      BY <1>1, <3>2, FS_AddElement
    <3> QED
      BY <1>1, <1>2, <1>6, <2>3, <3>3
  <2> QED
    BY <2>2, <2>3
<1>7. CASE Shrinks /\ runs' = runs /\ pc' # "seeds"
  <2>1. Copies(s)' \subseteq Copies(s)
    BY <1>1, <1>7, ShrunkCorpus DEF Copies
  <2>2. Cardinality(Copies(s)') <= n /\ Cardinality(Copies(s)') \in Nat
    BY <1>1, <2>1, FS_Subset, FS_CardinalityType
  <2> QED
    BY <1>1, <1>2, <1>7, <2>2
<1> QED
  BY <1>3, <1>5, <1>6, <1>7, SeedSteps

LEMMA SeedsCountedInit == Init => SeedsCounted
<1> SUFFICES ASSUME Init, NEW s \in Seeds
             PROVE  Cardinality(Copies(s)) <= runs /\ pc # "seeds"
  BY DEF SeedsCounted
<1>1. Copies(s) = {}
  BY DEF Init, Corpus!Init, Copies
<1> QED
  BY <1>1, FS_EmptySet DEF Init
=============================================================================
