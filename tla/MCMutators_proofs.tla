------------------------- MODULE MCMutators_proofs --------------------------
(***************************************************************************)
(* FlipSingleByteMutator changes every byte string, in exactly one byte;   *)
(* and what JsonStructureAwareMutator never does, for every structure,     *)
(* every depth limit and any number of calls.                              *)
(***************************************************************************)
EXTENDS MCMutators, TLAPS

-----------------------------------------------------------------------------
(* FlipSingleByteMutator                                                   *)

\* Adding 1 to 15 modulo 256 never gives a byte back to itself.
LEMMA AddChanges ==
  ASSUME NEW x \in Flip!Byte, NEW add \in 1 .. 15
  PROVE  /\ Flip!wrapping_add(x, add) \in Flip!Byte
         /\ Flip!wrapping_add(x, add) # x
<1>1. CASE x + add < 256
  <2>1. (x + add) % 256 = x + add
    BY <1>1 DEF Flip!Byte
  <2> QED
    BY <1>1, <2>1 DEF Flip!Byte, Flip!wrapping_add
<1>2. CASE x + add >= 256
  <2>1. (x + add) % 256 = x + add - 256
    BY <1>2 DEF Flip!Byte
  <2> QED
    BY <1>2, <2>1 DEF Flip!Byte, Flip!wrapping_add
<1> QED
  BY <1>1, <1>2 DEF Flip!Byte

\* FlipSingleByteMutator::mutate returns an input that differs from the one it
\* was given in one byte and has its length; none or an empty one becomes one
\* byte that is not zero.  FuzzLoop relies on it: no iteration runs the very
\* input it selected.
THEOREM FlipIsOneByte ==
  ASSUME NEW bytes \in Seq(Flip!Byte), NEW m \in Flip!Mutate(bytes)
  PROVE  Flip!ChangesOneByte(bytes, m)
<1> DEFINE base == Flip!Base(bytes)
<1>1. base \in Seq(Flip!Byte) /\ Len(base) = IF bytes = <<>> THEN 1 ELSE Len(bytes)
  <2>1. CASE bytes = <<>>
    <3>1. base = <<0>>
      BY <2>1 DEF Flip!Base
    <3>2. 0 \in Flip!Byte
      BY DEF Flip!Byte
    <3> HIDE DEF base
    <3> QED
      BY <2>1, <3>1, <3>2
  <2>2. CASE bytes # <<>>
    BY <2>2 DEF Flip!Base
  <2> QED
    BY <2>1, <2>2
<1>2. PICK i \in DOMAIN base, add \in 1 .. 15 :
        m = [base EXCEPT ![i] = Flip!wrapping_add(@, add)]
  BY DEF Flip!Mutate
<1>3. base[i] \in Flip!Byte
  BY <1>1
<1>4. /\ Flip!wrapping_add(base[i], add) \in Flip!Byte
      /\ Flip!wrapping_add(base[i], add) # base[i]
  BY <1>3, AddChanges
<1>5. m \in Seq(Flip!Byte) /\ Len(m) = Len(base) /\ DOMAIN m = DOMAIN base
  BY <1>1, <1>2, <1>4
<1>6. m[i] # base[i]
  BY <1>1, <1>2, <1>4
<1>7. ASSUME NEW j \in DOMAIN m \ {i}
      PROVE  m[j] = bytes[j]
  <2>1. m[j] = base[j]
    BY <1>1, <1>2, <1>5
  <2>2. bytes # <<>>
    BY <1>1, <1>5
  <2> QED
    BY <2>1, <2>2 DEF Flip!Base
<1> QED
  BY <1>1, <1>2, <1>5, <1>6, <1>7 DEF Flip!ChangesOneByte

\* The inputs that the run looks at are byte strings.
LEMMA SampleType == Samples \subseteq Seq(Flip!Byte)
<1>1. \A x \in Flip!Byte : <<x>> \in Seq(Flip!Byte)
  OBVIOUS
<1>2. \A n \in 2 .. 3 : \A s \in [1 .. n -> {0, 240, 255}] : s \in Seq(Flip!Byte)
  <2>1. {0, 240, 255} \subseteq Flip!Byte
    BY DEF Flip!Byte
  <2>2. 2 .. 3 \subseteq Nat
    OBVIOUS
  <2> QED
    BY <2>1, <2>2
<1>3. <<>> \in Seq(Flip!Byte)
  OBVIOUS
<1> DEFINE singles == {<<x>> : x \in Flip!Byte}
           few     == UNION {[1 .. n -> {0, 240, 255}] : n \in 2 .. 3}
<1>4. singles \subseteq Seq(Flip!Byte)
  BY <1>1
<1>5. few \subseteq Seq(Flip!Byte)
  BY <1>2
<1>6. Samples = {<<>>} \cup singles \cup few
  BY Zenon DEF Samples
<1> HIDE DEF singles, few
<1> QED
  BY <1>3, <1>4, <1>5, <1>6

\* The run's instance of it: whatever JsonStructureAwareMutator is doing.
THEOREM FlipChanges == Spec => []FlipChangesOneByte
<1>1. FlipChangesOneByte
  BY FlipIsOneByte, SampleType DEF FlipChangesOneByte
<1> QED
  BY <1>1, PTL

-----------------------------------------------------------------------------
(* JsonStructureAwareMutator                                               *)

\* During a call the JSON stays related to the structure it was made from: an
\* integer on its side of the end of i64, a leaf out of reach as it was, and a
\* float null exactly if it was not finite.
Related ==
  at # 0 =>
    /\ calls < MaxCalls
    /\ DOMAIN json = Leaves
    /\ \A i \in Leaves :
         /\ Fields[i].kind = "int" =>
              /\ json[i] \in Int
              /\ MinI64 <= json[i] /\ json[i] <= MaxU64
              /\ json[i] > MaxI64 <=> Structure[i] > MaxI64
              /\ json[i] > MaxI64 => json[i] >= Structure[i]
         /\ Fields[i].kind \in FloatKinds => json[i] = ToJson(Fields[i], Structure[i])
         /\ Fields[i].depth >= max_mutation_depth =>
              json[i] = ToJson(Fields[i], Structure[i])

Inv == TypeOK /\ Related

\* A mutated integer stays on its side of the end of i64 and, beyond it, does
\* not shrink.
LEMMA IntStaysOnItsSide ==
  ASSUME NEW n \in Int, MinI64 <= n, n <= MaxU64, NEW v \in MutatedInt(n)
  PROVE  /\ v \in Int /\ MinI64 <= v /\ v <= MaxU64
         /\ v > MaxI64 <=> n > MaxI64
         /\ n > MaxI64 => v >= n
  BY ConstantsAssumption DEF MutatedInt, Clamp

LEMMA StructureIsOne ==
  ASSUME TypeOK
  PROVE  IsStructure(Structure)
  BY StructuresAssumption DEF TypeOK, Structure

\* Fields are records of their type.
LEMMA FieldType ==
  ASSUME NEW i \in Leaves
  PROVE  /\ Fields[i].depth \in Nat
         /\ Fields[i].kind \in Kinds
         /\ Fields[i].lo \in Int /\ Fields[i].hi \in Int
         /\ Len(Fields) \in Nat
<1> DEFINE F == [depth : Nat, kind : Kinds, lo : Int, hi : Int]
<1>1. Fields \in Seq(F)
  BY ConstantsAssumption
<1>2. Fields[i] \in F /\ Len(Fields) \in Nat
  <2> HIDE DEF F
  <2> QED
    BY <1>1 DEF Leaves
<1> QED
  BY <1>2

LEMMA InitInv == Init => Inv
  BY ConstantsAssumption, StructuresAssumption DEF Init, Inv, TypeOK, Related

LEMMA CallInv ==
  ASSUME Inv, Call
  PROVE  Inv'
<1> USE DEF Inv, Call
<1>1. TypeOK'
  BY ConstantsAssumption DEF TypeOK
<1>2. Structure' = Structure
  BY DEF Structure
<1>3. ASSUME NEW i \in Leaves, Fields[i].kind = "int"
      PROVE  /\ json'[i] = Structure[i]
             /\ json'[i] \in Int /\ MinI64 <= json'[i] /\ json'[i] <= MaxU64
  <2>1. json'[i] = Structure[i]
    BY <1>3 DEF ToJson, FloatKinds
  <2>2. Structure[i] \in Int /\ InRange(Fields[i], Structure[i])
    BY <1>3, StructureIsOne DEF IsStructure
  <2>3. MinI64 <= Fields[i].lo /\ Fields[i].hi <= MaxU64
    BY <1>3, StructuresAssumption
  <2>4. Fields[i].lo \in Int /\ Fields[i].hi \in Int /\ MinI64 \in Int /\ MaxU64 \in Int
    BY <1>3, FieldType, ConstantsAssumption
  <2>5. MinI64 <= Structure[i] /\ Structure[i] <= MaxU64
    BY <2>2, <2>3, <2>4 DEF InRange
  <2> HIDE DEF Call
  <2> QED
    BY <2>1, <2>2, <2>5
<1>4. Related'
  BY <1>2, <1>3 DEF Related
<1> QED
  BY <1>1, <1>4

LEMMA VisitInv ==
  ASSUME Inv, Visit
  PROVE  Inv'
<1> USE DEF Inv
<1>1. TypeOK'
  BY ConstantsAssumption DEF TypeOK, Visit, Leaves
<1>2. Structure' = Structure
  BY DEF Structure, Visit
<1>3. at # 0 /\ DOMAIN json = Leaves /\ calls < MaxCalls /\ calls' = calls
  BY ConstantsAssumption DEF Related, Visit, Leaves
<1>4. CASE json' = json
  BY <1>2, <1>3, <1>4, <1>1 DEF Related
<1>5. CASE json' # json
  <2>1. PICK v \in MutatedLeaf(Fields[at].kind, json[at]) :
          /\ Fields[at].depth < max_mutation_depth
          /\ json' = [json EXCEPT ![at] = v]
    BY <1>5 DEF Visit
  <2>2. at \in Leaves
    BY DEF Visit
  <2>3. \A i \in Leaves : json'[i] = IF i = at THEN v ELSE json[i]
    BY <1>3, <2>1, <2>2
  <2>4. Fields[at].kind = "int" => v \in MutatedInt(json[at])
    BY DEF MutatedLeaf
  <2>5. Fields[at].kind \in FloatKinds => v = json[at]
    BY DEF MutatedLeaf, FloatKinds
  <2>6. ~(Fields[at].depth >= max_mutation_depth)
    BY <2>1, <2>2, FieldType, ConstantsAssumption
  <2>7. DOMAIN json' = Leaves
    BY <1>3, <2>1
  <2>8. ASSUME NEW i \in Leaves, Fields[i].kind = "int"
        PROVE  /\ json'[i] \in Int
               /\ MinI64 <= json'[i] /\ json'[i] <= MaxU64
               /\ json'[i] > MaxI64 <=> Structure[i] > MaxI64
               /\ json'[i] > MaxI64 => json'[i] >= Structure[i]
    <3>1. /\ json[i] \in Int /\ MinI64 <= json[i] /\ json[i] <= MaxU64
          /\ json[i] > MaxI64 <=> Structure[i] > MaxI64
          /\ json[i] > MaxI64 => json[i] >= Structure[i]
      BY <1>3, <2>8 DEF Related
    <3>2. Structure[i] \in Int
      BY <2>8, StructureIsOne DEF IsStructure
    <3>3. CASE i # at
      BY <2>3, <3>1, <3>3
    <3>4. CASE i = at
      <4>1. json'[i] = v /\ v \in MutatedInt(json[i])
        BY <2>3, <2>4, <2>8, <3>4
      <4>2. /\ v \in Int /\ MinI64 <= v /\ v <= MaxU64
            /\ v > MaxI64 <=> json[i] > MaxI64
            /\ json[i] > MaxI64 => v >= json[i]
        BY <3>1, <4>1, IntStaysOnItsSide
      <4> QED
        BY <3>1, <3>2, <4>1, <4>2, ConstantsAssumption
    <3> QED
      BY <3>3, <3>4
  <2>9. ASSUME NEW i \in Leaves,
               Fields[i].kind \in FloatKinds \/ Fields[i].depth >= max_mutation_depth
        PROVE  json'[i] = ToJson(Fields[i], Structure[i])
    BY <1>3, <2>3, <2>5, <2>6, <2>9 DEF Related
  <2> QED
    BY <1>1, <1>2, <1>3, <2>7, <2>8, <2>9 DEF Related
<1> QED
  BY <1>4, <1>5

\* A structure taken back differs from the one before as Related says.
LEMMA ReturnKeeps ==
  ASSUME Inv, Return, NEW i \in Leaves
  PROVE  /\ Fields[i].kind = "int" =>
              /\ Structure[i] > MaxI64 <=> input'[i] > MaxI64
              /\ Structure[i] > MaxI64 => input'[i] >= Structure[i]
         /\ Fields[i].depth >= max_mutation_depth =>
              \/ input'[i] = Structure[i]
              \/ Fields[i].kind = "optional float" /\ Structure[i] = "nonfinite"
<1>1. at # 0
  BY FieldType DEF Return
<1>2. IsStructure(Structure)
  BY StructureIsOne DEF Inv
<1>3. CASE ~Fits
  <2>1. input' = Structure
    BY <1>3 DEF Return
  <2>2. Fields[i].kind = "int" => Structure[i] \in Int
    BY <1>2 DEF IsStructure
  <2> QED
    BY <2>1, <2>2
<1>4. CASE Fits
  <2>1. input'[i] = FromJson(Fields[i], json[i])
    BY <1>4 DEF Return
  <2>2. Fields[i].kind = "float" => json[i] # "null"
    BY <1>4 DEF Fits
  <2>3. ASSUME Fields[i].kind = "int"
        PROVE  /\ Structure[i] > MaxI64 <=> input'[i] > MaxI64
               /\ Structure[i] > MaxI64 => input'[i] >= Structure[i]
    BY <1>1, <2>1, <2>3 DEF Inv, Related, FromJson
  <2>4. ASSUME json[i] = ToJson(Fields[i], Structure[i])
        PROVE  \/ input'[i] = Structure[i]
               \/ Fields[i].kind = "optional float" /\ Structure[i] = "nonfinite"
    BY <1>2, <2>1, <2>2, <2>4 DEF IsStructure, ToJson, FromJson, FloatKinds
  <2> QED
    BY <1>1, <2>3, <2>4 DEF Inv, Related
<1> QED
  BY <1>3, <1>4

LEMMA ReturnInv ==
  ASSUME Inv, Return
  PROVE  Inv'
<1>1. at # 0 /\ calls' \in 0 .. MaxCalls /\ at' = 0
  BY FieldType, ConstantsAssumption DEF Inv, TypeOK, Related, Return, Leaves
<1>2. IsStructure(Structure)
  BY StructureIsOne DEF Inv
<1>3. ASSUME Fits
      PROVE  IsStructure(input')
  <2>1. DOMAIN input' = Leaves /\ \A i \in Leaves : input'[i] = FromJson(Fields[i], json[i])
    BY <1>3 DEF Return
  <2>2. ASSUME NEW i \in Leaves, Fields[i].kind = "int"
        PROVE  input'[i] \in Int /\ InRange(Fields[i], input'[i])
    BY <1>1, <1>3, <2>1, <2>2 DEF Inv, Related, Fits, FromJson
  <2>3. ASSUME NEW i \in Leaves, Fields[i].kind \in FloatKinds
        PROVE  /\ Fields[i].kind = "float" => input'[i] \in {"finite", "nonfinite"}
               /\ Fields[i].kind = "optional float" =>
                    input'[i] \in {"finite", "nonfinite", "none"}
    <3>1. input'[i] = FromJson(Fields[i], ToJson(Fields[i], Structure[i]))
      BY <1>1, <2>1, <2>3 DEF Inv, Related
    <3>2. Fields[i].kind = "float" => ToJson(Fields[i], Structure[i]) # "null"
      BY <1>1, <1>3, <2>3 DEF Inv, Related, Fits
    <3> QED
      BY <1>2, <2>3, <3>1, <3>2 DEF IsStructure, FromJson, ToJson, FloatKinds
  <2> QED
    BY <2>1, <2>2, <2>3 DEF IsStructure, FloatKinds
<1>4. IsStructure(input')
  BY <1>2, <1>3 DEF Return
<1>5. IsStructure(input)'
  BY <1>4 DEF IsStructure
<1>6. at' \in 0 .. Len(Fields) + 1
  BY <1>1, ConstantsAssumption
<1> QED
  BY <1>1, <1>5, <1>6 DEF Inv, TypeOK, Related

LEMMA StutterInv ==
  ASSUME Inv, UNCHANGED vars
  PROVE  Inv'
  BY DEF Inv, TypeOK, Related, Structure, vars

LEMMA Invariance == Spec => []Inv
<1>1. Inv /\ [Next]_vars => Inv'
  BY CallInv, VisitInv, ReturnInv, StutterInv DEF Next
<1> QED
  BY InitInv, <1>1, PTL DEF Spec

\* Every input mutate returns is a structure, for any structure, any limits and
\* any number of calls.
THEOREM TypeCorrect == Spec => []TypeOK
<1>1. Inv => TypeOK
  BY DEF Inv
<1> QED
  BY Invariance, <1>1, PTL

\* Only a return changes the input.
LEMMA InputChanges ==
  ASSUME [Next]_vars, input' # input
  PROVE  Return
  BY DEF Next, Call, Visit, vars

\* mutate never changes a leaf at max_mutation_depth or below, an optional float
\* that is not finite apart.
THEOREM DepthIsALimit == Spec => DeepLeavesStay
<1>1. ASSUME Inv, [Next]_vars
      PROVE  [input' # input =>
                \A i \in Leaves : Fields[i].depth >= max_mutation_depth =>
                  \/ input'[i] = Structure[i]
                  \/ Fields[i].kind = "optional float" /\ Structure[i] = "nonfinite"]_vars
  BY <1>1, InputChanges, ReturnKeeps
<1> QED
  BY Invariance, <1>1, PTL DEF Spec, DeepLeavesStay

\* No number of calls takes an integer across the end of i64.
THEOREM NoIntegerCrosses == Spec => EndOfI64IsABarrier
<1>1. ASSUME Inv, [Next]_vars
      PROVE  [input' # input =>
                \A i \in Leaves : Fields[i].kind = "int" =>
                  /\ Structure[i] > MaxI64 <=> input'[i] > MaxI64
                  /\ Structure[i] > MaxI64 => input'[i] >= Structure[i]]_vars
  BY <1>1, InputChanges, ReturnKeeps
<1> QED
  BY Invariance, <1>1, PTL DEF Spec, EndOfI64IsABarrier

\* A float that is not finite keeps its structure as it is for ever or, if
\* optional, becomes None with the first change and stays None.
THEOREM NonFiniteFate == Spec => NonFiniteFloats
<1>1. ASSUME Inv, Return, input # Undecodable, input' # input, NEW i \in Leaves
      PROVE  /\ Fields[i].kind = "float" => input[i] # "nonfinite"
             /\ Fields[i].kind = "optional float" /\ input[i] # "finite" =>
                  input'[i] = "none"
  <2>1. Structure = input
    BY <1>1 DEF Structure
  <2>2. Fits /\ input'[i] = FromJson(Fields[i], json[i])
    BY <1>1, <2>1 DEF Return
  <2>3. at # 0
    BY <1>1, FieldType DEF Return
  <2>4. Fields[i].kind \in FloatKinds => json[i] = ToJson(Fields[i], input[i])
    BY <1>1, <2>1, <2>3 DEF Inv, Related
  <2> QED
    BY <2>2, <2>4 DEF Fits, FromJson, ToJson, FloatKinds
<1>2. ASSUME Inv, [Next]_vars
      PROVE  [input' # input /\ input # Undecodable =>
                \A i \in Leaves :
                  /\ Fields[i].kind = "float" => input[i] # "nonfinite"
                  /\ Fields[i].kind = "optional float" /\ input[i] # "finite" =>
                       input'[i] = "none"]_vars
  BY <1>1, <1>2, InputChanges
<1> QED
  BY Invariance, <1>2, PTL DEF Spec, NonFiniteFloats
=============================================================================
