--------------------- MODULE JsonStructureAwareMutator ----------------------
(***************************************************************************)
(* JsonStructureAwareMutator of mutator.rs: decodes an input into a        *)
(* structure, mutates the leaves of its JSON form and takes the result     *)
(* back if it still is such a structure.                                   *)
(*                                                                         *)
(* A structure is the sequence of its leaves, in the order the recursion   *)
(* meets them: integers, floats, strings, booleans, Option<f64> and those  *)
(* that are null in JSON.  Neither objects nor arrays ever change shape.   *)
(* mutate is called on its own results, as it is when they enter a corpus. *)
(*                                                                         *)
(* Faulty... definitions are mistakes the properties must notice.          *)
(***************************************************************************)
EXTENDS Integers, Sequences

CONSTANTS
  Fields,         \* leaves of the structure: depth, kind, range of an integer
  Default,        \* S::default()
  Objects,        \* bound: structures to begin with
  Undecodable,    \* an input that is no structure, or empty, or None
  Printable,      \* ASCII characters from 32 to 126
  max_mutation_depth,
  MinI64, MaxI64, MaxU64,
  Delta,          \* most a call adds to an integer, 5 in the code
  MaxCalls        \* bound: calls of mutate

FloatKinds == {"float", "optional float"}
Kinds      == FloatKinds \cup {"int", "string", "bool", "null"}

Leaves  == DOMAIN Fields
InRange(f, n) == f.lo <= n /\ n <= f.hi

\* The values of S.
IsStructure(s) ==
  /\ DOMAIN s = Leaves
  /\ \A i \in Leaves :
       /\ Fields[i].kind = "int" => s[i] \in Int /\ InRange(Fields[i], s[i])
       /\ Fields[i].kind = "float" => s[i] \in {"finite", "nonfinite"}
       /\ Fields[i].kind = "optional float" => s[i] \in {"finite", "nonfinite", "none"}

ASSUME ConstantsAssumption ==
  /\ Fields \in Seq([depth : Nat, kind : Kinds, lo : Int, hi : Int])
  /\ max_mutation_depth \in Nat \ {0}
  /\ MinI64 \in Int /\ MaxI64 \in Int /\ MaxU64 \in Int
  /\ MinI64 <= MaxI64 /\ MaxI64 <= MaxU64
  /\ Delta \in Nat
  /\ MaxCalls \in Nat

\* Every integer of a structure is one of i64 or of u64.
ASSUME StructuresAssumption ==
  /\ \A i \in Leaves : Fields[i].kind = "int" =>
       MinI64 <= Fields[i].lo /\ Fields[i].hi <= MaxU64
  /\ \A s \in Objects \cup {Default} : IsStructure(s)
  /\ Undecodable \notin Objects

VARIABLES
  input,          \* a structure or Undecodable
  json,           \* json_representation
  at,             \* the leaf the recursion comes to next, 0 between calls
  calls

vars == <<input, json, at, calls>>

\* What decode_from_slice makes of the input, and what a failure falls back to.
Structure == IF input = Undecodable THEN Default ELSE input

FaultyToJson(f, value) ==   \* a number is written in their place
  IF f.kind \in FloatKinds /\ value = "nonfinite" THEN "finite" ELSE value

\* serde_json has no infinities and no NaN: it writes null for them, and for
\* None.
ToJson(f, value) ==
  IF f.kind \in FloatKinds /\ value # "finite" THEN "null" ELSE value

FaultyFits ==   \* a null is taken for zero
  \A i \in Leaves : Fields[i].kind = "int" => InRange(Fields[i], json[i])

\* serde_json::from_value succeeds: every integer is in the range of its field,
\* and no float but an optional one is null.
Fits ==
  \A i \in Leaves :
    /\ Fields[i].kind = "int" => InRange(Fields[i], json[i])
    /\ Fields[i].kind = "float" => json[i] # "null"

\* What it makes of a leaf: a null is None, whatever it was written for.
FromJson(f, value) ==
  IF f.kind = "optional float" /\ value = "null" THEN "none" ELSE value

Init ==
  /\ input \in Objects \cup {Undecodable}
  /\ json = <<>>
  /\ at = 0
  /\ calls = 0

-----------------------------------------------------------------------------

Clamp(n, lo, hi) == IF n < lo THEN lo ELSE IF n > hi THEN hi ELSE n

FaultyMutatedInt(n) ==   \* additions that do not saturate at the end of i64
  IF n <= MaxI64
    THEN {Clamp(n + d, MinI64, MaxU64) : d \in -Delta .. Delta}
    ELSE {Clamp(n + d, MinI64, MaxU64) : d \in 0 .. Delta}

\* as_i64 comes first; as_u64 is left with what does not fit into an i64.
MutatedInt(n) ==
  IF n <= MaxI64
    THEN {Clamp(n + d, MinI64, MaxI64) : d \in -Delta .. Delta}
    ELSE {Clamp(n + d, MinI64, MaxU64) : d \in 0 .. Delta}

\* One character is replaced; changing case gives a printable one, too.
MutatedString(s) ==
  {[s EXCEPT ![i] = c] : i \in DOMAIN s, c \in Printable}

\* A finite float stays one.
MutatedLeaf(kind, value) ==
  CASE kind = "int"    -> MutatedInt(value)
    [] kind = "string" -> MutatedString(value)
    [] kind = "bool"   -> {~value}
    [] OTHER           -> {value}

\* mutate is called: the input becomes JSON.
Call ==
  /\ at = 0
  /\ calls < MaxCalls
  /\ json' = [i \in Leaves |-> ToJson(Fields[i], Structure[i])]
  /\ at' = 1
  /\ UNCHANGED <<input, calls>>

FaultyVisit ==   \* one level too deep
  /\ at \in Leaves
  /\ \/ UNCHANGED json
     \/ /\ Fields[at].depth <= max_mutation_depth
        /\ \E v \in MutatedLeaf(Fields[at].kind, json[at]) :
             json' = [json EXCEPT ![at] = v]
  /\ at' = at + 1
  /\ UNCHANGED <<input, calls>>

\* mutate_json_value comes to a leaf, or passes it by with what it is in.
Visit ==
  /\ at \in Leaves
  /\ \/ UNCHANGED json
     \/ /\ Fields[at].depth < max_mutation_depth
        /\ \E v \in MutatedLeaf(Fields[at].kind, json[at]) :
             json' = [json EXCEPT ![at] = v]
  /\ at' = at + 1
  /\ UNCHANGED <<input, calls>>

\* The structure is taken back or, if the JSON is none, left as it was: one
\* leaf that does not fit undoes the mutations of all.
Return ==
  /\ at = Len(Fields) + 1
  /\ input' = IF Fits THEN [i \in Leaves |-> FromJson(Fields[i], json[i])]
                       ELSE Structure
  /\ json' = <<>>
  /\ at' = 0
  /\ calls' = calls + 1

Next == Call \/ Visit \/ Return

Spec == Init /\ [][Next]_vars

-----------------------------------------------------------------------------
(* Properties                                                              *)

\* Every input that is no Undecodable is a structure again, whatever the
\* mutation did to its JSON.
TypeOK ==
  /\ at \in 0 .. Len(Fields) + 1
  /\ calls \in 0 .. MaxCalls
  /\ input # Undecodable => IsStructure(input)

\* Nothing at max_mutation_depth or below ever changes, but for an optional
\* float that is not finite: a field that deep is out of reach of any number of
\* calls.
DeepLeavesStay ==
  [][input' # input =>
       \A i \in Leaves : Fields[i].depth >= max_mutation_depth =>
         \/ input'[i] = Structure[i]
         \/ Fields[i].kind = "optional float" /\ Structure[i] = "nonfinite"]_vars

\* The end of i64 divides the values of a u64 field: no number of calls takes
\* one across, and beyond it a value can only grow.
EndOfI64IsABarrier ==
  [][input' # input =>
       \A i \in Leaves : Fields[i].kind = "int" =>
         /\ Structure[i] > MaxI64 <=> input'[i] > MaxI64
         /\ Structure[i] > MaxI64 => input'[i] >= Structure[i]]_vars

\* A float that is not finite either keeps the structure from ever changing
\* again or, if it is optional, is None after the first change, at any depth and
\* whether or not the recursion came to it; None stays None.
NonFiniteFloats ==
  [][input' # input /\ input # Undecodable =>
       \A i \in Leaves :
         /\ Fields[i].kind = "float" => input[i] # "nonfinite"
         /\ Fields[i].kind = "optional float" /\ input[i] # "finite" =>
              input'[i] = "none"]_vars
=============================================================================
