----------------------------- MODULE MCMutators -----------------------------
EXTENDS JsonStructureAwareMutator

Flip == INSTANCE FlipSingleByteMutator

\* A u64, an i32 and a float, a nested string and bool, and an i32 and an
\* optional float too deep.
MCFields ==
  <<[depth |-> 1, kind |-> "int",    lo |-> 0,  hi |-> 9],
    [depth |-> 1, kind |-> "int",    lo |-> -2, hi |-> 2],
    [depth |-> 1, kind |-> "float",  lo |-> 0,  hi |-> 0],
    [depth |-> 2, kind |-> "string", lo |-> 0,  hi |-> 0],
    [depth |-> 2, kind |-> "bool",   lo |-> 0,  hi |-> 0],
    [depth |-> 3, kind |-> "int",    lo |-> -2, hi |-> 2],
    [depth |-> 3, kind |-> "optional float", lo |-> 0, hi |-> 0]>>

MCDefault == <<0, 0, "finite", <<>>, FALSE, 0, "none">>

MCObjects ==
  {<<n, k, f, s, FALSE, 1, o>> : n \in {0, 3, 4, 5, 6, 9}, k \in {-2, 2},
     f \in {"finite", "nonfinite"}, s \in {<<>>, <<"x", "~">>},
     o \in {"finite", "nonfinite"}}

MCMinI64 == -5

\* Inputs of no byte, of every single byte, and of a few bytes each.
Samples ==
  {<<>>} \cup {<<x>> : x \in Flip!Byte} \cup
  UNION {[1 .. n -> {0, 240, 255}] : n \in 2 .. 3}

\* FlipSingleByteMutator always changes its input, in one byte, also around
\* the end of the byte's range; an empty input gets a byte that is not zero.
\* Not depending on the state, it is looked at before the first call only.
FlipChangesOneByte ==
  at = 0 /\ calls = 0 =>
    \A b \in Samples : \A m \in Flip!Mutate(b) : Flip!ChangesOneByte(b, m)
=============================================================================
