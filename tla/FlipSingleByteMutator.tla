----------------------- MODULE FlipSingleByteMutator ------------------------
(***************************************************************************)
(* FlipSingleByteMutator of mutator.rs: adds a small number to one byte,   *)
(* modulo 256.  Random choices are the members of a set.                   *)
(*                                                                         *)
(* FuzzLoop takes from here that an input and its mutation differ.         *)
(***************************************************************************)
EXTENDS Integers, Sequences

Byte == 0 .. 255

\* The input that is mutated; None becomes a zero byte as well.
Base(input) == IF input = <<>> THEN <<0>> ELSE input

wrapping_add(x, y) == (x + y) % 256

FaultyMutate(input) ==   \* the range of the number begins at 0
  {[Base(input) EXCEPT ![i] = wrapping_add(@, add)] :
     i \in DOMAIN Base(input), add \in 0 .. 15}

Mutate(input) ==
  {[Base(input) EXCEPT ![i] = wrapping_add(@, add)] :
     i \in DOMAIN Base(input), add \in 1 .. 15}

\* m is input with one byte changed, or one byte that is not zero for none.
ChangesOneByte(input, m) ==
  /\ m \in Seq(Byte)
  /\ Len(m) = IF input = <<>> THEN 1 ELSE Len(input)
  /\ \E i \in DOMAIN m :
       /\ m[i] # Base(input)[i]
       /\ \A j \in DOMAIN m \ {i} : m[j] = input[j]
=============================================================================
