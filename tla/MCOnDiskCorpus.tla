--------------------------- MODULE MCOnDiskCorpus ---------------------------
(* OnDiskCorpus for TLC: inputs are interchangeable.                       *)
EXTENDS OnDiskCorpus, TLC

InputSymmetry == Permutations(Input)
=============================================================================
