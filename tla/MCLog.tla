------------------------------- MODULE MCLog -------------------------------
(* Small instances of Log for TLC. *)
EXTENDS Log, TLC

\* processes and blocks are interchangeable; so are the values of a block
Symmetry == Permutations(Op) \cup Permutations(Block) \cup Permutations(Val)
=============================================================================
