----------------------------- MODULE MCMemories -----------------------------
(***************************************************************************)
(* Instances of Memories for TLC.                                          *)
(***************************************************************************)
EXTENDS Memories

\* Users and memory ids are interchangeable; calls are not told apart either.
Symmetry == Permutations(User) \cup Permutations(Id) \cup Permutations(Call)
=============================================================================
