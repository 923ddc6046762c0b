--------------------------- MODULE MCModelAccess ---------------------------
(***************************************************************************)
(* Instances of ModelAccess for TLC.                                       *)
(***************************************************************************)
EXTENDS ModelAccess, TLC

\* Users and calls are interchangeable.
Symmetry == Permutations(User) \cup Permutations(Call)
=============================================================================
