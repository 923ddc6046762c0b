----------------------------- MODULE MCTtlCache -----------------------------
(***************************************************************************)
(* Instances of TtlCache for TLC.                                          *)
(***************************************************************************)
EXTENDS TtlCache, TLC

\* Keys and values are only compared.
Symmetry == Permutations(Key) \cup Permutations(Value)
=============================================================================
