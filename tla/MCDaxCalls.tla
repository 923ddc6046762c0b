---------------------------- MODULE MCDaxCalls ----------------------------
(***************************************************************************)
(* Instances of DaxCalls for TLC.                                          *)
(***************************************************************************)
EXTENDS DaxCalls

CONSTANTS q1, q2, q3

\* Lists of queries: none, one, two different ones, and one too many.
Batches == { <<>>, <<q1>>, <<q2, q1>>, <<q1, q2, q3>> }
============================================================================
