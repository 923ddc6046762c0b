---------------------------- MODULE MCToolCalls ----------------------------
(***************************************************************************)
(* Instances of ToolCalls for TLC.                                         *)
(***************************************************************************)
EXTENDS ToolCalls, TLC

\* One tool of each way through the server; recall leaves after the notes, as a failing call does.
OneOfEach == {"remember", "generate_dax", "execute_dax"}

\* Users and calls are interchangeable.
Symmetry == Permutations(User) \cup Permutations(Call)
=============================================================================
