----------------------------- MODULE MCRelease -----------------------------
(***************************************************************************)
(* Instances of Release for TLC.                                           *)
(***************************************************************************)
EXTENDS Release

CONSTANTS trend, movers, draft, sales

AsFile(n) == [name |-> n, lower |-> TRUE]
Capital(n) == [name |-> n, lower |-> FALSE]
Lists(refs) == [id |-> sales, recipes |-> refs]

Good == [complete |-> TRUE, blank |-> FALSE, recipes |-> {AsFile(trend)}, valid |-> TRUE,
         models |-> <<Lists({AsFile(trend)})>>]

\* A good folder, and what can be wrong with one, or unusual.
OperatorFolders == {
    Good,
    [Good EXCEPT !.complete = FALSE],
    [Good EXCEPT !.valid = FALSE],
    [Good EXCEPT !.recipes = {AsFile(draft)}, !.models = <<>>],
    [Good EXCEPT !.recipes = {Capital(trend)}],
    [Good EXCEPT !.blank = TRUE, !.models = <<>>],
    [Good EXCEPT !.models = <<Lists({Capital(trend)})>>],
    [Good EXCEPT !.models = <<Lists({AsFile(movers)}), Lists({AsFile(trend)})>>],
    [Good EXCEPT !.models = <<Lists({AsFile(trend)}), Lists({AsFile(movers)})>>] }

\* The example skills' recipes.
Examples == {AsFile(trend), AsFile(movers)}
NoExamples == {}
=============================================================================
