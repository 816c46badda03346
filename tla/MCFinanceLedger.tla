-------------------------- MODULE MCFinanceLedger --------------------------
(* Model values and symmetry for the runs of FinanceLedger.                *)
EXTENDS FinanceLedger, TLC

CONSTANTS f1, f2

MCFigures == {1, 2}
MCForms == {<<{"figure"}, {"figure"}>>, <<{"day", "figure"}, {"day"}>>}
MCSymmetry == Permutations(Clerks)
=============================================================================
