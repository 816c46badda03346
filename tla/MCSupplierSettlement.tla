------------------------ MODULE MCSupplierSettlement ------------------------
(* Model values and symmetry for the runs of SupplierSettlement.           *)
EXTENDS SupplierSettlement, TLC

CONSTANTS p1, p2, p3, c1, c2, f1, f2

MCSymmetry == Permutations(Payments) \cup Permutations(Credits) \cup Permutations(Recorders)
=============================================================================
