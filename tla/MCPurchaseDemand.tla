-------------------------- MODULE MCPurchaseDemand --------------------------
(* Model values and symmetry for the runs of PurchaseDemand.               *)
EXTENDS PurchaseDemand, TLC

CONSTANTS r1, r2, s1, s2, c1, c2

MCContents == {"complete", "lacking"}
MCSendable == {"complete"}
MCSymmetry ==
    Permutations(ReqIds) \cup Permutations(Staff) \cup Permutations(Clients)
=============================================================================
