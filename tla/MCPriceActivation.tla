------------------------- MODULE MCPriceActivation -------------------------
(* Model values for the runs of PriceActivation.                           *)
EXTENDS PriceActivation

CONSTANTS i1, i2, a1

MCListed == [p \in Products |-> 1]
=============================================================================
