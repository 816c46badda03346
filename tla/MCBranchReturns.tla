-------------------------- MODULE MCBranchReturns --------------------------
(* A branch with two products, and a return Production records itself.    *)
EXTENDS BranchReturns, TLC

CONSTANTS brownie, cake, i1, i2, i3, c1, c2

MCOf == (i1 :> brownie @@ i2 :> cake @@ i3 :> brownie)
MCOnHand == (brownie :> 2 @@ cake :> 1)
MCBatches == {{i1, i2}}
MCSymmetry == Permutations(Callers)
============================================================================
