-------------------------- MODULE MCProductionOrders --------------------------
EXTENDS ProductionOrders, TLC

CONSTANTS o1, o2, t1, t2, c1, c2, cake

MCAbout == [t \in Tickets |-> o1]

MCSymmetry == Permutations(Callers) \cup Permutations(Tickets)

\* The second demand is there to compete for the pool: what follows when it is withdrawn,
\* approved in the end or given a line beside the branch's is explored for the first only.
Competes ==
    /\ status[o2] \in {"none", "pending", "awaiting", "verified"}
    /\ \A p \in Products : lines[o2][<<"added", p>>] = NoLine /\ lines[o2][<<"found", p>>] = NoLine

=============================================================================
