\* Two products handed in together or one alone, changed, withdrawn, sent back and decided
\* while units are sold, a return is recorded at Production, and a call may break off.
SPECIFICATION ReturnSpec
CONSTANTS
    brownie = brownie  cake = cake  i1 = i1  i2 = i2  i3 = i3  c1 = c1  c2 = c2
    Goods = {brownie, cake}
    Returns = {i1, i2, i3}
    Of <- MCOf
    ByProduction = {i3}
    Batches <- MCBatches
    Callers = {c1, c2}
    Transfers = {1}
    OnHand <- MCOnHand
    MaxQty = 2
    MaxLoads = 2
    MaxBreaks = 1
SYMMETRY MCSymmetry
INVARIANTS
    UnitsAgree
PROPERTIES
    ReceivedOnce
    DecidedIsFinal
CHECK_DEADLOCK FALSE
