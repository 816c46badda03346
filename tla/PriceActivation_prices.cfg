\* Two products, whose prices are scheduled, replaced and changed at once over four
\* days, two instances and a fault.
SPECIFICATION FairSpec
CONSTANTS
    i1 = i1  i2 = i2  a1 = a1
    Products = {1, 2}
    Prices = {1, 2}
    Listed <- MCListed
    Admins = {a1}
    Instances = {i1, i2}
    Attempts = 2
    MaxDay = 4
    MaxVersions = 2
    MaxFaults = 1
INVARIANTS
    PriceIsNewest
PROPERTIES
    HistoryStands
    ScheduledArrives
CHECK_DEADLOCK FALSE
