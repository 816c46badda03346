\* Batches of two messages, one with a link: a crash or a lost answer, receipts
\* overtaking each other, a retry; a lease outlives its batch.
SPECIFICATION FairSpec
CONSTANTS
    m1 = m1  m2 = m2  w1 = w1  w2 = w2
    Messages = {m1, m2}
    Linked = {m1}
    Workers = {w1, w2}
    Receipts = {"sent", "failed"}
    LeaseOutlasts = TRUE
    MaxAttempts = 2
    MaxTries = 1
    MaxSends = 2
    MaxFaults = 1
    MaxRetries = 1
INVARIANTS
    NoDeadLink
    LinkInOneHand
PROPERTIES
    LinkLife
    EveryMessageSettles
CHECK_DEADLOCK FALSE
