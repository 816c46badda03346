\* Two clerks post, correct and delete two vouchers that may move between two days, and close one.
SPECIFICATION Spec
CONSTANTS
    f1 = f1  f2 = f2
    Clerks = {f1, f2}
    Days = {1, 2}
    Figures <- MCFigures
    Forms <- MCForms
    MaxEntries = 2
    MaxPending = 1
    MaxClosed = 1
SYMMETRY MCSymmetry
INVARIANTS
    BalanceIsPrefixSum
    EditReplacesWhatWasSeen
PROPERTIES
    ClosedDayIsKept
CHECK_DEADLOCK FALSE
