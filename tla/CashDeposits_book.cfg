\* One deposit through Accounts, Finance and two help desk requests at once, while the general
\* ledger edits or removes a receipt and Finance closes its days.
SPECIFICATION DepositSpec
CONSTANTS
    d1 = d1  c1 = c1  c2 = c2
    Deposits = {d1}
    Callers = {c1, c2}
    Today = 2
    MaxAmount = 1
    MaxRevision = 2
    MaxVouchers = 2
    MaxEdits = 1
SYMMETRY MCSymmetry
INVARIANTS
    BookFollowsDeposit
    DecidedAsSubmitted
PROPERTIES
    ClosedDayKept
CHECK_DEADLOCK FALSE
