\* Direct payments beside two credits and their repayments, two clerks at once,
\* corrections in the ledger.
SPECIFICATION SettlementSpec
CONSTANTS
    p1 = p1  p2 = p2  p3 = p3  c1 = c1  c2 = c2  f1 = f1  f2 = f2
    Payments = {p1, p2, p3}
    Credits = {c1, c2}
    NoCredit = NoCredit
    Recorders = {f1, f2}
    Clerks = {f1, f2}
    Accounts = {"cash"}
    MaxAmount = 2
    Total = 3
SYMMETRY MCSymmetry
INVARIANTS
    PaymentStatusTrue
    BookFollowsPayments
    NotOverpaid
    CreditStatusTrue
CHECK_DEADLOCK FALSE
