\* One demand of two lines from draft to goods received: edited, verified, sent, resent and
\* cancelled while reads are in flight; links expire; every submission may arrive twice.
SPECIFICATION Spec
CONSTANTS
    r1 = r1  r2 = r2  s1 = s1  s2 = s2  c1 = c1  c2 = c2
    Contents <- MCContents
    Sendable <- MCSendable
    NoReq = NoReq
    NoContent = NoContent
    Lines = {1, 2}
    MaxQty = 1
    Charges = {0}
    ReqIds = {r1}
    Staff = {s1}
    Clients = {c1}
    MaxAdjust = 1
    MaxRevision = 2
    MaxVersions = 2
    MaxBills = 1
    MaxTokens = 2
    MaxReceipts = 2
SYMMETRY MCSymmetry
INVARIANTS
    StockFollowsReceipts
    NoDuplicateSubmission
    SentContentWasChecked
    OneLinkInForce
CHECK_DEADLOCK FALSE
