\* Two quotation versions and two bills, over the portal and by staff, with retries.
SPECIFICATION Spec
CONSTANTS
    r1 = r1  r2 = r2  s1 = s1  s2 = s2  c1 = c1  c2 = c2
    Contents <- MCContents
    Sendable <- MCSendable
    NoReq = NoReq
    NoContent = NoContent
    Lines = {1}
    MaxQty = 1
    Charges = {0, 1}
    ReqIds = {}
    Staff = {s1, s2}
    Clients = {c1}
    MaxAdjust = 0
    MaxRevision = 2
    MaxVersions = 3
    MaxBills = 2
    MaxTokens = 3
    MaxReceipts = 0
SYMMETRY MCSymmetry
INVARIANTS
    ApprovalNamesCurrentVersion
    BillFollowsApproval
    DifferencesAccepted
    SupplierIsAsked
PROPERTIES
    ApprovedBillIsFinal
CHECK_DEADLOCK FALSE
