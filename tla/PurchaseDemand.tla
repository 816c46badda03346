--------------------------- MODULE PurchaseDemand ---------------------------
(***************************************************************************)
(* One WhatsApp purchase demand, from draft to goods received.             *)
(*                                                                         *)
(* Every operation of the module is one plpgsql function of the migration  *)
(* 20261020000002_whatsapp_purchasing.  Each of them locks the demand row  *)
(* (app.purchase_lock_demand) and holds it to the end of its transaction,  *)
(* so one function is one atomic action.  What interleaves is what the API *)
(* does in front of a function, in a transaction of its own:               *)
(*   - verifyDemand, sendDemand, resendLink and cancelDemand read the      *)
(*     demand (StaffRead), run the checks or compose the message, and only *)
(*     then call the function.  Once the demand is sent its header and     *)
(*     lines no longer change, so a read after that is part of the call;   *)
(*   - the supplier portal resolves the link's token, and only then calls  *)
(*     the submission (PortalResolve, PortalSubmit...);                    *)
(*   - a person decides about the version or the bill of a screen that was *)
(*     loaded earlier (the arguments of the deciding actions).             *)
(* A function that raises changes nothing: it is an action that is not     *)
(* enabled.                                                                *)
(***************************************************************************)
EXTENDS Integers, Sequences

CONSTANTS
    Contents,      \* what a demand's lines and header can say
    Sendable,      \* the contents that pass every error check of verifyDemand
    Lines,         \* the lines of the quotation and of the bill
    MaxQty,        \* largest quantity of a line
    Charges,       \* delivery charges of a quotation or a bill
    ReqIds,        \* clientRequestId values
    NoReq,         \* a call without a clientRequestId
    NoContent,     \* nothing read
    Staff,         \* people working on the demand
    Clients,       \* concurrent requests of the supplier portal
    MaxAdjust,     \* bound on the manual movements of stock, summed, of one line
    MaxRevision, MaxVersions, MaxBills, MaxTokens, MaxReceipts  \* bounds

ASSUME ContentsAssumption == Sendable \subseteq Contents /\ NoContent \notin Contents
ASSUME BoundsAssumption ==
    /\ MaxQty \in Nat
    /\ Charges \subseteq Nat
    /\ MaxAdjust \in Nat
    /\ MaxRevision \in Nat \ {0}
    /\ MaxVersions \in Nat
    /\ MaxBills \in Nat
    /\ MaxTokens \in Nat
    /\ MaxReceipts \in Nat

VARIABLES
    demand,      \* the purchase_demands row
    quotations,  \* purchase_quotations of the demand; the index is the version
    bills,       \* purchase_bills of the demand, in the order submitted
    tokens,      \* supplier_access_tokens of the demand, oldest first
    receipts,    \* purchase_receipts of the demand
    goods,       \* per line: received, damaged (receipt items) and stock moves
    screen,      \* per person: the revision and content read, or NothingRead
    messages,    \* whatsapp_outbox rows of the demand
    portal       \* per portal request: the link it resolved (0: no request)
                 \* and the version whose lines its body names

vars == <<demand, quotations, bills, tokens, receipts, goods, screen, messages, portal>>

Qty == 0 .. MaxQty
Requests == ReqIds \cup {NoReq}

Statuses == {"draft", "verified", "awaiting_supplier", "quotation_received",
             "changes_requested", "rejected", "awaiting_supplier_bill",
             "bill_submitted", "awaiting_delivery", "partially_received",
             "received", "cancelled"}

Editable    == {"draft", "verified"}
QuotableWhileBilled == {"awaiting_supplier", "quotation_received",
                        "changes_requested", "awaiting_supplier_bill",
                        "bill_submitted"}
Quotable    == {"awaiting_supplier", "quotation_received", "changes_requested",
                "awaiting_supplier_bill"}
Resendable  == Quotable \cup {"bill_submitted"}
CancellableLate == Editable \cup Resendable \cup {"awaiting_delivery"}
Cancellable == Editable \cup Resendable
Deliverable == {"awaiting_supplier_bill", "bill_submitted",
                "awaiting_delivery", "partially_received", "received"}
Receivable  == {"awaiting_delivery", "partially_received"}

NothingRead == [revision |-> 0, content |-> NoContent]
Idle == [link |-> 0, version |-> 0]

MessageKinds == {"sent", "link", "approved", "changes", "rejected",
                 "bill_approved", "bill_rejected", "cancelled"}
TokenStates == {"live", "expired", "revoked"}
Delivery == {"not_booked", "booked", "dispatched", "delivered"}

Demand == [status: Statuses, revision: 1 .. MaxRevision,
           verifiedRevision: 0 .. MaxRevision, content: Contents,
           current: 0 .. MaxVersions, approved: 0 .. MaxVersions,
           approvedBill: 0 .. MaxBills, delivery: Delivery]

\* A quotation line is its available quantity, a bill line its billed quantity
\* (0: the line is not on the bill).  Rates and amounts stay out: what the
\* functions tell apart is a positive total and a difference from the quote.
Quotation == [avail: [Lines -> Qty], charge: Charges, req: Requests,
              status: {"submitted", "changes_requested", "approved",
                       "rejected", "superseded"}]
Bill == [billed: [Lines -> Qty], charge: Charges, req: Requests,
         version: 1 .. MaxVersions, link: 0 .. MaxTokens,
         status: {"submitted", "approved", "rejected"},
         differs: BOOLEAN, accepted: BOOLEAN]

Receipt == [req: Requests, final: BOOLEAN]
Goods == [received: Nat, damaged: Nat, adjusted: Int, stock: Nat]
Message == [key: MessageKinds \X Nat, content: Contents, link: 0 .. MaxTokens]
Screen == [revision: 1 .. MaxRevision, content: Contents]
Request == [link: 0 .. MaxTokens, version: 0 .. MaxVersions]

-----------------------------------------------------------------------------
(* Links: at most one token of a demand is in force; an expired token is    *)
(* revoked like any other when a newer one is issued.                       *)

RevokedExpiredOnly ==
    [i \in DOMAIN tokens |-> IF tokens[i] = "expired" THEN "revoked" ELSE tokens[i]]

Revoked == [i \in DOMAIN tokens |-> "revoked"]

IssueToken ==
    /\ Len(tokens) < MaxTokens
    /\ tokens' = Append(Revoked, "live")

RevokeTokens == tokens' = Revoked

EnqueueOncePerKind(kind, n, content, link) ==
    messages' = IF \E m \in messages : m.key[1] = kind
                THEN messages
                ELSE messages \cup {[key |-> <<kind, n>>, content |-> content,
                                     link |-> link]}

\* app.enqueue_whatsapp: a dedupe key that was used gets the first message back.
Enqueue(kind, n, content, link) ==
    messages' = IF \E m \in messages : m.key = <<kind, n>>
                THEN messages
                ELSE messages \cup {[key |-> <<kind, n>>, content |-> content,
                                     link |-> link]}

\* Time passes the token's expires_at.
Expire(t) ==
    /\ tokens[t] = "live"
    /\ tokens' = [tokens EXCEPT ![t] = "expired"]
    /\ UNCHANGED <<demand, quotations, bills, receipts, goods, screen, messages, portal>>

-----------------------------------------------------------------------------
(* Drafting: create, edit, verify, send                                     *)

Init ==
    /\ \E c \in Contents :
         demand = [status |-> "draft", revision |-> 1, verifiedRevision |-> 0,
                   content |-> c, current |-> 0, approved |-> 0,
                   approvedBill |-> 0, delivery |-> "not_booked"]
    /\ quotations = <<>>
    /\ bills = <<>>
    /\ tokens = <<>>
    /\ receipts = <<>>
    /\ goods = [l \in Lines |-> [received |-> 0, damaged |-> 0,
                                 adjusted |-> 0, stock |-> 0]]
    /\ screen = [s \in Staff |-> NothingRead]
    /\ messages = {}
    /\ portal = [c \in Clients |-> Idle]

\* purchase_update_demand, called with the revision r of the editor's screen.
Edit(r, c) ==
    /\ demand.status \in Editable
    /\ demand.revision = r
    /\ demand.revision < MaxRevision
    /\ demand' = [demand EXCEPT !.status = "draft", !.revision = @ + 1,
                                !.verifiedRevision = 0, !.content = c]
    /\ UNCHANGED <<quotations, bills, tokens, receipts, goods, screen, messages, portal>>

\* getDemand or demandRow, at the start of a request on an unsent demand.
StaffRead(s) ==
    /\ screen[s] = NothingRead
    /\ demand.status \in Editable
    /\ screen' = [screen EXCEPT ![s] = [revision |-> demand.revision,
                                        content |-> demand.content]]
    /\ UNCHANGED <<demand, quotations, bills, tokens, receipts, goods, messages, portal>>

\* The request is refused by a check or by the function, or it is lost.
StaffEnd(s) ==
    /\ screen[s] # NothingRead
    /\ screen' = [screen EXCEPT ![s] = NothingRead]
    /\ UNCHANGED <<demand, quotations, bills, tokens, receipts, goods, messages, portal>>

Done(s) ==
    /\ screen[s] # NothingRead
    /\ screen' = [screen EXCEPT ![s] = NothingRead]

MarkAnyRevision(r) == demand.status \in Editable

MarkAllowed(r) == demand.status \in Editable /\ demand.revision = r

\* Every error check of verifyDemand passed on what was read, and
\* purchase_mark_verified still finds the revision that was checked.
Verify(s) ==
    /\ Done(s)
    /\ screen[s].content \in Sendable
    /\ MarkAllowed(screen[s].revision)
    /\ demand' = [demand EXCEPT !.status = "verified",
                                !.verifiedRevision = demand.revision]
    /\ UNCHANGED <<quotations, bills, tokens, receipts, goods, messages, portal>>

SendAllowed(r) ==
    /\ demand.status = "verified"
    /\ demand.verifiedRevision = demand.revision
    /\ demand.revision = r

Send(s) ==
    /\ Done(s)
    /\ SendAllowed(screen[s].revision)
    /\ IssueToken
    /\ Enqueue("sent", 0, screen[s].content, Len(tokens'))
    /\ demand' = [demand EXCEPT !.status = "awaiting_supplier"]
    /\ UNCHANGED <<quotations, bills, receipts, goods, portal>>

\* content: what the request read, before or after the demand was sent
ResendLink(content) ==
    /\ demand.status \in Resendable
    /\ IssueToken
    /\ Enqueue("link", Len(tokens'), content, Len(tokens'))
    /\ UNCHANGED <<demand, quotations, bills, receipts, goods, portal>>

\* Only a demand the supplier has seen gets told.
Cancel(content) ==
    /\ demand.status \in Cancellable
    /\ RevokeTokens
    /\ IF demand.status \in Editable
       THEN UNCHANGED messages
       ELSE Enqueue("cancelled", 0, content, 0)
    /\ demand' = [demand EXCEPT !.status = "cancelled"]
    /\ UNCHANGED <<quotations, bills, receipts, goods, portal>>

\* A request that read the demand before it was sent, or reads it after.
ResendEarly(s) == Done(s) /\ ResendLink(screen[s].content)
CancelEarly(s) == Done(s) /\ Cancel(screen[s].content)

Sent == demand.status \notin Editable /\ UNCHANGED screen
ResendLate == Sent /\ ResendLink(demand.content)
CancelLate == Sent /\ Cancel(demand.content)

-----------------------------------------------------------------------------
(* The supplier portal: a request resolves its link first.  Its body was    *)
(* filled in on a page that showed the version approved then.               *)

PortalResolve(c, t) ==
    /\ portal[c] = Idle
    /\ tokens[t] = "live"
    /\ portal' = [portal EXCEPT ![c] = [link |-> t, version |-> demand.approved]]
    /\ UNCHANGED <<demand, quotations, bills, tokens, receipts, goods, screen, messages>>

\* The request ends with a view, a refusal or a replayed answer, or it is lost.
PortalEnd(c) ==
    /\ portal[c] # Idle
    /\ portal' = [portal EXCEPT ![c] = Idle]
    /\ UNCHANGED <<demand, quotations, bills, tokens, receipts, goods, screen, messages>>

-----------------------------------------------------------------------------
(* Quotations                                                               *)

EveryQuotation(req) == TRUE

FirstQuotation(req) ==
    req = NoReq \/ \A i \in DOMAIN quotations : quotations[i].req # req

SupersededUnlessApproved(q) ==
    IF q.status \in {"submitted", "changes_requested"}
    THEN [q EXCEPT !.status = "superseded"]
    ELSE q

\* Everything still open is overtaken by a new version.
Superseded(q) ==
    IF q.status \in {"submitted", "changes_requested", "approved"}
    THEN [q EXCEPT !.status = "superseded"]
    ELSE q

SubmitQuotation(avail, charge, req) ==
    /\ FirstQuotation(req)
    /\ demand.status \in Quotable
    /\ Len(quotations) < MaxVersions
    /\ quotations' =
         Append([i \in DOMAIN quotations |-> Superseded(quotations[i])],
                [avail |-> avail, charge |-> charge, req |-> req,
                 status |-> "submitted"])
    /\ demand' = [demand EXCEPT !.status = "quotation_received",
                                !.current = Len(quotations) + 1,
                                !.approved = 0]
    /\ UNCHANGED <<bills, tokens, receipts, goods, screen, messages>>

EnterQuotation(avail, charge, req) ==
    /\ SubmitQuotation(avail, charge, req)
    /\ UNCHANGED portal

PortalSubmitQuotation(c, avail, charge, req) ==
    /\ portal[c] # Idle
    /\ SubmitQuotation(avail, charge, req)
    /\ portal' = [portal EXCEPT ![c] = Idle]

\* numeric total of the lines and the delivery charge
HasTotal(q) == q.charge > 0 \/ \E l \in Lines : q.avail[l] > 0

\* The version the reviewer saw is still the one to decide about.
Reviewable(v) ==
    /\ demand.status = "quotation_received"
    /\ v \in DOMAIN quotations
    /\ v = demand.current
    /\ quotations[v].status = "submitted"

ApproveQuotation(v) ==
    /\ Reviewable(v)
    /\ HasTotal(quotations[v])
    /\ quotations' = [quotations EXCEPT ![v].status = "approved"]
    /\ IssueToken
    /\ demand' = [demand EXCEPT !.status = "awaiting_supplier_bill",
                                !.approved = v]
    /\ Enqueue("approved", v, demand.content, Len(tokens'))
    /\ UNCHANGED <<bills, receipts, goods, screen, portal>>

RequestChanges(v) ==
    /\ Reviewable(v)
    /\ quotations' = [quotations EXCEPT ![v].status = "changes_requested"]
    /\ IssueToken
    /\ demand' = [demand EXCEPT !.status = "changes_requested", !.approved = 0]
    /\ Enqueue("changes", v, demand.content, Len(tokens'))
    /\ UNCHANGED <<bills, receipts, goods, screen, portal>>

RejectQuotation(v) ==
    /\ Reviewable(v)
    /\ quotations' = [quotations EXCEPT ![v].status = "rejected"]
    /\ RevokeTokens
    /\ demand' = [demand EXCEPT !.status = "rejected", !.approved = 0]
    /\ Enqueue("rejected", v, demand.content, 0)
    /\ UNCHANGED <<bills, receipts, goods, screen, portal>>

-----------------------------------------------------------------------------
(* Bills                                                                    *)

FirstBill(req) == req = NoReq \/ \A i \in DOMAIN bills : bills[i].req # req

\* The unique index purchase_bills_one_open.
NoOpenBill == \A i \in DOMAIN bills : bills[i].status # "submitted"

DiffersOnQuantity(billed, charge, q) ==
    \E l \in Lines : billed[l] > 0 /\ billed[l] # q.avail[l]

\* differs_from_quotation: a quantity, a dropped line or a charge.
DiffersFrom(billed, charge, q) == billed # q.avail \/ charge # q.charge

SubmitBill(billed, charge, req, link) ==
    /\ FirstBill(req)
    /\ demand.status = "awaiting_supplier_bill"
    /\ demand.approved # 0
    /\ \E l \in Lines : billed[l] > 0
    /\ NoOpenBill
    /\ Len(bills) < MaxBills
    /\ bills' = Append(bills, [billed |-> billed, charge |-> charge, req |-> req,
                               version |-> demand.approved, link |-> link,
                               status |-> "submitted",
                               differs |-> DiffersFrom(billed, charge,
                                             quotations[demand.approved]),
                               accepted |-> FALSE])
    /\ demand' = [demand EXCEPT !.status = "bill_submitted"]
    /\ UNCHANGED <<quotations, tokens, receipts, goods, screen, messages>>

EnterBill(billed, charge, req) ==
    /\ SubmitBill(billed, charge, req, 0)
    /\ UNCHANGED portal

\* A line that is not on the approved version refuses the whole bill.
PortalSubmitBill(c, billed, charge, req) ==
    /\ portal[c] # Idle
    /\ portal[c].version = demand.approved
    /\ SubmitBill(billed, charge, req, portal[c].link)
    /\ portal' = [portal EXCEPT ![c] = Idle]

BillReviewable(b) ==
    /\ demand.status = "bill_submitted"
    /\ b \in DOMAIN bills
    /\ bills[b].status = "submitted"

ApproveBill(b, accept) ==
    /\ BillReviewable(b)
    /\ bills[b].differs => accept
    /\ bills' = [bills EXCEPT ![b].status = "approved",
                              ![b].accepted = bills[b].differs]
    /\ demand' = [demand EXCEPT !.status = "awaiting_delivery",
                                !.approvedBill = b]
    /\ Enqueue("bill_approved", b, demand.content, 0)
    /\ UNCHANGED <<quotations, tokens, receipts, goods, screen, portal>>

RejectBill(b) ==
    /\ BillReviewable(b)
    /\ bills' = [bills EXCEPT ![b].status = "rejected"]
    /\ IssueToken
    /\ demand' = [demand EXCEPT !.status = "awaiting_supplier_bill"]
    /\ Enqueue("bill_rejected", b, demand.content, Len(tokens'))
    /\ UNCHANGED <<quotations, receipts, goods, screen, portal>>

-----------------------------------------------------------------------------
(* Delivery, goods receipt, stock                                           *)

SaveDelivery(st) ==
    /\ demand.status \in Deliverable
    /\ demand' = [demand EXCEPT !.delivery = st]
    /\ UNCHANGED <<quotations, bills, tokens, receipts, goods, screen, messages, portal>>

FirstReceipt(req) ==
    req = NoReq \/ \A i \in DOMAIN receipts : receipts[i].req # req

Billed(l) == bills[demand.approvedBill].billed[l]

\* A line is received against the approved bill, and only the undamaged
\* quantity moves ingredient stock (app.apply_ingredient_movement).
Received(got, bad) ==
    [l \in Lines |-> [received |-> goods[l].received + got[l],
                      damaged  |-> goods[l].damaged + bad[l],
                      adjusted |-> goods[l].adjusted,
                      stock    |-> goods[l].stock + (got[l] - bad[l])]]

WithinBillEach(got) == \A l \in Lines : got[l] <= Billed(l)

WithinBill(got) == \A l \in Lines :
    got[l] > 0 => goods[l].received + got[l] <= Billed(l)

\* Still owed: some line was billed and has not all arrived.
Owed(g) == \E l \in Lines : Billed(l) > g[l].received

RecordReceipt(got, bad, final, req) ==
    /\ FirstReceipt(req)
    /\ demand.status \in Receivable
    /\ Len(receipts) < MaxReceipts
    /\ \A l \in Lines : bad[l] <= got[l]
    /\ WithinBill(got)
    /\ final \/ \E l \in Lines : got[l] > 0
    /\ receipts' = Append(receipts, [req |-> req, final |-> final])
    /\ goods' = Received(got, bad)
    /\ IF Owed(goods') /\ ~final
       THEN /\ demand' = [demand EXCEPT !.status = "partially_received"]
            /\ UNCHANGED tokens
       ELSE /\ demand' = [demand EXCEPT !.status = "received",
                                        !.delivery = "delivered"]
            /\ RevokeTokens
    /\ UNCHANGED <<quotations, bills, screen, messages, portal>>

\* ingredient_stock_adjust: a reasoned manual movement of one item.
EnoughStock(l, d) == goods[l].stock + d >= 0

AdjustStock(l, d) ==
    /\ d # 0
    /\ goods[l].adjusted + d \in -MaxAdjust .. MaxAdjust
    /\ \A k \in Lines \ {l} : goods[k].adjusted = 0
    /\ EnoughStock(l, d)
    /\ goods' = [goods EXCEPT ![l].adjusted = @ + d, ![l].stock = @ + d]
    /\ UNCHANGED <<demand, quotations, bills, tokens, receipts, screen, messages, portal>>

-----------------------------------------------------------------------------
Drafting ==
    \/ \E r \in 1 .. MaxRevision, c \in Contents : Edit(r, c)
    \/ \E s \in Staff : StaffRead(s)
    \/ \E s \in Staff : StaffEnd(s)
    \/ \E s \in Staff : Verify(s)
    \/ \E s \in Staff : Send(s)
    \/ \E s \in Staff : ResendEarly(s)
    \/ \E s \in Staff : CancelEarly(s)
    \/ ResendLate
    \/ CancelLate

Portal ==
    \/ \E t \in DOMAIN tokens : Expire(t)
    \/ \E c \in Clients, t \in DOMAIN tokens : PortalResolve(c, t)
    \/ \E c \in Clients : PortalEnd(c)

Quoting ==
    \/ \E a \in [Lines -> Qty], k \in Charges, q \in Requests : EnterQuotation(a, k, q)
    \/ \E c \in Clients, a \in [Lines -> Qty], k \in Charges, q \in Requests :
         PortalSubmitQuotation(c, a, k, q)
    \/ \E v \in 1 .. MaxVersions : ApproveQuotation(v)
    \/ \E v \in 1 .. MaxVersions : RequestChanges(v)
    \/ \E v \in 1 .. MaxVersions : RejectQuotation(v)

Billing ==
    \/ \E b \in [Lines -> Qty], k \in Charges, q \in Requests : EnterBill(b, k, q)
    \/ \E c \in Clients, b \in [Lines -> Qty], k \in Charges, q \in Requests :
         PortalSubmitBill(c, b, k, q)
    \/ \E b \in 1 .. MaxBills, accept \in BOOLEAN : ApproveBill(b, accept)
    \/ \E b \in 1 .. MaxBills : RejectBill(b)

Receiving ==
    \/ \E st \in Delivery \ {"not_booked"} : SaveDelivery(st)
    \/ \E got, bad \in [Lines -> Qty], f \in BOOLEAN, q \in Requests :
         RecordReceipt(got, bad, f, q)
    \/ \E l \in Lines, d \in -MaxAdjust .. MaxAdjust : AdjustStock(l, d)

Next == Drafting \/ Portal \/ Quoting \/ Billing \/ Receiving

Spec == Init /\ [][Next]_vars

-----------------------------------------------------------------------------
TypeOK ==
    /\ demand \in Demand
    /\ quotations \in Seq(Quotation) /\ Len(quotations) <= MaxVersions
    /\ bills \in Seq(Bill) /\ Len(bills) <= MaxBills
    /\ tokens \in Seq(TokenStates) /\ Len(tokens) <= MaxTokens
    /\ receipts \in Seq(Receipt)
    /\ Len(receipts) <= MaxReceipts
    /\ goods \in [Lines -> Goods]
    /\ screen \in [Staff -> {NothingRead} \cup Screen]
    /\ messages \subseteq Message
    /\ portal \in [Clients -> Request]

\* The approval of a demand names its newest version, no other version is
\* approved, and every later stage has one: a submission overtakes an approval.
ApprovalNamesCurrentVersion ==
    /\ demand.approved # 0 => demand.approved = Len(quotations)
    /\ \A v \in DOMAIN quotations :
         quotations[v].status = "approved" <=> v = demand.approved
    /\ demand.status \in Deliverable => demand.approved # 0

\* The bill under review, and the approved bill, were made out against the
\* version that stands approved.
BillFollowsApproval ==
    /\ \A b \in DOMAIN bills :
         bills[b].status # "rejected" /\ demand.status # "cancelled"
            => bills[b].version = demand.approved
    /\ demand.status = "bill_submitted"
         => \E b \in DOMAIN bills : bills[b].status = "submitted"
    /\ demand.status \in Receivable \cup {"received"}
         => /\ demand.approvedBill \in DOMAIN bills
            /\ bills[demand.approvedBill].status = "approved"

\* An approved bill says what the approved quotation said, line by line and
\* in its charge, unless a person accepted the differences.
DifferencesAccepted ==
    \A b \in DOMAIN bills :
       bills[b].status = "approved" /\ ~bills[b].accepted =>
          /\ bills[b].billed = quotations[demand.approved].avail
          /\ bills[b].charge = quotations[demand.approved].charge

\* A demand the supplier has seen has the content that passed the checks,
\* whatever was edited while they ran.
SentContentWasChecked ==
    demand.status \notin Editable \cup {"cancelled"} => demand.content \in Sendable

\* Only the newest link can be unrevoked, and a closed demand has none.
OneLinkInForce ==
    \A t \in DOMAIN tokens : tokens[t] # "revoked" =>
        /\ t = Len(tokens)
        /\ demand.status \notin {"cancelled", "rejected", "received"}

\* What the supplier was told when the demand came to wait for him last.
StageKey ==
    IF demand.status = "awaiting_supplier" THEN <<"sent", 0>>
    ELSE IF demand.status = "changes_requested" THEN <<"changes", demand.current>>
    ELSE IF bills # <<>> /\ bills[Len(bills)].version = demand.approved
         THEN <<"bill_rejected", Len(bills)>>
         ELSE <<"approved", demand.approved>>

\* A demand that waits for its supplier told him so, for this version or bill, in a
\* message no earlier one's dedupe key swallowed; its newest link is in that message or
\* in a resend after it, and only time can have ended it (an expired link is answered
\* with 410 until somebody resends).  What he was told of is the demand as it is, though
\* the text was composed before the demand was locked; only a resend or a cancellation
\* may speak of an earlier draft.
SupplierIsAsked ==
    /\ demand.status \in {"awaiting_supplier", "changes_requested", "awaiting_supplier_bill"} =>
         /\ tokens # <<>> /\ tokens[Len(tokens)] # "revoked"
         /\ \E m \in messages :
              /\ m.key = StageKey
              /\ \/ m.link = Len(tokens)
                 \/ \E r \in messages : /\ r.key = <<"link", Len(tokens)>>
                                        /\ m.link < r.link /\ r.link = Len(tokens)
    /\ \A m \in messages : m.key[1] \notin {"link", "cancelled"} => m.content = demand.content

\* Retries: one clientRequestId makes at most one version, bill or receipt,
\* so a repeated submission cannot withdraw an approval or count goods twice.
NoDuplicateSubmission ==
    /\ \A i, j \in DOMAIN quotations :
         i # j /\ quotations[i].req # NoReq => quotations[i].req # quotations[j].req
    /\ \A i, j \in DOMAIN bills :
         i # j /\ bills[i].req # NoReq => bills[i].req # bills[j].req
    /\ \A i, j \in DOMAIN receipts :
         i # j /\ receipts[i].req # NoReq => receipts[i].req # receipts[j].req

\* No line is received beyond the approved bill, and the stock of its item is the
\* accepted quantity plus the manual movements; a demand is received when every line
\* arrived, or when a person closed it short, and until then something is still owed.
StockFollowsReceipts ==
    /\ \A l \in Lines :
       /\ goods[l].received > 0 => goods[l].received <= Billed(l)
       /\ goods[l].damaged <= goods[l].received
       /\ goods[l].stock = goods[l].received - goods[l].damaged + goods[l].adjusted
    /\ demand.status = "received" =>
         \/ \A l \in Lines : goods[l].received >= Billed(l)
         \/ \E i \in DOMAIN receipts : receipts[i].final
    /\ demand.status = "partially_received" =>
         \E l \in Lines : goods[l].received < Billed(l)

KeepsDeal ==
    demand.approvedBill # 0 =>
        /\ demand'.approvedBill = demand.approvedBill
        /\ demand'.approved = demand.approved
        /\ bills' = bills
        /\ demand'.status \in Receivable \cup {"received"}

\* Once a bill is approved the deal is fixed: the approved bill, its version
\* and its lines never change, and the demand can only move towards received.
ApprovedBillIsFinal == [][KeepsDeal]_vars
=============================================================================
