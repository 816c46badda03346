-------------------------- MODULE PurchasingProofs --------------------------
(***************************************************************************)
(* Theorems about WhatsApp purchasing, for every value of the constants:   *)
(* the demand on its way (PurchaseDemand), then the payments of its bill   *)
(* (SupplierSettlement).                                                   *)
(***************************************************************************)
EXTENDS PurchaseDemand, SupplierSettlement, SequenceTheorems, SumTheorems

-----------------------------------------------------------------------------
(* Links and messages                                                       *)

\* Replacing the link appends one live token and revokes every older one.
LEMMA IssueTokenEffect ==
    ASSUME TypeOK, IssueToken
    PROVE  /\ tokens' \in Seq(TokenStates)
           /\ Len(tokens') = Len(tokens) + 1
           /\ Len(tokens') <= MaxTokens
           /\ Len(tokens') \in 1 .. MaxTokens
           /\ tokens'[Len(tokens')] = "live"
           /\ \A i \in 1 .. Len(tokens) : tokens'[i] = "revoked"
<1>1. tokens \in Seq(TokenStates) /\ Len(tokens) \in Nat
  BY DEF TypeOK
<1>2. /\ Revoked \in Seq(TokenStates)
      /\ Len(Revoked) = Len(tokens)
      /\ \A i \in 1 .. Len(tokens) : Revoked[i] = "revoked"
  BY <1>1 DEF Revoked, TokenStates
<1>3. "live" \in TokenStates
  BY DEF TokenStates
<1> QED
  BY <1>1, <1>2, <1>3, BoundsAssumption, AppendProperties DEF IssueToken

\* Closing the links revokes them all.
LEMMA RevokeTokensEffect ==
    ASSUME TypeOK, RevokeTokens
    PROVE  /\ tokens' \in Seq(TokenStates)
           /\ Len(tokens') = Len(tokens)
           /\ Len(tokens') <= MaxTokens
           /\ \A i \in 1 .. Len(tokens) : tokens'[i] = "revoked"
  BY DEF TypeOK, RevokeTokens, Revoked, TokenStates

LEMMA EnqueueType ==
    ASSUME TypeOK, NEW k \in MessageKinds, NEW n \in Nat, NEW c \in Contents,
           NEW t \in 0 .. MaxTokens, Enqueue(k, n, c, t)
    PROVE  messages' \subseteq Message
  BY DEF TypeOK, Enqueue, Message

-----------------------------------------------------------------------------
(* Type correctness                                                         *)

USE DEF Editable, Quotable, Resendable, Cancellable, Deliverable, Receivable

LEMMA SupersededType == \A x \in Quotation : Superseded(x) \in Quotation
  BY DEF Superseded, Quotation

LEMMA DecidedType ==
    \A x \in Quotation, st \in {"approved", "changes_requested", "rejected"} :
       [x EXCEPT !.status = st] \in Quotation
  BY DEF Quotation

\* A demand stays one under the updates the actions make to it.
LEMMA EditedType ==
    \A d \in Demand, st \in Statuses, c \in Contents, r \in 1 .. MaxRevision,
       w \in 0 .. MaxRevision :
       [d EXCEPT !.status = st, !.revision = r, !.verifiedRevision = w,
                 !.content = c] \in Demand
  BY DEF Demand

LEMMA VerifiedType ==
    \A d \in Demand, st \in Statuses, w \in 0 .. MaxRevision :
       [d EXCEPT !.status = st, !.verifiedRevision = w] \in Demand
  BY DEF Demand

LEMMA StatusType ==
    ASSUME NEW d \in Demand, NEW st \in Statuses
    PROVE  [d EXCEPT !.status = st] \in Demand
  BY DEF Demand

LEMMA ApprovedType ==
    ASSUME NEW d \in Demand, NEW st \in Statuses, NEW v \in 0 .. MaxVersions
    PROVE  [d EXCEPT !.status = st, !.approved = v] \in Demand
  BY DEF Demand

LEMMA ApprovedBillType ==
    ASSUME NEW d \in Demand, NEW st \in Statuses, NEW b \in 0 .. MaxBills
    PROVE  [d EXCEPT !.status = st, !.approvedBill = b] \in Demand
  BY DEF Demand

LEMMA DeliveredType ==
    ASSUME NEW d \in Demand, NEW st \in Statuses, NEW dl \in Delivery
    PROVE  /\ [d EXCEPT !.delivery = dl] \in Demand
           /\ [d EXCEPT !.status = st, !.delivery = dl] \in Demand
  BY DEF Demand

LEMMA OvertakenType ==
    \A d \in Demand, st \in Statuses, v, w \in 0 .. MaxVersions :
       [d EXCEPT !.status = st, !.current = v, !.approved = w] \in Demand
  BY DEF Demand

LEMMA SubmitQuotationType ==
    ASSUME TypeOK, NEW a \in [Lines -> Qty], NEW k \in Charges,
           NEW q \in Requests, SubmitQuotation(a, k, q)
    PROVE  /\ demand' \in Demand
           /\ quotations' \in Seq(Quotation)
           /\ Len(quotations') <= MaxVersions
<1> DEFINE old == [i \in DOMAIN quotations |-> Superseded(quotations[i])]
           new == [avail |-> a, charge |-> k, req |-> q, status |-> "submitted"]
<1>1. quotations \in Seq(Quotation) /\ Len(quotations) \in Nat
  BY DEF TypeOK
<1>2. \A i \in 1 .. Len(quotations) : Superseded(quotations[i]) \in Quotation
  BY <1>1, SupersededType, ElementOfSeq
<1>3. old \in Seq(Quotation) /\ Len(old) = Len(quotations)
  BY <1>1, <1>2
<1>4. new \in Quotation
  BY DEF Quotation
<1>5. quotations' = Append(old, new)
  BY DEF SubmitQuotation
<1>6. Len(quotations') = Len(quotations) + 1 /\ quotations' \in Seq(Quotation)
  BY <1>3, <1>4, <1>5, AppendProperties
<1>7. Len(quotations) + 1 \in 0 .. MaxVersions
  BY <1>1, BoundsAssumption DEF SubmitQuotation
<1>8. demand' \in Demand
  <2>1. demand' = [demand EXCEPT !.status = "quotation_received",
                                 !.current = Len(quotations) + 1, !.approved = 0]
    BY DEF SubmitQuotation
  <2>2. "quotation_received" \in Statuses
    BY DEF Statuses
  <2>3. 0 \in 0 .. MaxVersions
    BY BoundsAssumption
  <2> QED
    BY <1>7, <2>1, <2>2, <2>3, OvertakenType DEF TypeOK
<1> QED
  BY <1>6, <1>7, <1>8, BoundsAssumption

LEMMA DecideQuotationType ==
    ASSUME TypeOK, NEW v \in DOMAIN quotations,
           NEW st \in {"approved", "changes_requested", "rejected"},
           quotations' = [quotations EXCEPT ![v].status = st]
    PROVE  quotations' \in Seq(Quotation) /\ Len(quotations') = Len(quotations)
<1>1. quotations \in Seq(Quotation) /\ v \in 1 .. Len(quotations)
  BY DEF TypeOK
<1>2. [quotations[v] EXCEPT !.status = st] \in Quotation
  BY <1>1, ElementOfSeq, DecidedType
<1>3. quotations' = [quotations EXCEPT ![v] = [quotations[v] EXCEPT !.status = st]]
  OBVIOUS
<1> QED
  BY <1>1, <1>2, <1>3, ExceptSeq

LEMMA SubmitBillType ==
    ASSUME TypeOK, NEW b \in [Lines -> Qty], NEW k \in Charges,
           NEW q \in Requests, NEW t \in 0 .. MaxTokens, SubmitBill(b, k, q, t)
    PROVE  /\ demand' \in Demand
           /\ bills' \in Seq(Bill)
           /\ Len(bills') <= MaxBills
<1> DEFINE new == [billed |-> b, charge |-> k, req |-> q,
                   version |-> demand.approved, link |-> t,
                   status |-> "submitted",
                   differs |-> DiffersFrom(b, k, quotations[demand.approved]),
                   accepted |-> FALSE]
<1>1. bills \in Seq(Bill) /\ Len(bills) \in Nat
  BY DEF TypeOK
<1>2. demand.approved \in 1 .. MaxVersions
  <2>1. demand.approved \in 0 .. MaxVersions
    BY DEF TypeOK, Demand
  <2>2. demand.approved # 0
    BY DEF SubmitBill
  <2> QED
    BY BoundsAssumption, <2>1, <2>2
<1>3. DiffersFrom(b, k, quotations[demand.approved]) \in BOOLEAN
  BY DEF DiffersFrom
<1>4. new \in Bill
  BY <1>2, <1>3 DEF Bill
<1>5. bills' = Append(bills, new)
  BY DEF SubmitBill
<1>6. demand' \in Demand
  BY DEF SubmitBill, Demand, Statuses, TypeOK
<1> QED
  BY <1>1, <1>4, <1>5, <1>6, AppendProperties, BoundsAssumption DEF SubmitBill

LEMMA DecideBillType ==
    ASSUME TypeOK, NEW b \in DOMAIN bills, NEW st \in {"approved", "rejected"},
           \/ bills' = [bills EXCEPT ![b].status = st]
           \/ bills' = [bills EXCEPT ![b].status = st, ![b].accepted = bills[b].differs]
    PROVE  bills' \in Seq(Bill) /\ Len(bills') = Len(bills)
<1>1. bills \in Seq(Bill) /\ b \in 1 .. Len(bills)
  BY DEF TypeOK
<1>2. \A x \in Bill : /\ [x EXCEPT !.status = st] \in Bill
                      /\ [x EXCEPT !.status = st, !.accepted = x.differs] \in Bill
  BY DEF Bill
<1>3. bills[b] \in Bill
  BY <1>1, ElementOfSeq
<1>4. CASE bills' = [bills EXCEPT ![b].status = st]
  <2> DEFINE x == [bills[b] EXCEPT !.status = st]
  <2>1. x \in Bill
    BY <1>2, <1>3
  <2>2. bills' = [bills EXCEPT ![b] = x]
    BY <1>4
  <2> QED
    BY <1>1, <2>1, <2>2, ExceptSeq
<1>5. CASE bills' = [bills EXCEPT ![b].status = st, ![b].accepted = bills[b].differs]
  <2> DEFINE x == [bills[b] EXCEPT !.status = st, !.accepted = bills[b].differs]
  <2>1. x \in Bill
    BY <1>2, <1>3
  <2>2. bills' = [bills EXCEPT ![b] = x]
    BY <1>1, <1>5
  <2> QED
    BY <1>1, <2>1, <2>2, ExceptSeq
<1> QED
  BY <1>4, <1>5

LEMMA GoodsType ==
    ASSUME TypeOK, NEW got \in [Lines -> Qty], NEW bad \in [Lines -> Qty],
           \A l \in Lines : bad[l] <= got[l]
    PROVE  Received(got, bad) \in [Lines -> Goods]
<1> SUFFICES ASSUME NEW l \in Lines
             PROVE  [received |-> goods[l].received + got[l],
                     damaged  |-> goods[l].damaged + bad[l],
                     adjusted |-> goods[l].adjusted,
                     stock    |-> goods[l].stock + (got[l] - bad[l])] \in Goods
  BY DEF Received
<1>1. /\ goods[l].received \in Nat /\ goods[l].damaged \in Nat
      /\ goods[l].adjusted \in Int /\ goods[l].stock \in Nat
  BY DEF TypeOK, Goods
<1>2. got[l] \in Nat /\ bad[l] \in Nat /\ bad[l] <= got[l]
  BY BoundsAssumption DEF Qty
<1> QED
  BY <1>1, <1>2 DEF Goods

LEMMA TypeInit == Init => TypeOK
<1> SUFFICES ASSUME Init PROVE TypeOK
  OBVIOUS
<1>1. demand \in Demand
  BY BoundsAssumption DEF Init, Demand, Statuses, Delivery
<1>2. quotations = <<>> /\ bills = <<>> /\ tokens = <<>> /\ receipts = <<>>
  BY DEF Init
<1>3. /\ quotations \in Seq(Quotation) /\ Len(quotations) = 0
      /\ bills \in Seq(Bill) /\ Len(bills) = 0
      /\ tokens \in Seq(TokenStates) /\ Len(tokens) = 0
      /\ receipts \in Seq(Receipt) /\ Len(receipts) = 0
  BY <1>2, EmptySeq
<1>4. goods \in [Lines -> Goods]
  BY DEF Init, Goods
<1>5. screen \in [Staff -> {NothingRead} \cup Screen]
  BY DEF Init
<1>6. portal \in [Clients -> Request]
  BY BoundsAssumption DEF Init, Idle, Request
<1> QED
  BY <1>1, <1>3, <1>4, <1>5, <1>6, BoundsAssumption DEF TypeOK, Init

LEMMA TypeStep == TypeOK /\ [Next]_vars => TypeOK'
<1> SUFFICES ASSUME TypeOK, [Next]_vars PROVE TypeOK'
  OBVIOUS
<1> USE BoundsAssumption
<1>1. CASE Drafting
  <2>1. ASSUME NEW r \in 1 .. MaxRevision, NEW c \in Contents, Edit(r, c)
        PROVE  TypeOK'
    <3>1. demand' \in Demand
      <4>1. demand' = [demand EXCEPT !.status = "draft",
                                     !.revision = demand.revision + 1,
                                     !.verifiedRevision = 0, !.content = c]
        BY <2>1 DEF Edit
      <4>2. demand \in Demand /\ demand.revision \in 1 .. MaxRevision
        BY DEF TypeOK, Demand
      <4>3. demand.revision + 1 \in 1 .. MaxRevision
        BY <2>1, <4>2 DEF Edit
      <4>4. "draft" \in Statuses /\ 0 \in 0 .. MaxRevision
        BY DEF Statuses
      <4> QED
        BY <4>1, <4>2, <4>3, <4>4, EditedType
    <3> QED
      BY <2>1, <3>1 DEF Edit, TypeOK
  <2>2. ASSUME NEW s \in Staff, StaffRead(s) PROVE TypeOK'
    BY <2>2 DEF StaffRead, TypeOK, Demand, Screen
  <2>3. ASSUME NEW s \in Staff, StaffEnd(s) PROVE TypeOK'
    <3>1. screen' \in [Staff -> {NothingRead} \cup Screen]
      BY <2>3 DEF StaffEnd, TypeOK
    <3> QED
      BY <2>3, <3>1 DEF StaffEnd, TypeOK
  <2>4. ASSUME NEW s \in Staff, Verify(s) PROVE TypeOK'
    <3>1. screen' \in [Staff -> {NothingRead} \cup Screen]
      BY <2>4 DEF Verify, Done, TypeOK
    <3>2. demand' \in Demand
      <4>1. demand' = [demand EXCEPT !.status = "verified",
                                     !.verifiedRevision = demand.revision]
        BY <2>4 DEF Verify
      <4>2. demand \in Demand /\ demand.revision \in 0 .. MaxRevision
        BY DEF TypeOK, Demand
      <4>3. "verified" \in Statuses
        BY DEF Statuses
      <4> QED
        BY <4>1, <4>2, <4>3, VerifiedType
    <3> QED
      BY <2>4, <3>1, <3>2 DEF Verify, TypeOK
  <2>5. ASSUME NEW s \in Staff, Send(s) PROVE TypeOK'
    <3>1. /\ screen[s].content \in Contents
          /\ screen' \in [Staff -> {NothingRead} \cup Screen]
      BY <2>5 DEF Send, Done, TypeOK, Screen
    <3>2. IssueToken /\ Enqueue("sent", 0, screen[s].content, Len(tokens'))
      BY <2>5 DEF Send
    <3>3. /\ tokens' \in Seq(TokenStates)
          /\ Len(tokens') <= MaxTokens
          /\ Len(tokens') \in 0 .. MaxTokens
      BY <3>2, IssueTokenEffect
    <3>4. "sent" \in MessageKinds
      BY DEF MessageKinds
    <3>5. messages' \subseteq Message
      BY <3>1, <3>2, <3>3, <3>4, EnqueueType
    <3>6. demand' \in Demand
      <4>1. demand' = [demand EXCEPT !.status = "awaiting_supplier"]
        BY <2>5 DEF Send
      <4>2. demand \in Demand /\ "awaiting_supplier" \in Statuses
        BY DEF TypeOK, Statuses
      <4> QED
        BY <4>1, <4>2, StatusType
    <3> QED
      BY <2>5, <3>1, <3>3, <3>5, <3>6 DEF Send, TypeOK
  <2>6. ASSUME NEW c \in Contents, ResendLink(c), screen' \in [Staff -> {NothingRead} \cup Screen]
        PROVE  TypeOK'
    BY <2>6, IssueTokenEffect, EnqueueType DEF ResendLink, TypeOK, MessageKinds
  <2>7. ASSUME NEW c \in Contents, Cancel(c), screen' \in [Staff -> {NothingRead} \cup Screen]
        PROVE  TypeOK'
    <3>1. demand' \in Demand
      BY <2>7, StatusType DEF Cancel, TypeOK, Statuses
    <3>2. messages' \subseteq Message
      <4>1. CASE demand.status \in Editable
        BY <2>7, <4>1 DEF Cancel, TypeOK
      <4>2. CASE demand.status \notin Editable
        BY <2>7, <4>2, EnqueueType DEF Cancel, MessageKinds
      <4> QED
        BY <4>1, <4>2
    <3> QED
      BY <2>7, <3>1, <3>2, RevokeTokensEffect DEF Cancel, TypeOK
  <2>8. ASSUME NEW s \in Staff, Done(s)
        PROVE  /\ screen[s].content \in Contents
               /\ screen' \in [Staff -> {NothingRead} \cup Screen]
    BY <2>8 DEF Done, TypeOK, Screen
  <2>9. demand.content \in Contents
    BY DEF TypeOK, Demand
  <2>10. UNCHANGED screen => screen' \in [Staff -> {NothingRead} \cup Screen]
    BY DEF TypeOK
  <2> QED
    BY <1>1, <2>1, <2>2, <2>3, <2>4, <2>5, <2>6, <2>7, <2>8, <2>9, <2>10
       DEF Drafting, ResendEarly, CancelEarly, ResendLate, CancelLate, Sent
<1>2. CASE Portal
  <2>1. ASSUME NEW t \in DOMAIN tokens, Expire(t) PROVE TypeOK'
    <3>1. tokens' \in Seq(TokenStates) /\ Len(tokens') = Len(tokens)
      BY <2>1, ExceptSeq DEF Expire, TypeOK, TokenStates
    <3> QED
      BY <2>1, <3>1 DEF Expire, TypeOK
  <2>2. ASSUME NEW c \in Clients, NEW t \in DOMAIN tokens, PortalResolve(c, t)
        PROVE  TypeOK'
    <3>1. [link |-> t, version |-> demand.approved] \in Request
      <4>1. demand \in Demand
        BY DEF TypeOK
      <4>2. t \in 0 .. MaxTokens
        BY DEF TypeOK
      <4> QED
        BY <4>1, <4>2 DEF Demand, Request
    <3>2. portal' \in [Clients -> Request]
      BY <2>2, <3>1 DEF PortalResolve, TypeOK
    <3> QED
      BY <2>2, <3>2 DEF PortalResolve, TypeOK
  <2>3. ASSUME NEW c \in Clients, PortalEnd(c) PROVE TypeOK'
    <3>1. portal' \in [Clients -> Request]
      BY <2>3 DEF PortalEnd, TypeOK, Idle, Request
    <3> QED
      BY <2>3, <3>1 DEF PortalEnd, TypeOK
  <2> QED
    BY <1>2, <2>1, <2>2, <2>3 DEF Portal
<1>3. CASE Quoting
  <2>1. ASSUME NEW a \in [Lines -> Qty], NEW k \in Charges, NEW q \in Requests,
               SubmitQuotation(a, k, q), portal' \in [Clients -> Request]
        PROVE  TypeOK'
    BY <2>1, SubmitQuotationType DEF SubmitQuotation, TypeOK
  <2>2. portal \in [Clients -> Request] /\ Idle \in Request
    BY DEF TypeOK, Idle, Request
  <2>3. ASSUME NEW v \in 1 .. MaxVersions, ApproveQuotation(v) PROVE TypeOK'
    <3>1. v \in DOMAIN quotations
      BY <2>3 DEF ApproveQuotation, Reviewable
    <3>2. quotations' \in Seq(Quotation) /\ Len(quotations') = Len(quotations)
      BY <2>3, <3>1, DecideQuotationType DEF ApproveQuotation
    <3>3. demand' \in Demand
      <4>1. demand' = [demand EXCEPT !.status = "awaiting_supplier_bill", !.approved = v]
        BY <2>3 DEF ApproveQuotation
      <4>2. "awaiting_supplier_bill" \in Statuses /\ v \in 0 .. MaxVersions
        BY DEF Statuses
      <4>3. demand \in Demand
        BY DEF TypeOK
      <4> QED
        BY <4>1, <4>2, <4>3, ApprovedType
    <3>4. messages' \subseteq Message
      <4>1. Enqueue("approved", v, demand.content, Len(tokens'))
        BY <2>3 DEF ApproveQuotation
      <4>2. v \in Nat /\ "approved" \in MessageKinds
        BY DEF MessageKinds
      <4>3. IssueToken
        BY <2>3 DEF ApproveQuotation
      <4>4. Len(tokens') \in 0 .. MaxTokens
        BY <4>3, IssueTokenEffect
      <4>5. demand.content \in Contents
        BY DEF TypeOK, Demand
      <4> QED
        BY <4>1, <4>2, <4>4, <4>5, EnqueueType
    <3> QED
      BY <2>3, <3>2, <3>3, <3>4, IssueTokenEffect DEF ApproveQuotation, TypeOK
  <2>4. ASSUME NEW v \in 1 .. MaxVersions, RequestChanges(v) PROVE TypeOK'
    <3>1. v \in DOMAIN quotations
      BY <2>4 DEF RequestChanges, Reviewable
    <3>2. quotations' \in Seq(Quotation) /\ Len(quotations') = Len(quotations)
      BY <2>4, <3>1, DecideQuotationType DEF RequestChanges
    <3>3. demand' \in Demand
      <4>1. demand' = [demand EXCEPT !.status = "changes_requested", !.approved = 0]
        BY <2>4 DEF RequestChanges
      <4>2. "changes_requested" \in Statuses /\ 0 \in 0 .. MaxVersions
        BY DEF Statuses
      <4>3. demand \in Demand
        BY DEF TypeOK
      <4> QED
        BY <4>1, <4>2, <4>3, ApprovedType
    <3>4. messages' \subseteq Message
      <4>1. Enqueue("changes", v, demand.content, Len(tokens'))
        BY <2>4 DEF RequestChanges
      <4>2. v \in Nat /\ "changes" \in MessageKinds
        BY DEF MessageKinds
      <4>3. IssueToken
        BY <2>4 DEF RequestChanges
      <4>4. Len(tokens') \in 0 .. MaxTokens
        BY <4>3, IssueTokenEffect
      <4>5. demand.content \in Contents
        BY DEF TypeOK, Demand
      <4> QED
        BY <4>1, <4>2, <4>4, <4>5, EnqueueType
    <3> QED
      BY <2>4, <3>2, <3>3, <3>4, IssueTokenEffect DEF RequestChanges, TypeOK
  <2>5. ASSUME NEW v \in 1 .. MaxVersions, RejectQuotation(v) PROVE TypeOK'
    <3>1. v \in DOMAIN quotations
      BY <2>5 DEF RejectQuotation, Reviewable
    <3>2. quotations' \in Seq(Quotation) /\ Len(quotations') = Len(quotations)
      BY <2>5, <3>1, DecideQuotationType DEF RejectQuotation
    <3>3. demand' \in Demand
      <4>1. demand' = [demand EXCEPT !.status = "rejected", !.approved = 0]
        BY <2>5 DEF RejectQuotation
      <4>2. "rejected" \in Statuses /\ 0 \in 0 .. MaxVersions
        BY DEF Statuses
      <4>3. demand \in Demand
        BY DEF TypeOK
      <4> QED
        BY <4>1, <4>2, <4>3, ApprovedType
    <3>4. messages' \subseteq Message
      <4>1. Enqueue("rejected", v, demand.content, 0)
        BY <2>5 DEF RejectQuotation
      <4>2. v \in Nat /\ "rejected" \in MessageKinds /\ 0 \in 0 .. MaxTokens
        BY DEF MessageKinds
      <4>3. demand.content \in Contents
        BY DEF TypeOK, Demand
      <4> QED
        BY <4>1, <4>2, <4>3, EnqueueType
    <3> QED
      BY <2>5, <3>2, <3>3, <3>4, RevokeTokensEffect DEF RejectQuotation, TypeOK
  <2>6. ASSUME NEW c \in Clients, portal' = [portal EXCEPT ![c] = Idle]
        PROVE  portal' \in [Clients -> Request]
    BY <2>2, <2>6
  <2> QED
    BY <1>3, <2>1, <2>2, <2>3, <2>4, <2>5, <2>6
       DEF Quoting, EnterQuotation, PortalSubmitQuotation
<1>4. CASE Billing
  <2>1. ASSUME NEW b \in [Lines -> Qty], NEW k \in Charges, NEW q \in Requests,
               NEW t \in 0 .. MaxTokens, SubmitBill(b, k, q, t),
               portal' \in [Clients -> Request]
        PROVE  TypeOK'
    BY <2>1, SubmitBillType DEF SubmitBill, TypeOK
  <2>2. portal \in [Clients -> Request] /\ Idle \in Request
    BY DEF TypeOK, Idle, Request
  <2>3. \A c \in Clients : portal[c].link \in 0 .. MaxTokens
    BY <2>2 DEF Request
  <2>4. ASSUME NEW c \in Clients, portal' = [portal EXCEPT ![c] = Idle]
        PROVE  portal' \in [Clients -> Request]
    BY <2>2, <2>4
  <2>5. ASSUME NEW b \in 1 .. MaxBills, NEW accept \in BOOLEAN, ApproveBill(b, accept)
        PROVE  TypeOK'
    <3>1. bills' \in Seq(Bill) /\ Len(bills') = Len(bills)
      BY <2>5, DecideBillType DEF ApproveBill, BillReviewable
    <3>2. demand' \in Demand
      <4>1. demand' = [demand EXCEPT !.status = "awaiting_delivery", !.approvedBill = b]
        BY <2>5 DEF ApproveBill
      <4>2. "awaiting_delivery" \in Statuses /\ b \in 0 .. MaxBills
        BY DEF Statuses
      <4>3. demand \in Demand
        BY DEF TypeOK
      <4> QED
        BY <4>1, <4>2, <4>3, ApprovedBillType
    <3>3. messages' \subseteq Message
      <4>1. Enqueue("bill_approved", b, demand.content, 0)
        BY <2>5 DEF ApproveBill
      <4>2. b \in Nat /\ "bill_approved" \in MessageKinds /\ 0 \in 0 .. MaxTokens
        BY DEF MessageKinds
      <4>3. demand.content \in Contents
        BY DEF TypeOK, Demand
      <4> QED
        BY <4>1, <4>2, <4>3, EnqueueType
    <3> QED
      BY <2>5, <3>1, <3>2, <3>3 DEF ApproveBill, TypeOK
  <2>6. ASSUME NEW b \in 1 .. MaxBills, RejectBill(b) PROVE TypeOK'
    <3>1. bills' \in Seq(Bill) /\ Len(bills') = Len(bills)
      BY <2>6, DecideBillType DEF RejectBill, BillReviewable
    <3>2. demand' \in Demand
      BY <2>6, StatusType DEF RejectBill, TypeOK, Statuses
    <3>3. messages' \subseteq Message
      <4>1. Enqueue("bill_rejected", b, demand.content, Len(tokens'))
        BY <2>6 DEF RejectBill
      <4>2. b \in Nat /\ "bill_rejected" \in MessageKinds
        BY DEF MessageKinds
      <4>3. IssueToken
        BY <2>6 DEF RejectBill
      <4>4. Len(tokens') \in 0 .. MaxTokens
        BY <4>3, IssueTokenEffect
      <4>5. demand.content \in Contents
        BY DEF TypeOK, Demand
      <4> QED
        BY <4>1, <4>2, <4>4, <4>5, EnqueueType
    <3> QED
      BY <2>6, <3>1, <3>2, <3>3, IssueTokenEffect DEF RejectBill, TypeOK
  <2> QED
    BY <1>4, <2>1, <2>2, <2>3, <2>4, <2>5, <2>6
       DEF Billing, EnterBill, PortalSubmitBill
<1>5. CASE Receiving
  <2>1. ASSUME NEW st \in Delivery \ {"not_booked"}, SaveDelivery(st) PROVE TypeOK'
    <3>1. demand' \in Demand
      BY <2>1, DeliveredType DEF SaveDelivery, TypeOK, Statuses
    <3> QED
      BY <2>1, <3>1 DEF SaveDelivery, TypeOK
  <2>2. ASSUME NEW got \in [Lines -> Qty], NEW bad \in [Lines -> Qty],
               NEW f \in BOOLEAN, NEW q \in Requests, RecordReceipt(got, bad, f, q)
        PROVE  TypeOK'
    <3>1. goods' \in [Lines -> Goods]
      BY <2>2, GoodsType DEF RecordReceipt
    <3>2. receipts' \in Seq(Receipt) /\ Len(receipts') <= MaxReceipts
      <4>1. [req |-> q, final |-> f] \in Receipt
        BY DEF Receipt
      <4> QED
        BY <2>2, <4>1, AppendProperties DEF RecordReceipt, TypeOK
    <3>3. demand' \in Demand
      BY <2>2, StatusType, DeliveredType DEF RecordReceipt, TypeOK, Statuses, Delivery
    <3>4. tokens' \in Seq(TokenStates) /\ Len(tokens') <= MaxTokens
      BY <2>2, RevokeTokensEffect DEF RecordReceipt, TypeOK
    <3> QED
      BY <2>2, <3>1, <3>2, <3>3, <3>4 DEF RecordReceipt, TypeOK
  <2>3. ASSUME NEW l \in Lines, NEW d \in -MaxAdjust .. MaxAdjust, AdjustStock(l, d)
        PROVE  TypeOK'
    <3>1. goods \in [Lines -> Goods]
      BY DEF TypeOK
    <3>2. goods[l].adjusted + d \in Int /\ goods[l].stock + d \in Nat
      BY <2>3, <3>1 DEF AdjustStock, EnoughStock, Goods
    <3>3. [goods[l] EXCEPT !.adjusted = @ + d, !.stock = @ + d] \in Goods
      BY <3>1, <3>2 DEF Goods
    <3>4. goods' = [goods EXCEPT ![l] = [goods[l] EXCEPT !.adjusted = @ + d, !.stock = @ + d]]
      BY <2>3 DEF AdjustStock
    <3>5. goods' \in [Lines -> Goods]
      BY <3>1, <3>3, <3>4
    <3> QED
      BY <2>3, <3>5 DEF AdjustStock, TypeOK
  <2> QED
    BY <1>5, <2>1, <2>2, <2>3 DEF Receiving
<1>6. CASE UNCHANGED vars
  BY <1>6 DEF vars, TypeOK
<1> QED
  BY <1>1, <1>2, <1>3, <1>4, <1>5, <1>6 DEF Next

\* Every reachable state is well typed: in particular no stock balance is ever
\* negative, and no counter of the rows runs past its bound.
THEOREM TypeCorrect == Spec => []TypeOK
<1> QED
  BY TypeInit, TypeStep, PTL DEF Spec

-----------------------------------------------------------------------------
(* Links: what a step does to the tokens, and the stage it leads to.        *)

Closed == {"cancelled", "rejected", "received"}

LinkStep ==
    \/ UNCHANGED tokens /\ (demand'.status \in Closed => demand.status \in Closed)
    \/ \E t \in DOMAIN tokens : Expire(t)
    \/ IssueToken /\ demand'.status \notin Closed
    \/ RevokeTokens

LEMMA LinkSteps ==
    ASSUME TypeOK, Next
    PROVE  LinkStep
<1>1. demand \in Demand
  BY DEF TypeOK
<1> USE <1>1
<1>2. CASE Drafting
  <2>1. ASSUME NEW c, ResendLink(c) PROVE LinkStep
    BY <2>1 DEF ResendLink, LinkStep, Closed
  <2>2. ASSUME NEW c, Cancel(c) PROVE LinkStep
    BY <2>2 DEF Cancel, LinkStep
  <2>3. ASSUME NEW r, NEW c, Edit(r, c) PROVE LinkStep
    BY <2>3 DEF Edit, LinkStep, Closed, Demand
  <2>4. ASSUME NEW s \in Staff, StaffRead(s) \/ StaffEnd(s) PROVE LinkStep
    BY <2>4 DEF StaffRead, StaffEnd, LinkStep
  <2>5. ASSUME NEW s \in Staff, Verify(s) PROVE LinkStep
    BY <2>5 DEF Verify, LinkStep, Closed, Demand
  <2>6. ASSUME NEW s \in Staff, Send(s) PROVE LinkStep
    BY <2>6 DEF Send, LinkStep, Closed, Demand
  <2> QED
    BY <1>2, <2>1, <2>2, <2>3, <2>4, <2>5, <2>6
       DEF Drafting, ResendEarly, CancelEarly, ResendLate, CancelLate
<1>3. CASE Portal
  BY <1>3 DEF Portal, PortalResolve, PortalEnd, LinkStep
<1>4. CASE Quoting
  <2>1. ASSUME NEW a, NEW k, NEW q, SubmitQuotation(a, k, q) PROVE LinkStep
    BY <2>1 DEF SubmitQuotation, LinkStep, Closed, Demand
  <2>2. ASSUME NEW v, ApproveQuotation(v) PROVE LinkStep
    BY <2>2 DEF ApproveQuotation, LinkStep, Closed, Demand
  <2>3. ASSUME NEW v, RequestChanges(v) PROVE LinkStep
    BY <2>3 DEF RequestChanges, LinkStep, Closed, Demand
  <2>4. ASSUME NEW v, RejectQuotation(v) PROVE LinkStep
    BY <2>4 DEF RejectQuotation, LinkStep
  <2> QED
    BY <1>4, <2>1, <2>2, <2>3, <2>4 DEF Quoting, EnterQuotation, PortalSubmitQuotation
<1>5. CASE Billing
  <2>1. ASSUME NEW b, NEW k, NEW q, NEW t, SubmitBill(b, k, q, t) PROVE LinkStep
    BY <2>1 DEF SubmitBill, LinkStep, Closed, Demand
  <2>2. ASSUME NEW b, NEW accept, ApproveBill(b, accept) PROVE LinkStep
    BY <2>2 DEF ApproveBill, LinkStep, Closed, Demand
  <2>3. ASSUME NEW b, RejectBill(b) PROVE LinkStep
    BY <2>3 DEF RejectBill, LinkStep, Closed, Demand
  <2> QED
    BY <1>5, <2>1, <2>2, <2>3 DEF Billing, EnterBill, PortalSubmitBill
<1>6. CASE Receiving
  <2>1. ASSUME NEW st, SaveDelivery(st) PROVE LinkStep
    BY <2>1 DEF SaveDelivery, LinkStep, Closed, Demand
  <2>2. ASSUME NEW got, NEW bad, NEW f, NEW q, RecordReceipt(got, bad, f, q)
        PROVE  LinkStep
    BY <2>2 DEF RecordReceipt, LinkStep, Closed, Demand
  <2>3. ASSUME NEW l, NEW d, AdjustStock(l, d) PROVE LinkStep
    BY <2>3 DEF AdjustStock, LinkStep
  <2> QED
    BY <1>6, <2>1, <2>2, <2>3 DEF Receiving
<1> QED
  BY <1>2, <1>3, <1>4, <1>5, <1>6 DEF Next

LEMMA OneLinkStep == TypeOK /\ OneLinkInForce /\ [Next]_vars => OneLinkInForce'
<1> SUFFICES ASSUME TypeOK, OneLinkInForce, [Next]_vars PROVE OneLinkInForce'
  OBVIOUS
<1>1. tokens \in Seq(TokenStates) /\ Len(tokens) \in Nat
  BY DEF TypeOK
<1>2. CASE UNCHANGED vars
  BY <1>2 DEF vars, OneLinkInForce
<1>3. CASE Next
  <2>1. CASE UNCHANGED tokens /\ (demand'.status \in Closed => demand.status \in Closed)
    BY <2>1 DEF OneLinkInForce, Closed
  <2>2. CASE \E t \in DOMAIN tokens : Expire(t)
    BY <2>2, <1>1 DEF OneLinkInForce, Expire
  <2>3. CASE IssueToken /\ demand'.status \notin Closed
    BY <2>3, <1>1, IssueTokenEffect DEF OneLinkInForce, Closed
  <2>4. CASE RevokeTokens
    BY <2>4, <1>1, RevokeTokensEffect DEF OneLinkInForce
  <2> QED
    BY <1>3, <2>1, <2>2, <2>3, <2>4, LinkSteps DEF LinkStep
<1> QED
  BY <1>2, <1>3

\* At most one link of a demand is unrevoked, it is the newest, and a
\* cancelled, rejected or received demand has none (purchase_issue_token,
\* purchase_revoke_tokens and every function that calls them).
THEOREM OneLinkCorrect == Spec => []OneLinkInForce
<1>1. Init => OneLinkInForce
  BY DEF Init, OneLinkInForce
<1> QED
  BY <1>1, TypeInit, TypeStep, OneLinkStep, PTL DEF Spec

-----------------------------------------------------------------------------
(* Drafting: the content that is sent is the content that was checked.      *)

\* A person's screen is never ahead of the demand, and a screen of the current
\* revision shows the current content: what makes the revision a valid guard.
ScreensBehind ==
    \A s \in Staff :
       /\ screen[s].revision <= demand.revision
       /\ screen[s].revision = demand.revision => screen[s].content = demand.content

VerifiedIsSendable == demand.status = "verified" => demand.content \in Sendable

ContentInv == ScreensBehind /\ VerifiedIsSendable /\ SentContentWasChecked

\* What a step does to content, revision and status.
ContentStep ==
    \/ /\ demand'.revision > demand.revision
       /\ demand'.status = "draft"
       /\ UNCHANGED screen
    \/ /\ demand'.revision = demand.revision
       /\ demand'.content = demand.content
       /\ \/ demand'.status \in {demand.status, "cancelled"}
          \/ demand.status \notin Editable \cup {"cancelled"}
          \/ /\ demand'.status = "verified"
             /\ \E s \in Staff : /\ screen[s].revision = demand.revision
                                 /\ screen[s].content \in Sendable
          \/ demand.status = "verified"
       /\ \A s \in Staff :
            screen'[s] \in {screen[s], NothingRead,
                           [revision |-> demand.revision, content |-> demand.content]}

LEMMA ContentSteps ==
    ASSUME TypeOK, Next
    PROVE  ContentStep
<1>1. demand \in Demand /\ screen \in [Staff -> {NothingRead} \cup Screen]
  BY DEF TypeOK
<1>2. demand.revision \in Nat
  BY <1>1 DEF Demand
<1>3. ASSUME \/ UNCHANGED screen
             \/ \E s \in Staff : screen' = [screen EXCEPT ![s] = NothingRead]
      PROVE  \A s \in Staff :
               screen'[s] \in {screen[s], NothingRead,
                              [revision |-> demand.revision, content |-> demand.content]}
  BY <1>1, <1>3
<1>4. CASE Drafting
  <2>1. ASSUME NEW c, ResendLink(c), UNCHANGED screen \/ \E s \in Staff : Done(s)
        PROVE  ContentStep
    BY <2>1, <1>1, <1>3 DEF ResendLink, Done, ContentStep
  <2>2. ASSUME NEW c, Cancel(c), UNCHANGED screen \/ \E s \in Staff : Done(s)
        PROVE  ContentStep
    BY <2>2, <1>1, <1>3 DEF Cancel, Done, ContentStep, Demand
  <2>3. ASSUME NEW r, NEW c, Edit(r, c) PROVE ContentStep
    BY <2>3, <1>1, <1>2 DEF Edit, ContentStep, Demand
  <2>4. ASSUME NEW s \in Staff, StaffRead(s) PROVE ContentStep
    BY <2>4, <1>1 DEF StaffRead, ContentStep
  <2>5. ASSUME NEW s \in Staff, StaffEnd(s) PROVE ContentStep
    BY <2>5, <1>1 DEF StaffEnd, ContentStep
  <2>6. ASSUME NEW s \in Staff, Verify(s) PROVE ContentStep
    <3>1. /\ demand'.revision = demand.revision
          /\ demand'.content = demand.content
          /\ demand'.status = "verified"
      BY <2>6, <1>1 DEF Verify, Demand
    <3>2. screen[s].revision = demand.revision /\ screen[s].content \in Sendable
      BY <2>6 DEF Verify, MarkAllowed
    <3> QED
      BY <2>6, <1>1, <1>3, <3>1, <3>2 DEF Verify, Done, ContentStep
  <2>7. ASSUME NEW s \in Staff, Send(s) PROVE ContentStep
    <3>1. /\ demand'.revision = demand.revision
          /\ demand'.content = demand.content
      BY <2>7, <1>1 DEF Send, Demand
    <3>2. demand.status = "verified"
      BY <2>7 DEF Send, SendAllowed
    <3> QED
      BY <2>7, <1>1, <1>3, <3>1, <3>2 DEF Send, Done, ContentStep
  <2> QED
    BY <1>4, <2>1, <2>2, <2>3, <2>4, <2>5, <2>6, <2>7
       DEF Drafting, ResendEarly, CancelEarly, ResendLate, CancelLate, Sent
<1>5. CASE Portal
  BY <1>5, <1>1 DEF Portal, Expire, PortalResolve, PortalEnd, ContentStep
<1>6. CASE Quoting
  <2>1. ASSUME NEW a, NEW k, NEW q, SubmitQuotation(a, k, q) PROVE ContentStep
    BY <2>1, <1>1 DEF SubmitQuotation, ContentStep, Demand
  <2>2. ASSUME NEW v, ApproveQuotation(v) PROVE ContentStep
    BY <2>2, <1>1 DEF ApproveQuotation, Reviewable, ContentStep, Demand
  <2>3. ASSUME NEW v, RequestChanges(v) PROVE ContentStep
    BY <2>3, <1>1 DEF RequestChanges, Reviewable, ContentStep, Demand
  <2>4. ASSUME NEW v, RejectQuotation(v) PROVE ContentStep
    BY <2>4, <1>1 DEF RejectQuotation, Reviewable, ContentStep, Demand
  <2> QED
    BY <1>6, <2>1, <2>2, <2>3, <2>4 DEF Quoting, EnterQuotation, PortalSubmitQuotation
<1>7. CASE Billing
  <2>1. ASSUME NEW b, NEW k, NEW q, NEW t, SubmitBill(b, k, q, t) PROVE ContentStep
    BY <2>1, <1>1 DEF SubmitBill, ContentStep, Demand
  <2>2. ASSUME NEW b, NEW accept, ApproveBill(b, accept) PROVE ContentStep
    BY <2>2, <1>1 DEF ApproveBill, BillReviewable, ContentStep, Demand
  <2>3. ASSUME NEW b, RejectBill(b) PROVE ContentStep
    BY <2>3, <1>1 DEF RejectBill, BillReviewable, ContentStep, Demand
  <2> QED
    BY <1>7, <2>1, <2>2, <2>3 DEF Billing, EnterBill, PortalSubmitBill
<1>8. CASE Receiving
  <2>1. ASSUME NEW st, SaveDelivery(st) PROVE ContentStep
    BY <2>1, <1>1 DEF SaveDelivery, ContentStep, Demand
  <2>2. ASSUME NEW got, NEW bad, NEW f, NEW q, RecordReceipt(got, bad, f, q)
        PROVE  ContentStep
    BY <2>2, <1>1 DEF RecordReceipt, ContentStep, Demand
  <2>3. ASSUME NEW l, NEW d, AdjustStock(l, d) PROVE ContentStep
    BY <2>3, <1>1 DEF AdjustStock, ContentStep
  <2> QED
    BY <1>8, <2>1, <2>2, <2>3 DEF Receiving
<1> QED
  BY <1>4, <1>5, <1>6, <1>7, <1>8 DEF Next

LEMMA ContentInvStep == TypeOK /\ ContentInv /\ [Next]_vars => ContentInv'
<1> SUFFICES ASSUME TypeOK, ContentInv, [Next]_vars PROVE ContentInv'
  OBVIOUS
<1> USE DEF ContentInv, ScreensBehind, VerifiedIsSendable, SentContentWasChecked
<1>1. /\ demand.revision \in 1 .. MaxRevision
      /\ \A s \in Staff : screen[s].revision \in Nat
  <2>1. demand.revision \in 1 .. MaxRevision
    BY DEF TypeOK, Demand
  <2>2. ASSUME NEW s \in Staff PROVE screen[s].revision \in Nat
    BY BoundsAssumption DEF TypeOK, Screen, NothingRead
  <2> QED
    BY <2>1, <2>2
<1>2. CASE UNCHANGED vars
  BY <1>2 DEF vars
<1>3. CASE Next
  <2>0. demand'.revision \in Nat
    <3>1. TypeOK'
      BY TypeStep, Zenon
    <3>2. demand' \in Demand
      BY <3>1 DEF TypeOK
    <3> QED
      BY <3>2, BoundsAssumption DEF Demand
  <2>1. ContentStep
    BY <1>3, ContentSteps
  <2>2. CASE /\ demand'.revision > demand.revision
             /\ demand'.status = "draft"
             /\ UNCHANGED screen
    <3>1. ASSUME NEW s \in Staff
          PROVE  screen'[s].revision < demand'.revision
      <4>1. screen'[s].revision = screen[s].revision
        BY <2>2
      <4>2. demand'.revision \in Nat
        BY <2>0
      <4>3. screen[s].revision <= demand.revision /\ screen[s].revision \in Nat
        BY <1>1
      <4>4. demand'.revision > demand.revision /\ demand.revision \in Nat
        BY <1>1, <2>2
      <4> QED
        BY <4>1, <4>2, <4>3, <4>4
    <3>2. demand'.revision \in Nat /\ \A s \in Staff : screen'[s].revision \in Nat
      BY <1>1, <2>0, <2>2
    <3> QED
      BY <2>2, <3>1, <3>2
  <2>3. CASE /\ demand'.revision = demand.revision
             /\ demand'.content = demand.content
             /\ \A s \in Staff :
                  screen'[s] \in {screen[s], NothingRead,
                                 [revision |-> demand.revision, content |-> demand.content]}
    <3>1. ScreensBehind'
      BY <1>1, <2>3 DEF NothingRead
    <3> QED
      BY <2>1, <2>3, <3>1, <1>1 DEF ContentStep
  <2> QED
    BY <2>1, <2>2, <2>3 DEF ContentStep
<1> QED
  BY <1>2, <1>3

\* A demand that was sent has a content that passed the checks of
\* verifyDemand, although the checks run outside the transaction that marks
\* the demand verified and an edit may land between the two.
THEOREM SentContentCorrect == Spec => []SentContentWasChecked
<1>1. Init => ContentInv
  BY BoundsAssumption DEF Init, ContentInv, ScreensBehind, VerifiedIsSendable,
     SentContentWasChecked, NothingRead
<1>2. ContentInv => SentContentWasChecked
  BY DEF ContentInv
<1> QED
  BY <1>1, <1>2, TypeInit, TypeStep, ContentInvStep, PTL DEF Spec

-----------------------------------------------------------------------------
(* The deal: which version is approved, and which bill follows it.          *)

Late == Receivable \cup {"received"}
Early == {"draft", "verified", "awaiting_supplier"}

\* The newest version is the one on show, and one is approved from its approval to the
\* end of the demand or to the next version.
VersionStands ==
    /\ demand.current = Len(quotations)
    /\ demand.approved # 0 => demand.status \in Deliverable \cup {"cancelled"}
    /\ ApprovalNamesCurrentVersion

\* A bill is open while its demand says so, and is the only one; an approved bill is the
\* demand's, and a demand that has one is past every negotiation.
BillsStand ==
    /\ \A b \in DOMAIN bills :
         /\ bills[b].status = "submitted" => demand.status \in {"bill_submitted", "cancelled"}
         /\ bills[b].status = "approved" => b = demand.approvedBill
    /\ \A b, c \in DOMAIN bills :
         bills[b].status = "submitted" /\ bills[c].status = "submitted" => b = c
    /\ demand.approvedBill # 0 => demand.status \in Late
    /\ BillFollowsApproval

\* What a bill is marked with is how it differs from the version it was made out against.
MadeAsQuoted(b) ==
    /\ bills[b].billed = quotations[demand.approved].avail
    /\ bills[b].charge = quotations[demand.approved].charge

MarksAreTrue ==
    \A b \in DOMAIN bills :
       /\ bills[b].status # "rejected" /\ demand.status # "cancelled" /\ ~bills[b].differs
            => MadeAsQuoted(b)
       /\ bills[b].status = "approved" /\ ~bills[b].accepted => ~bills[b].differs

DealInv == VersionStands /\ BillsStand /\ MarksAreTrue

\* A step that touches neither versions nor bills, and moves the demand within its stage
\* or cancels it while it may.
Onward ==
    /\ UNCHANGED <<quotations, bills>>
    /\ demand'.current = demand.current
    /\ demand'.approved = demand.approved
    /\ demand'.approvedBill = demand.approvedBill
    /\ \/ demand'.status = demand.status
       \/ demand.status \in Early /\ demand'.status \in Early
       \/ demand.status \in Cancellable /\ demand'.status = "cancelled"
       \/ demand.status \in Receivable /\ demand'.status \in {"partially_received", "received"}

DealStep ==
    \/ Onward
    \/ \E a \in [Lines -> Qty], k \in Charges, q \in Requests : SubmitQuotation(a, k, q)
    \/ \E v \in 1 .. MaxVersions : ApproveQuotation(v) \/ RequestChanges(v) \/ RejectQuotation(v)
    \/ \E b \in [Lines -> Qty], k \in Charges, q \in Requests, t \in 0 .. MaxTokens :
         SubmitBill(b, k, q, t)
    \/ \E b \in 1 .. MaxBills, accept \in BOOLEAN : ApproveBill(b, accept)
    \/ \E b \in 1 .. MaxBills : RejectBill(b)

LEMMA DealSteps ==
    ASSUME TypeOK, Next
    PROVE  DealStep
<1>1. demand \in Demand /\ portal \in [Clients -> Request]
  BY DEF TypeOK
<1>2. CASE Drafting
  <2>1. ASSUME NEW c, ResendLink(c) PROVE Onward
    BY <2>1 DEF ResendLink, Onward
  <2>2. ASSUME NEW c, Cancel(c) PROVE Onward
    BY <2>2, <1>1 DEF Cancel, Onward, Demand
  <2>3. ASSUME NEW r, NEW c, Edit(r, c) PROVE Onward
    BY <2>3, <1>1 DEF Edit, Onward, Early, Demand
  <2>4. ASSUME NEW s \in Staff, StaffRead(s) \/ StaffEnd(s) PROVE Onward
    BY <2>4 DEF StaffRead, StaffEnd, Onward
  <2>5. ASSUME NEW s \in Staff, Verify(s) PROVE Onward
    BY <2>5, <1>1 DEF Verify, MarkAllowed, Onward, Early, Demand
  <2>6. ASSUME NEW s \in Staff, Send(s) PROVE Onward
    BY <2>6, <1>1 DEF Send, SendAllowed, Onward, Early, Demand
  <2> QED
    BY <1>2, <2>1, <2>2, <2>3, <2>4, <2>5, <2>6
       DEF Drafting, ResendEarly, CancelEarly, ResendLate, CancelLate, DealStep
<1>3. CASE Portal
  <2>1. Onward
    BY <1>3 DEF Portal, Expire, PortalResolve, PortalEnd, Onward
  <2> QED
    BY <2>1 DEF DealStep
<1>4. CASE Quoting
  BY <1>4 DEF Quoting, EnterQuotation, PortalSubmitQuotation, DealStep
<1>5. CASE Billing
  <2>1. 0 \in 0 .. MaxTokens /\ \A c \in Clients : portal[c].link \in 0 .. MaxTokens
    BY <1>1, BoundsAssumption DEF Request
  <2> QED
    BY <1>5, <2>1 DEF Billing, EnterBill, PortalSubmitBill, DealStep
<1>6. CASE Receiving
  <2>1. ASSUME NEW st, SaveDelivery(st) PROVE Onward
    BY <2>1, <1>1 DEF SaveDelivery, Onward, Demand
  <2>2. ASSUME NEW got, NEW bad, NEW f, NEW q, RecordReceipt(got, bad, f, q)
        PROVE  Onward
    BY <2>2, <1>1 DEF RecordReceipt, Onward, Demand
  <2>3. ASSUME NEW l, NEW d, AdjustStock(l, d) PROVE Onward
    BY <2>3 DEF AdjustStock, Onward
  <2> QED
    BY <1>6, <2>1, <2>2, <2>3 DEF Receiving, DealStep
<1> QED
  BY <1>2, <1>3, <1>4, <1>5, <1>6 DEF Next

\* What the deal's own steps make of versions and bills.
LEMMA NewVersion ==
    ASSUME TypeOK, NEW a \in [Lines -> Qty], NEW k \in Charges, NEW q \in Requests,
           SubmitQuotation(a, k, q)
    PROVE  /\ DOMAIN quotations' = 1 .. Len(quotations) + 1
           /\ Len(quotations') = Len(quotations) + 1
           /\ \A v \in DOMAIN quotations :
                /\ quotations'[v] = Superseded(quotations[v])
                /\ quotations'[v].status # "approved"
                /\ quotations'[v].req = quotations[v].req
           /\ quotations'[Len(quotations) + 1].status = "submitted"
           /\ quotations'[Len(quotations) + 1].req = q
<1> DEFINE old == [i \in DOMAIN quotations |-> Superseded(quotations[i])]
           new == [avail |-> a, charge |-> k, req |-> q, status |-> "submitted"]
<1>1. /\ quotations \in Seq(Quotation) /\ Len(quotations) \in Nat
      /\ DOMAIN quotations = 1 .. Len(quotations)
  BY DEF TypeOK
<1>2. \A i \in 1 .. Len(quotations) : /\ quotations[i] \in Quotation
                                      /\ Superseded(quotations[i]) \in Quotation
  BY <1>1, SupersededType, ElementOfSeq
<1>3. old \in Seq(Quotation) /\ Len(old) = Len(quotations)
  BY <1>1, <1>2
<1>4. new \in Quotation
  BY DEF Quotation
<1>5. quotations' = Append(old, new)
  BY DEF SubmitQuotation
<1>6. /\ Len(quotations') = Len(quotations) + 1
      /\ DOMAIN quotations' = 1 .. Len(quotations) + 1
      /\ quotations'[Len(quotations) + 1] = new
      /\ \A v \in DOMAIN quotations : quotations'[v] = Superseded(quotations[v])
  BY <1>1, <1>3, <1>4, <1>5, AppendProperties
<1>7. \A x \in Quotation : Superseded(x).status # "approved" /\ Superseded(x).req = x.req
  BY DEF Superseded, Quotation
<1> QED
  BY <1>1, <1>2, <1>6, <1>7

LEMMA DecidedVersion ==
    ASSUME TypeOK, NEW v \in DOMAIN quotations, NEW st,
           quotations' = [quotations EXCEPT ![v].status = st]
    PROVE  /\ DOMAIN quotations' = DOMAIN quotations
           /\ Len(quotations') = Len(quotations)
           /\ quotations'[v].status = st
           /\ \A w \in DOMAIN quotations :
                /\ w # v => quotations'[w] = quotations[w]
                /\ quotations'[w].avail = quotations[w].avail
                /\ quotations'[w].charge = quotations[w].charge
                /\ quotations'[w].req = quotations[w].req
<1>1. /\ quotations \in Seq(Quotation) /\ DOMAIN quotations = 1 .. Len(quotations)
      /\ Len(quotations) \in Nat
  BY DEF TypeOK
<1>2. quotations[v] \in Quotation
  BY <1>1, ElementOfSeq
<1>3. DOMAIN quotations' = DOMAIN quotations /\ Len(quotations') = Len(quotations)
  BY <1>1
<1> QED
  BY <1>1, <1>2, <1>3 DEF Quotation

LEMMA NewBill ==
    ASSUME TypeOK, NEW b \in [Lines -> Qty], NEW k \in Charges, NEW q \in Requests,
           NEW t \in 0 .. MaxTokens, SubmitBill(b, k, q, t)
    PROVE  LET n == Len(bills) + 1 IN
           /\ DOMAIN bills' = 1 .. n
           /\ \A i \in DOMAIN bills : i # n /\ bills'[i] = bills[i]
           /\ bills'[n].status = "submitted" /\ bills'[n].version = demand.approved
           /\ bills'[n].billed = b /\ bills'[n].charge = k /\ bills'[n].req = q
           /\ bills'[n].differs = DiffersFrom(b, k, quotations[demand.approved])
<1> DEFINE new == [billed |-> b, charge |-> k, req |-> q,
                   version |-> demand.approved, link |-> t,
                   status |-> "submitted",
                   differs |-> DiffersFrom(b, k, quotations[demand.approved]),
                   accepted |-> FALSE]
<1>1. bills \in Seq(Bill) /\ Len(bills) \in Nat /\ DOMAIN bills = 1 .. Len(bills)
  BY DEF TypeOK
<1>2. demand.approved \in 1 .. MaxVersions
  <2>1. demand.approved \in 0 .. MaxVersions
    BY DEF TypeOK, Demand
  <2>2. demand.approved # 0
    BY DEF SubmitBill
  <2> QED
    BY BoundsAssumption, <2>1, <2>2
<1>3. new \in Bill
  BY <1>2 DEF Bill, DiffersFrom
<1>4. bills' = Append(bills, new)
  BY DEF SubmitBill
<1>5. /\ DOMAIN bills' = 1 .. Len(bills) + 1 /\ bills'[Len(bills) + 1] = new
      /\ \A i \in DOMAIN bills : i # Len(bills) + 1 /\ bills'[i] = bills[i]
  BY <1>1, <1>3, <1>4, AppendProperties
<1> QED
  BY <1>5

LEMMA DecidedBill ==
    ASSUME TypeOK, NEW b \in DOMAIN bills, NEW st,
           \/ bills' = [bills EXCEPT ![b].status = st]
           \/ bills' = [bills EXCEPT ![b].status = st, ![b].accepted = bills[b].differs]
    PROVE  /\ DOMAIN bills' = DOMAIN bills
           /\ bills'[b].status = st
           /\ \A i \in DOMAIN bills :
                /\ i # b => bills'[i] = bills[i]
                /\ bills'[i].billed = bills[i].billed /\ bills'[i].charge = bills[i].charge
                /\ bills'[i].version = bills[i].version /\ bills'[i].req = bills[i].req
                /\ bills'[i].differs = bills[i].differs
<1>1. bills \in Seq(Bill) /\ DOMAIN bills = 1 .. Len(bills)
  BY DEF TypeOK
<1>2. bills[b] \in Bill
  BY <1>1, ElementOfSeq
<1>3. CASE bills' = [bills EXCEPT ![b].status = st]
  BY <1>1, <1>2, <1>3 DEF Bill
<1>4. CASE bills' = [bills EXCEPT ![b].status = st, ![b].accepted = bills[b].differs]
  BY <1>1, <1>2, <1>4 DEF Bill
<1> QED
  BY <1>3, <1>4

\* The rows of a demand, as their type says.
LEMMA Rows ==
    ASSUME TypeOK
    PROVE  /\ demand \in Demand
           /\ quotations \in Seq(Quotation) /\ Len(quotations) \in Nat
           /\ DOMAIN quotations = 1 .. Len(quotations)
           /\ \A v \in DOMAIN quotations : quotations[v] \in Quotation
           /\ bills \in Seq(Bill) /\ Len(bills) \in Nat
           /\ DOMAIN bills = 1 .. Len(bills)
           /\ \A b \in DOMAIN bills :
                bills[b] \in Bill /\ bills[b].status \in {"submitted", "approved", "rejected"}
<1>1. quotations \in Seq(Quotation) /\ bills \in Seq(Bill) /\ demand \in Demand
  BY DEF TypeOK
<1>2. \A b \in 1 .. Len(bills) : bills[b] \in Bill
  BY <1>1, ElementOfSeq
<1>3. \A x \in Bill : x.status \in {"submitted", "approved", "rejected"}
  BY DEF Bill
<1> QED
  BY <1>1, <1>2, <1>3, ElementOfSeq

\* Before a bill is submitted and after one is turned down, every bill is a rejected one.
LEMMA NoBillStands ==
    ASSUME TypeOK, DealInv,
           demand.status \notin Late \cup {"bill_submitted", "cancelled"}
    PROVE  \A b \in DOMAIN bills : bills[b].status = "rejected"
  BY Rows DEF DealInv, BillsStand, Late

LEMMA OnwardDeal ==
    ASSUME TypeOK, DealInv, Onward
    PROVE  DealInv'
<1>1. demand.status = "cancelled" => demand'.status = "cancelled"
  BY DEF Onward, Early
<1>2. demand'.status \in Deliverable => demand.status \in Deliverable
  BY DEF Onward, Early
<1>3. demand'.status \in Late <=> demand.status \in Late
  BY DEF Onward, Early, Late
<1>4. VersionStands'
  BY <1>2 DEF Onward, DealInv, VersionStands, ApprovalNamesCurrentVersion, Early
<1>5. BillsStand'
  <2>1. ASSUME NEW b \in DOMAIN bills, bills[b].status = "submitted"
        PROVE  demand'.status \in {"bill_submitted", "cancelled"}
    BY <2>1 DEF Onward, DealInv, BillsStand, Early
  <2>2. demand'.status = "bill_submitted" => demand.status = "bill_submitted"
    BY DEF Onward, Early
  <2>3. BillFollowsApproval'
    BY <1>1, <1>3, <2>2 DEF Onward, DealInv, BillsStand, BillFollowsApproval, Late
  <2> QED
    BY <1>3, <2>1, <2>3 DEF Onward, DealInv, BillsStand
<1>6. MarksAreTrue'
  BY <1>1 DEF Onward, DealInv, MarksAreTrue, MadeAsQuoted
<1> QED
  BY <1>4, <1>5, <1>6 DEF DealInv

LEMMA SubmitQuotationDeal ==
    ASSUME TypeOK, DealInv, NEW a \in [Lines -> Qty], NEW k \in Charges, NEW q \in Requests,
           SubmitQuotation(a, k, q)
    PROVE  DealInv'
<1>1. \A b \in DOMAIN bills : bills[b].status = "rejected"
  BY NoBillStands DEF SubmitQuotation, Late
<1>2. /\ demand'.status = "quotation_received" /\ demand'.approved = 0
      /\ demand'.current = Len(quotations) + 1
      /\ demand'.approvedBill = demand.approvedBill
      /\ bills' = bills
  BY Rows DEF SubmitQuotation, Demand
<1>3. demand.approvedBill = 0
  BY DEF SubmitQuotation, DealInv, BillsStand, Late
<1>4. VersionStands'
  <2>1. \A v \in DOMAIN quotations' : quotations'[v].status # "approved" /\ v # 0
    BY NewVersion, Rows
  <2> QED
    BY <1>2, <2>1, NewVersion DEF VersionStands, ApprovalNamesCurrentVersion
<1>5. BillsStand'
  BY <1>1, <1>2, <1>3 DEF BillsStand, BillFollowsApproval, Late
<1>6. MarksAreTrue'
  BY <1>1, <1>2 DEF MarksAreTrue
<1> QED
  BY <1>4, <1>5, <1>6 DEF DealInv

\* The three decisions about a version: what they have in common.
LEMMA DecisionDeal ==
    ASSUME TypeOK, DealInv, NEW v \in 1 .. MaxVersions, Reviewable(v),
           NEW st, NEW new, NEW approved,
           \/ st = "approved" /\ approved = v /\ new = "awaiting_supplier_bill"
           \/ st # "approved" /\ approved = 0 /\ new \in {"changes_requested", "rejected"},
           quotations' = [quotations EXCEPT ![v].status = st],
           demand'.status = new, demand'.approved = approved,
           demand'.current = demand.current, demand'.approvedBill = demand.approvedBill,
           bills' = bills
    PROVE  DealInv'
<1>1. demand.status = "quotation_received" /\ v \in DOMAIN quotations /\ v = demand.current
  BY DEF Reviewable
<1>2. demand.approved = 0 /\ demand.approvedBill = 0
  BY <1>1 DEF DealInv, VersionStands, BillsStand, Late
<1>3. \A b \in DOMAIN bills : bills[b].status = "rejected"
  BY <1>1, NoBillStands DEF Late
<1>4. VersionStands'
  <2>1. Len(quotations') = Len(quotations) /\ DOMAIN quotations' = DOMAIN quotations
    BY <1>1, DecidedVersion
  <2>2. \A w \in DOMAIN quotations : quotations[w].status # "approved"
    BY <1>2, Rows DEF DealInv, VersionStands, ApprovalNamesCurrentVersion
  <2>3. \A w \in DOMAIN quotations' : quotations'[w].status = "approved" <=> w = approved
    BY <1>1, <2>1, <2>2, DecidedVersion, Rows
  <2> QED
    BY <1>1, <2>1, <2>3 DEF DealInv, VersionStands, ApprovalNamesCurrentVersion
<1>5. BillsStand'
  BY <1>2, <1>3 DEF BillsStand, BillFollowsApproval, Late
<1>6. MarksAreTrue'
  BY <1>3 DEF MarksAreTrue
<1> QED
  BY <1>4, <1>5, <1>6 DEF DealInv

LEMMA SubmitBillDeal ==
    ASSUME TypeOK, DealInv, NEW b \in [Lines -> Qty], NEW k \in Charges, NEW q \in Requests,
           NEW t \in 0 .. MaxTokens, SubmitBill(b, k, q, t)
    PROVE  DealInv'
<1> DEFINE n == Len(bills) + 1
<1>1. \A i \in DOMAIN bills : bills[i].status = "rejected"
  BY NoBillStands DEF SubmitBill, Late
<1>2. /\ demand'.status = "bill_submitted" /\ demand'.approved = demand.approved
      /\ demand'.current = demand.current
      /\ demand'.approvedBill = demand.approvedBill
      /\ quotations' = quotations
  BY Rows DEF SubmitBill, Demand
<1>3. demand.approvedBill = 0
  BY DEF SubmitBill, DealInv, BillsStand, Late
<1>4. VersionStands'
  BY <1>2 DEF SubmitBill, DealInv, VersionStands, ApprovalNamesCurrentVersion
<1>5. \A i \in DOMAIN bills' : i # n => i \in DOMAIN bills /\ bills'[i].status = "rejected"
  BY <1>1, NewBill, Rows
<1>6. n \in DOMAIN bills' /\ bills'[n].status = "submitted" /\ bills'[n].version = demand.approved
  BY NewBill, Rows
<1>7. BillsStand'
  <2>1. BillFollowsApproval'
    BY <1>2, <1>5, <1>6 DEF BillFollowsApproval
  <2> QED
    BY <1>2, <1>3, <1>5, <1>6, <2>1 DEF BillsStand
<1>8. MarksAreTrue'
  <2>1. ~bills'[n].differs => /\ bills'[n].billed = quotations[demand.approved].avail
                              /\ bills'[n].charge = quotations[demand.approved].charge
    BY NewBill DEF DiffersFrom
  <2> QED
    BY <1>2, <1>5, <1>6, <2>1 DEF MarksAreTrue, MadeAsQuoted
<1> QED
  BY <1>4, <1>7, <1>8 DEF DealInv

LEMMA ApproveBillDeal ==
    ASSUME TypeOK, DealInv, NEW b \in 1 .. MaxBills, NEW accept \in BOOLEAN,
           ApproveBill(b, accept)
    PROVE  DealInv'
<1>1. /\ demand.status = "bill_submitted" /\ b \in DOMAIN bills
      /\ bills[b].status = "submitted"
  BY DEF ApproveBill, BillReviewable
<1>2. /\ demand'.status = "awaiting_delivery" /\ demand'.approved = demand.approved
      /\ demand'.current = demand.current
      /\ demand'.approvedBill = b
      /\ quotations' = quotations
  BY Rows DEF ApproveBill, Demand
<1>3. demand.approvedBill = 0
  BY <1>1 DEF DealInv, BillsStand, Late
<1>4. bills' = [bills EXCEPT ![b].status = "approved", ![b].accepted = bills[b].differs]
  BY DEF ApproveBill
<1>5. /\ DOMAIN bills' = DOMAIN bills /\ bills'[b].status = "approved"
      /\ \A i \in DOMAIN bills :
           /\ i # b => bills'[i] = bills[i]
           /\ bills'[i].billed = bills[i].billed /\ bills'[i].charge = bills[i].charge
           /\ bills'[i].version = bills[i].version
           /\ bills'[i].differs = bills[i].differs
  BY <1>1, <1>4, DecidedBill
<1>6. bills'[b].accepted = bills[b].differs
  BY <1>1, <1>4, Rows DEF Bill
<1>7. \A i \in DOMAIN bills : i # b => bills'[i].status = "rejected"
  BY <1>1, <1>3, <1>5, Rows DEF DealInv, BillsStand
<1>8. VersionStands'
  BY <1>1, <1>2 DEF DealInv, VersionStands, ApprovalNamesCurrentVersion
<1>9. BillsStand'
  <2>1. bills[b].version = demand.approved
    BY <1>1 DEF DealInv, BillsStand, BillFollowsApproval
  <2>2. BillFollowsApproval'
    BY <1>1, <1>2, <1>5, <1>7, <2>1 DEF BillFollowsApproval
  <2> QED
    BY <1>1, <1>2, <1>5, <1>7, <2>2 DEF BillsStand, Late
<1>10. MarksAreTrue'
  <2>1. ~bills[b].differs => MadeAsQuoted(b)
    BY <1>1 DEF DealInv, MarksAreTrue
  <2> QED
    BY <1>1, <1>2, <1>5, <1>6, <1>7, <2>1 DEF MarksAreTrue, MadeAsQuoted
<1> QED
  BY <1>8, <1>9, <1>10 DEF DealInv

LEMMA RejectBillDeal ==
    ASSUME TypeOK, DealInv, NEW b \in 1 .. MaxBills, RejectBill(b)
    PROVE  DealInv'
<1>1. /\ demand.status = "bill_submitted" /\ b \in DOMAIN bills
      /\ bills[b].status = "submitted"
  BY DEF RejectBill, BillReviewable
<1>2. /\ demand'.status = "awaiting_supplier_bill" /\ demand'.approved = demand.approved
      /\ demand'.current = demand.current
      /\ demand'.approvedBill = demand.approvedBill
      /\ quotations' = quotations
  BY Rows DEF RejectBill, Demand
<1>3. demand.approvedBill = 0
  BY <1>1 DEF DealInv, BillsStand, Late
<1>4. bills' = [bills EXCEPT ![b].status = "rejected"]
  BY DEF RejectBill
<1>5. /\ DOMAIN bills' = DOMAIN bills
      /\ \A i \in DOMAIN bills : bills'[i].status = "rejected"
  <2>1. /\ DOMAIN bills' = DOMAIN bills /\ bills'[b].status = "rejected"
        /\ \A i \in DOMAIN bills : i # b => bills'[i] = bills[i]
    BY <1>1, <1>4, DecidedBill
  <2>2. \A i \in DOMAIN bills : i # b => bills[i].status = "rejected"
    BY <1>1, <1>3, Rows DEF DealInv, BillsStand
  <2> QED
    BY <2>1, <2>2
<1>6. VersionStands'
  BY <1>1, <1>2 DEF DealInv, VersionStands, ApprovalNamesCurrentVersion
<1>7. BillsStand'
  BY <1>2, <1>3, <1>5 DEF BillsStand, BillFollowsApproval, Late
<1>8. MarksAreTrue'
  BY <1>5 DEF MarksAreTrue
<1> QED
  BY <1>6, <1>7, <1>8 DEF DealInv

LEMMA DealInvStep == TypeOK /\ DealInv /\ [Next]_vars => DealInv'
<1> SUFFICES ASSUME TypeOK, DealInv, [Next]_vars PROVE DealInv'
  OBVIOUS
<1>1. CASE UNCHANGED vars
  <2>1. Onward
    BY <1>1 DEF vars, Onward
  <2> QED
    BY <2>1, OnwardDeal
<1>2. CASE Next
  <2>1. ASSUME NEW v \in 1 .. MaxVersions, ApproveQuotation(v) PROVE DealInv'
    BY <2>1, DecisionDeal, Rows DEF ApproveQuotation, Demand
  <2>2. ASSUME NEW v \in 1 .. MaxVersions, RequestChanges(v) PROVE DealInv'
    BY <2>2, DecisionDeal, Rows DEF RequestChanges, Demand
  <2>3. ASSUME NEW v \in 1 .. MaxVersions, RejectQuotation(v) PROVE DealInv'
    BY <2>3, DecisionDeal, Rows DEF RejectQuotation, Demand
  <2> QED
    BY <1>2, <2>1, <2>2, <2>3, DealSteps, OnwardDeal, SubmitQuotationDeal, SubmitBillDeal,
       ApproveBillDeal, RejectBillDeal DEF DealStep
<1> QED
  BY <1>1, <1>2

LEMMA DealInvInit == Init => DealInv
  BY DEF Init, DealInv, VersionStands, ApprovalNamesCurrentVersion, BillsStand,
     BillFollowsApproval, MarksAreTrue

\* A submission overtakes an approval (purchase_submit_quotation), and only the newest
\* version is ever decided about: the demand's approval names the newest version, no other
\* version is marked approved, and every later stage has one.
THEOREM ApprovalCorrect == Spec => []ApprovalNamesCurrentVersion
<1>1. DealInv => ApprovalNamesCurrentVersion
  BY DEF DealInv, VersionStands
<1> QED
  BY <1>1, TypeInit, TypeStep, DealInvInit, DealInvStep, PTL DEF Spec

\* The bill under review and the approved bill were made out against the version that
\* stands approved, whatever versions came and went while a portal request was on its way.
THEOREM BillsCorrect == Spec => []BillFollowsApproval
<1>1. DealInv => BillFollowsApproval
  BY DEF DealInv, BillsStand
<1> QED
  BY <1>1, TypeInit, TypeStep, DealInvInit, DealInvStep, PTL DEF Spec

\* purchase_approve_bill refuses differences nobody accepted: an approved bill without an
\* acceptance is the approved quotation, line by line.
THEOREM DifferencesCorrect == Spec => []DifferencesAccepted
<1>1. TypeOK /\ DealInv => DifferencesAccepted
  <2> SUFFICES ASSUME TypeOK, DealInv, NEW b \in DOMAIN bills,
                      bills[b].status = "approved", ~bills[b].accepted
               PROVE  MadeAsQuoted(b)
    BY DEF DifferencesAccepted, MadeAsQuoted
  <2>1. demand.approvedBill # 0
    BY Rows DEF DealInv, BillsStand
  <2>2. demand.status # "cancelled"
    BY <2>1 DEF DealInv, BillsStand, Late
  <2> QED
    BY <2>2 DEF DealInv, MarksAreTrue
<1> QED
  BY <1>1, TypeInit, TypeStep, DealInvInit, DealInvStep, PTL DEF Spec

\* An approved bill stays, with everything it rests on.
LEMMA DealIsKept ==
    ASSUME TypeOK, DealInv, Next
    PROVE  KeepsDeal
<1> SUFFICES ASSUME demand.approvedBill # 0 PROVE KeepsDeal
  BY DEF KeepsDeal
<1>1. demand.status \in Late
  BY DEF DealInv, BillsStand
<1>2. Onward
  BY <1>1, DealSteps
     DEF DealStep, Late, SubmitQuotation, ApproveQuotation, RequestChanges,
         RejectQuotation, Reviewable, SubmitBill, ApproveBill, RejectBill, BillReviewable
<1> QED
  BY <1>1, <1>2 DEF KeepsDeal, Onward, Late, Early

\* Once a bill is approved no step changes the bills, the approval or the version behind
\* it, or takes the demand anywhere but towards received.
THEOREM ApprovedBillStays == Spec => ApprovedBillIsFinal
<1>1. TypeOK /\ DealInv /\ [Next]_vars => [KeepsDeal]_vars
  BY DealIsKept
<1> QED
  BY <1>1, TypeInit, TypeStep, DealInvInit, DealInvStep, PTL
     DEF Spec, ApprovedBillIsFinal

-----------------------------------------------------------------------------
(* Goods: what was received, against which bill, and how often              *)

\* Only a receipt adds to the receipts, and only it or a manual movement touches the goods.
GoodsStep ==
    \/ /\ UNCHANGED <<goods, receipts>>
       /\ \/ demand'.status = demand.status
          \/ /\ demand.status \notin {"partially_received", "received"}
             /\ demand'.status \notin {"partially_received", "received"}
    \/ \E got, bad \in [Lines -> Qty], f \in BOOLEAN, q \in Requests :
         RecordReceipt(got, bad, f, q)
    \/ \E l \in Lines, d \in -MaxAdjust .. MaxAdjust : AdjustStock(l, d)

LEMMA GoodsSteps ==
    ASSUME TypeOK, Next
    PROVE  GoodsStep
<1>1. demand \in Demand
  BY DEF TypeOK
<1> USE <1>1
<1>2. CASE Drafting
  <2>1. ASSUME NEW c, ResendLink(c) PROVE GoodsStep
    BY <2>1 DEF ResendLink, GoodsStep
  <2>2. ASSUME NEW c, Cancel(c) PROVE GoodsStep
    BY <2>2 DEF Cancel, GoodsStep, Demand
  <2>3. ASSUME NEW r, NEW c, Edit(r, c) PROVE GoodsStep
    BY <2>3 DEF Edit, GoodsStep, Demand
  <2>4. ASSUME NEW s \in Staff, StaffRead(s) \/ StaffEnd(s) PROVE GoodsStep
    BY <2>4 DEF StaffRead, StaffEnd, GoodsStep
  <2>5. ASSUME NEW s \in Staff, Verify(s) PROVE GoodsStep
    BY <2>5 DEF Verify, MarkAllowed, GoodsStep, Demand
  <2>6. ASSUME NEW s \in Staff, Send(s) PROVE GoodsStep
    BY <2>6 DEF Send, SendAllowed, GoodsStep, Demand
  <2> QED
    BY <1>2, <2>1, <2>2, <2>3, <2>4, <2>5, <2>6
       DEF Drafting, ResendEarly, CancelEarly, ResendLate, CancelLate
<1>3. CASE Portal
  BY <1>3 DEF Portal, Expire, PortalResolve, PortalEnd, GoodsStep
<1>4. CASE Quoting
  <2>1. ASSUME NEW a, NEW k, NEW q, SubmitQuotation(a, k, q) PROVE GoodsStep
    BY <2>1 DEF SubmitQuotation, GoodsStep, Demand
  <2>2. ASSUME NEW v, ApproveQuotation(v) PROVE GoodsStep
    BY <2>2 DEF ApproveQuotation, Reviewable, GoodsStep, Demand
  <2>3. ASSUME NEW v, RequestChanges(v) PROVE GoodsStep
    BY <2>3 DEF RequestChanges, Reviewable, GoodsStep, Demand
  <2>4. ASSUME NEW v, RejectQuotation(v) PROVE GoodsStep
    BY <2>4 DEF RejectQuotation, Reviewable, GoodsStep, Demand
  <2> QED
    BY <1>4, <2>1, <2>2, <2>3, <2>4 DEF Quoting, EnterQuotation, PortalSubmitQuotation
<1>5. CASE Billing
  <2>1. ASSUME NEW b, NEW k, NEW q, NEW t, SubmitBill(b, k, q, t) PROVE GoodsStep
    BY <2>1 DEF SubmitBill, GoodsStep, Demand
  <2>2. ASSUME NEW b, NEW accept, ApproveBill(b, accept) PROVE GoodsStep
    BY <2>2 DEF ApproveBill, BillReviewable, GoodsStep, Demand
  <2>3. ASSUME NEW b, RejectBill(b) PROVE GoodsStep
    BY <2>3 DEF RejectBill, BillReviewable, GoodsStep, Demand
  <2> QED
    BY <1>5, <2>1, <2>2, <2>3 DEF Billing, EnterBill, PortalSubmitBill
<1>6. CASE Receiving
  <2>1. ASSUME NEW st, SaveDelivery(st) PROVE GoodsStep
    BY <2>1 DEF SaveDelivery, GoodsStep, Demand
  <2> QED
    BY <1>6, <2>1 DEF Receiving, GoodsStep
<1> QED
  BY <1>2, <1>3, <1>4, <1>5, <1>6 DEF Next

\* Goods only arrive once a bill is approved, so what they are measured against is fixed.
ArrivedIsLate ==
    (\E l \in Lines : goods[l].received > 0) => demand.status \in {"partially_received", "received"}

GoodsInv == ArrivedIsLate /\ StockFollowsReceipts

LEMMA BilledType ==
    ASSUME TypeOK, DealInv, demand.status \in Late, NEW l \in Lines
    PROVE  /\ demand.approvedBill \in DOMAIN bills
           /\ Billed(l) \in Nat
<1>1. demand.approvedBill \in DOMAIN bills
  BY DEF DealInv, BillsStand, BillFollowsApproval, Late
<1>2. bills[demand.approvedBill] \in Bill
  BY <1>1, Rows
<1> QED
  BY <1>1, <1>2, BoundsAssumption DEF Billed, Bill, Qty

LEMMA GoodsKept ==
    ASSUME TypeOK, DealInv, GoodsInv, UNCHANGED <<goods, receipts>>,
           demand.status \in Late => UNCHANGED bills /\ demand'.approvedBill = demand.approvedBill,
           \/ demand'.status = demand.status
           \/ /\ demand.status \notin {"partially_received", "received"}
              /\ demand'.status \notin {"partially_received", "received"}
    PROVE  GoodsInv'
<1>1. ArrivedIsLate'
  BY DEF GoodsInv, ArrivedIsLate
<1>2. StockFollowsReceipts'
  <2>1. ASSUME NEW l \in Lines, demand.status \in Late
        PROVE  Billed(l)' = Billed(l)
    BY <2>1 DEF Billed
  <2>2. ASSUME NEW l \in Lines, goods'[l].received > 0
        PROVE  goods'[l].received <= Billed(l)'
    <3>1. demand.status \in Late
      BY <2>2 DEF GoodsInv, ArrivedIsLate, Late
    <3> QED
      BY <2>1, <2>2, <3>1 DEF GoodsInv, StockFollowsReceipts
  <2>3. demand'.status = "received" =>
          \/ \A l \in Lines : goods'[l].received >= Billed(l)'
          \/ \E i \in DOMAIN receipts' : receipts'[i].final
    BY <2>1 DEF GoodsInv, StockFollowsReceipts, Late
  <2>4. demand'.status = "partially_received" =>
          \E l \in Lines : goods'[l].received < Billed(l)'
    BY <2>1 DEF GoodsInv, StockFollowsReceipts, Late
  <2> QED
    BY <2>2, <2>3, <2>4 DEF GoodsInv, StockFollowsReceipts
<1> QED
  BY <1>1, <1>2 DEF GoodsInv

LEMMA ReceiptGoods ==
    ASSUME TypeOK, DealInv, GoodsInv,
           NEW got \in [Lines -> Qty], NEW bad \in [Lines -> Qty], NEW f \in BOOLEAN,
           NEW q \in Requests, RecordReceipt(got, bad, f, q)
    PROVE  GoodsInv'
<1>1. /\ demand.status \in Late /\ bills' = bills
      /\ demand'.approvedBill = demand.approvedBill
      /\ demand'.status = IF Owed(goods') /\ ~f THEN "partially_received" ELSE "received"
  BY Rows DEF RecordReceipt, Late, Demand
<1>2. ASSUME NEW l \in Lines
      PROVE  /\ goods[l].received \in Nat /\ goods[l].damaged \in Nat
             /\ goods[l].adjusted \in Int
             /\ got[l] \in Nat /\ bad[l] \in Nat /\ bad[l] <= got[l]
             /\ goods'[l].received = goods[l].received + got[l]
             /\ goods'[l].damaged = goods[l].damaged + bad[l]
             /\ goods'[l].adjusted = goods[l].adjusted
             /\ goods'[l].stock = goods[l].stock + (got[l] - bad[l])
             /\ Billed(l)' = Billed(l) /\ Billed(l) \in Nat
  <2>1. goods[l] \in Goods
    BY DEF TypeOK
  <2>2. got[l] \in Nat /\ bad[l] \in Nat
    BY BoundsAssumption DEF Qty
  <2> QED
    BY <1>1, <2>1, <2>2, BilledType DEF RecordReceipt, Received, Goods, Billed
<1>3. ArrivedIsLate'
  BY <1>1 DEF ArrivedIsLate
<1>4. ASSUME NEW l \in Lines
      PROVE  /\ goods'[l].received > 0 => goods'[l].received <= Billed(l)'
             /\ goods'[l].damaged <= goods'[l].received
             /\ goods'[l].stock = goods'[l].received - goods'[l].damaged + goods'[l].adjusted
  <2>1. /\ goods[l].received > 0 => goods[l].received <= Billed(l)
        /\ goods[l].damaged <= goods[l].received
        /\ goods[l].stock = goods[l].received - goods[l].damaged + goods[l].adjusted
    BY DEF GoodsInv, StockFollowsReceipts
  <2>2. got[l] > 0 => goods[l].received + got[l] <= Billed(l)
    BY DEF RecordReceipt, WithinBill
  <2> QED
    BY <1>2, <2>1, <2>2
<1>5. demand'.status = "partially_received" =>
        \E l \in Lines : goods'[l].received < Billed(l)'
  BY <1>1, <1>2 DEF Owed
<1>6. demand'.status = "received" =>
        \/ \A l \in Lines : goods'[l].received >= Billed(l)'
        \/ \E i \in DOMAIN receipts' : receipts'[i].final
  <2>1. CASE f
    <3>1. [req |-> q, final |-> f] \in Receipt /\ receipts \in Seq(Receipt)
      BY DEF Receipt, TypeOK
    <3>2. /\ Len(receipts) + 1 \in DOMAIN receipts'
          /\ receipts'[Len(receipts) + 1].final
      BY <2>1, <3>1, AppendProperties DEF RecordReceipt
    <3> QED
      BY <3>2
  <2>2. CASE ~f
    BY <1>1, <1>2, <2>2 DEF Owed
  <2> QED
    BY <2>1, <2>2
<1> QED
  BY <1>3, <1>4, <1>5, <1>6 DEF GoodsInv, StockFollowsReceipts

LEMMA AdjustGoods ==
    ASSUME TypeOK, DealInv, GoodsInv, NEW l \in Lines, NEW d \in -MaxAdjust .. MaxAdjust,
           AdjustStock(l, d)
    PROVE  GoodsInv'
<1>1. \A k \in Lines : /\ goods[k] \in Goods
                       /\ goods[k].received \in Nat /\ goods[k].damaged \in Nat
                       /\ goods[k].adjusted \in Int /\ goods[k].stock \in Nat
  BY DEF TypeOK, Goods
<1>2. d \in Int
  BY BoundsAssumption
<1>3. \A k \in Lines :
        /\ goods'[k].received = goods[k].received /\ goods'[k].damaged = goods[k].damaged
        /\ goods'[k].stock - goods'[k].adjusted = goods[k].stock - goods[k].adjusted
        /\ goods'[k].adjusted \in Int /\ goods'[k].stock \in Int
  <2>1. goods' = [goods EXCEPT ![l] = [goods[l] EXCEPT !.adjusted = goods[l].adjusted + d,
                                                      !.stock = goods[l].stock + d]]
    BY DEF AdjustStock
  <2>2. goods \in [Lines -> Goods]
    BY DEF TypeOK
  <2>3. \A k \in Lines : k # l => goods'[k] = goods[k]
    BY <2>1, <2>2
  <2>4. /\ goods'[l].received = goods[l].received /\ goods'[l].damaged = goods[l].damaged
        /\ goods'[l].adjusted = goods[l].adjusted + d /\ goods'[l].stock = goods[l].stock + d
    BY <1>1, <2>1, <2>2 DEF Goods
  <2> QED
    BY <1>1, <1>2, <2>3, <2>4
<1>4. /\ demand' = demand /\ bills' = bills /\ receipts' = receipts
      /\ \A k \in Lines : Billed(k)' = Billed(k)
  BY DEF AdjustStock, Billed
<1>5. ASSUME NEW k \in Lines
      PROVE  /\ goods'[k].received > 0 => goods'[k].received <= Billed(k)'
             /\ goods'[k].damaged <= goods'[k].received
             /\ goods'[k].stock = goods'[k].received - goods'[k].damaged + goods'[k].adjusted
  <2>1. /\ goods[k].received > 0 => goods[k].received <= Billed(k)
        /\ goods[k].damaged <= goods[k].received
        /\ goods[k].stock = goods[k].received - goods[k].damaged + goods[k].adjusted
    BY DEF GoodsInv, StockFollowsReceipts
  <2> QED
    BY <1>1, <1>3, <1>4, <2>1
<1>6. ArrivedIsLate'
  BY <1>3, <1>4 DEF GoodsInv, ArrivedIsLate
<1>7. /\ demand'.status = "received" =>
           \/ \A k \in Lines : goods'[k].received >= Billed(k)'
           \/ \E i \in DOMAIN receipts' : receipts'[i].final
      /\ demand'.status = "partially_received" =>
           \E k \in Lines : goods'[k].received < Billed(k)'
  BY <1>3, <1>4 DEF GoodsInv, StockFollowsReceipts
<1> QED
  BY <1>5, <1>6, <1>7 DEF GoodsInv, StockFollowsReceipts

LEMMA GoodsInvStep == TypeOK /\ DealInv /\ GoodsInv /\ [Next]_vars => GoodsInv'
<1> SUFFICES ASSUME TypeOK, DealInv, GoodsInv, [Next]_vars PROVE GoodsInv'
  OBVIOUS
<1>1. CASE UNCHANGED vars
  BY <1>1, GoodsKept DEF vars
<1>2. CASE Next
  <2>1. demand.status \in Late => UNCHANGED bills /\ demand'.approvedBill = demand.approvedBill
    <3>1. demand.status \in Late => demand.approvedBill # 0
      BY Rows DEF DealInv, BillsStand, BillFollowsApproval, Late
    <3> QED
      BY <1>2, <3>1, DealIsKept DEF KeepsDeal
  <2> QED
    BY <1>2, <2>1, GoodsSteps, GoodsKept, ReceiptGoods, AdjustGoods DEF GoodsStep
<1> QED
  BY <1>1, <1>2

\* purchase_record_receipt: no line is received beyond the approved bill, stock is what was
\* accepted and what was moved by hand, and a demand is closed when all arrived or a person
\* says that no more will come.
THEOREM StockCorrect == Spec => []StockFollowsReceipts
<1>1. Init => GoodsInv
  BY DEF Init, GoodsInv, ArrivedIsLate, StockFollowsReceipts
<1>2. GoodsInv => StockFollowsReceipts
  BY DEF GoodsInv
<1> QED
  BY <1>1, <1>2, TypeInit, TypeStep, DealInvInit, DealInvStep, GoodsInvStep, PTL DEF Spec

-----------------------------------------------------------------------------
(* Repeated submissions                                                     *)

LEMMA NewVersionIsFirst ==
    ASSUME TypeOK, NoDuplicateSubmission,
           NEW a \in [Lines -> Qty], NEW k \in Charges, NEW q \in Requests,
           SubmitQuotation(a, k, q)
    PROVE  \A i, j \in DOMAIN quotations' :
             i # j /\ quotations'[i].req # NoReq => quotations'[i].req # quotations'[j].req
<1> DEFINE n == Len(quotations) + 1
<1>1. /\ \A i \in DOMAIN quotations' : i # n => i \in DOMAIN quotations
      /\ \A i \in DOMAIN quotations : quotations'[i].req = quotations[i].req
      /\ quotations'[n].req = q
  BY NewVersion, Rows
<1>2. q = NoReq \/ \A i \in DOMAIN quotations : quotations[i].req # q
  BY DEF SubmitQuotation, FirstQuotation
<1> QED
  BY <1>1, <1>2 DEF NoDuplicateSubmission

LEMMA NewBillIsFirst ==
    ASSUME TypeOK, NoDuplicateSubmission,
           NEW b \in [Lines -> Qty], NEW k \in Charges, NEW q \in Requests,
           NEW t \in 0 .. MaxTokens, SubmitBill(b, k, q, t)
    PROVE  \A i, j \in DOMAIN bills' :
             i # j /\ bills'[i].req # NoReq => bills'[i].req # bills'[j].req
<1> DEFINE n == Len(bills) + 1
<1>1. /\ \A i \in DOMAIN bills' : i # n => i \in DOMAIN bills
      /\ \A i \in DOMAIN bills : bills'[i].req = bills[i].req
      /\ bills'[n].req = q
  BY NewBill, Rows
<1>2. q = NoReq \/ \A i \in DOMAIN bills : bills[i].req # q
  BY DEF SubmitBill, FirstBill
<1> QED
  BY <1>1, <1>2 DEF NoDuplicateSubmission

LEMMA NewReceiptIsFirst ==
    ASSUME TypeOK, NoDuplicateSubmission,
           NEW got \in [Lines -> Qty], NEW bad \in [Lines -> Qty], NEW f \in BOOLEAN,
           NEW q \in Requests, RecordReceipt(got, bad, f, q)
    PROVE  \A i, j \in DOMAIN receipts' :
             i # j /\ receipts'[i].req # NoReq => receipts'[i].req # receipts'[j].req
<1> DEFINE n == Len(receipts) + 1
           new == [req |-> q, final |-> f]
<1>1. receipts \in Seq(Receipt) /\ new \in Receipt /\ receipts' = Append(receipts, new)
  BY DEF TypeOK, Receipt, RecordReceipt
<1>2. /\ \A i \in DOMAIN receipts' : i # n => i \in DOMAIN receipts
      /\ \A i \in DOMAIN receipts : receipts'[i].req = receipts[i].req
      /\ receipts'[n].req = q
  BY <1>1, AppendProperties
<1>3. q = NoReq \/ \A i \in DOMAIN receipts : receipts[i].req # q
  BY DEF RecordReceipt, FirstReceipt
<1> QED
  BY <1>2, <1>3 DEF NoDuplicateSubmission

LEMMA OnceStep == TypeOK /\ NoDuplicateSubmission /\ [Next]_vars => NoDuplicateSubmission'
<1> SUFFICES ASSUME TypeOK, NoDuplicateSubmission, [Next]_vars PROVE NoDuplicateSubmission'
  OBVIOUS
<1>1. CASE UNCHANGED vars
  BY <1>1 DEF vars, NoDuplicateSubmission
<1>2. CASE Next
  <2>1. \A i, j \in DOMAIN quotations' :
          i # j /\ quotations'[i].req # NoReq => quotations'[i].req # quotations'[j].req
    <3>1. CASE UNCHANGED quotations
      BY <3>1 DEF NoDuplicateSubmission
    <3>2. CASE \E v \in DOMAIN quotations : \E st :
                 quotations' = [quotations EXCEPT ![v].status = st]
      BY <3>2, DecidedVersion DEF NoDuplicateSubmission
    <3>3. ASSUME NEW v \in 1 .. MaxVersions,
                 ApproveQuotation(v) \/ RequestChanges(v) \/ RejectQuotation(v)
          PROVE  \E w \in DOMAIN quotations : \E st :
                   quotations' = [quotations EXCEPT ![w].status = st]
      BY <3>3 DEF ApproveQuotation, RequestChanges, RejectQuotation, Reviewable
    <3>4. DealStep
      BY <1>2, DealSteps
    <3> QED
      BY <3>1, <3>2, <3>3, <3>4, NewVersionIsFirst
         DEF DealStep, Onward, SubmitBill, ApproveBill, RejectBill
  <2>2. \A i, j \in DOMAIN bills' :
          i # j /\ bills'[i].req # NoReq => bills'[i].req # bills'[j].req
    <3>1. CASE UNCHANGED bills
      BY <3>1 DEF NoDuplicateSubmission
    <3>2. ASSUME NEW b \in 1 .. MaxBills, NEW accept \in BOOLEAN, ApproveBill(b, accept)
          PROVE  \A i, j \in DOMAIN bills' :
                   i # j /\ bills'[i].req # NoReq => bills'[i].req # bills'[j].req
      <4>1. /\ b \in DOMAIN bills
            /\ bills' = [bills EXCEPT ![b].status = "approved", ![b].accepted = bills[b].differs]
        BY <3>2 DEF ApproveBill, BillReviewable
      <4>2. /\ DOMAIN bills' = DOMAIN bills
            /\ \A i \in DOMAIN bills : bills'[i].req = bills[i].req
        BY <4>1, DecidedBill
      <4> QED
        BY <4>2 DEF NoDuplicateSubmission
    <3>3. ASSUME NEW b \in 1 .. MaxBills, RejectBill(b)
          PROVE  \A i, j \in DOMAIN bills' :
                   i # j /\ bills'[i].req # NoReq => bills'[i].req # bills'[j].req
      <4>1. b \in DOMAIN bills /\ bills' = [bills EXCEPT ![b].status = "rejected"]
        BY <3>3 DEF RejectBill, BillReviewable
      <4>2. /\ DOMAIN bills' = DOMAIN bills
            /\ \A i \in DOMAIN bills : bills'[i].req = bills[i].req
        BY <4>1, DecidedBill
      <4> QED
        BY <4>2 DEF NoDuplicateSubmission
    <3>4. DealStep
      BY <1>2, DealSteps
    <3> QED
      BY <3>1, <3>2, <3>3, <3>4, NewBillIsFirst
         DEF DealStep, Onward, SubmitQuotation, ApproveQuotation, RequestChanges,
             RejectQuotation
  <2>3. \A i, j \in DOMAIN receipts' :
          i # j /\ receipts'[i].req # NoReq => receipts'[i].req # receipts'[j].req
    <3>1. UNCHANGED receipts =>
            \A i, j \in DOMAIN receipts' :
              i # j /\ receipts'[i].req # NoReq => receipts'[i].req # receipts'[j].req
      BY DEF NoDuplicateSubmission
    <3> QED
      BY <1>2, <3>1, GoodsSteps, NewReceiptIsFirst DEF GoodsStep, AdjustStock
  <2> QED
    BY <2>1, <2>2, <2>3 DEF NoDuplicateSubmission
<1> QED
  BY <1>1, <1>2

\* A repeated clientRequestId makes no second version, bill or receipt.
THEOREM SubmittedOnce == Spec => []NoDuplicateSubmission
<1>1. Init => NoDuplicateSubmission
  BY DEF Init, NoDuplicateSubmission
<1> QED
  BY <1>1, TypeInit, TypeStep, OnceStep, PTL DEF Spec

-----------------------------------------------------------------------------
(* The supplier can answer: every link in force went out in a message       *)

Waiting == {"awaiting_supplier", "changes_requested", "awaiting_supplier_bill"}

\* The dedupe keys that are used up: of links, of decided versions and of rejected bills.
KeyUsed(key) ==
    /\ key[1] = "link" => key[2] <= Len(tokens)
    /\ key[1] \in {"approved", "changes"} =>
         key[2] \in DOMAIN quotations /\ quotations[key[2]].status # "submitted"
    /\ key[1] = "bill_rejected" =>
         key[2] \in DOMAIN bills /\ bills[key[2]].status # "submitted"

LinkStands == tokens # <<>> /\ tokens[Len(tokens)] # "revoked"

\* The message of this stage went out, and the newest link is in it or in a resend after it.
StageTold ==
    \E m \in messages :
       /\ m.key = StageKey
       /\ \/ m.link = Len(tokens)
          \/ \E r \in messages : /\ r.key = <<"link", Len(tokens)>>
                                 /\ m.link < r.link /\ r.link = Len(tokens)

\* A resend and a cancellation may have been composed from an earlier draft.
FromDrafts == {"link", "cancelled"}

\* Every bill was made out against a version that was decided, and only the last is open.
BillsBehind ==
    \A b \in DOMAIN bills :
       /\ bills[b].version \in DOMAIN quotations
       /\ quotations[bills[b].version].status # "submitted"
       /\ bills[b].status = "submitted" => b = Len(bills)

AnswerInv ==
    /\ demand.status \in Editable => tokens = <<>> /\ messages = {}
    /\ demand.status \in Waiting => LinkStands /\ StageTold
    /\ \A m \in messages : KeyUsed(m.key)
    /\ \A m \in messages : m.key[1] \notin FromDrafts => m.content = demand.content

\* What is decided stays decided.
Forward ==
    /\ \A v \in DOMAIN quotations :
         /\ v \in DOMAIN quotations'
         /\ quotations[v].status # "submitted" => quotations'[v].status # "submitted"
    /\ \A b \in DOMAIN bills :
         /\ b \in DOMAIN bills'
         /\ bills[b].status # "submitted" => bills'[b].status # "submitted"

LEMMA DealIsForward ==
    ASSUME TypeOK, Next
    PROVE  Forward
<1>1. DealStep
  BY DealSteps
<1>2. CASE Onward
  BY <1>2 DEF Onward, Forward
<1>3. ASSUME NEW a \in [Lines -> Qty], NEW k \in Charges, NEW q \in Requests,
             SubmitQuotation(a, k, q)
      PROVE  Forward
  <2>1. \A v \in DOMAIN quotations :
          v \in DOMAIN quotations' /\ quotations'[v] = Superseded(quotations[v])
    BY <1>3, NewVersion, Rows
  <2>2. \A x \in Quotation : x.status # "submitted" => Superseded(x).status # "submitted"
    BY DEF Superseded, Quotation
  <2> QED
    BY <1>3, <2>1, <2>2, Rows DEF Forward, SubmitQuotation
<1>4. ASSUME NEW v \in DOMAIN quotations, NEW st,
             quotations' = [quotations EXCEPT ![v].status = st], st # "submitted",
             bills' = bills
      PROVE  Forward
  <2>1. /\ DOMAIN quotations' = DOMAIN quotations /\ quotations'[v].status = st
        /\ \A w \in DOMAIN quotations : w # v => quotations'[w] = quotations[w]
    BY <1>4, DecidedVersion
  <2> QED
    BY <1>4, <2>1 DEF Forward
<1>5. ASSUME NEW v \in 1 .. MaxVersions,
             ApproveQuotation(v) \/ RequestChanges(v) \/ RejectQuotation(v)
      PROVE  Forward
  BY <1>4, <1>5 DEF ApproveQuotation, RequestChanges, RejectQuotation, Reviewable
<1>6. ASSUME NEW b \in [Lines -> Qty], NEW k \in Charges, NEW q \in Requests,
             NEW t \in 0 .. MaxTokens, SubmitBill(b, k, q, t)
      PROVE  Forward
  <2>1. \A i \in DOMAIN bills : i \in DOMAIN bills' /\ bills'[i] = bills[i]
    BY <1>6, NewBill, Rows
  <2> QED
    BY <1>6, <2>1 DEF Forward, SubmitBill
<1>7. ASSUME NEW b \in DOMAIN bills, NEW st \in {"approved", "rejected"},
             \/ bills' = [bills EXCEPT ![b].status = st]
             \/ bills' = [bills EXCEPT ![b].status = st, ![b].accepted = bills[b].differs],
             quotations' = quotations
      PROVE  Forward
  <2>1. /\ DOMAIN bills' = DOMAIN bills /\ bills'[b].status = st
        /\ \A i \in DOMAIN bills : i # b => bills'[i] = bills[i]
    BY <1>7, DecidedBill
  <2> QED
    BY <1>7, <2>1 DEF Forward
<1>8. ASSUME NEW b \in 1 .. MaxBills, NEW accept \in BOOLEAN, ApproveBill(b, accept)
      PROVE  Forward
  BY <1>7, <1>8 DEF ApproveBill, BillReviewable
<1>9. ASSUME NEW b \in 1 .. MaxBills, RejectBill(b)
      PROVE  Forward
  BY <1>7, <1>9 DEF RejectBill, BillReviewable
<1> QED
  BY <1>1, <1>2, <1>3, <1>5, <1>6, <1>8, <1>9 DEF DealStep

LEMMA BillsBehindStep ==
    ASSUME TypeOK, DealInv, BillsBehind, Next
    PROVE  BillsBehind'
<1>1. DealStep /\ Forward
  BY DealSteps, DealIsForward
<1>2. CASE bills' = bills
  BY <1>1, <1>2 DEF Forward, BillsBehind
<1>3. ASSUME NEW b \in [Lines -> Qty], NEW k \in Charges, NEW q \in Requests,
             NEW t \in 0 .. MaxTokens, SubmitBill(b, k, q, t)
      PROVE  BillsBehind'
  <2>1. /\ DOMAIN bills' = 1 .. Len(bills) + 1 /\ Len(bills') = Len(bills) + 1
        /\ \A i \in DOMAIN bills : i # Len(bills) + 1 /\ bills'[i] = bills[i]
        /\ bills'[Len(bills) + 1].version = demand.approved
    <3>1. bills \in Seq(Bill) /\ Len(bills) \in Nat
      BY Rows
    <3>2. Len(bills') = Len(bills) + 1
      BY <1>3, <3>1 DEF SubmitBill
    <3> QED
      BY <1>3, <3>2, NewBill
  <2>2. /\ demand.approved \in DOMAIN quotations
        /\ quotations[demand.approved].status = "approved" /\ quotations' = quotations
    <3>1. /\ demand.approved # 0 /\ quotations' = quotations
          /\ demand.approved = Len(quotations)
      BY <1>3 DEF SubmitBill, DealInv, VersionStands, ApprovalNamesCurrentVersion
    <3>2. demand.approved \in DOMAIN quotations
      BY <3>1, Rows
    <3> QED
      BY <3>1, <3>2 DEF DealInv, VersionStands, ApprovalNamesCurrentVersion
  <2>3. \A i \in DOMAIN bills : bills[i].status # "submitted"
    BY <1>3 DEF SubmitBill, NoOpenBill
  <2>4. ASSUME NEW i \in DOMAIN bills'
        PROVE  /\ bills'[i].version \in DOMAIN quotations'
               /\ quotations'[bills'[i].version].status # "submitted"
               /\ bills'[i].status = "submitted" => i = Len(bills')
    <3>1. CASE i = Len(bills) + 1
      BY <2>1, <2>2, <3>1
    <3>2. CASE i # Len(bills) + 1
      <4>1. i \in DOMAIN bills
        BY <2>1, <3>2, Rows
      <4> QED
        BY <2>1, <2>2, <2>3, <4>1 DEF BillsBehind
    <3> QED
      BY <3>1, <3>2
  <2> QED
    BY <2>4 DEF BillsBehind
<1>4. ASSUME NEW b \in DOMAIN bills, NEW st \in {"approved", "rejected"},
             \/ bills' = [bills EXCEPT ![b].status = st]
             \/ bills' = [bills EXCEPT ![b].status = st, ![b].accepted = bills[b].differs],
             quotations' = quotations
      PROVE  BillsBehind'
  <2>1. /\ DOMAIN bills' = DOMAIN bills /\ bills'[b].status = st
        /\ \A i \in DOMAIN bills : /\ i # b => bills'[i] = bills[i]
                                   /\ bills'[i].version = bills[i].version
    BY <1>4, DecidedBill
  <2>2. Len(bills') = Len(bills)
    BY <1>4, Rows
  <2> QED
    BY <1>4, <2>1, <2>2 DEF BillsBehind
<1>5. ASSUME NEW b \in 1 .. MaxBills, NEW accept \in BOOLEAN, ApproveBill(b, accept)
      PROVE  BillsBehind'
  BY <1>4, <1>5 DEF ApproveBill, BillReviewable
<1>6. ASSUME NEW b \in 1 .. MaxBills, RejectBill(b)
      PROVE  BillsBehind'
  BY <1>4, <1>6 DEF RejectBill, BillReviewable
<1>7. Onward \/ (\E a \in [Lines -> Qty], k \in Charges, q \in Requests : SubmitQuotation(a, k, q))
        \/ (\E v \in 1 .. MaxVersions : ApproveQuotation(v) \/ RequestChanges(v) \/ RejectQuotation(v))
      => bills' = bills
  BY DEF Onward, SubmitQuotation, ApproveQuotation, RequestChanges, RejectQuotation
<1> QED
  BY <1>1, <1>2, <1>3, <1>5, <1>6, <1>7 DEF DealStep

\* A used key stays used.
LEMMA KeysStayUsed ==
    ASSUME TypeOK, TypeOK', Forward, Len(tokens) <= Len(tokens'), NEW m \in messages,
           KeyUsed(m.key)
    PROVE  KeyUsed(m.key)'
<1>1. m.key[2] \in Nat /\ Len(tokens) \in Nat /\ Len(tokens') \in Nat
  BY DEF TypeOK, Message
<1> QED
  BY <1>1 DEF KeyUsed, Forward

\* The three ways in which a step writes to the supplier.

\* Nothing is written and no link given out; one may expire, or all be revoked.
Silent ==
    /\ UNCHANGED messages
    /\ demand'.status \in Editable =>
         demand.status \in Editable /\ UNCHANGED tokens
    /\ demand'.content = demand.content \/ demand.status \in Editable
    /\ \/ /\ UNCHANGED tokens
          /\ demand'.status \in Waiting =>
               demand.status \in Waiting /\ StageKey' = StageKey
       \/ (\E t \in DOMAIN tokens : Expire(t)) /\ UNCHANGED <<demand, bills>>
       \/ RevokeTokens /\ demand'.status \notin Waiting

\* A message without a link, with the links kept or revoked.
Notified ==
    /\ \E k \in {"rejected", "bill_approved", "cancelled"}, n \in Nat, c \in Contents :
         Enqueue(k, n, c, 0) /\ (k # "cancelled" => c = demand.content)
    /\ demand'.status \notin Editable \cup Waiting
    /\ demand'.content = demand.content
    /\ UNCHANGED tokens \/ RevokeTokens

\* A message with a new link, whose key must not have been used: a resend, or the message
\* of the stage the demand comes to.
LinkSent ==
    /\ IssueToken
    /\ demand'.status \notin Editable
    /\ demand'.content = demand.content
    /\ \E k \in {"sent", "link", "approved", "changes", "bill_rejected"}, n \in Nat,
          c \in Contents :
         /\ Enqueue(k, n, c, Len(tokens'))
         /\ \A m \in messages : m.key # <<k, n>>
         /\ KeyUsed(<<k, n>>)'
         /\ \/ k = "link" /\ n = Len(tokens') /\ UNCHANGED <<demand, bills>>
            \/ k # "link" /\ c = demand.content /\ StageKey' = <<k, n>>

LEMMA SendsLink ==
    ASSUME IssueToken, demand'.status \notin Editable, demand'.content = demand.content,
           NEW k \in {"sent", "link", "approved", "changes", "bill_rejected"}, NEW n \in Nat,
           NEW c \in Contents, Enqueue(k, n, c, Len(tokens')),
           \A m \in messages : m.key # <<k, n>>,
           KeyUsed(<<k, n>>)',
           \/ k = "link" /\ n = Len(tokens') /\ UNCHANGED <<demand, bills>>
           \/ k # "link" /\ c = demand.content /\ StageKey' = <<k, n>>
    PROVE  LinkSent
  BY DEF LinkSent

LEMMA MailSteps ==
    ASSUME TypeOK, TypeOK', DealInv, ContentInv, AnswerInv, BillsBehind, Next
    PROVE  Silent \/ Notified \/ LinkSent
<1>1. demand \in Demand /\ demand.content \in Contents
  BY DEF TypeOK, Demand
<1>2. /\ \A s \in Staff : screen[s] # NothingRead => screen[s].content \in Contents
      /\ Len(tokens) \in Nat /\ Len(tokens') \in Nat
  BY DEF TypeOK, Screen
<1>3. CASE Drafting
  <2>1. ASSUME NEW c \in Contents, ResendLink(c) PROVE LinkSent
    <3>1. PICK n \in Nat : n = Len(tokens') /\ n = Len(tokens) + 1
      BY <1>2, <2>1, IssueTokenEffect DEF ResendLink
    <3>2. \A m \in messages : m.key # <<"link", n>>
      BY <1>2, <3>1 DEF AnswerInv, KeyUsed
    <3>3. KeyUsed(<<"link", n>>)'
      BY <1>2, <3>1 DEF KeyUsed
    <3>4. /\ IssueToken /\ Enqueue("link", n, c, Len(tokens'))
          /\ UNCHANGED <<demand, bills>> /\ demand.status \notin Editable
      BY <2>1, <3>1 DEF ResendLink
    <3> QED
      BY <3>1, <3>2, <3>3, <3>4, SendsLink
  <2>2. ASSUME NEW c \in Contents, Cancel(c) PROVE Silent \/ Notified
    <3>1. /\ demand'.status = "cancelled" /\ demand'.content = demand.content
          /\ RevokeTokens
      BY <2>2, <1>1 DEF Cancel, Demand
    <3>2. CASE demand.status \in Editable
      BY <2>2, <3>1, <3>2 DEF Cancel, Silent, Waiting
    <3>3. CASE demand.status \notin Editable
      <4>1. Enqueue("cancelled", 0, c, 0)
        BY <2>2, <3>3 DEF Cancel
      <4> QED
        BY <3>1, <4>1 DEF Notified, Waiting
    <3> QED
      BY <3>2, <3>3
  <2>3. ASSUME NEW r, NEW c, Edit(r, c) PROVE Silent
    BY <2>3, <1>1 DEF Edit, Silent, Demand, Waiting
  <2>4. ASSUME NEW s \in Staff, StaffRead(s) \/ StaffEnd(s) PROVE Silent
    BY <2>4 DEF StaffRead, StaffEnd, Silent, StageKey
  <2>5. ASSUME NEW s \in Staff, Verify(s) PROVE Silent
    BY <2>5, <1>1 DEF Verify, MarkAllowed, Silent, Demand, Waiting
  <2>6. ASSUME NEW s \in Staff, Send(s) PROVE LinkSent
    <3>1. /\ demand'.status = "awaiting_supplier" /\ demand'.content = demand.content
          /\ demand.status = "verified" /\ demand.revision = screen[s].revision
      BY <2>6, <1>1 DEF Send, SendAllowed, Demand
    <3>2. screen[s].content = demand.content /\ screen[s].content \in Contents
      BY <2>6, <1>2, <3>1 DEF ContentInv, ScreensBehind, Send, Done
    <3>3. messages = {}
      BY <3>1 DEF AnswerInv
    <3>4. KeyUsed(<<"sent", 0>>)'
      BY DEF KeyUsed
    <3>5. IssueToken /\ Enqueue("sent", 0, screen[s].content, Len(tokens'))
      BY <2>6 DEF Send
    <3>6. StageKey' = <<"sent", 0>>
      BY <3>1 DEF StageKey
    <3> QED
      BY <3>1, <3>2, <3>3, <3>4, <3>5, <3>6, SendsLink
  <2>7. ASSUME NEW s \in Staff, ResendEarly(s) \/ CancelEarly(s)
        PROVE  Silent \/ Notified \/ LinkSent
    <3>1. screen[s].content \in Contents
      BY <1>2, <2>7 DEF ResendEarly, CancelEarly, Done
    <3> QED
      BY <2>1, <2>2, <2>7, <3>1 DEF ResendEarly, CancelEarly
  <2>8. ASSUME ResendLate \/ CancelLate
        PROVE  Silent \/ Notified \/ LinkSent
    BY <1>1, <2>1, <2>2, <2>8 DEF ResendLate, CancelLate
  <2> QED
    BY <1>3, <2>3, <2>4, <2>5, <2>6, <2>7, <2>8 DEF Drafting
<1>4. CASE Portal
  <2>1. ASSUME NEW t \in DOMAIN tokens, Expire(t) PROVE Silent
    <3>1. tokens # <<>> /\ demand.status \notin Editable
      BY <2>1 DEF AnswerInv
    <3> QED
      BY <2>1, <3>1 DEF Expire, Silent, StageKey
  <2>2. ASSUME NEW c \in Clients, PortalEnd(c) \/ \E t \in DOMAIN tokens : PortalResolve(c, t)
        PROVE  Silent
    BY <2>2 DEF PortalResolve, PortalEnd, Silent, StageKey
  <2> QED
    BY <1>4, <2>1, <2>2 DEF Portal
<1>5. CASE Quoting
  <2>1. ASSUME NEW a, NEW k, NEW q, SubmitQuotation(a, k, q) PROVE Silent
    BY <2>1, <1>1 DEF SubmitQuotation, Silent, Demand, Waiting
  <2>2. ASSUME NEW v \in 1 .. MaxVersions, Reviewable(v), NEW k \in {"approved", "changes"},
               NEW st \in {"approved", "changes_requested"},
               quotations' = [quotations EXCEPT ![v].status = st]
        PROVE  /\ \A m \in messages : m.key # <<k, v>>
               /\ KeyUsed(<<k, v>>)'
    <3>1. v \in DOMAIN quotations /\ quotations[v].status = "submitted"
      BY <2>2 DEF Reviewable
    <3>2. DOMAIN quotations' = DOMAIN quotations /\ quotations'[v].status = st
      BY <2>2, <3>1, DecidedVersion
    <3> QED
      BY <3>1, <3>2 DEF AnswerInv, KeyUsed
  <2>3. ASSUME NEW v \in 1 .. MaxVersions, ApproveQuotation(v) PROVE LinkSent
    <3>1. /\ IssueToken /\ Enqueue("approved", v, demand.content, Len(tokens'))
          /\ demand'.status \notin Editable /\ demand'.content = demand.content
          /\ Reviewable(v) /\ quotations' = [quotations EXCEPT ![v].status = "approved"]
      BY <2>3, <1>1 DEF ApproveQuotation, Demand
    <3>2. /\ \A m \in messages : m.key # <<"approved", v>>
          /\ KeyUsed(<<"approved", v>>)'
      BY <2>2, <3>1
    <3>3. v \in Nat
      BY BoundsAssumption
    <3>4. /\ demand'.status = "awaiting_supplier_bill" /\ demand'.approved = v
          /\ bills' = bills
      BY <2>3, <1>1 DEF ApproveQuotation, Demand
    <3>5. ~ (bills' # <<>> /\ bills'[Len(bills')].version = v)
      <4>1. bills # <<>> => Len(bills) \in DOMAIN bills
        BY Rows
      <4> QED
        BY <3>1, <3>4, <4>1 DEF BillsBehind, Reviewable
    <3>6. StageKey' = <<"approved", v>>
      BY <3>4, <3>5 DEF StageKey
    <3> QED
      BY <1>1, <3>1, <3>2, <3>3, <3>6, SendsLink
  <2>4. ASSUME NEW v \in 1 .. MaxVersions, RequestChanges(v) PROVE LinkSent
    <3>1. /\ IssueToken /\ Enqueue("changes", v, demand.content, Len(tokens'))
          /\ demand'.status \notin Editable /\ demand'.content = demand.content
          /\ Reviewable(v)
          /\ quotations' = [quotations EXCEPT ![v].status = "changes_requested"]
      BY <2>4, <1>1 DEF RequestChanges, Demand
    <3>2. /\ \A m \in messages : m.key # <<"changes", v>>
          /\ KeyUsed(<<"changes", v>>)'
      BY <2>2, <3>1
    <3>3. v \in Nat
      BY BoundsAssumption
    <3>4. demand'.status = "changes_requested" /\ demand'.current = v
      BY <2>4, <1>1 DEF RequestChanges, Reviewable, Demand
    <3>5. StageKey' = <<"changes", v>>
      BY <3>4 DEF StageKey
    <3> QED
      BY <1>1, <3>1, <3>2, <3>3, <3>5, SendsLink
  <2>5. ASSUME NEW v \in 1 .. MaxVersions, RejectQuotation(v) PROVE Notified
    BY <2>5, <1>1 DEF RejectQuotation, Notified, Demand, Waiting
  <2> QED
    BY <1>5, <2>1, <2>3, <2>4, <2>5 DEF Quoting, EnterQuotation, PortalSubmitQuotation
<1>6. CASE Billing
  <2>1. ASSUME NEW b, NEW k, NEW q, NEW t, SubmitBill(b, k, q, t) PROVE Silent
    BY <2>1, <1>1 DEF SubmitBill, Silent, Demand, Waiting
  <2>2. ASSUME NEW b \in 1 .. MaxBills, NEW accept, ApproveBill(b, accept) PROVE Notified
    BY <2>2, <1>1 DEF ApproveBill, Notified, Demand, Waiting
  <2>3. ASSUME NEW b \in 1 .. MaxBills, RejectBill(b) PROVE LinkSent
    <3>1. /\ b \in DOMAIN bills /\ bills[b].status = "submitted"
          /\ bills' = [bills EXCEPT ![b].status = "rejected"]
      BY <2>3 DEF RejectBill, BillReviewable
    <3>2. DOMAIN bills' = DOMAIN bills /\ bills'[b].status = "rejected"
      BY <3>1, DecidedBill
    <3>3. /\ \A m \in messages : m.key # <<"bill_rejected", b>>
          /\ KeyUsed(<<"bill_rejected", b>>)'
      BY <3>1, <3>2 DEF AnswerInv, KeyUsed
    <3>4. /\ IssueToken /\ Enqueue("bill_rejected", b, demand.content, Len(tokens'))
          /\ demand'.status \notin Editable /\ demand'.content = demand.content
      BY <2>3, <1>1 DEF RejectBill, Demand
    <3>5. b \in Nat
      BY BoundsAssumption
    <3>8. /\ demand'.status = "awaiting_supplier_bill" /\ demand'.approved = demand.approved
          /\ b = Len(bills) /\ Len(bills') = Len(bills) /\ bills # <<>> /\ bills' # <<>>
          /\ bills'[b].version = demand.approved
      <4>1. /\ demand'.status = "awaiting_supplier_bill"
            /\ demand'.approved = demand.approved /\ demand.status = "bill_submitted"
        BY <2>3, <1>1 DEF RejectBill, BillReviewable, Demand
      <4>2. b = Len(bills) /\ Len(bills') = Len(bills) /\ bills # <<>> /\ bills' # <<>>
        BY <3>1, Rows DEF BillsBehind
      <4>3. bills'[b].version = bills[b].version
        BY <3>1, DecidedBill
      <4>4. bills[b].version = demand.approved
        BY <3>1, <4>1 DEF DealInv, BillsStand, BillFollowsApproval
      <4> QED
        BY <4>1, <4>2, <4>3, <4>4
    <3>9. StageKey' = <<"bill_rejected", b>>
      BY <3>8 DEF StageKey
    <3> DEFINE k == "bill_rejected"
    <3>6. /\ k \in {"sent", "link", "approved", "changes", "bill_rejected"}
          /\ k # "link" /\ StageKey' = <<k, b>>
      BY <3>9
    <3>7. /\ Enqueue(k, b, demand.content, Len(tokens')) /\ KeyUsed(<<k, b>>)'
          /\ \A m \in messages : m.key # <<k, b>>
      BY <3>3, <3>4
    <3> HIDE DEF k
    <3> QED
      BY <1>1, <3>4, <3>5, <3>6, <3>7, SendsLink
  <2> QED
    BY <1>6, <2>1, <2>2, <2>3 DEF Billing, EnterBill, PortalSubmitBill
<1>7. CASE Receiving
  <2>1. ASSUME NEW st, SaveDelivery(st) PROVE Silent
    BY <2>1, <1>1 DEF SaveDelivery, Silent, Demand, StageKey
  <2>2. ASSUME NEW got, NEW bad, NEW f, NEW q, RecordReceipt(got, bad, f, q) PROVE Silent
    BY <2>2, <1>1 DEF RecordReceipt, Silent, Demand, Waiting
  <2>3. ASSUME NEW l, NEW d, AdjustStock(l, d) PROVE Silent
    BY <2>3 DEF AdjustStock, Silent, StageKey
  <2> QED
    BY <1>7, <2>1, <2>2, <2>3 DEF Receiving
<1> QED
  BY <1>3, <1>4, <1>5, <1>6, <1>7 DEF Next

LEMMA AnswerInvStep ==
    TypeOK /\ DealInv /\ ContentInv /\ AnswerInv /\ BillsBehind /\ [Next]_vars
       => AnswerInv' /\ BillsBehind'
<1> SUFFICES ASSUME TypeOK, DealInv, ContentInv, AnswerInv, BillsBehind, [Next]_vars
             PROVE  AnswerInv' /\ BillsBehind'
  OBVIOUS
<1>1. CASE UNCHANGED vars
  BY <1>1 DEF vars, AnswerInv, BillsBehind, StageTold, StageKey, LinkStands, KeyUsed
<1>2. CASE Next
  <2>1. TypeOK' /\ Forward /\ BillsBehind'
    BY <1>2, TypeStep, DealIsForward, BillsBehindStep
  <2>2. tokens \in Seq(TokenStates) /\ Len(tokens) \in Nat
    BY DEF TypeOK
  <2>3. RevokeTokens =>
          /\ Len(tokens') = Len(tokens) /\ tokens' \in Seq(TokenStates)
          /\ (tokens = <<>> => tokens' = <<>>)
    BY <2>2, RevokeTokensEffect
  <2>4. CASE Silent
    <3>1. /\ Len(tokens') = Len(tokens)
          /\ demand'.status \in Waiting => LinkStands' /\ StageTold'
      <4>1. CASE /\ UNCHANGED tokens
                 /\ demand'.status \in Waiting =>
                      demand.status \in Waiting /\ StageKey' = StageKey
        BY <2>4, <4>1 DEF Silent, LinkStands, StageTold, AnswerInv
      <4>2. CASE (\E t \in DOMAIN tokens : Expire(t)) /\ UNCHANGED <<demand, bills>>
        <5>1. Len(tokens') = Len(tokens) /\ (LinkStands' <=> LinkStands)
          BY <2>2, <4>2 DEF LinkStands, Expire
        <5>2. StageKey' = StageKey
          BY <4>2 DEF StageKey
        <5> QED
          BY <2>4, <4>2, <5>1, <5>2 DEF Silent, StageTold, AnswerInv
      <4>3. CASE RevokeTokens /\ demand'.status \notin Waiting
        BY <2>3, <4>3
      <4> QED
        BY <2>4, <4>1, <4>2, <4>3 DEF Silent
    <3>2. \A m \in messages : KeyUsed(m.key)'
      BY <2>1, <2>2, <3>1, KeysStayUsed DEF AnswerInv
    <3>4. demand'.status \in Editable => tokens' = <<>> /\ messages' = {}
      BY <2>4 DEF Silent, AnswerInv
    <3>5. \A m \in messages : m.key[1] \notin FromDrafts => m.content = demand'.content
      BY <2>4 DEF Silent, AnswerInv
    <3> QED
      BY <2>1, <2>4, <3>1, <3>2, <3>4, <3>5 DEF Silent, AnswerInv
  <2>5. ASSUME NEW k \in MessageKinds, NEW n \in Nat, NEW c, NEW t, Enqueue(k, n, c, t)
        PROVE  /\ messages \subseteq messages'
               /\ \A m \in messages' :
                    m \in messages \/ (m.key = <<k, n>> /\ m.content = c /\ m.link = t)
    BY <2>5 DEF Enqueue
  <2>6. CASE Notified
    <3>1. PICK k \in {"rejected", "bill_approved", "cancelled"}, n \in Nat, c \in Contents :
            Enqueue(k, n, c, 0) /\ (k # "cancelled" => c = demand.content)
      BY <2>6 DEF Notified
    <3>2. \A m \in messages' : m \in messages \/ (m.key = <<k, n>> /\ m.content = c)
      BY <2>5, <3>1 DEF MessageKinds
    <3>3. Len(tokens') = Len(tokens)
      BY <2>3, <2>6 DEF Notified
    <3>4. \A m \in messages' : KeyUsed(m.key)'
      <4>1. KeyUsed(<<k, n>>)'
        BY DEF KeyUsed
      <4>2. \A m \in messages : KeyUsed(m.key)'
        BY <2>1, <2>2, <3>3, KeysStayUsed DEF AnswerInv
      <4> QED
        BY <3>2, <4>1, <4>2
    <3>5. ASSUME NEW m \in messages', m.key[1] \notin FromDrafts
          PROVE  m.content = demand'.content
      <4>1. CASE m \in messages
        BY <2>6, <3>5, <4>1 DEF Notified, AnswerInv
      <4>2. CASE m.key = <<k, n>> /\ m.content = c
        BY <2>6, <3>1, <3>5, <4>2 DEF Notified, FromDrafts
      <4> QED
        BY <3>2, <4>1, <4>2
    <3> QED
      BY <2>1, <2>6, <3>4, <3>5 DEF Notified, AnswerInv
  <2>7. CASE LinkSent
    <3>1. PICK k \in {"sent", "link", "approved", "changes", "bill_rejected"}, n \in Nat,
               c \in Contents :
            /\ Enqueue(k, n, c, Len(tokens'))
            /\ \A m \in messages : m.key # <<k, n>>
            /\ KeyUsed(<<k, n>>)'
            /\ \/ k = "link" /\ n = Len(tokens') /\ UNCHANGED <<demand, bills>>
               \/ k # "link" /\ c = demand.content /\ StageKey' = <<k, n>>
      BY <2>7 DEF LinkSent
    <3>2. /\ Len(tokens') = Len(tokens) + 1 /\ tokens'[Len(tokens')] = "live"
          /\ tokens' # <<>>
      BY <2>2, <2>7, IssueTokenEffect DEF LinkSent
    <3>3. /\ messages \subseteq messages'
          /\ \A m \in messages' : m \in messages \/ (m.key = <<k, n>> /\ m.content = c)
      BY <2>5, <3>1 DEF MessageKinds
    <3>4. LinkStands'
      BY <3>2 DEF LinkStands
    <3>5. PICK new \in messages' : new.key = <<k, n>> /\ new.link = Len(tokens')
      <4> DEFINE row == [key |-> <<k, n>>, content |-> c, link |-> Len(tokens')]
      <4>1. ~ \E m \in messages : m.key = <<k, n>>
        BY <3>1
      <4>2. messages' = messages \cup {row}
        BY <3>1, <4>1 DEF Enqueue
      <4>3. row \in messages' /\ row.key = <<k, n>> /\ row.link = Len(tokens')
        BY <4>2
      <4> HIDE DEF row
      <4> QED
        BY <4>3
    <3>6. \A m \in messages' : KeyUsed(m.key)'
      <4>1. \A m \in messages : KeyUsed(m.key)'
        BY <2>1, <2>2, <3>2, KeysStayUsed DEF AnswerInv
      <4> QED
        BY <3>1, <3>3, <4>1
    <3>7. ASSUME NEW m \in messages', m.key[1] \notin FromDrafts
          PROVE  m.content = demand'.content
      <4>1. CASE m \in messages
        BY <2>7, <3>7, <4>1 DEF LinkSent, AnswerInv
      <4>2. CASE m.key = <<k, n>> /\ m.content = c
        BY <2>7, <3>1, <3>7, <4>2 DEF LinkSent, FromDrafts
      <4> QED
        BY <3>3, <4>1, <4>2
    <3>8. demand'.status \in Waiting => StageTold'
      <4>1. CASE k # "link" /\ StageKey' = <<k, n>>
        BY <3>5, <4>1 DEF StageTold
      <4>2. CASE k = "link" /\ n = Len(tokens') /\ UNCHANGED <<demand, bills>>
        <5>1. StageKey' = StageKey
          BY <4>2 DEF StageKey
        <5>2. SUFFICES ASSUME demand.status \in Waiting PROVE StageTold'
          BY <4>2
        <5>3. PICK m \in messages : m.key = StageKey /\ m.link <= Len(tokens)
          <6>1. PICK m \in messages :
                  /\ m.key = StageKey
                  /\ \/ m.link = Len(tokens)
                     \/ \E r \in messages : m.link < r.link /\ r.link = Len(tokens)
            BY <5>2 DEF AnswerInv, StageTold
          <6>2. m.link \in Int
            BY <2>1, BoundsAssumption DEF TypeOK, Message
          <6> QED
            BY <2>2, <6>1, <6>2
        <5>4. m \in messages' /\ m.link < Len(tokens')
          <6>1. m.link \in Int
            BY <5>3, BoundsAssumption DEF TypeOK, Message
          <6> QED
            BY <2>2, <3>2, <3>3, <5>3, <6>1
        <5>5. /\ new \in messages' /\ new.key = <<"link", Len(tokens')>>
              /\ m.link < new.link /\ new.link = Len(tokens')
          BY <3>5, <4>2, <5>4
        <5> QED
          BY <5>1, <5>3, <5>4, <5>5 DEF StageTold
      <4> QED
        BY <3>1, <4>1, <4>2
    <3> QED
      BY <2>1, <2>7, <3>4, <3>6, <3>7, <3>8 DEF LinkSent, AnswerInv
  <2> QED
    BY <1>2, <2>1, <2>4, <2>6, <2>7, MailSteps
<1> QED
  BY <1>1, <1>2

\* A demand that waits for its supplier told him so, for the version or the bill it waits
\* for, in a message that no earlier message's key swallowed; its newest link is in that
\* message or in a resend after it, and nothing but time can have ended it.  What he was
\* told of is the demand as it is, although the text was composed before it was locked.
THEOREM SupplierAsked == Spec => []SupplierIsAsked
<1>1. Init => ContentInv /\ AnswerInv /\ BillsBehind
  BY BoundsAssumption DEF Init, ContentInv, ScreensBehind, VerifiedIsSendable,
     SentContentWasChecked, NothingRead, AnswerInv, BillsBehind, Waiting
<1>2. AnswerInv => SupplierIsAsked
  BY DEF AnswerInv, SupplierIsAsked, Waiting, LinkStands, StageTold, FromDrafts
<1> QED
  BY <1>1, <1>2, TypeInit, TypeStep, DealInvInit, DealInvStep, ContentInvStep,
     AnswerInvStep, PTL DEF Spec

-----------------------------------------------------------------------------
(* SupplierSettlement: the inductive invariant                              *)

\* TypeOK but for the length of the book, which BookFollowsPayments bounds.
Shape ==
    /\ payments \in [Payments -> {Absent} \cup Payment]
    /\ credits \in [Credits -> Credit]
    /\ book \in [Payments -> Seq(Entry)]
    /\ paymentStatus \in DemandPaid
    /\ tx \in [Clerks -> {NoTx} \cup Begun \cup Refreshed]

\* A payment that is being approved still waits; one that is being reversed is
\* posted, and its voucher is live and says the payment's amount.
DecidesOnWhatItChecked ==
    \A f \in Clerks :
       /\ tx[f].kind \in {"approve", "approving"} =>
            payments[tx[f].payment].status = "pending_approval"
       /\ tx[f].kind \in {"reverse", "reversing"} =>
            payments[tx[f].payment].status = "posted" /\ Reversible(tx[f].payment)

\* The row lock: two transactions never decide on one payment.
OnePerPayment ==
    \A f, g \in Clerks :
       tx[f].kind # "none" /\ tx[g].kind # "none" /\ tx[f].payment = tx[g].payment => f = g

SettlementInv == Shape /\ DecidesOnWhatItChecked /\ OnePerPayment /\ BookFollowsPayments

LEMMA SettlementInitially == SettlementInit => SettlementInv
<1> SUFFICES ASSUME SettlementInit PROVE SettlementInv
  OBVIOUS
<1>1. Shape
  BY SettlementAssumption DEF SettlementInit, Shape, Credit, CreditStatuses, DemandPaid
<1>2. DecidesOnWhatItChecked /\ OnePerPayment
  BY DEF SettlementInit, DecidesOnWhatItChecked, OnePerPayment, NoTx
<1>3. BookFollowsPayments
  BY DEF SettlementInit, BookFollowsPayments, Absent
<1> QED
  BY <1>1, <1>2, <1>3 DEF SettlementInv

LEMMA TxType ==
    ASSUME Shape, NEW f \in Clerks
    PROVE  /\ tx[f].kind \in {"none", "approve", "reverse", "approving", "reversing"}
           /\ tx[f].kind = "none" => tx[f] = NoTx
           /\ tx[f].kind # "none" => tx[f].payment \in Payments
  BY DEF Shape, NoTx, Begun, Refreshed

-----------------------------------------------------------------------------
(* Recording                                                                *)

\* A new payment is in nobody's transaction: its row did not exist.
LEMMA RecordKeeps ==
    ASSUME SettlementInv, NEW p \in Payments, NEW x \in Payment, payments[p] = Absent,
           x.status = "pending_approval",
           payments' = [payments EXCEPT ![p] = x], UNCHANGED <<credits, book, paymentStatus, tx>>
    PROVE  SettlementInv'
<1> USE DEF SettlementInv
<1>1. /\ payments' \in [Payments -> {Absent} \cup Payment]
      /\ payments'[p] = x
      /\ \A q \in Payments \ {p} : payments'[q] = payments[q]
  BY DEF Shape
<1>2. \A f \in Clerks : tx[f].kind # "none" => tx[f].payment \in Payments \ {p}
  BY TxType DEF DecidesOnWhatItChecked, Absent
<1>3. Shape' /\ OnePerPayment'
  BY <1>1 DEF Shape, OnePerPayment
<1>4. DecidesOnWhatItChecked'
  BY <1>1, <1>2, TxType DEF DecidesOnWhatItChecked, Reversible
<1>5. BookFollowsPayments'
  BY <1>1 DEF BookFollowsPayments, Absent
<1> QED
  BY <1>3, <1>4, <1>5

\* A rejection, of a payment in nobody's transaction.
LEMMA RejectKeeps ==
    ASSUME SettlementInv, NEW p \in Payments, RejectPayment(p)
    PROVE  SettlementInv'
<1> USE DEF SettlementInv
<1>1. payments[p] \in Payment
  BY DEF RejectPayment, Shape, Absent
<1>2. /\ payments' \in [Payments -> {Absent} \cup Payment]
      /\ payments'[p].status = "rejected"
      /\ \A q \in Payments \ {p} : payments'[q] = payments[q]
      /\ UNCHANGED <<credits, book, paymentStatus, tx>>
  BY <1>1 DEF RejectPayment, Shape, Payment
<1>3. \A f \in Clerks : tx[f].kind # "none" => tx[f].payment \in Payments \ {p}
  BY TxType DEF RejectPayment, RowFree
<1>4. Shape' /\ OnePerPayment'
  BY <1>2 DEF Shape, OnePerPayment
<1>5. DecidesOnWhatItChecked'
  BY <1>2, <1>3, TxType DEF DecidesOnWhatItChecked, Reversible
<1>6. BookFollowsPayments'
  BY <1>2 DEF BookFollowsPayments, RejectPayment
<1> QED
  BY <1>4, <1>5, <1>6

-----------------------------------------------------------------------------
(* Deciding                                                                 *)

LEMMA BeginKeeps ==
    ASSUME SettlementInv, NEW f \in Clerks, NEW p \in Payments,
           BeginApprove(f, p) \/ BeginReverse(f, p)
    PROVE  SettlementInv'
<1> USE DEF SettlementInv
<1>1. PICK k \in {"approve", "reverse"} : tx' = [tx EXCEPT ![f] = [kind |-> k, payment |-> p]]
                                          /\ (k = "approve" => BeginApprove(f, p))
                                          /\ (k = "reverse" => BeginReverse(f, p))
  BY DEF BeginApprove, BeginReverse
<1>2. /\ tx' \in [Clerks -> {NoTx} \cup Begun \cup Refreshed]
      /\ tx'[f].kind = k /\ tx'[f].payment = p
      /\ \A g \in Clerks \ {f} : tx'[g] = tx[g]
      /\ UNCHANGED <<payments, credits, book, paymentStatus>>
      /\ RowFree(p)
  BY <1>1 DEF BeginApprove, BeginReverse, Shape, Begun
<1>3. Shape' /\ BookFollowsPayments'
  BY <1>2 DEF Shape, BookFollowsPayments
<1>4. DecidesOnWhatItChecked'
  BY <1>1, <1>2 DEF DecidesOnWhatItChecked, BeginApprove, BeginReverse, Reversible
<1>5. OnePerPayment'
  BY <1>2 DEF OnePerPayment, RowFree
<1> QED
  BY <1>3, <1>4, <1>5

LEMMA CreditStatusType ==
    ASSUME Shape, NEW c \in Credits, NEW n
    PROVE  CreditStatus(c, n) \in CreditStatuses
  BY DEF Shape, Credit, CreditStatus, CreditStatuses

LEMMA AfterCreditType ==
    ASSUME Shape, NEW f \in Clerks, payments[tx[f].payment].credit \in Credits \cup {NoCredit}
    PROVE  AfterCredit(f) \in CreditStatuses
  BY CreditStatusType DEF AfterCredit, CreditStatuses

\* The refresh writes nothing anybody sees before the commit.
LEMMA RefreshKeeps ==
    ASSUME SettlementInv, NEW f \in Clerks, Refresh(f)
    PROVE  SettlementInv'
<1> USE DEF SettlementInv
<1>1. /\ tx[f].payment \in Payments
      /\ payments[tx[f].payment] \in Payment
  BY TxType DEF Refresh, DecidesOnWhatItChecked, Shape, Absent
<1>2. PaidStatus(AmountOf(PostedWith(f))) \in DemandPaid
  BY DEF PaidStatus, DemandPaid
<1>3. AfterCredit(f) \in CreditStatuses
  BY <1>1, AfterCreditType DEF Payment
<1>4. PICK paid \in DemandPaid, credit \in CreditStatuses, k \in {"approving", "reversing"} :
         /\ tx' = [tx EXCEPT ![f] = [kind |-> k, payment |-> tx[f].payment,
                                     paid |-> paid, credit |-> credit]]
         /\ k = "approving" => tx[f].kind = "approve"
         /\ k = "reversing" => tx[f].kind = "reverse"
  BY <1>2, <1>3 DEF Refresh
<1>5. /\ tx' \in [Clerks -> {NoTx} \cup Begun \cup Refreshed]
      /\ tx'[f].kind = k /\ tx'[f].payment = tx[f].payment
      /\ \A g \in Clerks \ {f} : tx'[g] = tx[g]
      /\ UNCHANGED <<payments, credits, book, paymentStatus>>
  BY <1>1, <1>4 DEF Refresh, Shape, Refreshed
<1>6. Shape' /\ BookFollowsPayments'
  BY <1>5 DEF Shape, BookFollowsPayments
<1>7. DecidesOnWhatItChecked'
  BY <1>4, <1>5 DEF DecidesOnWhatItChecked, Reversible
<1>8. OnePerPayment'
  BY <1>4, <1>5 DEF OnePerPayment
<1> QED
  BY <1>6, <1>7, <1>8

\* A transaction that ends without a trace.
LEMMA EndKeeps ==
    ASSUME SettlementInv, NEW f \in Clerks, Rollback(f) \/ ReversalRefused(f)
    PROVE  SettlementInv'
<1> USE DEF SettlementInv
<1>1. /\ tx' \in [Clerks -> {NoTx} \cup Begun \cup Refreshed]
      /\ tx'[f] = NoTx
      /\ \A g \in Clerks \ {f} : tx'[g] = tx[g]
      /\ UNCHANGED <<payments, credits, book, paymentStatus>>
  BY DEF Rollback, ReversalRefused, Shape
<1>2. Shape' /\ BookFollowsPayments'
  BY <1>1 DEF Shape, BookFollowsPayments
<1>3. DecidesOnWhatItChecked' /\ OnePerPayment'
  BY <1>1 DEF DecidesOnWhatItChecked, OnePerPayment, Reversible, NoTx
<1> QED
  BY <1>2, <1>3

\* What a commit leaves alone: the other payments, their books, their clerks.
LEMMA CommitFrame ==
    ASSUME SettlementInv, NEW f \in Clerks, NEW p \in Payments, p = tx[f].payment,
           tx[f].kind \in {"approving", "reversing"},
           paymentStatus' = tx[f].paid, SetCredit(f), tx' = [tx EXCEPT ![f] = NoTx],
           NEW st \in {"posted", "reversed"}, payments' = [payments EXCEPT ![p].status = st],
           NEW b \in Seq(Entry), book' = [book EXCEPT ![p] = b],
           st = "posted" =>
              Len(b) = 1 /\ b[1].series = "PV" /\ b[1].state \in {"posted", "deleted"},
           st = "reversed" =>
              /\ Len(b) = 2
              /\ b[1].series = "PV" /\ b[2].series = "RV"
              /\ b[1].state = "reversed"
              /\ b[1].amount = b[2].amount
    PROVE  SettlementInv'
<1> USE DEF SettlementInv
<1>1. payments[p] \in Payment
  BY DEF DecidesOnWhatItChecked, Shape, Absent
<1>2. /\ payments' \in [Payments -> {Absent} \cup Payment]
      /\ payments'[p].status = st
      /\ \A q \in Payments \ {p} : payments'[q] = payments[q]
  BY <1>1 DEF Shape, Payment
<1>3. /\ book' \in [Payments -> Seq(Entry)]
      /\ book'[p] = b
      /\ \A q \in Payments \ {p} : book'[q] = book[q]
  BY DEF Shape
<1>4. /\ tx' \in [Clerks -> {NoTx} \cup Begun \cup Refreshed]
      /\ tx'[f] = NoTx
      /\ \A g \in Clerks \ {f} : tx'[g] = tx[g]
  BY DEF Shape
<1>5. tx[f] \in Refreshed
  <2>1. tx[f] \in {NoTx} \cup Begun \cup Refreshed
    BY DEF Shape
  <2>2. tx[f] # NoTx
    BY DEF NoTx
  <2>3. tx[f] \notin Begun
    BY DEF Begun
  <2> QED
    BY <2>1, <2>2, <2>3
<1>6. paymentStatus' \in DemandPaid
  BY <1>5 DEF Refreshed
<1>7. credits' \in [Credits -> Credit]
  <2>1. tx[f].credit \in CreditStatuses
    BY <1>5 DEF Refreshed
  <2>2. ASSUME NEW c \in Credits, credits' = [credits EXCEPT ![c].status = tx[f].credit]
        PROVE  credits' \in [Credits -> Credit]
    BY <2>1, <2>2 DEF Shape, Credit
  <2> QED
    BY <1>1, <2>2 DEF SetCredit, Shape, Payment
<1>8. Shape'
  BY <1>2, <1>3, <1>4, <1>6, <1>7 DEF Shape
<1>9. \A g \in Clerks \ {f} : tx[g].kind # "none" => tx[g].payment \in Payments \ {p}
  BY TxType DEF OnePerPayment
<1>10. DecidesOnWhatItChecked'
  BY <1>2, <1>3, <1>4, <1>9, TxType DEF DecidesOnWhatItChecked, Reversible, NoTx
<1>11. OnePerPayment'
  BY <1>4 DEF OnePerPayment, NoTx
<1>12. BookFollowsPayments'
  BY <1>2, <1>3 DEF BookFollowsPayments
<1> QED
  BY <1>8, <1>10, <1>11, <1>12

LEMMA VoucherType ==
    ASSUME NEW p \in Payments, payments[p] \in Payment, NEW series \in {"PV", "RV"}
    PROVE  Voucher(series, p) \in Entry
  BY DEF Voucher, Payment, Entry

LEMMA AppendToOne ==
    ASSUME NEW S, NEW s \in Seq(S), NEW y \in S, Len(s) = 1
    PROVE  /\ Append(s, y) \in Seq(S) /\ Len(Append(s, y)) = 2
           /\ Append(s, y)[1] = s[1] /\ Append(s, y)[2] = y
<1>1. Append(s, y) \in Seq(S) /\ Len(Append(s, y)) = Len(s) + 1
  BY AppendProperties, Zenon
<1>2. Append(s, y)[Len(s) + 1] = y
  BY AppendProperties, Zenon
<1>3. Len(s) + 1 = 2
  OBVIOUS
<1>4. Append(s, y)[1] = s[1]
  OBVIOUS
<1> QED
  BY <1>1, <1>2, <1>3, <1>4, Zenon

LEMMA SecondEntry ==
    ASSUME NEW s \in Seq(Entry), NEW y \in Entry, Len(s) = 1
    PROVE  /\ Append(s, y) \in Seq(Entry) /\ Len(Append(s, y)) = 2
           /\ Append(s, y)[1] = s[1] /\ Append(s, y)[2] = y
  BY AppendToOne, Zenon

LEMMA CommitApproveKeeps ==
    ASSUME SettlementInv, NEW f \in Clerks, CommitApprove(f)
    PROVE  SettlementInv'
<1> USE DEF SettlementInv
<1>1. PICK p \in Payments : p = tx[f].payment
  BY TxType DEF CommitApprove
<1>2. payments[p].status = "pending_approval" /\ payments[p] \in Payment
  BY <1>1 DEF CommitApprove, DecidesOnWhatItChecked, Shape, Absent
<1>3. book[p] = <<>>
  BY <1>2 DEF BookFollowsPayments
<1> DEFINE b == Append(book[p], Voucher("PV", p))
<1>4. b = <<Voucher("PV", p)>> /\ b \in Seq(Entry)
  BY <1>2, <1>3, VoucherType
<1> HIDE DEF b
<1>5. Len(b) = 1 /\ b[1].series = "PV" /\ b[1].state = "posted"
  BY <1>4 DEF Voucher
<1>6. /\ book' = [book EXCEPT ![p] = b]
      /\ payments' = [payments EXCEPT ![p].status = "posted"]
      /\ tx[f].kind = "approving"
      /\ paymentStatus' = tx[f].paid
      /\ SetCredit(f)
      /\ tx' = [tx EXCEPT ![f] = NoTx]
  BY <1>1 DEF CommitApprove, b
<1> QED
  BY <1>1, <1>4, <1>5, <1>6, CommitFrame

LEMMA CommitReverseKeeps ==
    ASSUME SettlementInv, NEW f \in Clerks, CommitReverse(f)
    PROVE  SettlementInv'
<1> USE DEF SettlementInv
<1>1. PICK p \in Payments : p = tx[f].payment
  BY TxType DEF CommitReverse
<1>2. /\ payments[p].status = "posted" /\ payments[p] \in Payment
      /\ Reversible(p)
  BY <1>1 DEF CommitReverse, DecidesOnWhatItChecked, Shape, Absent
<1>3. Len(book[p]) = 1 /\ book[p][1].series = "PV" /\ book[p] \in Seq(Entry)
  BY <1>2 DEF BookFollowsPayments, Shape
<1>4. book[p][1] \in Entry
  BY <1>3
<1> DEFINE v == [book[p][1] EXCEPT !.state = "reversed"]
           old == [book[p] EXCEPT ![1].state = "reversed"]
           b == Append(old, Voucher("RV", p))
<1>5. /\ v \in Entry
      /\ v.state = "reversed" /\ v.series = "PV" /\ v.amount = payments[p].amount
  BY <1>2, <1>3, <1>4 DEF Entry, Reversible
<1>6. old = [book[p] EXCEPT ![1] = v]
  BY <1>3
<1> HIDE DEF v, old
<1>7. old \in Seq(Entry) /\ Len(old) = 1 /\ old[1] = v
  BY <1>3, <1>5, <1>6
<1>8. /\ b \in Seq(Entry) /\ Len(b) = 2
      /\ b[1] = v /\ b[2] = Voucher("RV", p)
  <2>1. Voucher("RV", p) \in Entry
    BY <1>2, VoucherType
  <2> QED
    BY <1>7, <2>1, SecondEntry
<1>9. b[2].series = "RV" /\ b[2].amount = payments[p].amount
  BY <1>8 DEF Voucher
<1>10. /\ book' = [book EXCEPT ![p] = b]
       /\ payments' = [payments EXCEPT ![p].status = "reversed"]
       /\ tx[f].kind = "reversing"
       /\ paymentStatus' = tx[f].paid
       /\ SetCredit(f)
       /\ tx' = [tx EXCEPT ![f] = NoTx]
  BY <1>1 DEF CommitReverse, old
<1> HIDE DEF b
<1> QED
  BY <1>1, <1>5, <1>8, <1>9, <1>10, CommitFrame

-----------------------------------------------------------------------------
(* Correcting                                                               *)

\* The ledger changes what a voucher says or deletes it, never while a reversal
\* holds its row.
LEMMA CorrectKeeps ==
    ASSUME SettlementInv, NEW p \in Payments, Correctable(p), NEW x \in Entry,
           x.series = book[p][1].series, x.state \in {"posted", "deleted"},
           book' = [book EXCEPT ![p] = [@ EXCEPT ![1] = x]],
           UNCHANGED <<payments, credits, paymentStatus, tx>>
    PROVE  SettlementInv'
<1> USE DEF SettlementInv
<1>1. book[p] \in Seq(Entry) /\ book[p] # <<>>
  BY DEF Shape, Correctable
<1>2. payments[p].status = "posted"
  BY DEF Correctable, BookFollowsPayments, Shape, Absent, Payment
<1>3. /\ book' \in [Payments -> Seq(Entry)]
      /\ Len(book'[p]) = 1 /\ book'[p][1] = x
      /\ \A q \in Payments \ {p} : book'[q] = book[q]
  BY <1>1, <1>2 DEF Shape, BookFollowsPayments
<1>4. Shape' /\ OnePerPayment'
  BY <1>3 DEF Shape, OnePerPayment
<1>5. DecidesOnWhatItChecked'
  BY <1>3, TxType DEF DecidesOnWhatItChecked, Reversible, Correctable
<1>6. BookFollowsPayments'
  BY <1>2, <1>3 DEF BookFollowsPayments
<1> QED
  BY <1>4, <1>5, <1>6

LEMMA EditKeeps ==
    ASSUME SettlementInv, NEW p \in Payments, NEW n \in Amount, NEW a \in Accounts,
           EditVoucher(p, n, a)
    PROVE  SettlementInv'
<1> DEFINE x == [book[p][1] EXCEPT !.amount = n, !.account = a]
<1>1. book[p] \in Seq(Entry) /\ Len(book[p]) > 0 /\ book[p][1] \in Entry
  BY DEF SettlementInv, Shape, EditVoucher, Correctable
<1>2. /\ x \in Entry
      /\ x.series = book[p][1].series /\ x.state = "posted"
  BY <1>1 DEF Entry, EditVoucher, Correctable
<1>3. book' = [book EXCEPT ![p] = [@ EXCEPT ![1] = x]]
  BY <1>1 DEF EditVoucher, SettlementInv, Shape
<1> HIDE DEF x
<1> QED
  BY <1>2, <1>3, CorrectKeeps DEF EditVoucher

LEMMA DeleteKeeps ==
    ASSUME SettlementInv, NEW p \in Payments, DeleteVoucher(p)
    PROVE  SettlementInv'
<1> DEFINE x == [book[p][1] EXCEPT !.state = "deleted"]
<1>1. book[p] \in Seq(Entry) /\ Len(book[p]) > 0 /\ book[p][1] \in Entry
  BY DEF SettlementInv, Shape, DeleteVoucher, Correctable
<1>2. /\ x \in Entry
      /\ x.series = book[p][1].series /\ x.state = "deleted"
  BY <1>1 DEF Entry
<1>3. book' = [book EXCEPT ![p] = [@ EXCEPT ![1] = x]]
  BY <1>1 DEF DeleteVoucher, SettlementInv, Shape
<1> HIDE DEF x
<1> QED
  BY <1>2, <1>3, CorrectKeeps DEF DeleteVoucher

\* Deleting a posted payment's voucher is DeleteVoucher; of a reversed one's two
\* entries the amounts stand.
LEMMA DeskKeeps ==
    ASSUME SettlementInv, NEW p \in Payments, NEW i \in 1 .. 2, DeskDelete(p, i)
    PROVE  SettlementInv'
<1> DEFINE st == IF book[p][i].state = "reversed" THEN "erased" ELSE "deleted"
           x == [book[p][i] EXCEPT !.state = st]
<1> USE DEF SettlementInv
<1>1. book[p] \in Seq(Entry) /\ i \in 1 .. Len(book[p]) /\ book[p][i] \in Entry
  BY DEF Shape, DeskDelete
<1>2. /\ x \in Entry
      /\ x.series = book[p][i].series /\ x.amount = book[p][i].amount /\ x.state = st
  BY <1>1 DEF Entry
<1>3. book' = [book EXCEPT ![p] = [@ EXCEPT ![i] = x]]
  BY <1>1 DEF DeskDelete, Shape
<1>4. payments[p].status \in {"posted", "reversed"}
  BY <1>1 DEF BookFollowsPayments, Shape, Absent, Payment
<1>5. CASE payments[p].status = "posted"
  <2>1. i = 1 /\ book[p][1].state = "posted"
    BY <1>1, <1>5 DEF BookFollowsPayments, DeskDelete
  <2>2. Correctable(p)
    BY <1>1, <2>1 DEF DeskDelete, Correctable
  <2>3. x.state \in {"posted", "deleted"} /\ x.series = book[p][1].series
    BY <1>2, <2>1
  <2> HIDE DEF x
  <2> QED
    BY <1>2, <1>3, <2>1, <2>2, <2>3, CorrectKeeps DEF DeskDelete
<1>6. CASE payments[p].status = "reversed"
  <2> HIDE DEF x
  <2>1. /\ book' \in [Payments -> Seq(Entry)]
        /\ Len(book'[p]) = 2
        /\ \A j \in 1 .. 2 : /\ book'[p][j].series = book[p][j].series
                             /\ book'[p][j].amount = book[p][j].amount
        /\ book'[p][1].state \in {book[p][1].state, st}
        /\ i = 1 => book'[p][1].state = st
        /\ i = 2 => book'[p][1].state = book[p][1].state
        /\ \A q \in Payments \ {p} : book'[q] = book[q]
    BY <1>1, <1>2, <1>3, <1>6 DEF Shape, BookFollowsPayments
  <2>2. book'[p][1].state \in {"reversed", "erased"}
    BY <1>1, <1>6, <2>1 DEF BookFollowsPayments, DeskDelete
  <2>3. Shape' /\ OnePerPayment'
    BY <2>1 DEF Shape, OnePerPayment, DeskDelete
  <2>4. DecidesOnWhatItChecked'
    BY <1>6, <2>1, TxType DEF DecidesOnWhatItChecked, Reversible, DeskDelete
  <2>5. BookFollowsPayments'
    BY <1>6, <2>1, <2>2 DEF BookFollowsPayments, DeskDelete
  <2> QED
    BY <2>3, <2>4, <2>5
<1> QED
  BY <1>4, <1>5, <1>6

\* A credit's own life, apart from payments.
LEMMA CreditKeeps ==
    ASSUME SettlementInv, NEW c \in Credits,
           \/ \E n \in Amount : RequestCredit(c, n) \/ ApproveCredit(c, n)
           \/ RejectCredit(c)
    PROVE  SettlementInv'
<1> USE DEF SettlementInv
<1>1. UNCHANGED <<payments, book, paymentStatus, tx>>
  BY DEF RequestCredit, ApproveCredit, RejectCredit
<1>2. credits' \in [Credits -> Credit]
  <2>1. ASSUME NEW n \in Amount, RequestCredit(c, n) PROVE credits' \in [Credits -> Credit]
    <3>1. n \in 0 .. MaxAmount
      BY SettlementAssumption DEF Amount
    <3>2. [[credits[c] EXCEPT !.status = "pending_approval"] EXCEPT !.requested = n] \in Credit
      BY <3>1 DEF Shape, Credit, CreditStatuses
    <3> QED
      BY <2>1, <3>2 DEF RequestCredit, Shape
  <2>2. ASSUME NEW n \in Amount, ApproveCredit(c, n) PROVE credits' \in [Credits -> Credit]
    <3>1. n \in 0 .. MaxAmount
      BY SettlementAssumption DEF Amount
    <3>2. [[credits[c] EXCEPT !.status = "active"] EXCEPT !.approved = n] \in Credit
      BY <3>1 DEF Shape, Credit, CreditStatuses
    <3> QED
      BY <2>2, <3>2 DEF ApproveCredit, Shape
  <2>3. CASE RejectCredit(c)
    BY <2>3 DEF RejectCredit, Shape, Credit, CreditStatuses
  <2> QED
    BY <2>1, <2>2, <2>3
<1>3. Shape' /\ OnePerPayment' /\ BookFollowsPayments'
  BY <1>1, <1>2 DEF Shape, OnePerPayment, BookFollowsPayments
<1>4. DecidesOnWhatItChecked'
  BY <1>1 DEF DecidesOnWhatItChecked, Reversible
<1> QED
  BY <1>3, <1>4

-----------------------------------------------------------------------------
LEMMA SettlementStep == SettlementInv /\ [SettlementNext]_settlementVars => SettlementInv'
<1> SUFFICES ASSUME SettlementInv, [SettlementNext]_settlementVars PROVE SettlementInv'
  OBVIOUS
<1>1. CASE UNCHANGED settlementVars
  BY <1>1 DEF settlementVars, SettlementInv, Shape, DecidesOnWhatItChecked, Reversible, OnePerPayment,
              BookFollowsPayments
<1>2. CASE Recording
  <2>1. ASSUME NEW p \in Payments, NEW n \in Amount, NEW a \in Accounts, NEW s \in Recorders,
               RecordDirect(p, n, a, s)
        PROVE  SettlementInv'
    <3> DEFINE x == [status |-> "pending_approval", amount |-> n, account |-> a,
                     credit |-> NoCredit, by |-> s]
    <3>1. x \in Payment /\ x.status = "pending_approval"
      BY DEF Payment
    <3> QED
      BY <2>1, <3>1, RecordKeeps DEF RecordDirect
  <2>2. ASSUME NEW p \in Payments, NEW c \in Credits, NEW n \in Amount, NEW a \in Accounts,
               NEW s \in Recorders, RecordRepayment(p, c, n, a, s)
        PROVE  SettlementInv'
    <3> DEFINE x == [status |-> "pending_approval", amount |-> n, account |-> a,
                     credit |-> c, by |-> s]
    <3>1. x \in Payment /\ x.status = "pending_approval"
      BY DEF Payment
    <3> QED
      BY <2>2, <3>1, RecordKeeps DEF RecordRepayment
  <2> QED
    BY <1>2, <2>1, <2>2, CreditKeeps DEF Recording
<1>3. CASE Deciding
  BY <1>3, CreditKeeps, RejectKeeps, BeginKeeps, RefreshKeeps, EndKeeps, CommitApproveKeeps,
     CommitReverseKeeps DEF Deciding
<1>4. CASE Correcting
  BY <1>4, EditKeeps, DeleteKeeps, DeskKeeps DEF Correcting
<1> QED
  BY <1>1, <1>2, <1>3, <1>4 DEF SettlementNext

\* Every record of a bill's payments is well typed, and a payment has at most two
\* entries in the book.
THEOREM SettlementTyped == SettlementSpec => []SettlementTypeOK
<1>1. SettlementInv => SettlementTypeOK
  <2> SUFFICES ASSUME SettlementInv, NEW p \in Payments PROVE Len(book[p]) <= 2
    BY DEF SettlementInv, Shape, SettlementTypeOK
  <2>1. payments[p] = Absent \/ payments[p] \in Payment
    BY DEF SettlementInv, Shape
  <2>2. payments[p].status \in {"none", "pending_approval", "posted", "rejected", "reversed"}
    BY <2>1 DEF Absent, Payment
  <2>3. Len(<<>>) = 0
    OBVIOUS
  <2>4. \/ book[p] = <<>>
        \/ Len(book[p]) = 1
        \/ Len(book[p]) = 2
    BY <2>2 DEF SettlementInv, BookFollowsPayments
  <2>5. CASE book[p] = <<>>
    BY <2>3, <2>5
  <2>6. CASE Len(book[p]) = 1
    BY <2>6
  <2>7. CASE Len(book[p]) = 2
    BY <2>7
  <2> QED
    BY <2>4, <2>5, <2>6, <2>7
<1> QED
  BY <1>1, SettlementInitially, SettlementStep, PTL DEF SettlementSpec

\* A payment has no voucher before it is approved, one once it is, and an
\* opposite entry of the voucher's amount once it is reversed, with clerks
\* approving and reversing at once and the ledger correcting vouchers in between
\* (supplier_payment_approve, supplier_payment_reverse, edit_ledger_entry).
THEOREM BookCorrect == SettlementSpec => []BookFollowsPayments
<1>1. SettlementInv => BookFollowsPayments
  BY DEF SettlementInv
<1> QED
  BY <1>1, SettlementInitially, SettlementStep, PTL DEF SettlementSpec

-----------------------------------------------------------------------------
(* Money: the payments of a bill against its total and its credits          *)

Posted == {"posted"}
Outstanding == {"pending_approval", "posted"}
Granted == {"active", "settled"}

\* M gives every recorded payment its amount.
Prices(M, pay) == \A p \in Payments : pay[p] # Absent => M[p] = pay[p].amount

\* The payments in a status, and those of them that repay a credit.
Of(pay, st) == {p \in Payments : pay[p].status \in st}
On(pay, st, c) == {p \in Of(pay, st) : pay[p].credit = c}

\* The posted payments once transaction t commits.
After(pay, t) ==
    IF t.kind \in {"approve", "approving"} THEN Of(pay, Posted) \cup {t.payment}
                                           ELSE Of(pay, Posted) \ {t.payment}
AfterOn(pay, t, c) == {p \in After(pay, t) : pay[p].credit = c}

SetAside(cr) == {c \in Credits : cr[c].status \in {"pending_approval", "active", "settled"}}
Holds(cr) ==
    [c \in Credits |->
       IF cr[c].status = "pending_approval" THEN cr[c].requested ELSE cr[c].approved]

SettledBy(n, limit) == IF n >= limit THEN "settled" ELSE "active"

\* What a transaction is about to write will be true when it is written.
Fresh(M, pay, cr, t) ==
    /\ t.paid = PaidStatus(SumOver(M, After(pay, t)))
    /\ pay[t.payment].credit # NoCredit =>
         t.credit = SettledBy(SumOver(M, AfterOn(pay, t, pay[t.payment].credit)),
                              cr[pay[t.payment].credit].approved)

OneHolder == \A f, g \in Clerks : Holding(f) /\ Holding(g) => f = g

\* Only an approved credit is repaid.
RepaidGranted ==
    \A p \in Payments :
       payments[p] # Absent /\ payments[p].credit # NoCredit
         => credits[payments[p].credit].status \in Granted

AllFresh(M) == \A f \in Clerks : Holding(f) => Fresh(M, payments, credits, tx[f])
StatusTrue(M) == paymentStatus = PaidStatus(SumOver(M, Of(payments, Posted)))
CreditsTrue(M) ==
    \A c \in Credits :
       credits[c].status \in Granted =>
         credits[c].status = SettledBy(SumOver(M, On(payments, Posted, c)), credits[c].approved)
CreditsHold(M) ==
    \A c \in Credits : SumOver(M, On(payments, Outstanding, c)) <= credits[c].approved
BillHolds(M) ==
    SumOver(M, On(payments, Outstanding, NoCredit))
      + SumOver(Holds(credits), SetAside(credits)) <= Total

MoneyInv ==
    /\ OneHolder
    /\ RepaidGranted
    /\ \A M \in [Payments -> Nat] :
         Prices(M, payments) =>
            AllFresh(M) /\ StatusTrue(M) /\ CreditsTrue(M) /\ CreditsHold(M) /\ BillHolds(M)

\* The sums of the model are sums of M.
LEMMA AmountsSum ==
    ASSUME NEW pay, NEW M, Prices(M, pay), NEW S \in SUBSET Payments,
           \A p \in S : pay[p] # Absent
    PROVE  SumFunction([p \in S |-> pay[p].amount]) = SumOver(M, S)
<1>1. [p \in S |-> pay[p].amount] = [p \in S |-> M[p]]
  BY DEF Prices
<1> QED
  BY <1>1 DEF SumOver

LEMMA OfRecorded ==
    ASSUME NEW pay, NEW st \in {Posted, Outstanding}, NEW c
    PROVE  /\ Of(pay, st) \in SUBSET Payments /\ On(pay, st, c) \in SUBSET Payments
           /\ \A p \in Of(pay, st) : pay[p] # Absent
           /\ \A p \in On(pay, st, c) : pay[p] # Absent
  BY DEF Of, On, Posted, Outstanding, Absent

LEMMA SumsOfState ==
    ASSUME NEW M, Prices(M, payments)
    PROVE  /\ Direct = SumOver(M, On(payments, Outstanding, NoCredit))
           /\ \A c \in Credits : Used(c) = SumOver(M, On(payments, Outstanding, c))
           /\ \A c \in Credits : Repaid(c, Posted) = SumOver(M, On(payments, Posted, c))
           /\ AmountOf(With(Posted)) = SumOver(M, Of(payments, Posted))
           /\ OnCredit = SumOver(Holds(credits), SetAside(credits))
<1>1. \A st, c : {p \in With(st) : payments[p].credit = c} = On(payments, st, c)
  BY DEF With, Of, On
<1>2. ASSUME NEW S \in SUBSET Payments, \A p \in S : payments[p] # Absent
      PROVE  AmountOf(S) = SumOver(M, S)
  BY <1>2, AmountsSum DEF AmountOf
<1>3. Direct = SumOver(M, On(payments, Outstanding, NoCredit))
  BY <1>1, <1>2, OfRecorded DEF Direct, Outstanding
<1>4. \A c \in Credits : Used(c) = SumOver(M, On(payments, Outstanding, c))
  BY <1>1, <1>2, OfRecorded DEF Used, Repaid, Outstanding
<1>5. \A c \in Credits : Repaid(c, Posted) = SumOver(M, On(payments, Posted, c))
  BY <1>1, <1>2, OfRecorded DEF Repaid
<1>6. AmountOf(With(Posted)) = SumOver(M, Of(payments, Posted))
  BY <1>2, OfRecorded DEF With, Of
<1>7. OnCredit = SumOver(Holds(credits), SetAside(credits))
  <2>1. SetAside(credits) = WithCredit({"pending_approval", "active", "settled"})
    BY DEF SetAside, WithCredit
  <2>2. [c \in SetAside(credits) |-> Held(c)] = [c \in SetAside(credits) |-> Holds(credits)[c]]
    BY DEF Held, Holds, SetAside
  <2> QED
    BY <2>1, <2>2 DEF OnCredit, SumOver
<1> QED
  BY <1>3, <1>4, <1>5, <1>6, <1>7

\* The amount of a recorded payment never changes.
LEMMA SomePrices ==
    ASSUME Shape
    PROVE  \E M \in [Payments -> Nat] : Prices(M, payments)
<1> DEFINE M == [p \in Payments |-> IF payments[p] = Absent THEN 0 ELSE payments[p].amount]
<1>1. \A p \in Payments : payments[p] # Absent => payments[p].amount \in Nat
  BY SettlementAssumption DEF Shape, Payment, Amount
<1>2. M \in [Payments -> Nat] /\ Prices(M, payments)
  BY <1>1 DEF Prices
<1> QED
  BY <1>2

LEMMA HoldsType ==
    ASSUME NEW cr \in [Credits -> Credit]
    PROVE  Holds(cr) \in [Credits -> Nat] /\ SetAside(cr) \in SUBSET Credits
  BY DEF Holds, SetAside, Credit

\* The state of a transaction that holds the ledger lock: its payment is recorded.
LEMMA HolderPays ==
    ASSUME SettlementInv, NEW f \in Clerks, Holding(f)
    PROVE  /\ tx[f].payment \in Payments /\ payments[tx[f].payment] \in Payment
           /\ tx[f].kind \in {"approving", "reversing"}
           /\ tx[f] \in Refreshed
<1>1. tx[f].payment \in Payments /\ payments[tx[f].payment] # Absent
  BY TxType DEF Holding, SettlementInv, DecidesOnWhatItChecked, Absent
<1>2. tx[f] \in {NoTx} \cup Begun \cup Refreshed
  BY DEF SettlementInv, Shape
<1> QED
  BY <1>1, <1>2 DEF SettlementInv, Shape, Holding, Begun, NoTx

\* What a transaction has refreshed stays true while the posted payments and its
\* credit stay as they are.
LEMMA FreshStays ==
    ASSUME SettlementInv, NEW M, AllFresh(M), RepaidGranted,
           NEW f \in Clerks, Holding(f), tx'[f] = tx[f],
           \A q \in Payments : payments[q].status = "posted" <=> payments'[q].status = "posted",
           \A q \in Payments : q = tx[f].payment \/ payments[q].status = "posted"
                                 => payments'[q].credit = payments[q].credit,
           \A c \in Credits : credits[c].status \in Granted
                                 => credits'[c].approved = credits[c].approved
    PROVE  Fresh(M, payments, credits, tx[f])'
<1> DEFINE p == tx[f].payment
           c == payments[p].credit
<1>1. p \in Payments /\ payments[p] \in Payment
  BY HolderPays
<1>2. After(payments, tx[f])' = After(payments, tx[f])
  BY DEF After, Of, Posted
<1>3. payments'[p].credit = c
  BY <1>1
<1>4. \A q \in After(payments, tx[f]) : payments'[q].credit = payments[q].credit
  BY <1>1 DEF After, Of, Posted
<1>5. AfterOn(payments, tx[f], c)' = AfterOn(payments, tx[f], c)
  BY <1>2, <1>3, <1>4 DEF AfterOn
<1>6. c # NoCredit => c \in Credits /\ credits'[c].approved = credits[c].approved
  BY <1>1 DEF RepaidGranted, Payment, Absent
<1>7. Fresh(M, payments, credits, tx[f])
  BY DEF AllFresh
<1>8. tx'[f].payment = p /\ tx'[f].paid = tx[f].paid /\ tx'[f].credit = tx[f].credit
  OBVIOUS
<1> HIDE DEF p, c
<1> QED
  BY <1>2, <1>3, <1>5, <1>6, <1>7, <1>8 DEF Fresh, p, c

\* A payment is recorded, or rejected: nothing posted changes.
LEMMA UnpostedRow ==
    ASSUME SettlementInv, MoneyInv, NEW p \in Payments, NEW x \in Payment,
           payments' = [payments EXCEPT ![p] = x],
           payments[p].status # "posted", x.status # "posted",
           \A f \in Clerks : Holding(f) => tx[f].payment # p,
           UNCHANGED <<credits, paymentStatus, tx>>
    PROVE  /\ OneHolder'
           /\ \A M \in [Payments -> Nat] :
                Prices(M, payments) => AllFresh(M)' /\ StatusTrue(M)' /\ CreditsTrue(M)'
<1> USE DEF SettlementInv
<1>1. DOMAIN payments = Payments /\ payments'[p] = x
      /\ \A q \in Payments \ {p} : payments'[q] = payments[q]
  BY DEF Shape
<1>2. Of(payments', Posted) = Of(payments, Posted)
  BY <1>1 DEF Of, Posted
<1>3. \A c : On(payments', Posted, c) = On(payments, Posted, c)
  BY <1>1 DEF On, Of, Posted
<1>4. OneHolder'
  BY DEF MoneyInv, OneHolder, Holding
<1>5. ASSUME NEW M \in [Payments -> Nat], Prices(M, payments)
      PROVE  AllFresh(M)' /\ StatusTrue(M)' /\ CreditsTrue(M)'
  <2>1. AllFresh(M) /\ StatusTrue(M) /\ CreditsTrue(M) /\ RepaidGranted
    BY <1>5 DEF MoneyInv
  <2>2. ASSUME NEW f \in Clerks, Holding(f)' PROVE Fresh(M, payments, credits, tx[f])'
    <3>1. Holding(f) /\ tx'[f] = tx[f] /\ tx[f].payment # p
      BY <2>2 DEF Holding
    <3>2. \A q \in Payments : payments[q].status = "posted" <=> payments'[q].status = "posted"
      BY <1>1
    <3>3. \A q \in Payments : q = tx[f].payment \/ payments[q].status = "posted"
                                 => payments'[q].credit = payments[q].credit
      BY <1>1, <3>1
    <3> QED
      BY <2>1, <3>1, <3>2, <3>3, FreshStays
  <2>3. StatusTrue(M)'
    BY <1>2, <2>1 DEF StatusTrue
  <2>4. CreditsTrue(M)'
    BY <1>3, <2>1 DEF CreditsTrue
  <2> QED
    BY <2>2, <2>3, <2>4 DEF AllFresh
<1> QED
  BY <1>4, <1>5

\* What an unchanged or smaller set of payments sums to.
LEMMA OnLess ==
    ASSUME NEW M \in [Payments -> Nat], NEW W \in SUBSET Payments, NEW V \in SUBSET W
    PROVE  /\ SumOver(M, V) \in Nat /\ SumOver(M, W) \in Nat
           /\ SumOver(M, V) <= SumOver(M, W)
<1>1. IsFiniteSet(Payments)
  BY SettlementAssumption
<1>2. SumOver(M, V) \in Nat /\ SumOver(M, W) \in Nat
  BY <1>1, SumType
<1>3. \A q \in V : M[q] <= M[q]
  OBVIOUS
<1> QED
  BY <1>1, <1>2, <1>3, SumOrder

LEMMA RecordMoney ==
    ASSUME SettlementInv, MoneyInv, NEW p \in Payments, NEW n \in Amount, NEW a \in Accounts,
           NEW s \in Recorders, RecordDirect(p, n, a, s) \/ \E c \in Credits : RecordRepayment(p, c, n, a, s)
    PROVE  MoneyInv'
<1> USE DEF SettlementInv
<1>1. PICK k \in Credits \cup {NoCredit} :
        /\ k = NoCredit => RecordDirect(p, n, a, s)
        /\ k # NoCredit => RecordRepayment(p, k, n, a, s)
  BY SettlementAssumption
<1> DEFINE x == [status |-> "pending_approval", amount |-> n, account |-> a,
                 credit |-> k, by |-> s]
<1>2. /\ x \in Payment /\ x.status = "pending_approval" /\ x.amount = n /\ x.credit = k
      /\ payments[p] = Absent
      /\ payments' = [payments EXCEPT ![p] = x]
      /\ UNCHANGED <<credits, paymentStatus, tx>>
  BY <1>1 DEF RecordDirect, RecordRepayment, Payment
<1> HIDE DEF x
<1>3. \A f \in Clerks : Holding(f) => tx[f].payment # p
  BY <1>2, HolderPays DEF Payment, Absent
<1>4. DOMAIN payments = Payments /\ payments'[p] = x
      /\ \A q \in Payments \ {p} : payments'[q] = payments[q]
  BY <1>2 DEF Shape
<1>5. RepaidGranted'
  <2> SUFFICES ASSUME NEW q \in Payments, payments'[q] # Absent, payments'[q].credit # NoCredit
               PROVE  credits[payments'[q].credit].status \in Granted
    BY <1>2 DEF RepaidGranted
  <2>1. CASE q = p
    BY <1>1, <1>2, <1>4, <2>1 DEF RecordRepayment, Granted
  <2>2. CASE q # p
    BY <1>4, <2>2 DEF MoneyInv, RepaidGranted
  <2> QED
    BY <2>1, <2>2
<1>6. ASSUME NEW M \in [Payments -> Nat], Prices(M, payments)'
      PROVE  Prices(M, payments) /\ CreditsHold(M)' /\ BillHolds(M)'
  <2>1. Prices(M, payments)
    BY <1>2, <1>4, <1>6 DEF Prices
  <2>2. M[p] = n /\ n \in Nat
    BY <1>2, <1>4, <1>6, SettlementAssumption DEF Prices, Absent, Payment, Amount
  <2>3. CreditsHold(M) /\ BillHolds(M)
    BY <2>1 DEF MoneyInv
  <2>4. /\ Direct = SumOver(M, On(payments, Outstanding, NoCredit))
        /\ \A c \in Credits : Used(c) = SumOver(M, On(payments, Outstanding, c))
        /\ OnCredit = SumOver(Holds(credits), SetAside(credits))
    BY <2>1, SumsOfState
  <2>5. ASSUME NEW c
        PROVE  /\ On(payments, Outstanding, c) \in SUBSET Payments
               /\ p \notin On(payments, Outstanding, c)
               /\ On(payments', Outstanding, c) =
                    IF c = k THEN On(payments, Outstanding, c) \cup {p}
                             ELSE On(payments, Outstanding, c)
    <3>1. p \notin On(payments, Outstanding, c) /\ On(payments, Outstanding, c) \in SUBSET Payments
      BY <1>2, OfRecorded
    <3>2. x.status \in Outstanding /\ x.credit = k
      BY <1>2 DEF Outstanding
    <3> QED
      BY <1>4, <3>1, <3>2 DEF On, Of
  <2>6. SumOver(M, On(payments', Outstanding, k)) = n + SumOver(M, On(payments, Outstanding, k))
    <3>1. p \in Payments \ On(payments, Outstanding, k)
      BY <2>5
    <3>2. SumOver(M, On(payments, Outstanding, k) \cup {p})
            = M[p] + SumOver(M, On(payments, Outstanding, k))
      BY <2>5, <3>1, SumAdd, SettlementAssumption
    <3> QED
      BY <2>2, <2>5, <3>2
  <2>7. /\ SumOver(M, On(payments, Outstanding, k)) \in Nat
        /\ SumOver(Holds(credits), SetAside(credits)) \in Nat
    BY <2>5, OnLess, HoldsType, SumType, SettlementAssumption DEF Shape
  <2>8. CreditsHold(M)'
    <3> SUFFICES ASSUME NEW c \in Credits
                 PROVE  SumOver(M, On(payments', Outstanding, c)) <= credits[c].approved
      BY <1>2 DEF CreditsHold
    <3>1. CASE c = k
      <4>1. Used(c) + n <= credits[c].approved
        BY <1>1, <3>1, SettlementAssumption DEF RecordRepayment
      <4> QED
        BY <2>2, <2>4, <2>6, <2>7, <3>1, <4>1
    <3>2. CASE c # k
      BY <2>3, <2>5, <3>2 DEF CreditsHold
    <3> QED
      BY <3>1, <3>2
  <2>9. BillHolds(M)'
    <3>1. CASE k = NoCredit
      <4>1. Direct + OnCredit + n <= Total
        BY <1>1, <3>1 DEF RecordDirect
      <4> QED
        BY <1>2, <2>2, <2>4, <2>6, <2>7, <3>1, <4>1, SettlementAssumption DEF BillHolds
    <3>2. CASE k # NoCredit
      BY <1>2, <2>3, <2>5, <3>2 DEF BillHolds
    <3> QED
      BY <3>1, <3>2
  <2> QED
    BY <2>1, <2>8, <2>9
<1>7. payments[p].status # "posted" /\ x.status # "posted"
  BY <1>2 DEF Absent
<1> QED
  BY <1>2, <1>3, <1>5, <1>6, <1>7, UnpostedRow DEF MoneyInv

LEMMA RejectMoney ==
    ASSUME SettlementInv, MoneyInv, NEW p \in Payments, RejectPayment(p)
    PROVE  MoneyInv'
<1> USE DEF SettlementInv
<1> DEFINE x == [payments[p] EXCEPT !.status = "rejected"]
<1>1. /\ payments[p] \in Payment /\ payments[p].status = "pending_approval"
      /\ x \in Payment /\ x.status = "rejected"
      /\ x.amount = payments[p].amount /\ x.credit = payments[p].credit
      /\ payments' = [payments EXCEPT ![p] = x]
      /\ UNCHANGED <<credits, paymentStatus, tx>>
  <2>1. payments[p] \in Payment /\ payments[p].status = "pending_approval"
    BY DEF RejectPayment, Shape, Absent
  <2>2. /\ x \in Payment /\ x.status = "rejected"
        /\ x.amount = payments[p].amount /\ x.credit = payments[p].credit
    BY <2>1 DEF Payment
  <2> QED
    BY <2>1, <2>2 DEF RejectPayment
<1> HIDE DEF x
<1>2. \A f \in Clerks : Holding(f) => tx[f].payment # p
  BY DEF RejectPayment, RowFree, Holding
<1>3. DOMAIN payments = Payments /\ payments'[p] = x
      /\ \A q \in Payments \ {p} : payments'[q] = payments[q]
  BY <1>1 DEF Shape
<1>4. RepaidGranted'
  BY <1>1, <1>3 DEF MoneyInv, RepaidGranted, Absent
<1>5. ASSUME NEW M \in [Payments -> Nat], Prices(M, payments)'
      PROVE  Prices(M, payments) /\ CreditsHold(M)' /\ BillHolds(M)'
  <2>1. Prices(M, payments)
    BY <1>1, <1>3, <1>5 DEF Prices, Absent, Payment
  <2>2. CreditsHold(M) /\ BillHolds(M)
    BY <2>1 DEF MoneyInv
  <2>3. ASSUME NEW c
        PROVE  /\ SumOver(M, On(payments', Outstanding, c)) \in Nat
               /\ SumOver(M, On(payments, Outstanding, c)) \in Nat
               /\ SumOver(M, On(payments', Outstanding, c))
                    <= SumOver(M, On(payments, Outstanding, c))
    <3>1. On(payments', Outstanding, c) \in SUBSET On(payments, Outstanding, c)
      BY <1>1, <1>3 DEF On, Of, Outstanding
    <3> QED
      BY <3>1, OfRecorded, OnLess
  <2>4. CreditsHold(M)'
    <3> SUFFICES ASSUME NEW c \in Credits
                 PROVE  SumOver(M, On(payments', Outstanding, c)) <= credits[c].approved
      BY <1>1 DEF CreditsHold
    <3>1. credits[c].approved \in Nat
      BY SettlementAssumption DEF Shape, Credit
    <3> QED
      BY <2>2, <2>3, <3>1 DEF CreditsHold
  <2>5. SumOver(Holds(credits), SetAside(credits)) \in Nat
    BY HoldsType, SumType, SettlementAssumption DEF Shape
  <2>6. BillHolds(M)'
    <3> DEFINE old == SumOver(M, On(payments, Outstanding, NoCredit))
               new == SumOver(M, On(payments', Outstanding, NoCredit))
               aside == SumOver(Holds(credits), SetAside(credits))
    <3>1. old \in Nat /\ new \in Nat /\ aside \in Nat /\ new <= old /\ Total \in Nat
      BY <2>3, <2>5, SettlementAssumption
    <3>2. old + aside <= Total
      BY <2>2 DEF BillHolds
    <3>3. BillHolds(M)' <=> new + aside <= Total
      BY <1>1 DEF BillHolds
    <3> HIDE DEF old, new, aside
    <3> QED
      BY <3>1, <3>2, <3>3
  <2> QED
    BY <2>1, <2>4, <2>6
<1> QED
  BY <1>1, <1>2, <1>4, <1>5, UnpostedRow DEF MoneyInv

\* Credits that change leave the bill with no more set aside than before.
LEMMA SetAsideLess ==
    ASSUME NEW cr \in [Credits -> Credit], NEW new \in [Credits -> Credit],
           SetAside(new) \subseteq SetAside(cr),
           \A c \in SetAside(new) : Holds(new)[c] <= Holds(cr)[c]
    PROVE  SumOver(Holds(new), SetAside(new)) <= SumOver(Holds(cr), SetAside(cr))
  BY HoldsType, SumOrder, SettlementAssumption

\* The life of a credit no payment is on.
LEMMA CreditMoney ==
    ASSUME SettlementInv, MoneyInv, NEW c \in Credits,
           \/ \E n \in Amount : RequestCredit(c, n) \/ ApproveCredit(c, n)
           \/ RejectCredit(c)
    PROVE  MoneyInv'
<1> USE DEF SettlementInv
<1>1. /\ UNCHANGED <<payments, paymentStatus, tx>>
      /\ credits[c].status \in {"none", "pending_approval"}
      /\ \A d \in Credits \ {c} : credits'[d] = credits[d]
      /\ DOMAIN credits = Credits
      /\ credits \in [Credits -> Credit] /\ credits' \in [Credits -> Credit]
  <2>1. credits' \in [Credits -> Credit]
    BY CreditKeeps DEF Shape
  <2> QED
    BY <2>1 DEF RequestCredit, ApproveCredit, RejectCredit, Shape
<1>2. credits[c].status \notin Granted
  BY <1>1 DEF Granted
<1>3. \A p \in Payments : payments[p] # Absent => payments[p].credit # c
  BY <1>2, SettlementAssumption DEF MoneyInv, RepaidGranted
<1>4. OneHolder' /\ RepaidGranted'
  BY <1>1, <1>2, SettlementAssumption DEF MoneyInv, OneHolder, RepaidGranted, Holding, Shape, Payment
<1>5. /\ On(payments, Outstanding, c) = {} /\ On(payments, Posted, c) = {}
  BY <1>3, OfRecorded DEF On
<1>6. credits'[c].approved \in Nat /\ (credits'[c].status \in Granted => credits'[c].approved > 0
                                                                      /\ credits'[c].status = "active")
  <2>1. credits'[c].approved \in Nat
    BY <1>1, SettlementAssumption DEF Credit
  <2>2. ASSUME NEW n \in Amount, RequestCredit(c, n) PROVE credits'[c].status \notin Granted
    <3>1. credits'[c] = [[credits[c] EXCEPT !.status = "pending_approval"] EXCEPT !.requested = n]
      BY <1>1, <2>2 DEF RequestCredit
    <3> QED
      BY <1>1, <3>1 DEF Granted, Credit
  <2>3. ASSUME NEW n \in Amount, ApproveCredit(c, n)
        PROVE  credits'[c].status = "active" /\ credits'[c].approved = n /\ n > 0
    <3>1. credits'[c] = [[credits[c] EXCEPT !.status = "active"] EXCEPT !.approved = n]
      BY <1>1, <2>3 DEF ApproveCredit
    <3>2. n \in Nat /\ n > 0
      BY SettlementAssumption DEF Amount
    <3> QED
      BY <1>1, <3>1, <3>2 DEF Credit
  <2>4. CASE RejectCredit(c)
    BY <1>1, <2>4 DEF RejectCredit, Granted, Credit
  <2> QED
    BY <2>1, <2>2, <2>3, <2>4
<1>7. ASSUME NEW M \in [Payments -> Nat], Prices(M, payments)'
      PROVE  AllFresh(M)' /\ StatusTrue(M)' /\ CreditsTrue(M)' /\ CreditsHold(M)' /\ BillHolds(M)'
  <2>1. Prices(M, payments)
    BY <1>1, <1>7 DEF Prices
  <2>2. /\ AllFresh(M) /\ StatusTrue(M) /\ CreditsTrue(M) /\ CreditsHold(M) /\ BillHolds(M)
        /\ RepaidGranted
    BY <2>1 DEF MoneyInv
  <2>3. AllFresh(M)'
    <3> SUFFICES ASSUME NEW f \in Clerks, Holding(f)' PROVE Fresh(M, payments, credits, tx[f])'
      BY DEF AllFresh
    <3>1. Holding(f) /\ tx'[f] = tx[f]
      BY <1>1 DEF Holding
    <3>2. \A d \in Credits : credits[d].status \in Granted
                                 => credits'[d].approved = credits[d].approved
      BY <1>1, <1>2
    <3> QED
      BY <1>1, <2>2, <3>1, <3>2, FreshStays
  <2>4. StatusTrue(M)'
    BY <1>1, <2>2 DEF StatusTrue
  <2>5. CreditsTrue(M)'
    <3> SUFFICES ASSUME NEW d \in Credits, credits'[d].status \in Granted
                 PROVE  credits'[d].status = SettledBy(SumOver(M, On(payments, Posted, d)),
                                                       credits'[d].approved)
      BY <1>1 DEF CreditsTrue
    <3>1. CASE d # c
      BY <1>1, <2>2, <3>1 DEF CreditsTrue
    <3>2. CASE d = c
      <4>1. SumOver(M, On(payments, Posted, d)) = 0
        BY <1>5, <3>2, SumEmpty
      <4> QED
        BY <1>6, <3>2, <4>1 DEF SettledBy
    <3> QED
      BY <3>1, <3>2
  <2>6. CreditsHold(M)'
    <3> SUFFICES ASSUME NEW d \in Credits
                 PROVE  SumOver(M, On(payments, Outstanding, d)) <= credits'[d].approved
      BY <1>1 DEF CreditsHold
    <3>1. CASE d # c
      BY <1>1, <2>2, <3>1 DEF CreditsHold
    <3>2. CASE d = c
      <4>1. SumOver(M, On(payments, Outstanding, d)) = 0
        BY <1>5, <3>2, SumEmpty
      <4> QED
        BY <1>6, <3>2, <4>1
    <3> QED
      BY <3>1, <3>2
  <2>7. /\ SumOver(M, On(payments, Outstanding, NoCredit)) \in Nat
        /\ SumOver(Holds(credits), SetAside(credits)) \in Nat
        /\ SumOver(Holds(credits'), SetAside(credits')) \in Nat
        /\ SumOver(Holds(credits'), SetAside(credits)) \in Nat
    BY <1>1, OfRecorded, OnLess, HoldsType, SumType, SettlementAssumption
  <2>8. ASSUME SumOver(Holds(credits'), SetAside(credits'))
                 <= SumOver(Holds(credits), SetAside(credits))
        PROVE  BillHolds(M)'
    <3> DEFINE direct == SumOver(M, On(payments, Outstanding, NoCredit))
               old == SumOver(Holds(credits), SetAside(credits))
               new == SumOver(Holds(credits'), SetAside(credits'))
    <3>1. direct \in Nat /\ old \in Nat /\ new \in Nat /\ new <= old /\ Total \in Nat
      BY <2>7, <2>8, SettlementAssumption
    <3>2. direct + old <= Total
      BY <2>2 DEF BillHolds
    <3>3. BillHolds(M)' <=> direct + new <= Total
      BY <1>1 DEF BillHolds
    <3> HIDE DEF direct, old, new
    <3> QED
      BY <3>1, <3>2, <3>3
  <2>9. ASSUME NEW n \in Amount, RequestCredit(c, n) PROVE BillHolds(M)'
    <3>1. /\ credits'[c].status = "pending_approval" /\ credits'[c].requested = n
          /\ credits[c].status = "none"
      BY <1>1, <2>9 DEF RequestCredit, Credit
    <3>2. SetAside(credits') = SetAside(credits) \cup {c} /\ c \in Credits \ SetAside(credits)
      BY <1>1, <3>1 DEF SetAside
    <3>3. Holds(credits')[c] = n /\ \A d \in SetAside(credits) : Holds(credits')[d] = Holds(credits)[d]
      BY <1>1, <3>1, <3>2 DEF Holds, SetAside
    <3>4. SumOver(Holds(credits'), SetAside(credits) \cup {c})
            = Holds(credits')[c] + SumOver(Holds(credits'), SetAside(credits))
      BY <1>1, <3>2, HoldsType, SumAdd, SettlementAssumption
    <3>5. SumOver(Holds(credits'), SetAside(credits)) = SumOver(Holds(credits), SetAside(credits))
      BY <3>3, SumSame
    <3>6. SumOver(Holds(credits'), SetAside(credits'))
            = n + SumOver(Holds(credits), SetAside(credits))
      BY <3>2, <3>3, <3>4, <3>5
    <3>7. /\ n <= Total - Direct - OnCredit /\ n \in Nat
          /\ Direct = SumOver(M, On(payments, Outstanding, NoCredit))
          /\ OnCredit = SumOver(Holds(credits), SetAside(credits))
      BY <2>1, <2>9, SumsOfState, SettlementAssumption DEF RequestCredit, Amount
    <3> QED
      BY <1>1, <2>7, <3>6, <3>7, SettlementAssumption DEF BillHolds
  <2>10. ASSUME NEW n \in Amount, ApproveCredit(c, n) PROVE BillHolds(M)'
    <3>1. /\ credits'[c].status = "active" /\ credits'[c].approved = n
          /\ credits[c].status = "pending_approval" /\ n <= credits[c].requested
      BY <1>1, <2>10 DEF ApproveCredit, Credit
    <3>2. SetAside(credits') = SetAside(credits)
      BY <1>1, <3>1 DEF SetAside
    <3>3. \A d \in Credits : Holds(credits')[d] <= Holds(credits)[d]
      <4> TAKE d \in Credits
      <4>1. CASE d = c
        BY <3>1, <4>1 DEF Holds
      <4>2. CASE d # c
        <5>1. Holds(credits)[d] \in Nat
          BY <1>1, HoldsType
        <5> QED
          BY <1>1, <4>2, <5>1 DEF Holds
      <4> QED
        BY <4>1, <4>2
    <3> QED
      BY <1>1, <2>8, <3>2, <3>3, SetAsideLess DEF SetAside
  <2>11. ASSUME RejectCredit(c) PROVE BillHolds(M)'
    <3>1. credits'[c].status = "rejected"
      BY <1>1, <2>11 DEF RejectCredit, Credit
    <3>2. SetAside(credits') = SetAside(credits) \ {c}
      BY <1>1, <3>1 DEF SetAside
    <3>3. \A d \in Credits \ {c} : Holds(credits')[d] = Holds(credits)[d] /\ Holds(credits)[d] \in Nat
      BY <1>1, HoldsType DEF Holds
    <3>4. \A d \in SetAside(credits') : Holds(credits')[d] <= Holds(credits)[d]
      BY <3>2, <3>3 DEF SetAside
    <3> QED
      BY <1>1, <2>8, <3>2, <3>4, SetAsideLess
  <2> QED
    BY <2>3, <2>4, <2>5, <2>6, <2>9, <2>10, <2>11
<1> QED
  BY <1>4, <1>7 DEF MoneyInv

\* Nothing of the bill changes; a transaction starts, ends or refreshes.
LEMMA TxMoney ==
    ASSUME SettlementInv, MoneyInv, UNCHANGED <<payments, credits, paymentStatus>>,
           OneHolder',
           \A M \in [Payments -> Nat] :
             Prices(M, payments) => \A f \in Clerks : Holding(f)' => Fresh(M, payments, credits, tx[f])'
    PROVE  MoneyInv'
<1>1. RepaidGranted'
  BY DEF MoneyInv, RepaidGranted
<1>2. ASSUME NEW M \in [Payments -> Nat], Prices(M, payments)'
      PROVE  AllFresh(M)' /\ StatusTrue(M)' /\ CreditsTrue(M)' /\ CreditsHold(M)' /\ BillHolds(M)'
  <2>1. Prices(M, payments)
    BY <1>2 DEF Prices
  <2>2. StatusTrue(M) /\ CreditsTrue(M) /\ CreditsHold(M) /\ BillHolds(M)
    BY <2>1 DEF MoneyInv
  <2>3. StatusTrue(M)' /\ CreditsTrue(M)' /\ CreditsHold(M)' /\ BillHolds(M)'
    BY <2>2 DEF StatusTrue, CreditsTrue, CreditsHold, BillHolds
  <2>4. AllFresh(M)'
    BY <2>1 DEF AllFresh
  <2> QED
    BY <2>3, <2>4
<1> QED
  BY <1>1, <1>2 DEF MoneyInv

\* A step of a clerk who holds no lock after it, or of nobody.
LEMMA UnheldMoney ==
    ASSUME SettlementInv, MoneyInv, UNCHANGED <<payments, credits, paymentStatus>>,
           \A g \in Clerks : Holding(g)' => Holding(g) /\ tx'[g] = tx[g]
    PROVE  MoneyInv'
<1>1. OneHolder'
  BY DEF MoneyInv, OneHolder
<1>2. ASSUME NEW M \in [Payments -> Nat], Prices(M, payments), NEW f \in Clerks, Holding(f)'
      PROVE  Fresh(M, payments, credits, tx[f])'
  <2>1. Fresh(M, payments, credits, tx[f]) /\ tx'[f] = tx[f]
    BY <1>2 DEF MoneyInv, AllFresh
  <2> QED
    BY <2>1 DEF Fresh
<1> QED
  BY <1>1, <1>2, TxMoney

\* The refresh reads what will be posted, under the ledger lock.
LEMMA RefreshMoney ==
    ASSUME SettlementInv, MoneyInv, NEW f \in Clerks, Refresh(f)
    PROVE  MoneyInv'
<1> DEFINE p == tx[f].payment
           c == payments[p].credit
           k == IF tx[f].kind = "approve" THEN "approving" ELSE "reversing"
<1>1. /\ p \in Payments /\ payments[p] \in Payment
      /\ tx[f].kind \in {"approve", "reverse"}
  <2>1. p \in Payments /\ payments[p] # Absent
    BY TxType DEF Refresh, SettlementInv, DecidesOnWhatItChecked, Absent
  <2> QED
    BY <2>1 DEF Refresh, SettlementInv, Shape
<1>2. /\ tx'[f] = [kind |-> k, payment |-> p, paid |-> PaidStatus(AmountOf(PostedWith(f))),
                   credit |-> AfterCredit(f)]
      /\ \A g \in Clerks \ {f} : tx'[g] = tx[g] /\ ~Holding(g)
      /\ UNCHANGED <<payments, credits, paymentStatus>>
  BY DEF Refresh, LedgerFree, SettlementInv, Shape
<1>3. \A g \in Clerks : Holding(g)' => g = f
  BY <1>2 DEF Holding
<1>4. ASSUME NEW M \in [Payments -> Nat], Prices(M, payments)
      PROVE  Fresh(M, payments, credits, tx[f])'
  <2>1. PostedWith(f) = After(payments, tx'[f])
    BY <1>1, <1>2 DEF PostedWith, With, After, Of, Posted
  <2>2. /\ After(payments, tx'[f]) \in SUBSET Payments
        /\ \A q \in After(payments, tx'[f]) : payments[q] # Absent
    BY <1>1, <1>2 DEF After, Of, Posted, Absent, Payment
  <2>3. ASSUME NEW S \in SUBSET Payments, \A q \in S : payments[q] # Absent
        PROVE  AmountOf(S) = SumOver(M, S)
    BY <1>4, <2>3, AmountsSum DEF AmountOf
  <2>4. AmountOf(PostedWith(f)) = SumOver(M, After(payments, tx'[f]))
    BY <2>1, <2>2, <2>3
  <2>5. {q \in PostedWith(f) : payments[q].credit = c} = AfterOn(payments, tx'[f], c)
    BY <2>1 DEF AfterOn
  <2>6. AmountOf({q \in PostedWith(f) : payments[q].credit = c})
          = SumOver(M, AfterOn(payments, tx'[f], c))
    <3>1. /\ AfterOn(payments, tx'[f], c) \in SUBSET Payments
          /\ \A q \in AfterOn(payments, tx'[f], c) : payments[q] # Absent
      BY <2>2 DEF AfterOn
    <3> QED
      BY <2>3, <2>5, <3>1
  <2>7. ASSUME c # NoCredit
        PROVE  AfterCredit(f) = SettledBy(SumOver(M, AfterOn(payments, tx'[f], c)),
                                          credits[c].approved)
    <3>1. credits[c].status \in Granted
      BY <1>1, <2>7 DEF MoneyInv, RepaidGranted, Payment, Absent
    <3>2. AfterCredit(f) = CreditStatus(c, SumOver(M, AfterOn(payments, tx'[f], c)))
      BY <2>6, <2>7 DEF AfterCredit
    <3> QED
      BY <3>1, <3>2 DEF CreditStatus, SettledBy, Granted
  <2>8. /\ tx'[f].paid = PaidStatus(SumOver(M, After(payments, tx'[f])))
        /\ tx'[f].credit = AfterCredit(f) /\ tx'[f].payment = p
    BY <1>2, <2>4
  <2> HIDE DEF p, c
  <2>9. c = payments[p].credit
    BY DEF c
  <2> QED
    BY <1>2, <2>7, <2>8, <2>9 DEF Fresh
<1> QED
  BY <1>2, <1>3, <1>4, TxMoney DEF OneHolder

LEMMA ClerkMoney ==
    ASSUME SettlementInv, MoneyInv, NEW f \in Clerks,
           \/ \E p \in Payments : BeginApprove(f, p) \/ BeginReverse(f, p)
           \/ ReversalRefused(f) \/ Rollback(f)
    PROVE  MoneyInv'
<1>1. /\ UNCHANGED <<payments, credits, paymentStatus>>
      /\ tx'[f].kind \in {"none", "approve", "reverse"}
      /\ \A g \in Clerks \ {f} : tx'[g] = tx[g]
  BY DEF BeginApprove, BeginReverse, ReversalRefused, Rollback, NoTx, SettlementInv, Shape
<1>2. \A g \in Clerks : Holding(g)' => Holding(g) /\ tx'[g] = tx[g]
  BY <1>1 DEF Holding
<1> QED
  BY <1>1, <1>2, UnheldMoney

\* A commit makes what was refreshed true.
LEMMA CommitMoney ==
    ASSUME SettlementInv, MoneyInv, NEW f \in Clerks, CommitApprove(f) \/ CommitReverse(f)
    PROVE  MoneyInv'
<1> USE DEF SettlementInv
<1> DEFINE p == tx[f].payment
           c == payments[p].credit
           st == IF tx[f].kind = "approving" THEN "posted" ELSE "reversed"
<1>1. /\ Holding(f) /\ paymentStatus' = tx[f].paid /\ SetCredit(f) /\ tx' = [tx EXCEPT ![f] = NoTx]
      /\ payments' = [payments EXCEPT ![p].status = st]
  BY DEF CommitApprove, CommitReverse, Holding
<1>2. /\ p \in Payments /\ payments[p] \in Payment
      /\ tx[f].kind \in {"approving", "reversing"}
      /\ payments[p].status = IF tx[f].kind = "approving" THEN "pending_approval" ELSE "posted"
  BY <1>1, HolderPays DEF DecidesOnWhatItChecked
<1>3. /\ DOMAIN payments' = Payments
      /\ payments'[p].status = st /\ payments'[p].credit = c
      /\ payments'[p].amount = payments[p].amount /\ payments'[p] # Absent
      /\ \A q \in Payments \ {p} : payments'[q] = payments[q]
  <2>1. payments'[p] = [payments[p] EXCEPT !.status = st]
    BY <1>1, <1>2 DEF Shape
  <2> QED
    BY <1>1, <1>2, <2>1 DEF Shape, Payment, Absent
<1>4. \A g \in Clerks : ~Holding(g)'
  <2>1. tx'[f] = NoTx /\ \A g \in Clerks \ {f} : tx'[g] = tx[g]
    BY <1>1 DEF Shape
  <2>2. \A g \in Clerks \ {f} : ~Holding(g)
    BY <1>1 DEF MoneyInv, OneHolder
  <2> QED
    BY <2>1, <2>2 DEF Holding, NoTx
<1>5. Of(payments', Posted) = After(payments, tx[f])
  BY <1>2, <1>3 DEF Of, After, Posted
<1>6. /\ On(payments', Posted, c) = AfterOn(payments, tx[f], c)
      /\ \A d : d # c => On(payments', Posted, d) = On(payments, Posted, d)
  BY <1>2, <1>3 DEF On, Of, AfterOn, After, Posted
<1>7. \A d : On(payments', Outstanding, d) \in SUBSET On(payments, Outstanding, d)
  BY <1>2, <1>3 DEF On, Of, Outstanding
<1>8. c # NoCredit => c \in Credits /\ credits[c].status \in Granted
  BY <1>2 DEF MoneyInv, RepaidGranted, Payment, Absent
<1>9. /\ c = NoCredit => credits' = credits
      /\ c # NoCredit => credits' = [credits EXCEPT ![c].status = tx[f].credit]
  BY <1>1 DEF SetCredit
<1>10. c # NoCredit => tx[f].credit \in Granted
  <2>1. PICK M \in [Payments -> Nat] : Prices(M, payments)
    BY SomePrices
  <2>2. Fresh(M, payments, credits, tx[f])
    BY <1>1, <2>1 DEF MoneyInv, AllFresh
  <2> QED
    BY <2>2 DEF Fresh, SettledBy, Granted
<1>11. \A d \in Credits :
         /\ credits'[d].approved = credits[d].approved
         /\ credits'[d].requested = credits[d].requested
         /\ d # c => credits'[d] = credits[d]
         /\ d = c => credits'[d].status = tx[f].credit
  <2>1. CASE c = NoCredit
    BY <1>9, <2>1, SettlementAssumption
  <2>2. CASE c # NoCredit
    <3> HIDE DEF c
    <3>1. credits[c] \in Credit /\ credits'[c] = [credits[c] EXCEPT !.status = tx[f].credit]
      BY <1>8, <1>9, <2>2 DEF Shape
    <3> QED
      BY <1>8, <1>9, <2>2, <3>1 DEF Shape, Credit
  <2> QED
    BY <2>1, <2>2
<1>12. RepaidGranted'
  <2> SUFFICES ASSUME NEW q \in Payments, payments'[q] # Absent, payments'[q].credit # NoCredit
               PROVE  credits'[payments'[q].credit].status \in Granted
    BY DEF RepaidGranted
  <2>1. payments'[q].credit = payments[q].credit /\ payments[q] # Absent
    BY <1>2, <1>3 DEF Absent, Payment
  <2>2. payments[q].credit \in Credits
    BY <2>1 DEF Shape, Payment
  <2>3. credits[payments[q].credit].status \in Granted
    BY <2>1 DEF MoneyInv, RepaidGranted
  <2> HIDE DEF c
  <2> QED
    BY <1>10, <1>11, <2>1, <2>2, <2>3
<1>13. \A d \in Credits :
         \/ credits'[d].status = credits[d].status
         \/ credits'[d].status \in Granted /\ credits[d].status \in Granted
  <2> HIDE DEF c
  <2> QED
    BY <1>8, <1>10, <1>11, SettlementAssumption
<1>14. SetAside(credits') = SetAside(credits)
  BY <1>13 DEF SetAside, Granted
<1>15. \A d \in SetAside(credits) : Holds(credits')[d] = Holds(credits)[d]
  <2> HIDE DEF c
  <2> QED
    BY <1>11, <1>13 DEF SetAside, Granted, Holds
<1>16. SumOver(Holds(credits'), SetAside(credits')) = SumOver(Holds(credits), SetAside(credits))
  <2>1. SumOver(Holds(credits'), SetAside(credits)) = SumOver(Holds(credits), SetAside(credits))
    BY <1>15, SumSame
  <2> QED
    BY <1>14, <2>1
<1> HIDE DEF p, c, st
<1>17. ASSUME NEW M \in [Payments -> Nat], Prices(M, payments)'
       PROVE  AllFresh(M)' /\ StatusTrue(M)' /\ CreditsTrue(M)' /\ CreditsHold(M)' /\ BillHolds(M)'
  <2>1. Prices(M, payments)
    BY <1>3, <1>17 DEF Prices
  <2>2. /\ CreditsTrue(M) /\ CreditsHold(M) /\ BillHolds(M)
        /\ Fresh(M, payments, credits, tx[f])
    BY <1>1, <2>1 DEF MoneyInv, AllFresh
  <2>3. AllFresh(M)'
    BY <1>4 DEF AllFresh
  <2>4. StatusTrue(M)'
    BY <1>1, <1>5, <2>2 DEF StatusTrue, Fresh
  <2>5. CreditsTrue(M)'
    <3> SUFFICES ASSUME NEW d \in Credits, credits'[d].status \in Granted
                 PROVE  credits'[d].status
                          = SettledBy(SumOver(M, On(payments', Posted, d)), credits'[d].approved)
      BY DEF CreditsTrue
    <3>1. CASE d # c
      BY <1>6, <1>11, <2>2, <3>1 DEF CreditsTrue
    <3>2. CASE d = c
      <4>1. c # NoCredit
        BY <3>2, SettlementAssumption
      <4>2. tx[f].credit = SettledBy(SumOver(M, AfterOn(payments, tx[f], c)), credits[c].approved)
        BY <2>2, <4>1 DEF Fresh, c, p
      <4> QED
        BY <1>6, <1>11, <3>2, <4>2
    <3> QED
      BY <3>1, <3>2
  <2>6. ASSUME NEW d
        PROVE  /\ SumOver(M, On(payments', Outstanding, d)) \in Nat
               /\ SumOver(M, On(payments, Outstanding, d)) \in Nat
               /\ SumOver(M, On(payments', Outstanding, d))
                    <= SumOver(M, On(payments, Outstanding, d))
    BY <1>7, OfRecorded, OnLess
  <2>7. CreditsHold(M)'
    <3> SUFFICES ASSUME NEW d \in Credits
                 PROVE  SumOver(M, On(payments', Outstanding, d)) <= credits[d].approved
      BY <1>11 DEF CreditsHold
    <3>1. credits[d].approved \in Nat
      BY SettlementAssumption DEF Shape, Credit
    <3> QED
      BY <2>2, <2>6, <3>1 DEF CreditsHold
  <2>8. BillHolds(M)'
    <3> DEFINE old == SumOver(M, On(payments, Outstanding, NoCredit))
               new == SumOver(M, On(payments', Outstanding, NoCredit))
               aside == SumOver(Holds(credits), SetAside(credits))
    <3>1. aside \in Nat
      BY HoldsType, SumType, SettlementAssumption DEF Shape
    <3>2. old \in Nat /\ new \in Nat /\ new <= old /\ Total \in Nat
      BY <2>6, SettlementAssumption
    <3>3. old + aside <= Total
      BY <2>2 DEF BillHolds
    <3>4. BillHolds(M)' <=> new + aside <= Total
      BY <1>16 DEF BillHolds
    <3> HIDE DEF old, new, aside
    <3> QED
      BY <3>1, <3>2, <3>3, <3>4
  <2> QED
    BY <2>3, <2>4, <2>5, <2>7, <2>8
<1>18. OneHolder'
  BY <1>4 DEF OneHolder
<1> QED
  BY <1>12, <1>17, <1>18 DEF MoneyInv

LEMMA MoneyStep == SettlementInv /\ MoneyInv /\ [SettlementNext]_settlementVars => MoneyInv'
<1> SUFFICES ASSUME SettlementInv, MoneyInv, [SettlementNext]_settlementVars PROVE MoneyInv'
  OBVIOUS
<1>1. CASE UNCHANGED settlementVars
  BY <1>1, UnheldMoney DEF settlementVars, Holding
<1>2. CASE Recording
  BY <1>2, RecordMoney, CreditMoney DEF Recording
<1>3. CASE Deciding
  BY <1>3, CreditMoney, RejectMoney, ClerkMoney, RefreshMoney, CommitMoney DEF Deciding
<1>4. CASE Correcting
  BY <1>4, UnheldMoney DEF Correcting, EditVoucher, DeleteVoucher, DeskDelete, Holding
<1> QED
  BY <1>1, <1>2, <1>3, <1>4 DEF SettlementNext

LEMMA MoneyInit == SettlementInit => MoneyInv
<1> SUFFICES ASSUME SettlementInit PROVE MoneyInv
  OBVIOUS
<1>1. OneHolder /\ RepaidGranted
  BY DEF SettlementInit, OneHolder, Holding, NoTx, RepaidGranted
<1>2. /\ \A c : On(payments, Posted, c) = {} /\ On(payments, Outstanding, c) = {}
      /\ Of(payments, Posted) = {}
  BY DEF SettlementInit, On, Of, Posted, Outstanding, Absent
<1>3. SetAside(credits) = {}
  BY DEF SettlementInit, SetAside
<1>4. ASSUME NEW M
      PROVE  AllFresh(M) /\ StatusTrue(M) /\ CreditsTrue(M) /\ CreditsHold(M) /\ BillHolds(M)
  <2>1. AllFresh(M) /\ CreditsTrue(M)
    BY DEF SettlementInit, AllFresh, CreditsTrue, Holding, NoTx, Granted
  <2>2. SumOver(M, {}) = 0 /\ SumOver(Holds(credits), {}) = 0
    BY SumEmpty
  <2>3. StatusTrue(M)
    <3>1. SumOver(M, Of(payments, Posted)) = 0
      BY <1>2, <2>2
    <3> QED
      BY <3>1 DEF SettlementInit, StatusTrue, PaidStatus
  <2>4. CreditsHold(M)
    <3>1. \A d \in Credits : SumOver(M, On(payments, Outstanding, d)) = 0
      BY <1>2, <2>2
    <3> QED
      BY <3>1 DEF SettlementInit, CreditsHold
  <2>5. BillHolds(M)
    <3>1. SumOver(M, On(payments, Outstanding, NoCredit)) = 0
      BY <1>2, <2>2
    <3> QED
      BY <1>3, <2>2, <3>1, SettlementAssumption DEF BillHolds
  <2> QED
    BY <2>1, <2>3, <2>4, <2>5
<1> QED
  BY <1>1, <1>4 DEF MoneyInv

LEMMA MoneyAlways == SettlementSpec => [](SettlementInv /\ MoneyInv)
  BY SettlementInitially, SettlementStep, MoneyInit, MoneyStep, PTL DEF SettlementSpec

\* The payment status of a demand is what its posted payments sum to, with any number
\* of approvals and reversals of one bill in flight (purchase_refresh_payment_status).
THEOREM StatusCorrect == SettlementSpec => []PaymentStatusTrue
<1>1. SettlementInv /\ MoneyInv => PaymentStatusTrue
  <2> SUFFICES ASSUME SettlementInv, MoneyInv PROVE PaymentStatusTrue
    OBVIOUS
  <2>1. PICK M \in [Payments -> Nat] : Prices(M, payments)
    BY SomePrices DEF SettlementInv
  <2>2. StatusTrue(M) /\ AmountOf(With(Posted)) = SumOver(M, Of(payments, Posted))
    BY <2>1, SumsOfState DEF MoneyInv
  <2> QED
    BY <2>2 DEF StatusTrue, PaymentStatusTrue, Posted
<1> QED
  BY <1>1, MoneyAlways, PTL

\* A credit is settled exactly when its posted repayments reach it, and only an
\* approved credit is repaid (purchase_refresh_credit).
THEOREM CreditsCorrect == SettlementSpec => []CreditStatusTrue
<1>1. SettlementInv /\ MoneyInv => CreditStatusTrue
  <2> SUFFICES ASSUME SettlementInv, MoneyInv, NEW c \in Credits
               PROVE  /\ credits[c].status \in Granted =>
                           (credits[c].status = "settled" <=> Repaid(c, Posted) >= credits[c].approved)
                      /\ (\E p \in Payments : payments[p] # Absent /\ payments[p].credit = c)
                           => credits[c].status \in Granted
    BY DEF CreditStatusTrue, Granted, Posted
  <2>1. PICK M \in [Payments -> Nat] : Prices(M, payments)
    BY SomePrices DEF SettlementInv
  <2>2. CreditsTrue(M) /\ Repaid(c, Posted) = SumOver(M, On(payments, Posted, c))
    BY <2>1, SumsOfState DEF MoneyInv
  <2>3. credits[c].status \in Granted =>
          (credits[c].status = "settled" <=> Repaid(c, Posted) >= credits[c].approved)
    BY <2>2 DEF CreditsTrue, SettledBy
  <2>4. (\E p \in Payments : payments[p] # Absent /\ payments[p].credit = c)
          => credits[c].status \in Granted
    BY SettlementAssumption DEF MoneyInv, RepaidGranted
  <2> QED
    BY <2>3, <2>4
<1> QED
  BY <1>1, MoneyAlways, PTL

\* What is posted stays below what is outstanding or set aside on credit.
LEMMA PostedWithinBill ==
    ASSUME SettlementInv, MoneyInv, NEW M \in [Payments -> Nat], Prices(M, payments)
    PROVE  SumOver(M, Of(payments, Posted)) <= Total
<1> DEFINE C == {c \in Credits : credits[c].status \in Granted}
           h == [c \in C |-> credits[c].approved]
           g == [p \in Payments |-> IF p \in Of(payments, Posted) THEN payments[p].credit
                                                                  ELSE NoCredit]
           lent == {p \in Payments : g[p] \in C}
           direct == On(payments, Posted, NoCredit)
<1>1. /\ CreditsHold(M) /\ BillHolds(M) /\ RepaidGranted
      /\ payments \in [Payments -> {Absent} \cup Payment] /\ credits \in [Credits -> Credit]
  BY DEF MoneyInv, SettlementInv, Shape
<1>2. IsFiniteSet(Payments) /\ IsFiniteSet(Credits) /\ IsFiniteSet(C)
  BY SettlementAssumption, FS_Subset
<1>3. h \in [C -> Nat]
  BY <1>1 DEF Credit
<1>4. \A c : /\ On(payments, Posted, c) \in SUBSET On(payments, Outstanding, c)
             /\ On(payments, Outstanding, c) \in SUBSET Payments
  BY DEF On, Of, Posted, Outstanding
<1>5. \A c \in C : SumOver(M, {p \in Payments : g[p] = c}) <= h[c]
  <2> TAKE c \in C
  <2>1. {p \in Payments : g[p] = c} = On(payments, Posted, c)
    BY SettlementAssumption DEF On, Of
  <2>2. /\ SumOver(M, On(payments, Posted, c)) \in Nat /\ SumOver(M, On(payments, Outstanding, c)) \in Nat
        /\ SumOver(M, On(payments, Posted, c)) <= SumOver(M, On(payments, Outstanding, c))
    BY <1>4, OnLess
  <2>3. SumOver(M, On(payments, Outstanding, c)) <= h[c] /\ h[c] \in Nat
    BY <1>1, <1>3 DEF CreditsHold
  <2> HIDE DEF g, h
  <2> QED
    BY <2>1, <2>2, <2>3
<1>6. SumOver(M, lent) <= SumOver(h, C)
  <2> HIDE DEF C, h, g
  <2> QED
    BY <1>2, <1>3, <1>5, SumGrouped
<1>7. SumOver(h, C) <= SumOver(Holds(credits), SetAside(credits))
  <2>1. \A c \in C : h[c] = Holds(credits)[c]
    BY DEF Holds, Granted
  <2>2. SumOver(h, C) = SumOver(Holds(credits), C)
    BY <2>1, SumSame
  <2>3. C \in SUBSET SetAside(credits) /\ Holds(credits) \in [Credits -> Nat]
        /\ SetAside(credits) \in SUBSET Credits
    BY <1>1, HoldsType DEF SetAside, Granted
  <2>4. \A c \in C : Holds(credits)[c] <= Holds(credits)[c]
    BY <2>3
  <2> HIDE DEF C, h
  <2>5. SumOver(Holds(credits), C) <= SumOver(Holds(credits), SetAside(credits))
    BY <1>2, <2>3, <2>4, SumOrder
  <2> QED
    BY <2>2, <2>5
<1>8. Of(payments, Posted) = direct \cup lent /\ direct \cap lent = {}
  <2>1. ASSUME NEW p \in Of(payments, Posted)
        PROVE  payments[p].credit = NoCredit \/ payments[p].credit \in C
    <3>1. payments[p] \in Payment /\ p \in Payments
      BY <1>1 DEF Of, Posted, Absent
    <3> QED
      BY <1>1, <3>1 DEF RepaidGranted, Payment, Absent
  <2>2. NoCredit \notin C
    BY SettlementAssumption
  <2> HIDE DEF C
  <2> QED
    BY <2>1, <2>2 DEF On, Of
<1>9. direct \in SUBSET Payments /\ lent \in SUBSET Payments
  BY DEF On, Of
<1>10. SumOver(M, direct) <= SumOver(M, On(payments, Outstanding, NoCredit))
  BY <1>4, OnLess
<1>11. SumOver(M, direct) \in Nat /\ SumOver(M, On(payments, Outstanding, NoCredit)) \in Nat
  BY <1>4, OnLess
<1>12. SumOver(M, lent) \in Nat
  <2> HIDE DEF lent
  <2> QED
    BY <1>9, OnLess
<1>13. SumOver(h, C) \in Nat
  <2> HIDE DEF C, h
  <2> QED
    BY <1>2, <1>3, SumType
<1>14. SumOver(Holds(credits), SetAside(credits)) \in Nat
  BY <1>1, <1>2, HoldsType, SumType
<1>15. SumOver(M, direct \cup lent) = SumOver(M, direct) + SumOver(M, lent)
  <2> HIDE DEF direct, lent
  <2>1. direct \cap lent = {}
    BY <1>8
  <2> QED
    BY <1>2, <1>9, <2>1, SumSplit
<1>16. SumOver(M, On(payments, Outstanding, NoCredit))
         + SumOver(Holds(credits), SetAside(credits)) <= Total /\ Total \in Nat
  BY <1>1, SettlementAssumption DEF BillHolds
<1> HIDE DEF direct, lent, h, C
<1>17. SumOver(M, Of(payments, Posted)) = SumOver(M, direct) + SumOver(M, lent)
  BY <1>8, <1>15
<1> QED
  BY <1>6, <1>7, <1>10, <1>11, <1>12, <1>13, <1>14, <1>16, <1>17

\* The payments recorded against a bill, with what is set aside on credit, never pass its
\* total, the repayments of a credit never pass what was approved, and what is posted never
\* passes the total (purchase_bill_committed), for any number of payments and credits.
THEOREM NeverOverpaid == SettlementSpec => []NotOverpaid
<1>1. SettlementInv /\ MoneyInv => NotOverpaid
  <2> SUFFICES ASSUME SettlementInv, MoneyInv PROVE NotOverpaid
    OBVIOUS
  <2>1. PICK M \in [Payments -> Nat] : Prices(M, payments)
    BY SomePrices DEF SettlementInv
  <2>2. CreditsHold(M) /\ BillHolds(M)
    BY <2>1 DEF MoneyInv
  <2>3. Direct + OnCredit <= Total
    BY <2>1, <2>2, SumsOfState DEF BillHolds
  <2>4. \A c \in Credits : Used(c) <= credits[c].approved
    BY <2>1, <2>2, SumsOfState DEF CreditsHold
  <2>5. AmountOf(With({"posted"})) <= Total
    BY <2>1, SumsOfState, PostedWithinBill DEF Posted
  <2> QED
    BY <2>3, <2>4, <2>5 DEF NotOverpaid
<1> QED
  BY <1>1, MoneyAlways, PTL
=============================================================================
