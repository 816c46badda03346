------------------------- MODULE SupplierSettlement -------------------------
(***************************************************************************)
(* How one approved supplier bill is paid: direct payments, a supplier     *)
(* credit and its repayments, the vouchers they post to the finance ledger *)
(* and the payment status shown on the demand.                             *)
(*                                                                         *)
(* Production's functions (purchase_record_payment,                        *)
(* purchase_request_credit) hold the demand's and the bill's row locks, so *)
(* each is one action.  Finance's supplier_payment_approve and             *)
(* supplier_payment_reverse do NOT lock the demand: they lock the payment, *)
(* wait for the ledger's advisory lock inside post_finance_ledger_entry,   *)
(* read the posted payments to refresh the demand and the credit, and      *)
(* commit.  Those are the three steps Begin..., Refresh and Commit of a    *)
(* clerk's transaction; until it commits no other transaction sees it.     *)
(* A retried clientRequestId is answered with the payment it made and      *)
(* changes nothing.                                                        *)
(***************************************************************************)
EXTENDS Integers, Sequences, FiniteSets, Functions

CONSTANTS
    Payments,    \* ids of supplier_payments rows
    Credits,     \* ids of supplier_credits rows
    NoCredit,    \* a direct payment
    Recorders,       \* people who record payments
    Clerks,      \* the people of Finance, a transaction each
    Accounts,    \* cash, bank
    MaxAmount,   \* bound on the amount of one payment, credit or voucher
    Total        \* grand_total of the approved bill

ASSUME SettlementAssumption ==
    /\ MaxAmount \in Nat
    /\ Total \in Nat
    /\ Clerks \subseteq Recorders
    /\ NoCredit \notin Credits
    /\ IsFiniteSet(Payments) /\ IsFiniteSet(Credits)

VARIABLES
    payments,       \* supplier_payments of the bill
    credits,        \* supplier_credits of the bill
    book,           \* per payment, the ledger entries posted from it
    paymentStatus,  \* purchase_demands.payment_status
    tx              \* per clerk, the transaction in progress

settlementVars == <<payments, credits, book, paymentStatus, tx>>

Amount == 1 .. MaxAmount
CreditStatuses == {"none", "pending_approval", "active", "settled", "rejected"}
DemandPaid == {"unpaid", "partially_paid", "paid"}

Absent == [status |-> "none"]
Payment == [status: {"pending_approval", "posted", "rejected", "reversed"},
            amount: Amount, account: Accounts,
            credit: Credits \cup {NoCredit}, by: Recorders]
Credit == [status: CreditStatuses, requested: 0 .. MaxAmount, approved: 0 .. MaxAmount]

\* A ledger entry: a payment voucher (PV, money out) or a receipt voucher (RV).
Entry == [series: {"PV", "RV"}, amount: Amount, account: Accounts,
          state: {"posted", "reversed", "deleted", "erased"}]

\* paid, credit: what its refreshes are about to write.
NoTx == [kind |-> "none"]
Begun == [kind: {"approve", "reverse"}, payment: Payments]
Refreshed == [kind: {"approving", "reversing"}, payment: Payments,
              paid: DemandPaid, credit: CreditStatuses]

-----------------------------------------------------------------------------
(* Sums over the bill (app.purchase_bill_committed)                         *)

AmountOf(S) == SumFunction([p \in S |-> payments[p].amount])

With(statuses) == {p \in Payments : payments[p].status \in statuses}

Direct == AmountOf({p \in With({"pending_approval", "posted"}) : payments[p].credit = NoCredit})

Repaid(c, statuses) == AmountOf({p \in With(statuses) : payments[p].credit = c})

WithCredit(statuses) == {c \in Credits : credits[c].status \in statuses}

OnCreditApproved ==
    SumFunction([c \in WithCredit({"active", "settled"}) |-> credits[c].approved])

\* A credit holds its approved amount, or its requested amount while it waits.
Held(c) == IF credits[c].status = "pending_approval" THEN credits[c].requested
                                                     ELSE credits[c].approved

OnCredit ==
    SumFunction([c \in WithCredit({"pending_approval", "active", "settled"}) |-> Held(c)])

\* What is spoken for of a credit, the payments that wait included.
Used(c) == Repaid(c, {"pending_approval", "posted"})

-----------------------------------------------------------------------------
(* Locks                                                                    *)

Holding(f) == tx[f].kind \in {"approving", "reversing"}

LedgerFreeNever == TRUE

\* pg_advisory_xact_lock(finance_ledger_post)
LedgerFree == \A f \in Clerks : ~Holding(f)

RowFreeNever(p) == TRUE

\* The payment's row, locked by a transaction from its first statement.
RowFree(p) == \A f \in Clerks : tx[f].kind # "none" => tx[f].payment # p

\* The refreshes lock the demand they change, and the credit they touch.
DemandFree == \A f \in Clerks : Holding(f) => tx[f].paid = paymentStatus
CreditFree(c) == \A f \in Clerks : Holding(f) => payments[tx[f].payment].credit # c

\* The unique index supplier_credits_one_open, with the uncommitted update of a
\* credit that is being reopened.
Open(c) ==
    \/ credits[c].status \in {"pending_approval", "active"}
    \/ \E f \in Clerks : /\ Holding(f)
                         /\ payments[tx[f].payment].credit = c
                         /\ tx[f].credit = "active"
NoOpenCredit(S) == \A c \in S : ~Open(c)

-----------------------------------------------------------------------------
SettlementInit ==
    /\ payments = [p \in Payments |-> Absent]
    /\ credits = [c \in Credits |-> [status |-> "none", requested |-> 0, approved |-> 0]]
    /\ book = [p \in Payments |-> <<>>]
    /\ paymentStatus = "unpaid"
    /\ tx = [f \in Clerks |-> NoTx]

-----------------------------------------------------------------------------
(* Production records                                                       *)

\* A direct payment: what is left of the bill once credit is set aside.
RecordDirect(p, n, a, s) ==
    /\ payments[p] = Absent
    /\ DemandFree
    /\ Direct + OnCredit + n <= Total
    /\ payments' = [payments EXCEPT ![p] =
                      [status |-> "pending_approval", amount |-> n, account |-> a,
                       credit |-> NoCredit, by |-> s]]
    /\ UNCHANGED <<credits, book, paymentStatus, tx>>

\* A repayment: what is left of its credit.
RecordRepayment(p, c, n, a, s) ==
    /\ payments[p] = Absent
    /\ DemandFree
    /\ CreditFree(c)
    /\ credits[c].status = "active"
    /\ Used(c) + n <= credits[c].approved
    /\ payments' = [payments EXCEPT ![p] =
                      [status |-> "pending_approval", amount |-> n, account |-> a,
                       credit |-> c, by |-> s]]
    /\ UNCHANGED <<credits, book, paymentStatus, tx>>

RequestCredit(c, n) ==
    /\ credits[c].status = "none"
    /\ DemandFree
    /\ n <= Total - Direct - OnCredit
    /\ NoOpenCredit(Credits)
    /\ credits' = [credits EXCEPT ![c].status = "pending_approval", ![c].requested = n]
    /\ UNCHANGED <<payments, book, paymentStatus, tx>>

-----------------------------------------------------------------------------
(* Finance decides                                                          *)

ApproveCredit(c, n) ==
    /\ credits[c].status = "pending_approval"
    /\ n <= credits[c].requested
    /\ credits' = [credits EXCEPT ![c].status = "active", ![c].approved = n]
    /\ UNCHANGED <<payments, book, paymentStatus, tx>>

RejectCredit(c) ==
    /\ credits[c].status = "pending_approval"
    /\ credits' = [credits EXCEPT ![c].status = "rejected"]
    /\ UNCHANGED <<payments, book, paymentStatus, tx>>

RejectPayment(p) ==
    /\ RowFree(p)
    /\ payments[p].status = "pending_approval"
    /\ payments' = [payments EXCEPT ![p].status = "rejected"]
    /\ UNCHANGED <<credits, book, paymentStatus, tx>>

\* Another person than the one who recorded it.
BeginApprove(f, p) ==
    /\ tx[f] = NoTx
    /\ RowFree(p)
    /\ payments[p].status = "pending_approval"
    /\ payments[p].by # f
    /\ tx' = [tx EXCEPT ![f] = [kind |-> "approve", payment |-> p]]
    /\ UNCHANGED <<payments, credits, book, paymentStatus>>

\* The voucher is live in the ledger and still says what the payment says.
Reversible(p) ==
    /\ book[p] # <<>>
    /\ book[p][1].state = "posted"
    /\ book[p][1].amount = payments[p].amount

BeginReverse(f, p) ==
    /\ tx[f] = NoTx
    /\ RowFree(p)
    /\ payments[p].status = "posted"
    /\ Reversible(p)
    /\ tx' = [tx EXCEPT ![f] = [kind |-> "reverse", payment |-> p]]
    /\ UNCHANGED <<payments, credits, book, paymentStatus>>

\* purchase_refresh_payment_status, once the posted payments sum to n
PaidStatus(n) ==
    IF n <= 0 THEN "unpaid" ELSE IF n >= Total THEN "paid" ELSE "partially_paid"

CreditStatusWhenOver(c, n) ==
    IF credits[c].status \in {"active", "settled"}
    THEN IF n > credits[c].approved THEN "settled" ELSE "active"
    ELSE credits[c].status

\* purchase_refresh_credit, once the posted repayments sum to n
CreditStatus(c, n) ==
    IF credits[c].status \in {"active", "settled"}
    THEN IF n >= credits[c].approved THEN "settled" ELSE "active"
    ELSE credits[c].status

\* The payments that are posted for a transaction that posts or reverses p.
PostedWith(f) ==
    IF tx[f].kind = "approve" THEN With({"posted"}) \cup {tx[f].payment}
                              ELSE With({"posted"}) \ {tx[f].payment}

AfterCredit(f) ==
    LET c == payments[tx[f].payment].credit IN
    IF c = NoCredit THEN "none"
    ELSE CreditStatus(c, AmountOf({p \in PostedWith(f) : payments[p].credit = c}))

\* The unique index refuses to reopen a settled credit next to an open one.
Collides(f) ==
    LET c == payments[tx[f].payment].credit IN
    c # NoCredit /\ AfterCredit(f) = "active" /\ ~NoOpenCredit(Credits \ {c})

Refresh(f) ==
    /\ tx[f].kind \in {"approve", "reverse"}
    /\ LedgerFree
    /\ ~Collides(f)
    /\ tx' = [tx EXCEPT ![f] =
                [kind |-> IF tx[f].kind = "approve" THEN "approving" ELSE "reversing",
                 payment |-> tx[f].payment,
                 paid |-> PaidStatus(AmountOf(PostedWith(f))),
                 credit |-> AfterCredit(f)]]
    /\ UNCHANGED <<payments, credits, book, paymentStatus>>

\* The reversal raises a unique violation and is rolled back.
ReversalRefused(f) ==
    /\ tx[f].kind = "reverse"
    /\ LedgerFree
    /\ Collides(f)
    /\ tx' = [tx EXCEPT ![f] = NoTx]
    /\ UNCHANGED <<payments, credits, book, paymentStatus>>

SetCredit(f) ==
    LET c == payments[tx[f].payment].credit IN
    IF c = NoCredit THEN UNCHANGED credits
    ELSE credits' = [credits EXCEPT ![c].status = tx[f].credit]

Voucher(series, p) ==
    [series |-> series, amount |-> payments[p].amount,
     account |-> payments[p].account, state |-> "posted"]

CommitApprove(f) ==
    LET p == tx[f].payment IN
    /\ tx[f].kind = "approving"
    /\ book' = [book EXCEPT ![p] = Append(@, Voucher("PV", p))]
    /\ payments' = [payments EXCEPT ![p].status = "posted"]
    /\ paymentStatus' = tx[f].paid
    /\ SetCredit(f)
    /\ tx' = [tx EXCEPT ![f] = NoTx]

\* An opposite entry, in the payment's account; the voucher is marked reversed.
CommitReverse(f) ==
    LET p == tx[f].payment IN
    /\ tx[f].kind = "reversing"
    /\ book' = [book EXCEPT ![p] = Append([@ EXCEPT ![1].state = "reversed"],
                                          Voucher("RV", p))]
    /\ payments' = [payments EXCEPT ![p].status = "reversed"]
    /\ paymentStatus' = tx[f].paid
    /\ SetCredit(f)
    /\ tx' = [tx EXCEPT ![f] = NoTx]

\* The connection is lost: the transaction rolls back and its locks go.
Rollback(f) ==
    /\ tx[f] # NoTx
    /\ tx' = [tx EXCEPT ![f] = NoTx]
    /\ UNCHANGED <<payments, credits, book, paymentStatus>>

-----------------------------------------------------------------------------
(* The general ledger's own corrections of a voucher                        *)

\* A reversal holds the voucher's row from its first step.
Correctable(p) ==
    /\ book[p] # <<>>
    /\ book[p][1].state = "posted"
    /\ \A f \in Clerks : tx[f].kind \in {"reverse", "reversing"} => tx[f].payment # p

EditVoucher(p, n, a) ==
    /\ Correctable(p)
    /\ <<n, a>> # <<book[p][1].amount, book[p][1].account>>
    /\ n # book[p][1].amount => LedgerFree
    /\ book' = [book EXCEPT ![p][1].amount = n, ![p][1].account = a]
    /\ UNCHANGED <<payments, credits, paymentStatus, tx>>

DeleteVoucher(p) ==
    /\ Correctable(p)
    /\ LedgerFree
    /\ book' = [book EXCEPT ![p][1].state = "deleted"]
    /\ UNCHANGED <<payments, credits, paymentStatus, tx>>

\* The Help Desk deletes any entry, a reversed voucher or its opposite entry too.
DeskDelete(p, i) ==
    /\ i \in DOMAIN book[p]
    /\ book[p][i].state \in {"posted", "reversed"}
    /\ i = 1 => \A f \in Clerks : tx[f].kind \in {"reverse", "reversing"} => tx[f].payment # p
    /\ LedgerFree
    /\ book' = [book EXCEPT ![p][i].state = IF @ = "reversed" THEN "erased" ELSE "deleted"]
    /\ UNCHANGED <<payments, credits, paymentStatus, tx>>

-----------------------------------------------------------------------------
Recording ==
    \/ \E p \in Payments, n \in Amount, a \in Accounts, s \in Recorders : RecordDirect(p, n, a, s)
    \/ \E p \in Payments, c \in Credits, n \in Amount, a \in Accounts, s \in Recorders :
         RecordRepayment(p, c, n, a, s)
    \/ \E c \in Credits, n \in Amount : RequestCredit(c, n)

Deciding ==
    \/ \E c \in Credits, n \in Amount : ApproveCredit(c, n)
    \/ \E c \in Credits : RejectCredit(c)
    \/ \E p \in Payments : RejectPayment(p)
    \/ \E f \in Clerks, p \in Payments : BeginApprove(f, p)
    \/ \E f \in Clerks, p \in Payments : BeginReverse(f, p)
    \/ \E f \in Clerks : Refresh(f)
    \/ \E f \in Clerks : ReversalRefused(f)
    \/ \E f \in Clerks : CommitApprove(f)
    \/ \E f \in Clerks : CommitReverse(f)
    \/ \E f \in Clerks : Rollback(f)

Correcting ==
    \/ \E p \in Payments, n \in Amount, a \in Accounts : EditVoucher(p, n, a)
    \/ \E p \in Payments : DeleteVoucher(p)
    \/ \E p \in Payments, i \in 1 .. 2 : DeskDelete(p, i)

SettlementNext == Recording \/ Deciding \/ Correcting

SettlementSpec == SettlementInit /\ [][SettlementNext]_settlementVars

-----------------------------------------------------------------------------
SettlementTypeOK ==
    /\ payments \in [Payments -> {Absent} \cup Payment]
    /\ credits \in [Credits -> Credit]
    /\ book \in [Payments -> Seq(Entry)]
    /\ \A p \in Payments : Len(book[p]) <= 2
    /\ paymentStatus \in DemandPaid
    /\ tx \in [Clerks -> {NoTx} \cup Begun \cup Refreshed]

\* A bill is never overpaid and a credit never over-repaid, the payments and
\* credits that still wait for Finance included, whatever decisions land
\* between a check and its use.
NotOverpaid ==
    /\ Direct + OnCredit <= Total
    /\ \A c \in Credits : Used(c) <= credits[c].approved
    /\ AmountOf(With({"posted"})) <= Total

\* The demand says unpaid, partly paid or paid as the posted payments do, with
\* two approvals and reversals of one bill in flight at once.
PaymentStatusTrue == paymentStatus = PaidStatus(AmountOf(With({"posted"})))

\* An approved credit is settled exactly when its posted repayments reach it,
\* and only an approved credit is repaid.
CreditStatusTrue ==
    \A c \in Credits :
       /\ credits[c].status \in {"active", "settled"} =>
            (credits[c].status = "settled" <=> Repaid(c, {"posted"}) >= credits[c].approved)
       /\ (\E p \in Payments : payments[p] # Absent /\ payments[p].credit = c)
            => credits[c].status \in {"active", "settled"}

\* What the book says of a payment: nothing before it is approved, exactly one
\* voucher once it is, and an opposite entry of the same amount once it is
\* reversed, whoever corrects or deletes vouchers meanwhile.  (Of the two the Help
\* Desk may still delete one, and the book is then off by the payment.)
BookFollowsPayments ==
    \A p \in Payments :
       /\ payments[p].status \in {"none", "pending_approval", "rejected"} => book[p] = <<>>
       /\ payments[p].status = "posted" =>
            /\ Len(book[p]) = 1
            /\ book[p][1].series = "PV"
            /\ book[p][1].state \in {"posted", "deleted"}
       /\ payments[p].status = "reversed" =>
            /\ Len(book[p]) = 2
            /\ book[p][1].series = "PV" /\ book[p][2].series = "RV"
            /\ book[p][1].state \in {"reversed", "erased"}
            /\ book[p][1].amount = book[p][2].amount
=============================================================================
