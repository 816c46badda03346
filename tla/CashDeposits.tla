---------------------------- MODULE CashDeposits ----------------------------
(***************************************************************************)
(* The cash a branch sends to the company: a deposit passes Accounts and   *)
(* Finance, becomes receipts of the general ledger, and may be corrected,  *)
(* redated, approved after a rejection or deleted by the help desks.       *)
(*                                                                         *)
(* Deposits and ledger are two records of one payment.  A database         *)
(* function holds the deposit's row to the end of its transaction and is   *)
(* one step; two corrections read the deposit first, without its lock, and *)
(* are two.  The general ledger changes the receipts without the deposit.  *)
(* A closing that commits inside one of these functions, after its look at *)
(* the closings, is the ledger's subject, not this module's.               *)
(***************************************************************************)
EXTENDS Integers, FiniteSets

CONSTANTS
    Deposits,
    Callers,      \* help desk requests in flight at once
    Today,        \* the business date; Dates is up to it
    MaxAmount,    \* bound on a figure
    MaxRevision,  \* bound on resubmissions
    MaxVouchers,  \* bound on receipts posted
    MaxEdits      \* bound on what the general ledger does to the receipts

ASSUME DepositsAssumption ==
    /\ Today \in Nat \ {0}
    /\ {MaxAmount, MaxVouchers, MaxEdits} \subseteq Nat
    /\ MaxRevision \in Nat \ {0}

VARIABLES
    deposit,    \* cash_transfers
    book,       \* per deposit, its live receipts in ledger_entries
    next,       \* the next voucher number
    closed,     \* finance_day_closings
    call,       \* help desk requests that have read a deposit and not written it
    touched,    \* deposits whose receipts the general ledger changed since they were synced
    overtaken,  \* deposits a correction was written on that was decided on an older read
    edits

depositVars == <<deposit, book, next, closed, call, touched, overtaken, edits>>

Dates == 1 .. Today
Amounts == 0 .. MaxAmount
Fields == {"cash", "bank", "fuel"}
Payments == {f \in [Fields -> Amounts] : \E k \in Fields : f[k] > 0}
Blank == [k \in Fields |-> 0]

Deposit == [status : {"none", "pending", "approved", "rejected"}, live : BOOLEAN,
            revision : 1 .. MaxRevision,
            submitted : 0 .. MaxRevision,   \* forwarded_at: the revision Accounts sent on
            figures : Payments \cup {Blank}, day : Dates,
            entry : 0 .. MaxVouchers]       \* ledger_entry_id
Heads == {"share", "fuel", "other"}
Accounts == {"cash", "bank"}
Voucher == [no : 1 .. MaxVouchers, head : Heads, amount : 1 .. 2 * MaxAmount,
            account : Accounts, method : SUBSET Accounts, day : Dates]
NoCall == [status |-> "idle"]
\* The row as a request read it.
Call == [id : Deposits, status : {"pending", "approved", "rejected"}, figures : Payments]

DepositInit ==
    /\ deposit = [d \in Deposits |->
                    [status |-> "none", live |-> TRUE, revision |-> 1, submitted |-> 0,
                     figures |-> Blank, day |-> Today, entry |-> 0]]
    /\ book = [d \in Deposits |-> {}]
    /\ next = 1
    /\ closed = {}
    /\ call = [c \in Callers |-> NoCall]
    /\ touched = {}
    /\ overtaken = {}
    /\ edits = 0

-----------------------------------------------------------------------------
(* The branch, Accounts and Finance                                         *)

Standing(d, status) == deposit[d].status = status /\ deposit[d].live

Create(d, f, n) ==
    /\ deposit[d].status = "none"
    /\ deposit' = [deposit EXCEPT ![d].status = "pending", ![d].figures = f, ![d].day = n]
    /\ UNCHANGED <<book, next, closed, call, touched, overtaken, edits>>

\* The condition of the one update Accounts makes.
WithAccounts(d) == Standing(d, "pending") /\ deposit[d].submitted = 0

Edit(d, f) ==
    /\ WithAccounts(d)
    /\ deposit' = [deposit EXCEPT ![d].figures = f]
    /\ UNCHANGED <<book, next, closed, call, touched, overtaken, edits>>

Forward(d) ==
    /\ WithAccounts(d)
    /\ deposit' = [deposit EXCEPT ![d].submitted = deposit[d].revision]
    /\ UNCHANGED <<book, next, closed, call, touched, overtaken, edits>>

\* The guard trigger; what the API read before the decision can only refuse more.
Decidable(d) == Standing(d, "pending") /\ deposit[d].submitted # 0

RejectDeposit(d) ==
    /\ Decidable(d)
    /\ deposit' = [deposit EXCEPT ![d].status = "rejected"]
    /\ UNCHANGED <<book, next, closed, call, touched, overtaken, edits>>

ResubmittedAsIs(d) == deposit[d].submitted

\* What the guard trigger leaves of forwarded_at.
Resubmitted(d) == 0

Resubmit(d, f) ==
    /\ Standing(d, "rejected")
    /\ deposit[d].revision < MaxRevision
    /\ deposit' = [deposit EXCEPT ![d].status = "pending", ![d].figures = f,
                                  ![d].revision = deposit[d].revision + 1,
                                  ![d].submitted = Resubmitted(d)]
    /\ UNCHANGED <<book, next, closed, call, touched, overtaken, edits>>

-----------------------------------------------------------------------------
(* A deposit's receipts                                                     *)

\* One for the company's share, on the account of its larger part, and one for fuel.
Slices(f) ==
    LET paid == {k \in Accounts : f[k] > 0} IN
    {s \in [head : {"share"}, amount : {f["cash"] + f["bank"]}, method : {paid},
            account : {IF f["cash"] >= f["bank"] THEN "cash" ELSE "bank"}] : s.amount > 0}
      \cup {s \in [head : {"fuel"}, amount : {f["fuel"]}, method : {{"cash"}},
                   account : {"cash"}] : s.amount > 0}

Claimants(B, s) == {v \in B : v.head = s.head}

\* The oldest live receipt under the slice's head.
Claim(B, s) == CHOOSE v \in Claimants(B, s) : \A w \in Claimants(B, s) : v.no <= w.no

Matches(v, s) == v.amount = s.amount /\ v.account = s.account /\ v.method = s.method

BroughtInLine(v, s) == [v EXCEPT !.amount = s.amount, !.account = s.account, !.method = s.method]

Missing(B, f) == {s \in Slices(f) : Claimants(B, s) = {}}

Post(S, n) ==
    {[no |-> IF s.head = "fuel" /\ (\E t \in S : t.head = "share") THEN next + 1 ELSE next,
      head |-> s.head, amount |-> s.amount, account |-> s.account,
      method |-> s.method, day |-> n] : s \in S}

Kept(B, f) == {s \in Slices(f) : Claimants(B, s) # {}}

Synced(B, f, n) == {BroughtInLine(Claim(B, s), s) : s \in Kept(B, f)} \cup Post(Missing(B, f), n)

\* sync_cash_transfer_entries: the receipt of a slice is corrected in place, one that no
\* slice claims is removed, a slice without one is posted on day n.
Sync(d, f, n) ==
    LET B == book[d]
        posted == Cardinality(Missing(B, f))
    IN
    /\ \A s \in Kept(B, f) : Matches(Claim(B, s), s) \/ Claim(B, s).day \notin closed
    /\ Missing(B, f) # {} => n \notin closed
    /\ next + posted <= MaxVouchers + 1
    /\ book' = [book EXCEPT ![d] = Synced(B, f, n)]
    /\ next' = next + posted
    /\ touched' = touched \ {d}

FirstNo(B) == CHOOSE n \in {v.no : v \in B} : \A v \in B : n <= v.no

PostingDay(n) == IF n \in closed THEN Today ELSE n

Approve(d) ==
    /\ Decidable(d)
    /\ Sync(d, deposit[d].figures, PostingDay(deposit[d].day))
    /\ deposit' = [deposit EXCEPT ![d].status = "approved", ![d].entry = FirstNo(book'[d])]
    /\ overtaken' = overtaken \ {d}
    /\ UNCHANGED <<closed, call, edits>>

-----------------------------------------------------------------------------
(* The help desks                                                           *)

\* A request reads the deposit without its lock.
Read(c, d) ==
    /\ call[c] = NoCall
    /\ deposit[d].live /\ deposit[d].status # "none"
    /\ call' = [call EXCEPT ![c] = [id |-> d, status |-> deposit[d].status,
                                    figures |-> deposit[d].figures]]
    /\ UNCHANGED <<deposit, book, next, closed, touched, overtaken, edits>>

Amends(c) == call[c].status \in {"pending", "approved"}
CorrectsRejected(c) == call[c].status = "rejected"

\* Somebody was there between the read and the write.
Overtaken(q, k) ==
    \/ deposit[q.id].status # q.status
    \/ ~deposit[q.id].live
    \/ deposit[q.id].figures[k] # q.figures[k]

RepostsAmended(q, k, n) == q.status = "approved" /\ q.figures[k] > n

\* Decided on what was read; the repost itself looks again, under the lock.
Reposts(q, k, n) == q.status = "approved" /\ q.figures[k] # n

\* A deposit of nothing is refused; it is deleted instead.
WorthSomething(f) == f \in Payments

\* amend_finance_record: one figure of a deposit that was not rejected when it was read.
AmendWrite(c, k, n) ==
    LET q == call[c]
        d == q.id
        f == [deposit[d].figures EXCEPT ![k] = n]
    IN
    /\ Amends(c)
    /\ WorthSomething(f)
    /\ IF Reposts(q, k, n) /\ deposit[d].status = "approved" /\ deposit[d].entry # 0
       THEN /\ Sync(d, f, Today)
            /\ deposit' = [deposit EXCEPT ![d].figures = f, ![d].entry = FirstNo(book'[d])]
            /\ overtaken' = IF deposit[d].live THEN overtaken \ {d} ELSE overtaken \cup {d}
       ELSE /\ deposit' = [deposit EXCEPT ![d].figures = f]
            /\ overtaken' = IF Overtaken(q, k) THEN overtaken \cup {d} ELSE overtaken
            /\ UNCHANGED <<book, next, touched>>
    /\ call' = [call EXCEPT ![c] = NoCall]
    /\ UNCHANGED <<closed, edits>>

\* correct_rejected_cash_transfer: the Support Center merges its edit into the row it read;
\* the date is kept or changed, the deposit approved at once or left rejected.
CorrectWrite(c, k, m, n, approve) ==
    LET d == call[c].id
        f == [call[c].figures EXCEPT ![k] = m]
    IN
    /\ CorrectsRejected(c)
    /\ Standing(d, "rejected")
    /\ WorthSomething(f)
    /\ IF approve
       THEN /\ Sync(d, f, PostingDay(n))
            /\ deposit' = [deposit EXCEPT ![d].status = "approved", ![d].figures = f,
                                          ![d].day = n, ![d].entry = FirstNo(book'[d])]
            /\ overtaken' = overtaken \ {d}
       ELSE /\ deposit' = [deposit EXCEPT ![d].figures = f, ![d].day = n]
            /\ UNCHANGED <<book, next, touched, overtaken>>
    /\ call' = [call EXCEPT ![c] = NoCall]
    /\ UNCHANGED <<closed, edits>>

\* Refused, rolled back or lost.
GiveUp(c) ==
    /\ call[c] # NoCall
    /\ call' = [call EXCEPT ![c] = NoCall]
    /\ UNCHANGED <<deposit, book, next, closed, touched, overtaken, edits>>

MovableTo(d, n) == n \notin closed

\* Nothing leaves a closed day and nothing lands on it.
Movable(d, n) == n \notin closed /\ \A v \in book[d] : v.day \notin closed

\* amend_cash_transfer_date: the receipts move with an approved deposit.
Redate(d, n) ==
    /\ Standing(d, "pending") \/ Standing(d, "approved")
    /\ n # deposit[d].day
    /\ deposit[d].status = "approved" => Movable(d, n)
    /\ deposit' = [deposit EXCEPT ![d].day = n]
    /\ book' = [book EXCEPT ![d] = {[v EXCEPT !.day = n] : v \in book[d]}]
    /\ UNCHANGED <<next, closed, call, touched, overtaken, edits>>

\* The receipts are deleted with their deposit.
Delete(d) ==
    /\ deposit[d].live /\ deposit[d].status # "none"
    /\ deposit' = [deposit EXCEPT ![d].live = FALSE]
    /\ book' = [book EXCEPT ![d] = {}]
    /\ touched' = touched \ {d}
    /\ overtaken' = overtaken \ {d}
    /\ UNCHANGED <<next, closed, call, edits>>

-----------------------------------------------------------------------------
(* The general ledger                                                       *)

Touch(d) ==
    /\ edits < MaxEdits /\ edits' = edits + 1
    /\ touched' = touched \cup {d}

\* edit_ledger_entry: neither on a closed day nor onto one.
EditVoucher(d, v, w) ==
    /\ v.day \notin closed /\ w.day \notin closed
    /\ book' = [book EXCEPT ![d] = (@ \ {v}) \cup {w}]
    /\ Touch(d)
    /\ UNCHANGED <<deposit, next, closed, call, overtaken>>

\* reverse_finance_ledger_entry on an open day, soft_delete_finance_record on any.
RemoveVoucher(d, v) ==
    /\ book' = [book EXCEPT ![d] = @ \ {v}]
    /\ Touch(d)
    /\ UNCHANGED <<deposit, next, closed, call, overtaken>>

\* What one field of a voucher may become.
Edits(v) ==
    {[v EXCEPT !.head = h] : h \in Heads}
      \cup {[v EXCEPT !.amount = n] : n \in 1 .. MaxAmount}
      \cup {[v EXCEPT !.account = a] : a \in Accounts}
      \cup {[v EXCEPT !.method = P] : P \in SUBSET Accounts}
      \cup {[v EXCEPT !.day = n] : n \in Dates}

CloseDay(n) ==
    /\ closed' = closed \cup {n}
    /\ n \notin closed
    /\ UNCHANGED <<deposit, book, next, call, touched, overtaken, edits>>

-----------------------------------------------------------------------------
DepositNext ==
    \/ \E d \in Deposits :
         \/ \E f \in Payments, n \in Dates : Create(d, f, n)
         \/ \E f \in Payments : Edit(d, f) \/ Resubmit(d, f)
         \/ Forward(d) \/ RejectDeposit(d) \/ Approve(d) \/ Delete(d)
         \/ \E n \in Dates : Redate(d, n)
         \/ \E v \in book[d] : RemoveVoucher(d, v) \/ \E w \in Edits(v) \ {v} : EditVoucher(d, v, w)
    \/ \E c \in Callers :
         \/ \E d \in Deposits : Read(c, d)
         \/ GiveUp(c)
         \/ \E k \in Fields, m \in Amounts :
              AmendWrite(c, k, m) \/ \E n \in Dates, approve \in BOOLEAN : CorrectWrite(c, k, m, n, approve)
    \/ \E n \in Dates : CloseDay(n)

DepositSpec == DepositInit /\ [][DepositNext]_depositVars

-----------------------------------------------------------------------------
(* Properties                                                               *)

\* Every record is of its kind: the rows of cash_transfers, none of them a deposit of nothing,
\* and the receipts of ledger_entries.
DepositTypeOK ==
    /\ deposit \in [Deposits -> Deposit]
    /\ \A d \in Deposits : deposit[d].status = "none" \/ deposit[d].figures \in Payments
    /\ book \in [Deposits -> SUBSET Voucher]
    /\ next \in 1 .. MaxVouchers + 1
    /\ closed \subseteq Dates
    /\ call \in [Callers -> Call \cup {NoCall}]
    /\ touched \subseteq Deposits /\ overtaken \subseteq Deposits
    /\ edits \in 0 .. MaxEdits

Booked(d) == Standing(d, "approved")

Shown(v) == [head |-> v.head, amount |-> v.amount, account |-> v.account, method |-> v.method]

\* The general ledger shows an approved deposit by receipts that say the slices of its
\* present figures, and any other deposit not at all, through every order of approval, correction
\* and deletion (approve_cash_transfer, amend_finance_record, soft_delete_finance_record).
\* Excepted are a deposit whose receipts the general ledger changed itself and one written
\* by a correction that somebody overtook after its read: amend_finance_record compares
\* with what it read before it locked the row.
BookFollowsDeposit ==
    \A d \in Deposits \ (touched \cup overtaken) :
        IF Booked(d)
        THEN /\ {Shown(v) : v \in book[d]} = Slices(deposit[d].figures)
             /\ deposit[d].entry = FirstNo(book[d])
        ELSE book[d] = {}

\* No slice is booked twice, not even by a correction that was overtaken: the sync claims
\* the live receipts under the deposit's lock.
OneVoucherEach ==
    \A d \in Deposits \ touched : \A v, w \in book[d] : v.head = w.head => v = w

\* Finance and the help desks decide only a revision Accounts submitted: a resubmission
\* after a rejection passes Accounts again (cash_transfer_guard).
DecidedAsSubmitted ==
    \A d \in Deposits :
        deposit[d].status \in {"approved", "rejected"} => deposit[d].submitted = deposit[d].revision

KeepsSubmitted ==
    \A d \in Deposits :
        Decidable(d) /\ deposit'[d].figures # deposit[d].figures =>
            \E c \in Callers : Amends(c) /\ call[c].id = d /\ call'[c] = NoCall

\* Between Accounts and Finance only a help desk changes a figure: an edit by Accounts that
\* meets the submission changes nothing (the conditional update of reviewCashTransfer).
SubmittedIsKept == [][KeepsSubmitted]_depositVars

KeepsClosed ==
    \A d \in Deposits :
        /\ \A w \in book'[d] : w.day \in closed => w \in book[d]
        /\ \A v \in book[d], w \in book'[d] : v.no = w.no /\ v.day \in closed => v = w

\* A closed finance day receives no receipt, and one it holds is neither changed nor moved:
\* it stays or it is removed.  Approval, correction, amendment of the figures and of the
\* date and the general ledger's own edit each look at the closings for themselves.
ClosedDayKept == [][KeepsClosed]_depositVars
=============================================================================
