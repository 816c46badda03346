--------------------------- MODULE BranchReturns ---------------------------
(***************************************************************************)
(* Goods a branch sends back to Production: the return records, the        *)
(* branch's stock and the return stock they move between.                  *)
(*                                                                         *)
(* Every call is several transactions, and what it read at the start may   *)
(* be stale when it writes: raising a return takes its products off the    *)
(* branch one by one and records them last; a correction moves units and   *)
(* then writes the row; a rejection gives the units back after the row     *)
(* says so.                                                                *)
(***************************************************************************)
EXTENDS Integers, FiniteSets, Functions

CONSTANTS
    Goods,
    Returns,      \* return ids
    Of,           \* the product of each
    ByProduction, \* the returns Production records itself (source null)
    Batches,      \* what a branch may hand in at once
    Callers,      \* requests in flight at once
    Transfers,    \* transfers of return stock to production: one ref each
    OnHand,       \* what the branch holds at first, per product
    MaxQty,       \* bound on a quantity
    MaxLoads,     \* bound on the branch's corrections
    MaxBreaks     \* bound on calls that break off

ASSUME ReturnsAssumption ==
    /\ IsFiniteSet(Returns)
    /\ Of \in [Returns -> Goods]
    /\ ByProduction \subseteq Returns
    /\ Batches \subseteq SUBSET (Returns \ ByProduction)
    /\ OnHand \in [Goods -> Nat]
    /\ MaxQty \in Nat /\ MaxLoads \in Nat /\ MaxBreaks \in Nat

VARIABLES
    stock,        \* the branch's balance
    rows,         \* production_returns
    off,          \* stock_history: units taken off the branch for each return
    credited,     \* return_stock_history: units received for each
    returnStock,  \* return_stock, per product
    transferred,  \* what each transfer moved on, once
    settled,      \* stock_history: returns whose decision has moved the branch's units
    closed,       \* the business day of the returns is closed
    call,         \* the requests in flight
    marred,       \* returns a call broke off over, or that changed under a correction
    loads,
    breaks

returnVars == <<stock, rows, off, credited, returnStock, transferred, settled, closed, call, marred, loads, breaks>>

Undecided == {"pending", "returned"}
Decided == {"accepted", "rejected"}
Qty == 1 .. MaxQty
NoRow == [status |-> "none", qty |-> 0]
Row == {NoRow} \cup [status : Undecided \cup Decided \cup {"deleted"}, qty : Qty]

Free == [op |-> "none"]
Raise == [op : {"raise"}, todo : SUBSET Returns, got : SUBSET Returns, want : [Returns -> 0 .. MaxQty]]
Correction == [op : {"revise", "withdraw", "resubmit"}, id : Returns, want : 0 .. MaxQty,
               seen : Row, moved : BOOLEAN]
Settling == [op : {"refund", "debit"}, id : Returns, want : Qty]

ReturnInit ==
    /\ stock = OnHand
    /\ rows = [id \in Returns |-> NoRow]
    /\ off = [id \in Returns |-> 0]
    /\ credited = [id \in Returns |-> 0]
    /\ returnStock = [p \in Goods |-> 0]
    /\ transferred = [t \in Transfers |-> 0]
    /\ settled = {}
    /\ closed = FALSE
    /\ call = [c \in Callers |-> Free]
    /\ marred = {}
    /\ loads = 0
    /\ breaks = 0

\* A movement of the branch's balance for a return.
TakeOff(id, qty) ==
    /\ stock' = [stock EXCEPT ![Of[id]] = @ - qty]
    /\ off' = [off EXCEPT ![id] = @ + qty]

Answer(c) == call' = [call EXCEPT ![c] = Free]

\* A correction that has read the row and not finished with it.
Correcting(d, id) == call[d].op \in {"revise", "withdraw"} /\ call[d].id = id

\* Something was written under a correction's hands.
Mar(c, id) ==
    marred' = IF \E d \in Callers \ {c} : Correcting(d, id) THEN marred \cup {id} ELSE marred

-----------------------------------------------------------------------------
(* POST /stock/return                                                       *)

RaiseStart(c, batch, want) ==
    /\ call[c] = Free
    /\ \A id \in batch : /\ rows[id] = NoRow /\ off[id] = 0
                         /\ want[id] <= stock[Of[id]]
                         /\ \A d \in Callers : call[d].op = "raise" =>
                              id \notin call[d].todo \cup call[d].got
    /\ call' = [call EXCEPT ![c] = [op |-> "raise", todo |-> batch, got |-> {},
                   want |-> [id \in Returns |-> IF id \in batch THEN want[id] ELSE 0]]]
    /\ UNCHANGED <<stock, rows, off, credited, returnStock, transferred, settled, closed, marred, loads, breaks>>

Holds(id, qty) == qty <= stock[Of[id]]

\* commit_branch_return, a product at a time.
RaiseCommit(c) ==
    /\ call[c].op = "raise"
    /\ \E id \in call[c].todo :
         /\ Holds(id, call[c].want[id])
         /\ TakeOff(id, call[c].want[id])
         /\ call' = [call EXCEPT ![c].todo = @ \ {id}, ![c].got = @ \cup {id}]
    /\ UNCHANGED <<rows, credited, returnStock, transferred, settled, closed, marred, loads, breaks>>

\* A sale got there first: 409, what was committed stays so, and nothing is recorded.
RaiseStops(c) ==
    /\ call[c].op = "raise"
    /\ \E id \in call[c].todo : ~Holds(id, call[c].want[id])
    /\ Answer(c)
    /\ marred' = marred \cup call[c].got
    /\ UNCHANGED <<stock, rows, off, credited, returnStock, transferred, settled, closed, loads, breaks>>

RaiseInsert(c) ==
    /\ call[c].op = "raise" /\ call[c].todo = {}
    /\ rows' = [id \in Returns |-> IF id \in call[c].got
                                   THEN [status |-> "pending", qty |-> call[c].want[id]]
                                   ELSE rows[id]]
    /\ Answer(c)
    /\ UNCHANGED <<stock, off, credited, returnStock, transferred, settled, closed, marred, loads, breaks>>

-----------------------------------------------------------------------------
(* The branch changes, resubmits or withdraws a return                      *)

\* loadEditable, and resubmit's own check of the status.
Load(c, op, id, want) ==
    /\ call[c] = Free
    /\ id \notin ByProduction
    /\ rows[id].status \in IF op = "resubmit" THEN {"returned"} ELSE Undecided
    /\ ~closed
    /\ loads < MaxLoads /\ loads' = loads + 1
    /\ call' = [call EXCEPT ![c] = [op |-> op, id |-> id, want |-> want, seen |-> rows[id],
                                    moved |-> FALSE]]
    /\ UNCHANGED <<stock, rows, off, credited, returnStock, transferred, settled, closed, marred, breaks>>

WholeAgain(q) == IF q.op = "revise" THEN q.want ELSE - q.seen.qty

\* What a correction takes off the branch, by the row it read.
Difference(q) == (IF q.op = "revise" THEN q.want ELSE 0) - q.seen.qty

\* The difference, checked against the balance when it takes more units.
Move(c) ==
    LET q == call[c] IN
    /\ q.op \in {"revise", "withdraw"} /\ ~q.moved
    /\ Difference(q) > 0 => Holds(q.id, Difference(q))
    /\ TakeOff(q.id, Difference(q))
    /\ call' = [call EXCEPT ![c].moved = TRUE]
    /\ Mar(c, q.id)
    /\ UNCHANGED <<rows, credited, returnStock, transferred, settled, closed, loads, breaks>>

MoveRefused(c) ==
    LET q == call[c] IN
    /\ q.op = "revise" /\ ~q.moved
    /\ Difference(q) > 0 /\ ~Holds(q.id, Difference(q))
    /\ Answer(c)
    /\ UNCHANGED <<stock, rows, off, credited, returnStock, transferred, settled, closed, marred, loads, breaks>>

\* By id alone.  A row that is gone makes the update of a revision fail.
Write(c) ==
    LET q == call[c] IN
    /\ q.op \in {"revise", "withdraw"} /\ q.moved
    /\ rows' = [rows EXCEPT ![q.id] =
                  IF @.status = "deleted" THEN @
                  ELSE IF q.op = "withdraw" THEN [@ EXCEPT !.status = "deleted"]
                  ELSE [status |-> IF q.seen.status = "returned" THEN "pending" ELSE @.status,
                        qty |-> q.want]]
    /\ Answer(c)
    /\ Mar(c, q.id)
    /\ UNCHANGED <<stock, off, credited, returnStock, transferred, settled, closed, loads, breaks>>

NeverMind(id) == TRUE

StillReturned(id) == rows[id].status = "returned"

\* Guarded on the status once more; otherwise Production was first.
Resubmit(c) ==
    LET q == call[c] IN
    /\ q.op = "resubmit"
    /\ IF StillReturned(q.id)
       THEN rows' = [rows EXCEPT ![q.id].status = "pending"] /\ Mar(c, q.id)
       ELSE UNCHANGED <<rows, marred>>
    /\ Answer(c)
    /\ UNCHANGED <<stock, off, credited, returnStock, transferred, settled, closed, loads, breaks>>

-----------------------------------------------------------------------------
(* Production                                                               *)

\* POST /production-returns: a return the branch did not raise.
Record(id, qty) ==
    /\ id \in ByProduction /\ rows[id] = NoRow
    /\ rows' = [rows EXCEPT ![id] = [status |-> "pending", qty |-> qty]]
    /\ UNCHANGED <<stock, off, credited, returnStock, transferred, settled, closed, call, marred, loads, breaks>>

Review(c, id, status) ==
    /\ call[c] = Free
    /\ rows[id].status = "pending"
    /\ rows' = [rows EXCEPT ![id].status = status]
    /\ Mar(c, id)
    /\ UNCHANGED <<stock, off, transferred, settled, closed, loads, breaks>>

Then(c, op, id) == call' = [call EXCEPT ![c] = [op |-> op, id |-> id, want |-> rows[id].qty]]

CreditAgain(id) == rows[id].qty

\* apply_return_stock_movement, keyed by the return: received once.
Credit(id) == IF credited[id] = 0 THEN rows[id].qty ELSE 0

\* accept_production_return; a return recorded here is taken off the branch next.
Accept(c, id) ==
    /\ Review(c, id, "accepted")
    /\ credited' = [credited EXCEPT ![id] = @ + Credit(id)]
    /\ returnStock' = [returnStock EXCEPT ![Of[id]] = @ + Credit(id)]
    /\ IF id \in ByProduction THEN Then(c, "debit", id) ELSE UNCHANGED call

\* A branch's units are given back next.
Reject(c, id) ==
    /\ Review(c, id, "rejected")
    /\ IF id \in ByProduction THEN UNCHANGED call ELSE Then(c, "refund", id)
    /\ UNCHANGED <<credited, returnStock>>

SendBack(c, id) ==
    /\ Review(c, id, "returned")
    /\ id \notin ByProduction
    /\ UNCHANGED <<credited, returnStock, call>>

\* apply_stock_movement: no check of the balance, and once per return.
Settle(c) ==
    LET q == call[c] IN
    /\ q.op \in {"debit", "refund"}
    /\ IF q.id \in settled THEN UNCHANGED <<stock, off>>
       ELSE TakeOff(q.id, IF q.op = "debit" THEN q.want ELSE - q.want)
    /\ settled' = settled \cup {q.id}
    /\ Answer(c)
    /\ Mar(c, q.id)
    /\ UNCHANGED <<rows, credited, returnStock, transferred, closed, loads, breaks>>

Enough(p, qty) == qty <= returnStock[p]

\* transfer_return_stock_to_production: one transaction, one effect per ref.
Transfer(t, p, qty) ==
    /\ transferred[t] = 0
    /\ Enough(p, qty)
    /\ returnStock' = [returnStock EXCEPT ![p] = @ - qty]
    /\ transferred' = [transferred EXCEPT ![t] = qty]
    /\ UNCHANGED <<stock, rows, off, credited, settled, closed, call, marred, loads, breaks>>

-----------------------------------------------------------------------------
(* Around them                                                              *)

\* commit_sale, one unit.
Sell(p) ==
    /\ stock[p] >= 1
    /\ stock' = [stock EXCEPT ![p] = @ - 1]
    /\ UNCHANGED <<rows, off, credited, returnStock, transferred, settled, closed, call, marred, loads, breaks>>

CloseDay ==
    /\ ~closed /\ closed' = TRUE
    /\ UNCHANGED <<stock, rows, off, credited, returnStock, transferred, settled, call, marred, loads, breaks>>

\* The returns a call has moved units of, with its record still to come.
Midway(q) ==
    CASE q.op = "raise" -> q.got
      [] q.op \in {"revise", "withdraw"} -> IF q.moved THEN {q.id} ELSE {}
      [] q.op \in {"debit", "refund"} -> {q.id}
      [] OTHER -> {}

\* A transaction fails or the process dies.
Break(c) ==
    /\ call[c] # Free
    /\ breaks < MaxBreaks /\ breaks' = breaks + 1
    /\ Answer(c)
    /\ marred' = marred \cup Midway(call[c])
    /\ UNCHANGED <<stock, rows, off, credited, returnStock, transferred, settled, closed, loads>>

ReturnNext ==
    \/ \E c \in Callers :
         \/ \E batch \in Batches : \E want \in [batch -> Qty] : RaiseStart(c, batch, want)
         \/ RaiseCommit(c) \/ RaiseStops(c) \/ RaiseInsert(c)
         \/ \E id \in Returns : \/ Load(c, "withdraw", id, 0) \/ Load(c, "resubmit", id, 0)
                                \/ \E want \in Qty : Load(c, "revise", id, want)
                                \/ Accept(c, id) \/ Reject(c, id) \/ SendBack(c, id)
         \/ Move(c) \/ MoveRefused(c) \/ Write(c) \/ Resubmit(c) \/ Settle(c) \/ Break(c)
    \/ \E id \in ByProduction, qty \in Qty : Record(id, qty)
    \/ \E t \in Transfers, p \in Goods, qty \in Qty : Transfer(t, p, qty)
    \/ \E p \in Goods : Sell(p)
    \/ CloseDay

ReturnSpec == ReturnInit /\ [][ReturnNext]_returnVars

-----------------------------------------------------------------------------
(* Properties                                                               *)

ReturnTypeOK ==
    /\ stock \in [Goods -> Int]
    /\ rows \in [Returns -> Row]
    /\ off \in [Returns -> Int]
    /\ credited \in [Returns -> Nat]
    /\ returnStock \in [Goods -> Nat]
    /\ transferred \in [Transfers -> 0 .. MaxQty]
    /\ settled \subseteq Returns
    /\ closed \in BOOLEAN
    /\ call \in [Callers -> {Free} \cup Raise \cup Correction \cup Settling]
    /\ marred \subseteq Returns
    /\ loads \in 0 .. MaxLoads /\ breaks \in 0 .. MaxBreaks

\* What the branch has given up for a return, by its row.
Owed(id) ==
    CASE rows[id].status \in Undecided -> IF id \in ByProduction THEN 0 ELSE rows[id].qty
      [] rows[id].status = "accepted" -> rows[id].qty
      [] OTHER -> 0

\* The returns of a product Production records.
OwnReturns(p) == {id \in ByProduction : Of[id] = p}

\* Between the two halves of no call, the branch is out exactly the units of its open
\* and accepted returns, and the return stock has received exactly the accepted ones:
\* no unit is in two places, none is nowhere.  What can part them is a call that broke
\* off or stopped short, or a correction whose row was written under its hands - and
\* then only the return it worked on.  And however sales, returns and corrections race
\* for the last units, nothing but Production's own record of a return takes the
\* branch's balance below zero, and transfers spend only what was received.
UnitsAgree ==
    /\ \A id \in Returns \ (marred \cup UNION {Midway(call[c]) : c \in Callers}) :
        /\ off[id] = Owed(id)
        /\ credited[id] = IF rows[id].status = "accepted" THEN rows[id].qty ELSE 0
    /\ \A p \in Goods :
        /\ stock[p] + SumFunction([id \in OwnReturns(p) |-> off[id]]) >= 0
        /\ returnStock[p] >= 0

\* Whatever becomes of the row afterwards - a stale correction may even put it back on
\* the queue - a return is received into the return stock once.
ReceivedOnce ==
    [][\A id \in Returns : credited[id] # 0 => credited'[id] = credited[id]]_returnVars

\* "Before Production has decided, yes; afterwards, never": no call that starts on a
\* decided return, and no second decision, revision or resubmission of another client,
\* changes or revives it.  (A correction that had read it while it was open still does.)
DecidedIsFinal ==
    [][\A id \in Returns :
         rows[id].status \in Decided /\ ~(\E c \in Callers : Correcting(c, id))
           => rows'[id] = rows[id]]_returnVars
=============================================================================
