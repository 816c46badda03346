-------------------------- MODULE ProductionOrders --------------------------
(***************************************************************************)
(* Branch demands on the central production pool: what Production promises *)
(* a branch, what the branch counts in, and the two ledgers the goods move *)
(* between.                                                                *)
(*                                                                         *)
(* A review checks the pool under its rows' locks and approves the lines   *)
(* as they are when it writes; a verification checks and commits in one    *)
(* transaction, but the goods leave the pool and reach the branch in       *)
(* transactions of their own, one per product and ledger; a help desk's    *)
(* correction rewrites the lines first and moves the difference after.     *)
(***************************************************************************)
EXTENDS Integers, FiniteSetsExt

CONSTANTS
    Orders,
    Products,
    Tickets,    \* help desk queries about demands
    About,      \* the demand each is about
    Callers,    \* requests in flight at once
    None,       \* no quantity yet
    MaxQty,     \* bound on a quantity
    MaxPool,    \* bound on the pool, up and down
    MaxSlips    \* bound, together, on lines beside the branches' own, requests that break
                \* off and checks overridden

ASSUME OrdersAssumption ==
    /\ IsFiniteSet(Orders) /\ IsFiniteSet(Products)
    /\ IsFiniteSet(Tickets) /\ IsFiniteSet(Callers)
    /\ About \in [Tickets -> Orders]
    /\ None \notin Nat
    /\ MaxQty \in Nat /\ MaxPool \in Nat /\ MaxSlips \in Nat

VARIABLES
    status,     \* production_orders, by demand
    lines,      \* production_order_items: per demand, who put it there, and product
    pool,       \* production_stock
    left,       \* production_stock_history: units that left for a demand ("transfer_out")
    came,       \* stock_history: units that came to its branch ("production")
    fixLeft,    \* the same two ledgers, per help desk query ("adjustment")
    fixCame,
    open,       \* queries not resolved
    call,       \* the requests in flight
    strained,   \* products promised or taken without a check that saw everything
    marred,     \* demands one of whose movements broke off, was swallowed or was never made
    slips       \* requests broken off and checks overridden

vars == <<status, lines, pool, left, came, fixLeft, fixCame, open, call, strained, marred, slips>>

Qty == 1 .. MaxQty
Amount == 0 .. MaxQty
\* A line the branch asked for, one Production added, one found on arrival.
Keys == {"asked", "added", "found"} \X Products
\* The figure that counts: the one wanted, until one is approved in its place. The code
\* keeps both, and reads the first no more.
NoLine == [qty |-> None, approved |-> FALSE]
Line == {NoLine} \cup [qty : Amount, approved : BOOLEAN]
Free == [op |-> "none"]

\* The inputs: figures for some products, a reviewer's figures, lines a branch asks for.
Some(S) == UNION {[D -> S] : D \in SUBSET Products}
Counts == Some(Amount)
Extras == Some(Qty)
Overrides == [Products -> Amount \cup {None}]
Asked == UNION {[D -> Qty] : D \in (SUBSET {k \in Keys : k[1] = "asked"}) \ {{}}}

Init ==
    /\ status = [o \in Orders |-> "none"]
    /\ lines = [o \in Orders |-> [k \in Keys |-> NoLine]]
    /\ pool = [p \in Products |-> 0]
    /\ left = [o \in Orders |-> [p \in Products |-> 0]]
    /\ came = [o \in Orders |-> [p \in Products |-> 0]]
    /\ fixLeft = [t \in Tickets |-> [p \in Products |-> 0]]
    /\ fixCame = [t \in Tickets |-> [p \in Products |-> 0]]
    /\ open = Tickets
    /\ call = [c \in Callers |-> Free]
    /\ strained = {}
    /\ marred = {}
    /\ slips = 0

-----------------------------------------------------------------------------
(* What is promised and what is left                                        *)

Present(o) == {k \in Keys : lines[o][k] # NoLine}
OfProduct(o, p) == {k \in Present(o) : k[2] = p}
\* approved_qty, null read as 0.
ApprovedQty(line) == IF line.approved THEN line.qty ELSE 0

\* What a demand that still waits claims of a product.
Claimed(o, p) == SumFunction([k \in OfProduct(o, p) |-> lines[o][k].qty])

\* What the demands in some statuses, but for some, claim together.
ClaimedBy(p, statuses, except) ==
    SumFunction([o \in {u \in Orders \ except : status[u] \in statuses} |-> Claimed(o, p)])

OutstandingPending(p, except) == ClaimedBy(p, {"pending"}, except)

\* production_outstanding_demand
Outstanding(p, except) == ClaimedBy(p, {"pending", "awaiting"}, except)

\* production_demand_shortfalls finds none: the quantities wanted beside what the other
\* demands claim.
Covered(want, o) ==
    \A p \in Products : want[p] > 0 => want[p] <= pool[p] - Outstanding(p, {o})

\* What a delivery has still to take out of the pool.
ToTake(c, p) == SumFunction([k \in {j \in DOMAIN call[c].out : j[2] = p} |-> call[c].out[k]])

\* Goods of verified demands that have not left the pool yet.
Leaving(p) ==
    SumFunction([c \in {d \in Callers : call[d].op = "deliver" /\ left[call[d].order][p] = 0} |->
                    ToTake(c, p)])

\* A pool row another request holds locked.
RowFree(c, p) == \A d \in Callers \ {c} : call[d].op = "review" => call[d].want[p] = 0

\* A check made while goods were on their way out could not count them.
Unseen(want) == {p \in Products : want[p] > 0 /\ Leaving(p) > 0}

Answer(c) == call' = [call EXCEPT ![c] = Free]

\* Lines beside the branches' own, those being inserted among them.
Extra ==
    SumFunction([o \in Orders |-> Cardinality({k \in Present(o) : k[1] # "asked"})])
    + SumFunction([c \in {d \in Callers : call[d].op = "insert"} |->
                      Cardinality({k \in DOMAIN call[c].lines : k[1] = "added"})])

Slip == slips + Extra < MaxSlips /\ slips' = slips + 1

-----------------------------------------------------------------------------
(* The branch raises, edits and withdraws a demand                          *)

\* POST /: the demand first, its lines in a call of their own.
Create(c, o, asked) ==
    /\ call[c] = Free
    /\ status[o] = "none"
    /\ status' = [status EXCEPT ![o] = "pending"]
    /\ call' = [call EXCEPT ![c] = [op |-> "insert", order |-> o, lines |-> asked]]
    /\ UNCHANGED <<lines, pool, left, came, fixLeft, fixCame, open, strained, marred, slips>>

\* POST /:id/items: Production adds a line to a demand it read as pending.
AddItem(c, o, p, q) ==
    /\ call[c] = Free
    /\ status[o] = "pending"
    /\ lines[o][<<"added", p>>] = NoLine
    /\ slips + Extra < MaxSlips
    /\ call' = [call EXCEPT ![c] = [op |-> "insert", order |-> o,
                   lines |-> [k \in {<<"added", p>>} |-> q]]]
    /\ UNCHANGED <<status, lines, pool, left, came, fixLeft, fixCame, open, strained, marred, slips>>

\* The insert looks at nothing but the foreign key: it may come after the review.
Insert(c) ==
    /\ call[c].op = "insert"
    /\ LET o == call[c].order
           new == {k \in DOMAIN call[c].lines : lines[o][k] = NoLine} IN
       IF status[o] = "deleted"
       THEN UNCHANGED <<lines, strained>>
       ELSE /\ lines' = [lines EXCEPT ![o] = [k \in Keys |->
                  IF k \in new THEN [qty |-> call[c].lines[k], approved |-> FALSE] ELSE @[k]]]
            /\ strained' = IF status[o] = "awaiting"
                           THEN strained \cup {k[2] : k \in new} ELSE strained
    /\ Answer(c)
    /\ UNCHANGED <<status, pool, left, came, fixLeft, fixCame, open, marred, slips>>

\* editBranchDemand: the branch's own lines become what it now wants.
Edit(o, asked) ==
    /\ status[o] = "pending"
    /\ lines' = [lines EXCEPT ![o] = [k \in Keys |->
          IF k[1] # "asked" THEN @[k]
          ELSE IF k \in DOMAIN asked
               THEN [qty |-> asked[k], approved |-> FALSE]
               ELSE NoLine]]
    /\ UNCHANGED <<status, pool, left, came, fixLeft, fixCame, open, call, strained, marred, slips>>

Cancel(o) ==
    /\ status[o] = "pending"
    /\ status' = [status EXCEPT ![o] = "cancelled"]
    /\ UNCHANGED <<lines, pool, left, came, fixLeft, fixCame, open, call, strained, marred, slips>>

-----------------------------------------------------------------------------
(* Production reviews                                                       *)

\* The quantity a line is sent with: the reviewer's figure for its product, or its own.
Sent(o, k, override) == IF override[k[2]] # None THEN override[k[2]] ELSE lines[o][k].qty

ToSend(o, override) ==
    [p \in Products |-> SumFunction([k \in OfProduct(o, p) |-> Sent(o, k, override)])]

\* The check half of review_production_order_checked: it keeps the rows it looked at. (One
\* of a demand no longer pending ends in a refusal.)
CheckReview(c, o) ==
    /\ call[c] = Free
    /\ status[o] = "pending"
    /\ \E override \in Overrides :
         LET want == ToSend(o, override) IN
         /\ \A p \in Products : want[p] > 0 => RowFree(c, p)
         /\ Covered(want, o)
         /\ call' = [call EXCEPT ![c] =
                       [op |-> "review", order |-> o, override |-> override, want |-> want]]
         /\ strained' = strained \cup Unseen(want)
    /\ UNCHANGED <<status, lines, pool, left, came, fixLeft, fixCame, open, marred, slips>>

\* review_production_order approves the lines it finds, of a demand still pending.
Approved(o, override) ==
    /\ status' = [status EXCEPT ![o] = "awaiting"]
    /\ lines' = [lines EXCEPT ![o] = [k \in Keys |->
          IF @[k] = NoLine THEN NoLine ELSE [qty |-> Sent(o, k, override), approved |-> TRUE]]]

WriteReview(c) ==
    /\ call[c].op = "review"
    /\ LET o == call[c].order
           now == ToSend(o, call[c].override) IN
       IF status[o] = "pending"
       THEN /\ Approved(o, call[c].override)
            /\ strained' = strained \cup {p \in Products : now[p] > call[c].want[p]}
       ELSE UNCHANGED <<status, lines, strained>>
    /\ Answer(c)
    /\ UNCHANGED <<pool, left, came, fixLeft, fixCame, open, marred, slips>>

\* An admin's override, or a rule switched off: approved without the check.
Override(o) ==
    /\ status[o] = "pending"
    /\ Slip
    /\ \E override \in Overrides : Approved(o, override)
    /\ strained' = strained \cup {k[2] : k \in Present(o)}
    /\ UNCHANGED <<pool, left, came, fixLeft, fixCame, open, call, marred>>

Reject(o) ==
    /\ status[o] = "pending"
    /\ status' = [status EXCEPT ![o] = "rejected"]
    /\ UNCHANGED <<lines, pool, left, came, fixLeft, fixCame, open, call, strained, marred, slips>>

\* PUT /:id/final-approve
FinalApprove(o) ==
    /\ status[o] = "verified"
    /\ status' = [status EXCEPT ![o] = "approved"]
    /\ UNCHANGED <<lines, pool, left, came, fixLeft, fixCame, open, call, strained, marred, slips>>

-----------------------------------------------------------------------------
(* The branch counts the delivery in                                        *)

VerifiableAgain(o) == status[o] \in {"awaiting", "verified"}

Verifiable(o) == status[o] = "awaiting"

\* verify_production_order: one line per product takes the count, and what nobody asked
\* for becomes a line of its own.
Counted(o, pick, count, extra) ==
    [k \in Keys |->
        IF k[1] = "found" /\ k[2] \in DOMAIN extra
        THEN [qty |-> extra[k[2]], approved |-> TRUE]
        ELSE IF k \in pick /\ lines[o][k] # NoLine
             THEN [qty |-> count[k[2]], approved |-> TRUE]
             ELSE lines[o][k]]

\* The figures the caller moves stock by, line by line.
Moves(ls) == [k \in {j \in Keys : ApprovedQty(ls[j]) > 0} |-> ls[k].qty]

\* A line of each product: of two, the plan decides which.
Picks(o) == {f \in SUBSET Present(o) : \A p \in Products :
                Cardinality({k \in f : k[2] = p}) = IF OfProduct(o, p) = {} THEN 0 ELSE 1}

Verify(c, o) ==
    /\ call[c] = Free
    /\ Verifiable(o)
    /\ \E pick \in Picks(o), count \in Counts, extra \in Extras :
         LET Said(f, p) == IF p \in DOMAIN f THEN f[p] ELSE 0
             want == [p \in Products |-> Said(count, p) + Said(extra, p)]
             ls == Counted(o, {k \in pick : k[2] \in DOMAIN count}, count, extra)
         IN
         /\ \A p \in DOMAIN extra : lines[o][<<"found", p>>] = NoLine
         /\ slips + Extra + Cardinality(DOMAIN extra) <= MaxSlips
         /\ \A p \in Products : want[p] > 0 => RowFree(c, p)
         /\ Covered(want, o)
         /\ lines' = [lines EXCEPT ![o] = ls]
         /\ call' = [call EXCEPT ![c] = [op |-> "deliver", order |-> o,
                                         out |-> Moves(ls), in |-> Moves(ls)]]
         /\ strained' = strained \cup Unseen(want)
                           \cup {p \in Products : /\ OfProduct(o, p) # {}
                                                 /\ p \in DOMAIN count => Cardinality(OfProduct(o, p)) > 1}
    /\ status' = [status EXCEPT ![o] = "verified"]
    /\ UNCHANGED <<pool, left, came, fixLeft, fixCame, open, marred, slips>>

\* A ledger row per demand (or query), product and type: a second one changes nothing.
Once(ledger, ref, p, figure) ==
    IF ledger[ref][p] = 0 THEN [ledger EXCEPT ![ref][p] = figure] ELSE ledger

Without(f, k) == Restrict(f, DOMAIN f \ {k})

\* transferOutOnApproval, a product at a time.
MoveOut(c) ==
    /\ call[c].op = "deliver"
    /\ \E k \in DOMAIN call[c].out :
         LET o == call[c].order  p == k[2] IN
         /\ RowFree(c, p)
         /\ left' = Once(left, o, p, call[c].out[k])
         /\ pool' = [pool EXCEPT ![p] = @ - (left'[o][p] - left[o][p])]
         /\ marred' = IF left[o][p] # 0 THEN marred \cup {o} ELSE marred
         /\ call' = [call EXCEPT ![c].out = Without(@, k)]
    /\ UNCHANGED <<status, lines, came, fixLeft, fixCame, open, strained, slips>>

\* applyProductionToStock, once everything is out.
MoveIn(c) ==
    /\ call[c].op = "deliver"
    /\ DOMAIN call[c].out = {}
    /\ \E k \in DOMAIN call[c].in :
         LET o == call[c].order  p == k[2] IN
         /\ came' = Once(came, o, p, call[c].in[k])
         /\ marred' = IF came[o][p] # 0 THEN marred \cup {o} ELSE marred
         /\ call' = [call EXCEPT ![c].in = Without(@, k)]
    /\ UNCHANGED <<status, lines, pool, left, fixLeft, fixCame, open, strained, slips>>

Delivered(c) ==
    /\ call[c].op = "deliver"
    /\ DOMAIN call[c].out = {} /\ DOMAIN call[c].in = {}
    /\ Answer(c)
    /\ UNCHANGED <<status, lines, pool, left, came, fixLeft, fixCame, open, strained, marred, slips>>


-----------------------------------------------------------------------------
(* The help desk corrects a demand, or destroys it                          *)

\* PATCH /:id/demand-items reads its query, of a demand that was raised, unresolved, and
\* locks nothing.
StartCorrect(c, t) ==
    /\ call[c] = Free
    /\ t \in open /\ status[About[t]] # "none"
    /\ call' = [call EXCEPT ![c] = [op |-> "correct", ticket |-> t, order |-> About[t]]]
    /\ UNCHANGED <<status, lines, pool, left, came, fixLeft, fixCame, open, strained, marred, slips>>

\* The final state of each product, whichever lines it has.
Corrected(o, new) ==
    [k \in Keys |->
        IF k[2] \in DOMAIN new /\ (k \in Present(o) \/ (k[1] = "asked" /\ OfProduct(o, k[2]) = {}))
        THEN [qty |-> new[k[2]], approved |-> TRUE] ELSE NoLine]

\* What each old line, and each product that had none, is short or over of it.
Deltas(o, new) ==
    [k \in Present(o) \cup {<<"asked", p>> : p \in {q \in DOMAIN new : OfProduct(o, q) = {}}} |->
        (IF k[2] \in DOMAIN new THEN new[k[2]] ELSE 0) - ApprovedQty(lines[o][k])]

Delivering(o) == \E c \in Callers : call[c].op \in {"deliver", "reconcile"} /\ call[c].order = o

\* correct_production_order: goods move only if some of the demand's have arrived, also when
\* it is verified and they are yet to.
CorrectLines(c) ==
    /\ call[c].op = "correct"
    /\ \E new \in Counts \ {<<>>} :
       LET o == call[c].order
           moved == \E p \in Products : came[o][p] # 0
           deltas == Deltas(o, new)
           short == {k \in DOMAIN deltas : deltas[k] # 0}
           todo == Restrict(deltas, {k \in short : moved}) IN
       IF status[o] \in {"rejected", "cancelled", "deleted"}
       THEN /\ Answer(c)
            /\ UNCHANGED <<lines, strained, marred>>
       ELSE /\ lines' = [lines EXCEPT ![o] = Corrected(o, new)]
            /\ call' = [call EXCEPT ![c] = [op |-> "reconcile", order |-> o,
                           ticket |-> call[c].ticket, todo |-> todo, half |-> {}]]
            /\ strained' = strained \cup {p \in DOMAIN new : status[o] = "awaiting"}
            /\ marred' = IF ~moved /\ short # {} /\ status[o] \in {"verified", "approved"}
                         THEN marred \cup {o} ELSE marred
    /\ UNCHANGED <<status, pool, left, came, fixLeft, fixCame, open, slips>>

\* The branch's ledger first, then the pool's, once per query and product: whoever else
\* corrects by the query, having read it unresolved, rewrites lines and moves nothing.
FixBranch(c) ==
    /\ call[c].op = "reconcile"
    /\ call[c].half = {}
    /\ \E k \in DOMAIN call[c].todo :
         LET t == call[c].ticket  p == k[2] IN
         /\ fixCame' = Once(fixCame, t, p, call[c].todo[k])
         /\ marred' = IF fixCame[t][p] # 0 THEN marred \cup {call[c].order} ELSE marred
         /\ call' = [call EXCEPT ![c].half = {k}]
    /\ UNCHANGED <<status, lines, pool, left, came, fixLeft, open, strained, slips>>

FixPool(c) ==
    /\ call[c].op = "reconcile"
    /\ \E k \in call[c].half :
         LET t == call[c].ticket  p == k[2]  delta == call[c].todo[k] IN
         /\ RowFree(c, p)
         /\ fixLeft' = Once(fixLeft, t, p, delta)
         /\ pool' = [pool EXCEPT ![p] = @ - (fixLeft'[t][p] - fixLeft[t][p])]
         /\ marred' = IF fixLeft[t][p] # 0 THEN marred \cup {call[c].order} ELSE marred
         /\ call' = [call EXCEPT ![c].todo = Without(@, k), ![c].half = {}]
         /\ strained' = IF delta > 0 THEN strained \cup {p} ELSE strained
    /\ UNCHANGED <<status, lines, left, came, fixCame, open, slips>>

Resolve(c) ==
    /\ call[c].op = "reconcile"
    /\ DOMAIN call[c].todo = {}
    /\ open' = open \ {call[c].ticket}
    /\ Answer(c)
    /\ UNCHANGED <<status, lines, pool, left, came, fixLeft, fixCame, strained, marred, slips>>

\* delete_production_order: a demand that was ever sent is held by its share snapshot.
Delete(t) ==
    LET o == About[t] IN
    /\ status[o] \in {"pending", "rejected", "cancelled"}
    /\ status' = [status EXCEPT ![o] = "deleted"]
    /\ lines' = [lines EXCEPT ![o] = [k \in Keys |-> NoLine]]
    /\ open' = open \ {t}
    /\ UNCHANGED <<pool, left, came, fixLeft, fixCame, call, strained, marred, slips>>

-----------------------------------------------------------------------------
(* What else moves the pool, and what may break                             *)

Unlocked(p) == \A c \in Callers : call[c].op = "review" => call[c].want[p] = 0

Prepare(p, q) ==
    /\ Unlocked(p)
    /\ pool[p] + q <= MaxPool
    /\ pool' = [pool EXCEPT ![p] = @ + q]
    /\ UNCHANGED <<status, lines, left, came, fixLeft, fixCame, open, call, strained, marred, slips>>

\* commit_production_sale leaves what the demands claim.
Sell(p, q) ==
    /\ Unlocked(p)
    /\ q <= pool[p] - Outstanding(p, {})
    /\ pool' = [pool EXCEPT ![p] = @ - q]
    /\ strained' = IF Leaving(p) > 0 THEN strained \cup {p} ELSE strained
    /\ UNCHANGED <<status, lines, left, came, fixLeft, fixCame, open, call, marred, slips>>

\* What a request has not moved yet, in the ledger it is at.
AtHand(q) ==
    IF q.op = "reconcile" THEN DOMAIN q.todo
    ELSE IF DOMAIN q.out # {} THEN DOMAIN q.out ELSE DOMAIN q.in

\* A request breaks off among its movements: what it committed stays, the rest never
\* happens. Of a delivery's movements, which are sent together, those under way when one
\* fails still arrive; a correction sends one after the other. (One that breaks off before
\* an insert leaves what stands before it.)
Fail(c) ==
    /\ call[c].op \in {"deliver", "reconcile"}
    /\ Slip
    /\ marred' = IF AtHand(call[c]) # {} THEN marred \cup {call[c].order} ELSE marred
    /\ \/ Answer(c)
       \/ /\ call[c].op = "deliver"
          /\ \E late \in (SUBSET AtHand(call[c])) \ {{}} :
               call' = [call EXCEPT ![c].out = Restrict(@, late \cap DOMAIN @),
                            ![c].in = Restrict(@, IF DOMAIN call[c].out = {} THEN late ELSE {})]
    /\ UNCHANGED <<status, lines, pool, left, came, fixLeft, fixCame, open, strained>>

Next ==
    \/ \E o \in Orders :
         \/ Cancel(o) \/ Reject(o) \/ FinalApprove(o) \/ Override(o)
         \/ \E asked \in Asked : Edit(o, asked)
    \/ \E c \in Callers, o \in Orders :
         \/ \E asked \in Asked : Create(c, o, asked)
         \/ \E p \in Products, q \in Qty : AddItem(c, o, p, q)
         \/ CheckReview(c, o)
         \/ Verify(c, o)
    \/ \E c \in Callers :
         \/ Insert(c) \/ WriteReview(c)
         \/ MoveOut(c) \/ MoveIn(c) \/ Delivered(c)
         \/ CorrectLines(c) \/ FixBranch(c) \/ FixPool(c) \/ Resolve(c)
         \/ Fail(c)
         \/ \E t \in Tickets : StartCorrect(c, t)
    \/ \E t \in Tickets : Delete(t)
    \/ \E p \in Products, q \in Qty : Prepare(p, q) \/ Sell(p, q)

Spec == Init /\ [][Next]_vars

-----------------------------------------------------------------------------
(* Properties                                                               *)

\* Figures for some lines, and the requests that carry them.
Figures(S) == UNION {[D -> S] : D \in SUBSET Keys}
Request ==
    {Free} \cup [op : {"insert"}, order : Orders, lines : Figures(Qty)]
           \cup [op : {"review"}, order : Orders, override : Overrides, want : [Products -> Nat]]
           \cup [op : {"deliver"}, order : Orders, out : Figures(Qty), in : Figures(Qty)]
           \cup [op : {"correct"}, ticket : Tickets, order : Orders]
           \cup [op : {"reconcile"}, order : Orders, ticket : Tickets, todo : Figures(- MaxQty .. MaxQty),
                 half : SUBSET Keys]

\* The tables hold what their columns and statuses allow, the requests what they carry.
TypeOK ==
    /\ status \in [Orders -> {"none", "pending", "awaiting", "verified", "approved",
                              "rejected", "cancelled", "deleted"}]
    /\ lines \in [Orders -> [Keys -> Line]]
    /\ pool \in [Products -> Int]
    /\ left \in [Orders -> [Products -> Amount]] /\ came \in [Orders -> [Products -> Amount]]
    /\ fixLeft \in [Tickets -> [Products -> Int]] /\ fixCame \in [Tickets -> [Products -> Int]]
    /\ open \subseteq Tickets /\ call \in [Callers -> Request]
    /\ strained \subseteq Products /\ marred \subseteq Orders
    /\ slips \in 0 .. MaxSlips

\* What Production has promised the branches, and what is on its way to them, is on the
\* shelf: of every product no override, late line, correction or blind spot touched, the
\* demands sent and the goods leaving never add up to more than the pool holds, whatever
\* reviews, counts, sales and deliveries meet (production-orders.routes.ts:527, 1000).
PromisesAreCovered ==
    \A p \in Products \ strained :
        ClaimedBy(p, {"awaiting"}, {}) + Leaving(p) <= pool[p]

\* What a query's corrections add to a demand in a ledger.
Fixes(ledger, o, p) ==
    SumFunction([t \in {u \in Tickets : About[u] = o} |-> ledger[t][p]])

Delivery(o, p) ==
    IF status[o] \in {"verified", "approved"}
    THEN SumFunction([k \in OfProduct(o, p) |-> ApprovedQty(lines[o][k])]) ELSE 0

\* Goods are neither made nor lost on the way, whatever breaks off, is sent again or is
\* corrected twice at once: nothing arrives of a product none has left of, and the pool gives
\* nothing for a correction that its branch got nothing of. And a demand none of whose
\* movements broke off, was swallowed by the ledgers' key or was not made has moved, out of
\* the pool and into the branch alike, exactly what its lines say was delivered: with two
\* corrections under way at once, each of its own query, or one while the delivery runs, with
\* a resend that finds nothing left to move (support.routes.ts:1674, 1684).  The three cases
\* excepted are the code's to answer for: a correction retried after it broke off, a second
\* one by a query that was read before the first resolved it, one of a demand verified whose
\* goods have not arrived; and of a product with two lines one is moved.
UnitsFollowOrder ==
    /\ \A t \in Tickets, p \in Products : fixLeft[t][p] # 0 => fixCame[t][p] # 0
    /\ \A o \in Orders, p \in Products :
         /\ came[o][p] # 0 => left[o][p] # 0
         /\ o \notin marred /\ ~Delivering(o) =>
              /\ left[o][p] + Fixes(fixLeft, o, p) = Delivery(o, p)
              /\ came[o][p] + Fixes(fixCame, o, p) = Delivery(o, p)

=============================================================================
