-------------------------- MODULE PriceActivation --------------------------
(***************************************************************************)
(* Product prices with an effective date (services/price.service.ts) and   *)
(* the 2 AM job that makes scheduled ones live (price-activation.job.ts).  *)
(*                                                                         *)
(* A change is one transaction under the product's lock: it is live at     *)
(* once or scheduled, and replaces what was scheduled.  The job of every   *)
(* API instance claims the date, then activates in one transaction: it     *)
(* reads which rows are due, and locks their products one by one.  What it *)
(* read is not read again under the lock.                                  *)
(***************************************************************************)
EXTENDS Integers, Sequences, FiniteSetsExt

CONSTANTS
    Products,     \* in the order of their ids
    Prices,
    Listed,       \* the price list before the first change
    Admins,       \* people who change prices, and the imports
    Instances,    \* API processes, each with the job
    Attempts,     \* of withRetry
    MaxDay,       \* bound: business days
    MaxVersions,  \* bound: changes of all products
    MaxFaults     \* bound: crashes, failed calls, lost answers, late instances

ASSUME PriceAssumption ==
    /\ Listed \in [Products -> Prices]
    /\ Products \subseteq Nat /\ IsFiniteSet(Products) /\ IsFiniteSet(Admins)
    /\ {Attempts, MaxDay} \subseteq Nat \ {0}
    /\ {MaxVersions, MaxFaults} \subseteq Nat

VARIABLES
    today,    \* the business date
    price,    \* products.price
    history,  \* product_price_history: per product, by version number
    lock,     \* price_activation_locks: per date
    asked,    \* per admin, a change on its way to the database
    run,      \* per instance, its run of the job
    crossed,  \* ghost: products that were changed while a run had a row of theirs to activate
    faults

vars == <<today, price, history, lock, asked, run, crossed, faults>>

Days == 1 .. MaxDay
\* old is the price before; activated_on is null (0) or a time, and how often it was set
\* tells its times apart.
Version == [price : Prices, old : Prices, date : Days, activated : Nat,
            status : {"active", "scheduled", "superseded"}]
LockStatus == {"none", "running", "old", "success", "failed"}
Nothing == [product |-> 0]
Change == [product : Products, price : Prices, date : Days, today : Days]
Idle == [pc |-> "idle"]
Rows == Products \X (1 .. MaxVersions)
Run == [pc : {"due"}, day : Days]
         \cup [pc : {"claimed"}, day : Days, attempt : 1 .. Attempts]
         \cup [pc : {"open"}, day : Days, attempt : 1 .. Attempts,
               left : SUBSET Rows, held : SUBSET Rows]
         \cup [pc : {"closing"}, day : Days, status : {"success", "failed"}]

Init ==
    /\ today = 1
    /\ price = Listed
    /\ history = [p \in Products |-> <<>>]
    /\ lock = [d \in Days |-> "none"]
    /\ asked = [a \in Admins |-> Nothing]
    /\ run = [i \in Instances |-> Idle]
    /\ crossed = {}
    /\ faults = 0

Fault == faults < MaxFaults /\ faults' = faults + 1

At(i, step) == run[i].pc = step

Open == {i \in Instances : At(i, "open")}

ProductsOf(rows) == {row[1] : row \in rows}

LockedNever(p) == FALSE

\* The row lock of a product, held by a run to the end of its transaction.
Locked(p) == \E i \in Open : p \in ProductsOf(run[i].held)

\* A run has read a row of the product and has yet to lock it.
Awaited(p) == \E i \in Open : p \in ProductsOf(run[i].left)

-----------------------------------------------------------------------------
(* Changing a price                                                         *)

OnTheWay == {a \in Admins : asked[a] # Nothing}

\* The rows of product_price_history.
Made == {row \in Rows : row[2] \in DOMAIN history[row[1]]}

\* applyPriceChange computes the business date before it calls.
Ask(a, p, n, d) ==
    /\ asked[a] = Nothing
    /\ d >= today
    /\ Cardinality(Made) + Cardinality(OnTheWay) < MaxVersions
    /\ asked' = [asked EXCEPT ![a] = [product |-> p, price |-> n, date |-> d, today |-> today]]
    /\ UNCHANGED <<today, price, history, lock, run, crossed, faults>>

SupersededAll(versions) ==
    [v \in DOMAIN versions |-> [versions[v] EXCEPT !.status = "superseded"]]

Superseded(versions) ==
    [v \in DOMAIN versions |->
       IF versions[v].status = "scheduled"
       THEN [versions[v] EXCEPT !.status = "superseded"] ELSE versions[v]]

Immediate(change) == change.date <= change.today

Recorded(change) ==
    Append(Superseded(history[change.product]),
           [price |-> change.price, old |-> price[change.product], date |-> change.date,
            activated |-> IF Immediate(change) THEN 1 ELSE 0,
            status |-> IF Immediate(change) THEN "active" ELSE "scheduled"])

\* apply_price_change; skipped when the price is what it is already.
Apply(a) ==
    LET change == asked[a]
        p == change.product IN
    /\ change # Nothing
    /\ ~Locked(p)
    /\ asked' = [asked EXCEPT ![a] = Nothing]
    /\ IF Immediate(change) /\ price[p] = change.price
       THEN UNCHANGED <<price, history, crossed>>
       ELSE /\ history' = [history EXCEPT ![p] = Recorded(change)]
            /\ price' = IF Immediate(change) THEN [price EXCEPT ![p] = change.price] ELSE price
            /\ crossed' = IF Awaited(p) THEN crossed \cup {p} ELSE crossed
    /\ UNCHANGED <<today, lock, run, faults>>

-----------------------------------------------------------------------------
(* activateDuePrices                                                        *)

Claimable(d) == lock[d] \in {"none", "failed", "old"}

\* claim_price_activation
Claim(i) ==
    /\ At(i, "due")
    /\ Claimable(run[i].day)
    /\ lock' = [lock EXCEPT ![run[i].day] = "running"]
    /\ run' = [run EXCEPT ![i] = [pc |-> "claimed", day |-> run[i].day, attempt |-> 1]]
    /\ UNCHANGED <<today, price, history, asked, crossed, faults>>

Skip(i) ==
    /\ At(i, "due")
    /\ ~Claimable(run[i].day)
    /\ run' = [run EXCEPT ![i] = Idle]
    /\ UNCHANGED <<today, price, history, lock, asked, crossed, faults>>

Scheduled == {row \in Made : history[row[1]][row[2]].status = "scheduled"}

DateOf(row) == history[row[1]][row[2]].date

DueThatDay(d) == {row \in Scheduled : DateOf(row) = d}

Due(d) == {row \in Scheduled : DateOf(row) <= d}

\* activate_due_prices opens its loop: the rows as they are now.
ReadDue(i) ==
    /\ At(i, "claimed")
    /\ run' = [run EXCEPT ![i] = [pc |-> "open", day |-> run[i].day, attempt |-> run[i].attempt,
                                  left |-> Due(run[i].day), held |-> {}]]
    /\ UNCHANGED <<today, price, history, lock, asked, crossed, faults>>

\* Its next row: the product is locked, the row is not read again.
LockNext(i) ==
    /\ At(i, "open")
    /\ \E row \in run[i].left :
          /\ row[1] = Min(ProductsOf(run[i].left))
          /\ ~Locked(row[1])
          /\ run' = [run EXCEPT ![i].left = @ \ {row}, ![i].held = @ \cup {row}]
    /\ UNCHANGED <<today, price, history, lock, asked, crossed, faults>>

\* By the row's id alone, whatever became of it since it was read.
Activated(version, current) ==
    [version EXCEPT !.status = "active", !.old = current, !.activated = @ + 1]

Activate(rows) ==
    /\ price' = [p \in Products |->
                   IF p \in ProductsOf(rows)
                   THEN history[p][(CHOOSE row \in rows : row[1] = p)[2]].price ELSE price[p]]
    /\ history' = [p \in Products |->
                     [v \in DOMAIN history[p] |->
                        IF <<p, v>> \in rows THEN Activated(history[p][v], price[p])
                        ELSE history[p][v]]]

Closing(d, status) == [pc |-> "closing", day |-> d, status |-> status]

\* The branches are told; failing that, the run counts as failed.
Commit(i) ==
    /\ At(i, "open")
    /\ run[i].left = {}
    /\ Activate(run[i].held)
    /\ \/ /\ run' = [run EXCEPT ![i] = Closing(run[i].day, "success")]
          /\ UNCHANGED faults
       \/ /\ run[i].held # {}
          /\ Fault
          /\ run' = [run EXCEPT ![i] = Closing(run[i].day, "failed")]
    /\ UNCHANGED <<today, lock, asked, crossed>>

\* withRetry
TryAgain(i) ==
    IF run[i].attempt < Attempts
    THEN [pc |-> "claimed", day |-> run[i].day, attempt |-> run[i].attempt + 1]
    ELSE Closing(run[i].day, "failed")

\* The transaction is rolled back, or its answer is lost.
CallFails(i) ==
    /\ At(i, "open")
    /\ Fault
    /\ \/ UNCHANGED <<price, history>>
       \/ run[i].left = {} /\ Activate(run[i].held)
    /\ run' = [run EXCEPT ![i] = TryAgain(i)]
    /\ UNCHANGED <<today, lock, asked, crossed>>

\* close_price_activation goes by the date alone; its own failure is not looked at.
Close(i) ==
    /\ At(i, "closing")
    /\ \/ lock' = [lock EXCEPT ![run[i].day] = run[i].status] /\ UNCHANGED faults
       \/ Fault /\ UNCHANGED lock
    /\ run' = [run EXCEPT ![i] = Idle]
    /\ UNCHANGED <<today, price, history, asked, crossed>>

\* An instance that dies, or was down at two.
Crash(i) ==
    /\ run[i] # Idle
    /\ Fault
    /\ run' = [run EXCEPT ![i] = Idle]
    /\ UNCHANGED <<today, price, history, lock, asked, crossed>>

\* Ten minutes of a claim pass with another instance still to begin.
ClaimAges(d) ==
    /\ lock[d] = "running"
    /\ \E i \in Instances : At(i, "due") /\ run[i].day = d
    /\ Fault
    /\ lock' = [lock EXCEPT ![d] = "old"]
    /\ UNCHANGED <<today, price, history, asked, run, crossed>>

\* Two o'clock: a run is over, and a call answered, long before the next.
NextDay ==
    /\ today < MaxDay
    /\ \A i \in Instances : run[i] = Idle
    /\ \A a \in Admins : asked[a] # Nothing => asked[a].today = today
    /\ today' = today + 1
    /\ run' = [i \in Instances |-> [pc |-> "due", day |-> today + 1]]
    /\ UNCHANGED <<price, history, lock, asked, crossed, faults>>

Proceed(i) == Claim(i) \/ Skip(i) \/ ReadDue(i) \/ LockNext(i) \/ Commit(i) \/ Close(i)

Next ==
    \/ \E a \in Admins, p \in Products, n \in Prices, d \in Days : Ask(a, p, n, d)
    \/ \E a \in Admins : Apply(a)
    \/ \E i \in Instances : Proceed(i) \/ CallFails(i) \/ Crash(i)
    \/ \E d \in Days : ClaimAges(d)
    \/ NextDay

Spec == Init /\ [][Next]_vars

\* Calls end, the job runs, and days pass.
FairSpec ==
    /\ Spec
    /\ \A a \in Admins : WF_vars(Apply(a))
    /\ \A i \in Instances : WF_vars(Proceed(i))
    /\ WF_vars(NextDay)

-----------------------------------------------------------------------------
OneEach(rows) == \A r1 \in rows, r2 \in rows : r1[1] = r2[1] => r1 = r2

\* Among other things a run has one row to activate of a product.
TypeOK ==
    /\ today \in Days
    /\ price \in [Products -> Prices]
    /\ history \in [Products -> Seq(Version)]
    /\ \A p \in Products : Len(history[p]) <= MaxVersions
    /\ lock \in [Days -> LockStatus]
    /\ asked \in [Admins -> {Nothing} \cup Change]
    /\ run \in [Instances -> {Idle} \cup Run]
    /\ \A i \in Open : OneEach(run[i].left \cup run[i].held)
    /\ crossed \subseteq Products
    /\ faults \in 0 .. MaxFaults

Versions(p, status) == {v \in DOMAIN history[p] : history[p][v].status = status}

\* What is scheduled for a product is one price, the last that was asked for:
\* the job never has an older plan to carry out after a newer decision.
LastWordScheduled ==
    \A p \in Products : \A v \in Versions(p, "scheduled") : v = Len(history[p])

\* "products.price always holds the currently-active price": the price of the
\* newest version that went live, through failed, repeated and overlapping runs -
\* but for a product changed by hand between a run's read of it and its lock.
PriceIsNewest ==
    \A p \in Products \ crossed :
       Versions(p, "active") # {} => price[p] = history[p][Max(Versions(p, "active"))].price

\* A run holds the product's lock to make this row live.
InHand(row) == \E i \in Open : row \in run[i].held

\* The history is a record, through failed, repeated and overlapping runs: no row is lost,
\* no price or date in it changes, and what went live stays so.  A row is not written at
\* all but to supersede it while it is scheduled, or by a run that has that row in hand:
\* such a run makes it live, and when another overtook it stamps a row that is live
\* already, or one that was superseded, once more.
HistoryStands ==
    [][\A p \in Products : \A v \in DOMAIN history[p] :
         LET was == history[p][v]  is == history'[p][v] IN
         /\ v \in DOMAIN history'[p]
         /\ is.price = was.price /\ is.date = was.date
         /\ was.status = "active" => is.status = "active"
         /\ ~InHand(<<p, v>>) =>
              \/ is = was
              \/ was.status = "scheduled" /\ is = [was EXCEPT !.status = "superseded"]]_vars

\* A scheduled price is one day live or replaced: nights whose job failed, died or
\* came too early for it are made good by a later one.
ScheduledArrives ==
    \A row \in Rows :
       row \in Scheduled /\ DateOf(row) + MaxFaults < MaxDay ~> row \notin Scheduled
=============================================================================
