---------------------------- MODULE ProductProofs ----------------------------
(***************************************************************************)
(* Proofs about what happens to products: their prices (PriceActivation)   *)
(* and their way back from a branch (BranchReturns), for any products,     *)
(* prices, returns, callers, days and faults.                              *)
(*                                                                         *)
(* Prices: what a run has in hand of a product nobody changed under it is  *)
(* the product's last row (HandIsLast): that is why activating a row read  *)
(* before the lock still makes the newest price live.                      *)
(*                                                                         *)
(* Returns: whoever is at work on a return that is not marred may rely on  *)
(* what it read, and nobody else is (RaiseFine, CorrectionFine,            *)
(* SettlingFine); so the branch's stock agrees with the row whenever the   *)
(* return is in nobody's hands (RowFine).                                  *)
(***************************************************************************)
EXTENDS PriceActivation, BranchReturns, SumTheorems

(***************************************************************************)
(* PriceActivation: what runs and rows have to do with each other.         *)
(***************************************************************************)
InHandOf(i) == run[i].left \cup run[i].held

\* The rows a run read exist, and are one of each product.
HandsMade == \A i \in Open : InHandOf(i) \subseteq Made /\ OneEach(InHandOf(i))

HandIsLast ==
    \A i \in Open : \A row \in InHandOf(i) :
        row[1] \notin crossed => row[2] = Len(history[row[1]])

Fits == Cardinality(Made) + Cardinality(OnTheWay) <= MaxVersions

\* PriceIsNewest, without the maximum of a set.
Live(p) == Versions(p, "active")
NewestLive ==
    \A p \in Products \ crossed : \A v \in Live(p) :
        (\A w \in Live(p) : w <= v) => price[p] = history[p][v].price

PriceInv == TypeOK /\ HandsMade /\ HandIsLast /\ Fits /\ LastWordScheduled /\ NewestLive

-----------------------------------------------------------------------------
LEMMA IsASequence ==
    ASSUME NEW S, NEW n \in Nat, NEW f \in [1 .. n -> S]
    PROVE  f \in Seq(S) /\ Len(f) = n
  OBVIOUS

LEMMA Histories ==
    ASSUME PriceAssumption, TypeOK, NEW p \in Products
    PROVE  /\ history[p] \in Seq(Version) /\ Len(history[p]) \in Nat
           /\ DOMAIN history[p] = 1 .. Len(history[p])
           /\ \A v \in DOMAIN history[p] : history[p][v] \in Version /\ <<p, v>> \in Made
<1>1. history[p] \in Seq(Version) /\ Len(history[p]) <= MaxVersions BY DEF TypeOK
<1>2. /\ Len(history[p]) \in Nat /\ DOMAIN history[p] = 1 .. Len(history[p])
      /\ \A v \in DOMAIN history[p] : history[p][v] \in Version
      BY <1>1
<1>3. ASSUME NEW v \in DOMAIN history[p] PROVE <<p, v>> \in Made
  <2>1. MaxVersions \in Nat BY DEF PriceAssumption
  <2> QED BY <1>1, <1>2, <2>1 DEF Made, Rows
<1> QED BY <1>1, <1>2, <1>3

LEMMA RowsFinite ==
    ASSUME PriceAssumption PROVE IsFiniteSet(Made) /\ Cardinality(Made) \in Nat
<1>1. IsFiniteSet(Products) /\ MaxVersions \in Nat BY DEF PriceAssumption
<1>2. IsFiniteSet(1 .. MaxVersions) BY <1>1, FS_Interval
<1>3. IsFiniteSet(Rows) BY <1>1, <1>2, FS_Product DEF Rows
<1>4. Made \in SUBSET Rows BY DEF Made
<1> QED BY <1>3, <1>4, FS_Subset, FS_CardinalityType

LEMMA CallsFinite ==
    ASSUME PriceAssumption PROVE IsFiniteSet(OnTheWay) /\ Cardinality(OnTheWay) \in Nat
<1>1. IsFiniteSet(Admins) BY DEF PriceAssumption
<1>2. OnTheWay \in SUBSET Admins BY DEF OnTheWay
<1> QED BY <1>1, <1>2, FS_Subset, FS_CardinalityType

\* Every product's rows count among the rows.
LEMMA RowsCounted ==
    ASSUME PriceAssumption, TypeOK, NEW p \in Products
    PROVE  Len(history[p]) <= Cardinality(Made)
<1> DEFINE n == Len(history[p])
           f == [v \in 1 .. n |-> <<p, v>>]
<1>1. n \in Nat /\ DOMAIN history[p] = 1 .. n /\ \A v \in 1 .. n : <<p, v>> \in Made
      BY Histories
<1> HIDE DEF n
<1>2. f \in Injection(1 .. n, Made) BY <1>1 DEF Injection, IsInjective
<1>3. Cardinality(1 .. n) <= Cardinality(Made) BY <1>2, RowsFinite, FS_Injection
<1>4. Cardinality(1 .. n) = n BY <1>1, FS_Interval
<1> QED BY <1>3, <1>4 DEF n

LEMMA ActivatedRow ==
    ASSUME NEW z \in Version, NEW n \in Prices
    PROVE  /\ Activated(z, n) \in Version /\ Activated(z, n).status = "active"
           /\ Activated(z, n).price = z.price /\ Activated(z, n).date = z.date
<1>1. z.activated + 1 \in Nat BY DEF Version
<1> DEFINE k == z.activated + 1
<1>2. Activated(z, n) = [z EXCEPT !.status = "active", !.old = n, !.activated = k]
      BY DEF Activated, Version
<1> HIDE DEF k
<1> QED BY <1>1, <1>2 DEF Version, k

\* What activate_due_prices does to the rows of a run and to their products.
LEMMA ActivatedRows ==
    ASSUME PriceAssumption, TypeOK, NEW picked, picked \subseteq Made, OneEach(picked), Activate(picked)
    PROVE  /\ price' \in [Products -> Prices] /\ history' \in [Products -> Seq(Version)]
           /\ \A p \in Products :
                /\ Len(history'[p]) = Len(history[p])
                /\ DOMAIN history'[p] = DOMAIN history[p]
                /\ \A v \in DOMAIN history[p] :
                     history'[p][v] = IF <<p, v>> \in picked
                                      THEN Activated(history[p][v], price[p])
                                      ELSE history[p][v]
                /\ p \notin ProductsOf(picked) => price'[p] = price[p]
           /\ \A p \in Products : \A v : <<p, v>> \in picked => price'[p] = history[p][v].price
<1>1. \A row \in picked : /\ row = <<row[1], row[2]>> /\ row[1] \in Products
                        /\ row[2] \in DOMAIN history[row[1]]
      BY DEF Made, Rows
<1>2. ASSUME NEW p \in Products, p \in ProductsOf(picked)
      PROVE  \E v \in DOMAIN history[p] :
               <<p, v>> \in picked /\ (CHOOSE row \in picked : row[1] = p) = <<p, v>>
  <2>1. PICK r \in picked : r[1] = p BY <1>2 DEF ProductsOf
  <2> DEFINE c == CHOOSE row \in picked : row[1] = p
  <2>2. c \in picked /\ c[1] = p BY <2>1
  <2> HIDE DEF c
  <2>3. c = <<p, c[2]>> /\ c[2] \in DOMAIN history[p] BY <1>1, <2>2
  <2> QED BY <2>2, <2>3 DEF c
<1>3. ASSUME NEW p \in Products, NEW v, <<p, v>> \in picked
      PROVE  /\ p \in ProductsOf(picked) /\ v \in DOMAIN history[p]
             /\ (CHOOSE row \in picked : row[1] = p)[2] = v
  <2>1. p \in ProductsOf(picked)
    <3>1. <<p, v>>[1] = p OBVIOUS
    <3> QED BY <1>3, <3>1 DEF ProductsOf
  <2>2. PICK w \in DOMAIN history[p] :
            <<p, w>> \in picked /\ (CHOOSE row \in picked : row[1] = p) = <<p, w>>
        BY <1>2, <2>1
  <2>3. <<p, w>> = <<p, v>> BY <1>3, <2>2 DEF OneEach
  <2>4. w = v BY <2>3
  <2> DEFINE c == CHOOSE row \in picked : row[1] = p
  <2>5. c = <<p, w>> BY <2>2
  <2> HIDE DEF c
  <2>6. c[2] = w BY <2>5
  <2> QED BY <2>1, <2>2, <2>4, <2>6 DEF c
<1>4. price' = [p \in Products |->
                  IF p \in ProductsOf(picked)
                  THEN history[p][(CHOOSE row \in picked : row[1] = p)[2]].price ELSE price[p]]
      BY DEF Activate
<1>5. \A p \in Products : p \notin ProductsOf(picked) => price'[p] = price[p] BY <1>4
<1>6. \A p \in Products : \A v : <<p, v>> \in picked => price'[p] = history[p][v].price
      BY <1>3, <1>4
<1>7. price' \in [Products -> Prices]
  <2>1. ASSUME NEW p \in Products PROVE price'[p] \in Prices
    <3>1. CASE p \in ProductsOf(picked)
      <4>1. PICK v \in DOMAIN history[p] : <<p, v>> \in picked BY <1>2, <3>1
      <4>2. history[p][v] \in Version BY Histories
      <4>3. history[p][v].price \in Prices BY <4>2 DEF Version
      <4> QED BY <1>6, <4>1, <4>3
    <3>2. CASE p \notin ProductsOf(picked) BY <1>5, <3>2 DEF TypeOK
    <3> QED BY <3>1, <3>2
  <2> QED BY <1>4, <2>1
<1>8. ASSUME NEW p \in Products
      PROVE  /\ history'[p] \in Seq(Version) /\ Len(history'[p]) = Len(history[p])
             /\ DOMAIN history'[p] = DOMAIN history[p]
             /\ \A v \in DOMAIN history[p] :
                  history'[p][v] = IF <<p, v>> \in picked
                                   THEN Activated(history[p][v], price[p])
                                   ELSE history[p][v]
  <2> DEFINE n == Len(history[p])
             f == [v \in 1 .. n |-> IF <<p, v>> \in picked
                                    THEN Activated(history[p][v], price[p])
                                    ELSE history[p][v]]
  <2>1. /\ n \in Nat /\ DOMAIN history[p] = 1 .. n
        /\ \A v \in 1 .. n : history[p][v] \in Version
        BY Histories
  <2>2. history'[p] = f BY <1>8, <2>1 DEF Activate
  <2>3. price[p] \in Prices /\ \A z \in Version : Activated(z, price[p]) \in Version
        BY ActivatedRow DEF TypeOK
  <2> HIDE DEF n
  <2>4. f \in [1 .. n -> Version] BY <2>1, <2>3
  <2> HIDE DEF f
  <2>5. f \in Seq(Version) /\ Len(f) = n /\ DOMAIN f = 1 .. n BY <2>1, <2>4, IsASequence
  <2> QED BY <2>1, <2>2, <2>5 DEF f, n
<1>9. history' \in [Products -> Seq(Version)]
  <2>1. DOMAIN history' = Products /\ history' = [p \in Products |-> history'[p]] BY DEF Activate
  <2> QED BY <1>8, <2>1
<1> QED BY <1>5, <1>6, <1>7, <1>8, <1>9

-----------------------------------------------------------------------------
\* A step that leaves prices and rows, and what the runs have in hand, alone.
LEMMA QuietStep ==
    ASSUME PriceInv, UNCHANGED <<price, history, crossed>>, Fits',
           today' \in Days, lock' \in [Days -> LockStatus],
           asked' \in [Admins -> {Nothing} \cup Change], run' \in [Instances -> {Idle} \cup Run],
           faults' \in 0 .. MaxFaults,
           \A i \in Open' : i \in Open /\ InHandOf(i)' = InHandOf(i)
    PROVE  PriceInv'
<1>1. TypeOK /\ HandsMade /\ HandIsLast /\ LastWordScheduled /\ NewestLive BY DEF PriceInv
<1>2. price' = price /\ history' = history /\ crossed' = crossed /\ Made' = Made
      BY DEF Made
<1>3. HandsMade' BY <1>1, <1>2 DEF HandsMade, OneEach
<1>4. TypeOK'
  <2>1. \A i \in Open' : OneEach(run'[i].left \cup run'[i].held)
    <3>1. \A i \in Open' : OneEach(InHandOf(i)') BY <1>3 DEF HandsMade, OneEach
    <3> QED BY <3>1 DEF InHandOf
  <2> QED BY <1>1, <1>2, <2>1 DEF TypeOK, OneEach
<1>5. HandIsLast' BY <1>1, <1>2 DEF HandIsLast
<1>6. LastWordScheduled' BY <1>1, <1>2 DEF LastWordScheduled, Versions
<1>7. NewestLive' BY <1>1, <1>2 DEF NewestLive, Live, Versions
<1> QED BY <1>3, <1>4, <1>5, <1>6, <1>7 DEF PriceInv

LEMMA RunTyped ==
    ASSUME TypeOK, NEW i \in Instances, At(i, "open")
    PROVE  /\ run[i] \in [pc : {"open"}, day : Days, attempt : 1 .. Attempts,
                          left : SUBSET Rows, held : SUBSET Rows]
           /\ i \in Open
<1>1. run[i] \in {Idle} \cup Run BY DEF TypeOK
<1>2. run[i].pc = "open" BY DEF At
<1>3. run[i] # Idle BY <1>2 DEF Idle
<1> QED BY <1>1, <1>2, <1>3 DEF Run, Open

\* A run goes on to a step that has no rows in hand.
LEMMA Moves ==
    ASSUME TypeOK, NEW i \in Instances, NEW x \in {Idle} \cup Run, x.pc # "open",
           run' = [run EXCEPT ![i] = x]
    PROVE  /\ run' \in [Instances -> {Idle} \cup Run]
           /\ i \notin Open' /\ \A o \in Open' : o \in Open /\ run'[o] = run[o]
<1>1. run' \in [Instances -> {Idle} \cup Run] BY DEF TypeOK
<1>2. run'[i] = x /\ \A o \in Instances \ {i} : run'[o] = run[o] BY DEF TypeOK
<1>3. i \notin Open' BY <1>2 DEF Open, At
<1>4. \A o \in Open' : o \in Instances \ {i} BY <1>3 DEF Open
<1>5. \A o \in Open' : o \in Open /\ run'[o] = run[o] BY <1>2, <1>4 DEF Open, At
<1> QED BY <1>1, <1>3, <1>5

LEMMA Steps ==
    ASSUME TypeOK, NEW i \in Instances, run[i] # Idle
    PROVE  /\ run[i].day \in Days
           /\ run[i].pc \in {"claimed", "open"} => run[i].attempt \in 1 .. Attempts
           /\ run[i].pc = "closing" => run[i].status \in {"success", "failed"}
<1>1. run[i] \in Run BY DEF TypeOK
<1>2. CASE run[i] \in [pc : {"due"}, day : Days] BY <1>2
<1>3. CASE run[i] \in [pc : {"claimed"}, day : Days, attempt : 1 .. Attempts] BY <1>3
<1>4. CASE run[i] \in [pc : {"open"}, day : Days, attempt : 1 .. Attempts,
                       left : SUBSET Rows, held : SUBSET Rows] BY <1>4
<1>5. CASE run[i] \in [pc : {"closing"}, day : Days, status : {"success", "failed"}] BY <1>5
<1> QED BY <1>1, <1>2, <1>3, <1>4, <1>5 DEF Run

\* The steps of a run that neither read nor write the prices.
LEMMA RunStep ==
    ASSUME PriceAssumption, PriceInv, NEW i \in Instances,
           Claim(i) \/ Skip(i) \/ Close(i) \/ Crash(i)
    PROVE  PriceInv'
<1>1. TypeOK /\ Fits BY DEF PriceInv
<1>2. run[i] # Idle BY DEF Claim, Skip, Close, Crash, At, Idle
<1>3. run[i].day \in Days BY <1>1, <1>2, Steps
<1>4. UNCHANGED <<today, price, history, asked, crossed>> BY DEF Claim, Skip, Close, Crash
<1>5. faults' \in 0 .. MaxFaults
      BY <1>1 DEF TypeOK, Claim, Skip, Close, Crash, Fault, PriceAssumption
<1>6. Made' = Made /\ OnTheWay' = OnTheWay /\ Fits' BY <1>1, <1>4 DEF Made, OnTheWay, Fits
<1>7. \E x \in {Idle} \cup Run : x.pc # "open" /\ run' = [run EXCEPT ![i] = x]
  <2>1. Idle.pc # "open" BY DEF Idle
  <2>2. CASE Skip(i) \/ Close(i) \/ Crash(i) BY <2>1, <2>2 DEF Skip, Close, Crash
  <2>3. CASE Claim(i)
    <3> DEFINE x == [pc |-> "claimed", day |-> run[i].day, attempt |-> 1]
    <3>1. x \in Run BY <1>3 DEF Run, PriceAssumption
    <3>2. x.pc # "open" /\ run' = [run EXCEPT ![i] = x] BY <2>3 DEF Claim
    <3> QED BY <3>1, <3>2
  <2> QED BY <2>2, <2>3
<1>8. lock' \in [Days -> LockStatus]
  <2>1. CASE Skip(i) \/ Crash(i) BY <1>1, <2>1 DEF Skip, Crash, TypeOK
  <2>2. CASE Claim(i) BY <1>1, <2>2 DEF Claim, TypeOK, LockStatus
  <2>3. CASE Close(i)
    <3>1. run[i].status \in LockStatus BY <1>1, <1>2, <2>3, Steps DEF Close, At, LockStatus
    <3> QED BY <1>1, <2>3, <3>1 DEF Close, TypeOK
  <2> QED BY <2>1, <2>2, <2>3
<1>9. run' \in [Instances -> {Idle} \cup Run] /\ \A o \in Open' : o \in Open /\ run'[o] = run[o]
      BY <1>1, <1>7, Moves
<1>10. \A o \in Open' : o \in Open /\ InHandOf(o)' = InHandOf(o) BY <1>9 DEF InHandOf
<1>11. today' \in Days /\ asked' \in [Admins -> {Nothing} \cup Change] BY <1>1, <1>4 DEF TypeOK
<1> QED BY <1>4, <1>5, <1>6, <1>8, <1>9, <1>10, <1>11, QuietStep

\* What is scheduled is the last row of its product, so one row of each.
LEMMA DueIsLast ==
    ASSUME LastWordScheduled, NEW d
    PROVE  /\ Due(d) \subseteq Made /\ OneEach(Due(d))
           /\ \A row \in Due(d) : row[2] = Len(history[row[1]])
<1>1. Due(d) \subseteq Scheduled /\ Scheduled \subseteq Made BY DEF Due, Scheduled
<1>2. ASSUME NEW row \in Scheduled PROVE row[2] = Len(history[row[1]]) /\ row = <<row[1], row[2]>>
  <2>1. /\ row[1] \in Products /\ row = <<row[1], row[2]>>
        /\ row[2] \in DOMAIN history[row[1]] /\ history[row[1]][row[2]].status = "scheduled"
        BY <1>2 DEF Scheduled, Made, Rows
  <2> QED BY <2>1 DEF LastWordScheduled, Versions
<1>3. OneEach(Scheduled)
  <2>1. SUFFICES ASSUME NEW q \in Scheduled, NEW r \in Scheduled, q[1] = r[1] PROVE q = r
        BY DEF OneEach
  <2>2. q[2] = r[2] BY <1>2, <2>1
  <2> QED BY <1>2, <2>1, <2>2
<1> QED BY <1>1, <1>2, <1>3 DEF OneEach

LEMMA ReadStep ==
    ASSUME PriceAssumption, PriceInv, NEW i \in Instances, ReadDue(i)
    PROVE  PriceInv'
<1>1. TypeOK /\ HandsMade /\ HandIsLast /\ Fits /\ LastWordScheduled /\ NewestLive
      BY DEF PriceInv
<1> DEFINE x == [pc |-> "open", day |-> run[i].day, attempt |-> run[i].attempt,
                 left |-> Due(run[i].day), held |-> {}]
           D == Due(run[i].day)
<1>2. run' = [run EXCEPT ![i] = x] /\ UNCHANGED <<today, price, history, lock, asked, crossed, faults>>
      BY DEF ReadDue
<1>3. run[i].pc = "claimed" /\ run[i] # Idle BY DEF ReadDue, At, Idle
<1>4. D \subseteq Made /\ OneEach(D) /\ \A row \in D : row[2] = Len(history[row[1]])
      BY <1>1, DueIsLast
<1> HIDE DEF D
<1>5. x.left \cup x.held = D /\ x.left = D /\ x.held = {} BY DEF D
<1>6. x \in Run
  <2>1. D \subseteq Rows BY <1>4 DEF Made
  <2>2. run[i].day \in Days /\ run[i].attempt \in 1 .. Attempts BY <1>1, <1>3, Steps
  <2> QED BY <2>1, <2>2 DEF Run, D
<1> HIDE DEF x
<1>7. /\ run'[i] = x /\ \A o \in Instances \ {i} : run'[o] = run[o]
      /\ run' \in [Instances -> {Idle} \cup Run]
      BY <1>1, <1>2, <1>6 DEF TypeOK
<1>8. Made' = Made /\ OnTheWay' = OnTheWay BY <1>2 DEF Made, OnTheWay
<1>9. InHandOf(i)' = D BY <1>5, <1>7 DEF InHandOf
<1>10. \A o \in Open' \ {i} : o \in Open /\ InHandOf(o)' = InHandOf(o)
       BY <1>7 DEF Open, At, InHandOf
<1>11. HandsMade'
  <2>1. \A o \in Open' : InHandOf(o)' \subseteq Made /\ OneEach(InHandOf(o)')
        BY <1>1, <1>4, <1>9, <1>10 DEF HandsMade
  <2> QED BY <1>8, <2>1 DEF HandsMade, OneEach
<1>12. HandIsLast'
  <2>1. \A o \in Open' : \A row \in InHandOf(o)' :
            row[1] \notin crossed => row[2] = Len(history[row[1]])
        BY <1>1, <1>4, <1>9, <1>10 DEF HandIsLast
  <2> QED BY <1>2, <2>1 DEF HandIsLast
<1>13. TypeOK'
  <2>1. \A o \in Open' : OneEach(run'[o].left \cup run'[o].held)
    <3>1. \A o \in Open' : OneEach(InHandOf(o)') BY <1>11 DEF HandsMade, OneEach
    <3> QED BY <3>1 DEF InHandOf
  <2> QED BY <1>1, <1>2, <1>7, <2>1 DEF TypeOK, OneEach
<1>14. Fits' BY <1>1, <1>8 DEF Fits
<1>15. LastWordScheduled' BY <1>1, <1>2 DEF LastWordScheduled, Versions
<1>16. NewestLive' BY <1>1, <1>2 DEF NewestLive, Live, Versions
<1> QED BY <1>11, <1>12, <1>13, <1>14, <1>15, <1>16 DEF PriceInv

LEMMA LockStep ==
    ASSUME PriceAssumption, PriceInv, NEW i \in Instances, LockNext(i)
    PROVE  PriceInv'
<1>1. TypeOK /\ Fits BY DEF PriceInv
<1>2. UNCHANGED <<today, price, history, lock, asked, crossed, faults>> /\ At(i, "open")
      BY DEF LockNext
<1>3. PICK row \in run[i].left :
          run' = [run EXCEPT ![i].left = @ \ {row}, ![i].held = @ \cup {row}]
      BY DEF LockNext
<1>4. run[i] \in [pc : {"open"}, day : Days, attempt : 1 .. Attempts,
                  left : SUBSET Rows, held : SUBSET Rows] /\ i \in Open
      BY <1>1, <1>2, RunTyped
<1> DEFINE y == [run[i] EXCEPT !.left = @ \ {row}]
           x == [y EXCEPT !.held = @ \cup {row}]
<1>5. /\ y \in [pc : {"open"}, day : Days, attempt : 1 .. Attempts,
                left : SUBSET Rows, held : SUBSET Rows]
      /\ y.left = run[i].left \ {row} /\ y.held = run[i].held
      BY <1>4
<1>6. run' = [run EXCEPT ![i] = x]
  <2>1. run \in [Instances -> {Idle} \cup Run] BY <1>1 DEF TypeOK
  <2> QED BY <1>3, <2>1
<1> HIDE DEF y
<1>7. /\ x \in [pc : {"open"}, day : Days, attempt : 1 .. Attempts,
                left : SUBSET Rows, held : SUBSET Rows]
      /\ x.left = run[i].left \ {row} /\ x.held = run[i].held \cup {row}
      BY <1>3, <1>4, <1>5
<1> HIDE DEF x
<1>8. /\ run'[i] = x /\ \A o \in Instances \ {i} : run'[o] = run[o]
      /\ run' \in [Instances -> {Idle} \cup Run]
      BY <1>1, <1>6, <1>7 DEF TypeOK, Run
<1>9. InHandOf(i)' = InHandOf(i) BY <1>3, <1>7, <1>8 DEF InHandOf
<1>10. \A o \in Open' : o \in Open /\ InHandOf(o)' = InHandOf(o)
       BY <1>4, <1>8, <1>9 DEF Open, At, InHandOf
<1>11. Fits' BY <1>1, <1>2 DEF Fits, Made, OnTheWay
<1>12. /\ today' \in Days /\ lock' \in [Days -> LockStatus] /\ faults' \in 0 .. MaxFaults
       /\ asked' \in [Admins -> {Nothing} \cup Change]
       BY <1>1, <1>2 DEF TypeOK
<1> QED BY <1>2, <1>8, <1>10, <1>11, <1>12, QuietStep

\* Two o'clock, an aged claim, or nothing.
LEMMA ClockStep ==
    ASSUME PriceAssumption, PriceInv, NextDay \/ (\E d \in Days : ClaimAges(d)) \/ UNCHANGED vars
    PROVE  PriceInv'
<1>1. TypeOK /\ Fits BY DEF PriceInv
<1>2. UNCHANGED <<price, history, asked, crossed>> BY DEF NextDay, ClaimAges, vars
<1>3. Fits' BY <1>1, <1>2 DEF Fits, Made, OnTheWay
<1>4. asked' \in [Admins -> {Nothing} \cup Change] BY <1>1, <1>2 DEF TypeOK
<1>5. CASE NextDay
  <2>1. today' \in Days BY <1>1, <1>5 DEF NextDay, TypeOK, Days, PriceAssumption
  <2>2. /\ run' = [i \in Instances |-> [pc |-> "due", day |-> today']]
        /\ lock' = lock /\ faults' = faults
        BY <1>5 DEF NextDay
  <2>3. [pc |-> "due", day |-> today'] \in Run BY <2>1 DEF Run
  <2>4. run' \in [Instances -> {Idle} \cup Run] /\ Open' = {} BY <2>2, <2>3 DEF Open, At
  <2>5. lock' \in [Days -> LockStatus] /\ faults' \in 0 .. MaxFaults BY <1>1, <2>2 DEF TypeOK
  <2> QED BY <1>2, <1>3, <1>4, <2>1, <2>4, <2>5, QuietStep
<1>6. CASE \E d \in Days : ClaimAges(d)
  <2>1. PICK d \in Days : ClaimAges(d) BY <1>6
  <2>2. /\ lock' \in [Days -> LockStatus] /\ faults' \in 0 .. MaxFaults
        /\ today' = today /\ run' = run
        BY <1>1, <2>1 DEF ClaimAges, Fault, TypeOK, LockStatus, PriceAssumption
  <2>3. today' \in Days /\ run' \in [Instances -> {Idle} \cup Run] BY <1>1, <2>2 DEF TypeOK
  <2>4. \A i \in Open' : i \in Open /\ InHandOf(i)' = InHandOf(i)
        BY <2>2 DEF Open, At, InHandOf
  <2> QED BY <1>2, <1>3, <1>4, <2>2, <2>3, <2>4, QuietStep
<1>7. CASE UNCHANGED vars
  <2>1. today' = today /\ lock' = lock /\ run' = run /\ faults' = faults BY <1>7 DEF vars
  <2>2. /\ today' \in Days /\ lock' \in [Days -> LockStatus] /\ faults' \in 0 .. MaxFaults
        /\ run' \in [Instances -> {Idle} \cup Run]
        BY <1>1, <2>1 DEF TypeOK
  <2>3. \A i \in Open' : i \in Open /\ InHandOf(i)' = InHandOf(i)
        BY <2>1 DEF Open, At, InHandOf
  <2> QED BY <1>2, <1>3, <1>4, <2>2, <2>3, QuietStep
<1> QED BY <1>5, <1>6, <1>7

LEMMA AskStep ==
    ASSUME PriceAssumption, PriceInv, NEW a \in Admins, NEW p \in Products, NEW n \in Prices,
           NEW d \in Days, Ask(a, p, n, d)
    PROVE  PriceInv'
<1>1. TypeOK BY DEF PriceInv
<1> DEFINE c == [product |-> p, price |-> n, date |-> d, today |-> today]
<1>2. /\ Cardinality(Made) + Cardinality(OnTheWay) < MaxVersions
      /\ asked' = [asked EXCEPT ![a] = c]
      /\ UNCHANGED <<today, price, history, lock, run, crossed, faults>>
      BY DEF Ask
<1>3. c \in Change BY <1>1 DEF Change, TypeOK
<1> HIDE DEF c
<1>4. asked' \in [Admins -> {Nothing} \cup Change] BY <1>1, <1>2, <1>3 DEF TypeOK
<1>5. Fits'
  <2>1. OnTheWay' \subseteq OnTheWay \cup {a} BY <1>1, <1>2 DEF OnTheWay, TypeOK
  <2>2. /\ IsFiniteSet(OnTheWay \cup {a})
        /\ Cardinality(OnTheWay \cup {a}) <= Cardinality(OnTheWay) + 1
    <3>1. IsFiniteSet(OnTheWay) /\ Cardinality(OnTheWay) \in Nat BY CallsFinite
    <3>2. /\ IsFiniteSet(OnTheWay \cup {a})
          /\ Cardinality(OnTheWay \cup {a})
               = IF a \in OnTheWay THEN Cardinality(OnTheWay) ELSE Cardinality(OnTheWay) + 1
          BY <3>1, FS_AddElement
    <3> QED BY <3>1, <3>2
  <2>3. IsFiniteSet(OnTheWay') /\ Cardinality(OnTheWay') <= Cardinality(OnTheWay \cup {a})
        BY <2>1, <2>2, FS_Subset
  <2>4. Cardinality(OnTheWay') \in Nat /\ Cardinality(OnTheWay \cup {a}) \in Nat
        BY <2>2, <2>3, FS_CardinalityType
  <2>5. Cardinality(Made) \in Nat /\ Cardinality(OnTheWay) \in Nat /\ MaxVersions \in Nat
        BY RowsFinite, CallsFinite DEF PriceAssumption
  <2>6. Made' = Made BY <1>2 DEF Made
  <2> QED BY <1>2, <2>2, <2>3, <2>4, <2>5, <2>6 DEF Fits
<1>6. /\ today' \in Days /\ lock' \in [Days -> LockStatus] /\ faults' \in 0 .. MaxFaults
      /\ run' \in [Instances -> {Idle} \cup Run]
      BY <1>1, <1>2 DEF TypeOK
<1>7. \A i \in Open' : i \in Open /\ InHandOf(i)' = InHandOf(i)
      BY <1>2 DEF Open, At, InHandOf
<1> QED BY <1>2, <1>4, <1>5, <1>6, <1>7, QuietStep

\* A run commits what it has in hand, and is over.
LEMMA ActivateStep ==
    ASSUME PriceAssumption, PriceInv, NEW i \in Open, run[i].left = {}, Activate(run[i].held),
           UNCHANGED <<today, lock, asked, crossed>>, faults' \in 0 .. MaxFaults,
           run' \in [Instances -> {Idle} \cup Run],
           \A o \in Open' : o \in Open /\ run'[o] = run[o]
    PROVE  PriceInv'
<1>1. TypeOK /\ HandsMade /\ HandIsLast /\ Fits /\ LastWordScheduled /\ NewestLive
      BY DEF PriceInv
<1> DEFINE picked == run[i].held
<1>2. /\ picked \subseteq Made /\ OneEach(picked)
      /\ \A row \in picked : row[1] \notin crossed => row[2] = Len(history[row[1]])
      BY <1>1 DEF InHandOf, HandsMade, HandIsLast, OneEach
<1> HIDE DEF picked
<1>3. /\ price' \in [Products -> Prices] /\ history' \in [Products -> Seq(Version)]
      /\ \A p \in Products :
           /\ Len(history'[p]) = Len(history[p])
           /\ DOMAIN history'[p] = DOMAIN history[p]
           /\ \A v \in DOMAIN history[p] :
                history'[p][v] = IF <<p, v>> \in picked
                                 THEN Activated(history[p][v], price[p])
                                 ELSE history[p][v]
           /\ p \notin ProductsOf(picked) => price'[p] = price[p]
      /\ \A p \in Products : \A v : <<p, v>> \in picked => price'[p] = history[p][v].price
      BY <1>1, <1>2, ActivatedRows DEF picked
<1>4. Made' = Made BY <1>3 DEF Made, Rows
<1>5. \A o \in Open' : o \in Open /\ InHandOf(o)' = InHandOf(o) BY DEF InHandOf
<1>6. HandsMade' BY <1>1, <1>4, <1>5 DEF HandsMade, OneEach
<1>7. TypeOK'
  <2>1. \A o \in Open' : OneEach(run'[o].left \cup run'[o].held)
    <3>1. \A o \in Open' : OneEach(InHandOf(o)') BY <1>6 DEF HandsMade, OneEach
    <3> QED BY <3>1 DEF InHandOf
  <2>2. \A p \in Products : Len(history'[p]) <= MaxVersions BY <1>1, <1>3 DEF TypeOK
  <2> QED BY <1>1, <1>3, <2>1, <2>2 DEF TypeOK, OneEach
<1>8. HandIsLast'
  <2>1. ASSUME NEW o \in Open', NEW row \in InHandOf(o)', row[1] \notin crossed
        PROVE  row[2] = Len(history'[row[1]])
    <3>1. row \in InHandOf(o) /\ o \in Open BY <1>5, <2>1
    <3>2. row[1] \in Products BY <1>1, <3>1 DEF HandsMade, Made, Rows
    <3> QED BY <1>1, <1>3, <2>1, <3>1, <3>2 DEF HandIsLast
  <2> QED BY <2>1 DEF HandIsLast
<1>9. Fits' BY <1>1, <1>4 DEF Fits, OnTheWay
<1>10. ASSUME NEW p \in Products, NEW v \in DOMAIN history[p]
       PROVE  /\ history'[p][v].price = history[p][v].price
              /\ <<p, v>> \in picked => history'[p][v].status = "active"
              /\ <<p, v>> \notin picked => history'[p][v] = history[p][v]
  <2>1. history[p][v] \in Version BY <1>1, Histories
  <2>2. \A z \in Version : Activated(z, price[p]).price = z.price
                        /\ Activated(z, price[p]).status = "active"
        BY <1>1, ActivatedRow DEF TypeOK
  <2> DEFINE z == history[p][v]
             b == history'[p][v]
  <2>3. b = IF <<p, v>> \in picked THEN Activated(z, price[p]) ELSE z BY <1>3
  <2> HIDE DEF z, b
  <2>4. z \in Version BY <2>1 DEF z
  <2>5. /\ b.price = z.price
        /\ <<p, v>> \in picked => b.status = "active"
        /\ <<p, v>> \notin picked => b = z
        BY <2>2, <2>3, <2>4
  <2> QED BY <2>5 DEF z, b
<1>11. LastWordScheduled'
  <2>1. ASSUME NEW p \in Products, NEW v \in Versions(p, "scheduled")' PROVE v = Len(history'[p])
    <3>1. v \in DOMAIN history[p] /\ history'[p][v].status = "scheduled"
          BY <1>3, <2>1 DEF Versions
    <3>2. history[p][v].status = "scheduled" BY <1>10, <3>1
    <3> QED BY <1>1, <1>3, <3>1, <3>2 DEF LastWordScheduled, Versions
  <2> QED BY <2>1 DEF LastWordScheduled
<1>12. NewestLive'
  <2>1. ASSUME NEW p \in Products \ crossed, NEW v \in Live(p)', \A w \in Live(p)' : w <= v
        PROVE  price'[p] = history'[p][v].price
    <3> DEFINE n == Len(history[p])
    <3>1. n \in Nat /\ DOMAIN history[p] = 1 .. n /\ v \in 1 .. n /\ history'[p][v].status = "active"
          BY <1>1, <1>3, <2>1, Histories DEF Live, Versions
    <3>2. CASE p \in ProductsOf(picked)
      <4>1. PICK row \in picked : row[1] = p BY <3>2 DEF ProductsOf
      <4>2. row = <<p, n>> /\ n \in DOMAIN history[p]
        <5>1. row \in Made BY <1>2, <4>1
        <5>2. row = <<row[1], row[2]>> /\ row[2] \in DOMAIN history[row[1]] BY <5>1 DEF Made, Rows
        <5> QED BY <1>2, <2>1, <4>1, <5>2
      <4>3. <<p, n>> \in picked BY <4>1, <4>2
      <4> HIDE DEF n
      <4>4. n \in Live(p)' BY <1>3, <1>10, <4>2, <4>3 DEF Live, Versions
      <4>5. v = n BY <2>1, <3>1, <4>4
      <4>6. price'[p] = history[p][n].price BY <1>3, <4>3
      <4> QED BY <1>10, <4>2, <4>5, <4>6
    <3>3. CASE p \notin ProductsOf(picked)
      <4>1. \A w : <<p, w>> \notin picked
        <5>1. ASSUME NEW w, <<p, w>> \in picked PROVE FALSE
          <6>1. <<p, w>>[1] = p OBVIOUS
          <6> QED BY <3>3, <5>1, <6>1 DEF ProductsOf
        <5> QED BY <5>1
      <4>2. \A w \in DOMAIN history[p] : history'[p][w] = history[p][w] BY <1>10, <4>1
      <4>3. Live(p)' = Live(p) BY <1>3, <4>2 DEF Live, Versions
      <4>4. price'[p] = price[p] BY <1>3, <3>3
      <4>5. price[p] = history[p][v].price BY <1>1, <2>1, <3>1, <4>3 DEF NewestLive
      <4>6. history'[p][v] = history[p][v] BY <3>1, <4>2
      <4> QED BY <4>4, <4>5, <4>6
    <3> QED BY <3>2, <3>3
  <2> QED BY <2>1 DEF NewestLive
<1> QED BY <1>6, <1>7, <1>8, <1>9, <1>11, <1>12 DEF PriceInv

LEMMA EndStep ==
    ASSUME PriceAssumption, PriceInv, NEW i \in Instances, Commit(i) \/ CallFails(i)
    PROVE  PriceInv'
<1>1. TypeOK /\ Fits BY DEF PriceInv
<1>2. UNCHANGED <<today, lock, asked, crossed>> /\ At(i, "open")
      BY DEF Commit, CallFails
<1>3. faults' \in 0 .. MaxFaults
      BY <1>1 DEF TypeOK, Commit, CallFails, Fault, PriceAssumption
<1>4. i \in Open /\ run[i].day \in Days /\ run[i].attempt \in 1 .. Attempts
  <2>1. run[i] # Idle BY <1>2 DEF At, Idle
  <2> QED BY <1>1, <1>2, <2>1, Steps DEF Open, At
<1>5. \E x \in {Idle} \cup Run : x.pc # "open" /\ run' = [run EXCEPT ![i] = x]
  <2>1. \A status \in {"success", "failed"} :
            Closing(run[i].day, status) \in Run /\ Closing(run[i].day, status).pc = "closing"
        BY <1>4 DEF Closing, Run
  <2>2. CASE Commit(i) BY <2>1, <2>2 DEF Commit
  <2>3. CASE CallFails(i)
    <3>1. CASE run[i].attempt < Attempts
      <4> DEFINE x == [pc |-> "claimed", day |-> run[i].day, attempt |-> run[i].attempt + 1]
      <4>1. x \in Run
        <5>1. run[i].attempt + 1 \in 1 .. Attempts BY <1>4, <3>1 DEF PriceAssumption
        <5> QED BY <1>4, <5>1 DEF Run
      <4>2. x.pc # "open" /\ run' = [run EXCEPT ![i] = x] BY <2>3, <3>1 DEF CallFails, TryAgain
      <4> QED BY <4>1, <4>2
    <3>2. CASE ~ (run[i].attempt < Attempts) BY <2>1, <2>3, <3>2 DEF CallFails, TryAgain
    <3> QED BY <3>1, <3>2
  <2> QED BY <2>2, <2>3
<1>6. run' \in [Instances -> {Idle} \cup Run] /\ \A o \in Open' : o \in Open /\ run'[o] = run[o]
      BY <1>1, <1>5, Moves
<1>7. CASE run[i].left = {} /\ Activate(run[i].held)
      BY <1>2, <1>3, <1>4, <1>6, <1>7, ActivateStep
<1>8. CASE UNCHANGED <<price, history>>
  <2>1. Fits' BY <1>1, <1>2, <1>8 DEF Fits, Made, OnTheWay
  <2>2. /\ today' \in Days /\ lock' \in [Days -> LockStatus]
        /\ asked' \in [Admins -> {Nothing} \cup Change]
        BY <1>1, <1>2 DEF TypeOK
  <2>3. \A o \in Open' : o \in Open /\ InHandOf(o)' = InHandOf(o) BY <1>6 DEF InHandOf
  <2> QED BY <1>2, <1>3, <1>6, <1>8, <2>1, <2>2, <2>3, QuietStep
<1> QED BY <1>7, <1>8 DEF Commit, CallFails

-----------------------------------------------------------------------------
(* A change: what was scheduled is superseded, and the new row is the last  *)

Replaced(z) == [z EXCEPT !.status = "superseded"]

LEMMA ReplacedRow ==
    ASSUME NEW z \in Version
    PROVE  /\ Replaced(z) \in Version /\ Replaced(z).status = "superseded"
           /\ Replaced(z).price = z.price /\ Replaced(z).date = z.date
  BY DEF Replaced, Version

LEMMA Superseding ==
    ASSUME NEW h \in Seq(Version)
    PROVE  /\ Superseded(h) \in Seq(Version) /\ Len(Superseded(h)) = Len(h)
           /\ DOMAIN Superseded(h) = DOMAIN h
           /\ \A v \in DOMAIN h :
                /\ h[v].status = "scheduled" => Superseded(h)[v] = Replaced(h[v])
                /\ h[v].status # "scheduled" => Superseded(h)[v] = h[v]
<1> DEFINE n == Len(h)
           f == [v \in 1 .. n |-> IF h[v].status = "scheduled"
                                  THEN Replaced(h[v]) ELSE h[v]]
<1>1. n \in Nat /\ DOMAIN h = 1 .. n /\ \A v \in 1 .. n : h[v] \in Version OBVIOUS
<1>2. Superseded(h) = f BY <1>1 DEF Superseded, Replaced
<1>3. \A z \in Version : Replaced(z) \in Version BY ReplacedRow
<1> HIDE DEF n
<1>4. f \in [1 .. n -> Version] BY <1>1, <1>3
<1>5. \A v \in 1 .. n : /\ h[v].status = "scheduled" => f[v] = Replaced(h[v])
                        /\ h[v].status # "scheduled" => f[v] = h[v]
      BY <1>1, <1>3
<1> HIDE DEF f
<1>6. f \in Seq(Version) /\ Len(f) = n /\ DOMAIN f = 1 .. n BY <1>1, <1>4, IsASequence
<1> QED BY <1>1, <1>2, <1>5, <1>6 DEF n

LEMMA Recording ==
    ASSUME PriceAssumption, TypeOK, NEW c \in Change
    PROVE  LET h == history[c.product]
               r == Recorded(c)
               new == Len(h) + 1
           IN  /\ r \in Seq(Version) /\ Len(r) = new /\ DOMAIN r = 1 .. new
               /\ r[new].price = c.price
               /\ r[new].status = IF Immediate(c) THEN "active" ELSE "scheduled"
               /\ \A v \in DOMAIN h :
                    /\ h[v].status = "scheduled" => r[v] = Replaced(h[v])
                    /\ h[v].status # "scheduled" => r[v] = h[v]
<1> DEFINE h == history[c.product]
           n == Len(h)
           s == Superseded(h)
           x == [price |-> c.price, old |-> price[c.product], date |-> c.date,
                 activated |-> IF Immediate(c) THEN 1 ELSE 0,
                 status |-> IF Immediate(c) THEN "active" ELSE "scheduled"]
<1>1. c.product \in Products BY DEF Change
<1>2. h \in Seq(Version) /\ n \in Nat /\ DOMAIN h = 1 .. n BY <1>1, Histories
<1>3. x \in Version /\ x.price = c.price
      /\ x.status = IF Immediate(c) THEN "active" ELSE "scheduled"
      BY <1>1 DEF Version, Change, TypeOK
<1>4. Recorded(c) = Append(s, x) BY DEF Recorded
<1> HIDE DEF h, x
<1>5. /\ s \in Seq(Version) /\ Len(s) = n /\ DOMAIN s = DOMAIN h
      /\ \A v \in DOMAIN h : /\ h[v].status = "scheduled" => s[v] = Replaced(h[v])
                             /\ h[v].status # "scheduled" => s[v] = h[v]
      BY <1>2, Superseding
<1> HIDE DEF s, n
<1> DEFINE r == Append(s, x)
<1>6. /\ r \in Seq(Version) /\ Len(r) = n + 1 /\ DOMAIN r = 1 .. n + 1 /\ r[n + 1] = x
      /\ \A v \in 1 .. n : r[v] = s[v]
      BY <1>2, <1>3, <1>5
<1> HIDE DEF r
<1>7. \A v \in DOMAIN h : /\ h[v].status = "scheduled" => r[v] = Replaced(h[v])
                          /\ h[v].status # "scheduled" => r[v] = h[v]
      BY <1>2, <1>5, <1>6
<1> QED BY <1>3, <1>4, <1>6, <1>7 DEF h, n, r

\* A call answered is one fewer on the way.
LEMMA Answered ==
    ASSUME PriceAssumption, TypeOK, NEW a \in Admins, asked[a] # Nothing,
           asked' = [asked EXCEPT ![a] = Nothing]
    PROVE  /\ Cardinality(OnTheWay) \in Nat /\ Cardinality(OnTheWay') \in Nat
           /\ Cardinality(OnTheWay') = Cardinality(OnTheWay) - 1
<1>1. OnTheWay' = OnTheWay \ {a} /\ a \in OnTheWay BY DEF OnTheWay, TypeOK
<1>2. IsFiniteSet(OnTheWay) /\ Cardinality(OnTheWay) \in Nat BY CallsFinite
<1>3. /\ IsFiniteSet(OnTheWay \ {a})
      /\ Cardinality(OnTheWay \ {a})
           = IF a \in OnTheWay THEN Cardinality(OnTheWay) - 1 ELSE Cardinality(OnTheWay)
      BY <1>2, FS_RemoveElement
<1>4. Cardinality(OnTheWay \ {a}) \in Nat BY <1>3, FS_CardinalityType
<1> QED BY <1>1, <1>2, <1>3, <1>4

LEMMA SkippedStep ==
    ASSUME PriceAssumption, PriceInv, NEW a \in Admins, Apply(a),
           UNCHANGED <<price, history, crossed>>
    PROVE  PriceInv'
<1>1. TypeOK /\ Fits BY DEF PriceInv
<1>2. /\ asked[a] # Nothing /\ asked' = [asked EXCEPT ![a] = Nothing]
      /\ UNCHANGED <<today, lock, run, faults>>
      BY DEF Apply
<1>3. Made' = Made BY DEF Made
<1>4. Fits'
  <2>1. Cardinality(OnTheWay') = Cardinality(OnTheWay) - 1 /\ Cardinality(OnTheWay) \in Nat
        BY <1>1, <1>2, Answered
  <2>2. Cardinality(Made) \in Nat /\ MaxVersions \in Nat BY RowsFinite DEF PriceAssumption
  <2> QED BY <1>1, <1>3, <2>1, <2>2 DEF Fits
<1>5. /\ today' \in Days /\ lock' \in [Days -> LockStatus] /\ faults' \in 0 .. MaxFaults
      /\ asked' \in [Admins -> {Nothing} \cup Change] /\ run' \in [Instances -> {Idle} \cup Run]
      BY <1>1, <1>2 DEF TypeOK
<1>6. \A i \in Open' : i \in Open /\ InHandOf(i)' = InHandOf(i)
      BY <1>2 DEF Open, At, InHandOf
<1> QED BY <1>4, <1>5, <1>6, QuietStep

LEMMA WrittenStep ==
    ASSUME PriceAssumption, PriceInv, NEW a \in Admins, Apply(a),
           history' = [history EXCEPT ![asked[a].product] = Recorded(asked[a])],
           price' = IF Immediate(asked[a])
                    THEN [price EXCEPT ![asked[a].product] = asked[a].price] ELSE price,
           crossed' = IF Awaited(asked[a].product)
                      THEN crossed \cup {asked[a].product} ELSE crossed
    PROVE  PriceInv'
<1>1. TypeOK /\ HandsMade /\ HandIsLast /\ Fits /\ LastWordScheduled /\ NewestLive
      BY DEF PriceInv
<1> DEFINE c == asked[a]
           p == c.product
           h == history[p]
           r == Recorded(c)
           new == Len(h) + 1
<1>2. /\ c # Nothing /\ ~ Locked(p) /\ asked' = [asked EXCEPT ![a] = Nothing]
      /\ UNCHANGED <<today, lock, run, faults>>
      BY DEF Apply
<1>3. c \in Change BY <1>1, <1>2 DEF TypeOK
<1>4. p \in Products /\ c.price \in Prices BY <1>3 DEF Change
<1>5. /\ Len(h) \in Nat /\ DOMAIN h = 1 .. Len(h) /\ Len(h) <= Cardinality(Made)
      BY <1>1, <1>4, Histories, RowsCounted
<1>6. /\ r \in Seq(Version) /\ Len(r) = new /\ DOMAIN r = 1 .. new
      /\ r[new].price = c.price
      /\ r[new].status = IF Immediate(c) THEN "active" ELSE "scheduled"
      /\ \A v \in DOMAIN h : /\ h[v].status = "scheduled" => r[v].status = "superseded"
                             /\ h[v].status # "scheduled" => r[v] = h[v]
  <2>1. \A v \in DOMAIN h : h[v] \in Version /\ Replaced(h[v]).status = "superseded"
        BY <1>1, <1>4, Histories, ReplacedRow
  <2>2. /\ r \in Seq(Version) /\ Len(r) = new /\ DOMAIN r = 1 .. new
        /\ r[new].price = c.price
        /\ r[new].status = IF Immediate(c) THEN "active" ELSE "scheduled"
        /\ \A v \in DOMAIN h : /\ h[v].status = "scheduled" => r[v] = Replaced(h[v])
                               /\ h[v].status # "scheduled" => r[v] = h[v]
        BY <1>1, <1>3, Recording
  <2> HIDE DEF c, p, h, r, new
  <2> QED BY <2>1, <2>2
<1> HIDE DEF c, p, h, r, new
<1>7. /\ history' = [history EXCEPT ![p] = r]
      /\ price' = IF Immediate(c) THEN [price EXCEPT ![p] = c.price] ELSE price
      /\ crossed' = IF Awaited(p) THEN crossed \cup {p} ELSE crossed
      BY DEF c, p, r
<1>8. /\ history'[p] = r /\ history[p] = h
      /\ \A q \in Products \ {p} : history'[q] = history[q] /\ price'[q] = price[q]
      /\ price'[p] = IF Immediate(c) THEN c.price ELSE price[p]
      /\ history' \in [Products -> Seq(Version)] /\ price' \in [Products -> Prices]
  <2>1. history \in [Products -> Seq(Version)] /\ price \in [Products -> Prices]
        BY <1>1 DEF TypeOK
  <2>2. /\ history'[p] = r /\ history[p] = h
        /\ \A q \in Products \ {p} : history'[q] = history[q]
        /\ history' \in [Products -> Seq(Version)]
        BY <1>1, <1>4, <1>6, <1>7, <2>1 DEF h
  <2>3. /\ \A q \in Products \ {p} : price'[q] = price[q]
        /\ price'[p] = IF Immediate(c) THEN c.price ELSE price[p]
        /\ price' \in [Products -> Prices]
        BY <1>1, <1>4, <1>7, <2>1
  <2> QED BY <2>2, <2>3
<1>9. Fits' /\ new <= MaxVersions /\ Made' = Made \cup {<<p, new>>}
  <2>1. /\ Cardinality(OnTheWay') = Cardinality(OnTheWay) - 1
        /\ Cardinality(OnTheWay) \in Nat /\ Cardinality(OnTheWay') \in Nat
    <3>1. asked[a] # Nothing /\ asked' = [asked EXCEPT ![a] = Nothing] BY <1>2 DEF c
    <3> QED BY <1>1, <3>1, Answered
  <2>2. IsFiniteSet(Made) /\ Cardinality(Made) \in Nat /\ MaxVersions \in Nat
        BY RowsFinite DEF PriceAssumption
  <2>3. new \in 1 .. MaxVersions BY <1>1, <1>5, <2>1, <2>2 DEF Fits, new
  <2>4. Made' = Made \cup {<<p, new>>}
    <3>1. DOMAIN history'[p] = DOMAIN history[p] \cup {new} BY <1>5, <1>6, <1>8 DEF new
    <3>2. <<p, new>> \in Rows BY <1>4, <2>3 DEF Rows
    <3>3. ASSUME NEW row \in Rows PROVE row \in Made' <=> row \in Made \cup {<<p, new>>}
      <4>1. row = <<row[1], row[2]>> /\ row[1] \in Products BY DEF Rows
      <4>2. CASE row[1] # p
        <5>1. row # <<p, new>> BY <4>2
        <5> QED BY <1>8, <4>1, <4>2, <5>1 DEF Made
      <4>3. CASE row[1] = p
        <5>1. row = <<p, new>> <=> row[2] = new BY <4>1, <4>3
        <5> QED BY <3>1, <4>3, <5>1 DEF Made
      <4> QED BY <4>2, <4>3
    <3> QED BY <3>2, <3>3 DEF Made
  <2>5. Cardinality(Made \cup {<<p, new>>}) \in Nat
        /\ Cardinality(Made \cup {<<p, new>>}) <= Cardinality(Made) + 1
    <3>1. /\ IsFiniteSet(Made \cup {<<p, new>>})
          /\ Cardinality(Made \cup {<<p, new>>})
               = IF <<p, new>> \in Made THEN Cardinality(Made) ELSE Cardinality(Made) + 1
          BY <2>2, FS_AddElement
    <3> QED BY <2>2, <3>1
  <2> QED BY <1>1, <2>1, <2>2, <2>3, <2>4, <2>5 DEF Fits
<1>10. Open' = Open /\ \A i \in Open : InHandOf(i)' = InHandOf(i) BY <1>2 DEF Open, At, InHandOf
<1>11. HandsMade' BY <1>1, <1>9, <1>10 DEF HandsMade, OneEach
<1>12. TypeOK'
  <2>1. \A i \in Open' : OneEach(run'[i].left \cup run'[i].held)
    <3>1. \A i \in Open' : OneEach(InHandOf(i)') BY <1>11 DEF HandsMade, OneEach
    <3> QED BY <3>1 DEF InHandOf
  <2>2. \A q \in Products : Len(history'[q]) <= MaxVersions BY <1>1, <1>6, <1>8, <1>9 DEF TypeOK
  <2>3. asked' \in [Admins -> {Nothing} \cup Change] BY <1>1, <1>2 DEF TypeOK
  <2>4. crossed' \subseteq Products BY <1>1, <1>4, <1>7 DEF TypeOK
  <2> QED BY <1>1, <1>2, <1>8, <2>1, <2>2, <2>3, <2>4 DEF TypeOK, OneEach
\* Nobody has the product in hand: it is not locked, and if it is awaited it is crossed.
<1>13. HandIsLast'
  <2>1. ASSUME NEW i \in Open, NEW row \in InHandOf(i), row[1] \notin crossed'
        PROVE  row[2] = Len(history'[row[1]])
    <3>1. row[1] \in Products BY <1>1, <2>1 DEF HandsMade, Made, Rows
    <3>2. row[1] # p
      <4>1. SUFFICES ASSUME row[1] = p PROVE FALSE OBVIOUS
      <4>2. row \in run[i].left \/ row \in run[i].held BY <2>1 DEF InHandOf
      <4>3. row \in run[i].held => Locked(p) BY <2>1, <4>1 DEF Locked, ProductsOf
      <4>4. row \in run[i].left => p \in crossed' BY <1>7, <2>1, <4>1 DEF Awaited, ProductsOf
      <4> QED BY <1>2, <2>1, <4>1, <4>2, <4>3, <4>4
    <3>3. row[1] \notin crossed BY <1>7, <2>1
    <3> QED BY <1>1, <1>8, <2>1, <3>1, <3>2, <3>3 DEF HandIsLast
  <2> QED BY <1>10, <2>1 DEF HandIsLast
<1>14. LastWordScheduled'
  <2>1. ASSUME NEW q \in Products, NEW v \in Versions(q, "scheduled")' PROVE v = Len(history'[q])
    <3>1. v \in DOMAIN history'[q] /\ history'[q][v].status = "scheduled" BY <2>1 DEF Versions
    <3>2. CASE q # p BY <1>1, <1>8, <3>1, <3>2 DEF LastWordScheduled, Versions
    <3>3. CASE q = p
      <4>1. v \in 1 .. new /\ r[v].status = "scheduled" BY <1>6, <1>8, <3>1, <3>3
      <4>2. v \in DOMAIN h => FALSE BY <1>6, <4>1
      <4>3. v = new BY <1>5, <4>1, <4>2 DEF new
      <4>4. Len(history'[q]) = new BY <1>6, <1>8, <3>3
      <4> QED BY <4>3, <4>4
    <3> QED BY <3>2, <3>3
  <2> QED BY <2>1 DEF LastWordScheduled
<1>15. NewestLive'
  <2>1. ASSUME NEW q \in Products \ crossed', NEW v \in Live(q)', \A w \in Live(q)' : w <= v
        PROVE  price'[q] = history'[q][v].price
    <3>1. q \notin crossed BY <1>7, <2>1
    <3>2. v \in DOMAIN history'[q] /\ history'[q][v].status = "active" BY <2>1 DEF Live, Versions
    <3>3. CASE q # p
      <4>1. Live(q)' = Live(q) BY <1>8, <3>3 DEF Live, Versions
      <4>2. v \in Live(q) /\ \A w \in Live(q) : w <= v BY <2>1, <4>1
      <4>3. price[q] = history[q][v].price BY <1>1, <2>1, <3>1, <4>2 DEF NewestLive
      <4> QED BY <1>8, <2>1, <3>3, <4>3
    <3>4. CASE q = p /\ Immediate(c)
      <4>1. new \in Live(q)' BY <1>5, <1>6, <1>8, <3>4 DEF Live, Versions, new
      <4>2. v = new BY <1>5, <1>6, <1>8, <2>1, <3>2, <3>4, <4>1 DEF new
      <4> QED BY <1>6, <1>8, <3>4, <4>2
    <3>5. CASE q = p /\ ~ Immediate(c)
      <4>1. \A w \in DOMAIN h : h[w].status = "active" => r[w] = h[w] BY <1>6
      <4>2. \A w \in DOMAIN h : h[w].status # "active" => r[w].status # "active" BY <1>6
      <4>3. r[new].status # "active" BY <1>6, <3>5
      <4>4. DOMAIN r = DOMAIN h \cup {new} BY <1>5, <1>6 DEF new
      <4>5. Live(q)' = Live(q) BY <1>8, <3>5, <4>1, <4>2, <4>3, <4>4 DEF Live, Versions
      <4>6. v \in DOMAIN h /\ r[v] = h[v] BY <1>8, <3>2, <3>5, <4>1, <4>2, <4>3, <4>4
      <4>7. v \in Live(q) /\ \A w \in Live(q) : w <= v BY <2>1, <4>5
      <4>8. price[q] = history[q][v].price BY <1>1, <2>1, <3>1, <4>7 DEF NewestLive
      <4>9. history'[q][v] = history[q][v] /\ price'[q] = price[q] BY <1>8, <3>5, <4>6
      <4> QED BY <4>8, <4>9
    <3> QED BY <3>3, <3>4, <3>5
  <2> QED BY <2>1 DEF NewestLive
<1> QED BY <1>9, <1>11, <1>12, <1>13, <1>14, <1>15 DEF PriceInv

LEMMA ApplyStep ==
    ASSUME PriceAssumption, PriceInv, NEW a \in Admins, Apply(a)
    PROVE  PriceInv'
<1>1. CASE UNCHANGED <<price, history, crossed>> BY <1>1, SkippedStep
<1>2. CASE ~ UNCHANGED <<price, history, crossed>>
  <2>1. /\ history' = [history EXCEPT ![asked[a].product] = Recorded(asked[a])]
        /\ price' = IF Immediate(asked[a])
                    THEN [price EXCEPT ![asked[a].product] = asked[a].price] ELSE price
        /\ crossed' = IF Awaited(asked[a].product)
                      THEN crossed \cup {asked[a].product} ELSE crossed
        BY <1>2, Zenon DEF Apply
  <2> QED BY <2>1, WrittenStep
<1> QED BY <1>1, <1>2

LEMMA PricesInitially ==
    ASSUME PriceAssumption, Init PROVE PriceInv
<1>1. /\ today = 1 /\ price \in [Products -> Prices]
      /\ history = [p \in Products |-> <<>>] /\ lock = [d \in Days |-> "none"]
      /\ asked = [a \in Admins |-> Nothing] /\ run = [i \in Instances |-> Idle]
      /\ crossed = {} /\ faults = 0
      BY DEF Init, PriceAssumption
<1>2. MaxVersions \in Nat /\ 1 \in Days /\ 0 \in 0 .. MaxFaults BY DEF PriceAssumption, Days
<1>3. Open = {} BY <1>1 DEF Open, At, Idle
<1>4. \A p \in Products : /\ history[p] = <<>> /\ Len(history[p]) = 0
                          /\ DOMAIN history[p] = {} /\ history[p] \in Seq(Version)
      BY <1>1
<1>5. Made = {} /\ OnTheWay = {} BY <1>1, <1>4 DEF Made, Rows, OnTheWay
<1>6. TypeOK
  <2>1. history \in [Products -> Seq(Version)] BY <1>1, <1>4
  <2>2. lock \in [Days -> LockStatus] BY <1>1 DEF LockStatus
  <2>3. \A p \in Products : Len(history[p]) <= MaxVersions BY <1>2, <1>4
  <2> QED BY <1>1, <1>2, <1>3, <2>1, <2>2, <2>3 DEF TypeOK
<1>7. HandsMade /\ HandIsLast BY <1>3 DEF HandsMade, HandIsLast
<1>8. Fits BY <1>2, <1>5, FS_EmptySet DEF Fits
<1>9. LastWordScheduled /\ NewestLive BY <1>4 DEF LastWordScheduled, NewestLive, Live, Versions
<1> QED BY <1>6, <1>7, <1>8, <1>9 DEF PriceInv

LEMMA PricesStep ==
    ASSUME PriceAssumption, PriceInv, [Next]_vars
    PROVE  PriceInv'
<1>1. ASSUME NEW a \in Admins, NEW p \in Products, NEW n \in Prices, NEW d \in Days, Ask(a, p, n, d)
      PROVE  PriceInv' BY <1>1, AskStep
<1>2. ASSUME NEW a \in Admins, Apply(a) PROVE PriceInv' BY <1>2, ApplyStep
<1>3. ASSUME NEW i \in Instances, Proceed(i) \/ CallFails(i) \/ Crash(i) PROVE PriceInv'
  <2>1. CASE Claim(i) \/ Skip(i) \/ Close(i) \/ Crash(i) BY <2>1, RunStep
  <2>2. CASE ReadDue(i) BY <2>2, ReadStep
  <2>3. CASE LockNext(i) BY <2>3, LockStep
  <2>4. CASE Commit(i) \/ CallFails(i) BY <2>4, EndStep
  <2> QED BY <1>3, <2>1, <2>2, <2>3, <2>4 DEF Proceed
<1>4. CASE NextDay \/ (\E d \in Days : ClaimAges(d)) \/ UNCHANGED vars BY <1>4, ClockStep
<1> QED BY <1>1, <1>2, <1>3, <1>4 DEF Next

LEMMA PricesInvariance ==
    ASSUME PriceAssumption PROVE Spec => []PriceInv
<1>1. Init => PriceInv BY PricesInitially
<1>2. PriceInv /\ [Next]_vars => PriceInv' BY PricesStep
<1> QED BY <1>1, <1>2, PTL DEF Spec

\* A set of numbers with a bound has a largest.
LEMMA Largest ==
    ASSUME NEW n \in Nat, NEW S, S \subseteq 1 .. n, S # {}
    PROVE  Max(S) \in S /\ \A x \in S : x <= Max(S)
<1> DEFINE T == {n - x : x \in S}
<1>1. T \subseteq Nat /\ T # {}
  <2>1. PICK x \in S : TRUE OBVIOUS
  <2>2. n - x \in T BY <2>1
  <2>3. \A y \in S : n - y \in Nat OBVIOUS
  <2> QED BY <2>2, <2>3
<1>2. PICK t \in T : \A u \in T : t <= u BY <1>1, Smallest
<1>3. PICK m \in S : t = n - m OBVIOUS
<1>4. ASSUME NEW x \in S PROVE m >= x
  <2>1. n - x \in T OBVIOUS
  <2>2. t <= n - x BY <1>2, <2>1
  <2> HIDE DEF T
  <2>3. m \in Nat /\ x \in Nat OBVIOUS
  <2> QED BY <1>3, <2>2, <2>3
<1> DEFINE c == CHOOSE x \in S : \A y \in S : x >= y
<1>5. c \in S /\ \A y \in S : c >= y BY <1>4
<1>6. Max(S) = c BY DEF Max
<1> HIDE DEF c
<1> QED BY <1>5, <1>6

-----------------------------------------------------------------------------
\* Products, their history, the calls on their way and the runs keep their types;
\* a run has one row in hand of a product (activate_due_prices loops over rows).
THEOREM PricesTyped ==
    ASSUME PriceAssumption PROVE Spec => []TypeOK
<1>1. PriceInv => TypeOK BY DEF PriceInv
<1> QED BY <1>1, PricesInvariance, PTL

\* apply_price_change leaves nothing scheduled but the newest row of a product,
\* whatever the runs have read and lock.
THEOREM OnePlan ==
    ASSUME PriceAssumption PROVE Spec => []LastWordScheduled
<1>1. PriceInv => LastWordScheduled BY DEF PriceInv
<1> QED BY <1>1, PricesInvariance, PTL

\* products.price is the price of the newest version that went live, for every
\* product that was not changed between a run's read and its lock.
THEOREM NewestPrice ==
    ASSUME PriceAssumption PROVE Spec => []PriceIsNewest
<1>1. ASSUME PriceInv PROVE PriceIsNewest
  <2>1. SUFFICES ASSUME NEW p \in Products \ crossed, Versions(p, "active") # {}
                 PROVE  price[p] = history[p][Max(Versions(p, "active"))].price
        BY DEF PriceIsNewest
  <2> DEFINE S == Versions(p, "active")
  <2>2. Len(history[p]) \in Nat /\ S \subseteq 1 .. Len(history[p])
        BY <1>1, <2>1, Histories DEF PriceInv, Versions
  <2>3. Max(S) \in S /\ \A x \in S : x <= Max(S) BY <2>1, <2>2, Largest
  <2> HIDE DEF S
  <2> QED BY <1>1, <2>1, <2>3 DEF PriceInv, NewestLive, Live, S
<1> QED BY <1>1, PricesInvariance, PTL

\* A change supersedes only what is scheduled, and the job writes only the rows it has in
\* hand, and of them neither price nor date: no row is lost, what went live stays so, and
\* nothing that is not scheduled is touched but by a run that read it as scheduled.
THEOREM Standing ==
    ASSUME PriceAssumption PROVE Spec => HistoryStands
<1> DEFINE Stands ==
             \A p \in Products : \A v \in DOMAIN history[p] :
               LET was == history[p][v]  is == history'[p][v] IN
               /\ v \in DOMAIN history'[p]
               /\ is.price = was.price /\ is.date = was.date
               /\ was.status = "active" => is.status = "active"
               /\ ~InHand(<<p, v>>) =>
                    \/ is = was
                    \/ was.status = "scheduled" /\ is = [was EXCEPT !.status = "superseded"]
<1>1. ASSUME PriceInv, [Next]_vars PROVE Stands \/ UNCHANGED vars
  <2>1. TypeOK /\ HandsMade BY <1>1 DEF PriceInv
  <2>2. CASE history' = history BY <2>2
  <2>3. CASE \E a \in Admins : Apply(a)
    <3>1. PICK a \in Admins : Apply(a) BY <2>3
    <3>2. CASE history' # history
      <4> DEFINE c == asked[a]
                 r == Recorded(c)
      <4>1. c # Nothing /\ history' = [history EXCEPT ![c.product] = r]
            BY <3>1, <3>2, Zenon DEF Apply
      <4>2. c \in Change BY <2>1, <4>1 DEF TypeOK
      <4>3. /\ DOMAIN history[c.product] \subseteq DOMAIN r
            /\ \A v \in DOMAIN history[c.product] :
                 /\ history[c.product][v].status = "scheduled" =>
                      r[v] = Replaced(history[c.product][v])
                 /\ history[c.product][v].status # "scheduled" => r[v] = history[c.product][v]
        <5>1. /\ Len(history[c.product]) \in Nat
              /\ DOMAIN history[c.product] = 1 .. Len(history[c.product])
              BY <2>1, <4>2, Histories DEF Change
        <5>2. /\ DOMAIN r = 1 .. Len(history[c.product]) + 1
              /\ \A v \in DOMAIN history[c.product] :
                   /\ history[c.product][v].status = "scheduled" =>
                        r[v] = Replaced(history[c.product][v])
                   /\ history[c.product][v].status # "scheduled" => r[v] = history[c.product][v]
              BY <2>1, <4>2, Recording
        <5> HIDE DEF c, r
        <5> QED BY <5>1, <5>2
      <4>4. c.product \in Products BY <4>2 DEF Change
      <4> HIDE DEF c, r
      <4>5. history'[c.product] = r /\ \A q \in Products \ {c.product} : history'[q] = history[q]
            BY <2>1, <4>1, <4>4 DEF TypeOK
      <4>6. \A v \in DOMAIN history[c.product] : history[c.product][v] \in Version
            BY <2>1, <4>4, Histories
      <4>7. ASSUME NEW v \in DOMAIN history[c.product]
            PROVE  LET was == history[c.product][v]  is == r[v] IN
                   /\ is.price = was.price /\ is.date = was.date
                   /\ was.status = "active" => is.status = "active"
                   /\ \/ is = was
                      \/ was.status = "scheduled" /\ is = Replaced(was)
            BY <4>3, <4>6, <4>7, ReplacedRow
      <4> QED BY <4>3, <4>5, <4>7 DEF Replaced
    <3> QED BY <2>2, <3>2
  <2>4. CASE \E i \in Instances : At(i, "open") /\ Activate(run[i].held)
    <3>1. PICK i \in Instances : At(i, "open") /\ Activate(run[i].held) BY <2>4
    <3> DEFINE picked == run[i].held
    <3>2. i \in Open /\ picked \subseteq Made /\ OneEach(picked) /\ Activate(picked)
          BY <2>1, <3>1 DEF Open, HandsMade, InHandOf, OneEach
    <3>3. \A p \in Products :
              /\ DOMAIN history'[p] = DOMAIN history[p]
              /\ \A v \in DOMAIN history[p] :
                   history'[p][v] = IF <<p, v>> \in picked
                                    THEN Activated(history[p][v], price[p])
                                    ELSE history[p][v]
      <4> HIDE DEF picked
      <4>1. \A p \in Products :
                /\ Len(history'[p]) = Len(history[p])
                /\ DOMAIN history'[p] = DOMAIN history[p]
                /\ \A v \in DOMAIN history[p] :
                     history'[p][v] = IF <<p, v>> \in picked
                                      THEN Activated(history[p][v], price[p])
                                      ELSE history[p][v]
                /\ p \notin ProductsOf(picked) => price'[p] = price[p]
            BY <2>1, <3>2, ActivatedRows
      <4> QED BY <4>1
    <3>4. ASSUME NEW p \in Products, NEW v \in DOMAIN history[p]
          PROVE  LET was == history[p][v]  is == history'[p][v] IN
                 /\ is.price = was.price /\ is.date = was.date
                 /\ was.status = "active" => is.status = "active"
                 /\ ~InHand(<<p, v>>) => is = was
      <4>1. <<p, v>> \in picked => InHand(<<p, v>>) BY <3>2 DEF InHand
      <4>2. history[p][v] \in Version /\ price[p] \in Prices BY <2>1, Histories DEF TypeOK
      <4> HIDE DEF picked
      <4>3. CASE <<p, v>> \in picked
        <5>1. history'[p][v] = Activated(history[p][v], price[p]) BY <3>3, <4>3
        <5> QED BY <4>1, <4>2, <4>3, <5>1, ActivatedRow
      <4>4. CASE <<p, v>> \notin picked BY <3>3, <4>4
      <4> QED BY <4>3, <4>4
    <3> QED BY <3>3, <3>4
  <2>5. history' = history \/ (\E a \in Admins : Apply(a))
        \/ (\E i \in Instances : At(i, "open") /\ Activate(run[i].held))
    <3>1. ASSUME NEW i \in Instances, Proceed(i) \/ CallFails(i) \/ Crash(i)
          PROVE  history' = history \/ (At(i, "open") /\ Activate(run[i].held))
          BY <3>1 DEF Proceed, Claim, Skip, ReadDue, LockNext, Commit, Close, CallFails, Crash
    <3>2. ASSUME NEW a \in Admins, NEW p \in Products, NEW n \in Prices, NEW d \in Days, Ask(a, p, n, d)
          PROVE  history' = history BY <3>2 DEF Ask
    <3>3. (NextDay \/ \E d \in Days : ClaimAges(d)) => history' = history BY DEF NextDay, ClaimAges
    <3> QED BY <1>1, <3>1, <3>2, <3>3 DEF Next, vars
  <2> QED BY <2>2, <2>3, <2>4, <2>5
<1>2. PriceInv /\ [Next]_vars => [Stands]_vars BY <1>1
<1> QED BY <1>2, PricesInvariance, PTL DEF Spec, HistoryStands

(***************************************************************************)
(* BranchReturns: who is at work on a return, and what they may rely on.   *)
(***************************************************************************)
Raising(c) == call[c].op = "raise"
Settles(c) == call[c].op \in {"refund", "debit"}
Corrects(c) == call[c].op \in {"revise", "withdraw", "resubmit"}

\* The returns a raise is about: nobody else knows them, and the branch is out what was
\* committed of them, and no more.
Handing(c) == call[c].todo \cup call[c].got
RaiseFine(c) ==
    Raising(c) =>
        /\ call[c].todo \cap call[c].got = {}
        /\ \A id \in Handing(c) :
             /\ id \notin ByProduction /\ rows[id] = NoRow /\ call[c].want[id] \in Qty
             /\ off[id] = IF id \in call[c].got THEN call[c].want[id] ELSE 0
Apart(c, d) == c # d /\ Raising(c) /\ Raising(d) => Handing(c) \cap Handing(d) = {}

\* Whoever corrects a return goes on from the row it read, unless the return is marred.
Target(q) == IF q.op = "revise" THEN q.want ELSE 0
CorrectionFine(c) ==
    Corrects(c) =>
        /\ call[c].id \notin ByProduction /\ rows[call[c].id] # NoRow
        /\ call[c].seen.status \in Undecided
        /\ call[c].op = "revise" => call[c].want \in Qty
        /\ call[c].op # "resubmit" /\ call[c].id \notin marred =>
             /\ rows[call[c].id] = call[c].seen
             /\ call[c].moved => off[call[c].id] = Target(call[c])

\* A decision's units move once, for the row as it was decided.
SettlingFine(c) ==
    Settles(c) =>
        /\ call[c].op = "debit" <=> call[c].id \in ByProduction
        /\ rows[call[c].id] # NoRow
        /\ call[c].id \notin marred =>
             /\ call[c].id \notin settled
             /\ rows[call[c].id].status = IF call[c].op = "debit" THEN "accepted" ELSE "rejected"
             /\ rows[call[c].id].qty = call[c].want
             /\ off[call[c].id] = IF call[c].op = "debit" THEN 0 ELSE call[c].want
OneSettles(c, d) ==
    Settles(c) /\ Settles(d) /\ call[c].id = call[d].id /\ call[c].id \notin marred => c = d

\* The return stock follows the rows at once, the branch's balance between two halves.
InTheMiddle(id) == \E c \in Callers : id \in Midway(call[c])
RowFine(id) ==
    id \notin marred =>
        /\ id \in settled => rows[id].status \in Decided
        /\ credited[id] = IF rows[id].status = "accepted" THEN rows[id].qty ELSE 0
        /\ ~InTheMiddle(id) => off[id] = Owed(id)

NothingOversold ==
    /\ \A id \in ByProduction : off[id] \in Nat
    /\ \A p \in Goods : stock[p] + SumOver(off, OwnReturns(p)) >= 0

ReturnInv ==
    /\ ReturnTypeOK
    /\ \A c \in Callers : RaiseFine(c) /\ CorrectionFine(c) /\ SettlingFine(c)
    /\ \A c, d \in Callers : Apart(c, d) /\ OneSettles(c, d)
    /\ \A id \in Returns : RowFine(id)
    /\ NothingOversold

\* What the fields of a call are, by its kind.
LEMMA CallKinds ==
    ASSUME ReturnTypeOK, NEW c \in Callers
    PROVE  /\ call[c] = Free \/ Raising(c) \/ Corrects(c) \/ Settles(c)
           /\ Raising(c) => call[c] \in Raise
           /\ Corrects(c) => call[c] \in Correction
           /\ Settles(c) => call[c] \in Settling
  BY DEF ReturnTypeOK, Raising, Corrects, Settles, Raise, Correction, Settling, Free

\* The returns in the middle of a call.
LEMMA Halves ==
    ASSUME ReturnTypeOK, NEW c \in Callers
    PROVE  /\ Midway(call[c]) \subseteq Returns
           /\ \A id \in Midway(call[c]) :
                \/ Raising(c) /\ id \in call[c].got
                \/ Corrects(c) /\ call[c].op # "resubmit" /\ call[c].moved /\ id = call[c].id
                \/ Settles(c) /\ id = call[c].id
<1>1. CASE call[c] = Free
  BY <1>1 DEF Midway, Free
<1>2. CASE Raising(c)
  <2>1. call[c] \in Raise BY <1>2, CallKinds
  <2> QED BY <1>2, <2>1 DEF Midway, Raising, Raise
<1>3. CASE Corrects(c)
  <2>1. call[c] \in Correction BY <1>3, CallKinds
  <2> QED BY <1>3, <2>1 DEF Midway, Corrects, Correction
<1>4. CASE Settles(c)
  <2>1. call[c] \in Settling BY <1>4, CallKinds
  <2> QED BY <1>4, <2>1 DEF Midway, Settles, Settling
<1> QED BY <1>1, <1>2, <1>3, <1>4, CallKinds

\* A step of the callers in C on the returns in X leaves everybody else's work as it was.
LEMMA Elsewhere ==
    ASSUME ReturnInv, ReturnTypeOK', NEW C \in SUBSET Callers, NEW X \in SUBSET Returns,
           \A d \in Callers \ C : call'[d] = call[d],
           \A id \in Returns \ X : /\ rows'[id] = rows[id] /\ off'[id] = off[id]
                                   /\ credited'[id] = credited[id]
                                   /\ id \in settled' => id \in settled,
           marred \subseteq marred',
           \A d \in Callers \ C : Raising(d) => Handing(d) \cap X = {},
           \A d \in Callers \ C :
              Corrects(d) /\ call[d].id \in X =>
                  rows'[call[d].id] # NoRow /\ (call[d].op = "resubmit" \/ call[d].id \in marred'),
           \A d \in Callers \ C :
              Settles(d) /\ call[d].id \in X => rows'[call[d].id] # NoRow /\ call[d].id \in marred',
           \A c \in C : Midway(call[c]) \subseteq X \cup Midway(call'[c]) \cup marred',
           \A c \in C : RaiseFine(c)' /\ CorrectionFine(c)' /\ SettlingFine(c)',
           \A c \in C, d \in Callers : Apart(c, d)' /\ OneSettles(c, d)',
           \A id \in X : RowFine(id)',
           NothingOversold'
    PROVE  ReturnInv'
<1>1. ASSUME NEW d \in Callers \ C PROVE RaiseFine(d)'
  <2>1. Raising(d)' <=> Raising(d) BY DEF Raising
  <2>2. ASSUME Raising(d) PROVE RaiseFine(d)'
    <3>1. RaiseFine(d) /\ call[d] \in Raise /\ call'[d] = call[d]
          BY <2>2, CallKinds DEF ReturnInv
    <3>2. Handing(d) \subseteq Returns \ X
          BY <2>2, <3>1 DEF Handing, Raise
    <3>3. \A id \in Handing(d) : rows'[id] = rows[id] /\ off'[id] = off[id] BY <3>2
    <3>4. Handing(d)' = Handing(d) BY <3>1 DEF Handing
    <3> QED BY <2>2, <3>1, <3>3, <3>4 DEF RaiseFine
  <2> QED BY <2>1, <2>2 DEF RaiseFine
<1>2. ASSUME NEW d \in Callers \ C PROVE CorrectionFine(d)'
  <2>1. call'[d] = call[d] /\ (Corrects(d)' <=> Corrects(d)) BY DEF Corrects
  <2>2. ASSUME Corrects(d) PROVE CorrectionFine(d)'
    <3>1. CorrectionFine(d) /\ call[d].id \in Returns
          BY <2>2, CallKinds DEF ReturnInv, Correction
    <3> QED BY <2>1, <2>2, <3>1 DEF CorrectionFine
  <2> QED BY <2>1, <2>2 DEF CorrectionFine
<1>3. ASSUME NEW d \in Callers \ C PROVE SettlingFine(d)'
  <2>1. call'[d] = call[d] /\ (Settles(d)' <=> Settles(d)) BY DEF Settles
  <2>2. ASSUME Settles(d) PROVE SettlingFine(d)'
    <3>1. SettlingFine(d) /\ call[d].id \in Returns
          BY <2>2, CallKinds DEF ReturnInv, Settling
    <3> QED BY <2>1, <2>2, <3>1 DEF SettlingFine
  <2> QED BY <2>1, <2>2 DEF SettlingFine
<1>4. ASSUME NEW c \in Callers, NEW d \in Callers PROVE (Apart(c, d) /\ OneSettles(c, d))'
  <2>1. CASE c \in C BY <2>1
  <2>2. CASE d \in C
    <3>1. Apart(d, c)' /\ OneSettles(d, c)' BY <2>2
    <3> QED BY <3>1 DEF Apart, OneSettles
  <2>3. CASE c \notin C /\ d \notin C
    <3>1. call'[c] = call[c] /\ call'[d] = call[d] BY <2>3
    <3>2. Apart(c, d) /\ OneSettles(c, d) BY DEF ReturnInv
    <3> QED BY <3>1, <3>2 DEF Apart, OneSettles, Raising, Settles, Handing
  <2> QED BY <2>1, <2>2, <2>3
<1>5. ASSUME NEW id \in Returns \ X PROVE RowFine(id)'
  <2>1. SUFFICES ASSUME id \notin marred' PROVE RowFine(id)' BY DEF RowFine
  <2>2. RowFine(id) /\ id \notin marred BY <2>1 DEF ReturnInv
  <2>3. InTheMiddle(id) => InTheMiddle(id)'
    <3>1. SUFFICES ASSUME NEW c \in Callers, id \in Midway(call[c])
                   PROVE  id \in Midway(call'[c])
          BY DEF InTheMiddle
    <3> QED BY <2>1, <3>1
  <2>4. Owed(id)' = Owed(id) BY DEF Owed
  <2> QED BY <2>2, <2>3, <2>4 DEF RowFine
<1>6. \A c \in Callers : (RaiseFine(c) /\ CorrectionFine(c) /\ SettlingFine(c))'
  BY <1>1, <1>2, <1>3
<1>7. \A id \in Returns : RowFine(id)' BY <1>5
<1> QED BY <1>4, <1>6, <1>7 DEF ReturnInv

\* Nobody is at work on a return that was never raised but those who raise it.
LEMMA Unraised ==
    ASSUME ReturnInv, NEW d \in Callers, NEW id \in Returns, rows[id] = NoRow
    PROVE  /\ Corrects(d) \/ Settles(d) => call[d].id # id
  BY DEF ReturnInv, CorrectionFine, SettlingFine

\* Nobody raises a return that has a row.
LEMMA Raised ==
    ASSUME ReturnInv, NEW d \in Callers, NEW id \in Returns, rows[id] # NoRow
    PROVE  Raising(d) => Handing(d) \cap {id} = {}
  BY DEF ReturnInv, RaiseFine

\* A return that is still open, unmarred, is in no decision's hands.
LEMMA NotSettling ==
    ASSUME ReturnInv, NEW d \in Callers, NEW id \in Returns, rows[id].status \in Undecided
    PROVE  Settles(d) /\ call[d].id = id => id \in marred
  BY DEF ReturnInv, SettlingFine, Undecided

\* An open return in no correction's hands is between two halves, if it is not marred.
LEMMA OpenAgrees ==
    ASSUME ReturnInv, ReturnsAssumption, NEW id \in Returns, rows[id].status \in Undecided, id \notin marred,
           NEW C \in SUBSET Callers, \A d \in Callers \ C : ~Correcting(d, id),
           \A c \in C : id \notin Midway(call[c])
    PROVE  /\ rows[id] # NoRow /\ rows[id].qty \in Qty /\ id \notin settled /\ credited[id] = 0
           /\ off[id] = IF id \in ByProduction THEN 0 ELSE rows[id].qty
<1>1. rows[id] # NoRow /\ rows[id].qty \in Qty
  BY DEF ReturnInv, ReturnTypeOK, Row, NoRow, Undecided
<1>2. ~InTheMiddle(id)
  <2>1. SUFFICES ASSUME NEW d \in Callers \ C, id \in Midway(call[d]) PROVE FALSE
        BY DEF InTheMiddle
  <2>2. ~ (Raising(d) /\ id \in call[d].got) BY <1>1, Raised DEF Handing
  <2>3. ~ (Settles(d) /\ id = call[d].id) BY NotSettling
  <2>4. ~ (Corrects(d) /\ call[d].op # "resubmit" /\ id = call[d].id)
        BY DEF Corrects, Correcting
  <2> QED BY <2>1, <2>2, <2>3, <2>4, Halves DEF ReturnInv
<1>3. RowFine(id) BY DEF ReturnInv
<1> QED BY <1>1, <1>2, <1>3 DEF RowFine, Owed, Undecided, Decided

\* What the branch is out for Production's own returns of a product.
LEMMA OwnCounted ==
    ASSUME ReturnsAssumption, NEW f, f \in [Returns -> Int], \A id \in ByProduction : f[id] \in Nat, NEW p
    PROVE  SumOver(f, OwnReturns(p)) \in Nat
<1> DEFINE g == [x \in ByProduction |-> f[x]]
<1>1. IsFiniteSet(ByProduction) BY FS_Subset DEF ReturnsAssumption
<1>2. g \in [ByProduction -> Nat] /\ OwnReturns(p) \in SUBSET ByProduction BY DEF OwnReturns
<1>3. \A x \in OwnReturns(p) : g[x] = f[x] BY DEF OwnReturns
<1> HIDE DEF g
<1>4. SumOver(g, OwnReturns(p)) \in Nat BY <1>1, <1>2, SumType
<1> QED BY <1>3, <1>4, SumSame

\* Units move between the branch and a return; only a return of Production's own may
\* take what is not there.
LEMMA TakeOffCovered ==
    ASSUME ReturnsAssumption, ReturnTypeOK, NothingOversold,
           NEW id \in Returns, NEW qty \in Int, TakeOff(id, qty),
           \/ id \in ByProduction /\ qty \in Nat
           \/ id \notin ByProduction /\ (qty <= 0 \/ qty <= stock[Of[id]])
    PROVE  NothingOversold'
<1>1. /\ stock \in [Goods -> Int] /\ off \in [Returns -> Int] /\ Of[id] \in Goods
      /\ ByProduction \subseteq Returns /\ IsFiniteSet(Returns)
  BY DEF ReturnTypeOK, ReturnsAssumption
<1>2. /\ off' \in [Returns -> Int] /\ stock' \in [Goods -> Int]
      /\ off'[id] = off[id] + qty /\ stock'[Of[id]] = stock[Of[id]] - qty
      /\ \A x \in Returns \ {id} : off'[x] = off[x]
      /\ \A p \in Goods \ {Of[id]} : stock'[p] = stock[p]
  BY <1>1 DEF TakeOff
<1>3. \A x \in ByProduction : off[x] \in Nat /\ off'[x] \in Nat
  BY <1>1, <1>2 DEF NothingOversold
<1>4. \A p \in Goods : SumOver(off, OwnReturns(p)) \in Nat /\ SumOver(off', OwnReturns(p)) \in Nat
  BY <1>1, <1>2, <1>3, OwnCounted
<1>5. ASSUME NEW p \in Goods, id \notin OwnReturns(p)
      PROVE  SumOver(off', OwnReturns(p)) = SumOver(off, OwnReturns(p))
  <2>1. \A x \in OwnReturns(p) : off'[x] = off[x] BY <1>1, <1>2, <1>5 DEF OwnReturns
  <2> QED BY <2>1, SumSame
<1>6. ASSUME NEW p \in Goods, id \in OwnReturns(p)
      PROVE  p = Of[id] /\ SumOver(off', OwnReturns(p)) = SumOver(off, OwnReturns(p)) + qty
  <2> DEFINE V == OwnReturns(p)
  <2>1. V \in SUBSET Returns /\ p = Of[id] BY <1>1, <1>6 DEF OwnReturns
  <2>2. SumOver(off, V) = off[id] + SumOver(off, V \ {id})
        BY <1>1, <1>6, <2>1, SumRemove
  <2>3. SumOver(off', V) = off'[id] + SumOver(off', V \ {id})
        BY <1>1, <1>2, <1>6, <2>1, SumRemove
  <2>4. \A x \in V \ {id} : off'[x] = off[x] BY <1>2, <2>1
  <2>5. SumOver(off', V \ {id}) = SumOver(off, V \ {id}) BY <2>4, SumSame
  <2>6. SumOver(off, V \ {id}) \in Int
    <3>1. V \ {id} \in SUBSET Returns BY <2>1
    <3> QED BY <1>1, <3>1, SumType
  <2> QED BY <1>1, <1>2, <2>1, <2>2, <2>3, <2>5, <2>6
<1>7. ASSUME NEW p \in Goods PROVE stock'[p] + SumOver(off', OwnReturns(p)) >= 0
  <2>1. stock[p] + SumOver(off, OwnReturns(p)) >= 0 /\ stock[p] \in Int
        BY <1>1 DEF NothingOversold
  <2>2. CASE id \in OwnReturns(p) BY <1>1, <1>2, <1>4, <1>6, <2>1, <2>2
  <2>3. CASE id \notin OwnReturns(p)
    <3>1. CASE p # Of[id] BY <1>2, <1>5, <2>1, <2>3, <3>1
    <3>2. CASE p = Of[id]
      <4>1. id \notin ByProduction BY <2>3, <3>2 DEF OwnReturns
      <4>2. SumOver(off, OwnReturns(p)) \in Nat BY <1>4
      <4>3. SumOver(off', OwnReturns(p)) = SumOver(off, OwnReturns(p)) BY <1>5, <2>3
      <4>4. stock'[p] = stock[p] - qty BY <1>2, <3>2
      <4>5. qty <= 0 \/ qty <= stock[p] BY <3>2, <4>1
      <4> HIDE <1>7
      <4> QED BY <2>1, <4>2, <4>3, <4>4, <4>5
    <3> QED BY <3>1, <3>2
  <2> QED BY <2>2, <2>3
<1> QED BY <1>3, <1>7 DEF NothingOversold

LEMMA NothingMoved ==
    ASSUME NothingOversold, UNCHANGED <<stock, off>> PROVE NothingOversold'
  BY DEF NothingOversold

\* A call that is answered has nothing left to keep.
LEMMA CallAnswered ==
    ASSUME NEW c \in Callers, call'[c] = Free
    PROVE  /\ Midway(call'[c]) = {}
           /\ RaiseFine(c)' /\ CorrectionFine(c)' /\ SettlingFine(c)'
           /\ \A d \in Callers : Apart(c, d)' /\ OneSettles(c, d)'
<1>1. ~Raising(c)' /\ ~Corrects(c)' /\ ~Settles(c)'
  BY DEF Raising, Corrects, Settles, Free
<1>2. Midway(call'[c]) = {} BY DEF Midway, Free
<1> QED BY <1>1, <1>2 DEF RaiseFine, CorrectionFine, SettlingFine, Apart, OneSettles

\* A step of one call that moves no units and writes no row.
LEMMA Alone ==
    ASSUME ReturnInv, ReturnTypeOK', NEW c \in Callers,
           \A d \in Callers \ {c} : call'[d] = call[d],
           UNCHANGED <<stock, rows, off, credited, settled>>, marred \subseteq marred',
           Midway(call[c]) \subseteq Midway(call'[c]) \cup marred',
           RaiseFine(c)' /\ CorrectionFine(c)' /\ SettlingFine(c)',
           \A d \in Callers : Apart(c, d)' /\ OneSettles(c, d)'
    PROVE  ReturnInv'
<1> DEFINE C == {c}
           X == {}
<1>1. C \in SUBSET Callers /\ X \in SUBSET Returns OBVIOUS
<1>2. NothingOversold' BY NothingMoved DEF ReturnInv
<1>3. \A d \in C : d = c OBVIOUS
<1>4. \A d \in Callers \ C : call'[d] = call[d] OBVIOUS
<1>5. \A d \in C : Midway(call[d]) \subseteq X \cup Midway(call'[d]) \cup marred' OBVIOUS
<1>6. \A d \in C : RaiseFine(d)' /\ CorrectionFine(d)' /\ SettlingFine(d)' OBVIOUS
<1>7. \A d \in C, e \in Callers : Apart(d, e)' /\ OneSettles(d, e)' OBVIOUS
<1>8. \A id \in X : RowFine(id)' OBVIOUS
<1>9. \A id \in Returns \ X : /\ rows'[id] = rows[id] /\ off'[id] = off[id]
                              /\ credited'[id] = credited[id]
                              /\ id \in settled' => id \in settled
  OBVIOUS
<1>10. /\ \A d \in Callers \ C : Raising(d) => Handing(d) \cap X = {}
       /\ \A d \in Callers \ C :
             Corrects(d) /\ call[d].id \in X =>
                 rows'[call[d].id] # NoRow /\ (call[d].op = "resubmit" \/ call[d].id \in marred')
       /\ \A d \in Callers \ C :
             Settles(d) /\ call[d].id \in X => rows'[call[d].id] # NoRow /\ call[d].id \in marred'
  OBVIOUS
<1> HIDE DEF C, X
<1> QED BY <1>1, <1>2, <1>4, <1>5, <1>6, <1>7, <1>8, <1>9, <1>10, Elsewhere

\* A step of one call on a return that has a row: whoever corrects it meanwhile, or
\* settles it, finds it marred.
LEMMA AtWork ==
    ASSUME ReturnInv, ReturnTypeOK', NEW c \in Callers, NEW id \in Returns,
           rows[id] # NoRow, rows'[id] # NoRow,
           \A d \in Callers \ {c} : call'[d] = call[d],
           \A x \in Returns \ {id} : /\ rows'[x] = rows[x] /\ off'[x] = off[x]
                                     /\ credited'[x] = credited[x]
                                     /\ x \in settled' => x \in settled,
           marred \subseteq marred',
           (\E d \in Callers \ {c} : Correcting(d, id)) => id \in marred',
           \A d \in Callers \ {c} : Settles(d) /\ call[d].id = id => id \in marred',
           Midway(call[c]) \subseteq {id},
           RaiseFine(c)' /\ CorrectionFine(c)' /\ SettlingFine(c)',
           \A d \in Callers : Apart(c, d)' /\ OneSettles(c, d)',
           RowFine(id)', NothingOversold'
    PROVE  ReturnInv'
<1> DEFINE C == {c}
           X == {id}
<1>1. C \in SUBSET Callers /\ X \in SUBSET Returns OBVIOUS
<1>2. \A d \in Callers \ C : call'[d] = call[d] OBVIOUS
<1>3. \A d \in C : Midway(call[d]) \subseteq X \cup Midway(call'[d]) \cup marred' OBVIOUS
<1>4. \A d \in C : RaiseFine(d)' /\ CorrectionFine(d)' /\ SettlingFine(d)' OBVIOUS
<1>5. \A d \in C, e \in Callers : Apart(d, e)' /\ OneSettles(d, e)' OBVIOUS
<1>6. \A x \in X : RowFine(x)' OBVIOUS
<1>7. \A x \in Returns \ X : /\ rows'[x] = rows[x] /\ off'[x] = off[x]
                             /\ credited'[x] = credited[x]
                             /\ x \in settled' => x \in settled
  OBVIOUS
<1>8. \A d \in Callers \ C : Raising(d) => Handing(d) \cap X = {} BY Raised
<1>9. \A d \in Callers \ C :
         Corrects(d) /\ call[d].id \in X =>
             rows'[call[d].id] # NoRow /\ (call[d].op = "resubmit" \/ call[d].id \in marred')
  BY DEF Corrects, Correcting
<1>10. \A d \in Callers \ C :
         Settles(d) /\ call[d].id \in X => rows'[call[d].id] # NoRow /\ call[d].id \in marred'
  OBVIOUS
<1> HIDE DEF C, X
<1> QED BY <1>1, <1>2, <1>3, <1>4, <1>5, <1>6, <1>7, <1>8, <1>9, <1>10, Elsewhere

\* What marring a return under its correctors' hands makes of the marred ones.
LEMMA MarMarks ==
    ASSUME ReturnTypeOK, NEW c \in Callers, NEW id \in Returns, Mar(c, id)
    PROVE  /\ marred \subseteq marred' /\ marred' \subseteq Returns
           /\ (\E d \in Callers \ {c} : Correcting(d, id)) => id \in marred'
           /\ id \notin marred' =>
                 id \notin marred /\ \A d \in Callers \ {c} : ~Correcting(d, id)
  BY DEF Mar, ReturnTypeOK

\* Whoever else corrects a return keeps it between two halves, or it is marred.
LEMMA MovedStays ==
    ASSUME NEW id, NEW c \in Callers, ~InTheMiddle(id)', id \notin Midway(call[c]),
           \A d \in Callers \ {c} : call'[d] = call[d]
    PROVE  ~InTheMiddle(id)
  BY DEF InTheMiddle

(***************************************************************************)
(* BranchReturns: what each step keeps.                                    *)
(***************************************************************************)
LEMMA RaiseStartKeeps ==
    ASSUME ReturnInv, ReturnsAssumption, NEW c \in Callers,
           NEW batch \in Batches, NEW want \in [batch -> Qty], RaiseStart(c, batch, want)
    PROVE  ReturnInv'
<1> DEFINE q == [op |-> "raise", todo |-> batch, got |-> {},
                 want |-> [id \in Returns |-> IF id \in batch THEN want[id] ELSE 0]]
<1>1. call[c] = Free /\ call' = [call EXCEPT ![c] = q] /\ batch \subseteq Returns \ ByProduction
  BY DEF RaiseStart, ReturnsAssumption
<1>2. call'[c] = q /\ \A d \in Callers \ {c} : call'[d] = call[d]
  BY <1>1 DEF ReturnInv, ReturnTypeOK
<1>3. q \in Raise BY <1>1 DEF Raise, Qty, ReturnsAssumption
<1>4. ReturnTypeOK'
  <2>1. call' \in [Callers -> {Free} \cup Raise \cup Correction \cup Settling]
        BY <1>1, <1>3 DEF ReturnInv, ReturnTypeOK
  <2> QED BY <2>1 DEF ReturnInv, ReturnTypeOK, RaiseStart
<1>5. RaiseFine(c)' /\ CorrectionFine(c)' /\ SettlingFine(c)'
  BY <1>1, <1>2 DEF RaiseFine, CorrectionFine, SettlingFine, Handing, Raising, Corrects,
                    Settles, RaiseStart
<1>6. ASSUME NEW d \in Callers PROVE Apart(c, d)' /\ OneSettles(c, d)'
  <2>1. OneSettles(c, d)' BY <1>2 DEF OneSettles, Settles
  <2>2. ASSUME c # d, call[d].op = "raise" PROVE batch \cap (call[d].todo \cup call[d].got) = {}
        BY <2>2 DEF RaiseStart
  <2> QED BY <1>2, <2>1, <2>2 DEF Apart, Raising, Handing
<1>7. Midway(call[c]) = {} BY <1>1 DEF Midway, Free
<1> QED BY <1>2, <1>4, <1>5, <1>6, <1>7, Alone DEF RaiseStart

LEMMA RaiseStopsKeeps ==
    ASSUME ReturnInv, NEW c \in Callers, RaiseStops(c) PROVE ReturnInv'
<1>1. call'[c] = Free /\ \A d \in Callers \ {c} : call'[d] = call[d]
  BY DEF RaiseStops, Answer, ReturnInv, ReturnTypeOK
<1>2. Raising(c) /\ Midway(call[c]) = call[c].got /\ call[c].got \subseteq Returns
  <2>1. call[c] \in Raise BY CallKinds DEF RaiseStops, Raising, ReturnInv
  <2> QED BY <2>1 DEF RaiseStops, Raising, Midway, Raise
<1>3. ReturnTypeOK'
  <2>1. call' \in [Callers -> {Free} \cup Raise \cup Correction \cup Settling]
        BY DEF ReturnInv, ReturnTypeOK, RaiseStops, Answer
  <2> QED BY <1>2, <2>1 DEF ReturnInv, ReturnTypeOK, RaiseStops
<1>4. marred' = marred \cup call[c].got BY DEF RaiseStops
<1>5. Midway(call[c]) \subseteq Midway(call'[c]) \cup marred' BY <1>2, <1>4
<1> QED BY <1>1, <1>3, <1>4, <1>5, CallAnswered, Alone DEF RaiseStops

LEMMA MoveRefusedKeeps ==
    ASSUME ReturnInv, NEW c \in Callers, MoveRefused(c) PROVE ReturnInv'
<1>1. call'[c] = Free /\ \A d \in Callers \ {c} : call'[d] = call[d]
  BY DEF MoveRefused, Answer, ReturnInv, ReturnTypeOK
<1>2. Midway(call[c]) = {} BY DEF MoveRefused, Midway
<1>3. ReturnTypeOK'
  <2>1. call' \in [Callers -> {Free} \cup Raise \cup Correction \cup Settling]
        BY DEF ReturnInv, ReturnTypeOK, MoveRefused, Answer
  <2> QED BY <2>1 DEF ReturnInv, ReturnTypeOK, MoveRefused
<1> QED BY <1>1, <1>2, <1>3, CallAnswered, Alone DEF MoveRefused

LEMMA BreakKeeps ==
    ASSUME ReturnInv, ReturnsAssumption, NEW c \in Callers, Break(c) PROVE ReturnInv'
<1>1. call'[c] = Free /\ \A d \in Callers \ {c} : call'[d] = call[d]
  BY DEF Break, Answer, ReturnInv, ReturnTypeOK
<1>2. Midway(call[c]) \subseteq Returns BY Halves DEF ReturnInv
<1>3. ReturnTypeOK'
  <2>1. call' \in [Callers -> {Free} \cup Raise \cup Correction \cup Settling]
        BY DEF ReturnInv, ReturnTypeOK, Break, Answer
  <2>2. breaks' \in 0 .. MaxBreaks BY DEF ReturnInv, ReturnTypeOK, Break, ReturnsAssumption
  <2> QED BY <1>2, <2>1, <2>2 DEF ReturnInv, ReturnTypeOK, Break
<1> QED BY <1>1, <1>2, <1>3, CallAnswered, Alone DEF Break

LEMMA LoadKeeps ==
    ASSUME ReturnInv, ReturnsAssumption, NEW c \in Callers, NEW id \in Returns,
           NEW op \in {"revise", "withdraw", "resubmit"}, NEW want \in 0 .. MaxQty,
           op = "revise" => want \in Qty, Load(c, op, id, want)
    PROVE  ReturnInv'
<1> DEFINE q == [op |-> op, id |-> id, want |-> want, seen |-> rows[id], moved |-> FALSE]
<1>1. call[c] = Free /\ call' = [call EXCEPT ![c] = q] BY DEF Load
<1>2. call'[c] = q /\ \A d \in Callers \ {c} : call'[d] = call[d]
  BY <1>1 DEF ReturnInv, ReturnTypeOK
<1>3. q \in Correction BY DEF Correction, ReturnInv, ReturnTypeOK
<1>4. ReturnTypeOK'
  <2>1. call' \in [Callers -> {Free} \cup Raise \cup Correction \cup Settling]
        BY <1>1, <1>3 DEF ReturnInv, ReturnTypeOK
  <2>2. loads' \in 0 .. MaxLoads BY DEF ReturnInv, ReturnTypeOK, Load, ReturnsAssumption
  <2> QED BY <2>1, <2>2 DEF ReturnInv, ReturnTypeOK, Load
<1>5. RaiseFine(c)' /\ CorrectionFine(c)' /\ SettlingFine(c)'
  <2>1. rows[id].status \in Undecided /\ id \notin ByProduction /\ rows' = rows
        BY DEF Load, Undecided
  <2>2. rows[id] # NoRow BY <2>1 DEF NoRow, Undecided
  <2> QED BY <1>2, <2>1, <2>2 DEF RaiseFine, CorrectionFine, SettlingFine, Raising, Corrects, Settles
<1>6. \A d \in Callers : Apart(c, d)' /\ OneSettles(c, d)'
  BY <1>2 DEF Apart, OneSettles, Raising, Settles
<1>7. Midway(call[c]) = {} BY <1>1 DEF Midway, Free
<1> QED BY <1>2, <1>4, <1>5, <1>6, <1>7, Alone DEF Load

LEMMA RaiseCommitKeeps ==
    ASSUME ReturnInv, ReturnsAssumption, NEW c \in Callers, RaiseCommit(c) PROVE ReturnInv'
<1> DEFINE q == call[c]
<1>1. PICK id \in call[c].todo :
         /\ Holds(id, call[c].want[id]) /\ TakeOff(id, call[c].want[id])
         /\ call' = [call EXCEPT ![c].todo = @ \ {id}, ![c].got = @ \cup {id}]
  BY DEF RaiseCommit
<1>2. ReturnTypeOK /\ Raising(c) /\ q \in Raise /\ RaiseFine(c)
  BY CallKinds DEF ReturnInv, RaiseCommit, Raising
<1>3. /\ id \in Returns \ ByProduction /\ rows[id] = NoRow /\ off[id] = 0
      /\ call[c].want[id] \in Qty /\ id \in Handing(c)
  BY <1>1, <1>2 DEF RaiseFine, Handing, Raise
<1>4. /\ call'[c] = [q EXCEPT !.todo = q.todo \ {id}, !.got = q.got \cup {id}]
      /\ \A d \in Callers \ {c} : call'[d] = call[d]
  BY <1>1, <1>2 DEF ReturnTypeOK
<1>5. /\ call'[c].op = "raise" /\ call'[c].todo = q.todo \ {id}
      /\ call'[c].got = q.got \cup {id} /\ call'[c].want = q.want
      /\ call'[c] \in Raise
  <2>1. /\ q \in [op : {"raise"}, todo : SUBSET Returns, got : SUBSET Returns, want : [Returns -> 0 .. MaxQty]]
        /\ id \in Returns
        BY <1>2, <1>3 DEF Raise
  <2> HIDE DEF q
  <2>2. call'[c] = [op |-> "raise", todo |-> q.todo \ {id}, got |-> q.got \cup {id}, want |-> q.want]
        BY <1>4, <2>1
  <2>3. q.todo \ {id} \in SUBSET Returns /\ q.got \cup {id} \in SUBSET Returns BY <2>1
  <2> QED BY <2>1, <2>2, <2>3 DEF Raise
<1>6. Handing(c)' = Handing(c) BY <1>1, <1>5 DEF Handing
<1>7. /\ off' = [off EXCEPT ![id] = call[c].want[id]]
      /\ stock' = [stock EXCEPT ![Of[id]] = @ - call[c].want[id]]
      /\ call[c].want[id] \in Nat
  <2> DEFINE n == call[c].want[id]
  <2>1. n \in Nat /\ off[id] = 0 /\ off[id] + n = n BY <1>3 DEF Qty
  <2>2. /\ off' = [off EXCEPT ![id] = off[id] + n]
        /\ stock' = [stock EXCEPT ![Of[id]] = @ - n]
        BY <1>1 DEF TakeOff
  <2> HIDE DEF n
  <2>3. off' = [off EXCEPT ![id] = n] BY <2>1, <2>2
  <2> QED BY <2>1, <2>2, <2>3 DEF n
<1>8. ReturnTypeOK'
  <2>1. call' \in [Callers -> {Free} \cup Raise \cup Correction \cup Settling]
        BY <1>1, <1>2, <1>4, <1>5 DEF ReturnTypeOK
  <2>2. off' \in [Returns -> Int] /\ stock' \in [Goods -> Int]
        BY <1>2, <1>3, <1>7 DEF ReturnTypeOK, ReturnsAssumption
  <2> QED BY <1>2, <2>1, <2>2 DEF ReturnTypeOK, RaiseCommit
<1>9. NothingOversold'
  BY <1>1, <1>2, <1>3, <1>7, TakeOffCovered DEF Holds, ReturnInv
<1>10. RaiseFine(c)' /\ CorrectionFine(c)' /\ SettlingFine(c)'
  <2>1. CorrectionFine(c)' /\ SettlingFine(c)'
        BY <1>5 DEF CorrectionFine, SettlingFine, Corrects, Settles
  <2>2. call'[c].todo \cap call'[c].got = {} BY <1>2, <1>5 DEF RaiseFine
  <2>3. ASSUME NEW x \in Handing(c)
        PROVE  /\ x \notin ByProduction /\ rows'[x] = NoRow /\ call'[c].want[x] \in Qty
               /\ off'[x] = IF x \in call'[c].got THEN call'[c].want[x] ELSE 0
    <3>1. /\ x \notin ByProduction /\ rows[x] = NoRow /\ q.want[x] \in Qty
          /\ off[x] = IF x \in q.got THEN q.want[x] ELSE 0
          BY <1>2 DEF RaiseFine
    <3>2. x \in Returns BY <1>2 DEF Handing, Raise
    <3>3. rows' = rows BY DEF RaiseCommit
    <3>4. off'[x] = IF x = id THEN q.want[x] ELSE off[x]
          BY <1>2, <1>3, <1>7, <3>2 DEF ReturnTypeOK
    <3> QED BY <1>5, <3>1, <3>3, <3>4
  <2> QED BY <1>6, <2>1, <2>2, <2>3 DEF RaiseFine
<1>11. ASSUME NEW d \in Callers PROVE Apart(c, d)' /\ OneSettles(c, d)'
  <2>1. OneSettles(c, d)' BY <1>5 DEF OneSettles, Settles
  <2>2. Apart(c, d) BY DEF ReturnInv
  <2>3. Apart(c, d)'
    <3>1. CASE c = d BY <3>1 DEF Apart
    <3>2. CASE c # d
      <4>1. call'[d] = call[d] BY <1>4, <3>2
      <4> QED BY <1>2, <1>6, <2>2, <4>1 DEF Apart, Raising, Handing
    <3> QED BY <3>1, <3>2
  <2> QED BY <2>1, <2>3
<1>12. RowFine(id)'
  <2>1. id \in Midway(call'[c]) BY <1>5 DEF Midway
  <2>2. RowFine(id) /\ InTheMiddle(id)' BY <1>3, <2>1 DEF ReturnInv, InTheMiddle
  <2> QED BY <2>2 DEF RowFine, RaiseCommit
<1> DEFINE C == {c}
           X == {id}
<1>13. C \in SUBSET Callers /\ X \in SUBSET Returns BY <1>3
<1>14. \A x \in Returns \ X : /\ rows'[x] = rows[x] /\ off'[x] = off[x]
                              /\ credited'[x] = credited[x]
                              /\ x \in settled' => x \in settled
  BY <1>2, <1>7 DEF ReturnTypeOK, RaiseCommit
<1>15. \A d \in Callers \ C : Raising(d) => Handing(d) \cap X = {}
  <2>1. SUFFICES ASSUME NEW d \in Callers \ C, Raising(d) PROVE id \notin Handing(d)
        OBVIOUS
  <2>2. Apart(c, d) BY DEF ReturnInv
  <2> QED BY <1>2, <1>3, <2>1, <2>2 DEF Apart
<1>16. \A d \in Callers \ C : Corrects(d) \/ Settles(d) => call[d].id # id
  BY <1>3, Unraised
<1>17. \A d \in C : Midway(call[d]) \subseteq X \cup Midway(call'[d]) \cup marred'
  BY <1>2, <1>5 DEF Midway, Raising
<1>18. \A d \in Callers \ C : call'[d] = call[d] BY <1>4
<1>19. marred \subseteq marred' BY DEF RaiseCommit
<1>20. \A d \in C : RaiseFine(d)' /\ CorrectionFine(d)' /\ SettlingFine(d)' BY <1>10
<1>21. \A d \in C, e \in Callers : Apart(d, e)' /\ OneSettles(d, e)' BY <1>11
<1>22. \A x \in X : RowFine(x)' BY <1>12
<1>23. /\ \A d \in Callers \ C :
             Corrects(d) /\ call[d].id \in X =>
                 rows'[call[d].id] # NoRow /\ (call[d].op = "resubmit" \/ call[d].id \in marred')
       /\ \A d \in Callers \ C :
             Settles(d) /\ call[d].id \in X => rows'[call[d].id] # NoRow /\ call[d].id \in marred'
  BY <1>16
<1> HIDE DEF C, X
<1> QED BY <1>8, <1>9, <1>13, <1>14, <1>15, <1>17, <1>18, <1>19, <1>20, <1>21, <1>22, <1>23, Elsewhere

\* Recording what was committed: the rows come in step with what the branch has given up.
LEMMA RaiseInsertKeeps ==
    ASSUME ReturnInv, ReturnsAssumption, NEW c \in Callers, RaiseInsert(c) PROVE ReturnInv'
<1> DEFINE C == {c}
           X == call[c].got
<1>1. ReturnTypeOK /\ Raising(c) /\ call[c] \in Raise /\ RaiseFine(c)
  BY CallKinds DEF ReturnInv, RaiseInsert, Raising
<1>2. C \in SUBSET Callers /\ X \in SUBSET Returns BY <1>1 DEF Raise
<1>3. call'[c] = Free /\ \A d \in Callers \ C : call'[d] = call[d]
  BY <1>1 DEF RaiseInsert, Answer, ReturnTypeOK
<1>4. /\ \A x \in Returns \ X : rows'[x] = rows[x]
      /\ \A x \in X : rows'[x] = [status |-> "pending", qty |-> call[c].want[x]]
      /\ UNCHANGED <<stock, off, credited, settled, marred>>
  BY <1>2 DEF RaiseInsert
<1>5. \A x \in X : /\ x \notin ByProduction /\ rows[x] = NoRow /\ call[c].want[x] \in Qty
                   /\ off[x] = call[c].want[x] /\ x \in Handing(c)
  BY <1>1 DEF RaiseFine, Handing
<1>6. ReturnTypeOK'
  <2>1. call' \in [Callers -> {Free} \cup Raise \cup Correction \cup Settling]
        BY <1>1 DEF ReturnTypeOK, RaiseInsert, Answer
  <2>2. ASSUME NEW x \in Returns PROVE rows'[x] \in Row
    <3>1. CASE x \in X
      <4>1. rows'[x] = [status |-> "pending", qty |-> call[c].want[x]] BY <1>4, <3>1
      <4>2. call[c].want[x] \in Qty BY <1>5, <3>1
      <4> QED BY <4>1, <4>2 DEF Row, Undecided
    <3>2. CASE x \notin X BY <1>1, <1>4, <3>2 DEF ReturnTypeOK
    <3> QED BY <3>1, <3>2
  <2>3. rows' \in [Returns -> Row] BY <2>2 DEF RaiseInsert
  <2> QED BY <1>1, <2>1, <2>3 DEF ReturnTypeOK, RaiseInsert
<1>7. NothingOversold' BY <1>4, NothingMoved DEF ReturnInv
<1>8. ASSUME NEW x \in X PROVE RowFine(x)'
  <2>1. RowFine(x) /\ x \in Returns BY <1>2 DEF ReturnInv
  <2> DEFINE n == call[c].want[x]
  <2>2. rows'[x].status = "pending" /\ rows'[x].qty = n
    <3>1. rows'[x] = [status |-> "pending", qty |-> n] BY <1>4
    <3> HIDE DEF n
    <3> QED BY <3>1
  <2>3. x \notin marred => x \notin settled /\ credited[x] = 0
        BY <1>5, <2>1 DEF RowFine, NoRow, Decided
  <2>4. Owed(x)' = call[c].want[x] BY <1>5, <2>2 DEF Owed, Undecided
  <2> QED BY <1>4, <1>5, <2>2, <2>3, <2>4 DEF RowFine
<1>9. ASSUME NEW d \in Callers \ C, Raising(d) PROVE Handing(d) \cap X = {}
  <2>1. Apart(c, d) BY DEF ReturnInv
  <2> QED BY <1>1, <1>5, <1>9, <2>1 DEF Apart
<1>10. ASSUME NEW d \in Callers \ C PROVE Corrects(d) \/ Settles(d) => call[d].id \notin X
  BY <1>2, <1>5, Unraised
<1>11. \A d \in C : Midway(call[d]) \subseteq X \cup Midway(call'[d]) \cup marred'
  BY <1>1 DEF Midway, Raising
<1>12. \A id \in Returns \ X : /\ rows'[id] = rows[id] /\ off'[id] = off[id]
                               /\ credited'[id] = credited[id]
                               /\ id \in settled' => id \in settled
  BY <1>4
<1>13. \A d \in C : RaiseFine(d)' /\ CorrectionFine(d)' /\ SettlingFine(d)' BY <1>3, CallAnswered
<1>14. \A d \in C, e \in Callers : Apart(d, e)' /\ OneSettles(d, e)' BY <1>3, CallAnswered
<1>15. /\ \A d \in Callers \ C :
             Corrects(d) /\ call[d].id \in X =>
                 rows'[call[d].id] # NoRow /\ (call[d].op = "resubmit" \/ call[d].id \in marred')
       /\ \A d \in Callers \ C :
             Settles(d) /\ call[d].id \in X => rows'[call[d].id] # NoRow /\ call[d].id \in marred'
  BY <1>10
<1>16. marred \subseteq marred' BY <1>4
<1> HIDE DEF C, X
<1> QED BY <1>2, <1>3, <1>6, <1>7, <1>8, <1>9, <1>11, <1>12, <1>13, <1>14, <1>15, <1>16, Elsewhere

\* A step of no call, on the returns in X, which nobody knows yet.
LEMMA NobodysStep ==
    ASSUME ReturnInv, ReturnTypeOK', UNCHANGED <<call, marred, settled>>, NEW X \in SUBSET Returns,
           \A id \in X : rows[id] = NoRow /\ RowFine(id)' /\ \A d \in Callers : Raising(d) => id \notin Handing(d),
           \A id \in Returns \ X : /\ rows'[id] = rows[id] /\ off'[id] = off[id]
                                   /\ credited'[id] = credited[id],
           NothingOversold'
    PROVE  ReturnInv'
<1> DEFINE C == {}
<1>1. C \in SUBSET Callers /\ marred \subseteq marred' OBVIOUS
<1>2. \A d \in Callers \ C : call'[d] = call[d] OBVIOUS
<1>3. \A id \in Returns \ X : /\ rows'[id] = rows[id] /\ off'[id] = off[id]
                              /\ credited'[id] = credited[id]
                              /\ id \in settled' => id \in settled
  OBVIOUS
<1>4. \A d \in Callers \ C : Raising(d) => Handing(d) \cap X = {} OBVIOUS
<1>5. \A d \in Callers \ C : Corrects(d) \/ Settles(d) => call[d].id \notin X BY Unraised
<1>6. /\ \A c \in C : Midway(call[c]) \subseteq X \cup Midway(call'[c]) \cup marred'
      /\ \A c \in C : RaiseFine(c)' /\ CorrectionFine(c)' /\ SettlingFine(c)'
      /\ \A c \in C, d \in Callers : Apart(c, d)' /\ OneSettles(c, d)'
  OBVIOUS
<1>7. /\ \A d \in Callers \ C :
             Corrects(d) /\ call[d].id \in X =>
                 rows'[call[d].id] # NoRow /\ (call[d].op = "resubmit" \/ call[d].id \in marred')
      /\ \A d \in Callers \ C :
             Settles(d) /\ call[d].id \in X => rows'[call[d].id] # NoRow /\ call[d].id \in marred'
  BY <1>5
<1> HIDE DEF C
<1> QED BY <1>1, <1>2, <1>3, <1>4, <1>6, <1>7, Elsewhere

LEMMA RecordKeeps ==
    ASSUME ReturnInv, ReturnsAssumption, NEW id \in ByProduction, NEW qty \in Qty, Record(id, qty)
    PROVE  ReturnInv'
<1>1. id \in Returns /\ rows[id] = NoRow /\ ReturnTypeOK
  BY DEF ReturnsAssumption, Record, ReturnInv
<1>2. rows'[id] = [status |-> "pending", qty |-> qty] /\ \A x \in Returns \ {id} : rows'[x] = rows[x]
  BY <1>1 DEF Record, ReturnTypeOK
<1>3. ReturnTypeOK'
  <2>1. rows' \in [Returns -> Row] BY <1>1 DEF Record, ReturnTypeOK, Row, Undecided
  <2> QED BY <1>1, <2>1 DEF ReturnTypeOK, Record
<1>4. \A d \in Callers : Raising(d) => id \notin Handing(d) BY DEF ReturnInv, RaiseFine
<1>5. RowFine(id)'
  <2>1. RowFine(id) BY <1>1 DEF ReturnInv
  <2>2. SUFFICES ASSUME id \notin marred PROVE RowFine(id)' BY DEF RowFine, Record
  <2>3. id \notin settled /\ credited[id] = 0 BY <1>1, <2>1, <2>2 DEF RowFine, NoRow, Decided
  <2>4. ~InTheMiddle(id)
    <3>1. ASSUME NEW d \in Callers PROVE id \notin Midway(call[d])
      <4>1. Corrects(d) \/ Settles(d) => call[d].id # id BY <1>1, Unraised
      <4>2. Raising(d) => id \notin call[d].got BY <1>4 DEF Handing
      <4> QED BY <1>1, <4>1, <4>2, Halves
    <3> QED BY <3>1 DEF InTheMiddle
  <2>5. off[id] = 0 BY <1>1, <2>1, <2>2, <2>4 DEF RowFine, Owed, NoRow, Undecided
  <2>6. Owed(id)' = 0 BY <1>2 DEF Owed, Undecided
  <2> QED BY <1>2, <2>3, <2>5, <2>6 DEF RowFine, Record
<1>6. NothingOversold' BY NothingMoved DEF ReturnInv, Record
<1> DEFINE X == {id}
<1>7. X \in SUBSET Returns BY <1>1
<1>8. \A x \in X : rows[x] = NoRow /\ RowFine(x)' /\ \A d \in Callers : Raising(d) => x \notin Handing(d)
  BY <1>1, <1>4, <1>5
<1>9. \A x \in Returns \ X : rows'[x] = rows[x] BY <1>2
<1> HIDE DEF X
<1> QED BY <1>3, <1>6, <1>7, <1>8, <1>9, NobodysStep DEF Record

\* Selling, closing the day and moving return stock on touch no return.
LEMMA AroundKeeps ==
    ASSUME ReturnInv, ReturnTypeOK', UNCHANGED <<rows, off, credited, settled, call, marred>>,
           NothingOversold'
    PROVE  ReturnInv'
<1> DEFINE X == {}
<1>1. X \in SUBSET Returns OBVIOUS
<1>2. \A id \in X : rows[id] = NoRow /\ RowFine(id)' /\ \A d \in Callers : Raising(d) => id \notin Handing(d)
  OBVIOUS
<1> HIDE DEF X
<1> QED BY <1>1, <1>2, NobodysStep

LEMMA SellKeeps ==
    ASSUME ReturnInv, ReturnsAssumption, NEW p \in Goods, Sell(p) PROVE ReturnInv'
<1>1. ReturnTypeOK' BY DEF ReturnInv, ReturnTypeOK, Sell
<1>2. NothingOversold'
  <2>1. off' = off /\ stock' = [stock EXCEPT ![p] = @ - 1] /\ stock \in [Goods -> Int]
        BY DEF Sell, ReturnInv, ReturnTypeOK
  <2>2. SumOver(off, OwnReturns(p)) \in Nat
        BY OwnCounted DEF ReturnInv, ReturnTypeOK, NothingOversold
  <2>3. \A x \in Goods : stock'[x] + SumOver(off, OwnReturns(x)) >= 0
        BY <2>1, <2>2 DEF Sell, ReturnInv, NothingOversold
  <2> QED BY <2>1, <2>3 DEF NothingOversold, ReturnInv
<1> QED BY <1>1, <1>2, AroundKeeps DEF Sell

LEMMA TransferKeeps ==
    ASSUME ReturnInv, NEW t \in Transfers, NEW p \in Goods, NEW qty \in Qty, Transfer(t, p, qty)
    PROVE  ReturnInv'
<1>1. ReturnTypeOK' BY DEF ReturnInv, ReturnTypeOK, Transfer, Enough, Qty
<1> QED BY <1>1, AroundKeeps, NothingMoved DEF Transfer, ReturnInv

LEMMA CloseDayKeeps == ASSUME ReturnInv, CloseDay PROVE ReturnInv'
<1>1. ReturnTypeOK' BY DEF ReturnInv, ReturnTypeOK, CloseDay
<1> QED BY <1>1, AroundKeeps, NothingMoved DEF CloseDay, ReturnInv

\* What a correction relies on while nobody spoils it: the row it read is still open, no
\* decision holds its units, and the branch is out what the row says.
LEMMA Unspoilt ==
    ASSUME ReturnInv, ReturnsAssumption, NEW c \in Callers, Corrects(c), call[c].op # "resubmit",
           call[c].id \notin marred
    PROVE  LET id == call[c].id IN
           /\ rows[id] = call[c].seen /\ rows[id].status \in Undecided
           /\ rows[id] # NoRow /\ rows[id].qty \in Qty
           /\ id \notin settled /\ credited[id] = 0
           /\ (\A d \in Callers \ {c} : ~Correcting(d, id)) /\ ~call[c].moved => off[id] = rows[id].qty
           /\ call[c].moved => off[id] = Target(call[c])
<1>0. PICK id \in Returns : id = call[c].id BY CallKinds DEF ReturnInv, Correction
<1>1. ReturnTypeOK /\ CorrectionFine(c) /\ RowFine(id) /\ id \notin marred
  BY <1>0 DEF ReturnInv
<1>2. /\ rows[id] = call[c].seen /\ rows[id].status \in Undecided /\ id \notin ByProduction
      /\ call[c].moved => off[id] = Target(call[c])
  BY <1>1, <1>0 DEF CorrectionFine
<1>3. rows[id] # NoRow /\ rows[id].qty \in Qty
  BY <1>1, <1>2 DEF ReturnTypeOK, Row, NoRow, Undecided
<1>4. id \notin settled /\ credited[id] = 0
  BY <1>1, <1>2 DEF RowFine, Undecided, Decided
<1>5. ASSUME \A d \in Callers \ {c} : ~Correcting(d, id), ~call[c].moved
      PROVE  off[id] = rows[id].qty
  <2>1. Midway(call[c]) = {} BY <1>5 DEF Midway, Corrects
  <2> DEFINE C == {c}
  <2>2. C \in SUBSET Callers /\ (\A d \in C : id \notin Midway(call[d])) BY <2>1
  <2>3. \A d \in Callers \ C : ~Correcting(d, id) BY <1>5
  <2> HIDE DEF C
  <2> QED BY <1>1, <1>2, <2>2, <2>3, OpenAgrees
<1> QED BY <1>0, <1>2, <1>3, <1>4, <1>5

LEMMA MoveKeeps ==
    ASSUME ReturnInv, ReturnsAssumption, NEW c \in Callers, Move(c) PROVE ReturnInv'
<1>0. PICK id \in Returns : id = call[c].id
  BY CallKinds DEF ReturnInv, Move, Corrects, Correction
<1> DEFINE q == call[c]
           n == Difference(q)
<1>1. /\ ReturnTypeOK /\ Corrects(c) /\ q \in Correction /\ CorrectionFine(c)
      /\ q.op \in {"revise", "withdraw"} /\ ~q.moved
  BY CallKinds DEF ReturnInv, Move, Corrects
<1>2. /\ id \in Returns \ ByProduction /\ rows[id] # NoRow /\ q.seen.qty \in 0 .. MaxQty
      /\ q.want \in 0 .. MaxQty /\ n \in Int
  <2>1. id \in Returns \ ByProduction /\ rows[id] # NoRow BY <1>0, <1>1 DEF CorrectionFine
  <2>2. q.seen \in Row /\ q.want \in 0 .. MaxQty BY <1>1 DEF Correction
  <2>3. q.seen.qty \in 0 .. MaxQty BY <2>2 DEF Row, NoRow, Qty, ReturnsAssumption
  <2>4. n \in Int BY <2>2, <2>3 DEF Difference
  <2> QED BY <2>1, <2>2, <2>3, <2>4
<1>3. /\ n > 0 => n <= stock[Of[id]]
      /\ TakeOff(id, n) /\ Mar(c, id)
      /\ call' = [call EXCEPT ![c].moved = TRUE]
      /\ UNCHANGED <<rows, credited, returnStock, transferred, settled, closed, loads, breaks>>
  BY <1>0 DEF Move, Holds
<1>4. /\ call'[c] = [q EXCEPT !.moved = TRUE]
      /\ \A d \in Callers \ {c} : call'[d] = call[d]
  BY <1>1, <1>3 DEF ReturnTypeOK
<1>5. /\ call'[c].op = q.op /\ call'[c].id = id /\ call'[c].want = q.want /\ call'[c].seen = q.seen
      /\ call'[c].moved = TRUE /\ call'[c] \in Correction
  <2>1. q \in [op : {"revise", "withdraw", "resubmit"}, id : Returns, want : 0 .. MaxQty,
               seen : Row, moved : BOOLEAN]
        BY <1>1 DEF Correction
  <2> HIDE DEF q
  <2> QED BY <1>0, <1>4, <2>1 DEF Correction, q
<1>6. /\ marred \subseteq marred' /\ marred' \subseteq Returns
      /\ (\E d \in Callers \ {c} : Correcting(d, id)) => id \in marred'
      /\ id \notin marred' => id \notin marred /\ \A d \in Callers \ {c} : ~Correcting(d, id)
  <2> QED BY <1>1, <1>2, <1>3, MarMarks
<1>7. ReturnTypeOK'
  <2>1. call' \in [Callers -> {Free} \cup Raise \cup Correction \cup Settling]
        BY <1>1, <1>3, <1>4, <1>5 DEF ReturnTypeOK
  <2>2. off' \in [Returns -> Int] /\ stock' \in [Goods -> Int]
    <3> HIDE DEF n
    <3> QED BY <1>1, <1>2, <1>3 DEF ReturnTypeOK, TakeOff, ReturnsAssumption
  <2> QED BY <1>1, <1>3, <1>6, <2>1, <2>2 DEF ReturnTypeOK
<1>8. NothingOversold'
  <2>1. NothingOversold BY DEF ReturnInv
  <2>2. n <= 0 \/ n <= stock[Of[id]] BY <1>2, <1>3
  <2> HIDE DEF n
  <2> QED BY <1>1, <1>2, <1>3, <2>1, <2>2, TakeOffCovered
<1>9. RaiseFine(c)' /\ SettlingFine(c)' /\ \A d \in Callers : Apart(c, d)' /\ OneSettles(c, d)'
  BY <1>1, <1>5 DEF RaiseFine, SettlingFine, Apart, OneSettles, Raising, Settles
<1>10. /\ off'[id] = off[id] + n
       /\ \A x \in Returns \ {id} : off'[x] = off[x]
  <2> HIDE DEF n
  <2> QED BY <1>1, <1>2, <1>3 DEF TakeOff, ReturnTypeOK
<1>11. CorrectionFine(c)'
  <2>1. rows' = rows BY <1>3
  <2>2. ASSUME id \notin marred' PROVE rows[id] = q.seen /\ off'[id] = Target(q)
    <3>1. rows[id] = q.seen /\ off[id] = q.seen.qty
          BY <1>0, <1>1, <1>6, <2>2, Unspoilt
    <3>2. n = Target(q) - q.seen.qty /\ Target(q) \in Int BY <1>2 DEF Difference, Target
    <3> HIDE DEF n
    <3> QED BY <1>2, <1>10, <3>1, <3>2
  <2>3. Target(call'[c]) = Target(q) BY <1>5 DEF Target
  <2> HIDE DEF n
  <2> QED BY <1>1, <1>2, <1>5, <2>1, <2>2, <2>3 DEF CorrectionFine
<1>12. RowFine(id)'
  <2>1. id \in Midway(call'[c]) BY <1>1, <1>5 DEF Midway
  <2>2. InTheMiddle(id)' BY <2>1 DEF InTheMiddle
  <2>3. RowFine(id) BY <1>2 DEF ReturnInv
  <2> QED BY <1>3, <1>6, <2>2, <2>3 DEF RowFine
<1>13. \A d \in Callers \ {c} : Settles(d) /\ call[d].id = id => id \in marred'
  <2>1. SUFFICES ASSUME NEW d \in Callers, Settles(d), call[d].id = id, id \notin marred PROVE FALSE
        BY <1>6
  <2>2. rows[id].status \in Undecided BY <1>0, <1>1, <2>1, Unspoilt
  <2> QED BY <1>2, <2>1, <2>2, NotSettling
<1>14. Midway(call[c]) = {} BY <1>1 DEF Midway
<1> HIDE DEF n, q
<1> QED BY <1>2, <1>3, <1>4, <1>6, <1>7, <1>8, <1>9, <1>10, <1>11, <1>12, <1>13, <1>14, AtWork

LEMMA WriteKeeps ==
    ASSUME ReturnInv, ReturnsAssumption, NEW c \in Callers, Write(c) PROVE ReturnInv'
<1>0. PICK id \in Returns : id = call[c].id
  BY CallKinds DEF ReturnInv, Write, Corrects, Correction
<1> DEFINE q == call[c]
           new == IF rows[id].status = "deleted" THEN rows[id]
                  ELSE IF q.op = "withdraw" THEN [rows[id] EXCEPT !.status = "deleted"]
                  ELSE [status |-> IF q.seen.status = "returned" THEN "pending" ELSE rows[id].status,
                        qty |-> q.want]
<1>1. /\ ReturnTypeOK /\ Corrects(c) /\ q \in Correction /\ CorrectionFine(c) /\ RowFine(id)
      /\ q.op \in {"revise", "withdraw"} /\ q.moved
  BY <1>0, CallKinds DEF ReturnInv, Write, Corrects
<1>2. /\ rows[id] # NoRow /\ id \notin ByProduction
      /\ q.op = "revise" => q.want \in Qty
  BY <1>0, <1>1 DEF CorrectionFine
<1>3. /\ rows' = [rows EXCEPT ![id] = new] /\ Mar(c, id)
      /\ UNCHANGED <<stock, off, credited, returnStock, transferred, settled, closed, loads, breaks>>
  BY <1>0 DEF Write
<1>4. call'[c] = Free /\ \A d \in Callers \ {c} : call'[d] = call[d]
  BY <1>1 DEF Write, Answer, ReturnTypeOK
<1>5. /\ marred \subseteq marred' /\ marred' \subseteq Returns
      /\ (\E d \in Callers \ {c} : Correcting(d, id)) => id \in marred'
      /\ id \notin marred' => id \notin marred /\ \A d \in Callers \ {c} : ~Correcting(d, id)
  BY <1>1, <1>3, MarMarks
<1>6. rows[id] \in [status : Undecided \cup Decided \cup {"deleted"}, qty : Qty]
  BY <1>1, <1>2 DEF ReturnTypeOK, Row
<1>7. new \in Row /\ new.status # "none"
  <2>1. CASE rows[id].status = "deleted" BY <1>6, <2>1 DEF Row
  <2>2. CASE rows[id].status # "deleted" /\ q.op = "withdraw"
    <3>1. new = [status |-> "deleted", qty |-> rows[id].qty] BY <1>6, <2>2
    <3> QED BY <1>6, <3>1 DEF Row
  <2>3. CASE rows[id].status # "deleted" /\ q.op = "revise"
    <3>1. q.want \in Qty BY <1>2, <2>3
    <3>2. new = [status |-> IF q.seen.status = "returned" THEN "pending" ELSE rows[id].status,
                 qty |-> q.want]
          BY <2>3
    <3> HIDE DEF q
    <3> QED BY <1>6, <3>1, <3>2 DEF Row, Undecided, Decided
  <2> QED BY <1>1, <2>1, <2>2, <2>3
<1>8. /\ rows'[id] = new /\ \A x \in Returns \ {id} : rows'[x] = rows[x]
      /\ rows' \in [Returns -> Row]
  <2> HIDE DEF new
  <2> QED BY <1>1, <1>3, <1>7 DEF ReturnTypeOK
<1>9. ReturnTypeOK'
  <2>1. call' \in [Callers -> {Free} \cup Raise \cup Correction \cup Settling]
        BY <1>1 DEF ReturnTypeOK, Write, Answer
  <2> QED BY <1>1, <1>3, <1>5, <1>8, <2>1 DEF ReturnTypeOK
<1>10. NothingOversold' BY <1>3, NothingMoved DEF ReturnInv
<1>11. RowFine(id)'
  <2>1. SUFFICES ASSUME id \notin marred' PROVE RowFine(id)' BY DEF RowFine
  <2>2. /\ rows[id] = q.seen /\ rows[id].status \in Undecided
        /\ id \notin settled /\ credited[id] = 0 /\ off[id] = Target(q)
        BY <1>0, <1>1, <1>5, <2>1, Unspoilt
  <2>3. CASE q.op = "withdraw"
    <3>1. rows'[id] = [status |-> "deleted", qty |-> rows[id].qty]
          BY <1>6, <1>8, <2>2, <2>3 DEF Undecided
    <3>2. rows'[id].status = "deleted" BY <3>1
    <3>3. Owed(id)' = 0 /\ off[id] = 0 BY <2>2, <2>3, <3>2 DEF Owed, Undecided, Target
    <3> QED BY <1>3, <2>2, <3>2, <3>3 DEF RowFine
  <2>4. CASE q.op = "revise"
    <3> DEFINE s == IF q.seen.status = "returned" THEN "pending" ELSE rows[id].status
               w == q.want
    <3>1. rows'[id] = [status |-> s, qty |-> w] BY <1>8, <2>2, <2>4 DEF Undecided
    <3>2. s = "pending" /\ off[id] = w BY <2>2, <2>4 DEF Undecided, Target
    <3>3. rows'[id].status = "pending" /\ rows'[id].qty = w
      <4> HIDE DEF s, w
      <4> QED BY <3>1, <3>2
    <3>4. Owed(id)' = w BY <1>2, <3>3 DEF Owed, Undecided
    <3> HIDE DEF w
    <3> QED BY <1>3, <2>2, <3>2, <3>3, <3>4 DEF RowFine
  <2> QED BY <1>1, <2>3, <2>4
<1>12. \A d \in Callers \ {c} : Settles(d) /\ call[d].id = id => id \in marred'
  <2>1. SUFFICES ASSUME NEW d \in Callers, Settles(d), call[d].id = id, id \notin marred PROVE FALSE
        BY <1>5
  <2>2. rows[id].status \in Undecided BY <1>0, <1>1, <2>1, Unspoilt
  <2> QED BY <2>1, <2>2, NotSettling
<1>13. Midway(call[c]) \subseteq {id} BY <1>0, <1>1 DEF Midway
<1>14. rows'[id] # NoRow BY <1>7, <1>8 DEF NoRow
<1> HIDE DEF q, new
<1> QED BY <1>2, <1>3, <1>4, <1>5, <1>8, <1>9, <1>10, <1>11, <1>12, <1>13, <1>14, CallAnswered, AtWork

LEMMA ResubmitKeeps ==
    ASSUME ReturnInv, ReturnsAssumption, NEW c \in Callers, Resubmit(c) PROVE ReturnInv'
<1>0. PICK id \in Returns : id = call[c].id
  BY CallKinds DEF ReturnInv, Resubmit, Corrects, Correction
<1>1. ReturnTypeOK /\ Corrects(c) /\ call[c].op = "resubmit" /\ Midway(call[c]) = {}
  BY DEF ReturnInv, Resubmit, Corrects, Midway
<1>2. call'[c] = Free /\ \A d \in Callers \ {c} : call'[d] = call[d]
  BY <1>1 DEF Resubmit, Answer, ReturnTypeOK
<1>3. call' \in [Callers -> {Free} \cup Raise \cup Correction \cup Settling]
  BY <1>1 DEF Resubmit, Answer, ReturnTypeOK
<1>4. CASE ~StillReturned(id)
  <2>1. ReturnTypeOK' /\ UNCHANGED <<stock, rows, off, credited, settled, marred>>
        BY <1>0, <1>1, <1>3, <1>4 DEF ReturnTypeOK, Resubmit
  <2> QED BY <1>1, <1>2, <2>1, CallAnswered, Alone
<1>5. CASE StillReturned(id)
  <2>1. /\ rows' = [rows EXCEPT ![id].status = "pending"] /\ Mar(c, id)
        /\ UNCHANGED <<stock, off, credited, returnStock, transferred, settled, closed, loads, breaks>>
        BY <1>0, <1>5 DEF Resubmit
  <2>2. rows[id].status = "returned" /\ rows[id] # NoRow BY <1>5 DEF StillReturned, NoRow
  <2>3. rows[id] \in [status : Undecided \cup Decided \cup {"deleted"}, qty : Qty]
        BY <1>1, <2>2 DEF ReturnTypeOK, Row
  <2>4. /\ rows'[id] = [status |-> "pending", qty |-> rows[id].qty]
        /\ \A x \in Returns \ {id} : rows'[x] = rows[x]
        BY <1>1, <2>1, <2>3 DEF ReturnTypeOK
  <2>5. /\ marred \subseteq marred' /\ marred' \subseteq Returns
        /\ (\E d \in Callers \ {c} : Correcting(d, id)) => id \in marred'
        /\ id \notin marred' => id \notin marred /\ \A d \in Callers \ {c} : ~Correcting(d, id)
        BY <1>1, <2>1, MarMarks
  <2>6. ReturnTypeOK'
    <3>1. rows'[id] \in Row BY <2>3, <2>4 DEF Row, Undecided
    <3>2. rows' \in [Returns -> Row] BY <1>1, <2>1, <2>4, <3>1 DEF ReturnTypeOK
    <3> QED BY <1>1, <1>3, <2>1, <2>5, <3>2 DEF ReturnTypeOK
  <2>7. RowFine(id)'
    <3>1. SUFFICES ASSUME id \notin marred', ~InTheMiddle(id)' PROVE RowFine(id)'
      <4>1. ASSUME InTheMiddle(id)', id \notin marred' PROVE RowFine(id)'
        <5>1. RowFine(id) /\ id \notin marred BY <2>5, <4>1 DEF ReturnInv
        <5> QED BY <2>1, <2>2, <2>4, <4>1, <5>1 DEF RowFine, Decided
      <4> QED BY <4>1 DEF RowFine
    <3>2. RowFine(id) /\ id \notin marred /\ ~InTheMiddle(id)
          BY <1>1, <1>2, <2>5, <3>1, MovedStays DEF ReturnInv
    <3>3. Owed(id)' = Owed(id) BY <2>2, <2>4 DEF Owed, Undecided
    <3> QED BY <2>1, <2>2, <2>4, <3>2, <3>3 DEF RowFine, Decided
  <2>8. \A d \in Callers \ {c} : Settles(d) /\ call[d].id = id => id \in marred'
        BY <2>2, <2>5, NotSettling DEF Undecided
  <2>9. NothingOversold' BY <2>1, NothingMoved DEF ReturnInv
  <2>10. rows'[id] # NoRow BY <2>4 DEF NoRow
  <2> QED BY <1>1, <1>2, <2>1, <2>2, <2>4, <2>5, <2>6, <2>7, <2>8, <2>9, <2>10, CallAnswered, AtWork
<1> QED BY <1>4, <1>5

\* What a decision finds and what it writes: the row was open, and what the branch is out
\* agreed with it, unless somebody has the return in hand.
Decision(c, id, status) ==
    /\ call[c] = Free /\ Midway(call[c]) = {} /\ rows[id] # NoRow /\ rows[id].qty \in Qty
    /\ rows'[id].status = status /\ rows'[id].qty = rows[id].qty /\ rows'[id] # NoRow
    /\ \A x \in Returns \ {id} : rows'[x] = rows[x]
    /\ rows' \in [Returns -> Row]
    /\ marred \subseteq marred' /\ marred' \subseteq Returns
    /\ (\E d \in Callers \ {c} : Correcting(d, id)) => id \in marred'
    /\ \A d \in Callers \ {c} : Settles(d) /\ call[d].id = id => id \in marred'
    /\ UNCHANGED <<stock, off, transferred, settled, closed, loads, breaks>>
    /\ NothingOversold'
    /\ id \notin marred' =>
         /\ id \notin settled /\ credited[id] = 0
         /\ off[id] = IF id \in ByProduction THEN 0 ELSE rows[id].qty

LEMMA Reviewed ==
    ASSUME ReturnInv, ReturnsAssumption, NEW c \in Callers, NEW id \in Returns,
           NEW status \in {"accepted", "rejected", "returned"}, Review(c, id, status)
    PROVE  Decision(c, id, status)
<1>1. ReturnTypeOK /\ call[c] = Free /\ Midway(call[c]) = {} /\ rows[id].status = "pending"
  BY DEF ReturnInv, Review, Midway, Free
<1>2. rows[id] # NoRow /\ rows[id] \in [status : Undecided \cup Decided \cup {"deleted"}, qty : Qty]
  BY <1>1 DEF ReturnTypeOK, Row, NoRow
<1>3. rows'[id] = [status |-> status, qty |-> rows[id].qty] /\ \A x \in Returns \ {id} : rows'[x] = rows[x]
  BY <1>1, <1>2 DEF ReturnTypeOK, Review
<1>4. rows'[id] # NoRow /\ rows'[id] \in Row BY <1>2, <1>3 DEF NoRow, Row, Undecided, Decided
<1>5. rows' \in [Returns -> Row] BY <1>1, <1>3, <1>4 DEF Review, ReturnTypeOK
<1>6. /\ marred \subseteq marred' /\ marred' \subseteq Returns
      /\ (\E d \in Callers \ {c} : Correcting(d, id)) => id \in marred'
      /\ id \notin marred' => id \notin marred /\ \A d \in Callers \ {c} : ~Correcting(d, id)
  BY <1>1, MarMarks DEF Review
<1>7. \A d \in Callers \ {c} : Settles(d) /\ call[d].id = id => id \in marred'
  BY <1>1, <1>6, NotSettling DEF Undecided
<1>8. ASSUME id \notin marred'
      PROVE  /\ id \notin settled /\ credited[id] = 0
             /\ off[id] = IF id \in ByProduction THEN 0 ELSE rows[id].qty
  <2> DEFINE C == {c}
  <2>1. C \in SUBSET Callers /\ (\A d \in C : id \notin Midway(call[d])) BY <1>1
  <2>2. \A d \in Callers \ C : ~Correcting(d, id) BY <1>6, <1>8
  <2>3. rows[id].status \in Undecided /\ id \notin marred BY <1>1, <1>6, <1>8 DEF Undecided
  <2> HIDE DEF C
  <2> QED BY <2>1, <2>2, <2>3, OpenAgrees
<1>9. NothingOversold' BY NothingMoved DEF ReturnInv, Review
<1> QED BY <1>1, <1>2, <1>3, <1>4, <1>5, <1>6, <1>7, <1>8, <1>9 DEF Review, Decision

\* The decision's own units are to follow.
LEMMA ThenSettles ==
    ASSUME ReturnInv, ReturnsAssumption, NEW c \in Callers, NEW id \in Returns,
           NEW status \in {"accepted", "rejected"}, Review(c, id, status),
           NEW op \in {"debit", "refund"}, Then(c, op, id),
           op = "debit" <=> id \in ByProduction, op = "debit" <=> status = "accepted"
    PROVE  /\ \A d \in Callers \ {c} : call'[d] = call[d]
           /\ call' \in [Callers -> {Free} \cup Raise \cup Correction \cup Settling]
           /\ RaiseFine(c)' /\ CorrectionFine(c)' /\ SettlingFine(c)'
           /\ \A d \in Callers : Apart(c, d)' /\ OneSettles(c, d)'
           /\ InTheMiddle(id)'
<1> USE DEF Decision
<1> DEFINE q == [op |-> op, id |-> id, want |-> rows[id].qty]
<1>1. call' = [call EXCEPT ![c] = q] /\ ReturnTypeOK BY DEF Then, ReturnInv
<1>2. call'[c] = q /\ \A d \in Callers \ {c} : call'[d] = call[d] BY <1>1 DEF ReturnTypeOK
<1>3. q \in Settling BY Reviewed DEF Settling
<1>4. call' \in [Callers -> {Free} \cup Raise \cup Correction \cup Settling]
  BY <1>1, <1>3 DEF ReturnTypeOK
<1>5. /\ call'[c].op = op /\ call'[c].id = id /\ call'[c].want = rows[id].qty
  BY <1>2
<1>6. RaiseFine(c)' /\ CorrectionFine(c)' BY <1>5 DEF RaiseFine, CorrectionFine, Raising, Corrects
<1>7. SettlingFine(c)'
  <2>1. /\ rows'[id].status = status /\ rows'[id].qty = rows[id].qty /\ rows'[id] # NoRow
        /\ UNCHANGED <<off, settled>>
        /\ id \notin marred' =>
             /\ id \notin settled
             /\ off[id] = IF id \in ByProduction THEN 0 ELSE rows[id].qty
        BY Reviewed
  <2> QED BY <1>5, <2>1 DEF SettlingFine
<1>8. ASSUME NEW d \in Callers PROVE Apart(c, d)' /\ OneSettles(c, d)'
  <2>1. Apart(c, d)' BY <1>5 DEF Apart, Raising
  <2>2. c # d => (Settles(d)' => Settles(d)) /\ call'[d] = call[d] BY <1>2 DEF Settles
  <2>3. c # d /\ Settles(d) /\ call[d].id = id => id \in marred' BY Reviewed
  <2> QED BY <1>5, <2>1, <2>2, <2>3 DEF OneSettles
<1>9. InTheMiddle(id)'
  <2>1. id \in Midway(call'[c]) BY <1>5 DEF Midway
  <2> QED BY <2>1 DEF InTheMiddle
<1> QED BY <1>2, <1>4, <1>6, <1>7, <1>8, <1>9

LEMMA AcceptKeeps ==
    ASSUME ReturnInv, ReturnsAssumption, NEW c \in Callers, NEW id \in Returns, Accept(c, id)
    PROVE  ReturnInv'
<1> DEFINE n == Credit(id)
<1>1. Review(c, id, "accepted") /\ ReturnTypeOK BY DEF Accept, ReturnInv
<1>2. /\ credited' = [credited EXCEPT ![id] = @ + n]
      /\ returnStock' = [returnStock EXCEPT ![Of[id]] = @ + n]
  BY DEF Accept
<1>3. Decision(c, id, "accepted") BY <1>1, Reviewed
<1> USE DEF Decision
<1>4. n \in Nat /\ (credited[id] = 0 => n = rows[id].qty) BY <1>3 DEF Credit, Qty
<1>5. /\ credited'[id] = credited[id] + n /\ \A x \in Returns \ {id} : credited'[x] = credited[x]
      /\ credited' \in [Returns -> Nat] /\ returnStock' \in [Goods -> Nat]
  <2> HIDE DEF n
  <2> QED BY <1>1, <1>2, <1>4 DEF ReturnTypeOK, ReturnsAssumption
<1>6. /\ \A d \in Callers \ {c} : call'[d] = call[d]
      /\ call' \in [Callers -> {Free} \cup Raise \cup Correction \cup Settling]
      /\ RaiseFine(c)' /\ CorrectionFine(c)' /\ SettlingFine(c)'
      /\ \A d \in Callers : Apart(c, d)' /\ OneSettles(c, d)'
      /\ id \in ByProduction => InTheMiddle(id)'
  <2>1. CASE id \in ByProduction
    <3>1. Then(c, "debit", id) BY <2>1 DEF Accept
    <3> QED BY <1>1, <2>1, <3>1, ThenSettles
  <2>2. CASE id \notin ByProduction
    <3>1. call' = call BY <2>2 DEF Accept
    <3> QED BY <1>1, <1>3, <2>2, <3>1, CallAnswered DEF ReturnTypeOK
  <2> QED BY <2>1, <2>2
<1>7. RowFine(id)'
  <2>1. SUFFICES ASSUME id \notin marred' PROVE RowFine(id)' BY DEF RowFine
  <2>2. credited'[id] = rows'[id].qty
    <3> HIDE DEF n
    <3> QED BY <1>3, <1>4, <1>5, <2>1 DEF Qty
  <2>3. id \notin ByProduction => off'[id] = Owed(id)' BY <1>3, <2>1 DEF Owed, Undecided
  <2> QED BY <1>3, <1>6, <2>1, <2>2, <2>3 DEF RowFine
<1>8. ReturnTypeOK' BY <1>1, <1>3, <1>5, <1>6 DEF ReturnTypeOK
<1> HIDE DEF n
<1> QED BY <1>3, <1>5, <1>6, <1>7, <1>8, AtWork

LEMMA RejectKeeps ==
    ASSUME ReturnInv, ReturnsAssumption, NEW c \in Callers, NEW id \in Returns, Reject(c, id)
    PROVE  ReturnInv'
<1>1. Review(c, id, "rejected") /\ ReturnTypeOK /\ UNCHANGED <<credited, returnStock>>
  BY DEF Reject, ReturnInv
<1>2. Decision(c, id, "rejected") BY <1>1, Reviewed
<1> USE DEF Decision
<1>3. /\ \A d \in Callers \ {c} : call'[d] = call[d]
      /\ call' \in [Callers -> {Free} \cup Raise \cup Correction \cup Settling]
      /\ RaiseFine(c)' /\ CorrectionFine(c)' /\ SettlingFine(c)'
      /\ \A d \in Callers : Apart(c, d)' /\ OneSettles(c, d)'
      /\ id \notin ByProduction => InTheMiddle(id)'
  <2>1. CASE id \notin ByProduction
    <3>1. Then(c, "refund", id) BY <2>1 DEF Reject
    <3> QED BY <1>1, <2>1, <3>1, ThenSettles
  <2>2. CASE id \in ByProduction
    <3>1. call' = call BY <2>2 DEF Reject
    <3> QED BY <1>1, <1>2, <2>2, <3>1, CallAnswered DEF ReturnTypeOK
  <2> QED BY <2>1, <2>2
<1>4. RowFine(id)'
  <2>1. id \in ByProduction /\ id \notin marred' => off'[id] = Owed(id)' BY <1>2 DEF Owed, Undecided
  <2> QED BY <1>1, <1>2, <1>3, <2>1 DEF RowFine
<1>5. ReturnTypeOK' BY <1>1, <1>2, <1>3 DEF ReturnTypeOK
<1> QED BY <1>1, <1>2, <1>3, <1>4, <1>5, AtWork

LEMMA SendBackKeeps ==
    ASSUME ReturnInv, ReturnsAssumption, NEW c \in Callers, NEW id \in Returns, SendBack(c, id)
    PROVE  ReturnInv'
<1>1. /\ Review(c, id, "returned") /\ ReturnTypeOK /\ id \notin ByProduction
      /\ UNCHANGED <<credited, returnStock, call>>
  BY DEF SendBack, ReturnInv
<1>2. Decision(c, id, "returned") BY <1>1, Reviewed
<1> USE DEF Decision
<1>3. RowFine(id)'
  <2>1. id \notin marred' => off'[id] = Owed(id)' BY <1>1, <1>2 DEF Owed, Undecided
  <2> QED BY <1>1, <1>2, <2>1 DEF RowFine
<1>4. ReturnTypeOK' BY <1>1, <1>2 DEF ReturnTypeOK
<1> QED BY <1>1, <1>2, <1>3, <1>4, CallAnswered, AtWork

LEMMA SettleKeeps ==
    ASSUME ReturnInv, ReturnsAssumption, NEW c \in Callers, Settle(c) PROVE ReturnInv'
<1>0. PICK id \in Returns : id = call[c].id
  BY CallKinds DEF ReturnInv, Settle, Settles, Settling
<1> DEFINE q == call[c]
           n == IF q.op = "debit" THEN q.want ELSE - q.want
<1>1. /\ ReturnTypeOK /\ Settles(c) /\ q \in Settling /\ SettlingFine(c) /\ RowFine(id)
      /\ q.op \in {"debit", "refund"}
  BY <1>0, CallKinds DEF ReturnInv, Settle, Settles
<1>2. /\ q.want \in Nat /\ n \in Int /\ rows[id] # NoRow
      /\ q.op = "debit" <=> id \in ByProduction
  BY <1>0, <1>1 DEF Settling, Qty, SettlingFine
<1>3. /\ id \in settled => UNCHANGED <<stock, off>>
      /\ id \notin settled => TakeOff(id, n)
      /\ settled' = settled \cup {id} /\ Mar(c, id)
      /\ UNCHANGED <<rows, credited, returnStock, transferred, closed, loads, breaks>>
  BY <1>0 DEF Settle
<1>4. call'[c] = Free /\ \A d \in Callers \ {c} : call'[d] = call[d]
  BY <1>1 DEF Settle, Answer, ReturnTypeOK
<1>5. /\ marred \subseteq marred' /\ marred' \subseteq Returns
      /\ (\E d \in Callers \ {c} : Correcting(d, id)) => id \in marred'
      /\ id \notin marred' => id \notin marred
  BY <1>1, <1>3, MarMarks
<1>6. /\ \A x \in Returns \ {id} : off'[x] = off[x]
      /\ id \notin settled => off'[id] = off[id] + n
      /\ off' \in [Returns -> Int] /\ stock' \in [Goods -> Int]
  <2> HIDE DEF n
  <2> QED BY <1>1, <1>2, <1>3 DEF TakeOff, ReturnTypeOK, ReturnsAssumption
<1>7. ReturnTypeOK'
  <2>1. call' \in [Callers -> {Free} \cup Raise \cup Correction \cup Settling]
        BY <1>1 DEF ReturnTypeOK, Settle, Answer
  <2> QED BY <1>1, <1>3, <1>5, <1>6, <2>1 DEF ReturnTypeOK
<1>8. NothingOversold'
  <2>1. NothingOversold BY DEF ReturnInv
  <2>2. CASE id \in settled BY <1>3, <2>1, <2>2, NothingMoved
  <2>3. CASE id \notin settled
    <3>1. \/ id \in ByProduction /\ n \in Nat
          \/ id \notin ByProduction /\ (n <= 0 \/ n <= stock[Of[id]])
          BY <1>1, <1>2
    <3> HIDE DEF n
    <3> QED BY <1>1, <1>2, <1>3, <2>1, <2>3, <3>1, TakeOffCovered
  <2> QED BY <2>2, <2>3
<1>9. RowFine(id)'
  <2>1. SUFFICES ASSUME id \notin marred' PROVE RowFine(id)' BY DEF RowFine
  <2>2. /\ id \notin settled
        /\ rows[id].status = IF q.op = "debit" THEN "accepted" ELSE "rejected"
        /\ rows[id].qty = q.want
        /\ off[id] = IF q.op = "debit" THEN 0 ELSE q.want
        BY <1>0, <1>1, <1>5, <2>1 DEF SettlingFine
  <2>3. off'[id] = IF q.op = "debit" THEN q.want ELSE 0 BY <1>2, <1>6, <2>2
  <2>4. Owed(id)' = IF q.op = "debit" THEN q.want ELSE 0
        BY <1>1, <1>3, <2>2 DEF Owed, Undecided
  <2>5. credited[id] = IF rows[id].status = "accepted" THEN rows[id].qty ELSE 0
        BY <1>1, <1>5, <2>1 DEF RowFine
  <2> HIDE DEF n, q
  <2> QED BY <1>3, <2>2, <2>3, <2>4, <2>5 DEF RowFine, Decided
<1>10. \A d \in Callers \ {c} : Settles(d) /\ call[d].id = id => id \in marred'
  <2>1. SUFFICES ASSUME NEW d \in Callers \ {c}, Settles(d), call[d].id = id, id \notin marred PROVE FALSE
        BY <1>5
  <2>2. OneSettles(c, d) BY DEF ReturnInv
  <2> QED BY <1>0, <1>1, <2>1, <2>2 DEF OneSettles
<1>11. Midway(call[c]) \subseteq {id} BY <1>0, <1>1 DEF Midway
<1> HIDE DEF n, q
<1> QED BY <1>2, <1>3, <1>4, <1>5, <1>6, <1>7, <1>8, <1>9, <1>10, <1>11, CallAnswered, AtWork

(***************************************************************************)
(* BranchReturns: the theorems.                                            *)
(***************************************************************************)
LEMMA ReturnInitially == ASSUME ReturnsAssumption, ReturnInit PROVE ReturnInv
<1>1. ReturnTypeOK
  <2>1. OnHand \in [Goods -> Int] /\ 0 \in 0 .. MaxQty /\ 0 \in 0 .. MaxLoads /\ 0 \in 0 .. MaxBreaks
        BY DEF ReturnsAssumption
  <2>2. NoRow \in Row BY DEF Row
  <2>3. stock \in [Goods -> Int] /\ rows \in [Returns -> Row] BY <2>1, <2>2 DEF ReturnInit
  <2>4. /\ off \in [Returns -> Int] /\ credited \in [Returns -> Nat]
        /\ returnStock \in [Goods -> Nat] /\ transferred \in [Transfers -> 0 .. MaxQty]
        BY <2>1 DEF ReturnInit
  <2>5. call \in [Callers -> {Free} \cup Raise \cup Correction \cup Settling] BY DEF ReturnInit
  <2>6. settled \subseteq Returns /\ closed \in BOOLEAN /\ marred \subseteq Returns BY DEF ReturnInit
  <2> QED BY <2>1, <2>3, <2>4, <2>5, <2>6 DEF ReturnInit, ReturnTypeOK
<1>2. \A c \in Callers : RaiseFine(c) /\ CorrectionFine(c) /\ SettlingFine(c)
  BY DEF ReturnInit, RaiseFine, CorrectionFine, SettlingFine, Raising, Corrects, Settles, Free
<1>3. \A c, d \in Callers : Apart(c, d) /\ OneSettles(c, d)
  BY DEF ReturnInit, Apart, OneSettles, Raising, Settles, Free
<1>4. \A id \in Returns : RowFine(id)
  BY DEF ReturnInit, RowFine, NoRow, Owed, Undecided
<1>5. NothingOversold
  <2>1. \A id \in ByProduction : off[id] = 0 BY DEF ReturnInit, ReturnsAssumption
  <2>2. \A p \in Goods : SumOver(off, OwnReturns(p)) \in Nat /\ stock[p] \in Nat
        BY <1>1, <2>1, OwnCounted DEF ReturnTypeOK, ReturnInit, ReturnsAssumption
  <2> QED BY <2>1, <2>2 DEF NothingOversold
<1> QED BY <1>1, <1>2, <1>3, <1>4, <1>5 DEF ReturnInv

LEMMA ReturnStep ==
    ASSUME ReturnsAssumption, ReturnInv, [ReturnNext]_returnVars PROVE ReturnInv'
<1>1. CASE UNCHANGED returnVars
  <2>1. ReturnTypeOK' BY <1>1 DEF ReturnInv, ReturnTypeOK, returnVars
  <2> QED BY <1>1, <2>1, AroundKeeps, NothingMoved DEF returnVars, ReturnInv
<1>2. ASSUME NEW c \in Callers, NEW batch \in Batches, NEW want \in [batch -> Qty],
             RaiseStart(c, batch, want)
      PROVE  ReturnInv'
  BY <1>2, RaiseStartKeeps
<1>3. ASSUME NEW c \in Callers, RaiseCommit(c) \/ RaiseStops(c) \/ RaiseInsert(c) PROVE ReturnInv'
  BY <1>3, RaiseCommitKeeps, RaiseStopsKeeps, RaiseInsertKeeps
<1>4. ASSUME NEW c \in Callers, NEW id \in Returns,
             \/ Load(c, "withdraw", id, 0) \/ Load(c, "resubmit", id, 0)
             \/ \E want \in Qty : Load(c, "revise", id, want)
      PROVE  ReturnInv'
  <2>1. 0 \in 0 .. MaxQty /\ Qty \subseteq 0 .. MaxQty BY DEF ReturnsAssumption, Qty
  <2>2. CASE Load(c, "withdraw", id, 0) BY <2>1, <2>2, LoadKeeps
  <2>3. CASE Load(c, "resubmit", id, 0) BY <2>1, <2>3, LoadKeeps
  <2>4. ASSUME NEW want \in Qty, Load(c, "revise", id, want) PROVE ReturnInv'
        BY <2>1, <2>4, LoadKeeps
  <2> QED BY <1>4, <2>2, <2>3, <2>4
<1>5. ASSUME NEW c \in Callers, NEW id \in Returns, Accept(c, id) \/ Reject(c, id) \/ SendBack(c, id)
      PROVE  ReturnInv'
  BY <1>5, AcceptKeeps, RejectKeeps, SendBackKeeps
<1>6. ASSUME NEW c \in Callers,
             \/ Move(c) \/ MoveRefused(c) \/ Write(c) \/ Resubmit(c) \/ Settle(c) \/ Break(c)
      PROVE  ReturnInv'
  BY <1>6, MoveKeeps, MoveRefusedKeeps, WriteKeeps, ResubmitKeeps, SettleKeeps, BreakKeeps
<1>7. ASSUME NEW id \in ByProduction, NEW qty \in Qty, Record(id, qty) PROVE ReturnInv'
  BY <1>7, RecordKeeps
<1>8. ASSUME NEW t \in Transfers, NEW p \in Goods, NEW qty \in Qty, Transfer(t, p, qty) PROVE ReturnInv'
  BY <1>8, TransferKeeps
<1>9. ASSUME NEW p \in Goods, Sell(p) PROVE ReturnInv' BY <1>9, SellKeeps
<1>10. CASE CloseDay BY <1>10, CloseDayKeeps
<1> QED BY <1>1, <1>2, <1>3, <1>4, <1>5, <1>6, <1>7, <1>8, <1>9, <1>10 DEF ReturnNext

\* The inductive invariant holds in every state the returns reach.
THEOREM ReturnsInvariant == ReturnSpec => []ReturnInv
<1>1. ReturnInit => ReturnInv BY ReturnInitially, ReturnsAssumption
<1>2. ReturnInv /\ [ReturnNext]_returnVars => ReturnInv' BY ReturnStep, ReturnsAssumption
<1> QED BY <1>1, <1>2, PTL DEF ReturnSpec

\* Every variable of the returns keeps its type; the return stock never falls below zero.
THEOREM ReturnsTyped == ReturnSpec => []ReturnTypeOK
<1>1. ReturnInv => ReturnTypeOK BY DEF ReturnInv
<1> QED BY <1>1, ReturnsInvariant, PTL

\* Between the two halves of no call, the branch is out, and the return stock has received,
\* what the rows say - but for the returns a call broke off over or that changed under a
\* correction; and only Production's own records take a balance below zero.
THEOREM ReturnsAgree == ReturnSpec => []UnitsAgree
<1>1. ASSUME ReturnInv PROVE UnitsAgree
  <2>1. ASSUME NEW id \in Returns \ (marred \cup UNION {Midway(call[c]) : c \in Callers})
        PROVE  /\ off[id] = Owed(id)
               /\ credited[id] = IF rows[id].status = "accepted" THEN rows[id].qty ELSE 0
    <3>1. RowFine(id) /\ ~InTheMiddle(id) BY <1>1, <2>1 DEF ReturnInv, InTheMiddle
    <3> QED BY <2>1, <3>1 DEF RowFine
  <2>2. ASSUME NEW p \in Goods
        PROVE  /\ stock[p] + SumFunction([id \in OwnReturns(p) |-> off[id]]) >= 0
               /\ returnStock[p] >= 0
    <3>1. stock[p] + SumOver(off, OwnReturns(p)) >= 0 BY <1>1 DEF ReturnInv, NothingOversold
    <3>2. returnStock[p] \in Nat BY <1>1 DEF ReturnInv, ReturnTypeOK
    <3> QED BY <3>1, <3>2 DEF SumOver
  <2> QED BY <2>1, <2>2 DEF UnitsAgree
<1>2. ReturnInv => UnitsAgree BY <1>1
<1> QED BY <1>2, ReturnsInvariant, PTL

\* A return is received into the return stock once, whatever becomes of its row.
THEOREM ReturnsReceivedOnce == ReturnSpec => ReceivedOnce
<1> DEFINE Once == \A id \in Returns : credited[id] # 0 => credited'[id] = credited[id]
<1>1. ASSUME ReturnInv, [ReturnNext]_returnVars PROVE Once
  <2>1. ASSUME NEW c \in Callers, NEW id \in Returns, Accept(c, id) PROVE Once
    <3>1. credited \in [Returns -> Nat] BY <1>1 DEF ReturnInv, ReturnTypeOK
    <3>2. credited' = [credited EXCEPT ![id] = @ + Credit(id)] BY <2>1 DEF Accept
    <3>3. credited[id] # 0 => Credit(id) = 0 BY DEF Credit
    <3>4. credited[id] # 0 => credited'[id] = credited[id] BY <3>1, <3>2, <3>3
    <3>5. \A x \in Returns \ {id} : credited'[x] = credited[x] BY <3>1, <3>2
    <3> QED BY <3>4, <3>5
  <2>2. (~ \E c \in Callers, id \in Returns : Accept(c, id)) => credited' = credited
        BY <1>1 DEF ReturnNext, returnVars, RaiseStart, RaiseCommit, RaiseStops, RaiseInsert, Load,
             Reject, SendBack, Move, MoveRefused, Write, Resubmit, Settle, Break, Record,
             Transfer, Sell, CloseDay
  <2> QED BY <2>1, <2>2
<1>2. ReturnInv /\ [ReturnNext]_returnVars => [Once]_returnVars BY <1>1
<1> QED BY <1>2, ReturnsInvariant, PTL DEF ReturnSpec, ReceivedOnce

\* A decided return stays as it is: only a correction that read it while it was open may
\* still write it.
THEOREM DecisionsStay == ReturnSpec => DecidedIsFinal
<1> DEFINE Safe(id) == rows[id].status \in Decided /\ ~(\E c \in Callers : Correcting(c, id))
           Final == \A id \in Returns : Safe(id) => rows'[id] = rows[id]
<1>1. ASSUME ReturnInv, [ReturnNext]_returnVars PROVE Final
  <2>1. SUFFICES ASSUME NEW id \in Returns, Safe(id) PROVE rows'[id] = rows[id] OBVIOUS
  <2>2. rows \in [Returns -> Row] BY <1>1 DEF ReturnInv, ReturnTypeOK
  <2>3. rows[id].status \notin {"none", "pending", "returned"} /\ rows[id] # NoRow
        BY <2>1 DEF Decided, NoRow
  <2>4. ASSUME NEW c \in Callers, RaiseInsert(c) PROVE rows'[id] = rows[id]
    <3>1. id \notin call[c].got
          BY <1>1, <2>3, <2>4 DEF ReturnInv, RaiseFine, Raising, Handing, RaiseInsert
    <3> QED BY <2>1, <2>4, <3>1 DEF RaiseInsert
  <2>5. ASSUME NEW c \in Callers, Write(c) PROVE rows'[id] = rows[id]
    <3>1. call[c].id # id BY <2>1, <2>5 DEF Write, Correcting
    <3> QED BY <2>1, <2>2, <2>5, <3>1 DEF Write
  <2>6. ASSUME NEW c \in Callers, Resubmit(c) PROVE rows'[id] = rows[id]
    <3>1. CASE call[c].id = id BY <2>3, <2>6, <3>1 DEF Resubmit, StillReturned
    <3>2. CASE call[c].id # id BY <2>1, <2>2, <2>6, <3>2 DEF Resubmit
    <3> QED BY <3>1, <3>2
  <2>7. ASSUME NEW x \in ByProduction, NEW qty \in Qty, Record(x, qty) PROVE rows'[id] = rows[id]
        BY <2>1, <2>2, <2>3, <2>7 DEF Record
  <2>8. ASSUME NEW c \in Callers, NEW x \in Returns, NEW status, Review(c, x, status)
        PROVE  rows'[id] = rows[id]
        BY <2>1, <2>2, <2>3, <2>8 DEF Review
  <2>9. ASSUME NEW c \in Callers, NEW x \in Returns, Accept(c, x) \/ Reject(c, x) \/ SendBack(c, x)
        PROVE  rows'[id] = rows[id]
        BY <2>8, <2>9 DEF Accept, Reject, SendBack
  <2>10. \/ rows' = rows
         \/ \E c \in Callers : RaiseInsert(c) \/ Write(c) \/ Resubmit(c)
         \/ \E c \in Callers, x \in Returns : Accept(c, x) \/ Reject(c, x) \/ SendBack(c, x)
         \/ \E x \in ByProduction, qty \in Qty : Record(x, qty)
        BY <1>1 DEF ReturnNext, returnVars, RaiseStart, RaiseCommit, RaiseStops, Load, Move,
             MoveRefused, Settle, Break, Transfer, Sell, CloseDay
  <2> QED BY <2>4, <2>5, <2>6, <2>7, <2>9, <2>10
<1>2. ReturnInv /\ [ReturnNext]_returnVars => [Final]_returnVars BY <1>1
<1> QED BY <1>2, ReturnsInvariant, PTL DEF ReturnSpec, DecidedIsFinal
=============================================================================
