----------------------- MODULE ProductionOrdersProofs -----------------------
(***************************************************************************)
(* Proofs about ProductionOrders, for any finite sets of demands,          *)
(* products, queries and requests.                                         *)
(***************************************************************************)
EXTENDS ProductionOrders, SumTheorems

-----------------------------------------------------------------------------
(* Figures line by line                                                     *)

Asking(p) == <<"asked", p>>
Adding(p) == <<"added", p>>
Finding(p) == <<"found", p>>
KeysOf(p) == {Asking(p), Adding(p), Finding(p)}

\* What figures say of a line, and of a product in all.
Entry(f, k) == IF k \in DOMAIN f THEN f[k] ELSE 0
Total(f, p) == Entry(f, Asking(p)) + Entry(f, Adding(p)) + Entry(f, Finding(p))

LEMMA KeysAre ==
    /\ \A p \in Products : /\ KeysOf(p) \subseteq Keys
                           /\ \A k \in KeysOf(p) : k[2] = p
                           /\ Asking(p) # Adding(p) /\ Asking(p) # Finding(p) /\ Adding(p) # Finding(p)
                           /\ Asking(p)[1] = "asked" /\ Adding(p)[1] = "added"
                           /\ Finding(p)[1] = "found"
    /\ \A k \in Keys : k[2] \in Products /\ k \in KeysOf(k[2]) /\ k = <<k[1], k[2]>>
<1>1. ASSUME NEW p \in Products
      PROVE  /\ KeysOf(p) \subseteq Keys
             /\ \A k \in KeysOf(p) : k[2] = p
             /\ Asking(p) # Adding(p) /\ Asking(p) # Finding(p) /\ Adding(p) # Finding(p)
             /\ Asking(p)[1] = "asked" /\ Adding(p)[1] = "added" /\ Finding(p)[1] = "found"
  BY DEF KeysOf, Asking, Adding, Finding, Keys
<1>2. ASSUME NEW k \in Keys PROVE k[2] \in Products /\ k \in KeysOf(k[2]) /\ k = <<k[1], k[2]>>
  BY DEF KeysOf, Asking, Adding, Finding, Keys
<1> QED BY <1>1, <1>2

\* A sum over the lines of a product has three terms.
LEMMA SumOfLines ==
    ASSUME NEW p \in Products, NEW V, V \subseteq KeysOf(p), NEW f \in [V -> Int]
    PROVE  SumFunction(f) = Total(f, p)
<1> DEFINE g == [k \in KeysOf(p) |-> Entry(f, k)]
           K0 == {}
           K1 == {Asking(p)}
           K2 == {Asking(p), Adding(p)}
<1>1. IsFiniteSet(KeysOf(p))
  <2>1. IsFiniteSet(K0 \cup {Asking(p)})
    BY FS_EmptySet, FS_AddElement
  <2>2. IsFiniteSet((K0 \cup {Asking(p)}) \cup {Adding(p)})
    BY <2>1, FS_AddElement
  <2>3. IsFiniteSet(((K0 \cup {Asking(p)}) \cup {Adding(p)}) \cup {Finding(p)})
    BY <2>2, FS_AddElement
  <2>4. ((K0 \cup {Asking(p)}) \cup {Adding(p)}) \cup {Finding(p)} = KeysOf(p)
    BY DEF KeysOf
  <2> QED
    BY <2>3, <2>4
<1>2. g \in [KeysOf(p) -> Int]
  BY DEF Entry
<1>3. Asking(p) # Adding(p) /\ Asking(p) # Finding(p) /\ Adding(p) # Finding(p)
  BY KeysAre
<1>4. KeysOf(p) \ {Finding(p)} = K2 /\ K2 \ {Adding(p)} = K1 /\ K1 \ {Asking(p)} = {}
      /\ K1 \in SUBSET KeysOf(p) /\ K2 \in SUBSET KeysOf(p)
      /\ KeysOf(p) \in SUBSET KeysOf(p)
  BY <1>3 DEF KeysOf
<1>5. /\ Finding(p) \in KeysOf(p) /\ Adding(p) \in K2 /\ Asking(p) \in K1
      /\ Adding(p) \in KeysOf(p) /\ Asking(p) \in KeysOf(p)
  BY DEF KeysOf
<1> DEFINE a == Entry(f, Asking(p))
           b == Entry(f, Adding(p))
           c == Entry(f, Finding(p))
<1>6. a \in Int /\ b \in Int /\ c \in Int
  BY DEF Entry
<1>7. g[Asking(p)] = a /\ g[Adding(p)] = b /\ g[Finding(p)] = c
  BY <1>5
<1> HIDE DEF g, a, b, c
<1>8. SumOver(g, KeysOf(p)) = c + (b + (a + 0))
  <2>1. SumOver(g, KeysOf(p)) = c + SumOver(g, K2)
    BY <1>1, <1>2, <1>4, <1>5, <1>7, SumRemove
  <2>2. SumOver(g, K2) = b + SumOver(g, K1)
    BY <1>1, <1>2, <1>4, <1>5, <1>7, SumRemove
  <2>3. SumOver(g, K1) = a + SumOver(g, {})
    BY <1>1, <1>2, <1>4, <1>5, <1>7, SumRemove
  <2> QED
    BY <2>1, <2>2, <2>3, SumEmpty
<1>9. SumOver(g, KeysOf(p)) = a + b + c
  BY <1>6, <1>8
<1>10. SumFunction(f) = SumOver(f, V)
  <2>1. f = [k \in V |-> f[k]]
    OBVIOUS
  <2> QED
    BY <2>1 DEF SumOver
<1>11. SumOver(f, V) = SumOver(g, V)
  <2>1. \A k \in V : f[k] = g[k]
    BY DEF Entry, g
  <2> QED
    BY <2>1, SumSame
<1>12. SumOver(g, KeysOf(p)) = SumOver(g, V)
  <2>1. \A k \in KeysOf(p) \ V : g[k] = 0
    BY DEF Entry, g
  <2> QED
    BY <1>1, <1>2, <2>1, SumOfZeroes
<1> QED
  BY <1>9, <1>10, <1>11, <1>12 DEF Total, a, b, c

LEMMA FiguresSum ==
    ASSUME NEW f \in Figures(Int), NEW p \in Products
    PROVE  SumFunction([k \in {j \in DOMAIN f : j[2] = p} |-> f[k]]) = Total(f, p)
<1> DEFINE V == {j \in DOMAIN f : j[2] = p}
           g == [k \in V |-> f[k]]
<1>1. PICK D \in SUBSET Keys : f \in [D -> Int]
  BY DEF Figures
<1>2. V \subseteq KeysOf(p) /\ g \in [V -> Int]
  BY <1>1, KeysAre
<1>3. \A k \in KeysOf(p) : Entry(g, k) = Entry(f, k)
  BY KeysAre DEF Entry
<1>4. Total(g, p) = Total(f, p)
  BY <1>3 DEF Total, KeysOf
<1> HIDE DEF g, V
<1>5. SumFunction(g) = Total(g, p)
  BY <1>2, SumOfLines
<1> QED
  BY <1>4, <1>5 DEF g, V

-----------------------------------------------------------------------------
(* Lines of a demand                                                        *)

Wanted(line) == IF line = NoLine THEN 0 ELSE line.qty
\* What lines claim of a product, and what they say was approved.
Claim(ls, p) == Wanted(ls[Asking(p)]) + Wanted(ls[Adding(p)]) + Wanted(ls[Finding(p)])
Given(ls, p) == ApprovedQty(ls[Asking(p)]) + ApprovedQty(ls[Adding(p)]) + ApprovedQty(ls[Finding(p)])
Reviewed(ls, override) ==
    [k \in Keys |-> IF ls[k] = NoLine THEN NoLine
                    ELSE [qty |-> IF override[k[2]] # None THEN override[k[2]] ELSE ls[k].qty,
                          approved |-> TRUE]]

LEMMA LineTyped ==
    ASSUME NEW line \in Line
    PROVE  /\ line # NoLine => line.qty \in Amount /\ line.approved \in BOOLEAN
           /\ Wanted(line) \in Nat /\ ApprovedQty(line) \in Amount /\ ApprovedQty(line) \in Nat
           /\ ApprovedQty(line) <= Wanted(line)
           /\ line = NoLine => ApprovedQty(line) = 0
  BY OrdersAssumption DEF Line, Wanted, ApprovedQty, NoLine, Amount

LEMMA LinesSum ==
    ASSUME NEW ls \in [Keys -> Line], NEW p \in Products, NEW V,
           V = {k \in {j \in Keys : ls[j] # NoLine} : k[2] = p}
    PROVE  /\ SumFunction([k \in V |-> ls[k].qty]) = Claim(ls, p)
           /\ SumFunction([k \in V |-> ApprovedQty(ls[k])]) = Given(ls, p)
           /\ Claim(ls, p) \in Nat /\ Given(ls, p) \in Nat /\ Given(ls, p) <= Claim(ls, p)
<1> DEFINE f == [k \in V |-> ls[k].qty]
           g == [k \in V |-> ApprovedQty(ls[k])]
<1>1. V \subseteq KeysOf(p) /\ KeysOf(p) \subseteq Keys
  BY KeysAre
<1>2. \A k \in V : ls[k].qty \in Int /\ ApprovedQty(ls[k]) \in Int
  BY LineTyped DEF Amount
<1>3. f \in [V -> Int] /\ g \in [V -> Int]
  BY <1>2
<1>4. \A k \in KeysOf(p) : Entry(f, k) = Wanted(ls[k]) /\ Entry(g, k) = ApprovedQty(ls[k])
  <2> TAKE k \in KeysOf(p)
  <2>1. k \in Keys /\ k[2] = p
    BY KeysAre
  <2>2. CASE ls[k] = NoLine
    BY <2>2, <2>1, LineTyped DEF Entry, Wanted
  <2>3. CASE ls[k] # NoLine
    BY <2>3, <2>1 DEF Entry, Wanted
  <2> QED
    BY <2>2, <2>3
<1>5. Total(f, p) = Claim(ls, p) /\ Total(g, p) = Given(ls, p)
  BY <1>4 DEF Total, Claim, Given, KeysOf
<1> HIDE DEF f, g
<1>6. SumFunction(f) = Total(f, p) /\ SumFunction(g) = Total(g, p)
  BY <1>1, <1>3, SumOfLines
<1>7. Claim(ls, p) \in Nat /\ Given(ls, p) \in Nat /\ Given(ls, p) <= Claim(ls, p)
  <2>1. \A k \in KeysOf(p) : /\ Wanted(ls[k]) \in Nat /\ ApprovedQty(ls[k]) \in Nat
                             /\ ApprovedQty(ls[k]) <= Wanted(ls[k])
    BY <1>1, LineTyped
  <2> QED
    BY <2>1 DEF Claim, Given, KeysOf
<1> QED
  BY <1>5, <1>6, <1>7 DEF f, g

LEMMA ReviewedSum ==
    ASSUME NEW ls \in [Keys -> Line], NEW override \in Overrides
    PROVE  /\ Reviewed(ls, override) \in [Keys -> Line]
           /\ \A k \in Keys : Reviewed(ls, override)[k] = NoLine <=> ls[k] = NoLine
           /\ \A p \in Products : \A V :
                V = {k \in {j \in Keys : ls[j] # NoLine} : k[2] = p} =>
                  SumFunction([k \in V |-> IF override[k[2]] # None THEN override[k[2]] ELSE ls[k].qty])
                      = Claim(Reviewed(ls, override), p)
<1> DEFINE new == Reviewed(ls, override)
           Figure(k) == IF override[k[2]] # None THEN override[k[2]] ELSE ls[k].qty
<1>1. ASSUME NEW k \in Keys, ls[k] # NoLine PROVE Figure(k) \in Amount
  BY <1>1, KeysAre, LineTyped DEF Overrides
<1>2. ASSUME NEW k \in Keys, ls[k] # NoLine
      PROVE  new[k] = [qty |-> Figure(k), approved |-> TRUE] /\ new[k] \in Line /\ new[k] # NoLine
  <2>1. new[k] = [qty |-> Figure(k), approved |-> TRUE]
    BY <1>2 DEF Reviewed
  <2>2. Figure(k) \in Amount /\ Figure(k) # None
    BY <1>1, <1>2, OrdersAssumption DEF Amount
  <2> HIDE DEF new
  <2>3. new[k] \in [qty : Amount, approved : BOOLEAN]
    BY <2>1, <2>2
  <2>4. new[k].approved = TRUE /\ NoLine.approved = FALSE
    BY <2>1 DEF NoLine
  <2> QED
    BY <2>1, <2>3, <2>4 DEF Line
<1>3. ASSUME NEW k \in Keys, ls[k] = NoLine PROVE new[k] = NoLine
  BY <1>3 DEF Reviewed
<1>4. new \in [Keys -> Line]
  BY <1>2, <1>3 DEF Reviewed, Line
<1>5. \A k \in Keys : new[k] = NoLine <=> ls[k] = NoLine
  BY <1>2, <1>3
<1>6. ASSUME NEW p \in Products, NEW V, V = {k \in {j \in Keys : ls[j] # NoLine} : k[2] = p}
      PROVE  SumFunction([k \in V |-> Figure(k)]) = Claim(new, p)
  <2>1. V = {k \in {j \in Keys : new[j] # NoLine} : k[2] = p}
    BY <1>5, <1>6
  <2> HIDE DEF new, Figure
  <2>2. \A k \in V : Figure(k) = new[k].qty
    <3> TAKE k \in V
    <3>1. k \in Keys /\ ls[k] # NoLine
      BY <1>6
    <3>2. new[k] = [qty |-> Figure(k), approved |-> TRUE]
      BY <1>2, <3>1
    <3> QED
      BY <3>2
  <2>3. [k \in V |-> Figure(k)] = [k \in V |-> new[k].qty]
    BY <2>2
  <2>4. SumFunction([k \in V |-> new[k].qty]) = Claim(new, p)
    BY <1>4, <2>1, LinesSum
  <2> QED
    BY <2>3, <2>4
<1> QED
  BY <1>4, <1>5, <1>6

-----------------------------------------------------------------------------
(* What is promised and what is on its way, order by order and call by call *)

\* What each demand in some statuses, but for some, claims of a product.
Claims(p, statuses, except) ==
    [o \in Orders |-> IF o \in Orders \ except /\ status[o] \in statuses
                      THEN Claim(lines[o], p) ELSE 0]

\* What each delivery has still to take of it.
Loads(p) ==
    [c \in Callers |-> IF call[c].op = "deliver" /\ left[call[c].order][p] = 0
                       THEN Total(call[c].out, p) ELSE 0]

\* A sum over a part counts the rest for nothing.
LEMMA PartSum ==
    ASSUME NEW S, IsFiniteSet(S), NEW f \in [S -> Nat], NEW V, V \subseteq S, NEW g,
           g = [x \in S |-> IF x \in V THEN f[x] ELSE 0]
    PROVE  g \in [S -> Nat] /\ SumFunction([x \in V |-> f[x]]) = SumOver(g, S)
<1>1. g \in [S -> Int] /\ g \in [S -> Nat] /\ V \in SUBSET S
  OBVIOUS
<1>2. \A x \in S \ V : g[x] = 0
  OBVIOUS
<1>3. SumOver(g, S) = SumOver(g, V)
  BY <1>1, <1>2, SumOfZeroes
<1>4. [x \in V |-> f[x]] = [x \in V |-> g[x]]
  OBVIOUS
<1> QED
  BY <1>1, <1>3, <1>4 DEF SumOver

LEMMA RequestTyped ==
    ASSUME NEW q \in Request
    PROVE  /\ q.op \in {"none", "insert", "review", "deliver", "correct", "reconcile"}
           /\ q.op = "none" <=> q = Free
           /\ q.op = "insert" => q \in [op : {"insert"}, order : Orders, lines : Figures(Qty)]
           /\ q.op = "review" => q \in [op : {"review"}, order : Orders, override : Overrides,
                                        want : [Products -> Nat]]
           /\ q.op = "deliver" => q \in [op : {"deliver"}, order : Orders, out : Figures(Qty),
                                         in : Figures(Qty)]
           /\ q.op = "correct" => q \in [op : {"correct"}, ticket : Tickets, order : Orders]
           /\ q.op = "reconcile" => q \in [op : {"reconcile"}, order : Orders, ticket : Tickets,
                                           todo : Figures(- MaxQty .. MaxQty), half : SUBSET Keys]
  BY DEF Request, Free

LEMMA ClaimedIs ==
    TypeOK => \A o \in Orders, p \in Products :
                /\ Claim(lines[o], p) \in Nat /\ Given(lines[o], p) \in Nat
                /\ Given(lines[o], p) <= Claim(lines[o], p)
                /\ Claimed(o, p) = Claim(lines[o], p)
                /\ Delivery(o, p) = IF status[o] \in {"verified", "approved"}
                                    THEN Given(lines[o], p) ELSE 0
<1> SUFFICES ASSUME TypeOK, NEW o \in Orders, NEW p \in Products
             PROVE  /\ Claim(lines[o], p) \in Nat /\ Given(lines[o], p) \in Nat
                    /\ Given(lines[o], p) <= Claim(lines[o], p)
                    /\ Claimed(o, p) = Claim(lines[o], p)
                    /\ Delivery(o, p) = IF status[o] \in {"verified", "approved"}
                                        THEN Given(lines[o], p) ELSE 0
  OBVIOUS
<1>1. lines[o] \in [Keys -> Line]
  BY DEF TypeOK
<1>2. OfProduct(o, p) = {k \in {j \in Keys : lines[o][j] # NoLine} : k[2] = p}
  BY DEF OfProduct, Present
<1>3. /\ SumFunction([k \in OfProduct(o, p) |-> lines[o][k].qty]) = Claim(lines[o], p)
      /\ SumFunction([k \in OfProduct(o, p) |-> ApprovedQty(lines[o][k])]) = Given(lines[o], p)
      /\ Claim(lines[o], p) \in Nat /\ Given(lines[o], p) \in Nat
      /\ Given(lines[o], p) <= Claim(lines[o], p)
  BY <1>1, <1>2, LinesSum
<1> QED
  BY <1>3 DEF Claimed, Delivery

LEMMA ClaimedByIs ==
    TypeOK => \A p \in Products : \A S, X :
                /\ Claims(p, S, X) \in [Orders -> Nat]
                /\ ClaimedBy(p, S, X) = SumOver(Claims(p, S, X), Orders)
                /\ ClaimedBy(p, S, X) \in Nat
<1> SUFFICES ASSUME TypeOK, NEW p \in Products, NEW S, NEW X
             PROVE  /\ Claims(p, S, X) \in [Orders -> Nat]
                    /\ ClaimedBy(p, S, X) = SumOver(Claims(p, S, X), Orders)
                    /\ ClaimedBy(p, S, X) \in Nat
  OBVIOUS
<1> DEFINE f == [o \in Orders |-> Claimed(o, p)]
           V == {u \in Orders \ X : status[u] \in S}
           g == [o \in Orders |-> IF o \in V THEN f[o] ELSE 0]
<1>1. IsFiniteSet(Orders)
  BY OrdersAssumption
<1>2. f \in [Orders -> Nat]
  BY ClaimedIs
<1>3. Claims(p, S, X) = g
  BY ClaimedIs DEF Claims
<1>4. ClaimedBy(p, S, X) = SumFunction([o \in V |-> f[o]])
  BY DEF ClaimedBy
<1>5. V \subseteq Orders
  OBVIOUS
<1> HIDE DEF f, V
<1>6. g \in [Orders -> Nat] /\ SumFunction([o \in V |-> f[o]]) = SumOver(g, Orders)
  BY <1>1, <1>2, <1>5, PartSum
<1> HIDE DEF g
<1>7. SumOver(g, Orders) \in Nat
  BY <1>1, <1>6, SumType
<1> QED
  BY <1>3, <1>4, <1>6, <1>7

LEMMA FiguresTyped ==
    ASSUME NEW S, NEW f \in Figures(S), S \subseteq Int
    PROVE  /\ DOMAIN f \subseteq Keys /\ f \in Figures(Int)
           /\ \A k \in DOMAIN f : f[k] \in S
           /\ \A p : Total(f, p) \in Int
           /\ S \subseteq Nat => \A p : Total(f, p) \in Nat
<1>1. PICK D \in SUBSET Keys : f \in [D -> S]
  BY DEF Figures
<1>2. \A k : Entry(f, k) \in Int /\ (S \subseteq Nat => Entry(f, k) \in Nat)
  <2> TAKE k
  <2>1. CASE k \in D
    BY <1>1, <2>1 DEF Entry
  <2>2. CASE k \notin D
    BY <1>1, <2>2 DEF Entry
  <2> QED
    BY <2>1, <2>2
<1>3. f \in [D -> Int]
  BY <1>1
<1>4. f \in Figures(Int)
  BY <1>3 DEF Figures
<1> QED
  BY <1>1, <1>2, <1>4 DEF Total

LEMMA LeavingIs ==
    TypeOK => \A p \in Products :
                /\ Loads(p) \in [Callers -> Nat]
                /\ Leaving(p) = SumOver(Loads(p), Callers)
                /\ Leaving(p) \in Nat
<1> SUFFICES ASSUME TypeOK, NEW p \in Products
             PROVE  /\ Loads(p) \in [Callers -> Nat]
                    /\ Leaving(p) = SumOver(Loads(p), Callers)
                    /\ Leaving(p) \in Nat
  OBVIOUS
<1> DEFINE V == {d \in Callers : call[d].op = "deliver" /\ left[call[d].order][p] = 0}
           f == [c \in Callers |-> IF c \in V THEN ToTake(c, p) ELSE 0]
           g == [c \in Callers |-> IF c \in V THEN f[c] ELSE 0]
<1>1. IsFiniteSet(Callers)
  BY OrdersAssumption
<1>2. \A c \in V : ToTake(c, p) = Total(call[c].out, p) /\ Total(call[c].out, p) \in Nat
  <2> TAKE c \in V
  <2>1. call[c] \in Request
    BY DEF TypeOK
  <2>2. call[c].out \in Figures(Qty)
    BY <2>1, RequestTyped
  <2>3. Qty \subseteq Nat /\ Qty \subseteq Int
    BY DEF Qty
  <2>4. call[c].out \in Figures(Int) /\ Total(call[c].out, p) \in Nat
    BY <2>2, <2>3, FiguresTyped
  <2> QED
    BY <2>4, FiguresSum DEF ToTake
<1>3. f \in [Callers -> Nat] /\ g = Loads(p)
  BY <1>2 DEF Loads
<1>4. Leaving(p) = SumFunction([c \in V |-> f[c]])
  <2>1. [c \in V |-> f[c]] = [c \in V |-> ToTake(c, p)]
    OBVIOUS
  <2> QED
    BY <2>1 DEF Leaving
<1>5. V \subseteq Callers
  OBVIOUS
<1> HIDE DEF f, V
<1>6. g \in [Callers -> Nat] /\ SumFunction([c \in V |-> f[c]]) = SumOver(g, Callers)
  BY <1>1, <1>3, <1>5, PartSum
<1> HIDE DEF g
<1>7. SumOver(g, Callers) \in Nat
  BY <1>1, <1>6, SumType
<1> QED
  BY <1>3, <1>4, <1>6, <1>7

\* All of that, of one state.
SumsRight ==
    /\ \A o \in Orders, p \in Products :
         /\ Claim(lines[o], p) \in Nat /\ Given(lines[o], p) \in Nat
         /\ Given(lines[o], p) <= Claim(lines[o], p)
         /\ Claimed(o, p) = Claim(lines[o], p)
         /\ Delivery(o, p) = IF status[o] \in {"verified", "approved"}
                             THEN Given(lines[o], p) ELSE 0
    /\ \A p \in Products : \A S, X :
         /\ Claims(p, S, X) \in [Orders -> Nat]
         /\ ClaimedBy(p, S, X) = SumOver(Claims(p, S, X), Orders)
         /\ ClaimedBy(p, S, X) \in Nat
    /\ \A p \in Products :
         /\ Loads(p) \in [Callers -> Nat]
         /\ Leaving(p) = SumOver(Loads(p), Callers)
         /\ Leaving(p) \in Nat

LEMMA SumsNow == TypeOK => SumsRight
  BY ClaimedIs, ClaimedByIs, LeavingIs DEF SumsRight

LEMMA SumsNext == TypeOK' => SumsRight'
  BY SumsNow, PTL

-----------------------------------------------------------------------------
(* How these sums move                                                      *)

Awaits(o, p) == IF status[o] = "awaiting" THEN Claim(lines[o], p) ELSE 0
Waiting(p) == ClaimedBy(p, {"awaiting"}, {})
Load(c, p) ==
    IF call[c].op = "deliver" /\ left[call[c].order][p] = 0 THEN Total(call[c].out, p) ELSE 0

LEMMA AwaitsIs ==
    ASSUME TypeOK, NEW p \in Products, NEW o \in Orders
    PROVE  Claims(p, {"awaiting"}, {})[o] = Awaits(o, p) /\ Awaits(o, p) \in Nat
  BY SumsNow DEF SumsRight, Claims, Awaits

LEMMA AwaitsIsNext ==
    ASSUME TypeOK', NEW p \in Products, NEW o \in Orders
    PROVE  Claims(p, {"awaiting"}, {})'[o] = Awaits(o, p)' /\ Awaits(o, p)' \in Nat
  BY SumsNext DEF SumsRight, Claims, Awaits

\* Where one demand changes and the others claim no more.
LEMMA WaitingStep ==
    ASSUME TypeOK, TypeOK', NEW p \in Products, NEW o \in Orders,
           \A u \in Orders \ {o} : Awaits(u, p)' <= Awaits(u, p)
    PROVE  /\ Waiting(p)' + Awaits(o, p) <= Waiting(p) + Awaits(o, p)'
           /\ Waiting(p) \in Nat /\ Waiting(p)' \in Nat
           /\ Awaits(o, p) \in Nat /\ Awaits(o, p)' \in Nat
<1> DEFINE f == Claims(p, {"awaiting"}, {})
           e == Claims(p, {"awaiting"}, {})'
<1>1. /\ f \in [Orders -> Nat] /\ Waiting(p) = SumOver(f, Orders) /\ Waiting(p) \in Nat
      /\ e \in [Orders -> Nat] /\ Waiting(p)' = SumOver(e, Orders) /\ Waiting(p)' \in Nat
  BY SumsNow, SumsNext DEF SumsRight, Waiting
<1>2. \A u \in Orders : f[u] = Awaits(u, p) /\ e[u] = Awaits(u, p)'
  BY AwaitsIs, AwaitsIsNext
<1>3. IsFiniteSet(Orders)
  BY OrdersAssumption
<1> HIDE DEF f, e
<1>4. \A u \in Orders \ {o} : e[u] <= f[u]
  BY <1>2
<1>5. SumOver(e, Orders) + f[o] <= SumOver(f, Orders) + e[o]
  BY <1>1, <1>3, <1>4, SumElsewhere
<1>6. Awaits(o, p) \in Nat /\ Awaits(o, p)' \in Nat
  BY AwaitsIs, AwaitsIsNext
<1> QED
  BY <1>1, <1>2, <1>5, <1>6

LEMMA WaitingLess ==
    ASSUME TypeOK, TypeOK', NEW p \in Products, \A u \in Orders : Awaits(u, p)' <= Awaits(u, p)
    PROVE  Waiting(p)' <= Waiting(p) /\ Waiting(p) \in Nat /\ Waiting(p)' \in Nat
<1> DEFINE f == Claims(p, {"awaiting"}, {})
           e == Claims(p, {"awaiting"}, {})'
<1>1. /\ f \in [Orders -> Nat] /\ Waiting(p) = SumOver(f, Orders) /\ Waiting(p) \in Nat
      /\ e \in [Orders -> Nat] /\ Waiting(p)' = SumOver(e, Orders) /\ Waiting(p)' \in Nat
  BY SumsNow, SumsNext DEF SumsRight, Waiting
<1>2. \A u \in Orders : e[u] <= f[u]
  BY AwaitsIs, AwaitsIsNext
<1>3. IsFiniteSet(Orders) /\ Orders \in SUBSET Orders
  BY OrdersAssumption
<1> HIDE DEF f, e
<1>4. SumOver(e, Orders) <= SumOver(f, Orders)
  BY <1>1, <1>2, <1>3, SumOrder
<1> QED
  BY <1>1, <1>4

\* What the database function adds up is no less than what waits.
LEMMA OutstandingCounts ==
    ASSUME TypeOK, NEW p \in Products
    PROVE  /\ Waiting(p) <= Outstanding(p, {}) /\ Outstanding(p, {}) \in Nat
           /\ \A o \in Orders : /\ Waiting(p) <= Outstanding(p, {o}) + Awaits(o, p)
                                /\ Outstanding(p, {o}) \in Nat
<1> DEFINE S == {"pending", "awaiting"}
           e == Claims(p, {"awaiting"}, {})
           f(X) == Claims(p, S, X)
<1>1. /\ e \in [Orders -> Nat] /\ Waiting(p) = SumOver(e, Orders) /\ Waiting(p) \in Nat
      /\ \A X : /\ f(X) \in [Orders -> Nat] /\ Outstanding(p, X) = SumOver(f(X), Orders)
                /\ Outstanding(p, X) \in Nat
  BY SumsNow DEF SumsRight, Waiting, Outstanding
<1>2. IsFiniteSet(Orders) /\ Orders \in SUBSET Orders
  BY OrdersAssumption
<1>3. Waiting(p) <= Outstanding(p, {})
  <2>1. \A u \in Orders : e[u] <= f({})[u]
    BY SumsNow DEF SumsRight, Claims
  <2> HIDE DEF e, f
  <2>2. SumOver(e, Orders) <= SumOver(f({}), Orders)
    BY <1>1, <1>2, <2>1, SumOrder
  <2> QED
    BY <1>1, <2>2
<1>4. ASSUME NEW o \in Orders PROVE Waiting(p) <= Outstanding(p, {o}) + Awaits(o, p)
  <2>1. \A u \in Orders \ {o} : e[u] <= f({o})[u]
    BY SumsNow DEF SumsRight, Claims
  <2>2. f({o})[o] = 0 /\ e[o] = Awaits(o, p) /\ Awaits(o, p) \in Nat
    BY AwaitsIs DEF Claims
  <2> HIDE DEF e, f
  <2>3. SumOver(e, Orders) + f({o})[o] <= SumOver(f({o}), Orders) + e[o]
    BY <1>1, <1>2, <2>1, SumElsewhere
  <2> QED
    BY <1>1, <2>2, <2>3
<1> QED
  BY <1>1, <1>3, <1>4

LEMMA LoadIs ==
    ASSUME TypeOK, NEW p \in Products, NEW c \in Callers
    PROVE  Loads(p)[c] = Load(c, p) /\ Load(c, p) \in Nat
  BY SumsNow DEF SumsRight, Loads, Load

LEMMA LoadIsNext ==
    ASSUME TypeOK', NEW p \in Products, NEW c \in Callers
    PROVE  Loads(p)'[c] = Load(c, p)' /\ Load(c, p)' \in Nat
  BY SumsNext DEF SumsRight, Loads, Load

LEMMA LeavingStep ==
    ASSUME TypeOK, TypeOK', NEW p \in Products, NEW c \in Callers,
           \A d \in Callers \ {c} : Load(d, p)' <= Load(d, p)
    PROVE  /\ Leaving(p)' + Load(c, p) <= Leaving(p) + Load(c, p)'
           /\ Leaving(p) \in Nat /\ Leaving(p)' \in Nat
           /\ Load(c, p) \in Nat /\ Load(c, p)' \in Nat
<1> DEFINE f == Loads(p)
           e == Loads(p)'
<1>1. /\ f \in [Callers -> Nat] /\ Leaving(p) = SumOver(f, Callers) /\ Leaving(p) \in Nat
      /\ e \in [Callers -> Nat] /\ Leaving(p)' = SumOver(e, Callers) /\ Leaving(p)' \in Nat
  BY SumsNow, SumsNext DEF SumsRight
<1>2. \A d \in Callers : f[d] = Load(d, p) /\ e[d] = Load(d, p)'
  BY LoadIs, LoadIsNext
<1>3. IsFiniteSet(Callers)
  BY OrdersAssumption
<1> HIDE DEF f, e
<1>4. \A d \in Callers \ {c} : e[d] <= f[d]
  BY <1>2
<1>5. SumOver(e, Callers) + f[c] <= SumOver(f, Callers) + e[c]
  BY <1>1, <1>3, <1>4, SumElsewhere
<1>6. Load(c, p) \in Nat /\ Load(c, p)' \in Nat
  BY LoadIs, LoadIsNext
<1> QED
  BY <1>1, <1>2, <1>5, <1>6

LEMMA LeavingLess ==
    ASSUME TypeOK, TypeOK', NEW p \in Products, \A c \in Callers : Load(c, p)' <= Load(c, p)
    PROVE  Leaving(p)' <= Leaving(p) /\ Leaving(p) \in Nat /\ Leaving(p)' \in Nat
<1> DEFINE f == Loads(p)
           e == Loads(p)'
<1>1. /\ f \in [Callers -> Nat] /\ Leaving(p) = SumOver(f, Callers) /\ Leaving(p) \in Nat
      /\ e \in [Callers -> Nat] /\ Leaving(p)' = SumOver(e, Callers) /\ Leaving(p)' \in Nat
  BY SumsNow, SumsNext DEF SumsRight
<1>2. \A c \in Callers : e[c] <= f[c]
  BY LoadIs, LoadIsNext
<1>3. IsFiniteSet(Callers) /\ Callers \in SUBSET Callers
  BY OrdersAssumption
<1> HIDE DEF f, e
<1>4. SumOver(e, Callers) <= SumOver(f, Callers)
  BY <1>1, <1>2, <1>3, SumOrder
<1> QED
  BY <1>1, <1>4

\* What the queries about a demand have added in a ledger.
LEMMA FixesSum ==
    ASSUME NEW ledger \in [Tickets -> [Products -> Int]], NEW o, NEW p \in Products
    PROVE  /\ Fixes(ledger, o, p) \in Int
           /\ (\A t \in Tickets : About[t] = o => ledger[t][p] = 0) => Fixes(ledger, o, p) = 0
           /\ \A next \in [Tickets -> [Products -> Int]], t \in Tickets :
                (\A u \in Tickets \ {t} : next[u][p] = ledger[u][p]) =>
                   Fixes(next, o, p) = IF About[t] = o
                                       THEN Fixes(ledger, o, p) + (next[t][p] - ledger[t][p])
                                       ELSE Fixes(ledger, o, p)
<1> DEFINE V == {u \in Tickets : About[u] = o}
           f == [t \in V |-> ledger[t][p]]
<1>1. IsFiniteSet(V) /\ V \in SUBSET V
  BY OrdersAssumption, FS_Subset
<1>2. f \in [V -> Int] /\ f = [t \in V |-> f[t]]
  OBVIOUS
<1>3. Fixes(ledger, o, p) = SumOver(f, V)
  BY <1>2 DEF Fixes, SumOver
<1>4. SumOver(f, V) \in Int
  <2> HIDE DEF f, V
  <2> QED
    BY <1>1, <1>2, SumType
<1>5. ASSUME \A t \in Tickets : About[t] = o => ledger[t][p] = 0 PROVE SumOver(f, V) = 0
  <2>1. \A x \in V \ {} : f[x] = 0
    BY <1>5
  <2> HIDE DEF f, V
  <2>2. SumOver(f, V) = SumOver(f, {})
    BY <1>1, <1>2, <2>1, SumOfZeroes
  <2> QED
    BY <2>2, SumEmpty
<1>6. ASSUME NEW next \in [Tickets -> [Products -> Int]], NEW t \in Tickets,
             \A u \in Tickets \ {t} : next[u][p] = ledger[u][p]
      PROVE  Fixes(next, o, p) = IF About[t] = o
                                 THEN Fixes(ledger, o, p) + (next[t][p] - ledger[t][p])
                                 ELSE Fixes(ledger, o, p)
  <2> DEFINE e == [u \in V |-> next[u][p]]
  <2>1. e \in [V -> Int] /\ e = [u \in V |-> e[u]]
    OBVIOUS
  <2>2. Fixes(next, o, p) = SumOver(e, V)
    BY <2>1 DEF Fixes, SumOver
  <2>3. CASE About[t] = o
    <3>1. t \in V /\ \A u \in V \ {t} : e[u] = f[u]
      BY <1>6, <2>3
    <3>2. e[t] = next[t][p] /\ f[t] = ledger[t][p] /\ next[t][p] \in Int /\ ledger[t][p] \in Int
      BY <3>1
    <3>3. e \in [V -> Int] /\ f \in [V -> Int]
      BY <1>2, <2>1
    <3> HIDE DEF e, f, V
    <3>4. t \in V /\ \A u \in V \ {t} : e[u] = f[u]
      BY <3>1
    <3>5. SumOver(e, V) = SumOver(f, V) + (e[t] - f[t])
      BY <1>1, <3>3, <3>4, SumChange
    <3> QED
      BY <1>3, <2>2, <2>3, <3>2, <3>5
  <2>4. CASE About[t] # o
    <3>1. \A u \in V : e[u] = f[u]
      BY <1>6, <2>4
    <3> HIDE DEF e, f, V
    <3> QED
      BY <1>3, <2>2, <2>4, <3>1, SumSame
  <2> QED
    BY <2>3, <2>4
<1> QED
  BY <1>3, <1>4, <1>5, <1>6

-----------------------------------------------------------------------------
(* The inductive invariant                                                  *)

Served(o) == status[o] \in {"verified", "approved"}
Carries(c, o) == call[c].op = "deliver" /\ call[c].order = o
Corrects(c, o) == call[c].op = "reconcile" /\ call[c].order = o
NoFixes(t) == \A p \in Products : fixLeft[t][p] = 0 /\ fixCame[t][p] = 0
NoFixesOf(o) == \A t \in Tickets : About[t] = o => NoFixes(t)

\* A correction is of the demand its query is about; what its branch alone has had is one of
\* its differences.
QueriesFit ==
    \A c \in Callers :
        /\ call[c].op \in {"correct", "reconcile"} => call[c].order = About[call[c].ticket]
        /\ call[c].op = "reconcile" => /\ call[c].half \subseteq DOMAIN call[c].todo
                                      /\ \A j, k \in call[c].half : j = k

\* A pool row is held by one review.
RowsHeld ==
    \A c, d \in Callers : \A p \in Products :
        c # d /\ call[c].op = "review" /\ call[d].op = "review" =>
            call[c].want[p] = 0 \/ call[d].want[p] = 0

\* What waits, what is leaving and what a review has set aside are on the shelf.
OnShelf(p) ==
    /\ Waiting(p) + Leaving(p) <= pool[p]
    /\ \A c \in Callers : call[c].op = "review" /\ call[c].want[p] # 0 =>
         Waiting(p) + Leaving(p) + call[c].want[p] <= pool[p]

SetAside == \A p \in Products \ strained : OnShelf(p)

\* Nothing has moved for a demand not verified, and nothing is about to.
Untouched(o) ==
    ~Served(o) =>
        /\ \A p \in Products : left[o][p] = 0 /\ came[o][p] = 0
        /\ NoFixesOf(o)
        /\ \A c \in Callers : /\ ~Carries(c, o)
                              /\ Corrects(c, o) => DOMAIN call[c].todo = {}

OneDelivery(o) == \A c, d \in Callers : Carries(c, o) /\ Carries(d, o) => c = d

\* The branch gets nothing of a product none has left of.
OutFirst(o) ==
    /\ \A p \in Products : came[o][p] # 0 => left[o][p] # 0
    /\ \A c \in Callers : Carries(c, o) =>
         \A k \in DOMAIN call[c].in \ DOMAIN call[c].out : left[o][k[2]] # 0

\* Nor does the pool give anything for a correction its branch got nothing of.
FixesFit ==
    /\ \A t \in Tickets, p \in Products : fixLeft[t][p] # 0 => fixCame[t][p] # 0
    /\ \A c \in Callers : call[c].op = "reconcile" =>
         /\ \A k \in DOMAIN call[c].todo : call[c].todo[k] # 0
         /\ \A k \in call[c].half : fixCame[call[c].ticket][k[2]] # 0

\* What a request has still to take out of the pool for a demand, and to bring in.
Ahead(q) == Restrict(q.todo, DOMAIN q.todo \ q.half)
OutOf(q, o, p) ==
    IF q.op = "deliver" /\ q.order = o THEN Total(q.out, p)
    ELSE IF q.op = "reconcile" /\ q.order = o THEN Total(q.todo, p) ELSE 0
InOf(q, o, p) ==
    IF q.op = "deliver" /\ q.order = o THEN Total(q.in, p)
    ELSE IF q.op = "reconcile" /\ q.order = o THEN Total(Ahead(q), p) ELSE 0
GoingOut(o, p) == SumOver([c \in Callers |-> OutOf(call[c], o, p)], Callers)
ComingIn(o, p) == SumOver([c \in Callers |-> InOf(call[c], o, p)], Callers)

\* Of a demand none of whose movements broke off, was swallowed or was not made, each ledger
\* and what all the requests have still to move, deliveries and corrections together, make up
\* what the lines say.
Straight(o) ==
    \A p \in Products :
        /\ left[o][p] + Fixes(fixLeft, o, p) + GoingOut(o, p) = Delivery(o, p)
        /\ came[o][p] + Fixes(fixCame, o, p) + ComingIn(o, p) = Delivery(o, p)

GoodsOf(o) ==
    /\ Untouched(o) /\ OneDelivery(o) /\ OutFirst(o)
    /\ o \notin marred => Straight(o)

GoodsInv == QueriesFit /\ FixesFit /\ \A o \in Orders : GoodsOf(o)

OrdersInv == TypeOK /\ RowsHeld /\ SetAside /\ GoodsInv

-----------------------------------------------------------------------------
(* How what is still to be moved changes                                    *)

LEMMA QtyIs == Qty \subseteq Int /\ Qty \subseteq Nat /\ \A n \in Qty : n \in Amount /\ n # 0
  BY OrdersAssumption DEF Qty, Amount

LEMMA NothingInAll ==
    ASSUME NEW f, DOMAIN f = {}, NEW p
    PROVE  Total(f, p) = 0
  BY DEF Total, Entry

LEMMA RestrictFits ==
    ASSUME NEW S, S \subseteq Int, NEW f \in Figures(S), NEW D, D \subseteq DOMAIN f
    PROVE  /\ Restrict(f, D) \in Figures(S) /\ DOMAIN Restrict(f, D) = D
           /\ S \subseteq Nat => \A p : Total(Restrict(f, D), p) <= Total(f, p)
<1> DEFINE g == Restrict(f, D)
<1>1. PICK E \in SUBSET Keys : f \in [E -> S]
  BY DEF Figures
<1>2. /\ g \in [D -> S] /\ D \in SUBSET Keys /\ DOMAIN g = D /\ DOMAIN f = E
      /\ \A k \in D : g[k] = f[k]
  BY <1>1 DEF Restrict
<1> HIDE DEF g
<1>3. g \in Figures(S)
  BY <1>2 DEF Figures
<1>4. ASSUME S \subseteq Nat, NEW p PROVE Total(g, p) <= Total(f, p)
  <2>1. \A k : Entry(g, k) \in Nat /\ Entry(f, k) \in Nat /\ Entry(g, k) <= Entry(f, k)
    <3> TAKE k
    <3>1. CASE k \in D
      BY <1>1, <1>2, <1>4, <3>1 DEF Entry
    <3>2. CASE k \notin D /\ k \in E
      <4>1. Entry(g, k) = 0 /\ Entry(f, k) = f[k]
        BY <1>2, <3>2 DEF Entry
      <4>2. f[k] \in S
        BY <1>1, <3>2
      <4>3. f[k] \in Nat
        BY <1>4, <4>2
      <4> QED
        BY <4>1, <4>3
    <3>3. CASE k \notin D /\ k \notin E
      BY <1>2, <3>3 DEF Entry
    <3> QED
      BY <3>1, <3>2, <3>3
  <2> QED
    BY <2>1 DEF Total
<1> QED
  BY <1>2, <1>3, <1>4 DEF g

LEMMA PartsTyped ==
    ASSUME NEW q \in Request, NEW o, NEW p
    PROVE  OutOf(q, o, p) \in Int /\ InOf(q, o, p) \in Int
<1>1. CASE q.op = "deliver"
  <2>1. q.out \in Figures(Qty) /\ q.in \in Figures(Qty)
    BY <1>1, RequestTyped
  <2>2. Total(q.out, p) \in Int /\ Total(q.in, p) \in Int
    BY <2>1, QtyIs, FiguresTyped
  <2> QED
    BY <1>1, <2>2 DEF OutOf, InOf
<1>2. CASE q.op = "reconcile"
  <2> DEFINE S == - MaxQty .. MaxQty
  <2>1. q.todo \in Figures(S) /\ S \subseteq Int
    BY <1>2, RequestTyped, OrdersAssumption
  <2> HIDE DEF S
  <2>2. DOMAIN q.todo \ q.half \subseteq DOMAIN q.todo
    OBVIOUS
  <2>3. Ahead(q) \in Figures(S)
    BY <2>1, <2>2, RestrictFits DEF Ahead
  <2>4. Total(q.todo, p) \in Int /\ Total(Ahead(q), p) \in Int
    BY <2>1, <2>3, FiguresTyped
  <2> QED
    BY <1>2, <2>4 DEF OutOf, InOf
<1>3. CASE q.op \notin {"deliver", "reconcile"}
  BY <1>3 DEF OutOf, InOf
<1> QED
  BY <1>1, <1>2, <1>3

\* Where one request changes, what is still to be moved changes by its part.
LEMMA PartsMove ==
    ASSUME TypeOK, TypeOK', NEW c \in Callers, \A d \in Callers \ {c} : call'[d] = call[d],
           NEW o, NEW p
    PROVE  /\ GoingOut(o, p) \in Int /\ ComingIn(o, p) \in Int
           /\ OutOf(call[c], o, p) \in Int /\ OutOf(call'[c], o, p) \in Int
           /\ InOf(call[c], o, p) \in Int /\ InOf(call'[c], o, p) \in Int
           /\ GoingOut(o, p)' = GoingOut(o, p) + (OutOf(call'[c], o, p) - OutOf(call[c], o, p))
           /\ ComingIn(o, p)' = ComingIn(o, p) + (InOf(call'[c], o, p) - InOf(call[c], o, p))
<1> DEFINE f == [d \in Callers |-> OutOf(call[d], o, p)]
           e == [d \in Callers |-> OutOf(call'[d], o, p)]
           g == [d \in Callers |-> InOf(call[d], o, p)]
           h == [d \in Callers |-> InOf(call'[d], o, p)]
<1>1. IsFiniteSet(Callers) /\ Callers \in SUBSET Callers /\ Int \in {Nat, Int}
  BY OrdersAssumption
<1>2. \A d \in Callers : call[d] \in Request /\ call'[d] \in Request
  BY DEF TypeOK
<1>3. /\ f \in [Callers -> Int] /\ e \in [Callers -> Int]
      /\ g \in [Callers -> Int] /\ h \in [Callers -> Int]
  BY <1>2, PartsTyped
<1>4. /\ \A d \in Callers \ {c} : e[d] = f[d] /\ h[d] = g[d]
      /\ f[c] = OutOf(call[c], o, p) /\ e[c] = OutOf(call'[c], o, p)
      /\ g[c] = InOf(call[c], o, p) /\ h[c] = InOf(call'[c], o, p)
  OBVIOUS
<1>5. /\ GoingOut(o, p) = SumOver(f, Callers) /\ GoingOut(o, p)' = SumOver(e, Callers)
      /\ ComingIn(o, p) = SumOver(g, Callers) /\ ComingIn(o, p)' = SumOver(h, Callers)
  BY DEF GoingOut, ComingIn
<1> HIDE DEF f, e, g, h
<1>6. SumOver(f, Callers) \in Int /\ SumOver(g, Callers) \in Int
  BY <1>1, <1>3, SumType
<1>7. SumOver(e, Callers) = SumOver(f, Callers) + (e[c] - f[c])
  BY <1>1, <1>3, <1>4, SumChange
<1>8. SumOver(h, Callers) = SumOver(g, Callers) + (h[c] - g[c])
  BY <1>1, <1>3, <1>4, SumChange
<1>9. /\ OutOf(call[c], o, p) \in Int /\ OutOf(call'[c], o, p) \in Int
      /\ InOf(call[c], o, p) \in Int /\ InOf(call'[c], o, p) \in Int
  BY <1>2, PartsTyped
<1> QED
  BY <1>4, <1>5, <1>6, <1>7, <1>8, <1>9

LEMMA LedgersTyped ==
    ASSUME TypeOK, NEW o \in Orders, NEW p \in Products
    PROVE  /\ left[o][p] \in Int /\ came[o][p] \in Int
           /\ Fixes(fixLeft, o, p) \in Int /\ Fixes(fixCame, o, p) \in Int
<1>1. left[o][p] \in Int /\ came[o][p] \in Int
  BY DEF TypeOK, Amount
<1>2. fixLeft \in [Tickets -> [Products -> Int]] /\ fixCame \in [Tickets -> [Products -> Int]]
  BY DEF TypeOK
<1>3. Fixes(fixLeft, o, p) \in Int
  BY <1>2, FixesSum
<1>4. Fixes(fixCame, o, p) \in Int
  BY <1>2, FixesSum
<1> QED
  BY <1>1, <1>3, <1>4

LEMMA LedgersTypedNext ==
    ASSUME TypeOK', NEW o \in Orders, NEW p \in Products
    PROVE  /\ left'[o][p] \in Int /\ came'[o][p] \in Int
           /\ Fixes(fixLeft', o, p) \in Int /\ Fixes(fixCame', o, p) \in Int
<1>1. left'[o][p] \in Int /\ came'[o][p] \in Int
  BY DEF TypeOK, Amount
<1>2. fixLeft' \in [Tickets -> [Products -> Int]] /\ fixCame' \in [Tickets -> [Products -> Int]]
  BY DEF TypeOK
<1>3. Fixes(fixLeft', o, p) \in Int
  BY <1>2, FixesSum
<1>4. Fixes(fixCame', o, p) \in Int
  BY <1>2, FixesSum
<1> QED
  BY <1>1, <1>3, <1>4

\* A demand stays straight if what one request moved is what it has less to move, or what it
\* has more to move what its lines say more.
LEMMA StraightMoves ==
    ASSUME TypeOK, TypeOK', NEW o \in Orders, Straight(o),
           NEW c \in Callers, \A d \in Callers \ {c} : call'[d] = call[d],
           \A p \in Products :
             /\ left'[o][p] + Fixes(fixLeft', o, p) + OutOf(call'[c], o, p) + Delivery(o, p)
                  = left[o][p] + Fixes(fixLeft, o, p) + OutOf(call[c], o, p) + Delivery(o, p)'
             /\ came'[o][p] + Fixes(fixCame', o, p) + InOf(call'[c], o, p) + Delivery(o, p)
                  = came[o][p] + Fixes(fixCame, o, p) + InOf(call[c], o, p) + Delivery(o, p)'
    PROVE  Straight(o)'
<1> SUFFICES ASSUME NEW p \in Products
             PROVE  /\ left'[o][p] + Fixes(fixLeft', o, p) + GoingOut(o, p)' = Delivery(o, p)'
                    /\ came'[o][p] + Fixes(fixCame', o, p) + ComingIn(o, p)' = Delivery(o, p)'
  BY DEF Straight
<1>1. /\ left[o][p] + Fixes(fixLeft, o, p) + GoingOut(o, p) = Delivery(o, p)
      /\ came[o][p] + Fixes(fixCame, o, p) + ComingIn(o, p) = Delivery(o, p)
  BY DEF Straight
<1>2. /\ GoingOut(o, p) \in Int /\ ComingIn(o, p) \in Int
      /\ OutOf(call[c], o, p) \in Int /\ OutOf(call'[c], o, p) \in Int
      /\ InOf(call[c], o, p) \in Int /\ InOf(call'[c], o, p) \in Int
      /\ GoingOut(o, p)' = GoingOut(o, p) + (OutOf(call'[c], o, p) - OutOf(call[c], o, p))
      /\ ComingIn(o, p)' = ComingIn(o, p) + (InOf(call'[c], o, p) - InOf(call[c], o, p))
  BY PartsMove
<1>3. /\ left[o][p] \in Int /\ came[o][p] \in Int
      /\ Fixes(fixLeft, o, p) \in Int /\ Fixes(fixCame, o, p) \in Int
      /\ left'[o][p] \in Int /\ came'[o][p] \in Int
      /\ Fixes(fixLeft', o, p) \in Int /\ Fixes(fixCame', o, p) \in Int
  BY LedgersTyped, LedgersTypedNext
<1>4. Delivery(o, p) \in Int /\ Delivery(o, p)' \in Int
  BY SumsNow, SumsNext DEF SumsRight
<1>5. left'[o][p] + Fixes(fixLeft', o, p) + GoingOut(o, p)' = Delivery(o, p)'
  <2>1. left'[o][p] + Fixes(fixLeft', o, p) + OutOf(call'[c], o, p) + Delivery(o, p)
           = left[o][p] + Fixes(fixLeft, o, p) + OutOf(call[c], o, p) + Delivery(o, p)'
    OBVIOUS
  <2> DEFINE l == left[o][p]  f == Fixes(fixLeft, o, p)  u == OutOf(call[c], o, p)
             g == GoingOut(o, p)  d == Delivery(o, p)
             l1 == left'[o][p]  f1 == Fixes(fixLeft', o, p)  u1 == OutOf(call'[c], o, p)
             g1 == GoingOut(o, p)'  d1 == Delivery(o, p)'
  <2>2. /\ l \in Int /\ f \in Int /\ u \in Int /\ g \in Int /\ d \in Int
        /\ l1 \in Int /\ f1 \in Int /\ u1 \in Int /\ d1 \in Int
        /\ l + f + g = d /\ l1 + f1 + u1 + d = l + f + u + d1 /\ g1 = g + (u1 - u)
    BY <1>1, <1>2, <1>3, <1>4, <2>1
  <2> HIDE DEF l, f, u, g, d, l1, f1, u1, g1, d1
  <2>3. l1 + f1 + g1 = d1
    BY <2>2
  <2> QED
    BY <2>3 DEF l1, f1, g1, d1
<1>6. came'[o][p] + Fixes(fixCame', o, p) + ComingIn(o, p)' = Delivery(o, p)'
  <2>1. came'[o][p] + Fixes(fixCame', o, p) + InOf(call'[c], o, p) + Delivery(o, p)
           = came[o][p] + Fixes(fixCame, o, p) + InOf(call[c], o, p) + Delivery(o, p)'
    OBVIOUS
  <2> DEFINE l == came[o][p]  f == Fixes(fixCame, o, p)  u == InOf(call[c], o, p)
             g == ComingIn(o, p)  d == Delivery(o, p)
             l1 == came'[o][p]  f1 == Fixes(fixCame', o, p)  u1 == InOf(call'[c], o, p)
             g1 == ComingIn(o, p)'  d1 == Delivery(o, p)'
  <2>2. /\ l \in Int /\ f \in Int /\ u \in Int /\ g \in Int /\ d \in Int
        /\ l1 \in Int /\ f1 \in Int /\ u1 \in Int /\ d1 \in Int
        /\ l + f + g = d /\ l1 + f1 + u1 + d = l + f + u + d1 /\ g1 = g + (u1 - u)
    BY <1>1, <1>2, <1>3, <1>4, <2>1
  <2> HIDE DEF l, f, u, g, d, l1, f1, u1, g1, d1
  <2>3. l1 + f1 + g1 = d1
    BY <2>2
  <2> QED
    BY <2>3 DEF l1, f1, g1, d1
<1> QED
  BY <1>5, <1>6

LEMMA FixesKept ==
    ASSUME FixesFit, UNCHANGED <<fixLeft, fixCame>>,
           \A c \in Callers : call'[c] = call[c] \/ call'[c].op # "reconcile"
    PROVE  FixesFit'
  BY DEF FixesFit

-----------------------------------------------------------------------------
(* Steps that move no goods                                                 *)

\* A step that passes a demand, its ledgers and the calls that move its goods by.
LEMMA GoodsKept ==
    ASSUME TypeOK, QueriesFit, NEW o \in Orders, GoodsOf(o),
           left'[o] = left[o], came'[o] = came[o],
           \A t \in Tickets : About[t] = o => fixLeft'[t] = fixLeft[t] /\ fixCame'[t] = fixCame[t],
           \A c \in Callers : \/ call'[c] = call[c]
                              \/ /\ ~Carries(c, o) /\ ~Carries(c, o)'
                                 /\ ~Corrects(c, o) /\ ~Corrects(c, o)',
           Served(o)' <=> Served(o), o \notin marred' => o \notin marred,
           o \notin marred' => \A p \in Products : Delivery(o, p)' = Delivery(o, p)
    PROVE  GoodsOf(o)'
<1>1. \A c \in Callers : /\ Carries(c, o)' <=> Carries(c, o)
                         /\ Corrects(c, o)' <=> Corrects(c, o)
                         /\ Carries(c, o) \/ Corrects(c, o) => call'[c] = call[c]
  BY DEF Carries, Corrects
<1>2. NoFixesOf(o)' <=> NoFixesOf(o)
  BY DEF NoFixes, NoFixesOf
<1>3. Untouched(o)'
  BY <1>1, <1>2 DEF GoodsOf, Untouched
<1>4. OneDelivery(o)'
  BY <1>1 DEF GoodsOf, OneDelivery
<1>5. OutFirst(o)'
  BY <1>1 DEF GoodsOf, OutFirst
<1>6. ASSUME o \notin marred' PROVE Straight(o)'
  <2> SUFFICES ASSUME NEW p \in Products
               PROVE  /\ left'[o][p] + Fixes(fixLeft', o, p) + GoingOut(o, p)' = Delivery(o, p)'
                      /\ came'[o][p] + Fixes(fixCame', o, p) + ComingIn(o, p)' = Delivery(o, p)'
    BY DEF Straight
  <2>1. /\ left[o][p] + Fixes(fixLeft, o, p) + GoingOut(o, p) = Delivery(o, p)
        /\ came[o][p] + Fixes(fixCame, o, p) + ComingIn(o, p) = Delivery(o, p)
    BY <1>6 DEF GoodsOf, Straight
  <2>2. Delivery(o, p)' = Delivery(o, p)
    BY <1>6
  <2>3. Fixes(fixLeft', o, p) = Fixes(fixLeft, o, p) /\ Fixes(fixCame', o, p) = Fixes(fixCame, o, p)
    <3>1. /\ [t \in {u \in Tickets : About[u] = o} |-> fixLeft'[t][p]]
             = [t \in {u \in Tickets : About[u] = o} |-> fixLeft[t][p]]
          /\ [t \in {u \in Tickets : About[u] = o} |-> fixCame'[t][p]]
             = [t \in {u \in Tickets : About[u] = o} |-> fixCame[t][p]]
      OBVIOUS
    <3> QED
      BY <3>1 DEF Fixes
  <2>4. GoingOut(o, p)' = GoingOut(o, p) /\ ComingIn(o, p)' = ComingIn(o, p)
    <3>1. \A c \in Callers : /\ OutOf(call'[c], o, p) = OutOf(call[c], o, p)
                             /\ InOf(call'[c], o, p) = InOf(call[c], o, p)
      <4> TAKE c \in Callers
      <4>1. CASE Carries(c, o) \/ Corrects(c, o)
        BY <1>1, <4>1
      <4>2. CASE ~Carries(c, o) /\ ~Corrects(c, o)
        <5>1. ~Carries(c, o)' /\ ~Corrects(c, o)'
          BY <1>1, <4>2
        <5> QED
          BY <4>2, <5>1 DEF Carries, Corrects, OutOf, InOf
      <4> QED
        BY <4>1, <4>2
    <3>2. /\ [c \in Callers |-> OutOf(call'[c], o, p)] = [c \in Callers |-> OutOf(call[c], o, p)]
          /\ [c \in Callers |-> InOf(call'[c], o, p)] = [c \in Callers |-> InOf(call[c], o, p)]
      BY <3>1
    <3> QED
      BY <3>2 DEF GoingOut, ComingIn
  <2> QED
    BY <2>1, <2>2, <2>3, <2>4
<1> QED
  BY <1>3, <1>4, <1>5, <1>6 DEF GoodsOf

\* Deliveries and corrections stay what they are, and what was delivered too.
LEMMA GoodsStay ==
    ASSUME TypeOK, TypeOK', GoodsInv,
           UNCHANGED <<left, came, fixLeft, fixCame, marred>>,
           \A c \in Callers : \/ call'[c] = call[c]
                              \/ /\ call[c].op \notin {"deliver", "reconcile"}
                                 /\ call'[c].op \notin {"deliver", "reconcile"}
                                 /\ call'[c].op = "correct" => call'[c].order = About[call'[c].ticket],
           \A o \in Orders : Served(o)' <=> Served(o),
           \A o \in Orders \ marred : \A p \in Products : Delivery(o, p)' = Delivery(o, p)
    PROVE  GoodsInv'
<1>1. QueriesFit'
  BY DEF GoodsInv, QueriesFit
<1>2. FixesFit'
  BY FixesKept DEF GoodsInv
<1>3. ASSUME NEW o \in Orders PROVE GoodsOf(o)'
  <2>1. \A c \in Callers : \/ call'[c] = call[c]
                           \/ /\ ~Carries(c, o) /\ ~Carries(c, o)'
                              /\ ~Corrects(c, o) /\ ~Corrects(c, o)'
    BY DEF Carries, Corrects
  <2>2. GoodsOf(o) /\ QueriesFit
    BY DEF GoodsInv
  <2>3. left'[o] = left[o] /\ came'[o] = came[o]
        /\ \A t \in Tickets : About[t] = o => fixLeft'[t] = fixLeft[t] /\ fixCame'[t] = fixCame[t]
    OBVIOUS
  <2> QED
    BY <2>1, <2>2, <2>3, GoodsKept
<1> QED
  BY <1>1, <1>2, <1>3 DEF GoodsInv

\* Where what is promised and leaving grows no faster than the pool, and no review begins.
LEMMA StaysOnShelf ==
    ASSUME TypeOK, TypeOK', NEW p \in Products, OnShelf(p),
           Waiting(p)' + Leaving(p)' + pool[p] <= Waiting(p) + Leaving(p) + pool'[p],
           \A c \in Callers : call'[c].op = "review" => call'[c] = call[c]
    PROVE  OnShelf(p)'
<1>1. /\ Waiting(p) \in Nat /\ Waiting(p)' \in Nat /\ Leaving(p) \in Nat /\ Leaving(p)' \in Nat
      /\ pool[p] \in Int /\ pool'[p] \in Int
  BY SumsNow, SumsNext DEF SumsRight, Waiting, TypeOK
<1>2. Waiting(p)' + Leaving(p)' <= pool'[p]
  BY <1>1 DEF OnShelf
<1>3. ASSUME NEW c \in Callers, call'[c].op = "review", call'[c].want[p] # 0
      PROVE  Waiting(p)' + Leaving(p)' + call'[c].want[p] <= pool'[p]
  <2>1. call'[c] = call[c]
    BY <1>3
  <2>2. call[c].want[p] \in Nat
    BY <1>3, <2>1, RequestTyped DEF TypeOK
  <2>3. Waiting(p) + Leaving(p) + call[c].want[p] <= pool[p]
    BY <1>3, <2>1 DEF OnShelf
  <2> QED
    BY <1>1, <2>1, <2>2, <2>3
<1> QED
  BY <1>2, <1>3 DEF OnShelf

\* No review begins, and of what is promised no more than what the pool gets.
LEMMA PromisesStay ==
    ASSUME TypeOK, TypeOK', RowsHeld, SetAside, strained \subseteq strained',
           \A c \in Callers : call'[c].op = "review" => call'[c] = call[c],
           \A p \in Products \ strained' :
               Waiting(p)' + Leaving(p)' + pool[p] <= Waiting(p) + Leaving(p) + pool'[p]
    PROVE  RowsHeld' /\ SetAside'
<1>1. RowsHeld'
  BY DEF RowsHeld
<1>2. ASSUME NEW p \in Products \ strained' PROVE OnShelf(p)'
  BY StaysOnShelf DEF SetAside
<1> QED
  BY <1>1, <1>2 DEF SetAside

LEMMA LeavingQuiet ==
    ASSUME TypeOK, TypeOK', left' = left,
           \A c \in Callers : \/ call'[c] = call[c]
                              \/ call[c].op # "deliver" /\ call'[c].op # "deliver"
    PROVE  \A p \in Products : Leaving(p)' <= Leaving(p)
<1> TAKE p \in Products
<1>1. ASSUME NEW c \in Callers PROVE Load(c, p)' <= Load(c, p)
  <2>1. Load(c, p) \in Nat
    BY LoadIs
  <2>2. Load(c, p)' = Load(c, p)
    BY DEF Load
  <2> QED
    BY <2>1, <2>2
<1> QED
  BY <1>1, LeavingLess

LEMMA DeliveriesStay ==
    ASSUME TypeOK, TypeOK', \A o \in Orders : Served(o)' <=> Served(o),
           \A o \in Orders : Served(o) => \A p \in Products : Given(lines'[o], p) = Given(lines[o], p)
    PROVE  \A o \in Orders : \A p \in Products : Delivery(o, p)' = Delivery(o, p)
<1> TAKE o \in Orders
<1> TAKE p \in Products
<1>1. Delivery(o, p) = IF Served(o) THEN Given(lines[o], p) ELSE 0
  BY SumsNow DEF SumsRight, Served
<1>2. Delivery(o, p)' = IF Served(o)' THEN Given(lines'[o], p) ELSE 0
  BY SumsNext DEF SumsRight, Served
<1> QED
  BY <1>1, <1>2

\* A step that neither moves goods nor promises any.
LEMMA QuietStep ==
    ASSUME OrdersInv, TypeOK',
           UNCHANGED <<left, came, fixLeft, fixCame, marred>>,
           strained \subseteq strained',
           \A c \in Callers : \/ call'[c] = call[c]
                              \/ /\ call[c].op \notin {"deliver", "reconcile"}
                                 /\ call'[c].op \notin {"deliver", "reconcile", "review"}
                                 /\ call'[c].op = "correct" => call'[c].order = About[call'[c].ticket],
           \A o \in Orders : Served(o)' <=> Served(o),
           \A o \in Orders : Served(o) => \A p \in Products : Given(lines'[o], p) = Given(lines[o], p),
           \A p \in Products \ strained' : \A u \in Orders : Awaits(u, p)' <= Awaits(u, p),
           \A p \in Products \ strained' : pool[p] <= pool'[p]
    PROVE  OrdersInv'
<1>1. TypeOK /\ RowsHeld /\ SetAside /\ GoodsInv
  BY DEF OrdersInv
<1>2. GoodsInv'
  <2>1. \A o \in Orders \ marred : \A p \in Products : Delivery(o, p)' = Delivery(o, p)
    BY <1>1, DeliveriesStay
  <2> QED
    BY <1>1, <2>1, GoodsStay
<1>3. RowsHeld' /\ SetAside'
  <2>1. \A c \in Callers : call'[c].op = "review" => call'[c] = call[c]
    OBVIOUS
  <2>2. \A p \in Products : Leaving(p)' <= Leaving(p)
    <3>1. \A c \in Callers : \/ call'[c] = call[c]
                             \/ call[c].op # "deliver" /\ call'[c].op # "deliver"
      <4> TAKE c \in Callers
      <4>1. \/ call'[c] = call[c]
            \/ /\ call[c].op \notin {"deliver", "reconcile"}
               /\ call'[c].op \notin {"deliver", "reconcile", "review"}
        OBVIOUS
      <4> QED
        BY <4>1
    <3>2. left' = left
      OBVIOUS
    <3> QED
      BY <1>1, <3>1, <3>2, LeavingQuiet
  <2>3. ASSUME NEW p \in Products \ strained'
        PROVE  Waiting(p)' + Leaving(p)' + pool[p] <= Waiting(p) + Leaving(p) + pool'[p]
    <3>1. Waiting(p)' <= Waiting(p) /\ Waiting(p) \in Nat /\ Waiting(p)' \in Nat
      BY <1>1, WaitingLess
    <3>2. Leaving(p)' <= Leaving(p) /\ Leaving(p) \in Nat /\ Leaving(p)' \in Nat
      BY <1>1, <2>2, SumsNow, SumsNext DEF SumsRight
    <3>3. pool[p] <= pool'[p] /\ pool[p] \in Int /\ pool'[p] \in Int
      BY <1>1 DEF TypeOK
    <3> QED
      BY <3>1, <3>2, <3>3
  <2> QED
    BY <1>1, <2>1, <2>3, PromisesStay
<1> QED
  BY <1>2, <1>3 DEF OrdersInv

\* A demand that does not wait, before or after, promises nothing.
LEMMA AwaitsLess ==
    ASSUME TypeOK, NEW p \in Products, NEW u \in Orders,
           \/ status'[u] = status[u] /\ Claim(lines'[u], p) = Claim(lines[u], p)
           \/ status'[u] # "awaiting"
           \/ Claim(lines'[u], p) = 0
    PROVE  Awaits(u, p)' <= Awaits(u, p)
<1>1. Awaits(u, p) \in Nat
  BY AwaitsIs
<1>2. CASE status'[u] = status[u] /\ Claim(lines'[u], p) = Claim(lines[u], p)
  <2>1. Awaits(u, p)' = Awaits(u, p)
    BY <1>2 DEF Awaits
  <2> QED
    BY <1>1, <2>1
<1>3. CASE status'[u] # "awaiting"
  <2>1. Awaits(u, p)' = 0
    BY <1>3 DEF Awaits
  <2> QED
    BY <1>1, <2>1
<1>4. CASE Claim(lines'[u], p) = 0
  <2>1. Awaits(u, p)' = 0
    BY <1>4 DEF Awaits
  <2> QED
    BY <1>1, <2>1
<1> QED
  BY <1>2, <1>3, <1>4

LEMMA StatusStep ==
    ASSUME OrdersInv, NEW o \in Orders, Cancel(o) \/ Reject(o) \/ FinalApprove(o)
    PROVE  OrdersInv'
<1>1. TypeOK
  BY DEF OrdersInv
<1>2. /\ UNCHANGED <<lines, pool, left, came, fixLeft, fixCame, open, call, strained, marred, slips>>
      /\ \/ status[o] = "pending" /\ status' = [status EXCEPT ![o] = "cancelled"]
         \/ status[o] = "pending" /\ status' = [status EXCEPT ![o] = "rejected"]
         \/ status[o] = "verified" /\ status' = [status EXCEPT ![o] = "approved"]
  BY DEF Cancel, Reject, FinalApprove
<1>3. TypeOK'
  BY <1>1, <1>2 DEF TypeOK
<1>4. \A u \in Orders : Served(u)' <=> Served(u)
  BY <1>1, <1>2 DEF TypeOK, Served
<1>5. ASSUME NEW p \in Products, NEW u \in Orders PROVE Awaits(u, p)' <= Awaits(u, p)
  <2>1. status'[u] = status[u] \/ status'[u] # "awaiting"
    BY <1>1, <1>2 DEF TypeOK
  <2> QED
    BY <1>1, <1>2, <2>1, AwaitsLess
<1>6. \A p \in Products : pool[p] <= pool'[p]
  BY <1>1, <1>2 DEF TypeOK
<1> QED
  BY <1>2, <1>3, <1>4, <1>5, <1>6, QuietStep

LEMMA CallBecomes ==
    ASSUME TypeOK, NEW c \in Callers, NEW q \in Request, call' = [call EXCEPT ![c] = q]
    PROVE  /\ call' \in [Callers -> Request] /\ call'[c] = q
           /\ \A d \in Callers \ {c} : call'[d] = call[d]
  BY DEF TypeOK

LEMMA LinesBecome ==
    ASSUME TypeOK, NEW o \in Orders, NEW ls \in [Keys -> Line], lines' = [lines EXCEPT ![o] = ls]
    PROVE  /\ lines' \in [Orders -> [Keys -> Line]] /\ lines'[o] = ls
           /\ \A u \in Orders \ {o} : lines'[u] = lines[u]
  BY DEF TypeOK

LEMMA NothingClaimed ==
    ASSUME NEW ls, NEW p \in Products, \A k \in KeysOf(p) : ls[k] = NoLine
    PROVE  Claim(ls, p) = 0
  BY DEF Claim, Wanted, KeysOf

LEMMA KeysFinite == IsFiniteSet(Keys)
<1> DEFINE K0 == {}
<1>1. IsFiniteSet(K0 \cup {"asked"})
  BY FS_EmptySet, FS_AddElement
<1>2. IsFiniteSet((K0 \cup {"asked"}) \cup {"added"})
  BY <1>1, FS_AddElement
<1>3. IsFiniteSet(((K0 \cup {"asked"}) \cup {"added"}) \cup {"found"})
  BY <1>2, FS_AddElement
<1>4. ((K0 \cup {"asked"}) \cup {"added"}) \cup {"found"} = {"asked", "added", "found"}
  OBVIOUS
<1>5. IsFiniteSet({"asked", "added", "found"})
  BY <1>3, <1>4
<1> QED
  BY <1>5, OrdersAssumption, FS_Product DEF Keys

LEMMA ExtraTyped ==
    ASSUME TypeOK
    PROVE  Extra \in Nat
<1> DEFINE f == [o \in Orders |-> Cardinality({k \in Present(o) : k[1] # "asked"})]
           C == {d \in Callers : call[d].op = "insert"}
           g == [c \in C |-> Cardinality({k \in DOMAIN call[c].lines : k[1] = "added"})]
<1>1. \A V \in SUBSET Keys : Cardinality(V) \in Nat
  BY KeysFinite, FS_Subset, FS_CardinalityType
<1>2. f \in [Orders -> Nat]
  BY <1>1 DEF Present
<1>3. g \in [C -> Nat]
  <2>1. ASSUME NEW c \in C PROVE DOMAIN call[c].lines \subseteq Keys
    <3>1. call[c].lines \in Figures(Qty) /\ Qty \subseteq Int
      BY RequestTyped DEF TypeOK, Qty
    <3> QED
      BY <3>1, FiguresTyped
  <2>2. \A c \in C : {k \in DOMAIN call[c].lines : k[1] = "added"} \in SUBSET Keys
    BY <2>1
  <2> QED
    BY <1>1, <2>2
<1>4. IsFiniteSet(Orders) /\ IsFiniteSet(C)
  BY OrdersAssumption, FS_Subset
<1>5. f = [o \in Orders |-> f[o]] /\ g = [c \in C |-> g[c]]
  OBVIOUS
<1>6. Extra = SumFunction(f) + SumFunction(g)
  BY DEF Extra
<1> HIDE DEF f, g, C
<1>7. SumOver(f, Orders) \in Nat
  BY <1>2, <1>4, SumType
<1>8. SumOver(g, C) \in Nat
  BY <1>3, <1>4, SumType
<1> QED
  BY <1>5, <1>6, <1>7, <1>8 DEF SumOver

LEMMA SlipTyped ==
    ASSUME TypeOK, Slip
    PROVE  slips' \in 0 .. MaxSlips
<1>1. Extra \in Nat /\ slips \in Nat /\ MaxSlips \in Nat
  BY ExtraTyped, OrdersAssumption DEF TypeOK
<1> QED
  BY <1>1 DEF Slip

LEMMA ApprovedIs ==
    ASSUME TypeOK, NEW o \in Orders, NEW override \in Overrides, Approved(o, override)
    PROVE  /\ status' = [status EXCEPT ![o] = "awaiting"]
           /\ lines' = [lines EXCEPT ![o] = Reviewed(lines[o], override)]
           /\ lines' \in [Orders -> [Keys -> Line]] /\ lines'[o] = Reviewed(lines[o], override)
           /\ \A u \in Orders \ {o} : lines'[u] = lines[u]
<1>1. lines' = [lines EXCEPT ![o] = Reviewed(lines[o], override)]
  BY DEF Approved, Reviewed, Sent, TypeOK
<1>2. lines[o] \in [Keys -> Line]
  BY DEF TypeOK
<1>3. Reviewed(lines[o], override) \in [Keys -> Line]
  BY <1>2, ReviewedSum
<1> QED
  BY <1>1, <1>3, LinesBecome DEF Approved

LEMMA OverrideStep ==
    ASSUME OrdersInv, NEW o \in Orders, Override(o)
    PROVE  OrdersInv'
<1>1. TypeOK
  BY DEF OrdersInv
<1>2. PICK override \in Overrides : Approved(o, override)
  BY DEF Override
<1>3. /\ status[o] = "pending" /\ Slip /\ strained' = strained \cup {k[2] : k \in Present(o)}
      /\ UNCHANGED <<pool, left, came, fixLeft, fixCame, open, call, marred>>
  BY DEF Override
<1>4. /\ status' = [status EXCEPT ![o] = "awaiting"]
      /\ lines' \in [Orders -> [Keys -> Line]] /\ lines'[o] = Reviewed(lines[o], override)
      /\ \A u \in Orders \ {o} : lines'[u] = lines[u]
  BY <1>1, <1>2, ApprovedIs
<1>5. strained' \subseteq Products
  BY <1>1, <1>3, KeysAre DEF TypeOK, Present
<1>6. slips' \in 0 .. MaxSlips
  BY <1>1, <1>3, SlipTyped
<1>7. TypeOK'
  BY <1>1, <1>3, <1>4, <1>5, <1>6 DEF TypeOK
<1>8. \A u \in Orders : Served(u)' <=> Served(u)
  BY <1>1, <1>3, <1>4 DEF TypeOK, Served
<1>9. \A u \in Orders : Served(u) => lines'[u] = lines[u]
  BY <1>3, <1>4 DEF Served
<1>10. ASSUME NEW p \in Products \ strained', NEW u \in Orders PROVE Awaits(u, p)' <= Awaits(u, p)
  <2>1. CASE u = o
    <3>1. ASSUME NEW k \in KeysOf(p) PROVE lines'[o][k] = NoLine
      <4>1. k \in Keys /\ k[2] = p
        BY KeysAre
      <4>2. lines[o][k] = NoLine
        BY <1>3, <1>10, <4>1 DEF Present
      <4> QED
        BY <1>4, <4>1, <4>2 DEF Reviewed
    <3>2. Claim(lines'[o], p) = 0
      BY <3>1, NothingClaimed
    <3> QED
      BY <1>1, <2>1, <3>2, AwaitsLess
  <2>2. CASE u # o
    BY <1>1, <1>4, <2>2, AwaitsLess DEF TypeOK
  <2> QED
    BY <2>1, <2>2
<1>11. \A p \in Products : pool[p] <= pool'[p]
  BY <1>1, <1>3 DEF TypeOK
<1> QED
  BY <1>3, <1>7, <1>8, <1>9, <1>10, <1>11, QuietStep

LEMMA EditStep ==
    ASSUME OrdersInv, NEW o \in Orders, NEW asked \in Asked, Edit(o, asked)
    PROVE  OrdersInv'
<1>1. TypeOK
  BY DEF OrdersInv
<1> DEFINE ls == [k \in Keys |-> IF k[1] # "asked" THEN lines[o][k]
                                 ELSE IF k \in DOMAIN asked
                                      THEN [qty |-> asked[k], approved |-> FALSE] ELSE NoLine]
<1>2. /\ status[o] = "pending" /\ lines' = [lines EXCEPT ![o] = ls]
      /\ UNCHANGED <<status, pool, left, came, fixLeft, fixCame, open, call, strained, marred, slips>>
  BY <1>1 DEF Edit, TypeOK
<1>3. ls \in [Keys -> Line]
  <2> SUFFICES ASSUME NEW k \in Keys PROVE ls[k] \in Line
    OBVIOUS
  <2>1. k \in DOMAIN asked => asked[k] \in Amount
    BY DEF Asked, Qty, Amount
  <2> QED
    BY <1>1, <2>1 DEF TypeOK, Line
<1> HIDE DEF ls
<1>4. /\ lines' \in [Orders -> [Keys -> Line]]
      /\ \A u \in Orders \ {o} : lines'[u] = lines[u]
  BY <1>1, <1>2, <1>3, LinesBecome
<1>5. TypeOK'
  BY <1>1, <1>2, <1>4 DEF TypeOK
<1>6. \A u \in Orders : (Served(u)' <=> Served(u)) /\ (Served(u) => lines'[u] = lines[u])
  BY <1>1, <1>2, <1>4 DEF Served
<1>7. ASSUME NEW p \in Products, NEW u \in Orders PROVE Awaits(u, p)' <= Awaits(u, p)
  <2>1. \/ status'[u] = status[u] /\ lines'[u] = lines[u]
        \/ status'[u] # "awaiting"
    BY <1>2, <1>4
  <2> QED
    BY <1>1, <2>1, AwaitsLess
<1>8. \A p \in Products : pool[p] <= pool'[p]
  BY <1>1, <1>2 DEF TypeOK
<1> QED
  BY <1>2, <1>5, <1>6, <1>7, <1>8, QuietStep

LEMMA DeleteStep ==
    ASSUME OrdersInv, NEW t \in Tickets, Delete(t)
    PROVE  OrdersInv'
<1>1. TypeOK
  BY DEF OrdersInv
<1> DEFINE o == About[t]
           ls == [k \in Keys |-> NoLine]
<1>2. o \in Orders
  BY OrdersAssumption
<1>3. /\ status[o] \in {"pending", "rejected", "cancelled"}
      /\ status' = [status EXCEPT ![o] = "deleted"]
      /\ lines' = [lines EXCEPT ![o] = ls] /\ open' = open \ {t}
      /\ UNCHANGED <<pool, left, came, fixLeft, fixCame, call, strained, marred, slips>>
  BY DEF Delete
<1>4. ls \in [Keys -> Line]
  BY DEF Line
<1> HIDE DEF ls, o
<1>5. /\ lines' \in [Orders -> [Keys -> Line]]
      /\ \A u \in Orders \ {o} : lines'[u] = lines[u]
  BY <1>1, <1>2, <1>3, <1>4, LinesBecome
<1>6. TypeOK'
  BY <1>1, <1>2, <1>3, <1>5 DEF TypeOK
<1>7. \A u \in Orders : (Served(u)' <=> Served(u)) /\ (Served(u) => lines'[u] = lines[u])
  BY <1>1, <1>2, <1>3, <1>5 DEF Served, TypeOK
<1>8. ASSUME NEW p \in Products, NEW u \in Orders PROVE Awaits(u, p)' <= Awaits(u, p)
  <2>1. \/ status'[u] = status[u] /\ lines'[u] = lines[u]
        \/ status'[u] # "awaiting"
    BY <1>1, <1>2, <1>3, <1>5 DEF TypeOK
  <2> QED
    BY <1>1, <2>1, AwaitsLess
<1>9. \A p \in Products : pool[p] <= pool'[p]
  BY <1>1, <1>3 DEF TypeOK
<1> QED
  BY <1>3, <1>6, <1>7, <1>8, <1>9, QuietStep

LEMMA PrepareStep ==
    ASSUME OrdersInv, NEW p \in Products, NEW q \in Qty, Prepare(p, q)
    PROVE  OrdersInv'
<1>1. TypeOK /\ q \in Nat
  BY DEF OrdersInv, Qty
<1>2. /\ pool' = [pool EXCEPT ![p] = @ + q]
      /\ UNCHANGED <<status, lines, left, came, fixLeft, fixCame, open, call, strained, marred, slips>>
  BY DEF Prepare
<1>3. TypeOK'
  BY <1>1, <1>2 DEF TypeOK
<1>4. \A u \in Orders : (Served(u)' <=> Served(u)) /\ (Served(u) => lines'[u] = lines[u])
  BY <1>2 DEF Served
<1>5. ASSUME NEW r \in Products, NEW u \in Orders PROVE Awaits(u, r)' <= Awaits(u, r)
  BY <1>1, <1>2, AwaitsLess
<1>6. \A r \in Products : pool[r] <= pool'[r]
  BY <1>1, <1>2 DEF TypeOK
<1> QED
  BY <1>2, <1>3, <1>4, <1>5, <1>6, QuietStep

LEMMA CreateStep ==
    ASSUME OrdersInv, NEW c \in Callers, NEW o \in Orders, NEW asked \in Asked, Create(c, o, asked)
    PROVE  OrdersInv'
<1> DEFINE q == [op |-> "insert", order |-> o, lines |-> asked]
<1>1. TypeOK
  BY DEF OrdersInv
<1>2. /\ call[c] = Free /\ status[o] = "none" /\ status' = [status EXCEPT ![o] = "pending"]
      /\ call' = [call EXCEPT ![c] = q]
      /\ UNCHANGED <<lines, pool, left, came, fixLeft, fixCame, open, strained, marred, slips>>
  BY DEF Create
<1>3. q \in Request /\ q.op = "insert"
  <2>1. asked \in Figures(Qty)
    BY DEF Asked, Figures
  <2> QED
    BY <2>1 DEF Request
<1> HIDE DEF q
<1>4. /\ call' \in [Callers -> Request] /\ call'[c] = q
      /\ \A d \in Callers \ {c} : call'[d] = call[d]
  BY <1>1, <1>2, <1>3, CallBecomes
<1>5. TypeOK'
  BY <1>1, <1>2, <1>4 DEF TypeOK
<1>6. \A u \in Orders : (Served(u)' <=> Served(u)) /\ (Served(u) => lines'[u] = lines[u])
  BY <1>1, <1>2 DEF Served, TypeOK
<1>7. ASSUME NEW p \in Products, NEW u \in Orders PROVE Awaits(u, p)' <= Awaits(u, p)
  <2>1. status'[u] = status[u] \/ status'[u] # "awaiting"
    BY <1>1, <1>2 DEF TypeOK
  <2> QED
    BY <1>1, <1>2, <2>1, AwaitsLess
<1>8. \A p \in Products : pool[p] <= pool'[p]
  BY <1>1, <1>2 DEF TypeOK
<1>9. \A d \in Callers : \/ call'[d] = call[d]
                         \/ /\ call[d].op \notin {"deliver", "reconcile"}
                            /\ call'[d].op \notin {"deliver", "reconcile", "review"}
                            /\ call'[d].op = "correct" => call'[d].order = About[call'[d].ticket]
  BY <1>2, <1>3, <1>4 DEF Free
<1> QED
  BY <1>2, <1>5, <1>6, <1>7, <1>8, <1>9, QuietStep

\* A step that only changes what a call that neither reviews nor moves goods has in hand.
LEMMA CallStep ==
    ASSUME OrdersInv, NEW c \in Callers, NEW q \in Request, call' = [call EXCEPT ![c] = q],
           call[c].op \notin {"deliver", "reconcile"}, q.op \notin {"deliver", "reconcile", "review"},
           q.op = "correct" => q.order = About[q.ticket],
           UNCHANGED <<status, lines, pool, left, came, fixLeft, fixCame, open, strained, marred, slips>>
    PROVE  OrdersInv'
<1>1. TypeOK
  BY DEF OrdersInv
<1>2. /\ call' \in [Callers -> Request] /\ call'[c] = q
      /\ \A d \in Callers \ {c} : call'[d] = call[d]
  BY <1>1, CallBecomes
<1>3. TypeOK'
  BY <1>1, <1>2 DEF TypeOK
<1>4. \A u \in Orders : (Served(u)' <=> Served(u)) /\ (Served(u) => lines'[u] = lines[u])
  BY DEF Served
<1>5. ASSUME NEW p \in Products, NEW u \in Orders PROVE Awaits(u, p)' <= Awaits(u, p)
  BY <1>1, AwaitsLess
<1>6. \A p \in Products : pool[p] <= pool'[p]
  BY <1>1 DEF TypeOK
<1>7. \A d \in Callers : \/ call'[d] = call[d]
                         \/ /\ call[d].op \notin {"deliver", "reconcile"}
                            /\ call'[d].op \notin {"deliver", "reconcile", "review"}
                            /\ call'[d].op = "correct" => call'[d].order = About[call'[d].ticket]
  <2> TAKE d \in Callers
  <2>1. CASE d = c
    BY <1>2, <2>1
  <2>2. CASE d # c
    BY <1>2, <2>2
  <2> QED
    BY <2>1, <2>2
<1> QED
  BY <1>3, <1>4, <1>5, <1>6, <1>7, QuietStep

LEMMA AddItemStep ==
    ASSUME OrdersInv, NEW c \in Callers, NEW o \in Orders, NEW p \in Products, NEW n \in Qty,
           AddItem(c, o, p, n)
    PROVE  OrdersInv'
<1> DEFINE D == {<<"added", p>>}
           f == [k \in D |-> n]
           q == [op |-> "insert", order |-> o, lines |-> f]
<1>1. D \in SUBSET Keys
  BY DEF Keys
<1>2. f \in Figures(Qty)
  <2>1. f \in [D -> Qty]
    OBVIOUS
  <2> HIDE DEF D, f
  <2> QED
    BY <1>1, <2>1 DEF Figures
<1>3. q \in Request /\ q.op = "insert"
  <2> HIDE DEF f
  <2> QED
    BY <1>2 DEF Request
<1>4. /\ call[c].op = "none" /\ call' = [call EXCEPT ![c] = q]
      /\ UNCHANGED <<status, lines, pool, left, came, fixLeft, fixCame, open, strained, marred, slips>>
  BY DEF AddItem, Free
<1> HIDE DEF q
<1> QED
  BY <1>3, <1>4, CallStep

LEMMA StartCorrectStep ==
    ASSUME OrdersInv, NEW c \in Callers, NEW t \in Tickets, StartCorrect(c, t)
    PROVE  OrdersInv'
<1> DEFINE q == [op |-> "correct", ticket |-> t, order |-> About[t]]
<1>1. q \in Request /\ q.op = "correct" /\ q.order = About[q.ticket]
  BY OrdersAssumption DEF Request
<1>2. /\ call[c].op = "none" /\ call' = [call EXCEPT ![c] = q]
      /\ UNCHANGED <<status, lines, pool, left, came, fixLeft, fixCame, open, strained, marred, slips>>
  BY DEF StartCorrect, Free
<1> HIDE DEF q
<1> QED
  BY <1>1, <1>2, CallStep

LEMMA FreeTyped == Free \in Request /\ Free.op = "none"
  BY DEF Request, Free

\* Lines of a demand that was removed, or is not decided, count for nothing; of one that
\* waits they strain the promise; of one that is served they are not approved.
LEMMA InsertStep ==
    ASSUME OrdersInv, NEW c \in Callers, Insert(c)
    PROVE  OrdersInv'
<1> DEFINE o == call[c].order
           new == {k \in DOMAIN call[c].lines : lines[o][k] = NoLine}
           ls == [k \in Keys |-> IF k \in new THEN [qty |-> call[c].lines[k], approved |-> FALSE]
                                 ELSE lines[o][k]]
<1>1. TypeOK
  BY DEF OrdersInv
<1>2. call[c].op = "insert" /\ call' = [call EXCEPT ![c] = Free]
      /\ UNCHANGED <<status, pool, left, came, fixLeft, fixCame, open, marred, slips>>
  BY DEF Insert, Answer
<1>3. o \in Orders /\ call[c].lines \in Figures(Qty)
  BY <1>1, <1>2, RequestTyped DEF TypeOK
<1>4. DOMAIN call[c].lines \subseteq Keys /\ \A k \in DOMAIN call[c].lines : call[c].lines[k] \in Qty
  <2>1. Qty \subseteq Int
    BY DEF Qty
  <2> QED
    BY <1>3, <2>1, FiguresTyped
<1>5. CASE status[o] = "deleted"
  <2>1. UNCHANGED <<lines, strained>>
    BY <1>5 DEF Insert
  <2> QED
    BY <1>2, <2>1, FreeTyped, CallStep
<1>6. CASE status[o] # "deleted"
  <2>1. /\ lines' = [lines EXCEPT ![o] = ls]
        /\ strained' = IF status[o] = "awaiting"
                       THEN strained \cup {k[2] : k \in new} ELSE strained
    BY <1>1, <1>3, <1>6 DEF Insert, TypeOK
  <2>2. ls \in [Keys -> Line]
    <3> SUFFICES ASSUME NEW k \in Keys PROVE ls[k] \in Line
      OBVIOUS
    <3>1. CASE k \in new
      <4>1. call[c].lines[k] \in Amount
        BY <1>4, <3>1 DEF Qty, Amount
      <4> QED
        BY <3>1, <4>1 DEF Line
    <3>2. CASE k \notin new
      BY <1>1, <1>3, <3>2 DEF TypeOK
    <3> QED
      BY <3>1, <3>2
  <2>3. \A k \in new : k \in Keys /\ lines[o][k] = NoLine /\ ls[k].approved = FALSE
    BY <1>4
  <2>4. \A k \in Keys \ new : ls[k] = lines[o][k]
    OBVIOUS
  <2> HIDE DEF ls, new
  <2>5. /\ lines' \in [Orders -> [Keys -> Line]] /\ lines'[o] = ls
        /\ \A u \in Orders \ {o} : lines'[u] = lines[u]
    BY <1>1, <1>3, <2>1, <2>2, LinesBecome
  <2>6. /\ call' \in [Callers -> Request] /\ call'[c] = Free
        /\ \A d \in Callers \ {c} : call'[d] = call[d]
    BY <1>1, <1>2, FreeTyped, CallBecomes
  <2>7. strained' \subseteq Products /\ strained \subseteq strained'
    BY <1>1, <2>1, <2>3, KeysAre DEF TypeOK
  <2>8. TypeOK'
    BY <1>1, <1>2, <2>5, <2>6, <2>7 DEF TypeOK
  <2>9. \A u \in Orders : Served(u)' <=> Served(u)
    BY <1>2 DEF Served
  <2>10. ASSUME NEW u \in Orders, NEW p \in Products PROVE Given(lines'[u], p) = Given(lines[u], p)
    <3>1. \A k \in Keys : ApprovedQty(ls[k]) = ApprovedQty(lines[o][k])
      BY <2>3, <2>4 DEF ApprovedQty, NoLine
    <3>2. KeysOf(p) \subseteq Keys
      BY KeysAre
    <3>3. Given(ls, p) = Given(lines[o], p)
      BY <3>1, <3>2 DEF Given, KeysOf
    <3> QED
      BY <2>5, <3>3
  <2>11. ASSUME NEW p \in Products \ strained', NEW u \in Orders PROVE Awaits(u, p)' <= Awaits(u, p)
    <3>1. CASE u = o /\ status[o] = "awaiting"
      <4>1. \A k \in KeysOf(p) : k \in Keys /\ k[2] = p
        BY KeysAre
      <4>2. \A k \in KeysOf(p) : ls[k] = lines[o][k]
        BY <2>1, <2>4, <2>11, <3>1, <4>1
      <4>3. Claim(ls, p) = Claim(lines[o], p)
        BY <4>2 DEF Claim, KeysOf
      <4> QED
        BY <1>1, <1>2, <2>5, <3>1, <4>3, AwaitsLess
    <3>2. CASE u # o \/ status[o] # "awaiting"
      <4>1. \/ status'[u] = status[u] /\ lines'[u] = lines[u]
            \/ status'[u] # "awaiting"
        BY <1>2, <2>5, <3>2
      <4> QED
        BY <1>1, <4>1, AwaitsLess
    <3> QED
      BY <3>1, <3>2
  <2>12. \A p \in Products : pool[p] <= pool'[p]
    BY <1>1, <1>2 DEF TypeOK
  <2>13. \A d \in Callers : \/ call'[d] = call[d]
                            \/ /\ call[d].op \notin {"deliver", "reconcile"}
                               /\ call'[d].op \notin {"deliver", "reconcile", "review"}
                               /\ call'[d].op = "correct" => call'[d].order = About[call'[d].ticket]
    BY <1>2, <2>6, FreeTyped
  <2> QED
    BY <1>2, <2>7, <2>8, <2>9, <2>10, <2>11, <2>12, <2>13, QuietStep
<1> QED
  BY <1>5, <1>6

-----------------------------------------------------------------------------
(* Steps that promise goods, or take them from what is promised             *)

\* Where no demand claims more and nothing else leaves.
LEMMA StillWaiting ==
    ASSUME TypeOK, TypeOK', NEW p \in Products, UNCHANGED <<status, lines>>
    PROVE  Waiting(p)' <= Waiting(p) /\ Waiting(p) \in Nat /\ Waiting(p)' \in Nat
<1>1. \A u \in Orders : Awaits(u, p)' <= Awaits(u, p)
  BY AwaitsLess
<1> QED
  BY <1>1, WaitingLess

LEMMA SellStep ==
    ASSUME OrdersInv, NEW p \in Products, NEW q \in Qty, Sell(p, q)
    PROVE  OrdersInv'
<1>1. TypeOK /\ RowsHeld /\ SetAside /\ GoodsInv /\ q \in Nat
  BY DEF OrdersInv, Qty
<1>2. /\ Unlocked(p) /\ q <= pool[p] - Outstanding(p, {})
      /\ pool' = [pool EXCEPT ![p] = @ - q]
      /\ strained' = IF Leaving(p) > 0 THEN strained \cup {p} ELSE strained
      /\ UNCHANGED <<status, lines, left, came, fixLeft, fixCame, open, call, marred, slips>>
  BY DEF Sell
<1>3. TypeOK'
  BY <1>1, <1>2 DEF TypeOK
<1>4. \A u \in Orders : (Served(u)' <=> Served(u)) /\ (Served(u) => lines'[u] = lines[u])
  BY <1>2 DEF Served
<1>5. \A u \in Orders : \A r \in Products : Delivery(u, r)' = Delivery(u, r)
  BY <1>1, <1>3, <1>4, DeliveriesStay
<1>6. GoodsInv'
  BY <1>1, <1>2, <1>3, <1>4, <1>5, GoodsStay
<1>7. RowsHeld'
  BY <1>1, <1>2 DEF RowsHeld
<1>8. ASSUME NEW r \in Products \ strained' PROVE OnShelf(r)'
  <2>1. OnShelf(r)
    BY <1>1, <1>2 DEF SetAside
  <2>2. Waiting(r)' <= Waiting(r) /\ Waiting(r) \in Nat /\ Waiting(r)' \in Nat
    BY <1>1, <1>2, <1>3, StillWaiting
  <2>3. Leaving(r)' <= Leaving(r) /\ Leaving(r) \in Nat /\ Leaving(r)' \in Nat
    BY <1>1, <1>2, <1>3, LeavingQuiet, SumsNow, SumsNext DEF SumsRight
  <2>4. CASE r = p
    <3>1. Leaving(p) = 0
      BY <1>2, <1>8, <2>3, <2>4
    <3>2. Waiting(p) <= Outstanding(p, {}) /\ Outstanding(p, {}) \in Nat
      BY <1>1, OutstandingCounts
    <3>3. pool'[p] = pool[p] - q /\ pool[p] \in Int
      BY <1>1, <1>2 DEF TypeOK
    <3>4. Waiting(p)' + Leaving(p)' <= pool'[p]
      BY <1>1, <1>2, <2>2, <2>3, <2>4, <3>1, <3>2, <3>3
    <3>5. \A c \in Callers : call'[c].op = "review" => call'[c].want[p] = 0
      BY <1>2 DEF Unlocked
    <3> QED
      BY <2>4, <3>4, <3>5 DEF OnShelf
  <2>5. CASE r # p
    <3>1. pool'[r] = pool[r] /\ pool[r] \in Int
      BY <1>1, <1>2, <2>5 DEF TypeOK
    <3>2. Waiting(r)' + Leaving(r)' + pool[r] <= Waiting(r) + Leaving(r) + pool'[r]
      BY <2>2, <2>3, <3>1
    <3> QED
      BY <1>1, <1>2, <1>3, <2>1, <3>2, StaysOnShelf
  <2> QED
    BY <2>4, <2>5
<1> QED
  BY <1>3, <1>6, <1>7, <1>8 DEF OrdersInv, SetAside

\* What a review sends is what the lines claim once it is written.
LEMMA ToSendIs ==
    ASSUME TypeOK, NEW o \in Orders, NEW override \in Overrides
    PROVE  /\ ToSend(o, override) \in [Products -> Nat]
           /\ \A p \in Products : ToSend(o, override)[p] = Claim(Reviewed(lines[o], override), p)
<1>1. lines[o] \in [Keys -> Line]
  BY DEF TypeOK
<1>2. Reviewed(lines[o], override) \in [Keys -> Line]
  BY <1>1, ReviewedSum
<1>3. ASSUME NEW p \in Products
      PROVE  /\ Claim(Reviewed(lines[o], override), p) \in Nat
             /\ ToSend(o, override)[p] = Claim(Reviewed(lines[o], override), p)
  <2>1. OfProduct(o, p) = {k \in {j \in Keys : lines[o][j] # NoLine} : k[2] = p}
    BY DEF OfProduct, Present
  <2>2. Claim(Reviewed(lines[o], override), p) \in Nat
    BY <1>2, LinesSum
  <2>3. ToSend(o, override)[p] =
          SumFunction([k \in OfProduct(o, p) |->
                          IF override[k[2]] # None THEN override[k[2]] ELSE lines[o][k].qty])
    BY DEF ToSend, Sent
  <2> QED
    BY <1>1, <2>1, <2>2, <2>3, ReviewedSum
<1> QED
  BY <1>3 DEF ToSend

\* A check that finds enough leaves what is wanted beside what waits.
LEMMA CoveredLeaves ==
    ASSUME TypeOK, NEW o \in Orders, NEW want \in [Products -> Nat], Covered(want, o),
           NEW p \in Products, want[p] # 0, Leaving(p) = 0
    PROVE  Waiting(p) + Leaving(p) + want[p] <= pool[p] + Awaits(o, p)
<1>1. want[p] <= pool[p] - Outstanding(p, {o})
  BY DEF Covered
<1>2. /\ Waiting(p) <= Outstanding(p, {o}) + Awaits(o, p)
      /\ Outstanding(p, {o}) \in Nat /\ Awaits(o, p) \in Nat /\ Waiting(p) \in Nat
  BY OutstandingCounts, AwaitsIs, SumsNow DEF SumsRight, Waiting
<1>3. pool[p] \in Int /\ want[p] \in Nat
  BY DEF TypeOK
<1> QED
  BY <1>1, <1>2, <1>3

LEMMA CheckReviewStep ==
    ASSUME OrdersInv, NEW c \in Callers, NEW o \in Orders, CheckReview(c, o)
    PROVE  OrdersInv'
<1>1. TypeOK /\ RowsHeld /\ SetAside /\ GoodsInv
  BY DEF OrdersInv
<1>2. PICK override \in Overrides :
         /\ \A p \in Products : ToSend(o, override)[p] > 0 => RowFree(c, p)
         /\ Covered(ToSend(o, override), o)
         /\ call' = [call EXCEPT ![c] = [op |-> "review", order |-> o, override |-> override,
                                         want |-> ToSend(o, override)]]
         /\ strained' = strained \cup Unseen(ToSend(o, override))
  BY DEF CheckReview
<1> DEFINE want == ToSend(o, override)
           q == [op |-> "review", order |-> o, override |-> override, want |-> want]
<1>3. /\ call[c].op = "none" /\ status[o] = "pending"
      /\ UNCHANGED <<status, lines, pool, left, came, fixLeft, fixCame, open, marred, slips>>
  BY DEF CheckReview, Free
<1>4. want \in [Products -> Nat]
  BY <1>1, ToSendIs
<1>5. /\ \A p \in Products : want[p] > 0 => RowFree(c, p)
      /\ Covered(want, o) /\ strained' = strained \cup Unseen(want)
      /\ call' = [call EXCEPT ![c] = q]
  BY <1>2
<1> HIDE DEF want
<1>6. q \in Request /\ q.op = "review" /\ q.want = want
  BY <1>4 DEF Request
<1> HIDE DEF q
<1>7. /\ call' \in [Callers -> Request] /\ call'[c] = q
      /\ \A d \in Callers \ {c} : call'[d] = call[d]
  BY <1>1, <1>5, <1>6, CallBecomes
<1>8. TypeOK'
  BY <1>1, <1>3, <1>5, <1>7 DEF TypeOK, Unseen
<1>9. GoodsInv'
  <2>1. \A u \in Orders : (Served(u)' <=> Served(u)) /\ (Served(u) => lines'[u] = lines[u])
    BY <1>3 DEF Served
  <2>2. \A u \in Orders : \A r \in Products : Delivery(u, r)' = Delivery(u, r)
    BY <1>1, <1>8, <2>1, <1>3, DeliveriesStay
  <2>3. \A d \in Callers : \/ call'[d] = call[d]
                           \/ /\ call[d].op \notin {"deliver", "reconcile"}
                              /\ call'[d].op \notin {"deliver", "reconcile"}
                              /\ call'[d].op = "correct" => call'[d].order = About[call'[d].ticket]
    BY <1>3, <1>6, <1>7
  <2> QED
    BY <1>1, <1>3, <1>8, <2>1, <2>2, <2>3, GoodsStay
<1>10. RowsHeld'
  <2> SUFFICES ASSUME NEW d \in Callers, NEW e \in Callers, NEW p \in Products, d # e,
                      call'[d].op = "review", call'[e].op = "review"
               PROVE  call'[d].want[p] = 0 \/ call'[e].want[p] = 0
    BY DEF RowsHeld
  <2>1. want[p] = 0 \/ RowFree(c, p)
    BY <1>4, <1>5
  <2>2. CASE d = c
    BY <1>6, <1>7, <2>1, <2>2 DEF RowFree
  <2>3. CASE e = c
    BY <1>6, <1>7, <2>1, <2>3 DEF RowFree
  <2>4. CASE d # c /\ e # c
    BY <1>1, <1>7, <2>4 DEF RowsHeld
  <2> QED
    BY <2>2, <2>3, <2>4
<1>11. ASSUME NEW p \in Products \ strained' PROVE OnShelf(p)'
  <2>1. OnShelf(p)
    BY <1>1, <1>5 DEF SetAside
  <2>2. Waiting(p)' <= Waiting(p) /\ Waiting(p) \in Nat /\ Waiting(p)' \in Nat
    BY <1>1, <1>3, <1>8, StillWaiting
  <2>3. Leaving(p)' <= Leaving(p) /\ Leaving(p) \in Nat /\ Leaving(p)' \in Nat
    <3>1. \A d \in Callers : \/ call'[d] = call[d]
                             \/ call[d].op # "deliver" /\ call'[d].op # "deliver"
      BY <1>3, <1>6, <1>7
    <3> QED
      BY <1>1, <1>3, <1>8, <3>1, LeavingQuiet, SumsNow, SumsNext DEF SumsRight
  <2>4. pool'[p] = pool[p] /\ pool[p] \in Int
    BY <1>1, <1>3 DEF TypeOK
  <2>5. Waiting(p)' + Leaving(p)' <= pool'[p]
    BY <2>1, <2>2, <2>3, <2>4 DEF OnShelf
  <2>6. ASSUME NEW d \in Callers, call'[d].op = "review", call'[d].want[p] # 0
        PROVE  Waiting(p)' + Leaving(p)' + call'[d].want[p] <= pool'[p]
    <3>1. CASE d = c
      <4>1. call'[d].want[p] = want[p] /\ want[p] # 0 /\ want[p] \in Nat
        BY <1>4, <1>6, <1>7, <2>6, <3>1
      <4>2. Leaving(p) = 0
        BY <1>5, <1>11, <2>3, <4>1 DEF Unseen
      <4>3. Awaits(o, p) = 0
        BY <1>3 DEF Awaits
      <4>4. Waiting(p) + Leaving(p) + want[p] <= pool[p] + Awaits(o, p)
        BY <1>1, <1>4, <1>5, <4>1, <4>2, CoveredLeaves
      <4> QED
        BY <2>2, <2>3, <2>4, <4>1, <4>3, <4>4
    <3>2. CASE d # c
      <4>1. call'[d] = call[d] /\ call[d].want[p] \in Nat
        BY <1>1, <1>7, <2>6, <3>2, RequestTyped DEF TypeOK
      <4>2. Waiting(p) + Leaving(p) + call[d].want[p] <= pool[p]
        BY <2>1, <2>6, <4>1 DEF OnShelf
      <4> QED
        BY <2>2, <2>3, <2>4, <4>1, <4>2
    <3> QED
      BY <3>1, <3>2
  <2> QED
    BY <2>5, <2>6 DEF OnShelf
<1> QED
  BY <1>8, <1>9, <1>10, <1>11 DEF OrdersInv, SetAside

\* The row of a product a review wants is its own: no other review wants any.
LEMMA WriteReviewStep ==
    ASSUME OrdersInv, NEW c \in Callers, WriteReview(c)
    PROVE  OrdersInv'
<1>1. TypeOK /\ RowsHeld /\ SetAside /\ GoodsInv
  BY DEF OrdersInv
<1>2. /\ call[c].op = "review" /\ call' = [call EXCEPT ![c] = Free]
      /\ UNCHANGED <<pool, left, came, fixLeft, fixCame, open, marred, slips>>
  BY DEF WriteReview, Answer
<1>3. PICK o \in Orders, override \in Overrides, want \in [Products -> Nat] :
         o = call[c].order /\ override = call[c].override /\ want = call[c].want
  BY <1>1, <1>2, RequestTyped DEF TypeOK
<1>4. CASE status[o] # "pending"
  <2>1. UNCHANGED <<status, lines, strained>>
    BY <1>3, <1>4 DEF WriteReview
  <2> QED
    BY <1>2, <2>1, FreeTyped, CallStep
<1>5. CASE status[o] = "pending"
  <2> DEFINE now == ToSend(o, override)
  <2>1. /\ Approved(o, override)
        /\ strained' = strained \cup {p \in Products : now[p] > want[p]}
    BY <1>3, <1>5 DEF WriteReview
  <2>2. /\ now \in [Products -> Nat]
        /\ \A p \in Products : now[p] = Claim(Reviewed(lines[o], override), p)
    BY <1>1, <1>3, ToSendIs
  <2>3. /\ status' = [status EXCEPT ![o] = "awaiting"]
        /\ lines' \in [Orders -> [Keys -> Line]] /\ lines'[o] = Reviewed(lines[o], override)
        /\ \A u \in Orders \ {o} : lines'[u] = lines[u]
    BY <1>1, <1>3, <2>1, ApprovedIs
  <2> HIDE DEF now
  <2>4. /\ call' \in [Callers -> Request] /\ call'[c] = Free
        /\ \A d \in Callers \ {c} : call'[d] = call[d]
    BY <1>1, <1>2, FreeTyped, CallBecomes
  <2>5. TypeOK'
    BY <1>1, <1>2, <1>3, <2>1, <2>3, <2>4 DEF TypeOK
  <2>6. \A u \in Orders : (Served(u)' <=> Served(u)) /\ (Served(u) => lines'[u] = lines[u])
    BY <1>1, <1>3, <1>5, <2>3 DEF TypeOK, Served
  <2>7. \A u \in Orders : \A r \in Products : Delivery(u, r)' = Delivery(u, r)
    BY <1>1, <2>5, <2>6, DeliveriesStay
  <2>8. \A d \in Callers : \/ call'[d] = call[d]
                           \/ /\ call[d].op \notin {"deliver", "reconcile"}
                              /\ call'[d].op \notin {"deliver", "reconcile", "review"}
                              /\ call'[d].op = "correct" => call'[d].order = About[call'[d].ticket]
    BY <1>2, <2>4, FreeTyped
  <2>9. GoodsInv'
    <3>1. \A d \in Callers : \/ call'[d] = call[d]
                             \/ /\ call[d].op \notin {"deliver", "reconcile"}
                                /\ call'[d].op \notin {"deliver", "reconcile"}
                                /\ call'[d].op = "correct" => call'[d].order = About[call'[d].ticket]
      BY <1>2, <2>4, FreeTyped
    <3> QED
      BY <1>1, <1>2, <2>5, <2>6, <2>7, <3>1, GoodsStay
  <2>10. \A d \in Callers : call'[d].op = "review" => d # c /\ call'[d] = call[d]
    BY <2>4, FreeTyped
  <2>11. RowsHeld'
    BY <1>1, <2>10 DEF RowsHeld
  <2>12. ASSUME NEW p \in Products \ strained' PROVE OnShelf(p)'
    <3>1. OnShelf(p) /\ now[p] <= want[p] /\ now[p] \in Nat /\ want[p] \in Nat
      BY <1>1, <1>3, <2>1, <2>2 DEF SetAside
    <3>2. Awaits(o, p) = 0 /\ Awaits(o, p)' = now[p]
      BY <1>1, <1>3, <1>5, <2>2, <2>3 DEF Awaits, TypeOK
    <3>3. \A u \in Orders \ {o} : Awaits(u, p)' <= Awaits(u, p)
      <4> TAKE u \in Orders \ {o}
      <4>1. status'[u] = status[u] /\ lines'[u] = lines[u]
        BY <1>1, <2>3 DEF TypeOK
      <4> QED
        BY <1>1, <4>1, AwaitsLess
    <3>4. /\ Waiting(p)' + Awaits(o, p) <= Waiting(p) + Awaits(o, p)'
          /\ Waiting(p) \in Nat /\ Waiting(p)' \in Nat
      BY <1>1, <1>3, <2>5, <3>3, WaitingStep
    <3>5. Leaving(p)' <= Leaving(p) /\ Leaving(p) \in Nat /\ Leaving(p)' \in Nat
      <4>1. \A d \in Callers : \/ call'[d] = call[d]
                               \/ call[d].op # "deliver" /\ call'[d].op # "deliver"
        BY <1>2, <2>4, FreeTyped
      <4> QED
        BY <1>1, <1>2, <2>5, <4>1, LeavingQuiet, SumsNow, SumsNext DEF SumsRight
    <3>6. pool'[p] = pool[p] /\ pool[p] \in Int
      BY <1>1, <1>2 DEF TypeOK
    <3>7. CASE want[p] = 0
      <4>1. Waiting(p)' + Leaving(p)' + pool[p] <= Waiting(p) + Leaving(p) + pool'[p]
        BY <3>1, <3>2, <3>4, <3>5, <3>6, <3>7
      <4> QED
        BY <1>1, <2>5, <2>10, <3>1, <4>1, StaysOnShelf
    <3>8. CASE want[p] # 0
      <4>1. Waiting(p) + Leaving(p) + want[p] <= pool[p]
        BY <1>2, <1>3, <3>1, <3>8 DEF OnShelf
      <4>2. Waiting(p)' + Leaving(p)' <= pool'[p]
        BY <3>1, <3>2, <3>4, <3>5, <3>6, <4>1
      <4>3. \A d \in Callers : call'[d].op = "review" => call'[d].want[p] = 0
        BY <1>1, <1>2, <1>3, <2>10, <3>8 DEF RowsHeld
      <4> QED
        BY <4>2, <4>3 DEF OnShelf
    <3> QED
      BY <3>7, <3>8
  <2> QED
    BY <2>5, <2>9, <2>11, <2>12 DEF OrdersInv, SetAside
<1> QED
  BY <1>4, <1>5

-----------------------------------------------------------------------------
(* A verification                                                           *)

\* The figures stock moves by are the approved ones, but for the zeroes.
LEMMA MovesAre ==
    ASSUME NEW ls \in [Keys -> Line]
    PROVE  /\ Moves(ls) \in Figures(Qty)
           /\ \A p \in Products : Total(Moves(ls), p) = Given(ls, p)
<1> DEFINE D == {j \in Keys : ApprovedQty(ls[j]) > 0}
<1>1. \A k \in D : ls[k].qty \in Qty /\ ls[k].qty = ApprovedQty(ls[k])
  <2> TAKE k \in D
  <2>1. ApprovedQty(ls[k]) \in Amount /\ ApprovedQty(ls[k]) > 0 /\ ls[k] # NoLine
    BY LineTyped DEF ApprovedQty, NoLine
  <2>2. ApprovedQty(ls[k]) = ls[k].qty
    BY <2>1 DEF ApprovedQty
  <2> QED
    BY <2>1, <2>2, OrdersAssumption DEF Amount, Qty
<1>2. Moves(ls) = [k \in D |-> ls[k].qty]
  BY DEF Moves
<1>3. Moves(ls) \in [D -> Qty] /\ D \in SUBSET Keys
  BY <1>1, <1>2
<1>4. ASSUME NEW p \in Products, NEW k \in KeysOf(p) PROVE Entry(Moves(ls), k) = ApprovedQty(ls[k])
  <2>1. k \in Keys /\ ApprovedQty(ls[k]) \in Nat
    BY KeysAre, LineTyped
  <2>2. CASE k \in D
    BY <1>1, <1>2, <2>2 DEF Entry
  <2>3. CASE k \notin D
    <3>1. ApprovedQty(ls[k]) = 0
      BY <2>1, <2>3
    <3> QED
      BY <1>2, <2>3, <3>1 DEF Entry
  <2> QED
    BY <2>2, <2>3
<1>5. Moves(ls) \in Figures(Qty)
  <2> HIDE DEF D
  <2> QED
    BY <1>3 DEF Figures
<1> QED
  BY <1>4, <1>5 DEF Total, Given, KeysOf

LEMMA ApprovedLine == \A n \in Amount : [qty |-> n, approved |-> TRUE] \in Line
  BY DEF Line

Said(f, p) == IF p \in DOMAIN f THEN f[p] ELSE 0

\* Of a product with one line, or none, no more is moved than was counted.
LEMMA CountedFits ==
    ASSUME TypeOK, NEW o \in Orders, NEW pick \in Picks(o), NEW count \in Counts, NEW extra \in Extras,
           NEW ls, ls = Counted(o, {k \in pick : k[2] \in DOMAIN count}, count, extra),
           \A p \in DOMAIN extra : lines[o][Finding(p)] = NoLine
    PROVE  /\ ls \in [Keys -> Line]
           /\ [p \in Products |-> Said(count, p) + Said(extra, p)] \in [Products -> Nat]
           /\ \A p \in Products :
                \/ OfProduct(o, p) # {} /\ (p \in DOMAIN count => Cardinality(OfProduct(o, p)) > 1)
                \/ Given(ls, p) <= Said(count, p) + Said(extra, p)
<1> DEFINE New(k) == k[1] = "found" /\ k[2] \in DOMAIN extra
           Taken(k) == k \in pick /\ k[2] \in DOMAIN count /\ lines[o][k] # NoLine
<1>1. lines[o] \in [Keys -> Line]
  BY DEF TypeOK
<1>2. \A p \in Products : Said(count, p) \in Amount /\ Said(extra, p) \in Amount
  <2>1. 0 \in Amount
    BY OrdersAssumption DEF Amount
  <2>2. \A p \in DOMAIN count : count[p] \in Amount
    BY DEF Counts, Some
  <2>3. \A p \in DOMAIN extra : extra[p] \in Amount
    BY DEF Extras, Some, Qty, Amount
  <2> QED
    BY <2>1, <2>2, <2>3 DEF Said
<1>3. \A k \in Keys : /\ New(k) => ls[k] = [qty |-> extra[k[2]], approved |-> TRUE]
                      /\ ~New(k) /\ Taken(k) => ls[k] = [qty |-> count[k[2]], approved |-> TRUE]
                      /\ ~New(k) /\ ~Taken(k) => ls[k] = lines[o][k]
  BY DEF Counted
<1>4. \A k \in Keys : /\ New(k) => extra[k[2]] = Said(extra, k[2]) /\ extra[k[2]] \in Amount
                      /\ Taken(k) => count[k[2]] = Said(count, k[2]) /\ count[k[2]] \in Amount
  <2> TAKE k \in Keys
  <2>1. k[2] \in Products
    BY KeysAre
  <2> QED
    BY <1>2, <2>1 DEF Said
<1>5. \A k \in Keys : ls[k] \in Line
  <2> TAKE k \in Keys
  <2>1. CASE New(k)
    BY <1>3, <1>4, <2>1, ApprovedLine
  <2>2. CASE ~New(k) /\ Taken(k)
    BY <1>3, <1>4, <2>2, ApprovedLine
  <2>3. CASE ~New(k) /\ ~Taken(k)
    BY <1>1, <1>3, <2>3
  <2> QED
    BY <2>1, <2>2, <2>3
<1>6. ls \in [Keys -> Line]
  BY <1>5 DEF Counted
<1>7. ASSUME NEW p \in Products,
             OfProduct(o, p) # {} => p \in DOMAIN count /\ ~(Cardinality(OfProduct(o, p)) > 1)
      PROVE  Given(ls, p) <= Said(count, p) + Said(extra, p)
  <2>1. OfProduct(o, p) = {k \in KeysOf(p) : lines[o][k] # NoLine}
    BY KeysAre DEF OfProduct, Present
  <2>2. \A k \in KeysOf(p) : /\ k \in Keys /\ k[2] = p
                             /\ New(k) => lines[o][k] = NoLine
                             /\ New(k) <=> k = Finding(p) /\ p \in DOMAIN extra
    BY KeysAre DEF KeysOf
  <2>3. ASSUME NEW k \in KeysOf(p), lines[o][k] # NoLine
        PROVE  Taken(k) /\ \A j \in KeysOf(p) : j # k => lines[o][j] = NoLine
    <3>1. k \in OfProduct(o, p) /\ p \in DOMAIN count
      BY <1>7, <2>1, <2>3
    <3>2. OfProduct(o, p) \subseteq Keys
      BY DEF OfProduct, Present
    <3>3. IsFiniteSet(OfProduct(o, p))
      BY <3>2, KeysFinite, FS_Subset
    <3>4. Cardinality(OfProduct(o, p)) \in Nat /\ Cardinality(OfProduct(o, p)) # 0
      BY <3>1, <3>3, FS_CardinalityType, FS_EmptySet
    <3>5. Cardinality(OfProduct(o, p)) = 1
      BY <1>7, <3>1, <3>4
    <3>6. PICK x : OfProduct(o, p) = {x}
      BY <3>3, <3>5, FS_Singleton
    <3>7. x = k
      BY <3>1, <3>6
    <3>8. Cardinality({j \in pick : j[2] = p}) = 1
      BY <3>1 DEF Picks
    <3>9. {j \in pick : j[2] = p} \subseteq OfProduct(o, p)
      BY DEF Picks, OfProduct
    <3>10. {j \in pick : j[2] = p} # {}
      <4> DEFINE F == {j \in pick : j[2] = p}
      <4>1. Cardinality(F) = 1
        BY <3>8
      <4>2. IsFiniteSet(F)
        BY <3>3, <3>9, FS_Subset
      <4> HIDE DEF F
      <4>3. F # {}
        BY <4>1, <4>2, FS_EmptySet
      <4> QED
        BY <4>3 DEF F
    <3>11. k \in pick
      BY <3>6, <3>7, <3>9, <3>10
    <3> QED
      BY <2>1, <2>2, <2>3, <3>1, <3>6, <3>7, <3>11
  <2> HIDE DEF New, Taken
  <2> DEFINE n == Said(count, p)
             x == Said(extra, p)
  <2>4. n \in Nat /\ x \in Nat
    BY <1>2 DEF Amount
  <2>5. ASSUME NEW k \in KeysOf(p)
        PROVE  /\ ~New(k) /\ lines[o][k] = NoLine => ApprovedQty(ls[k]) = 0
               /\ ~New(k) /\ lines[o][k] # NoLine => ApprovedQty(ls[k]) = n
               /\ New(k) => ApprovedQty(ls[k]) = x
    <3>1. k \in Keys /\ k[2] = p
      BY <2>2
    <3>2. ASSUME ~New(k), lines[o][k] = NoLine PROVE ApprovedQty(ls[k]) = 0
      <4>1. ~Taken(k)
        BY <3>2 DEF Taken
      <4>2. ls[k] = NoLine
        BY <1>3, <3>1, <3>2, <4>1
      <4> QED
        BY <4>2 DEF ApprovedQty, NoLine
    <3>3. ASSUME ~New(k), lines[o][k] # NoLine PROVE ApprovedQty(ls[k]) = n
      <4>1. ls[k] = [qty |-> count[k[2]], approved |-> TRUE] /\ count[k[2]] = n
        BY <1>3, <1>4, <2>3, <3>1, <3>3
      <4> QED
        BY <4>1 DEF ApprovedQty
    <3>4. ASSUME New(k) PROVE ApprovedQty(ls[k]) = x
      <4>1. ls[k] = [qty |-> extra[k[2]], approved |-> TRUE] /\ extra[k[2]] = x
        BY <1>3, <1>4, <3>1, <3>4
      <4> QED
        BY <4>1 DEF ApprovedQty
    <3> QED
      BY <3>2, <3>3, <3>4
  <2>6. /\ Asking(p) \in KeysOf(p) /\ Adding(p) \in KeysOf(p) /\ Finding(p) \in KeysOf(p)
        /\ Asking(p) # Adding(p) /\ Asking(p) # Finding(p) /\ Adding(p) # Finding(p)
    BY KeysAre DEF KeysOf
  <2> DEFINE a == Asking(p)
             b == Adding(p)
             f == Finding(p)
  <2>7. ~New(a) /\ ~New(b)
    BY <2>2, <2>6
  <2> HIDE DEF n, x, a, b, f
  <2>8. Given(ls, p) = ApprovedQty(ls[a]) + ApprovedQty(ls[b]) + ApprovedQty(ls[f])
    BY DEF Given, a, b, f
  <2>9. a \in KeysOf(p) /\ b \in KeysOf(p) /\ f \in KeysOf(p) /\ a # b /\ a # f /\ b # f
    BY <2>6 DEF a, b, f
  <2>10. Given(ls, p) <= n + x
    BY <2>2, <2>3, <2>4, <2>5, <2>7, <2>8, <2>9
  <2> QED
    BY <2>10 DEF n, x
<1>8. [p \in Products |-> Said(count, p) + Said(extra, p)] \in [Products -> Nat]
  BY <1>2 DEF Amount
<1> QED
  BY <1>6, <1>7, <1>8

\* The demand waited until now, so nothing of it has moved: what leaves the promise is what
\* sets out for the branch.
LEMMA VerifyStep ==
    ASSUME OrdersInv, NEW c \in Callers, NEW o \in Orders, Verify(c, o)
    PROVE  OrdersInv'
<1>1. TypeOK /\ RowsHeld /\ SetAside /\ GoodsInv
  BY DEF OrdersInv
<1>2. /\ call[c].op = "none" /\ status[o] = "awaiting"
      /\ status' = [status EXCEPT ![o] = "verified"]
      /\ UNCHANGED <<pool, left, came, fixLeft, fixCame, open, marred, slips>>
  BY DEF Verify, Verifiable, Free
<1>3. PICK ls \in [Keys -> Line], want \in [Products -> Nat] :
        /\ \A p \in Products : want[p] > 0 => RowFree(c, p)
        /\ Covered(want, o)
        /\ lines' = [lines EXCEPT ![o] = ls]
        /\ call' = [call EXCEPT ![c] = [op |-> "deliver", order |-> o,
                                        out |-> Moves(ls), in |-> Moves(ls)]]
        /\ strained \subseteq strained' /\ strained' \subseteq Products
        /\ Unseen(want) \subseteq strained'
        /\ \A p \in Products \ strained' : Given(ls, p) <= want[p]
  <2> DEFINE Ls(pick, count, extra) == Counted(o, {k \in pick : k[2] \in DOMAIN count}, count, extra)
             Want(count, extra) == [p \in Products |-> Said(count, p) + Said(extra, p)]
  <2>1. PICK pick \in Picks(o), count \in Counts, extra \in Extras :
          /\ \A p \in DOMAIN extra : lines[o][<<"found", p>>] = NoLine
          /\ slips + Extra + Cardinality(DOMAIN extra) <= MaxSlips
          /\ \A p \in Products : Want(count, extra)[p] > 0 => RowFree(c, p)
          /\ Covered(Want(count, extra), o)
          /\ lines' = [lines EXCEPT ![o] = Ls(pick, count, extra)]
          /\ call' = [call EXCEPT ![c] = [op |-> "deliver", order |-> o,
                                          out |-> Moves(Ls(pick, count, extra)),
                                          in |-> Moves(Ls(pick, count, extra))]]
          /\ strained' = strained \cup Unseen(Want(count, extra))
                \cup {p \in Products : /\ OfProduct(o, p) # {}
                                      /\ p \in DOMAIN count => Cardinality(OfProduct(o, p)) > 1}
    BY Zenon DEF Verify, Said
  <2> DEFINE ls == Ls(pick, count, extra)
             want == Want(count, extra)
  <2>2. /\ \A p \in DOMAIN extra : lines[o][Finding(p)] = NoLine
        /\ \A p \in Products : want[p] > 0 => RowFree(c, p)
        /\ Covered(want, o)
        /\ lines' = [lines EXCEPT ![o] = ls]
        /\ call' = [call EXCEPT ![c] = [op |-> "deliver", order |-> o,
                                        out |-> Moves(ls), in |-> Moves(ls)]]
        /\ strained' = strained \cup Unseen(want)
              \cup {p \in Products : /\ OfProduct(o, p) # {}
                                    /\ p \in DOMAIN count => Cardinality(OfProduct(o, p)) > 1}
    <3> HIDE DEF Ls, Want
    <3>1. \A p \in DOMAIN extra : lines[o][Finding(p)] = NoLine
      BY <2>1 DEF Finding
    <3> QED
      BY <2>1, <3>1, Zenon
  <2>3. /\ ls \in [Keys -> Line] /\ want \in [Products -> Nat]
        /\ \A p \in Products :
             \/ OfProduct(o, p) # {} /\ (p \in DOMAIN count => Cardinality(OfProduct(o, p)) > 1)
             \/ Given(ls, p) <= Said(count, p) + Said(extra, p)
    <3>1. /\ ls = Counted(o, {k \in pick : k[2] \in DOMAIN count}, count, extra)
          /\ want = [p \in Products |-> Said(count, p) + Said(extra, p)]
          /\ \A p \in DOMAIN extra : lines[o][Finding(p)] = NoLine
      BY <2>2
    <3> HIDE DEF ls, want, Ls, Want
    <3> QED
      BY <1>1, <3>1, CountedFits
  <2>4. \A p \in Products : want[p] = Said(count, p) + Said(extra, p)
    OBVIOUS
  <2> HIDE DEF ls, want
  <2>5. \A p \in Products \ strained' : Given(ls, p) <= want[p]
    BY <2>2, <2>3, <2>4
  <2>6. strained \subseteq strained' /\ strained' \subseteq Products /\ Unseen(want) \subseteq strained'
    BY <1>1, <2>2 DEF TypeOK, Unseen
  <2> QED
    BY <2>2, <2>3, <2>5, <2>6
<1> DEFINE q == [op |-> "deliver", order |-> o, out |-> Moves(ls), in |-> Moves(ls)]
<1>4. Moves(ls) \in Figures(Qty) /\ \A p \in Products : Total(Moves(ls), p) = Given(ls, p)
  BY MovesAre
<1>5. q \in Request /\ q.op = "deliver" /\ q.order = o /\ q.out = Moves(ls) /\ q.in = Moves(ls)
  <2>1. q \in [op : {"deliver"}, order : Orders, out : Figures(Qty), in : Figures(Qty)]
    BY <1>4
  <2> QED
    BY <2>1 DEF Request
<1>6. call' = [call EXCEPT ![c] = q]
  BY <1>3
<1> HIDE DEF q
<1>7. /\ call' \in [Callers -> Request] /\ call'[c] = q
      /\ \A d \in Callers \ {c} : call'[d] = call[d]
  BY <1>1, <1>5, <1>6, CallBecomes
<1>8. /\ lines' \in [Orders -> [Keys -> Line]] /\ lines'[o] = ls
      /\ \A u \in Orders \ {o} : lines'[u] = lines[u]
  BY <1>1, <1>3, LinesBecome
<1>9. status' \in [Orders -> {"none", "pending", "awaiting", "verified", "approved",
                              "rejected", "cancelled", "deleted"}]
      /\ status'[o] = "verified" /\ \A u \in Orders \ {o} : status'[u] = status[u]
  BY <1>1, <1>2 DEF TypeOK
<1>10. TypeOK'
  BY <1>1, <1>2, <1>3, <1>7, <1>8, <1>9 DEF TypeOK
<1>11. GoodsOf(o) /\ ~Served(o) /\ Served(o)' /\ \A u \in Orders \ {o} : Served(u)' <=> Served(u)
  BY <1>1, <1>2, <1>9 DEF GoodsInv, Served
<1>12. /\ \A p \in Products : left[o][p] = 0 /\ came[o][p] = 0
       /\ NoFixesOf(o)
       /\ \A d \in Callers : ~Carries(d, o) /\ (Corrects(d, o) => DOMAIN call[d].todo = {})
  BY <1>11 DEF GoodsOf, Untouched
<1>13. \A d \in Callers : call'[d].op = "review" => call'[d] = call[d] /\ d # c
  BY <1>5, <1>7
<1>14. RowsHeld'
  BY <1>1, <1>13 DEF RowsHeld
<1>15. ASSUME NEW p \in Products \ strained' PROVE OnShelf(p)'
  <2>1. OnShelf(p) /\ Given(ls, p) <= want[p] /\ Given(ls, p) \in Nat /\ want[p] \in Nat
    BY <1>1, <1>3, LinesSum DEF SetAside
  <2>2. \A u \in Orders \ {o} : Awaits(u, p)' <= Awaits(u, p)
    <3> TAKE u \in Orders \ {o}
    <3>1. status'[u] = status[u] /\ lines'[u] = lines[u]
      BY <1>8, <1>9
    <3> QED
      BY <1>1, <3>1, AwaitsLess
  <2>3. /\ Waiting(p)' + Awaits(o, p) <= Waiting(p) + Awaits(o, p)'
        /\ Waiting(p) \in Nat /\ Waiting(p)' \in Nat /\ Awaits(o, p) \in Nat
    BY <1>1, <1>10, <2>2, WaitingStep
  <2>4. Awaits(o, p)' = 0
    BY <1>9 DEF Awaits
  <2>5. \A d \in Callers \ {c} : Load(d, p)' <= Load(d, p)
    <3> TAKE d \in Callers \ {c}
    <3>1. Load(d, p)' = Load(d, p) /\ Load(d, p) \in Nat
      BY <1>1, <1>2, <1>7, LoadIs DEF Load
    <3> QED
      BY <3>1
  <2>6. /\ Leaving(p)' + Load(c, p) <= Leaving(p) + Load(c, p)'
        /\ Leaving(p) \in Nat /\ Leaving(p)' \in Nat
    BY <1>1, <1>10, <2>5, LeavingStep
  <2>7. Load(c, p) = 0 /\ Load(c, p)' = Given(ls, p)
    BY <1>2, <1>4, <1>5, <1>7, <1>12 DEF Load
  <2>8. pool'[p] = pool[p] /\ pool[p] \in Int
    BY <1>1, <1>2 DEF TypeOK
  <2>9. CASE want[p] = 0
    <3>1. Waiting(p)' + Leaving(p)' + pool[p] <= Waiting(p) + Leaving(p) + pool'[p]
      BY <2>1, <2>3, <2>4, <2>6, <2>7, <2>8, <2>9
    <3> QED
      BY <1>1, <1>10, <1>13, <2>1, <3>1, StaysOnShelf
  <2>10. CASE want[p] # 0
    <3>1. Leaving(p) = 0
      BY <1>3, <1>15, <2>1, <2>6, <2>10 DEF Unseen
    <3>2. Waiting(p) + Leaving(p) + want[p] <= pool[p] + Awaits(o, p)
      BY <1>1, <1>3, <2>10, <3>1, CoveredLeaves
    <3>3. Waiting(p)' + Leaving(p)' <= pool'[p]
      BY <2>1, <2>3, <2>4, <2>6, <2>7, <2>8, <3>1, <3>2
    <3>4. \A d \in Callers : call'[d].op = "review" => call'[d].want[p] = 0
      BY <1>3, <1>13, <2>1, <2>10 DEF RowFree
    <3> QED
      BY <3>3, <3>4 DEF OnShelf
  <2> QED
    BY <2>9, <2>10
<1>16. QueriesFit'
  BY <1>1, <1>5, <1>7 DEF GoodsInv, QueriesFit
<1>17. ASSUME NEW u \in Orders \ {o} PROVE GoodsOf(u)'
  <2>1. GoodsOf(u) /\ QueriesFit
    BY <1>1 DEF GoodsInv
  <2>2. \A d \in Callers : \/ call'[d] = call[d]
                           \/ /\ ~Carries(d, u) /\ ~Carries(d, u)'
                              /\ ~Corrects(d, u) /\ ~Corrects(d, u)'
    BY <1>2, <1>5, <1>7 DEF Carries, Corrects
  <2>3. \A p \in Products : Delivery(u, p)' = Delivery(u, p)
    BY <1>1, <1>8, <1>10, <1>11, SumsNow, SumsNext DEF SumsRight, Served
  <2> QED
    BY <1>1, <1>2, <1>11, <2>1, <2>2, <2>3, GoodsKept
<1>18. GoodsOf(o)'
  <2>1. \A d \in Callers : /\ Carries(d, o)' <=> d = c
                           /\ Corrects(d, o)' <=> Corrects(d, o)
                           /\ Corrects(d, o)' => d # c /\ call'[d] = call[d]
    BY <1>2, <1>5, <1>7, <1>12 DEF Carries, Corrects
  <2>2. Untouched(o)' /\ OneDelivery(o)'
    BY <1>11, <2>1 DEF Untouched, OneDelivery
  <2>3. OutFirst(o)'
    BY <1>2, <1>5, <1>7, <1>12, <2>1 DEF OutFirst
  <2>4. ASSUME o \notin marred' PROVE Straight(o)'
    <3>1. Straight(o)
      BY <1>2, <1>11, <2>4 DEF GoodsOf
    <3>2. ASSUME NEW p \in Products
          PROVE  /\ left'[o][p] + Fixes(fixLeft', o, p) + OutOf(call'[c], o, p) + Delivery(o, p)
                      = left[o][p] + Fixes(fixLeft, o, p) + OutOf(call[c], o, p) + Delivery(o, p)'
                 /\ came'[o][p] + Fixes(fixCame', o, p) + InOf(call'[c], o, p) + Delivery(o, p)
                      = came[o][p] + Fixes(fixCame, o, p) + InOf(call[c], o, p) + Delivery(o, p)'
      <4>1. Delivery(o, p)' = Given(ls, p) /\ Given(ls, p) \in Int
        BY <1>8, <1>9, <1>10, SumsNext DEF SumsRight
      <4>2. Delivery(o, p) = 0
        BY <1>1, <1>2, SumsNow DEF SumsRight
      <4>3. OutOf(call[c], o, p) = 0 /\ InOf(call[c], o, p) = 0
        BY <1>2 DEF OutOf, InOf
      <4>4. OutOf(call'[c], o, p) = Given(ls, p) /\ InOf(call'[c], o, p) = Given(ls, p)
        BY <1>4, <1>5, <1>7 DEF OutOf, InOf
      <4>5. /\ left[o][p] \in Int /\ came[o][p] \in Int
            /\ Fixes(fixLeft, o, p) \in Int /\ Fixes(fixCame, o, p) \in Int
        BY <1>1, LedgersTyped
      <4> QED
        BY <1>2, <4>1, <4>2, <4>3, <4>4, <4>5
    <3> QED
      BY <1>1, <1>7, <1>10, <3>1, <3>2, StraightMoves
  <2> QED
    BY <2>2, <2>3, <2>4 DEF GoodsOf
<1>19. FixesFit'
  BY <1>1, <1>2, <1>5, <1>7, FixesKept DEF GoodsInv
<1>20. GoodsInv'
  BY <1>16, <1>17, <1>18, <1>19 DEF GoodsInv
<1> QED
  BY <1>10, <1>14, <1>15, <1>20 DEF OrdersInv, SetAside

-----------------------------------------------------------------------------
(* The goods on their way                                                   *)

LEMMA WithoutIs ==
    ASSUME NEW S, S \subseteq Int, NEW f \in Figures(S), NEW k \in DOMAIN f
    PROVE  /\ Without(f, k) \in Figures(S)
           /\ DOMAIN Without(f, k) = DOMAIN f \ {k}
           /\ \A j \in DOMAIN f \ {k} : Without(f, k)[j] = f[j]
           /\ k \in Keys /\ k[2] \in Products /\ f[k] \in S
<1>1. PICK D \in SUBSET Keys : f \in [D -> S]
  BY DEF Figures
<1>2. /\ Without(f, k) \in [D \ {k} -> S] /\ D \ {k} \in SUBSET Keys
      /\ \A j \in D \ {k} : Without(f, k)[j] = f[j]
  BY <1>1 DEF Without, Restrict
<1>3. Without(f, k) \in Figures(S)
  BY <1>2 DEF Figures
<1> QED
  BY <1>1, <1>2, <1>3, KeysAre

\* The same of what a correction has still to move.
LEMMA CorrectionFits ==
    ASSUME NEW f \in Figures(- MaxQty .. MaxQty)
    PROVE  /\ Restrict(f, DOMAIN f) = f
           /\ \A k \in DOMAIN f : /\ Without(f, k) \in Figures(- MaxQty .. MaxQty)
                                 /\ DOMAIN Without(f, k) = DOMAIN f \ {k}
                                 /\ \A j \in DOMAIN f \ {k} : Without(f, k)[j] = f[j]
<1>1. PICK D \in SUBSET Keys : f \in [D -> - MaxQty .. MaxQty]
  BY DEF Figures
<1>2. Restrict(f, DOMAIN f) = f
  BY <1>1 DEF Restrict
<1>3. ASSUME NEW k \in DOMAIN f
      PROVE  /\ Without(f, k) \in Figures(- MaxQty .. MaxQty)
             /\ DOMAIN Without(f, k) = DOMAIN f \ {k}
             /\ \A j \in DOMAIN f \ {k} : Without(f, k)[j] = f[j]
  <2> DEFINE E == D \ {k}  g == Without(f, k)
  <2>1. E \in SUBSET Keys
    OBVIOUS
  <2>2. DOMAIN g = E /\ DOMAIN f = D /\ \A j \in E : g[j] = f[j]
    BY <1>1 DEF Without, Restrict
  <2>3. g \in [E -> - MaxQty .. MaxQty]
    BY <1>1 DEF Without, Restrict
  <2> HIDE DEF E, g
  <2>4. [E -> - MaxQty .. MaxQty] \in {[C -> - MaxQty .. MaxQty] : C \in SUBSET Keys}
    BY <2>1
  <2>5. g \in Figures(- MaxQty .. MaxQty)
    BY <2>3, <2>4 DEF Figures
  <2> QED
    BY <2>2, <2>5 DEF E, g
<1> QED
  BY <1>2, <1>3

LEMMA WithoutTotal ==
    ASSUME NEW S, S \subseteq Int, NEW f \in Figures(S), NEW k \in DOMAIN f, NEW p \in Products
    PROVE  /\ p = k[2] => Total(Without(f, k), p) + f[k] = Total(f, p)
           /\ p # k[2] => Total(Without(f, k), p) = Total(f, p)
<1>1. /\ k \in Keys /\ f[k] \in Int /\ DOMAIN Without(f, k) = DOMAIN f \ {k}
      /\ \A j \in DOMAIN f \ {k} : Without(f, k)[j] = f[j]
      /\ \A j \in DOMAIN f : f[j] \in Int
  <2>1. k \in Keys /\ DOMAIN Without(f, k) = DOMAIN f \ {k}
    BY WithoutIs
  <2>2. \A j \in DOMAIN f \ {k} : Without(f, k)[j] = f[j]
    BY DEF Without, Restrict
  <2>3. \A j \in DOMAIN f : f[j] \in S
    BY FiguresTyped
  <2> QED
    BY <2>1, <2>2, <2>3
<1>2. Entry(f, k) = f[k] /\ Entry(Without(f, k), k) = 0
  BY <1>1 DEF Entry
<1>3. \A j : /\ Entry(f, j) \in Int
             /\ j # k => Entry(Without(f, k), j) = Entry(f, j)
  BY <1>1 DEF Entry
<1>4. /\ Asking(p) # Adding(p) /\ Asking(p) # Finding(p) /\ Adding(p) # Finding(p)
      /\ k \in KeysOf(p) <=> p = k[2]
  BY <1>1, KeysAre
<1>5. k \in KeysOf(p) <=> k = Asking(p) \/ k = Adding(p) \/ k = Finding(p)
  BY DEF KeysOf
<1> QED
  BY <1>1, <1>2, <1>3, <1>4, <1>5 DEF Total

\* An entry of figures that count up is no more than their total.
LEMMA EntryOfTotal ==
    ASSUME NEW f \in Figures(Qty), NEW k \in DOMAIN f, NEW p \in Products, p = k[2]
    PROVE  f[k] <= Total(f, p) /\ Total(f, p) \in Nat
<1>1. Qty \subseteq Int /\ Qty \subseteq Nat
  BY QtyIs
<1>2. Without(f, k) \in Figures(Qty) /\ f[k] \in Qty
  BY <1>1, WithoutIs
<1>3. Total(Without(f, k), p) + f[k] = Total(f, p)
  BY <1>1, WithoutTotal
<1>4. Total(Without(f, k), p) \in Nat /\ Total(f, p) \in Nat
  BY <1>1, <1>2, FiguresTyped
<1>5. f[k] \in Nat
  BY <1>1, <1>2
<1> QED
  BY <1>3, <1>4, <1>5

\* A ledger row is written once.
Taken(ledger, next, R, N, ref, p, n) ==
    /\ next \in [R -> [Products -> N]]
    /\ ledger[ref][p] = 0 => next[ref][p] = n
    /\ ledger[ref][p] # 0 => next = ledger
    /\ \A u \in R \ {ref} : next[u] = ledger[u]
    /\ \A s \in Products \ {p} : next[ref][s] = ledger[ref][s]

LEMMA OnceIs ==
    ASSUME NEW R, NEW N, NEW ledger \in [R -> [Products -> N]], NEW ref \in R, NEW p \in Products,
           NEW n \in N, NEW next, next = Once(ledger, ref, p, n)
    PROVE  Taken(ledger, next, R, N, ref, p, n)
<1>1. CASE ledger[ref][p] = 0
  <2>1. next = [ledger EXCEPT ![ref][p] = n]
    BY <1>1 DEF Once
  <2> QED
    BY <1>1, <2>1 DEF Taken
<1>2. CASE ledger[ref][p] # 0
  <2>1. next = ledger
    BY <1>2 DEF Once
  <2> QED
    BY <1>2, <2>1 DEF Taken
<1> QED
  BY <1>1, <1>2

\* A delivery one figure shorter.
LEMMA OutEdited ==
    ASSUME TypeOK, NEW c \in Callers, call[c].op = "deliver", NEW f \in Figures(Qty),
           call' = [call EXCEPT ![c].out = f]
    PROVE  /\ call' \in [Callers -> Request] /\ \A d \in Callers \ {c} : call'[d] = call[d]
           /\ call'[c].op = "deliver" /\ call'[c].order = call[c].order
           /\ call'[c].out = f /\ call'[c].in = call[c].in
<1> DEFINE q == [call[c] EXCEPT !.out = f]
<1>1. call[c] \in [op : {"deliver"}, order : Orders, out : Figures(Qty), in : Figures(Qty)]
  BY RequestTyped DEF TypeOK
<1>2. /\ q \in [op : {"deliver"}, order : Orders, out : Figures(Qty), in : Figures(Qty)]
      /\ q.op = "deliver" /\ q.order = call[c].order /\ q.out = f /\ q.in = call[c].in
  BY <1>1
<1>3. call' = [call EXCEPT ![c] = q]
  BY DEF TypeOK
<1> HIDE DEF q
<1>4. q \in Request
  BY <1>2 DEF Request
<1> QED
  BY <1>2, <1>3, <1>4, CallBecomes

LEMMA InEdited ==
    ASSUME TypeOK, NEW c \in Callers, call[c].op = "deliver", NEW f \in Figures(Qty),
           call' = [call EXCEPT ![c].in = f]
    PROVE  /\ call' \in [Callers -> Request] /\ \A d \in Callers \ {c} : call'[d] = call[d]
           /\ call'[c].op = "deliver" /\ call'[c].order = call[c].order
           /\ call'[c].out = call[c].out /\ call'[c].in = f
<1> DEFINE q == [call[c] EXCEPT !.in = f]
<1>1. call[c] \in [op : {"deliver"}, order : Orders, out : Figures(Qty), in : Figures(Qty)]
  BY RequestTyped DEF TypeOK
<1>2. /\ q \in [op : {"deliver"}, order : Orders, out : Figures(Qty), in : Figures(Qty)]
      /\ q.op = "deliver" /\ q.order = call[c].order /\ q.in = f /\ q.out = call[c].out
  BY <1>1
<1>3. call' = [call EXCEPT ![c] = q]
  BY DEF TypeOK
<1> HIDE DEF q
<1>4. q \in Request
  BY <1>2 DEF Request
<1> QED
  BY <1>2, <1>3, <1>4, CallBecomes

\* Where one call changes, of one demand, the goods of the others are passed by.
LEMMA OthersKept ==
    ASSUME OrdersInv, TypeOK', NEW o \in Orders, NEW c \in Callers,
           \A d \in Callers \ {c} : call'[d] = call[d],
           call[c].op \in {"deliver", "reconcile"} => call[c].order = o,
           call'[c].op \in {"deliver", "reconcile"} => call'[c].order = o,
           \A u \in Orders \ {o} : left'[u] = left[u] /\ came'[u] = came[u] /\ lines'[u] = lines[u],
           \A t \in Tickets : About[t] # o => fixLeft'[t] = fixLeft[t] /\ fixCame'[t] = fixCame[t],
           status' = status, marred \subseteq marred'
    PROVE  \A u \in Orders \ {o} : GoodsOf(u)'
<1> TAKE u \in Orders \ {o}
<1>1. TypeOK /\ GoodsOf(u) /\ QueriesFit
  BY DEF OrdersInv, GoodsInv
<1>2. \A d \in Callers : \/ call'[d] = call[d]
                         \/ /\ ~Carries(d, u) /\ ~Carries(d, u)'
                            /\ ~Corrects(d, u) /\ ~Corrects(d, u)'
  BY DEF Carries, Corrects
<1>3. Served(u)' <=> Served(u)
  BY DEF Served
<1>4. \A p \in Products : Delivery(u, p)' = Delivery(u, p)
  BY <1>1, <1>3, SumsNow, SumsNext DEF SumsRight, Served
<1>5. /\ left'[u] = left[u] /\ came'[u] = came[u]
      /\ \A t \in Tickets : About[t] = u => fixLeft'[t] = fixLeft[t] /\ fixCame'[t] = fixCame[t]
  OBVIOUS
<1> QED
  BY <1>1, <1>2, <1>3, <1>4, <1>5, GoodsKept

\* Who carries the goods of a demand has had it verified.
LEMMA CarrierServes ==
    ASSUME OrdersInv, NEW c \in Callers, call[c].op = "deliver"
    PROVE  \E o \in Orders : /\ o = call[c].order /\ Carries(c, o) /\ Served(o) /\ GoodsOf(o)
                             /\ \A d \in Callers : Carries(d, o) => d = c
<1>1. call[c].order \in Orders
  BY RequestTyped DEF OrdersInv, TypeOK
<1> QED
  BY <1>1 DEF OrdersInv, GoodsInv, GoodsOf, Carries, Untouched, OneDelivery

LEMMA MoveOutStep ==
    ASSUME OrdersInv, NEW c \in Callers, MoveOut(c)
    PROVE  OrdersInv'
<1>1. TypeOK /\ RowsHeld /\ SetAside /\ GoodsInv /\ call[c].op = "deliver"
  BY DEF OrdersInv, MoveOut
<1>2. PICK o \in Orders : /\ o = call[c].order /\ Carries(c, o) /\ Served(o) /\ GoodsOf(o)
                          /\ \A d \in Callers : Carries(d, o) => d = c
  BY <1>1, CarrierServes
<1>3. PICK out \in Figures(Qty), in \in Figures(Qty) : out = call[c].out /\ in = call[c].in
  BY <1>1, RequestTyped DEF TypeOK
<1>4. PICK k \in DOMAIN out :
        /\ left' = Once(left, o, k[2], out[k])
        /\ pool' = [pool EXCEPT ![k[2]] = @ - (left'[o][k[2]] - left[o][k[2]])]
        /\ marred' = IF left[o][k[2]] # 0 THEN marred \cup {o} ELSE marred
        /\ call' = [call EXCEPT ![c].out = Without(@, k)]
  BY <1>2, <1>3 DEF MoveOut
<1>5. UNCHANGED <<status, lines, came, fixLeft, fixCame, open, strained, slips>>
  BY DEF MoveOut
<1>6. PICK p \in Products, n \in Qty : p = k[2] /\ n = out[k]
  BY QtyIs, WithoutIs
<1> DEFINE rest == Without(out, k)
<1>7. /\ rest \in Figures(Qty) /\ DOMAIN rest = DOMAIN out \ {k}
      /\ n \in Amount /\ n \in Nat /\ n # 0
  BY <1>6, QtyIs, WithoutIs
<1>8. call' = [call EXCEPT ![c].out = rest]
  BY <1>1, <1>3, <1>4 DEF TypeOK
<1>9. \A r \in Products : /\ Total(out, r) \in Nat /\ Total(rest, r) \in Nat
                          /\ r = p => Total(rest, r) + n = Total(out, r)
                          /\ r # p => Total(rest, r) = Total(out, r)
  <2> TAKE r \in Products
  <2>1. Total(out, r) \in Nat /\ Total(rest, r) \in Nat
    BY <1>7, QtyIs, FiguresTyped
  <2>2. /\ r = k[2] => Total(rest, r) + out[k] = Total(out, r)
        /\ r # k[2] => Total(rest, r) = Total(out, r)
    BY QtyIs, WithoutTotal
  <2> QED
    BY <1>6, <2>1, <2>2
<1> HIDE DEF rest
<1>10. /\ call' \in [Callers -> Request] /\ \A d \in Callers \ {c} : call'[d] = call[d]
       /\ call'[c].op = "deliver" /\ call'[c].order = o
       /\ call'[c].out = rest /\ call'[c].in = in
  BY <1>1, <1>2, <1>3, <1>7, <1>8, OutEdited
<1>11. /\ left' \in [Orders -> [Products -> Amount]]
       /\ left[o][p] = 0 => left'[o][p] = n
       /\ left[o][p] # 0 => left' = left
       /\ \A u \in Orders \ {o} : left'[u] = left[u]
       /\ \A r \in Products \ {p} : left'[o][r] = left[o][r]
  <2>1. left' = Once(left, o, p, n) /\ left \in [Orders -> [Products -> Amount]]
    BY <1>1, <1>4, <1>6 DEF TypeOK
  <2> QED
    <3>1. Taken(left, left', Orders, Amount, o, p, n)
      BY <1>7, <2>1, OnceIs
    <3> QED
      BY <3>1 DEF Taken
<1>12. /\ pool' = [pool EXCEPT ![p] = @ - (left'[o][p] - left[o][p])]
       /\ left[o][p] \in Nat /\ left'[o][p] \in Nat
  BY <1>1, <1>4, <1>6, <1>11 DEF TypeOK, Amount
<1>13. marred' \subseteq Orders /\ marred \subseteq marred' /\ (o \in marred' <=> left[o][p] # 0 \/ o \in marred)
  BY <1>1, <1>4, <1>6 DEF TypeOK
<1>14. TypeOK'
  <2>1. pool' \in [Products -> Int]
    BY <1>1, <1>12 DEF TypeOK
  <2> QED
    BY <1>1, <1>5, <1>10, <1>11, <1>13, <2>1 DEF TypeOK
<1>15. \A d \in Callers : call'[d].op = "review" => call'[d] = call[d]
  BY <1>10
<1>16. ASSUME NEW r \in Products \ strained'
       PROVE  Waiting(r)' + Leaving(r)' + pool[r] <= Waiting(r) + Leaving(r) + pool'[r]
  <2>1. Waiting(r)' <= Waiting(r) /\ Waiting(r) \in Nat /\ Waiting(r)' \in Nat
    BY <1>1, <1>5, <1>14, StillWaiting
  <2>2. \A d \in Callers \ {c} : Load(d, r)' <= Load(d, r)
    <3> TAKE d \in Callers \ {c}
    <3>1. call'[d] = call[d] /\ Load(d, r) \in Nat
      BY <1>1, <1>10, LoadIs
    <3>2. CASE call[d].op = "deliver"
      <4>1. call[d].order \in Orders /\ call[d].order # o
        BY <1>1, <1>2, <3>2, RequestTyped DEF TypeOK, Carries
      <4>2. left'[call[d].order] = left[call[d].order]
        BY <1>11, <4>1
      <4> QED
        BY <3>1, <4>2 DEF Load
    <3>3. CASE call[d].op # "deliver"
      BY <3>1, <3>3 DEF Load
    <3> QED
      BY <3>2, <3>3
  <2>3. /\ Leaving(r)' + Load(c, r) <= Leaving(r) + Load(c, r)'
        /\ Leaving(r) \in Nat /\ Leaving(r)' \in Nat
    BY <1>1, <1>14, <2>2, LeavingStep
  <2>4. /\ Load(c, r) = IF left[o][r] = 0 THEN Total(out, r) ELSE 0
        /\ Load(c, r)' = IF left'[o][r] = 0 THEN Total(rest, r) ELSE 0
    BY <1>1, <1>2, <1>3, <1>10 DEF Load
  <2>5. pool[r] \in Int /\ Total(out, r) \in Nat /\ Total(rest, r) \in Nat
    BY <1>1, <1>9 DEF TypeOK
  <2>6. CASE r # p
    <3>1. pool'[r] = pool[r] /\ left'[o][r] = left[o][r]
      BY <1>1, <1>11, <1>12, <2>6 DEF TypeOK
    <3>2. Load(c, r)' = Load(c, r) /\ Load(c, r) \in Nat
      BY <1>9, <2>4, <2>5, <2>6, <3>1
    <3> QED
      BY <2>1, <2>3, <2>5, <3>1, <3>2
  <2>7. CASE r = p /\ left[o][p] # 0
    <3>1. pool'[r] = pool[r]
      BY <1>1, <1>11, <1>12, <2>7 DEF TypeOK
    <3>2. Load(c, r)' = 0 /\ Load(c, r) = 0
      BY <1>11, <2>4, <2>7
    <3> QED
      BY <2>1, <2>3, <2>5, <3>1, <3>2
  <2>8. CASE r = p /\ left[o][p] = 0
    <3>1. pool'[r] = pool[r] - n
      BY <1>1, <1>7, <1>11, <1>12, <2>8 DEF TypeOK
    <3>2. Load(c, r)' = 0 /\ Load(c, r) = Total(out, r) /\ n <= Total(out, r)
      BY <1>7, <1>9, <1>11, <2>4, <2>5, <2>8
    <3> QED
      BY <1>7, <2>1, <2>3, <2>5, <3>1, <3>2
  <2> QED
    BY <2>6, <2>7, <2>8
<1>17. RowsHeld' /\ SetAside'
  BY <1>1, <1>5, <1>14, <1>15, <1>16, PromisesStay
<1>18. QueriesFit'
  BY <1>1, <1>10 DEF GoodsInv, QueriesFit
<1>19. \A u \in Orders \ {o} : GoodsOf(u)'
  BY <1>1, <1>2, <1>5, <1>10, <1>11, <1>13, <1>14, OthersKept
<1>20. GoodsOf(o)'
  <2>1. \A d \in Callers : Carries(d, o)' <=> d = c
    BY <1>2, <1>10 DEF Carries
  <2>2. Untouched(o)' /\ OneDelivery(o)'
    BY <1>2, <1>5, <2>1 DEF Untouched, OneDelivery, Served
  <2>3. /\ \A r \in Products : left[o][r] # 0 => left'[o][r] # 0
        /\ left'[o][p] # 0
    BY <1>7, <1>11
  <2>4. /\ \A r \in Products : came[o][r] # 0 => left[o][r] # 0
        /\ \A j \in DOMAIN in \ DOMAIN out : left[o][j[2]] # 0
    BY <1>2, <1>3 DEF GoodsOf, OutFirst
  <2>5. \A j \in DOMAIN in : j[2] \in Products
    BY QtyIs, FiguresTyped, KeysAre
  <2>6. OutFirst(o)'
    <3>1. \A r \in Products : came'[o][r] # 0 => left'[o][r] # 0
      BY <1>5, <2>3, <2>4
    <3>2. \A j \in DOMAIN in \ DOMAIN rest : left'[o][j[2]] # 0
      BY <1>6, <1>7, <2>3, <2>4, <2>5
    <3> QED
      BY <1>10, <2>1, <3>1, <3>2 DEF OutFirst
  <2>7. ASSUME o \notin marred' PROVE Straight(o)'
    <3>1. left[o][p] = 0 /\ Straight(o)
      BY <1>2, <1>13, <2>7 DEF GoodsOf
    <3>2. ASSUME NEW r \in Products
          PROVE  /\ left'[o][r] + Fixes(fixLeft', o, r) + OutOf(call'[c], o, r) + Delivery(o, r)
                      = left[o][r] + Fixes(fixLeft, o, r) + OutOf(call[c], o, r) + Delivery(o, r)'
                 /\ came'[o][r] + Fixes(fixCame', o, r) + InOf(call'[c], o, r) + Delivery(o, r)
                      = came[o][r] + Fixes(fixCame, o, r) + InOf(call[c], o, r) + Delivery(o, r)'
      <4>1. Delivery(o, r)' = Delivery(o, r) /\ Delivery(o, r) \in Int
        BY <1>1, <1>5, <1>14, SumsNow, SumsNext DEF SumsRight
      <4>2. /\ OutOf(call[c], o, r) = Total(out, r) /\ InOf(call[c], o, r) = Total(in, r)
            /\ OutOf(call'[c], o, r) = Total(rest, r) /\ InOf(call'[c], o, r) = Total(in, r)
        BY <1>1, <1>2, <1>3, <1>10 DEF OutOf, InOf
      <4>3. left'[o][r] + Total(rest, r) = left[o][r] + Total(out, r)
        <5>1. left[o][r] \in Nat /\ Total(out, r) \in Nat /\ Total(rest, r) \in Nat
          BY <1>1, <1>9 DEF TypeOK, Amount
        <5>2. CASE r = p
          <6>1. Total(rest, r) + n = Total(out, r) /\ left'[o][r] = n /\ left[o][r] = 0
            BY <1>9, <1>11, <3>1, <5>2
          <6> QED
            BY <1>7, <5>1, <6>1
        <5>3. CASE r # p
          BY <1>9, <1>11, <5>1, <5>3
        <5> QED
          BY <5>2, <5>3
      <4>4. /\ left[o][r] \in Int /\ left'[o][r] \in Int /\ came[o][r] \in Int
            /\ Fixes(fixLeft, o, r) \in Int /\ Fixes(fixCame, o, r) \in Int
            /\ Total(out, r) \in Int /\ Total(rest, r) \in Int /\ Total(in, r) \in Int
        <5>1. Total(in, r) \in Int
          BY QtyIs, FiguresTyped
        <5> QED
          BY <1>1, <1>9, <1>14, <5>1, LedgersTyped, LedgersTypedNext
      <4> QED
        BY <1>5, <4>1, <4>2, <4>3, <4>4
    <3> QED
      BY <1>1, <1>10, <1>14, <3>1, <3>2, StraightMoves
  <2> QED
    BY <2>2, <2>6, <2>7 DEF GoodsOf
<1>21. FixesFit'
  BY <1>1, <1>5, <1>10, FixesKept DEF GoodsInv
<1>22. GoodsInv'
  BY <1>18, <1>19, <1>20, <1>21 DEF GoodsInv
<1> QED
  BY <1>14, <1>17, <1>22 DEF OrdersInv

\* Steps of a delivery or a correction that leave demands, pool and what left as they are.
LEMMA PromisesPass ==
    ASSUME OrdersInv, TypeOK', UNCHANGED <<status, lines, left>>, strained \subseteq strained',
           \A p \in Products \ strained' : pool[p] <= pool'[p],
           \A c \in Callers : call'[c].op = "review" => call'[c] = call[c],
           \A c \in Callers : call'[c].op = "deliver" =>
               /\ call[c].op = "deliver" /\ call'[c].order = call[c].order
               /\ \/ call'[c].out = call[c].out
                  \/ \A p : Total(call'[c].out, p) <= Total(call[c].out, p)
    PROVE  RowsHeld' /\ SetAside'
<1>1. TypeOK /\ RowsHeld /\ SetAside
  BY DEF OrdersInv
<1>2. ASSUME NEW p \in Products \ strained'
      PROVE  Waiting(p)' + Leaving(p)' + pool[p] <= Waiting(p) + Leaving(p) + pool'[p]
  <2>1. Waiting(p)' <= Waiting(p) /\ Waiting(p) \in Nat /\ Waiting(p)' \in Nat
    BY <1>1, StillWaiting
  <2>2. \A c \in Callers : Load(c, p)' <= Load(c, p)
    <3> TAKE c \in Callers
    <3>1. Load(c, p) \in Nat /\ Load(c, p)' \in Nat
      BY <1>1, LoadIs, LoadIsNext
    <3>2. \/ Load(c, p)' = 0 \/ Load(c, p)' = Load(c, p)
          \/ /\ Load(c, p)' = Total(call'[c].out, p) /\ Load(c, p) = Total(call[c].out, p)
             /\ Total(call'[c].out, p) <= Total(call[c].out, p)
      BY DEF Load
    <3> QED
      BY <3>1, <3>2
  <2>3. Leaving(p)' <= Leaving(p) /\ Leaving(p) \in Nat /\ Leaving(p)' \in Nat
    BY <1>1, <2>2, LeavingLess
  <2>4. pool[p] <= pool'[p] /\ pool[p] \in Int /\ pool'[p] \in Int
    BY <1>1 DEF TypeOK
  <2> QED
    BY <2>1, <2>3, <2>4
<1> QED
  BY <1>1, <1>2, PromisesStay

LEMMA MoveInStep ==
    ASSUME OrdersInv, NEW c \in Callers, MoveIn(c)
    PROVE  OrdersInv'
<1>1. TypeOK /\ RowsHeld /\ SetAside /\ GoodsInv /\ call[c].op = "deliver"
  BY DEF OrdersInv, MoveIn
<1>2. PICK o \in Orders : /\ o = call[c].order /\ Carries(c, o) /\ Served(o) /\ GoodsOf(o)
                          /\ \A d \in Callers : Carries(d, o) => d = c
  BY <1>1, CarrierServes
<1>3. PICK out \in Figures(Qty), in \in Figures(Qty) : out = call[c].out /\ in = call[c].in
  BY <1>1, RequestTyped DEF TypeOK
<1>4. PICK k \in DOMAIN in :
        /\ came' = Once(came, o, k[2], in[k])
        /\ marred' = IF came[o][k[2]] # 0 THEN marred \cup {o} ELSE marred
        /\ call' = [call EXCEPT ![c].in = Without(@, k)]
  BY <1>2, <1>3 DEF MoveIn
<1>5. /\ DOMAIN out = {}
      /\ UNCHANGED <<status, lines, pool, left, fixLeft, fixCame, open, strained, slips>>
  BY <1>3 DEF MoveIn
<1>6. PICK p \in Products, n \in Qty : p = k[2] /\ n = in[k]
  BY QtyIs, WithoutIs
<1> DEFINE rest == Without(in, k)
<1>7. /\ rest \in Figures(Qty) /\ DOMAIN rest = DOMAIN in \ {k}
      /\ n \in Amount /\ n \in Nat /\ n # 0
  BY <1>6, QtyIs, WithoutIs
<1>8. call' = [call EXCEPT ![c].in = rest]
  BY <1>1, <1>3, <1>4 DEF TypeOK
<1>9. \A r \in Products : /\ Total(in, r) \in Nat /\ Total(rest, r) \in Nat
                          /\ r = p => Total(rest, r) + n = Total(in, r)
                          /\ r # p => Total(rest, r) = Total(in, r)
  <2> TAKE r \in Products
  <2>1. Total(in, r) \in Nat /\ Total(rest, r) \in Nat
    BY <1>7, QtyIs, FiguresTyped
  <2>2. /\ r = k[2] => Total(rest, r) + in[k] = Total(in, r)
        /\ r # k[2] => Total(rest, r) = Total(in, r)
    BY QtyIs, WithoutTotal
  <2> QED
    BY <1>6, <2>1, <2>2
<1> HIDE DEF rest
<1>10. /\ call' \in [Callers -> Request] /\ \A d \in Callers \ {c} : call'[d] = call[d]
       /\ call'[c].op = "deliver" /\ call'[c].order = o
       /\ call'[c].out = out /\ call'[c].in = rest
  BY <1>1, <1>2, <1>3, <1>7, <1>8, InEdited
<1>11. /\ came' \in [Orders -> [Products -> Amount]]
       /\ came[o][p] = 0 => came'[o][p] = n
       /\ came[o][p] # 0 => came' = came
       /\ \A u \in Orders \ {o} : came'[u] = came[u]
       /\ \A r \in Products \ {p} : came'[o][r] = came[o][r]
  <2>1. came' = Once(came, o, p, n) /\ came \in [Orders -> [Products -> Amount]]
    BY <1>1, <1>4, <1>6 DEF TypeOK
  <2>2. Taken(came, came', Orders, Amount, o, p, n)
    BY <1>7, <2>1, OnceIs
  <2> QED
    BY <2>2 DEF Taken
<1>12. marred' \subseteq Orders /\ marred \subseteq marred' /\ (o \in marred' <=> came[o][p] # 0 \/ o \in marred)
  BY <1>1, <1>4, <1>6 DEF TypeOK
<1>13. TypeOK'
  BY <1>1, <1>5, <1>10, <1>11, <1>12 DEF TypeOK
<1>14. RowsHeld' /\ SetAside'
  <2>1. \A d \in Callers : /\ call'[d].op = "review" => call'[d] = call[d]
                           /\ call'[d].op = "deliver" =>
                                /\ call[d].op = "deliver" /\ call'[d].order = call[d].order
                                /\ call'[d].out = call[d].out
    BY <1>1, <1>2, <1>3, <1>10
  <2>2. \A r \in Products : pool[r] <= pool'[r]
    BY <1>1, <1>5 DEF TypeOK
  <2> QED
    BY <1>5, <1>13, <2>1, <2>2, PromisesPass
<1>15. QueriesFit'
  BY <1>1, <1>10 DEF GoodsInv, QueriesFit
<1>16. \A u \in Orders \ {o} : GoodsOf(u)'
  BY <1>1, <1>2, <1>5, <1>10, <1>11, <1>13, <1>12, OthersKept
<1>17. GoodsOf(o)'
  <2>1. \A d \in Callers : Carries(d, o)' <=> d = c
    BY <1>2, <1>10 DEF Carries
  <2>2. Untouched(o)' /\ OneDelivery(o)'
    BY <1>2, <1>5, <2>1 DEF Untouched, OneDelivery, Served
  <2>3. /\ \A r \in Products : came[o][r] # 0 => left[o][r] # 0
        /\ \A j \in DOMAIN in : left[o][j[2]] # 0
    BY <1>2, <1>3, <1>5 DEF GoodsOf, OutFirst
  <2>4. OutFirst(o)'
    <3>1. \A r \in Products : came'[o][r] # 0 => left'[o][r] # 0
      BY <1>5, <1>6, <1>11, <2>3
    <3>2. \A j \in DOMAIN rest : left'[o][j[2]] # 0
      BY <1>5, <1>7, <2>3
    <3> QED
      BY <1>5, <1>10, <2>1, <3>1, <3>2 DEF OutFirst
  <2>5. ASSUME o \notin marred' PROVE Straight(o)'
    <3>1. came[o][p] = 0 /\ Straight(o)
      BY <1>2, <1>12, <2>5 DEF GoodsOf
    <3>2. ASSUME NEW r \in Products
          PROVE  /\ left'[o][r] + Fixes(fixLeft', o, r) + OutOf(call'[c], o, r) + Delivery(o, r)
                      = left[o][r] + Fixes(fixLeft, o, r) + OutOf(call[c], o, r) + Delivery(o, r)'
                 /\ came'[o][r] + Fixes(fixCame', o, r) + InOf(call'[c], o, r) + Delivery(o, r)
                      = came[o][r] + Fixes(fixCame, o, r) + InOf(call[c], o, r) + Delivery(o, r)'
      <4>1. Delivery(o, r)' = Delivery(o, r) /\ Delivery(o, r) \in Int
        BY <1>1, <1>5, <1>13, SumsNow, SumsNext DEF SumsRight
      <4>2. /\ OutOf(call[c], o, r) = Total(out, r) /\ InOf(call[c], o, r) = Total(in, r)
            /\ OutOf(call'[c], o, r) = Total(out, r) /\ InOf(call'[c], o, r) = Total(rest, r)
        BY <1>1, <1>2, <1>3, <1>10 DEF OutOf, InOf
      <4>3. came'[o][r] + Total(rest, r) = came[o][r] + Total(in, r)
        <5>1. came[o][r] \in Nat /\ Total(in, r) \in Nat /\ Total(rest, r) \in Nat
          BY <1>1, <1>9 DEF TypeOK, Amount
        <5>2. CASE r = p
          <6>1. Total(rest, r) + n = Total(in, r) /\ came'[o][r] = n /\ came[o][r] = 0
            BY <1>9, <1>11, <3>1, <5>2
          <6> QED
            BY <1>7, <5>1, <6>1
        <5>3. CASE r # p
          BY <1>9, <1>11, <5>1, <5>3
        <5> QED
          BY <5>2, <5>3
      <4>4. /\ left[o][r] \in Int /\ came'[o][r] \in Int /\ came[o][r] \in Int
            /\ Fixes(fixLeft, o, r) \in Int /\ Fixes(fixCame, o, r) \in Int
            /\ Total(out, r) \in Int /\ Total(rest, r) \in Int /\ Total(in, r) \in Int
        <5>1. Total(out, r) \in Int
          BY QtyIs, FiguresTyped
        <5> QED
          BY <1>1, <1>9, <1>13, <5>1, LedgersTyped, LedgersTypedNext
      <4>5. left'[o][r] + Fixes(fixLeft', o, r) + OutOf(call'[c], o, r) + Delivery(o, r)
              = left[o][r] + Fixes(fixLeft, o, r) + OutOf(call[c], o, r) + Delivery(o, r)'
        BY <1>5, <4>1, <4>2
      <4>6. came'[o][r] + Fixes(fixCame', o, r) + InOf(call'[c], o, r) + Delivery(o, r)
              = came[o][r] + Fixes(fixCame, o, r) + InOf(call[c], o, r) + Delivery(o, r)'
        <5> DEFINE a == came[o][r]  a1 == came'[o][r]  f == Fixes(fixCame, o, r)
                   u == Total(in, r)  u1 == Total(rest, r)  d == Delivery(o, r)
        <5>1. /\ a \in Int /\ a1 \in Int /\ f \in Int /\ u \in Int /\ u1 \in Int /\ d \in Int
              /\ a1 + u1 = a + u
          BY <4>1, <4>3, <4>4
        <5> HIDE DEF a, a1, f, u, u1, d
        <5>2. a1 + f + u1 + d = a + f + u + d
          BY <5>1
        <5> QED
          BY <1>5, <4>1, <4>2, <5>2 DEF a, a1, f, u, u1, d
      <4> QED
        BY <4>5, <4>6
    <3> QED
      BY <1>1, <1>10, <1>13, <3>1, <3>2, StraightMoves
  <2> QED
    BY <2>2, <2>4, <2>5 DEF GoodsOf
<1>18. FixesFit'
  BY <1>1, <1>5, <1>10, FixesKept DEF GoodsInv
<1>19. GoodsInv'
  BY <1>15, <1>16, <1>17, <1>18 DEF GoodsInv
<1> QED
  BY <1>13, <1>14, <1>19 DEF OrdersInv

\* Once everything is out and in, the ledgers say what the lines say.
LEMMA DeliveredStep ==
    ASSUME OrdersInv, NEW c \in Callers, Delivered(c)
    PROVE  OrdersInv'
<1>1. TypeOK /\ RowsHeld /\ SetAside /\ GoodsInv /\ call[c].op = "deliver"
  BY DEF OrdersInv, Delivered
<1>2. PICK o \in Orders : /\ o = call[c].order /\ Carries(c, o) /\ Served(o) /\ GoodsOf(o)
                          /\ \A d \in Callers : Carries(d, o) => d = c
  BY <1>1, CarrierServes
<1>3. /\ DOMAIN call[c].out = {} /\ DOMAIN call[c].in = {} /\ call' = [call EXCEPT ![c] = Free]
      /\ UNCHANGED <<status, lines, pool, left, came, fixLeft, fixCame, open, strained, marred, slips>>
  BY DEF Delivered, Answer
<1>4. /\ call' \in [Callers -> Request] /\ call'[c] = Free /\ Free.op = "none"
      /\ \A d \in Callers \ {c} : call'[d] = call[d]
  BY <1>1, <1>3, FreeTyped, CallBecomes
<1>5. TypeOK'
  BY <1>1, <1>3, <1>4 DEF TypeOK
<1>6. RowsHeld' /\ SetAside'
  <2>1. \A d \in Callers : /\ call'[d].op = "review" => call'[d] = call[d]
                           /\ call'[d].op = "deliver" => call'[d] = call[d]
    BY <1>4
  <2>2. \A r \in Products : pool[r] <= pool'[r]
    BY <1>1, <1>3 DEF TypeOK
  <2> QED
    BY <1>3, <1>5, <2>1, <2>2, PromisesPass
<1>7. QueriesFit'
  BY <1>1, <1>4 DEF GoodsInv, QueriesFit
<1>8. \A u \in Orders \ {o} : GoodsOf(u)'
  BY <1>1, <1>2, <1>3, <1>4, <1>5, OthersKept
<1>9. GoodsOf(o)'
  <2>1. \A d \in Callers : /\ ~Carries(d, o)'
                           /\ Corrects(d, o)' <=> Corrects(d, o)
                           /\ Corrects(d, o)' => call'[d] = call[d]
    BY <1>1, <1>2, <1>4 DEF Carries, Corrects
  <2>2. Untouched(o)' /\ OneDelivery(o)' /\ OutFirst(o)'
    BY <1>2, <1>3, <2>1 DEF GoodsOf, Untouched, OneDelivery, OutFirst, Served
  <2>3. ASSUME o \notin marred' PROVE Straight(o)'
    <3>1. Straight(o)
      BY <1>2, <1>3, <2>3 DEF GoodsOf
    <3>2. \A r \in Products : Delivery(o, r)' = Delivery(o, r)
      BY <1>1, <1>3, <1>5, SumsNow, SumsNext DEF SumsRight
    <3>3. \A r : /\ OutOf(call[c], o, r) = 0 /\ InOf(call[c], o, r) = 0
                 /\ OutOf(call'[c], o, r) = 0 /\ InOf(call'[c], o, r) = 0
      BY <1>1, <1>2, <1>3, <1>4, NothingInAll DEF OutOf, InOf
    <3> QED
      BY <1>1, <1>3, <1>4, <1>5, <3>1, <3>2, <3>3, StraightMoves
  <2> QED
    BY <2>2, <2>3 DEF GoodsOf
<1>10. FixesFit'
  BY <1>1, <1>3, <1>4, FixesKept DEF GoodsInv
<1>11. GoodsInv'
  BY <1>7, <1>8, <1>9, <1>10 DEF GoodsInv
<1> QED
  BY <1>5, <1>6, <1>11 DEF OrdersInv

-----------------------------------------------------------------------------
(* Corrections, and what breaks off                                         *)

\* A delivery some of whose movements fail: those under way still arrive.
LEMMA LateEdited ==
    ASSUME TypeOK, NEW c \in Callers, call[c].op = "deliver", NEW late, late \subseteq AtHand(call[c]),
           call' = [call EXCEPT ![c].out = Restrict(@, late \cap DOMAIN @),
                        ![c].in = Restrict(@, IF DOMAIN call[c].out = {} THEN late ELSE {})]
    PROVE  /\ call' \in [Callers -> Request] /\ \A d \in Callers \ {c} : call'[d] = call[d]
           /\ call'[c].op = "deliver" /\ call'[c].order = call[c].order
           /\ \A p : Total(call'[c].out, p) <= Total(call[c].out, p)
           /\ \A k \in DOMAIN call'[c].in : DOMAIN call[c].out = {} /\ k \in DOMAIN call[c].in
<1> DEFINE R == [op : {"deliver"}, order : Orders, out : Figures(Qty), in : Figures(Qty)]
           D == late \cap DOMAIN call[c].out
           E == IF DOMAIN call[c].out = {} THEN late ELSE {}
           f == Restrict(call[c].out, D)
           g == Restrict(call[c].in, E)
           q == [call[c] EXCEPT !.out = f, !.in = g]
<1>1. call[c] \in R
  BY RequestTyped DEF TypeOK
<1>2. D \subseteq DOMAIN call[c].out /\ E \subseteq DOMAIN call[c].in
  BY DEF AtHand
<1>3. call' = [call EXCEPT ![c] = q]
  BY DEF TypeOK
<1>4. E # {} => DOMAIN call[c].out = {}
  OBVIOUS
<1> HIDE DEF D, E
<1>5. f \in Figures(Qty) /\ \A p : Total(f, p) <= Total(call[c].out, p)
  BY <1>1, <1>2, QtyIs, RestrictFits
<1>6. g \in Figures(Qty) /\ DOMAIN g = E
  BY <1>1, <1>2, QtyIs, RestrictFits
<1> HIDE DEF f, g
<1>7. q \in R /\ q.op = "deliver" /\ q.order = call[c].order /\ q.out = f /\ q.in = g
  BY <1>1, <1>5, <1>6
<1> HIDE DEF q
<1>8. q \in Request
  BY <1>7 DEF Request
<1>9. /\ call' \in [Callers -> Request] /\ call'[c] = q
      /\ \A d \in Callers \ {c} : call'[d] = call[d]
  BY <1>3, <1>8, CallBecomes
<1> QED
  BY <1>2, <1>4, <1>5, <1>6, <1>7, <1>9

\* A demand one of whose movements broke off is marred: nothing more is said of its figures.
LEMMA FailStep ==
    ASSUME OrdersInv, NEW c \in Callers, Fail(c)
    PROVE  OrdersInv'
<1>1. TypeOK /\ RowsHeld /\ SetAside /\ GoodsInv /\ call[c].op \in {"deliver", "reconcile"}
  BY DEF OrdersInv, Fail
<1>2. PICK o \in Orders : o = call[c].order /\ GoodsOf(o)
  BY <1>1, RequestTyped DEF TypeOK, GoodsInv
<1>3. /\ Slip /\ marred' = IF AtHand(call[c]) # {} THEN marred \cup {o} ELSE marred
      /\ UNCHANGED <<status, lines, pool, left, came, fixLeft, fixCame, open, strained>>
  BY <1>2 DEF Fail
<1>4. /\ call' \in [Callers -> Request] /\ \A d \in Callers \ {c} : call'[d] = call[d]
      /\ \/ call'[c] = Free
         \/ /\ call[c].op = "deliver" /\ call'[c].op = "deliver" /\ call'[c].order = o
            /\ AtHand(call[c]) # {}
            /\ \A p : Total(call'[c].out, p) <= Total(call[c].out, p)
            /\ \A k \in DOMAIN call'[c].in : DOMAIN call[c].out = {} /\ k \in DOMAIN call[c].in
  <2>1. CASE Answer(c)
    BY <1>1, <2>1, FreeTyped, CallBecomes DEF Answer
  <2>2. ASSUME call[c].op = "deliver", NEW late \in (SUBSET AtHand(call[c])) \ {{}},
               call' = [call EXCEPT ![c].out = Restrict(@, late \cap DOMAIN @),
                            ![c].in = Restrict(@, IF DOMAIN call[c].out = {} THEN late ELSE {})]
        PROVE  /\ call' \in [Callers -> Request] /\ \A d \in Callers \ {c} : call'[d] = call[d]
               /\ call'[c].op = "deliver" /\ call'[c].order = o /\ AtHand(call[c]) # {}
               /\ \A p : Total(call'[c].out, p) <= Total(call[c].out, p)
               /\ \A k \in DOMAIN call'[c].in : DOMAIN call[c].out = {} /\ k \in DOMAIN call[c].in
    BY <1>1, <1>2, <2>2, LateEdited
  <2> QED
    BY <2>1, <2>2 DEF Fail
<1>5. slips' \in 0 .. MaxSlips
  BY <1>1, <1>3, SlipTyped
<1>6. TypeOK'
  BY <1>1, <1>2, <1>3, <1>4, <1>5 DEF TypeOK
<1>7. RowsHeld' /\ SetAside'
  <2>1. \A d \in Callers : /\ call'[d].op = "review" => call'[d] = call[d]
                           /\ call'[d].op = "deliver" =>
                                /\ call[d].op = "deliver" /\ call'[d].order = call[d].order
                                /\ \/ call'[d].out = call[d].out
                                   \/ \A p : Total(call'[d].out, p) <= Total(call[d].out, p)
    BY <1>2, <1>4, FreeTyped
  <2>2. \A r \in Products : pool[r] <= pool'[r]
    BY <1>1, <1>3 DEF TypeOK
  <2> QED
    BY <1>3, <1>6, <2>1, <2>2, PromisesPass
<1>8. QueriesFit'
  BY <1>1, <1>4, FreeTyped DEF GoodsInv, QueriesFit
<1>9. FixesFit'
  BY <1>1, <1>3, <1>4, FreeTyped, FixesKept DEF GoodsInv
<1>10. \A u \in Orders \ {o} : GoodsOf(u)'
  <2>1. /\ call[c].op \in {"deliver", "reconcile"} => call[c].order = o
        /\ call'[c].op \in {"deliver", "reconcile"} => call'[c].order = o
        /\ marred \subseteq marred'
    BY <1>2, <1>3, <1>4, FreeTyped
  <2> QED
    BY <1>3, <1>4, <1>6, <2>1, OthersKept
<1>11. GoodsOf(o)'
  <2>1. \A d \in Callers : /\ Carries(d, o)' => Carries(d, o)
                           /\ d # c => call'[d] = call[d]
                           /\ Corrects(d, o)' => Corrects(d, o) /\ call'[d] = call[d]
    BY <1>2, <1>4, FreeTyped DEF Carries, Corrects
  <2>2. NoFixesOf(o) => NoFixesOf(o)'
    BY <1>3 DEF NoFixesOf, NoFixes
  <2>3. Untouched(o)'
    BY <1>2, <1>3, <2>1, <2>2 DEF GoodsOf, Untouched, Served
  <2>4. OneDelivery(o)'
    BY <1>2, <2>1 DEF GoodsOf, OneDelivery
  <2>5. OutFirst(o)'
    <3>1. /\ \A p \in Products : came[o][p] # 0 => left[o][p] # 0
          /\ \A d \in Callers : Carries(d, o) =>
               \A k \in DOMAIN call[d].in \ DOMAIN call[d].out : left[o][k[2]] # 0
      BY <1>2 DEF GoodsOf, OutFirst
    <3>2. ASSUME NEW d \in Callers, Carries(d, o)',
                 NEW k \in DOMAIN call'[d].in \ DOMAIN call'[d].out
          PROVE  left'[o][k[2]] # 0
      <4>1. Carries(d, o)
        BY <2>1, <3>2
      <4>2. CASE d # c
        BY <1>3, <2>1, <3>1, <3>2, <4>1, <4>2
      <4>3. CASE d = c
        <5>1. DOMAIN call[c].out = {} /\ k \in DOMAIN call[c].in
          BY <1>4, <3>2, <4>3, FreeTyped DEF Carries
        <5> QED
          BY <1>3, <3>1, <4>1, <4>3, <5>1
      <4> QED
        BY <4>2, <4>3
    <3> QED
      BY <1>3, <3>1, <3>2 DEF OutFirst
  <2>6. ASSUME o \notin marred' PROVE Straight(o)'
    <3>1. AtHand(call[c]) = {} /\ Straight(o) /\ call'[c].op = "none"
      BY <1>2, <1>3, <1>4, <2>6, FreeTyped DEF GoodsOf
    <3>2. \A r : OutOf(call[c], o, r) = 0 /\ InOf(call[c], o, r) = 0
      <4>1. CASE call[c].op = "deliver"
        <5>1. DOMAIN call[c].out = {} /\ DOMAIN call[c].in = {}
          BY <3>1, <4>1 DEF AtHand
        <5> QED
          BY <4>1, <5>1, NothingInAll DEF OutOf, InOf
      <4>2. CASE call[c].op = "reconcile"
        <5>1. DOMAIN call[c].todo = {} /\ DOMAIN Ahead(call[c]) = {}
          BY <3>1, <4>2 DEF AtHand, Ahead, Restrict
        <5> QED
          BY <4>2, <5>1, NothingInAll DEF OutOf, InOf
      <4> QED
        BY <1>1, <4>1, <4>2
    <3>3. \A r : OutOf(call'[c], o, r) = 0 /\ InOf(call'[c], o, r) = 0
      BY <3>1 DEF OutOf, InOf
    <3>4. \A r \in Products : Delivery(o, r)' = Delivery(o, r)
      BY <1>1, <1>3, <1>6, SumsNow, SumsNext DEF SumsRight
    <3> QED
      BY <1>1, <1>3, <1>4, <1>6, <3>1, <3>2, <3>3, <3>4, StraightMoves
  <2> QED
    BY <2>3, <2>4, <2>5, <2>6 DEF GoodsOf
<1>12. GoodsInv'
  BY <1>8, <1>9, <1>10, <1>11 DEF GoodsInv
<1> QED
  BY <1>6, <1>7, <1>12 DEF OrdersInv

\* What a correction in its second half has in hand.
LEMMA CorrectorHas ==
    ASSUME OrdersInv, NEW c \in Callers, call[c].op = "reconcile"
    PROVE  \E o \in Orders, t \in Tickets, todo \in Figures(- MaxQty .. MaxQty), half \in SUBSET Keys :
             /\ o = call[c].order /\ t = call[c].ticket /\ todo = call[c].todo /\ half = call[c].half
             /\ About[t] = o /\ half \subseteq DOMAIN todo /\ (\A j, k \in half : j = k)
             /\ Corrects(c, o) /\ GoodsOf(o)
             /\ DOMAIN todo # {} => Served(o)
<1>1. call[c] \in [op : {"reconcile"}, order : Orders, ticket : Tickets,
                   todo : Figures(- MaxQty .. MaxQty), half : SUBSET Keys]
  BY RequestTyped DEF OrdersInv, TypeOK
<1>2. PICK o \in Orders : o = call[c].order
  BY <1>1
<1>3. /\ About[call[c].ticket] = o /\ call[c].half \subseteq DOMAIN call[c].todo
      /\ \A j, k \in call[c].half : j = k
  BY <1>2 DEF OrdersInv, GoodsInv, QueriesFit
<1>4. Corrects(c, o) /\ GoodsOf(o)
  BY <1>2 DEF OrdersInv, GoodsInv, Corrects
<1>5. DOMAIN call[c].todo # {} => Served(o)
  BY <1>4 DEF GoodsOf, Untouched
<1> QED
  BY <1>1, <1>2, <1>3, <1>4, <1>5

\* The query is closed once every difference has moved.
LEMMA ResolveStep ==
    ASSUME OrdersInv, NEW c \in Callers, Resolve(c)
    PROVE  OrdersInv'
<1>1. TypeOK /\ RowsHeld /\ SetAside /\ GoodsInv /\ call[c].op = "reconcile"
  BY DEF OrdersInv, Resolve
<1>2. PICK o \in Orders, t \in Tickets :
        o = call[c].order /\ t = call[c].ticket /\ About[t] = o /\ Corrects(c, o) /\ GoodsOf(o)
  BY <1>1, CorrectorHas
<1>3. /\ DOMAIN call[c].todo = {} /\ open' = open \ {t} /\ call' = [call EXCEPT ![c] = Free]
      /\ UNCHANGED <<status, lines, pool, left, came, fixLeft, fixCame, strained, marred, slips>>
  BY <1>2 DEF Resolve, Answer
<1>4. /\ call' \in [Callers -> Request] /\ call'[c] = Free /\ Free.op = "none"
      /\ \A d \in Callers \ {c} : call'[d] = call[d]
  BY <1>1, <1>3, FreeTyped, CallBecomes
<1>5. TypeOK'
  BY <1>1, <1>3, <1>4 DEF TypeOK
<1>6. RowsHeld' /\ SetAside'
  <2>1. \A d \in Callers : /\ call'[d].op = "review" => call'[d] = call[d]
                           /\ call'[d].op = "deliver" => call'[d] = call[d]
    BY <1>4
  <2>2. \A r \in Products : pool[r] <= pool'[r]
    BY <1>1, <1>3 DEF TypeOK
  <2> QED
    BY <1>3, <1>5, <2>1, <2>2, PromisesPass
<1>7. QueriesFit'
  BY <1>1, <1>4 DEF GoodsInv, QueriesFit
<1>8. \A u \in Orders \ {o} : GoodsOf(u)'
  BY <1>1, <1>2, <1>3, <1>4, <1>5, OthersKept
<1>9. GoodsOf(o)'
  <2>1. \A d \in Callers : /\ Carries(d, o)' <=> Carries(d, o)
                           /\ Carries(d, o)' => call'[d] = call[d]
                           /\ Corrects(d, o)' => Corrects(d, o) /\ call'[d] = call[d] /\ d # c
    BY <1>1, <1>4 DEF Carries, Corrects
  <2>2. NoFixesOf(o)' <=> NoFixesOf(o)
    BY <1>3 DEF NoFixes, NoFixesOf
  <2>3. Untouched(o)' /\ OneDelivery(o)' /\ OutFirst(o)'
    BY <1>2, <1>3, <2>1, <2>2 DEF GoodsOf, Untouched, OneDelivery, OutFirst, Served
  <2>4. ASSUME o \notin marred' PROVE Straight(o)'
    <3>1. Straight(o)
      BY <1>2, <1>3, <2>4 DEF GoodsOf
    <3>2. \A r \in Products : Delivery(o, r)' = Delivery(o, r)
      BY <1>1, <1>3, <1>5, SumsNow, SumsNext DEF SumsRight
    <3>3. \A r : /\ OutOf(call[c], o, r) = 0 /\ InOf(call[c], o, r) = 0
                 /\ OutOf(call'[c], o, r) = 0 /\ InOf(call'[c], o, r) = 0
      <4>1. DOMAIN Ahead(call[c]) = {}
        BY <1>3 DEF Ahead, Restrict
      <4> QED
        BY <1>1, <1>2, <1>3, <1>4, <4>1, NothingInAll DEF OutOf, InOf
    <3> QED
      BY <1>1, <1>3, <1>4, <1>5, <3>1, <3>2, <3>3, StraightMoves
  <2> QED
    BY <2>3, <2>4 DEF GoodsOf
<1>10. FixesFit'
  BY <1>1, <1>3, <1>4, FixesKept DEF GoodsInv
<1>11. GoodsInv'
  BY <1>7, <1>8, <1>9, <1>10 DEF GoodsInv
<1> QED
  BY <1>5, <1>6, <1>11 DEF OrdersInv

LEMMA HalfEdited ==
    ASSUME TypeOK, NEW c \in Callers, call[c].op = "reconcile", NEW half \in SUBSET Keys,
           call' = [call EXCEPT ![c].half = half]
    PROVE  /\ call' \in [Callers -> Request] /\ \A d \in Callers \ {c} : call'[d] = call[d]
           /\ call'[c].op = "reconcile" /\ call'[c].order = call[c].order
           /\ call'[c].ticket = call[c].ticket /\ call'[c].todo = call[c].todo
           /\ call'[c].half = half
<1> DEFINE q == [call[c] EXCEPT !.half = half]
           R == [op : {"reconcile"}, order : Orders, ticket : Tickets,
                 todo : Figures(- MaxQty .. MaxQty), half : SUBSET Keys]
<1>1. call[c] \in R
  BY RequestTyped DEF TypeOK
<1>2. /\ q \in R /\ q.op = "reconcile" /\ q.order = call[c].order /\ q.ticket = call[c].ticket
      /\ q.todo = call[c].todo /\ q.half = half
  BY <1>1
<1>3. call' = [call EXCEPT ![c] = q]
  BY DEF TypeOK
<1> HIDE DEF q
<1>4. q \in Request
  BY <1>2 DEF Request
<1> QED
  BY <1>2, <1>3, <1>4, CallBecomes

\* What one query's correction adds to its demand.
AddsUp(ledger, next, o, t, p) ==
    Fixes(next, o, p) = Fixes(ledger, o, p) + (next[t][p] - ledger[t][p])

LEMMA FixesMove ==
    ASSUME NEW ledger \in [Tickets -> [Products -> Int]], NEW next \in [Tickets -> [Products -> Int]],
           NEW t \in Tickets, NEW o, About[t] = o, NEW p \in Products,
           \A u \in Tickets \ {t} : next[u] = ledger[u]
    PROVE  AddsUp(ledger, next, o, t, p)
<1>1. \A u \in Tickets \ {t} : next[u][p] = ledger[u][p]
  OBVIOUS
<1> QED
  BY <1>1, FixesSum DEF AddsUp

LEMMA FixBranchStep ==
    ASSUME OrdersInv, NEW c \in Callers, FixBranch(c)
    PROVE  OrdersInv'
<1>1. TypeOK /\ RowsHeld /\ SetAside /\ GoodsInv /\ call[c].op = "reconcile"
  BY DEF OrdersInv, FixBranch
<1>2. PICK o \in Orders, t \in Tickets, todo \in Figures(- MaxQty .. MaxQty), half \in SUBSET Keys :
        /\ o = call[c].order /\ t = call[c].ticket /\ todo = call[c].todo /\ half = call[c].half
        /\ About[t] = o /\ half \subseteq DOMAIN todo /\ (\A j, k \in half : j = k)
        /\ Corrects(c, o) /\ GoodsOf(o) /\ (DOMAIN todo # {} => Served(o))
  BY <1>1, CorrectorHas
<1>3. half = {} /\ UNCHANGED <<status, lines, pool, left, came, fixLeft, open, strained, slips>>
  BY <1>2 DEF FixBranch
<1>4. PICK k \in DOMAIN todo :
        /\ fixCame' = Once(fixCame, t, k[2], todo[k])
        /\ marred' = IF fixCame[t][k[2]] # 0 THEN marred \cup {o} ELSE marred
        /\ call' = [call EXCEPT ![c].half = {k}]
  BY <1>2 DEF FixBranch
<1>5. - MaxQty .. MaxQty \subseteq Int
  BY OrdersAssumption
<1>6. PICK p \in Products, delta \in Int : p = k[2] /\ delta = todo[k] /\ k \in Keys
  BY <1>5, WithoutIs
<1>7. /\ call' \in [Callers -> Request] /\ \A d \in Callers \ {c} : call'[d] = call[d]
      /\ call'[c].op = "reconcile" /\ call'[c].order = o
      /\ call'[c].ticket = t /\ call'[c].todo = todo /\ call'[c].half = {k}
  <2>1. {k} \in SUBSET Keys
    BY <1>6
  <2> QED
    BY <1>1, <1>2, <1>4, <2>1, HalfEdited
<1>8. /\ fixCame' \in [Tickets -> [Products -> Int]]
      /\ fixCame[t][p] = 0 => fixCame'[t][p] = delta
      /\ fixCame[t][p] # 0 => fixCame' = fixCame
      /\ \A u \in Tickets \ {t} : fixCame'[u] = fixCame[u]
      /\ \A r \in Products \ {p} : fixCame'[t][r] = fixCame[t][r]
  <2>1. fixCame' = Once(fixCame, t, p, delta) /\ fixCame \in [Tickets -> [Products -> Int]]
    BY <1>1, <1>4, <1>6 DEF TypeOK
  <2>2. Taken(fixCame, fixCame', Tickets, Int, t, p, delta)
    BY <2>1, OnceIs
  <2> QED
    BY <2>2 DEF Taken
<1>9. marred' \subseteq Orders /\ marred \subseteq marred'
      /\ (o \in marred' <=> fixCame[t][p] # 0 \/ o \in marred)
  BY <1>1, <1>4, <1>6 DEF TypeOK
<1>10. TypeOK'
  BY <1>1, <1>3, <1>7, <1>8, <1>9 DEF TypeOK
<1>11. RowsHeld' /\ SetAside'
  <2>1. \A d \in Callers : /\ call'[d].op = "review" => call'[d] = call[d]
                           /\ call'[d].op = "deliver" => call'[d] = call[d]
    BY <1>7
  <2>2. \A r \in Products : pool[r] <= pool'[r]
    BY <1>1, <1>3 DEF TypeOK
  <2> QED
    BY <1>3, <1>10, <2>1, <2>2, PromisesPass
<1>12. QueriesFit'
  BY <1>1, <1>2, <1>7 DEF GoodsInv, QueriesFit
<1>13. FixesFit'
  <2>1. /\ \A u \in Tickets, r \in Products : fixLeft[u][r] # 0 => fixCame[u][r] # 0
        /\ \A d \in Callers : call[d].op = "reconcile" =>
             /\ \A i \in DOMAIN call[d].todo : call[d].todo[i] # 0
             /\ \A i \in call[d].half : fixCame[call[d].ticket][i[2]] # 0
    BY <1>1 DEF GoodsInv, FixesFit
  <2>2. delta # 0
    BY <1>1, <1>2, <1>6, <2>1
  <2>3. /\ fixCame'[t][p] # 0
        /\ \A u \in Tickets, r \in Products : fixCame[u][r] # 0 => fixCame'[u][r] # 0
    BY <1>8, <2>2
  <2>4. ASSUME NEW d \in Callers, call'[d].op = "reconcile"
        PROVE  /\ \A i \in DOMAIN call'[d].todo : call'[d].todo[i] # 0
               /\ \A i \in call'[d].half : fixCame'[call'[d].ticket][i[2]] # 0
    <3>1. CASE d = c
      <4>1. call'[d].todo = call[c].todo /\ call'[d].half = {k} /\ call'[d].ticket = t
        BY <1>2, <1>7, <3>1
      <4> QED
        BY <1>1, <1>6, <2>1, <2>3, <4>1
    <3>2. CASE d # c
      <4>1. call'[d] = call[d] /\ call[d].op = "reconcile"
        BY <1>7, <2>4, <3>2
      <4>2. call[d].ticket \in Tickets /\ \A i \in call[d].half : i[2] \in Products
        BY <1>1, <4>1, RequestTyped, KeysAre DEF TypeOK
      <4> QED
        BY <2>1, <2>3, <4>1, <4>2
    <3> QED
      BY <3>1, <3>2
  <2> QED
    BY <1>3, <2>1, <2>3, <2>4 DEF FixesFit
<1>14. \A u \in Orders \ {o} : GoodsOf(u)'
  <2>1. /\ \A d \in Callers \ {c} : call'[d] = call[d]
        /\ call[c].order = o /\ call'[c].order = o
    BY <1>2, <1>7
  <2>2. /\ left' = left /\ came' = came /\ lines' = lines
        /\ status' = status /\ marred \subseteq marred'
    BY <1>3, <1>9
  <2>3. \A u \in Tickets : About[u] # o => fixLeft'[u] = fixLeft[u] /\ fixCame'[u] = fixCame[u]
    BY <1>2, <1>3, <1>8
  <2> QED
    BY <1>10, <2>1, <2>2, <2>3, OthersKept
<1>15. GoodsOf(o)'
  <2>1. Served(o)'
    BY <1>2, <1>3 DEF Served
  <2>2. \A d \in Callers : /\ Carries(d, o)' <=> Carries(d, o)
                           /\ Carries(d, o)' => call'[d] = call[d]
    BY <1>1, <1>7 DEF Carries
  <2>3. Untouched(o)' /\ OneDelivery(o)' /\ OutFirst(o)'
    BY <1>2, <1>3, <2>1, <2>2 DEF GoodsOf, Untouched, OneDelivery, OutFirst
  <2>4. ASSUME o \notin marred' PROVE Straight(o)'
    <3>1. fixCame[t][p] = 0 /\ fixCame'[t][p] = delta /\ Straight(o)
      BY <1>2, <1>8, <1>9, <2>4 DEF GoodsOf
    <3>2. ASSUME NEW r \in Products
          PROVE  /\ left'[o][r] + Fixes(fixLeft', o, r) + OutOf(call'[c], o, r) + Delivery(o, r)
                      = left[o][r] + Fixes(fixLeft, o, r) + OutOf(call[c], o, r) + Delivery(o, r)'
                 /\ came'[o][r] + Fixes(fixCame', o, r) + InOf(call'[c], o, r) + Delivery(o, r)
                      = came[o][r] + Fixes(fixCame, o, r) + InOf(call[c], o, r) + Delivery(o, r)'
      <4>1. Delivery(o, r)' = Delivery(o, r) /\ Delivery(o, r) \in Int
        BY <1>1, <1>3, <1>10, SumsNow, SumsNext DEF SumsRight
      <4>2. Fixes(fixCame', o, r) = Fixes(fixCame, o, r) + (fixCame'[t][r] - fixCame[t][r])
        <5>1. /\ fixCame \in [Tickets -> [Products -> Int]]
              /\ fixCame' \in [Tickets -> [Products -> Int]]
              /\ \A u \in Tickets \ {t} : fixCame'[u] = fixCame[u]
          BY <1>1, <1>8 DEF TypeOK
        <5>2. About[t] = o
          BY <1>2
        <5>3. AddsUp(fixCame, fixCame', o, t, r)
          BY <5>1, <5>2, FixesMove
        <5> QED
          BY <5>3 DEF AddsUp
      <4>3. /\ OutOf(call[c], o, r) = Total(todo, r) /\ OutOf(call'[c], o, r) = Total(todo, r)
            /\ InOf(call[c], o, r) = Total(todo, r)
            /\ InOf(call'[c], o, r) = Total(Without(todo, k), r)
        <5>1. Ahead(call'[c]) = Without(todo, k)
          BY <1>7 DEF Ahead, Without
        <5>2. Total(Ahead(call[c]), r) = Total(todo, r)
          <6>1. DOMAIN todo \ {} = DOMAIN todo
            OBVIOUS
          <6>2. Ahead(call[c]) = Restrict(todo, DOMAIN todo)
            BY <1>2, <1>3, <6>1 DEF Ahead
          <6> QED
            BY <6>2, CorrectionFits
        <5> QED
          BY <1>1, <1>2, <1>7, <5>1, <5>2 DEF OutOf, InOf
      <4>4. /\ Total(todo, r) \in Int /\ Total(Without(todo, k), r) \in Int
            /\ r = p => Total(Without(todo, k), r) + delta = Total(todo, r)
            /\ r # p => Total(Without(todo, k), r) = Total(todo, r)
        <5>1. Total(todo, r) \in Int
          BY <1>5, FiguresTyped
        <5>2. Without(todo, k) \in Figures(- MaxQty .. MaxQty)
          BY <1>5, WithoutIs
        <5>3. Total(Without(todo, k), r) \in Int
          BY <1>5, <5>2, FiguresTyped
        <5>4. /\ r = k[2] => Total(Without(todo, k), r) + todo[k] = Total(todo, r)
              /\ r # k[2] => Total(Without(todo, k), r) = Total(todo, r)
          BY <1>5, WithoutTotal
        <5> QED
          BY <1>6, <5>1, <5>3, <5>4
      <4>5. /\ left[o][r] \in Int /\ Fixes(fixLeft, o, r) \in Int /\ came[o][r] \in Int
            /\ Fixes(fixCame, o, r) \in Int /\ fixCame[t][r] \in Int
        BY <1>1, LedgersTyped DEF TypeOK
      <4>6. Fixes(fixCame', o, r) + Total(Without(todo, k), r) = Fixes(fixCame, o, r) + Total(todo, r)
        <5> DEFINE f == Fixes(fixCame, o, r)  f1 == Fixes(fixCame', o, r)
                   w == Total(Without(todo, k), r)  u == Total(todo, r)
                   m == fixCame'[t][r] - fixCame[t][r]
        <5>1. m \in Int /\ w + m = u
          <6>1. CASE r = p
            BY <1>6, <3>1, <4>4, <6>1
          <6>2. CASE r # p
            <7>1. fixCame'[t][r] = fixCame[t][r]
              BY <1>8, <6>2
            <7> QED
              BY <4>4, <4>5, <6>2, <7>1
          <6> QED
            BY <6>1, <6>2
        <5>2. f \in Int /\ w \in Int /\ u \in Int /\ f1 = f + m
          BY <4>2, <4>4, <4>5
        <5> HIDE DEF f, f1, w, u, m
        <5>3. f1 + w = f + u
          BY <5>1, <5>2
        <5> QED
          BY <5>3 DEF f, f1, w, u
      <4>7. Fixes(fixCame', o, r) \in Int
        BY <1>10, LedgersTypedNext
      <4>8. came'[o][r] + Fixes(fixCame', o, r) + InOf(call'[c], o, r) + Delivery(o, r)
              = came[o][r] + Fixes(fixCame, o, r) + InOf(call[c], o, r) + Delivery(o, r)'
        <5> DEFINE a == came[o][r]  f == Fixes(fixCame, o, r)  f1 == Fixes(fixCame', o, r)
                   w == Total(Without(todo, k), r)  u == Total(todo, r)  d == Delivery(o, r)
        <5>1. /\ a \in Int /\ f \in Int /\ f1 \in Int /\ w \in Int /\ u \in Int /\ d \in Int
              /\ f1 + w = f + u
          BY <4>1, <4>4, <4>5, <4>6, <4>7
        <5> HIDE DEF a, f, f1, w, u, d
        <5>2. a + f1 + w + d = a + f + u + d
          BY <5>1
        <5> QED
          BY <1>3, <4>1, <4>3, <5>2 DEF a, f, f1, w, u, d
      <4> QED
        BY <1>3, <4>1, <4>3, <4>8
    <3> QED
      BY <1>1, <1>7, <1>10, <3>1, <3>2, StraightMoves
  <2> QED
    BY <2>3, <2>4 DEF GoodsOf
<1>16. GoodsInv'
  BY <1>12, <1>13, <1>14, <1>15 DEF GoodsInv
<1> QED
  BY <1>10, <1>11, <1>16 DEF OrdersInv

LEMMA FixPoolStep ==
    ASSUME OrdersInv, NEW c \in Callers, FixPool(c)
    PROVE  OrdersInv'
<1>1. TypeOK /\ RowsHeld /\ SetAside /\ GoodsInv /\ call[c].op = "reconcile"
  BY DEF OrdersInv, FixPool
<1>2. PICK o \in Orders, t \in Tickets, todo \in Figures(- MaxQty .. MaxQty), half \in SUBSET Keys :
        /\ o = call[c].order /\ t = call[c].ticket /\ todo = call[c].todo /\ half = call[c].half
        /\ About[t] = o /\ half \subseteq DOMAIN todo /\ (\A j, k \in half : j = k)
        /\ Corrects(c, o) /\ GoodsOf(o) /\ (DOMAIN todo # {} => Served(o))
  BY <1>1, CorrectorHas
<1>3. UNCHANGED <<status, lines, left, came, fixCame, open, slips>>
  BY DEF FixPool
<1>4. PICK k \in half :
        /\ RowFree(c, k[2])
        /\ fixLeft' = Once(fixLeft, t, k[2], todo[k])
        /\ pool' = [pool EXCEPT ![k[2]] = @ - (fixLeft'[t][k[2]] - fixLeft[t][k[2]])]
        /\ marred' = IF fixLeft[t][k[2]] # 0 THEN marred \cup {o} ELSE marred
        /\ call' = [call EXCEPT ![c].todo = Without(@, k), ![c].half = {}]
        /\ strained' = IF todo[k] > 0 THEN strained \cup {k[2]} ELSE strained
  BY <1>2 DEF FixPool
<1>5. - MaxQty .. MaxQty \subseteq Int /\ k \in DOMAIN todo /\ half = {k} /\ Served(o)
  BY <1>2, OrdersAssumption
<1>6. PICK p \in Products, delta \in Int : p = k[2] /\ delta = todo[k] /\ k \in Keys
  BY <1>5, WithoutIs
<1>7. /\ call' \in [Callers -> Request] /\ \A d \in Callers \ {c} : call'[d] = call[d]
      /\ call'[c].op = "reconcile" /\ call'[c].order = o
      /\ call'[c].ticket = t /\ call'[c].todo = Without(todo, k) /\ call'[c].half = {}
  <2> DEFINE q == [call[c] EXCEPT !.todo = Without(todo, k), !.half = {}]
             R == [op : {"reconcile"}, order : Orders, ticket : Tickets,
                   todo : Figures(- MaxQty .. MaxQty), half : SUBSET Keys]
  <2>1. call[c] \in R
    BY <1>1, RequestTyped DEF TypeOK
  <2>2. Without(todo, k) \in Figures(- MaxQty .. MaxQty)
    BY <1>5, WithoutIs
  <2>3. /\ q \in R /\ q.op = "reconcile" /\ q.order = o /\ q.ticket = t
        /\ q.todo = Without(todo, k) /\ q.half = {}
    BY <1>2, <2>1, <2>2
  <2>4. call' = [call EXCEPT ![c] = q]
    BY <1>1, <1>2, <1>4 DEF TypeOK
  <2> HIDE DEF q
  <2>5. q \in Request
    BY <2>3 DEF Request
  <2> QED
    BY <1>1, <2>3, <2>4, <2>5, CallBecomes
<1>8. /\ fixLeft' \in [Tickets -> [Products -> Int]]
      /\ fixLeft[t][p] = 0 => fixLeft'[t][p] = delta
      /\ fixLeft[t][p] # 0 => fixLeft' = fixLeft
      /\ \A u \in Tickets \ {t} : fixLeft'[u] = fixLeft[u]
      /\ \A r \in Products \ {p} : fixLeft'[t][r] = fixLeft[t][r]
  <2>1. fixLeft' = Once(fixLeft, t, p, delta) /\ fixLeft \in [Tickets -> [Products -> Int]]
    BY <1>1, <1>4, <1>6 DEF TypeOK
  <2>2. Taken(fixLeft, fixLeft', Tickets, Int, t, p, delta)
    BY <2>1, OnceIs
  <2> QED
    BY <2>2 DEF Taken
<1>9. /\ pool \in [Products -> Int] /\ fixLeft[t][p] \in Int /\ fixLeft'[t][p] \in Int
      /\ pool' = [pool EXCEPT ![p] = @ - (fixLeft'[t][p] - fixLeft[t][p])]
      /\ strained' = IF delta > 0 THEN strained \cup {p} ELSE strained
      /\ marred' \subseteq Orders /\ marred \subseteq marred'
      /\ (o \in marred' <=> fixLeft[t][p] # 0 \/ o \in marred)
  BY <1>1, <1>4, <1>6, <1>8 DEF TypeOK
<1>10. TypeOK'
  <2>1. pool' \in [Products -> Int] /\ strained' \subseteq Products
    BY <1>1, <1>9 DEF TypeOK
  <2> QED
    BY <1>1, <1>3, <1>7, <1>8, <1>9, <2>1 DEF TypeOK
<1>11. RowsHeld' /\ SetAside'
  <2>1. \A d \in Callers : /\ call'[d].op = "review" => call'[d] = call[d]
                           /\ call'[d].op = "deliver" => call'[d] = call[d]
    BY <1>7
  <2>2. ASSUME NEW r \in Products \ strained' PROVE pool[r] <= pool'[r]
    <3>1. CASE r # p
      <4>1. pool'[r] = pool[r] /\ pool[r] \in Int
        BY <1>9, <3>1
      <4> QED
        BY <4>1
    <3>2. CASE r = p
      <4>1. ~(delta > 0)
        BY <1>9, <2>2, <3>2
      <4>2. fixLeft'[t][p] - fixLeft[t][p] <= 0
        BY <1>8, <1>9, <4>1
      <4>3. pool'[p] = pool[p] - (fixLeft'[t][p] - fixLeft[t][p]) /\ pool[p] \in Int
        BY <1>9
      <4> QED
        BY <1>9, <3>2, <4>2, <4>3
    <3> QED
      BY <3>1, <3>2
  <2>3. strained \subseteq strained'
    BY <1>9
  <2> QED
    BY <1>3, <1>10, <2>1, <2>2, <2>3, PromisesPass
<1>12. QueriesFit'
  BY <1>1, <1>2, <1>7 DEF GoodsInv, QueriesFit
<1>13. FixesFit'
  <2>1. /\ \A u \in Tickets, r \in Products : fixLeft[u][r] # 0 => fixCame[u][r] # 0
        /\ \A d \in Callers : call[d].op = "reconcile" =>
             /\ \A i \in DOMAIN call[d].todo : call[d].todo[i] # 0
             /\ \A i \in call[d].half : fixCame[call[d].ticket][i[2]] # 0
    BY <1>1 DEF GoodsInv, FixesFit
  <2>2. fixCame[t][p] # 0
    BY <1>1, <1>2, <1>5, <1>6, <2>1
  <2>3. \A u \in Tickets, r \in Products : fixLeft'[u][r] # 0 => fixCame'[u][r] # 0
    <3> TAKE u \in Tickets, r \in Products
    <3>1. CASE u = t /\ r = p
      BY <1>3, <2>2, <3>1
    <3>2. CASE ~(u = t /\ r = p)
      <4>1. fixLeft'[u][r] = fixLeft[u][r]
        BY <1>8, <3>2
      <4> QED
        BY <1>3, <2>1, <4>1
    <3> QED
      BY <3>1, <3>2
  <2>4. ASSUME NEW d \in Callers, call'[d].op = "reconcile"
        PROVE  /\ \A i \in DOMAIN call'[d].todo : call'[d].todo[i] # 0
               /\ \A i \in call'[d].half : fixCame'[call'[d].ticket][i[2]] # 0
    <3>1. CASE d = c
      <4>1. /\ DOMAIN Without(todo, k) = DOMAIN todo \ {k}
            /\ \A i \in DOMAIN todo \ {k} : Without(todo, k)[i] = todo[i]
        BY <1>5, CorrectionFits
      <4>2. \A i \in DOMAIN todo : todo[i] # 0
        BY <1>1, <1>2, <2>1
      <4> QED
        BY <1>7, <3>1, <4>1, <4>2
    <3>2. CASE d # c
      BY <1>3, <1>7, <2>1, <2>4, <3>2
    <3> QED
      BY <3>1, <3>2
  <2> QED
    BY <2>3, <2>4 DEF FixesFit
<1>14. \A u \in Orders \ {o} : GoodsOf(u)'
  <2>1. /\ \A d \in Callers \ {c} : call'[d] = call[d]
        /\ call[c].order = o /\ call'[c].order = o
    BY <1>2, <1>7
  <2>2. /\ left' = left /\ came' = came /\ lines' = lines
        /\ status' = status /\ marred \subseteq marred'
    BY <1>3, <1>9
  <2>3. \A u \in Tickets : About[u] # o => fixLeft'[u] = fixLeft[u] /\ fixCame'[u] = fixCame[u]
    BY <1>2, <1>3, <1>8
  <2> QED
    BY <1>10, <2>1, <2>2, <2>3, OthersKept
<1>15. GoodsOf(o)'
  <2>1. Served(o)'
    BY <1>3, <1>5 DEF Served
  <2>2. \A d \in Callers : /\ Carries(d, o)' <=> Carries(d, o)
                           /\ Carries(d, o)' => call'[d] = call[d]
    BY <1>1, <1>7 DEF Carries
  <2>3. Untouched(o)' /\ OneDelivery(o)' /\ OutFirst(o)'
    BY <1>2, <1>3, <2>1, <2>2 DEF GoodsOf, Untouched, OneDelivery, OutFirst
  <2>4. ASSUME o \notin marred' PROVE Straight(o)'
    <3>1. fixLeft[t][p] = 0 /\ fixLeft'[t][p] = delta /\ Straight(o)
      BY <1>2, <1>8, <1>9, <2>4 DEF GoodsOf
    <3>2. ASSUME NEW r \in Products
          PROVE  /\ left'[o][r] + Fixes(fixLeft', o, r) + OutOf(call'[c], o, r) + Delivery(o, r)
                      = left[o][r] + Fixes(fixLeft, o, r) + OutOf(call[c], o, r) + Delivery(o, r)'
                 /\ came'[o][r] + Fixes(fixCame', o, r) + InOf(call'[c], o, r) + Delivery(o, r)
                      = came[o][r] + Fixes(fixCame, o, r) + InOf(call[c], o, r) + Delivery(o, r)'
      <4>1. Delivery(o, r)' = Delivery(o, r) /\ Delivery(o, r) \in Int
        BY <1>1, <1>3, <1>10, SumsNow, SumsNext DEF SumsRight
      <4>2. Fixes(fixLeft', o, r) = Fixes(fixLeft, o, r) + (fixLeft'[t][r] - fixLeft[t][r])
        <5>1. /\ fixLeft \in [Tickets -> [Products -> Int]]
              /\ fixLeft' \in [Tickets -> [Products -> Int]]
              /\ \A u \in Tickets \ {t} : fixLeft'[u] = fixLeft[u]
          BY <1>1, <1>8 DEF TypeOK
        <5>2. About[t] = o
          BY <1>2
        <5>3. AddsUp(fixLeft, fixLeft', o, t, r)
          BY <5>1, <5>2, FixesMove
        <5> QED
          BY <5>3 DEF AddsUp
      <4>3. /\ OutOf(call[c], o, r) = Total(todo, r)
            /\ OutOf(call'[c], o, r) = Total(Without(todo, k), r)
            /\ InOf(call[c], o, r) = Total(Without(todo, k), r)
            /\ InOf(call'[c], o, r) = Total(Without(todo, k), r)
        <5>1. Ahead(call[c]) = Without(todo, k)
          BY <1>2, <1>5 DEF Ahead, Without
        <5>2. Total(Ahead(call'[c]), r) = Total(Without(todo, k), r)
          <6>1. DOMAIN Without(todo, k) \ {} = DOMAIN Without(todo, k)
            OBVIOUS
          <6>2. Ahead(call'[c]) = Restrict(Without(todo, k), DOMAIN Without(todo, k))
            BY <1>7, <6>1 DEF Ahead
          <6>3. Without(todo, k) \in Figures(- MaxQty .. MaxQty)
            BY <1>5, WithoutIs
          <6> QED
            BY <6>2, <6>3, CorrectionFits
        <5> QED
          BY <1>1, <1>2, <1>7, <5>1, <5>2 DEF OutOf, InOf
      <4>4. /\ Total(todo, r) \in Int /\ Total(Without(todo, k), r) \in Int
            /\ r = p => Total(Without(todo, k), r) + delta = Total(todo, r)
            /\ r # p => Total(Without(todo, k), r) = Total(todo, r)
        <5>1. Total(todo, r) \in Int
          BY <1>5, FiguresTyped
        <5>2. Without(todo, k) \in Figures(- MaxQty .. MaxQty)
          BY <1>5, WithoutIs
        <5>3. Total(Without(todo, k), r) \in Int
          BY <1>5, <5>2, FiguresTyped
        <5>4. /\ r = k[2] => Total(Without(todo, k), r) + todo[k] = Total(todo, r)
              /\ r # k[2] => Total(Without(todo, k), r) = Total(todo, r)
          BY <1>5, WithoutTotal
        <5> QED
          BY <1>6, <5>1, <5>3, <5>4
      <4>5. /\ left[o][r] \in Int /\ Fixes(fixLeft, o, r) \in Int /\ came[o][r] \in Int
            /\ Fixes(fixCame, o, r) \in Int /\ fixLeft[t][r] \in Int
        BY <1>1, LedgersTyped DEF TypeOK
      <4>6. Fixes(fixLeft', o, r) + Total(Without(todo, k), r) = Fixes(fixLeft, o, r) + Total(todo, r)
        <5> DEFINE f == Fixes(fixLeft, o, r)  f1 == Fixes(fixLeft', o, r)
                   w == Total(Without(todo, k), r)  u == Total(todo, r)
                   m == fixLeft'[t][r] - fixLeft[t][r]
        <5>1. m \in Int /\ w + m = u
          <6>1. CASE r = p
            BY <1>6, <3>1, <4>4, <6>1
          <6>2. CASE r # p
            <7>1. fixLeft'[t][r] = fixLeft[t][r]
              BY <1>8, <6>2
            <7> QED
              BY <4>4, <4>5, <6>2, <7>1
          <6> QED
            BY <6>1, <6>2
        <5>2. f \in Int /\ w \in Int /\ u \in Int /\ f1 = f + m
          BY <4>2, <4>4, <4>5
        <5> HIDE DEF f, f1, w, u, m
        <5>3. f1 + w = f + u
          BY <5>1, <5>2
        <5> QED
          BY <5>3 DEF f, f1, w, u
      <4>7. Fixes(fixLeft', o, r) \in Int
        BY <1>10, LedgersTypedNext
      <4>8. left'[o][r] + Fixes(fixLeft', o, r) + OutOf(call'[c], o, r) + Delivery(o, r)
              = left[o][r] + Fixes(fixLeft, o, r) + OutOf(call[c], o, r) + Delivery(o, r)'
        <5> DEFINE a == left[o][r]  f == Fixes(fixLeft, o, r)  f1 == Fixes(fixLeft', o, r)
                   w == Total(Without(todo, k), r)  u == Total(todo, r)  d == Delivery(o, r)
        <5>1. /\ a \in Int /\ f \in Int /\ f1 \in Int /\ w \in Int /\ u \in Int /\ d \in Int
              /\ f1 + w = f + u
          BY <4>1, <4>4, <4>5, <4>6, <4>7
        <5> HIDE DEF a, f, f1, w, u, d
        <5>2. a + f1 + w + d = a + f + u + d
          BY <5>1
        <5> QED
          BY <1>3, <4>1, <4>3, <5>2 DEF a, f, f1, w, u, d
      <4> QED
        BY <1>3, <4>1, <4>3, <4>8
    <3> QED
      BY <1>1, <1>7, <1>10, <3>1, <3>2, StraightMoves
  <2> QED
    BY <2>3, <2>4 DEF GoodsOf
<1>16. GoodsInv'
  BY <1>12, <1>13, <1>14, <1>15 DEF GoodsInv
<1> QED
  BY <1>10, <1>11, <1>16 DEF OrdersInv

\* What the lines become, and how they differ from what they were.
LEMMA CorrectedFits ==
    ASSUME TypeOK, NEW o \in Orders, NEW new \in Counts, NEW ls, ls = Corrected(o, new)
    PROVE  /\ ls \in [Keys -> Line]
           /\ \A p \in Products \ DOMAIN new : Claim(ls, p) = 0
<1>1. \A k \in Keys : \/ ls[k] = NoLine
                      \/ k[2] \in DOMAIN new /\ ls[k] = [qty |-> new[k[2]], approved |-> TRUE]
  BY DEF Corrected
<1>2. \A p \in DOMAIN new : new[p] \in Amount
  BY DEF Counts, Some
<1>3. \A k \in Keys : ls[k] \in Line
  <2> TAKE k \in Keys
  <2>1. CASE ls[k] = NoLine
    BY <2>1 DEF Line
  <2>2. CASE k[2] \in DOMAIN new /\ ls[k] = [qty |-> new[k[2]], approved |-> TRUE]
    BY <1>2, <2>2, ApprovedLine
  <2> QED
    BY <1>1, <2>1, <2>2
<1>4. ls \in [Keys -> Line]
  BY <1>3 DEF Corrected
<1>5. ASSUME NEW p \in Products \ DOMAIN new PROVE Claim(ls, p) = 0
  <2>1. \A k \in KeysOf(p) : k \in Keys /\ k[2] = p
    BY KeysAre
  <2>2. \A k \in KeysOf(p) : ls[k] = NoLine
    BY <1>1, <2>1
  <2> QED
    BY <2>2, NothingClaimed
<1> QED
  BY <1>4, <1>5

\* What a correction finds short or over is the difference between the lines it leaves and
\* the lines it found.
LEMMA DeltasFit ==
    ASSUME TypeOK, NEW o \in Orders, NEW new \in Counts, NEW k \in Keys,
           NEW ls, ls = Corrected(o, new), NEW deltas, deltas = Deltas(o, new)
    PROVE  /\ k \in DOMAIN deltas => deltas[k] \in - MaxQty .. MaxQty
           /\ DOMAIN deltas \subseteq Keys
           /\ ApprovedQty(ls[k]) = ApprovedQty(lines[o][k]) + Entry(deltas, k)
<1> DEFINE p == k[2]
           old == ApprovedQty(lines[o][k])
<1>1. p \in Products /\ k \in KeysOf(p) /\ KeysOf(p) \subseteq Keys
  BY KeysAre
<1>2. old \in Nat /\ old \in Amount /\ (lines[o][k] = NoLine => old = 0)
  BY LineTyped DEF TypeOK
<1>3. p \in DOMAIN new => new[p] \in Amount /\ new[p] \in Nat
  BY DEF Counts, Some, Amount
<1>4. DOMAIN deltas \subseteq Keys
  <2>1. \A r \in DOMAIN new : r \in Products
    BY DEF Counts, Some
  <2>2. \A r \in Products : Asking(r) \in Keys
    BY KeysAre DEF KeysOf
  <2>3. DOMAIN deltas = Present(o) \cup {Asking(r) : r \in {s \in DOMAIN new : OfProduct(o, s) = {}}}
    BY DEF Deltas, Asking
  <2> QED
    BY <2>1, <2>2, <2>3 DEF Present
<1>5. /\ lines[o][k] # NoLine <=> k \in Present(o)
      /\ k \in DOMAIN deltas <=>
           \/ k \in Present(o)
           \/ k[1] = "asked" /\ p \in DOMAIN new /\ OfProduct(o, p) = {}
  <2>1. k \in {<<"asked", r>> : r \in {s \in DOMAIN new : OfProduct(o, s) = {}}} <=>
            k[1] = "asked" /\ p \in DOMAIN new /\ OfProduct(o, p) = {}
    <3>1. k = <<k[1], k[2]>>
      BY KeysAre
    <3> QED
      BY <3>1
  <2> QED
    BY <2>1 DEF Deltas, Present
<1>6. k \in Present(o) => OfProduct(o, p) # {}
  BY DEF OfProduct
<1>7. CASE p \in DOMAIN new /\ k \in DOMAIN deltas
  <2>1. deltas[k] = new[p] - old
    BY <1>7 DEF Deltas
  <2>2. ls[k] = [qty |-> new[p], approved |-> TRUE]
    BY <1>5, <1>7 DEF Corrected
  <2>3. ApprovedQty(ls[k]) = new[p]
    BY <2>2 DEF ApprovedQty
  <2>4. Entry(deltas, k) = deltas[k]
    BY <1>7 DEF Entry
  <2>5. new[p] - old \in - MaxQty .. MaxQty
    BY <1>2, <1>3, <1>7, OrdersAssumption DEF Amount
  <2> HIDE DEF old
  <2> QED
    BY <1>2, <1>3, <1>4, <1>7, <2>1, <2>3, <2>4, <2>5 DEF old
<1>8. CASE p \notin DOMAIN new /\ k \in DOMAIN deltas
  <2>1. deltas[k] = 0 - old
    BY <1>8 DEF Deltas
  <2>2. ls[k] = NoLine
    BY <1>8 DEF Corrected
  <2>3. ApprovedQty(ls[k]) = 0
    BY <2>2 DEF ApprovedQty, NoLine
  <2>4. Entry(deltas, k) = deltas[k]
    BY <1>8 DEF Entry
  <2>5. 0 - old \in - MaxQty .. MaxQty
    BY <1>2, OrdersAssumption DEF Amount
  <2> QED
    BY <1>2, <1>4, <2>1, <2>3, <2>4, <2>5
<1>9. CASE k \notin DOMAIN deltas
  <2>1. old = 0
    BY <1>2, <1>5, <1>9
  <2>2. ls[k] = NoLine
    BY <1>5, <1>9 DEF Corrected
  <2>3. ApprovedQty(ls[k]) = 0
    BY <2>2 DEF ApprovedQty, NoLine
  <2>4. Entry(deltas, k) = 0
    BY <1>9 DEF Entry
  <2> QED
    BY <1>4, <1>9, <2>1, <2>3, <2>4
<1> QED
  BY <1>7, <1>8, <1>9

\* What a correction sets out to move: the differences that are not null, if goods have moved.
Pending(deltas, moved) == Restrict(deltas, {k \in DOMAIN deltas : moved /\ deltas[k] # 0})

LEMMA DeltasOfKeys ==
    ASSUME TypeOK, NEW o \in Orders, NEW new \in Counts, NEW ls, ls = Corrected(o, new),
           NEW deltas, deltas = Deltas(o, new)
    PROVE  /\ \A k \in Keys : /\ k \in DOMAIN deltas => deltas[k] \in - MaxQty .. MaxQty
                             /\ ApprovedQty(ls[k]) = ApprovedQty(lines[o][k]) + Entry(deltas, k)
           /\ DOMAIN deltas \subseteq Keys
<1>1. ASSUME NEW k \in Keys
      PROVE  /\ k \in DOMAIN deltas => deltas[k] \in - MaxQty .. MaxQty
             /\ ApprovedQty(ls[k]) = ApprovedQty(lines[o][k]) + Entry(deltas, k)
  BY DeltasFit
<1>2. DOMAIN deltas \subseteq Keys
  <2>1. CASE Keys = {}
    BY <2>1 DEF Deltas, Present, Counts, Some, Keys
  <2>2. CASE Keys # {}
    BY <2>2, DeltasFit
  <2> QED
    BY <2>1, <2>2
<1> QED
  BY <1>1, <1>2

LEMMA PendingFits ==
    ASSUME TypeOK, NEW o \in Orders, NEW new \in Counts, NEW moved,
           NEW ls, ls = Corrected(o, new), NEW todo, todo = Pending(Deltas(o, new), moved)
    PROVE  /\ todo \in Figures(- MaxQty .. MaxQty) /\ DOMAIN todo \subseteq DOMAIN Deltas(o, new)
           /\ ~moved => DOMAIN todo = {}
           /\ \A k \in DOMAIN todo : todo[k] # 0
<1> DEFINE deltas == Deltas(o, new)
           V == {k \in DOMAIN deltas : moved /\ deltas[k] # 0}
<1>1. todo = [k \in V |-> deltas[k]]
  BY DEF Pending, Restrict
<1>2. /\ \A k \in Keys : /\ k \in DOMAIN deltas => deltas[k] \in - MaxQty .. MaxQty
                         /\ ApprovedQty(ls[k]) = ApprovedQty(lines[o][k]) + Entry(deltas, k)
      /\ DOMAIN deltas \subseteq Keys
  BY DeltasOfKeys
<1> HIDE DEF deltas
<1>3. V \in SUBSET Keys /\ todo \in [V -> - MaxQty .. MaxQty] /\ DOMAIN todo = V
  BY <1>1, <1>2
<1>4. todo \in Figures(- MaxQty .. MaxQty)
  BY <1>3 DEF Figures
<1>5. ~moved => DOMAIN todo = {}
  BY <1>3
<1>7. \A k \in DOMAIN todo : todo[k] # 0
  BY <1>1
<1> QED
  BY <1>3, <1>4, <1>5, <1>7 DEF deltas

\* What a correction that moves goods moves is what the lines differ by.
LEMMA TotalsDiffer ==
    ASSUME TypeOK, NEW o \in Orders, NEW new \in Counts, NEW p \in Products,
           NEW ls, ls = Corrected(o, new), NEW deltas, deltas = Deltas(o, new),
           NEW V, V = {k \in DOMAIN deltas : deltas[k] # 0},
           NEW todo, todo = [k \in V |-> deltas[k]]
    PROVE  Total(todo, p) \in Int /\ Given(ls, p) = Given(lines[o], p) + Total(todo, p)
<1>1. \A k \in V : todo[k] = deltas[k] /\ k \in DOMAIN deltas
  OBVIOUS
<1>2. /\ \A k \in Keys : /\ k \in DOMAIN deltas => deltas[k] \in - MaxQty .. MaxQty
                         /\ ApprovedQty(ls[k]) = ApprovedQty(lines[o][k]) + Entry(deltas, k)
      /\ DOMAIN deltas \subseteq Keys
  BY DeltasOfKeys
<1>3. V \in SUBSET Keys /\ todo \in [V -> - MaxQty .. MaxQty] /\ DOMAIN todo = V
  BY <1>2
<1>4. todo \in Figures(- MaxQty .. MaxQty)
  BY <1>3 DEF Figures
<1>5. Total(todo, p) \in Int /\ Given(ls, p) = Given(lines[o], p) + Total(todo, p)
  <2>1. Total(todo, p) \in Int
    <3>1. - MaxQty .. MaxQty \subseteq Int
      BY OrdersAssumption
    <3> QED
      BY <1>4, <3>1, FiguresTyped
  <2>2. ASSUME NEW k \in KeysOf(p)
        PROVE  /\ Entry(todo, k) \in Int /\ ApprovedQty(lines[o][k]) \in Int
               /\ ApprovedQty(ls[k]) = ApprovedQty(lines[o][k]) + Entry(todo, k)
    <3>1. k \in Keys
      BY KeysAre
    <3>2. ApprovedQty(lines[o][k]) \in Int
      BY <3>1, LineTyped DEF TypeOK
    <3>3. CASE k \in V
      <4>1. Entry(todo, k) = Entry(deltas, k) /\ Entry(deltas, k) = deltas[k]
        BY <1>1, <3>3 DEF Entry
      <4>2. deltas[k] \in Int
        BY <1>2, <3>1, <3>3, OrdersAssumption
      <4> QED
        BY <1>2, <3>1, <3>2, <4>1, <4>2
    <3>4. CASE k \notin V
      <4>1. Entry(todo, k) = 0 /\ Entry(deltas, k) = 0
        BY <1>3, <3>4 DEF Entry
      <4>2. ApprovedQty(ls[k]) = ApprovedQty(lines[o][k]) + Entry(deltas, k)
        BY <1>2, <3>1
      <4> QED
        BY <3>2, <4>1, <4>2
    <3> QED
      BY <3>3, <3>4
  <2>3. Asking(p) \in KeysOf(p) /\ Adding(p) \in KeysOf(p) /\ Finding(p) \in KeysOf(p)
    BY DEF KeysOf
  <2> DEFINE e(k) == Entry(todo, k)  old(k) == ApprovedQty(lines[o][k])  now(k) == ApprovedQty(ls[k])
  <2>4. \A k \in KeysOf(p) : e(k) \in Int /\ old(k) \in Int /\ now(k) = old(k) + e(k)
    BY <2>2
  <2>5. /\ Total(todo, p) = e(Asking(p)) + e(Adding(p)) + e(Finding(p))
        /\ Given(lines[o], p) = old(Asking(p)) + old(Adding(p)) + old(Finding(p))
        /\ Given(ls, p) = now(Asking(p)) + now(Adding(p)) + now(Finding(p))
    BY DEF Given, Total
  <2> HIDE DEF e, old, now
  <2> QED
    BY <2>1, <2>3, <2>4, <2>5
<1> QED
  BY <1>5

LEMMA PendingTotals ==
    ASSUME TypeOK, NEW o \in Orders, NEW new \in Counts, NEW moved \in BOOLEAN, moved,
           NEW p \in Products
    PROVE  /\ Total(Pending(Deltas(o, new), moved), p) \in Int
           /\ Given(Corrected(o, new), p) = Given(lines[o], p) + Total(Pending(Deltas(o, new), moved), p)
<1> DEFINE deltas == Deltas(o, new)
           V == {k \in DOMAIN deltas : deltas[k] # 0}
<1>1. Pending(deltas, moved) = [k \in V |-> deltas[k]]
  BY DEF Pending, Restrict
<1>2. /\ Total([k \in V |-> deltas[k]], p) \in Int
      /\ Given(Corrected(o, new), p) = Given(lines[o], p) + Total([k \in V |-> deltas[k]], p)
  BY TotalsDiffer
<1> QED
  BY <1>1, <1>2

LEMMA CorrectLinesStep ==
    ASSUME OrdersInv, NEW c \in Callers, CorrectLines(c)
    PROVE  OrdersInv'
<1>1. TypeOK /\ RowsHeld /\ SetAside /\ GoodsInv /\ call[c].op = "correct"
  BY DEF OrdersInv, CorrectLines
<1>2. PICK o \in Orders, t \in Tickets : o = call[c].order /\ t = call[c].ticket
  BY <1>1, RequestTyped DEF TypeOK
<1>3. About[t] = o /\ GoodsOf(o)
  BY <1>1, <1>2 DEF GoodsInv, QueriesFit
<1>4. CASE status[o] \in {"rejected", "cancelled", "deleted"}
  <2>1. call' = [call EXCEPT ![c] = Free]
        /\ UNCHANGED <<status, lines, pool, left, came, fixLeft, fixCame, open, strained, marred, slips>>
    BY <1>2, <1>4 DEF CorrectLines, Answer
  <2> QED
    BY <1>1, <2>1, FreeTyped, CallStep
<1>5. CASE status[o] \notin {"rejected", "cancelled", "deleted"}
  <2>0. PICK new \in Counts, moved \in BOOLEAN :
          /\ moved <=> \E p \in Products : came[o][p] # 0
          /\ lines' = [lines EXCEPT ![o] = Corrected(o, new)]
          /\ call' = [call EXCEPT ![c] = [op |-> "reconcile", order |-> o, ticket |-> t,
                                          todo |-> Pending(Deltas(o, new), moved), half |-> {}]]
          /\ strained' = strained \cup {p \in DOMAIN new : status[o] = "awaiting"}
          /\ marred' = IF /\ ~moved /\ DOMAIN Pending(Deltas(o, new), TRUE) # {}
                          /\ status[o] \in {"verified", "approved"}
                       THEN marred \cup {o} ELSE marred
    <3> DEFINE m == \E p \in Products : came[o][p] # 0
    <3>1. \E new \in Counts :
            /\ lines' = [lines EXCEPT ![o] = Corrected(o, new)]
            /\ call' = [call EXCEPT ![c] = [op |-> "reconcile", order |-> o, ticket |-> t,
                           todo |-> Pending(Deltas(o, new), m), half |-> {}]]
            /\ strained' = strained \cup {p \in DOMAIN new : status[o] = "awaiting"}
            /\ marred' = IF /\ ~m /\ DOMAIN Pending(Deltas(o, new), TRUE) # {}
                            /\ status[o] \in {"verified", "approved"}
                         THEN marred \cup {o} ELSE marred
      <4> DEFINE deltas(new) == Deltas(o, new)
                 short(new) == {k \in DOMAIN deltas(new) : deltas(new)[k] # 0}
                 todo(new) == Restrict(deltas(new), {k \in short(new) : m})
      <4>1. \E new \in Counts :
              /\ lines' = [lines EXCEPT ![o] = Corrected(o, new)]
              /\ call' = [call EXCEPT ![c] = [op |-> "reconcile", order |-> o, ticket |-> t,
                             todo |-> todo(new), half |-> {}]]
              /\ strained' = strained \cup {p \in DOMAIN new : status[o] = "awaiting"}
              /\ marred' = IF ~m /\ short(new) # {} /\ status[o] \in {"verified", "approved"}
                           THEN marred \cup {o} ELSE marred
        BY <1>2, <1>5, Zenon DEF CorrectLines
      <4>2. ASSUME NEW new \in Counts
            PROVE  todo(new) = Pending(deltas(new), m) /\ short(new) = DOMAIN Pending(deltas(new), TRUE)
        <5>1. {k \in short(new) : m} = {k \in DOMAIN deltas(new) : m /\ deltas(new)[k] # 0}
          OBVIOUS
        <5> QED
          BY <5>1 DEF Pending, Restrict
      <4> QED
        BY <4>1, <4>2
    <3>2. PICK moved \in BOOLEAN : moved <=> m
      OBVIOUS
    <3>3. \A f : Pending(f, moved) = Pending(f, m)
      BY <3>2 DEF Pending
    <3> QED
      BY <3>1, <3>2, <3>3
  <2>1. PICK todo :
          /\ moved <=> \E p \in Products : came[o][p] # 0
          /\ todo = Pending(Deltas(o, new), moved)
          /\ lines' = [lines EXCEPT ![o] = Corrected(o, new)]
          /\ call' = [call EXCEPT ![c] = [op |-> "reconcile", order |-> o, ticket |-> t,
                                          todo |-> todo, half |-> {}]]
          /\ strained' = strained \cup {p \in DOMAIN new : status[o] = "awaiting"}
          /\ marred' = IF /\ ~moved /\ DOMAIN Pending(Deltas(o, new), TRUE) # {}
                          /\ status[o] \in {"verified", "approved"}
                       THEN marred \cup {o} ELSE marred
    BY <2>0
  <2>2. UNCHANGED <<status, pool, left, came, fixLeft, fixCame, open, slips>>
    BY DEF CorrectLines
  <2>3. PICK ls : ls = Corrected(o, new)
    OBVIOUS
  <2>4. /\ ls \in [Keys -> Line]
        /\ \A p \in Products \ DOMAIN new : Claim(ls, p) = 0
    BY <1>1, <2>3, CorrectedFits
  <2>5. todo \in Figures(- MaxQty .. MaxQty) /\ (~moved => DOMAIN todo = {})
    BY <1>1, <2>1, <2>3, PendingFits
  <2>6. /\ lines' \in [Orders -> [Keys -> Line]] /\ lines'[o] = ls
        /\ \A u \in Orders \ {o} : lines'[u] = lines[u]
    BY <1>1, <2>1, <2>3, <2>4, LinesBecome
  <2>7. /\ call' \in [Callers -> Request] /\ \A d \in Callers \ {c} : call'[d] = call[d]
        /\ call'[c].op = "reconcile" /\ call'[c].order = o
        /\ call'[c].ticket = t /\ call'[c].todo = todo /\ call'[c].half = {}
    <3> DEFINE q == [op |-> "reconcile", order |-> o, ticket |-> t, todo |-> todo, half |-> {}]
    <3>1. q \in Request
      BY <2>5 DEF Request
    <3>2. /\ q.op = "reconcile" /\ q.order = o /\ q.ticket = t /\ q.todo = todo /\ q.half = {}
      OBVIOUS
    <3>3. call' = [call EXCEPT ![c] = q]
      BY <2>1
    <3> HIDE DEF q
    <3> QED
      BY <1>1, <3>1, <3>2, <3>3, CallBecomes
  <2>8. strained \subseteq strained' /\ strained' \subseteq Products
        /\ marred \subseteq marred' /\ marred' \subseteq Orders
    <3>1. DOMAIN new \subseteq Products
      BY DEF Counts, Some
    <3> QED
      BY <1>1, <2>1, <3>1 DEF TypeOK
  <2>9. TypeOK'
    BY <1>1, <2>2, <2>6, <2>7, <2>8 DEF TypeOK
  <2>10. RowsHeld' /\ SetAside'
    <3>1. \A d \in Callers : call'[d].op = "review" => call'[d] = call[d]
      BY <2>7
    <3>2. ASSUME NEW p \in Products \ strained'
          PROVE  Waiting(p)' + Leaving(p)' + pool[p] <= Waiting(p) + Leaving(p) + pool'[p]
      <4>1. ASSUME NEW u \in Orders PROVE Awaits(u, p)' <= Awaits(u, p)
        <5>1. \/ status'[u] = status[u] /\ Claim(lines'[u], p) = Claim(lines[u], p)
              \/ status'[u] # "awaiting"
              \/ Claim(lines'[u], p) = 0
          <6>1. u = o /\ status[o] = "awaiting" => p \notin DOMAIN new
            BY <2>1, <3>2
          <6> QED
            BY <2>2, <2>4, <2>6, <6>1
        <5> QED
          BY <1>1, <5>1, AwaitsLess
      <4>2. Waiting(p)' <= Waiting(p) /\ Waiting(p) \in Nat /\ Waiting(p)' \in Nat
        BY <1>1, <2>9, <4>1, WaitingLess
      <4>3. \A d \in Callers : \/ call'[d] = call[d]
                               \/ call[d].op # "deliver" /\ call'[d].op # "deliver"
        BY <1>1, <2>7
      <4>4. Leaving(p)' <= Leaving(p) /\ Leaving(p) \in Nat /\ Leaving(p)' \in Nat
        BY <1>1, <2>2, <2>9, <4>3, LeavingQuiet, SumsNow, SumsNext DEF SumsRight
      <4>5. pool[p] \in Int /\ pool'[p] = pool[p]
        BY <1>1, <2>2 DEF TypeOK
      <4> QED
        BY <4>2, <4>4, <4>5
    <3> QED
      BY <1>1, <2>8, <2>9, <3>1, <3>2, PromisesStay
  <2>11. QueriesFit'
    BY <1>1, <1>3, <2>7 DEF GoodsInv, QueriesFit
  <2>16. todo = Pending(Deltas(o, new), moved)
    BY <2>1
  <2>15. FixesFit'
    <3>1. \A k \in DOMAIN todo : todo[k] # 0
      BY <1>1, <2>1, <2>3, PendingFits
    <3> QED
      BY <1>1, <2>2, <2>7, <3>1 DEF GoodsInv, FixesFit
  <2>12. \A u \in Orders \ {o} : GoodsOf(u)'
    BY <1>1, <2>2, <2>6, <2>7, <2>8, <2>9, OthersKept
  <2>13. GoodsOf(o)'
    <3>1. Served(o)' <=> Served(o)
      BY <2>2 DEF Served
    <3>2. /\ \A d \in Callers : /\ Carries(d, o)' <=> Carries(d, o)
                                /\ Carries(d, o) => call'[d] = call[d]
          /\ \A d \in Callers \ {c} : Corrects(d, o)' <=> Corrects(d, o)
          /\ Corrects(c, o)'
      BY <1>1, <2>7 DEF Carries, Corrects
    <3>3. NoFixesOf(o)' <=> NoFixesOf(o)
      BY <2>2 DEF NoFixesOf, NoFixes
    <3>4. Untouched(o)'
      <4> SUFFICES ASSUME ~Served(o)'
                   PROVE  /\ \A p \in Products : left'[o][p] = 0 /\ came'[o][p] = 0
                          /\ NoFixesOf(o)'
                          /\ \A d \in Callers : /\ ~Carries(d, o)'
                                                /\ Corrects(d, o)' => DOMAIN call'[d].todo = {}
        BY DEF Untouched
      <4>1. /\ \A p \in Products : left[o][p] = 0 /\ came[o][p] = 0
            /\ NoFixesOf(o)
            /\ \A d \in Callers : /\ ~Carries(d, o)
                                  /\ Corrects(d, o) => DOMAIN call[d].todo = {}
        BY <1>3, <3>1 DEF GoodsOf, Untouched
      <4>2. DOMAIN call'[c].todo = {}
        BY <2>1, <2>5, <2>7, <4>1
      <4> QED
        BY <2>2, <2>7, <3>2, <3>3, <4>1, <4>2
    <3>5. OneDelivery(o)'
      BY <1>3, <3>2 DEF GoodsOf, OneDelivery
    <3>6. OutFirst(o)'
      BY <1>3, <2>2, <3>2 DEF GoodsOf, OutFirst
    <3>7. ASSUME o \notin marred' PROVE Straight(o)'
      <4>1. Straight(o) /\ Untouched(o)
        BY <1>3, <2>8, <3>7 DEF GoodsOf
      <4>2. ~moved /\ Served(o) => DOMAIN Pending(Deltas(o, new), TRUE) = {}
        <5> DEFINE none == DOMAIN Pending(Deltas(o, new), TRUE) = {}
        <5>1. marred' = IF ~moved /\ ~none /\ status[o] \in {"verified", "approved"}
                        THEN marred \cup {o} ELSE marred
          BY <2>1
        <5> HIDE DEF none
        <5>2. ~moved /\ Served(o) => none
          BY <3>7, <5>1 DEF Served
        <5> QED
          BY <5>2 DEF none
      <4>3. ASSUME NEW p \in Products
            PROVE  Delivery(o, p)' = Delivery(o, p) + Total(todo, p) /\ Total(todo, p) \in Int
        <5>1. /\ Delivery(o, p) = IF Served(o) THEN Given(lines[o], p) ELSE 0
              /\ Delivery(o, p)' = IF Served(o) THEN Given(ls, p) ELSE 0
              /\ Given(lines[o], p) \in Nat
          BY <1>1, <2>2, <2>6, <2>9, SumsNow, SumsNext DEF SumsRight, Served
        <5>2. CASE moved
          <6>1. Served(o)
            BY <2>1, <4>1, <5>2 DEF Untouched
          <6>2. Total(todo, p) \in Int /\ Given(ls, p) = Given(lines[o], p) + Total(todo, p)
            BY <1>1, <2>3, <2>16, <5>2, PendingTotals
          <6> QED
            BY <5>1, <6>1, <6>2
        <5>3. CASE ~moved /\ ~Served(o)
          <6>1. Total(todo, p) = 0
            BY <2>5, <5>3, NothingInAll
          <6> QED
            BY <5>1, <5>3, <6>1
        <5>4. CASE ~moved /\ Served(o)
          <6>0. PICK all \in BOOLEAN : all = TRUE
            OBVIOUS
          <6>1. PICK short : all = TRUE /\ short = Pending(Deltas(o, new), all)
            BY <6>0
          <6>2. DOMAIN short = {}
            BY <4>2, <5>4, <6>1
          <6>3. Total(todo, p) = 0 /\ Total(short, p) = 0
            BY <2>5, <5>4, <6>2, NothingInAll
          <6>4. Given(ls, p) = Given(lines[o], p) + Total(short, p)
            <7>1. all /\ short = Pending(Deltas(o, new), all)
              BY <6>1
            <7> QED
              BY <1>1, <2>3, <7>1, PendingTotals
          <6> QED
            BY <5>1, <6>3, <6>4
        <5> QED
          BY <5>2, <5>3, <5>4
      <4>4. ASSUME NEW p \in Products
            PROVE  /\ left'[o][p] + Fixes(fixLeft', o, p) + OutOf(call'[c], o, p) + Delivery(o, p)
                        = left[o][p] + Fixes(fixLeft, o, p) + OutOf(call[c], o, p) + Delivery(o, p)'
                   /\ came'[o][p] + Fixes(fixCame', o, p) + InOf(call'[c], o, p) + Delivery(o, p)
                        = came[o][p] + Fixes(fixCame, o, p) + InOf(call[c], o, p) + Delivery(o, p)'
        <5>1. /\ OutOf(call[c], o, p) = 0 /\ InOf(call[c], o, p) = 0
              /\ OutOf(call'[c], o, p) = Total(todo, p) /\ InOf(call'[c], o, p) = Total(todo, p)
          <6>1. DOMAIN todo \ {} = DOMAIN todo
            OBVIOUS
          <6>2. Ahead(call'[c]) = Restrict(todo, DOMAIN todo)
            BY <2>7, <6>1 DEF Ahead
          <6>3. Total(Ahead(call'[c]), p) = Total(todo, p)
            BY <2>5, <6>2, CorrectionFits
          <6> QED
            BY <1>1, <2>7, <6>3 DEF OutOf, InOf
        <5>2. /\ left[o][p] \in Int /\ Fixes(fixLeft, o, p) \in Int
              /\ came[o][p] \in Int /\ Fixes(fixCame, o, p) \in Int
          BY <1>1, LedgersTyped
        <5>3. Delivery(o, p) \in Int
          BY <1>1, SumsNow DEF SumsRight
        <5> QED
          BY <2>2, <4>3, <5>1, <5>2, <5>3
      <4> QED
        BY <1>1, <2>7, <2>9, <4>1, <4>4, StraightMoves
    <3> QED
      BY <3>4, <3>5, <3>6, <3>7 DEF GoodsOf
  <2>14. GoodsInv'
    BY <2>11, <2>12, <2>13, <2>15 DEF GoodsInv
  <2> QED
    BY <2>9, <2>10, <2>14 DEF OrdersInv
<1> QED
  BY <1>4, <1>5

LEMMA NoSum ==
    ASSUME NEW S, IsFiniteSet(S), NEW f \in [S -> Nat], \A x \in S : f[x] = 0
    PROVE  SumOver(f, S) = 0
<1>1. f \in [S -> Int] /\ {} \in SUBSET S /\ \A x \in S \ {} : f[x] = 0
  OBVIOUS
<1>2. SumOver(f, S) = SumOver(f, {})
  BY <1>1, SumOfZeroes
<1> QED
  BY <1>2, SumEmpty

\* Where no delivery and no correction is under way, nothing is still to be moved.
LEMMA NothingMoves ==
    ASSUME NEW o, \A c \in Callers : ~Carries(c, o) /\ ~Corrects(c, o), NEW p
    PROVE  GoingOut(o, p) = 0 /\ ComingIn(o, p) = 0
<1> DEFINE f == [c \in Callers |-> OutOf(call[c], o, p)]
           g == [c \in Callers |-> InOf(call[c], o, p)]
<1>1. \A c \in Callers : f[c] = 0 /\ g[c] = 0
  BY DEF Carries, Corrects, OutOf, InOf
<1>2. f \in [Callers -> Nat] /\ g \in [Callers -> Nat] /\ IsFiniteSet(Callers)
  BY <1>1, OrdersAssumption
<1> HIDE DEF f, g
<1>3. SumOver(f, Callers) = 0
  BY <1>1, <1>2, NoSum
<1>4. SumOver(g, Callers) = 0
  BY <1>1, <1>2, NoSum
<1> QED
  BY <1>3, <1>4 DEF GoingOut, ComingIn, f, g

LEMMA OrdersInit == Init => OrdersInv
<1> SUFFICES ASSUME Init PROVE OrdersInv
  OBVIOUS
<1>1. TypeOK
  <2>1. 0 \in Amount /\ 0 \in 0 .. MaxSlips /\ NoLine \in Line /\ Free \in Request
    BY OrdersAssumption, FreeTyped DEF Amount, Line
  <2> QED
    BY <2>1 DEF Init, TypeOK
<1>2. \A c \in Callers : call[c].op = "none"
  BY FreeTyped DEF Init
<1>3. RowsHeld
  BY <1>2 DEF RowsHeld
<1>4. SetAside
  <2> SUFFICES ASSUME NEW p \in Products PROVE OnShelf(p)
    BY DEF SetAside
  <2>1. \A o \in Orders : Awaits(o, p) = 0
    BY DEF Init, Awaits
  <2>2. Claims(p, {"awaiting"}, {}) \in [Orders -> Nat] /\ Waiting(p) = SumOver(Claims(p, {"awaiting"}, {}), Orders)
    BY <1>1, SumsNow DEF SumsRight, Waiting
  <2>3. \A o \in Orders : Claims(p, {"awaiting"}, {})[o] = 0
    BY <1>1, <2>1, AwaitsIs
  <2>4. Loads(p) \in [Callers -> Nat] /\ Leaving(p) = SumOver(Loads(p), Callers)
    BY <1>1, SumsNow DEF SumsRight
  <2>5. \A c \in Callers : Loads(p)[c] = 0
    BY <1>1, <1>2, LoadIs DEF Load
  <2>6. /\ Orders \in SUBSET Orders /\ IsFiniteSet(Orders)
        /\ Callers \in SUBSET Callers /\ IsFiniteSet(Callers)
    BY OrdersAssumption
  <2>7. Waiting(p) = 0
    BY <2>2, <2>3, <2>6, NoSum
  <2>8. Leaving(p) = 0
    BY <2>4, <2>5, <2>6, NoSum
  <2>9. pool[p] = 0
    BY DEF Init
  <2> QED
    BY <1>2, <2>7, <2>8, <2>9 DEF OnShelf
<1>5. GoodsInv
  <2>1. QueriesFit
    BY <1>2 DEF QueriesFit
  <2>2. ASSUME NEW o \in Orders PROVE GoodsOf(o)
    <3>1. \A c \in Callers : ~Carries(c, o) /\ ~Corrects(c, o)
      BY <1>2 DEF Carries, Corrects
    <3>2. ~Served(o) /\ \A p \in Products : left[o][p] = 0 /\ came[o][p] = 0
      BY DEF Init, Served
    <3>3. \A t \in Tickets : NoFixes(t)
      BY DEF Init, NoFixes
    <3>4. Untouched(o) /\ OneDelivery(o) /\ OutFirst(o)
      BY <3>1, <3>2, <3>3 DEF Untouched, OneDelivery, OutFirst, NoFixesOf
    <3>5. Straight(o)
      <4> SUFFICES ASSUME NEW p \in Products
                   PROVE  /\ left[o][p] + Fixes(fixLeft, o, p) + GoingOut(o, p) = Delivery(o, p)
                          /\ came[o][p] + Fixes(fixCame, o, p) + ComingIn(o, p) = Delivery(o, p)
        BY DEF Straight
      <4>1. Delivery(o, p) = 0
        BY <1>1, <3>2, SumsNow DEF SumsRight, Served
      <4>2. fixLeft \in [Tickets -> [Products -> Int]] /\ fixCame \in [Tickets -> [Products -> Int]]
        BY <1>1 DEF TypeOK
      <4>3. Fixes(fixLeft, o, p) = 0
        BY <3>3, <4>2, FixesSum DEF NoFixes
      <4>4. Fixes(fixCame, o, p) = 0
        BY <3>3, <4>2, FixesSum DEF NoFixes
      <4>5. GoingOut(o, p) = 0 /\ ComingIn(o, p) = 0
        BY <3>1, NothingMoves
      <4> QED
        BY <3>2, <4>1, <4>3, <4>4, <4>5
    <3> QED
      BY <3>4, <3>5 DEF GoodsOf
  <2>3. FixesFit
    BY <1>2 DEF Init, FixesFit
  <2> QED
    BY <2>1, <2>2, <2>3 DEF GoodsInv
<1> QED
  BY <1>1, <1>3, <1>4, <1>5 DEF OrdersInv

-----------------------------------------------------------------------------
(* The theorems                                                             *)

LEMMA OrdersStay == OrdersInv /\ UNCHANGED vars => OrdersInv'
<1> SUFFICES ASSUME OrdersInv, UNCHANGED vars PROVE OrdersInv'
  OBVIOUS
<1>1. UNCHANGED <<status, lines, pool, left, came, fixLeft, fixCame, open, call, strained, marred, slips>>
  BY DEF vars
<1>2. TypeOK /\ TypeOK'
  BY <1>1 DEF OrdersInv, TypeOK
<1>3. \A o \in Orders : (Served(o)' <=> Served(o)) /\ lines'[o] = lines[o]
  BY <1>1 DEF Served
<1>4. \A p \in Products : pool[p] <= pool'[p]
  BY <1>1, <1>2 DEF TypeOK
<1>5. ASSUME NEW p \in Products, NEW u \in Orders PROVE Awaits(u, p)' <= Awaits(u, p)
  BY <1>1, <1>2, AwaitsLess
<1>6. \A c \in Callers : call'[c] = call[c]
  BY <1>1
<1> QED
  BY <1>1, <1>2, <1>3, <1>4, <1>5, <1>6, QuietStep

LEMMA OrdersStep == OrdersInv /\ [Next]_vars => OrdersInv'
<1> SUFFICES ASSUME OrdersInv, [Next]_vars PROVE OrdersInv'
  OBVIOUS
<1>1. ASSUME NEW o \in Orders,
             \/ Cancel(o) \/ Reject(o) \/ FinalApprove(o) \/ Override(o)
             \/ \E asked \in Asked : Edit(o, asked)
      PROVE  OrdersInv'
  BY <1>1, StatusStep, OverrideStep, EditStep
<1>2. ASSUME NEW c \in Callers, NEW o \in Orders,
             \/ \E asked \in Asked : Create(c, o, asked)
             \/ \E p \in Products, q \in Qty : AddItem(c, o, p, q)
             \/ CheckReview(c, o)
             \/ Verify(c, o)
      PROVE  OrdersInv'
  BY <1>2, CreateStep, AddItemStep, CheckReviewStep, VerifyStep
<1>3. ASSUME NEW c \in Callers,
             \/ Insert(c) \/ WriteReview(c)
             \/ MoveOut(c) \/ MoveIn(c) \/ Delivered(c)
      PROVE  OrdersInv'
  BY <1>3, InsertStep, WriteReviewStep, MoveOutStep, MoveInStep, DeliveredStep
<1>4. ASSUME NEW c \in Callers,
             \/ CorrectLines(c) \/ FixBranch(c) \/ FixPool(c) \/ Resolve(c) \/ Fail(c)
             \/ \E t \in Tickets : StartCorrect(c, t)
      PROVE  OrdersInv'
  BY <1>4, CorrectLinesStep, FixBranchStep, FixPoolStep, ResolveStep, FailStep, StartCorrectStep
<1>5. ASSUME NEW t \in Tickets, Delete(t) PROVE OrdersInv'
  BY <1>5, DeleteStep
<1>6. ASSUME NEW p \in Products, NEW q \in Qty, Prepare(p, q) \/ Sell(p, q) PROVE OrdersInv'
  BY <1>6, PrepareStep, SellStep
<1>7. ASSUME UNCHANGED vars PROVE OrdersInv'
  BY <1>7, OrdersStay
<1> QED
  BY <1>1, <1>2, <1>3, <1>4, <1>5, <1>6, <1>7 DEF Next

LEMMA OrdersInvariant == Spec => []OrdersInv
  BY OrdersInit, OrdersStep, PTL DEF Spec

\* The tables of a demand, the pool, the ledgers and the requests hold what they may hold.
THEOREM OrdersTyped == Spec => []TypeOK
<1>1. OrdersInv => TypeOK
  BY DEF OrdersInv
<1> QED
  BY <1>1, OrdersInvariant, PTL

\* Whatever reviews, counts, deliveries, sales and corrections meet, and whatever breaks off,
\* what is promised of a product and what is on its way is on the shelf, unless the product
\* is one an override, a late line, a correction or a blind spot touched.
THEOREM PromisesCovered == Spec => []PromisesAreCovered
<1>1. OrdersInv => PromisesAreCovered
  <2> SUFFICES ASSUME OrdersInv, NEW p \in Products \ strained
               PROVE  ClaimedBy(p, {"awaiting"}, {}) + Leaving(p) <= pool[p]
    BY DEF PromisesAreCovered
  <2> QED
    BY DEF OrdersInv, SetAside, OnShelf, Waiting
<1> QED
  BY <1>1, OrdersInvariant, PTL

\* Whatever breaks off, is resent or is corrected twice at once, no goods arrive that have not
\* left, and of a demand none of whose movements broke off, was swallowed by the ledgers' key
\* or was not made, what left the pool and what its branch got are what its lines say, once
\* its delivery and its corrections, however many were under way together, are done.
THEOREM UnitsFollow == Spec => []UnitsFollowOrder
<1>1. OrdersInv => UnitsFollowOrder
  <2> SUFFICES ASSUME OrdersInv PROVE UnitsFollowOrder
    OBVIOUS
  <2>1. \A t \in Tickets, p \in Products : fixLeft[t][p] # 0 => fixCame[t][p] # 0
    BY DEF OrdersInv, GoodsInv, FixesFit
  <2>2. ASSUME NEW o \in Orders, NEW p \in Products
        PROVE  /\ came[o][p] # 0 => left[o][p] # 0
               /\ o \notin marred /\ ~Delivering(o) =>
                    /\ left[o][p] + Fixes(fixLeft, o, p) = Delivery(o, p)
                    /\ came[o][p] + Fixes(fixCame, o, p) = Delivery(o, p)
    <3>1. GoodsOf(o) /\ TypeOK
      BY DEF OrdersInv, GoodsInv
    <3>2. came[o][p] # 0 => left[o][p] # 0
      BY <3>1 DEF GoodsOf, OutFirst
    <3>3. ASSUME o \notin marred, ~Delivering(o)
          PROVE  /\ left[o][p] + Fixes(fixLeft, o, p) = Delivery(o, p)
                 /\ came[o][p] + Fixes(fixCame, o, p) = Delivery(o, p)
      <4>1. \A c \in Callers : ~Carries(c, o) /\ ~Corrects(c, o)
        BY <3>3 DEF Delivering, Carries, Corrects
      <4>2. GoingOut(o, p) = 0 /\ ComingIn(o, p) = 0
        BY <4>1, NothingMoves
      <4>3. /\ left[o][p] + Fixes(fixLeft, o, p) + GoingOut(o, p) = Delivery(o, p)
            /\ came[o][p] + Fixes(fixCame, o, p) + ComingIn(o, p) = Delivery(o, p)
        BY <3>1, <3>3 DEF GoodsOf, Straight
      <4>4. /\ left[o][p] \in Int /\ Fixes(fixLeft, o, p) \in Int
            /\ came[o][p] \in Int /\ Fixes(fixCame, o, p) \in Int
        BY <3>1, LedgersTyped
      <4> QED
        BY <4>2, <4>3, <4>4
    <3> QED
      BY <3>2, <3>3
  <2> QED
    BY <2>1, <2>2 DEF UnitsFollowOrder
<1> QED
  BY <1>1, OrdersInvariant, PTL

=============================================================================
