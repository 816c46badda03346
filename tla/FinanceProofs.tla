--------------------------- MODULE FinanceProofs ----------------------------
(***************************************************************************)
(* Theorems about FinanceLedger, for every value of its constants, and     *)
(* about CashDeposits, for any deposits, requests and bounds.              *)
(*                                                                         *)
(* What is proved of the deposits rests on one lemma, SyncBooks: what      *)
(* sync_cash_transfer_entries leaves are the slices of the figures, one    *)
(* receipt each, with new numbers for the new ones and nothing changed on  *)
(* a closed day.                                                           *)
(***************************************************************************)
EXTENDS FinanceLedger, CashDeposits, SequenceTheorems, SumTheorems

-----------------------------------------------------------------------------
(* The inductive invariant                                                  *)

Marks == {"no", "book", "desk"}

\* Types but for the balances: what a sum is, the argument does not need.
Rows(B) == [day: Days, figure: Figures, balance: B, deleted: Marks]
Calls(B) ==
    {Idle} \cup Correcting
       \cup [op: {"post", "approve"}, step: {"waiting", "locked"}, day: Days, figure: Figures,
             prev: B]
       \cup [op: {"close"}, step: {"read", "counted"}, day: Days, net: B]

Shape ==
    /\ \E B : entries \in Seq(Rows(B))
    /\ Len(entries) <= MaxEntries
    /\ \E B : tx \in [Clerks -> Calls(B)]
    /\ \E B : closings \in [Days -> {Open} \cup [closed: {TRUE}, net: B]]

Corrector(c) == InTransaction(c) /\ Corrects(c)

\* The row lock: a correction's voucher is as it was when it was checked.
Held ==
    \A c \in Clerks :
       Corrector(c) =>
          /\ Live(tx[c].entry)
          /\ Says(tx[c].entry) = tx[c].seen
          /\ tx[c].op # "edit" => tx[c].day = tx[c].seen[1]

OneCorrector ==
    \A b, c \in Clerks :
       Corrector(b) /\ Corrector(c) /\ tx[b].entry = tx[c].entry => b = c

LedgerInv == Shape /\ Held /\ OneCorrector

\* What was expected is what the row said, and what is not named is written as it was.
Asked(t) ==
    /\ \A e \in t.expected : Field(t.seen, e[1]) = e[2]
    /\ \A k \in VoucherFields \ t.set : Field(t.seen, k) = Field(<<t.day, t.figure>>, k)

AllAsked ==
    \A c \in Clerks : Corrector(c) /\ tx[c].op \in {"edit", "adjust"} => Asked(tx[c])

LEMMA LedgerInit == Init => LedgerInv
<1> SUFFICES ASSUME Init PROVE LedgerInv
  OBVIOUS
<1>1. entries \in Seq(Rows({})) /\ Len(entries) <= MaxEntries
  BY LedgerAssumption DEF Init
<1>2. tx \in [Clerks -> Calls({})] /\ closings \in [Days -> {Open} \cup [closed: {TRUE}, net: {}]]
  BY DEF Init, Calls
<1>3. Held /\ OneCorrector
  BY DEF Init, Held, OneCorrector, Corrector, InTransaction
<1> QED
  BY <1>1, <1>2, <1>3 DEF LedgerInv, Shape

-----------------------------------------------------------------------------
(* What the steps do                                                        *)

\* A clerk's call moves; the others stay.
CallMoves(c, t) ==
    /\ \E B : tx' \in [Clerks -> Calls(B)]
    /\ tx'[c] = t
    /\ \A b \in Clerks \ {c} : tx'[b] = tx[b]

\* Row i of the rows changes, the balances of others may.
RowChanges(i, d, mark) ==
    /\ \E B : entries' \in Seq(Rows(B))
    /\ Len(entries') = Len(entries)
    /\ \A j \in DOMAIN entries \ {i} :
          /\ entries'[j].day = entries[j].day
          /\ entries'[j].figure = entries[j].figure
          /\ entries'[j].deleted = entries[j].deleted
    /\ entries'[i].day = d
    /\ entries'[i].deleted = mark
    /\ mark # "no" => entries'[i].figure = entries[i].figure

Mark(op) == CASE op = "delete" -> "book" [] op = "desk" -> "desk" [] OTHER -> "no"

LEMMA CallType ==
    ASSUME Shape, NEW c \in Clerks
    PROVE  /\ tx[c] # Idle /\ Corrects(c) => tx[c] \in Correcting
           /\ Corrector(c) => tx[c] # Idle /\ tx[c] \in Correcting
  BY DEF Shape, Calls, Corrects, Corrector, InTransaction, Idle

LEMMA CallMovesTo ==
    ASSUME Shape, NEW c \in Clerks, NEW B, NEW t \in Calls(B), tx' = [tx EXCEPT ![c] = t]
    PROVE  CallMoves(c, t)
<1>1. PICK A : tx \in [Clerks -> Calls(A)]
  BY DEF Shape
<1>2. Calls(A) \subseteq Calls(A \cup B) /\ Calls(B) \subseteq Calls(A \cup B)
  BY DEF Calls
<1>3. tx' \in [Clerks -> Calls(A \cup B)]
  BY <1>1, <1>2
<1> QED
  BY <1>1, <1>3 DEF CallMoves

\* A correction that commits: the row says what the call wanted.
LEMMA CorrectedRows ==
    ASSUME Shape, NEW c \in Clerks, Corrector(c), Live(tx[c].entry), NEW B,
           entries \in Seq(Rows(B))
    PROVE  LET rows == Corrected(tx[c])
               i == tx[c].entry IN
           /\ rows \in Seq(Rows(B)) /\ Len(rows) = Len(entries)
           /\ \A j \in DOMAIN entries \ {i} : rows[j] = entries[j]
           /\ rows[i].deleted = Mark(tx[c].op)
           /\ rows[i].day = IF tx[c].op \in {"edit", "adjust"} THEN tx[c].day ELSE entries[i].day
           /\ Mark(tx[c].op) # "no" => rows[i].figure = entries[i].figure
<1>1. PICK i \in DOMAIN entries : i = tx[c].entry
  BY DEF Live
<1>2. PICK t \in Correcting : t = tx[c]
  BY CallType
<1>3. /\ entries[i] \in Rows(B) /\ entries[i].deleted = "no"
      /\ t.day \in Days /\ t.figure \in Figures
      /\ t.op \in {"edit", "adjust", "delete", "desk"}
  BY <1>1, <1>2 DEF Live, Correcting
<1>4. CASE t.op = "delete"
  <2>1. [entries[i] EXCEPT !.deleted = "book"] \in Rows(B)
    BY <1>3 DEF Rows, Marks
  <2> QED
    BY <1>1, <1>2, <1>3, <1>4, <2>1 DEF Corrected, Mark, Rows
<1>5. CASE t.op = "desk"
  <2>1. [entries[i] EXCEPT !.deleted = "desk"] \in Rows(B)
    BY <1>3 DEF Rows, Marks
  <2> QED
    BY <1>1, <1>2, <1>3, <1>5, <2>1 DEF Corrected, Mark, Rows
<1>6. CASE t.op \in {"edit", "adjust"}
  <2> DEFINE x == [entries[i] EXCEPT !.day = t.day, !.figure = t.figure]
  <2>1. x \in Rows(B) /\ x.day = t.day /\ x.deleted = "no"
    BY <1>3 DEF Rows
  <2>2. Corrected(t) = [entries EXCEPT ![i] = x]
    BY <1>1, <1>2, <1>6 DEF Corrected
  <2> HIDE DEF x
  <2> QED
    BY <1>1, <1>2, <1>3, <1>6, <2>1, <2>2 DEF Mark
<1> QED
  BY <1>3, <1>4, <1>5, <1>6

LEMMA RowsAreABook ==
    ASSUME NEW S, NEW n \in Nat, NEW f \in [1 .. n -> S]
    PROVE  f \in Seq(S) /\ Len(f) = n
  OBVIOUS

LEMMA RowsGrow ==
    ASSUME NEW S, NEW T, S \subseteq T, NEW s \in Seq(S)
    PROVE  s \in Seq(T)
  OBVIOUS

LEMMA RowTyped ==
    ASSUME Shape, NEW i \in DOMAIN entries
    PROVE  /\ entries[i].day \in Days /\ entries[i].figure \in Figures
           /\ i \in 1 .. MaxEntries
<1>1. PICK B : entries \in Seq(Rows(B))
  BY DEF Shape
<1>2. entries[i] \in Rows(B) /\ i \in 1 .. Len(entries) /\ Len(entries) \in Nat
  BY <1>1
<1> QED
  BY <1>2, LedgerAssumption DEF Shape, Rows

LEMMA RebalancedRows ==
    ASSUME NEW B, NEW rows \in Seq(Rows(B))
    PROVE  LET r == Rebalanced(rows) IN
           /\ \E A : r \in Seq(Rows(A))
           /\ Len(r) = Len(rows)
           /\ \A j \in DOMAIN rows :
                 r[j].day = rows[j].day /\ r[j].figure = rows[j].figure
                 /\ r[j].deleted = rows[j].deleted
<1> DEFINE r == Rebalanced(rows)
           sums == {SumUpTo(rows, j) : j \in DOMAIN rows}
<1>1. ASSUME NEW j \in DOMAIN rows
      PROVE  /\ r[j] \in Rows(B \cup sums)
             /\ r[j].day = rows[j].day /\ r[j].figure = rows[j].figure
             /\ r[j].deleted = rows[j].deleted
  <2>1. rows[j] \in Rows(B) /\ SumUpTo(rows, j) \in sums
    BY <1>1
  <2>2. r[j] = IF rows[j].deleted = "no"
               THEN [rows[j] EXCEPT !.balance = SumUpTo(rows, j)] ELSE rows[j]
    BY <1>1 DEF Rebalanced
  <2> HIDE DEF r, sums
  <2> QED
    BY <2>1, <2>2 DEF Rows
<1>2. r = [j \in 1 .. Len(rows) |-> r[j]] /\ Len(rows) \in Nat
  BY DEF Rebalanced
<1> HIDE DEF r, sums
<1>3. DOMAIN rows = 1 .. Len(rows)
  OBVIOUS
<1>4. r \in [1 .. Len(rows) -> Rows(B \cup sums)]
  BY <1>1, <1>2, <1>3
<1>5. r \in Seq(Rows(B \cup sums)) /\ Len(r) = Len(rows)
  BY <1>2, <1>4, RowsAreABook
<1> QED
  BY <1>1, <1>5 DEF r

CorrectionDay(t, d) == IF t.op \in {"edit", "adjust"} THEN t.day ELSE d

LEMMA CorrectionCommits ==
    ASSUME LedgerInv, NEW c \in Clerks, CommitUnmoved(c) \/ Rebalance(c)
    PROVE  LET i == tx[c].entry IN
           /\ Corrector(c)
           /\ RowChanges(i, CorrectionDay(tx[c], entries[i].day), Mark(tx[c].op))
           /\ CallMoves(c, Idle)
           /\ UNCHANGED closings
<1> USE DEF LedgerInv
<1>1. Corrector(c) /\ tx' = [tx EXCEPT ![c] = Idle] /\ UNCHANGED closings
  BY DEF CommitUnmoved, Rebalance, Corrector, InTransaction, Corrects
<1>2. CallMoves(c, Idle)
  BY <1>1, CallMovesTo DEF Calls
<1>3. Live(tx[c].entry)
  BY <1>1 DEF Held
<1>4. PICK B : entries \in Seq(Rows(B))
  BY DEF Shape
<1>5. PICK i \in DOMAIN entries : i = tx[c].entry
  BY <1>3 DEF Live
<1> DEFINE rows == Corrected(tx[c])
<1>6. /\ rows \in Seq(Rows(B)) /\ Len(rows) = Len(entries)
      /\ \A j \in DOMAIN entries \ {i} : rows[j] = entries[j]
      /\ rows[i].deleted = Mark(tx[c].op)
      /\ rows[i].day = CorrectionDay(tx[c], entries[i].day)
      /\ Mark(tx[c].op) # "no" => rows[i].figure = entries[i].figure
  BY <1>1, <1>3, <1>4, <1>5, CorrectedRows DEF CorrectionDay
<1>7. CASE CommitUnmoved(c)
  <2>1. entries' = rows
    BY <1>7 DEF CommitUnmoved
  <2> HIDE DEF rows
  <2> QED
    BY <1>1, <1>2, <1>5, <1>6, <2>1 DEF RowChanges
<1>8. CASE Rebalance(c)
  <2>1. entries' = Rebalanced(rows)
    BY <1>8 DEF Rebalance
  <2> HIDE DEF rows
  <2>2. /\ \E A : entries' \in Seq(Rows(A))
        /\ Len(entries') = Len(rows)
        /\ \A j \in DOMAIN rows :
              /\ entries'[j].day = rows[j].day /\ entries'[j].figure = rows[j].figure
              /\ entries'[j].deleted = rows[j].deleted
    BY <1>6, <2>1, RebalancedRows
  <2>3. DOMAIN rows = DOMAIN entries
    BY <1>4, <1>6
  <2> QED
    BY <1>1, <1>2, <1>5, <1>6, <2>2, <2>3 DEF RowChanges
<1> QED
  BY <1>7, <1>8

-----------------------------------------------------------------------------
(* What a closed day keeps, one step at a time                              *)

DayKept ==
    \A d \in Days : ~IsOpen(d) /\ Quiet(d) =>
       /\ ~IsOpen(d)' /\ Quiet(d)'
       /\ OnDay(d)' \subseteq OnDay(d)
       /\ \A v \in OnDay(d) \ OnDay(d)' : entries'[v[1]].deleted = "desk"

\* The calls that commit nothing: one clerk's call moves to t, the rows stays.  Either t
\* corrects nothing, or c held the voucher already, or takes it while nobody does.
LEMMA CallKeeps ==
    ASSUME LedgerInv, NEW c \in Clerks, NEW t, CallMoves(c, t),
           UNCHANGED <<entries, closings>>,
           Corrector(c)' =>
              /\ Live(t.entry) /\ Says(t.entry) = t.seen
              /\ t.op # "edit" => t.day = t.seen[1]
              /\ \A b \in Clerks \ {c} : Corrector(b) => tx[b].entry # t.entry,
           \A d \in Days : ~IsOpen(d) /\ Quiet(d) /\ InTransaction(c)' /\ t.op # "desk" =>
              t.day # d /\ (Corrects(c)' => t.seen[1] # d)
    PROVE  LedgerInv' /\ DayKept
<1> USE DEF LedgerInv
<1>1. \A b \in Clerks \ {c} : /\ Corrector(b)' <=> Corrector(b)
                              /\ InTransaction(b)' <=> InTransaction(b)
                              /\ Corrects(b)' <=> Corrects(b)
                              /\ tx'[b] = tx[b]
  BY DEF CallMoves, Corrector, InTransaction, Corrects
<1>2. Shape'
  BY DEF Shape, CallMoves
<1>3. \A i : /\ Live(i)' <=> Live(i)
             /\ Says(i)' = Says(i)
  BY DEF Live, Says
<1>4. Held'
  BY <1>1, <1>3 DEF Held, CallMoves
<1>5. OneCorrector'
  BY <1>1 DEF OneCorrector, CallMoves
<1>6. ASSUME NEW d \in Days, ~IsOpen(d), Quiet(d)
      PROVE  ~IsOpen(d)' /\ Quiet(d)' /\ OnDay(d)' = OnDay(d)
  BY <1>1, <1>6 DEF IsOpen, Quiet, OnDay, Live, CallMoves
<1> QED
  BY <1>2, <1>4, <1>5, <1>6 DEF DayKept

\* A clerk's call ends, or closes a day: no correction is under way in t.
LEMMA CallEnds ==
    ASSUME LedgerInv, NEW c \in Clerks, NEW t, CallMoves(c, t), ~InTransaction(c)',
           UNCHANGED <<entries, closings>>
    PROVE  LedgerInv' /\ DayKept
  BY CallKeeps DEF Corrector

\* A correction commits: the voucher was c's alone, and on no quiet closed day, unless
\* the Help Desk deletes it.
LEMMA CorrectionKeeps ==
    ASSUME LedgerInv, NEW c \in Clerks, CommitUnmoved(c) \/ Rebalance(c)
    PROVE  LedgerInv' /\ DayKept
<1> USE DEF LedgerInv
<1> DEFINE i == tx[c].entry
           e == CorrectionDay(tx[c], entries[i].day)
           m == Mark(tx[c].op)
<1>1. /\ Corrector(c) /\ RowChanges(i, e, m) /\ CallMoves(c, Idle) /\ UNCHANGED closings
  BY CorrectionCommits
<1>2. tx[c] \in Correcting
  BY <1>1, CallType
<1>3. /\ i \in DOMAIN entries /\ Live(i) /\ Says(i) = tx[c].seen
      /\ tx[c].op # "edit" => tx[c].day = tx[c].seen[1]
  BY <1>1 DEF Held, Live
<1>4. /\ tx[c].op # "desk" => (tx[c].day # tx[c].seen[1] => m = "no")
      /\ tx[c].op = "desk" <=> m = "desk"
      /\ e \in {tx[c].day, tx[c].seen[1]}
      /\ tx[c].op \in {"delete", "desk"} => m # "no"
  BY <1>2, <1>3 DEF Correcting, Mark, CorrectionDay, Says
<1> HIDE DEF i, e, m
<1>5. DOMAIN entries' = DOMAIN entries
  BY <1>1 DEF Shape, RowChanges
<1>6. \A b \in Clerks \ {c} : /\ Corrector(b)' <=> Corrector(b)
                              /\ InTransaction(b)' <=> InTransaction(b)
                              /\ Corrects(b)' <=> Corrects(b)
                              /\ tx'[b] = tx[b]
  BY <1>1 DEF CallMoves, Corrector, InTransaction, Corrects
<1>7. ~InTransaction(c)' /\ ~Corrector(c)'
  BY <1>1 DEF CallMoves, InTransaction, Corrector
<1>8. \A j \in DOMAIN entries \ {i} :
        (Live(j)' <=> Live(j)) /\ Says(j)' = Says(j)
  BY <1>1, <1>5 DEF RowChanges, Live, Says
<1>9. Shape'
  BY <1>1 DEF Shape, RowChanges, CallMoves
<1>10. Held'
  <2> SUFFICES ASSUME NEW b \in Clerks, Corrector(b)'
               PROVE  /\ Live(tx[b].entry)' /\ (Says(tx[b].entry) = tx[b].seen)'
                      /\ (tx[b].op # "edit" => tx[b].day = tx[b].seen[1])'
    BY DEF Held
  <2>1. b # c /\ Corrector(b) /\ tx'[b] = tx[b]
    BY <1>6, <1>7
  <2>2. tx[b].entry # i
    BY <1>1, <2>1 DEF OneCorrector, i
  <2>3. /\ Live(tx[b].entry) /\ Says(tx[b].entry) = tx[b].seen
        /\ tx[b].op # "edit" => tx[b].day = tx[b].seen[1]
    BY <2>1 DEF Held
  <2>4. tx[b].entry \in DOMAIN entries \ {i}
    BY <2>2, <2>3 DEF Live
  <2>5. Live(tx[b].entry)' /\ (Says(tx[b].entry) = tx[b].seen)'
    BY <1>8, <2>1, <2>3, <2>4 DEF Live, Says
  <2> QED
    BY <2>1, <2>3, <2>5
<1>11. OneCorrector'
  BY <1>6, <1>7 DEF OneCorrector
<1>12. ASSUME NEW d \in Days, ~IsOpen(d), Quiet(d)
       PROVE  /\ ~IsOpen(d)' /\ Quiet(d)'
              /\ OnDay(d)' \subseteq OnDay(d)
              /\ \A v \in OnDay(d) \ OnDay(d)' : entries'[v[1]].deleted = "desk"
  <2>1. ~IsOpen(d)' /\ Quiet(d)'
    BY <1>1, <1>6, <1>7, <1>12 DEF IsOpen, Quiet
  <2>2. tx[c].op # "desk" => tx[c].day # d /\ tx[c].seen[1] # d
    BY <1>1, <1>12 DEF Quiet, Corrector
  <2>3. entries[i].day = tx[c].seen[1]
    BY <1>3 DEF Says
  <2>4. m = "no" => tx[c].op # "desk" /\ e # d
    BY <1>4, <2>2
  <2>5. ASSUME NEW j \in DOMAIN entries, Live(j)', entries'[j].day = d
        PROVE  Live(j) /\ entries[j].day = d /\ entries'[j].figure = entries[j].figure
    <3>1. j # i
      BY <1>1, <2>4, <2>5 DEF RowChanges, Live
    <3> QED
      BY <1>1, <1>8, <2>5, <3>1 DEF RowChanges
  <2>6. ASSUME NEW j \in DOMAIN entries, Live(j), entries[j].day = d
        PROVE  \/ entries'[j].deleted = "desk"
               \/ Live(j)' /\ entries'[j].day = d /\ entries'[j].figure = entries[j].figure
    <3>1. CASE j = i
      BY <1>1, <1>4, <2>2, <2>3, <2>6, <3>1 DEF RowChanges
    <3>2. CASE j # i
      BY <1>1, <1>8, <2>6, <3>2 DEF RowChanges
    <3> QED
      BY <3>1, <3>2
  <2>7. OnDay(d)' \subseteq OnDay(d)
    BY <1>5, <2>5 DEF OnDay
  <2>8. \A v \in OnDay(d) \ OnDay(d)' : entries'[v[1]].deleted = "desk"
    BY <1>5, <2>6 DEF OnDay
  <2> QED
    BY <2>1, <2>7, <2>8
<1> QED
  BY <1>9, <1>10, <1>11, <1>12 DEF DayKept

-----------------------------------------------------------------------------
(* Every step                                                               *)

\* A posting appends a voucher of its day, which is no quiet closed day.
LEMMA PostKeeps ==
    ASSUME LedgerInv, NEW c \in Clerks, CommitPost(c)
    PROVE  LedgerInv' /\ DayKept
<1> USE DEF LedgerInv
<1> DEFINE x == [day |-> tx[c].day, figure |-> tx[c].figure,
                 balance |-> tx[c].prev + tx[c].figure, deleted |-> "no"]
<1>1. /\ tx[c] # Idle /\ tx[c].op \in {"post", "approve"} /\ tx[c].step = "locked"
      /\ Len(entries) < MaxEntries /\ entries' = Append(entries, x)
      /\ tx' = [tx EXCEPT ![c] = Idle] /\ UNCHANGED closings
  BY DEF CommitPost
<1>2. CallMoves(c, Idle)
  BY <1>1, CallMovesTo DEF Calls
<1>3. tx[c].day \in Days /\ tx[c].figure \in Figures
  BY <1>1 DEF Shape, Calls, Correcting
<1>4. PICK B : entries \in Seq(Rows(B))
  BY DEF Shape
<1>5. x \in Rows(B \cup {x.balance}) /\ x.day = tx[c].day
  BY <1>3 DEF Rows, Marks
<1>6. entries \in Seq(Rows(B \cup {x.balance}))
  <2> DEFINE A == B \cup {x.balance}
  <2>1. Rows(B) \subseteq Rows(A)
    BY DEF Rows
  <2> HIDE DEF A, x
  <2>2. entries \in Seq(Rows(A))
    BY <1>4, <2>1, RowsGrow
  <2> QED
    BY <2>2 DEF A
<1> HIDE DEF x
<1>7. /\ entries' \in Seq(Rows(B \cup {x.balance}))
      /\ Len(entries') = Len(entries) + 1
      /\ DOMAIN entries' = DOMAIN entries \cup {Len(entries) + 1}
      /\ Len(entries) + 1 \notin DOMAIN entries
      /\ entries'[Len(entries) + 1] = x
      /\ \A j \in DOMAIN entries : entries'[j] = entries[j]
  BY <1>1, <1>5, <1>6
<1>8. Shape'
  <2>1. Len(entries') <= MaxEntries
    BY <1>1, <1>4, <1>7, LedgerAssumption
  <2>2. \E A : tx' \in [Clerks -> Calls(A)]
    BY <1>2 DEF CallMoves
  <2>3. \E A : closings' \in [Days -> {Open} \cup [closed: {TRUE}, net: A]]
    BY <1>1 DEF Shape
  <2>4. \E A : entries' \in Seq(Rows(A))
    BY <1>7
  <2> QED
    BY <2>1, <2>2, <2>3, <2>4 DEF Shape
<1>9. \A b \in Clerks \ {c} : /\ Corrector(b)' <=> Corrector(b)
                              /\ InTransaction(b)' <=> InTransaction(b)
                              /\ Corrects(b)' <=> Corrects(b)
                              /\ tx'[b] = tx[b]
  BY <1>2 DEF CallMoves, Corrector, InTransaction, Corrects
<1>10. ~InTransaction(c)' /\ ~Corrector(c)'
  BY <1>2 DEF CallMoves, InTransaction, Corrector
<1>11. \A j \in DOMAIN entries : (Live(j)' <=> Live(j)) /\ Says(j)' = Says(j)
  BY <1>7 DEF Live, Says
<1>12. Held'
  <2> SUFFICES ASSUME NEW b \in Clerks, Corrector(b)'
               PROVE  /\ Live(tx[b].entry)' /\ (Says(tx[b].entry) = tx[b].seen)'
                      /\ (tx[b].op # "edit" => tx[b].day = tx[b].seen[1])'
    BY DEF Held
  <2>1. b # c /\ Corrector(b) /\ tx'[b] = tx[b]
    BY <1>9, <1>10
  <2>2. /\ Live(tx[b].entry) /\ Says(tx[b].entry) = tx[b].seen
        /\ tx[b].op # "edit" => tx[b].day = tx[b].seen[1]
    BY <2>1 DEF Held
  <2>3. Live(tx[b].entry)' /\ (Says(tx[b].entry) = tx[b].seen)'
    BY <1>11, <2>1, <2>2 DEF Live, Says
  <2> QED
    BY <2>1, <2>2, <2>3
<1>13. OneCorrector'
  BY <1>9, <1>10 DEF OneCorrector
<1>14. ASSUME NEW d \in Days, ~IsOpen(d), Quiet(d)
       PROVE  ~IsOpen(d)' /\ Quiet(d)' /\ OnDay(d)' = OnDay(d)
  <2>1. ~IsOpen(d)' /\ Quiet(d)'
    BY <1>1, <1>9, <1>10, <1>14 DEF IsOpen, Quiet
  <2>2. x.day # d
    BY <1>1, <1>5, <1>14 DEF Quiet, InTransaction
  <2> QED
    BY <1>7, <1>11, <2>1, <2>2 DEF OnDay
<1> QED
  BY <1>8, <1>12, <1>13, <1>14 DEF DayKept

\* A correction begins: the row is free, its day open.
LEMMA BeginsKeep ==
    ASSUME LedgerInv, NEW c \in Clerks, NEW i \in DOMAIN entries, NEW n \in Figures,
           BeginAdjust(c, i, n) \/ BeginDelete(c, i) \/ BeginDeskDelete(c, i)
    PROVE  LedgerInv' /\ DayKept
<1> USE DEF LedgerInv
<1>1. PICK op \in {"adjust", "delete", "desk"}, m \in Figures, s \in SUBSET VoucherFields :
         /\ tx' = [tx EXCEPT ![c] = Correction(op, "waiting", i, entries[i].day, m, s, {}, Says(i))]
         /\ op # "desk" => IsOpen(entries[i].day)
  <2>1. entries[i].figure \in Figures
    BY RowTyped
  <2> QED
    BY <2>1 DEF BeginAdjust, BeginDelete, BeginDeskDelete, VoucherFields
<1>2. Live(i) /\ RowFree(i) /\ UNCHANGED <<entries, closings>>
  BY DEF BeginAdjust, BeginDelete, BeginDeskDelete
<1> DEFINE t == Correction(op, "waiting", i, entries[i].day, m, s, {}, Says(i))
<1>3. /\ t.op = op /\ t.step = "waiting" /\ t.entry = i /\ t.day = entries[i].day
      /\ t.seen = <<entries[i].day, entries[i].figure>> /\ t.seen = Says(i)
      /\ t.seen[1] = t.day
  BY DEF Correction, Says
<1>4. t \in Correcting
  <2>1. entries[i].day \in Days /\ entries[i].figure \in Figures /\ i \in 1 .. MaxEntries
    BY RowTyped
  <2> QED
    BY <2>1 DEF Correcting, Correction, Says
<1>5. CallMoves(c, t)
  <2>1. t \in Calls({})
    BY <1>4 DEF Calls
  <2> QED
    BY <1>1, <2>1, CallMovesTo
<1> HIDE DEF t
<1>6. \A b \in Clerks : Corrector(b) => tx[b].entry # i
  BY <1>2 DEF RowFree, Corrector
<1>7. \A d \in Days : ~IsOpen(d) /\ t.op # "desk" => t.day # d
  BY <1>1, <1>3
<1> QED
  BY <1>2, <1>3, <1>5, <1>6, <1>7, CallKeeps

\* The row is locked and read: what the edit does not name, it takes from there.
LEMMA OnRowType ==
    ASSUME Shape, NEW t \in Correcting, Live(t.entry)
    PROVE  /\ OnRow(t) \in Correcting
           /\ OnRow(t).op = t.op /\ OnRow(t).entry = t.entry
           /\ OnRow(t).set = t.set /\ OnRow(t).expected = t.expected
           /\ OnRow(t).seen = Says(t.entry)
           /\ "day" \notin t.set => OnRow(t).day = entries[t.entry].day
           /\ "figure" \notin t.set => OnRow(t).figure = entries[t.entry].figure
<1>1. t.entry \in DOMAIN entries
  BY DEF Live
<1>2. entries[t.entry].day \in Days /\ entries[t.entry].figure \in Figures
  BY <1>1, RowTyped
<1> QED
  BY <1>2 DEF OnRow, Correcting, Says

LEMMA BeginEditKeeps ==
    ASSUME LedgerInv, NEW c \in Clerks, BeginEdit(c)
    PROVE  LedgerInv' /\ DayKept
<1> USE DEF LedgerInv
<1> DEFINE t == OnRow(tx[c])
<1>1. /\ tx[c] # Idle /\ tx[c].op = "edit" /\ Live(tx[c].entry) /\ RowFree(tx[c].entry)
      /\ IsOpen(entries[tx[c].entry].day) /\ IsOpen(t.day)
      /\ UNCHANGED <<entries, closings>>
  BY DEF BeginEdit, OpenBoth
<1>2. tx[c] \in Correcting
  BY <1>1, CallType DEF Corrects
<1>3. /\ t \in Correcting /\ t.op = "edit" /\ t.entry = tx[c].entry
      /\ t.seen = Says(tx[c].entry)
  BY <1>1, <1>2, OnRowType
<1>4. tx' = [tx EXCEPT ![c] = t]
  BY DEF BeginEdit, Shape
<1>5. CallMoves(c, t)
  <2>1. t \in Calls({})
    BY <1>3 DEF Calls
  <2> HIDE DEF t
  <2> QED
    BY <1>4, <2>1, CallMovesTo
<1> HIDE DEF t
<1>6. \A b \in Clerks : Corrector(b) => tx[b].entry # t.entry
  BY <1>1, <1>3 DEF RowFree, Corrector
<1>7. t.seen[1] = entries[tx[c].entry].day
  BY <1>1, <1>3 DEF Says
<1> QED
  BY <1>1, <1>3, <1>5, <1>6, <1>7, CallKeeps

\* A correction takes the ledger lock; what it holds and wants stays the same.
LEMMA LockToRebalanceKeeps ==
    ASSUME LedgerInv, NEW c \in Clerks, LockToRebalance(c)
    PROVE  LedgerInv' /\ DayKept
<1> USE DEF LedgerInv
<1> DEFINE t == [tx[c] EXCEPT !.step = "locked"]
<1>1. Corrector(c) /\ UNCHANGED <<entries, closings>>
  BY DEF LockToRebalance, Corrector, InTransaction, Corrects
<1>2. tx[c] \in Correcting
  BY <1>1, CallType
<1>3. /\ t \in Correcting /\ t.op = tx[c].op /\ t.entry = tx[c].entry /\ t.day = tx[c].day
      /\ t.seen = tx[c].seen
  BY <1>2 DEF Correcting
<1>4. CallMoves(c, t)
  <2>1. t \in Calls({})
    BY <1>3 DEF Calls
  <2>2. tx' = [tx EXCEPT ![c] = t]
    BY DEF LockToRebalance, Shape
  <2> HIDE DEF t
  <2> QED
    BY <2>1, <2>2, CallMovesTo
<1> HIDE DEF t
<1>5. \A b \in Clerks \ {c} : Corrector(b) => tx[b].entry # t.entry
  BY <1>1, <1>3 DEF OneCorrector
<1>6. /\ Live(t.entry) /\ Says(t.entry) = t.seen
      /\ t.op # "edit" => t.day = t.seen[1]
  BY <1>1, <1>3 DEF Held
<1>7. \A d \in Days : Quiet(d) /\ t.op # "desk" => t.day # d /\ t.seen[1] # d
  BY <1>1, <1>3 DEF Quiet, Corrector
<1> QED
  BY <1>1, <1>4, <1>5, <1>6, <1>7, CallKeeps

\* A posting begins on an open day, and goes on as what it began as.
LEMMA PostingKeeps ==
    ASSUME LedgerInv, NEW c \in Clerks,
           \/ \E op \in {"post", "approve"}, d \in Days, n \in Figures : BeginPost(c, op, d, n)
           \/ LockToPost(c)
    PROVE  LedgerInv' /\ DayKept
<1> USE DEF LedgerInv
<1>1. CASE \E op \in {"post", "approve"}, d \in Days, n \in Figures : BeginPost(c, op, d, n)
  <2>1. PICK op \in {"post", "approve"}, d \in Days, n \in Figures : BeginPost(c, op, d, n)
    BY <1>1
  <2> DEFINE t == [op |-> op, step |-> "waiting", day |-> d, figure |-> n, prev |-> 0]
  <2>2. t \in Calls({0}) /\ t.op = op /\ t.day = d
    BY DEF Calls
  <2>3. tx' = [tx EXCEPT ![c] = t] /\ IsOpen(d) /\ UNCHANGED <<entries, closings>>
    BY <2>1 DEF BeginPost
  <2> HIDE DEF t
  <2>4. CallMoves(c, t)
    BY <2>2, <2>3, CallMovesTo
  <2>5. ~Corrector(c)' /\ ~Corrects(c)'
    BY <2>2, <2>4 DEF CallMoves, Corrector, Corrects
  <2> QED
    BY <2>2, <2>3, <2>4, <2>5, CallKeeps
<1>2. CASE LockToPost(c)
  <2> DEFINE t == [tx[c] EXCEPT !.step = "locked", !.prev = LastBalance]
  <2>1. /\ tx[c] # Idle /\ tx[c].op \in {"post", "approve"} /\ tx[c].step = "waiting"
        /\ UNCHANGED <<entries, closings>>
    BY <1>2 DEF LockToPost
  <2>2. PICK B : tx[c] \in Calls(B)
    BY DEF Shape
  <2>3. tx[c] \in [op: {"post", "approve"}, step: {"waiting", "locked"}, day: Days,
                   figure: Figures, prev: B]
    BY <2>1, <2>2 DEF Calls, Correcting
  <2>4. t \in Calls({LastBalance}) /\ t.op = tx[c].op /\ t.day = tx[c].day
    <3> DEFINE last == LastBalance
    <3> HIDE DEF last
    <3>1. [tx[c] EXCEPT !.step = "locked", !.prev = last] \in
            [op: {"post", "approve"}, step: {"waiting", "locked"}, day: Days,
             figure: Figures, prev: {last}]
      BY <2>3
    <3> QED
      BY <2>3, <3>1 DEF Calls, last
  <2>5. tx' = [tx EXCEPT ![c] = t]
    BY <1>2 DEF LockToPost, Shape
  <2> HIDE DEF t
  <2>6. CallMoves(c, t)
    BY <2>4, <2>5, CallMovesTo
  <2>7. ~Corrector(c)' /\ ~Corrects(c)'
    BY <2>1, <2>4, <2>6 DEF CallMoves, Corrector, Corrects
  <2>8. \A d \in Days : Quiet(d) => t.day # d
    BY <2>1, <2>4 DEF Quiet, InTransaction
  <2> QED
    BY <2>1, <2>6, <2>7, <2>8, CallKeeps
<1> QED
  BY <1>1, <1>2

\* An editor looks; anyone gives up.
LEMMA OutsideKeeps ==
    ASSUME LedgerInv, NEW c \in Clerks,
           \/ \E i \in DOMAIN entries, d \in Days, n \in Figures, f \in Forms :
                Look(c, i, d, n, f[1], f[2])
           \/ Abort(c)
    PROVE  LedgerInv' /\ DayKept
<1> USE DEF LedgerInv
<1>1. CASE \E i \in DOMAIN entries, d \in Days, n \in Figures, f \in Forms :
             Look(c, i, d, n, f[1], f[2])
  <2>1. PICK i \in DOMAIN entries, d \in Days, n \in Figures, f \in Forms :
          Look(c, i, d, n, f[1], f[2])
    BY <1>1
  <2> DEFINE t == Correction("edit", "looking", i, d, n, f[1], f[2], <<d, n>>)
  <2>2. t \in Calls({}) /\ t.step = "looking"
    <3>1. f[1] \in SUBSET VoucherFields /\ f[2] \in SUBSET VoucherFields
      BY LedgerAssumption
    <3>2. /\ entries[i].day \in Days /\ entries[i].figure \in Figures
          /\ i \in 1 .. MaxEntries
      BY RowTyped
    <3>3. {<<k, Field(Says(i), k)>> : k \in f[2]} \in
             SUBSET (({"day"} \X Days) \cup ({"figure"} \X Figures))
      BY <3>1, <3>2 DEF Field, Says, VoucherFields
    <3> HIDE DEF Field
    <3> QED
      BY <3>1, <3>2, <3>3 DEF Calls, Correcting, Correction
  <2>3. tx' = [tx EXCEPT ![c] = t] /\ UNCHANGED <<entries, closings>>
    BY <2>1 DEF Look
  <2> HIDE DEF t
  <2>4. CallMoves(c, t)
    BY <2>2, <2>3, CallMovesTo
  <2> QED
    BY <2>2, <2>3, <2>4, CallEnds DEF CallMoves, InTransaction
<1>2. CASE Abort(c)
  <2>1. CallMoves(c, Idle)
    BY <1>2, CallMovesTo DEF Abort, Calls
  <2> QED
    BY <1>2, <2>1, CallEnds DEF Abort, CallMoves, InTransaction
<1> QED
  BY <1>1, <1>2

\* A day is read, counted and closed; what is closed stays so.
LEMMA ClosingKeeps ==
    ASSUME LedgerInv, NEW c \in Clerks,
           (\E d \in Days : ReadDay(c, d)) \/ CountPending(c) \/ InsertClosing(c)
    PROVE  LedgerInv' /\ DayKept
<1> USE DEF LedgerInv
<1>1. CASE \E d \in Days : ReadDay(c, d)
  <2>1. PICK d \in Days : ReadDay(c, d)
    BY <1>1
  <2> DEFINE net == Net(d)
             t == [op |-> "close", step |-> "read", day |-> d, net |-> net]
  <2>2. tx' = [tx EXCEPT ![c] = t] /\ UNCHANGED <<entries, closings>>
    BY <2>1 DEF ReadDay
  <2> HIDE DEF net
  <2>3. t \in Calls({net}) /\ t.op = "close"
    BY DEF Calls
  <2> HIDE DEF t
  <2>4. CallMoves(c, t)
    BY <2>2, <2>3, CallMovesTo
  <2> QED
    BY <2>2, <2>3, <2>4, CallEnds DEF CallMoves, InTransaction
<1>2. CASE CountPending(c)
  <2> DEFINE t == [tx[c] EXCEPT !.step = "counted"]
  <2>1. /\ tx[c] # Idle /\ tx[c].op = "close" /\ UNCHANGED <<entries, closings>>
    BY <1>2 DEF CountPending
  <2>2. PICK B : tx[c] \in Calls(B)
    BY DEF Shape
  <2>3. t \in Calls(B) /\ t.op = "close"
    BY <2>1, <2>2 DEF Calls, Correcting
  <2>4. tx' = [tx EXCEPT ![c] = t]
    BY <1>2 DEF CountPending, Shape
  <2> HIDE DEF t
  <2>5. CallMoves(c, t)
    BY <2>3, <2>4, CallMovesTo
  <2> QED
    BY <2>1, <2>3, <2>5, CallEnds DEF CallMoves, InTransaction
<1>3. CASE InsertClosing(c)
  <2>1. /\ tx[c] # Idle /\ tx[c].op = "close" /\ IsOpen(tx[c].day)
        /\ closings' = [closings EXCEPT ![tx[c].day] = [closed |-> TRUE, net |-> tx[c].net]]
        /\ tx' = [tx EXCEPT ![c] = Idle] /\ entries' = entries
    BY <1>3 DEF InsertClosing
  <2>2. CallMoves(c, Idle)
    BY <2>1, CallMovesTo DEF Calls
  <2>3. PICK B : closings \in [Days -> {Open} \cup [closed: {TRUE}, net: B]]
    BY DEF Shape
  <2>4. \E A : closings' \in [Days -> {Open} \cup [closed: {TRUE}, net: A]]
    <3> DEFINE A == B \cup {tx[c].net}
    <3>1. [closed |-> TRUE, net |-> tx[c].net] \in [closed: {TRUE}, net: A]
      OBVIOUS
    <3>2. [closed: {TRUE}, net: B] \subseteq [closed: {TRUE}, net: A]
      OBVIOUS
    <3> HIDE DEF A
    <3>3. closings' \in [Days -> {Open} \cup [closed: {TRUE}, net: A]]
      BY <2>1, <2>3, <3>1, <3>2
    <3> QED
      BY <3>3
  <2>5. Shape'
    BY <2>1, <2>2, <2>4 DEF Shape, CallMoves
  <2>6. \A b \in Clerks \ {c} : /\ Corrector(b)' <=> Corrector(b)
                                /\ InTransaction(b)' <=> InTransaction(b)
                                /\ Corrects(b)' <=> Corrects(b)
                                /\ tx'[b] = tx[b]
    BY <2>2 DEF CallMoves, Corrector, InTransaction, Corrects
  <2>7. ~InTransaction(c)' /\ ~Corrector(c)'
    BY <2>2 DEF CallMoves, InTransaction, Corrector
  <2>8. Held' /\ OneCorrector'
    BY <2>1, <2>6, <2>7 DEF Held, OneCorrector, Live, Says
  <2>9. ASSUME NEW d \in Days, ~IsOpen(d), Quiet(d)
        PROVE  ~IsOpen(d)' /\ Quiet(d)' /\ OnDay(d)' = OnDay(d)
    <3>1. ~IsOpen(d)'
      BY <2>1, <2>3, <2>9 DEF IsOpen
    <3>2. Quiet(d)'
      BY <2>6, <2>7, <2>9 DEF Quiet
    <3>3. OnDay(d)' = OnDay(d)
      BY <2>1 DEF OnDay, Live
    <3> QED
      BY <3>1, <3>2, <3>3
  <2> QED
    BY <2>5, <2>8, <2>9 DEF DayKept
<1> QED
  BY <1>1, <1>2, <1>3

\* Documents come and go; nobody moves.
LEMMA BookStands ==
    ASSUME LedgerInv, UNCHANGED <<entries, closings, tx>>
    PROVE  LedgerInv' /\ DayKept
<1>1. LedgerInv'
  BY DEF LedgerInv, Shape, Held, OneCorrector, Corrector, InTransaction, Corrects, Live, Says
<1>2. DayKept
  BY DEF DayKept, IsOpen, Quiet, OnDay, InTransaction, Corrects, Live
<1> QED
  BY <1>1, <1>2

LEMMA LedgerStep ==
    ASSUME LedgerInv, [Next]_vars
    PROVE  LedgerInv' /\ DayKept
<1>1. CASE Documents \/ UNCHANGED vars
  BY <1>1, BookStands DEF Documents, Submit, Reject, vars
<1>2. CASE Vouchers
  BY <1>2, PostingKeeps, PostKeeps DEF Vouchers
<1>3. ASSUME NEW c \in Clerks,
             \/ \E i \in DOMAIN entries, d \in Days, n \in Figures, f \in Forms :
                  Look(c, i, d, n, f[1], f[2])
             \/ Abort(c)
      PROVE  LedgerInv' /\ DayKept
  BY <1>3, OutsideKeeps
<1>4. ASSUME NEW c \in Clerks, NEW i \in DOMAIN entries,
             \/ \E n \in Figures : BeginAdjust(c, i, n)
             \/ BeginDelete(c, i)
             \/ BeginDeskDelete(c, i)
      PROVE  LedgerInv' /\ DayKept
  <2>1. entries[i].figure \in Figures
    BY RowTyped DEF LedgerInv
  <2> QED
    BY <1>4, <2>1, BeginsKeep
<1>5. CASE Corrections
  BY <1>3, <1>4, <1>5, BeginEditKeeps, LockToRebalanceKeeps, CorrectionKeeps DEF Corrections
<1>6. CASE Closings
  BY <1>6, ClosingKeeps DEF Closings
<1> QED
  BY <1>1, <1>2, <1>5, <1>6 DEF Next

\* The row lock and the closings' checks: the invariant the two theorems rest on.
THEOREM LedgerHolds == Spec => []LedgerInv
<1>1. LedgerInv /\ [Next]_vars => LedgerInv'
  BY LedgerStep
<1> QED
  BY LedgerInit, <1>1, PTL DEF Spec

\* A call moves: it asks for what it asked for, or begins as it should.
LEMMA AskedMoves ==
    ASSUME Shape, AllAsked, NEW c \in Clerks, NEW t, tx' = [tx EXCEPT ![c] = t],
           t # Idle /\ t.op \in {"edit", "adjust"} /\ t.step # "looking" => Asked(t)
    PROVE  AllAsked'
<1>1. tx'[c] = t /\ \A b \in Clerks \ {c} : tx'[b] = tx[b]
  BY DEF Shape
<1>2. ASSUME NEW b \in Clerks, Corrector(b)', tx'[b].op \in {"edit", "adjust"}
      PROVE  Asked(tx'[b])
  <2>1. CASE b = c
    BY <1>1, <1>2, <2>1 DEF Corrector, InTransaction
  <2>2. CASE b # c
    BY <1>1, <1>2, <2>2 DEF AllAsked, Corrector, InTransaction, Corrects
  <2> QED
    BY <2>1, <2>2
<1>3. \A b \in Clerks : Asked(tx[b])' <=> Asked(tx'[b])
  BY DEF Asked
<1> QED
  BY <1>2, <1>3 DEF AllAsked

LEMMA AskedCorrections ==
    ASSUME LedgerInv, AllAsked, Corrections
    PROVE  AllAsked'
<1> USE DEF LedgerInv
<1>1. ASSUME NEW c \in Clerks, tx' = [tx EXCEPT ![c] = Idle]
      PROVE  AllAsked'
  BY <1>1, AskedMoves
<1>2. ASSUME NEW c \in Clerks, NEW i, NEW d, NEW n, NEW s, NEW e, Look(c, i, d, n, s, e)
      PROVE  AllAsked'
  <2> DEFINE t == Correction("edit", "looking", i, d, n, s, e, <<d, n>>)
  <2>1. tx' = [tx EXCEPT ![c] = t] /\ t.step = "looking"
    BY <1>2 DEF Look, Correction
  <2> HIDE DEF t
  <2> QED
    BY <2>1, AskedMoves
<1>3. ASSUME NEW c \in Clerks, BeginEdit(c)
      PROVE  AllAsked'
  <2> DEFINE t == OnRow(tx[c])
  <2>1. /\ tx' = [tx EXCEPT ![c] = t] /\ Live(tx[c].entry) /\ StillAsSeen(tx[c])
    BY <1>3 DEF BeginEdit, Shape
  <2>2. tx[c] \in Correcting
    BY <1>3, CallType DEF BeginEdit, Corrects
  <2>3. /\ t.expected = tx[c].expected /\ t.set = tx[c].set /\ t.seen = Says(tx[c].entry)
        /\ "day" \notin t.set => t.day = entries[tx[c].entry].day
        /\ "figure" \notin t.set => t.figure = entries[tx[c].entry].figure
    BY <2>1, <2>2, OnRowType
  <2> HIDE DEF t
  <2>4. \A e \in t.expected : Field(t.seen, e[1]) = e[2]
    BY <2>1, <2>3 DEF StillAsSeen
  <2>5. \A k \in VoucherFields \ t.set : Field(t.seen, k) = Field(<<t.day, t.figure>>, k)
    BY <2>3 DEF VoucherFields, Field, Says
  <2>6. Asked(t)
    BY <2>4, <2>5 DEF Asked
  <2> QED
    BY <2>1, <2>6, AskedMoves
<1>4. ASSUME NEW c \in Clerks, NEW i \in DOMAIN entries, NEW n, BeginAdjust(c, i, n)
      PROVE  AllAsked'
  <2> DEFINE t == Correction("adjust", "waiting", i, entries[i].day, n, {"figure"}, {}, Says(i))
  <2>1. tx' = [tx EXCEPT ![c] = t]
    BY <1>4 DEF BeginAdjust
  <2>2. /\ t.expected = {} /\ t.set = {"figure"} /\ t.seen = Says(i) /\ t.day = entries[i].day
    BY DEF Correction
  <2> HIDE DEF t
  <2>3. Asked(t)
    BY <2>2 DEF Asked, VoucherFields, Field, Says
  <2> QED
    BY <2>1, <2>3, AskedMoves
<1>5. ASSUME NEW c \in Clerks, NEW i \in DOMAIN entries, BeginDelete(c, i) \/ BeginDeskDelete(c, i)
      PROVE  AllAsked'
  <2>1. PICK op \in {"delete", "desk"} :
          tx' = [tx EXCEPT ![c] = Correction(op, "waiting", i, entries[i].day, entries[i].figure,
                                             {}, {}, Says(i))]
    BY <1>5 DEF BeginDelete, BeginDeskDelete
  <2> DEFINE t == Correction(op, "waiting", i, entries[i].day, entries[i].figure, {}, {}, Says(i))
  <2>2. t.op \notin {"edit", "adjust"}
    BY DEF Correction
  <2> HIDE DEF t
  <2> QED
    BY <2>1, <2>2, AskedMoves DEF t
<1>6. ASSUME NEW c \in Clerks, LockToRebalance(c)
      PROVE  AllAsked'
  <2> DEFINE t == [tx[c] EXCEPT !.step = "locked"]
  <2>1. tx' = [tx EXCEPT ![c] = t] /\ Corrector(c)
    BY <1>6 DEF LockToRebalance, Shape, Corrector, InTransaction, Corrects
  <2>2. tx[c] \in Correcting
    BY <2>1, CallType
  <2>3. /\ t.op = tx[c].op /\ t.expected = tx[c].expected /\ t.set = tx[c].set
        /\ t.seen = tx[c].seen /\ t.day = tx[c].day /\ t.figure = tx[c].figure
    BY <2>2 DEF Correcting
  <2> HIDE DEF t
  <2>4. t.op \in {"edit", "adjust"} => Asked(t)
    BY <2>1, <2>3 DEF AllAsked, Asked
  <2> QED
    BY <2>1, <2>4, AskedMoves
<1> QED
  BY <1>1, <1>2, <1>3, <1>4, <1>5, <1>6
  DEF Corrections, CommitUnmoved, Rebalance, Abort

LEMMA AskedStep == LedgerInv /\ AllAsked /\ [Next]_vars => AllAsked'
<1> SUFFICES ASSUME LedgerInv, AllAsked, [Next]_vars PROVE AllAsked'
  OBVIOUS
<1> USE DEF LedgerInv
<1>1. CASE tx' = tx
  BY <1>1 DEF AllAsked, Asked, Corrector, InTransaction, Corrects
<1>2. ASSUME NEW c \in Clerks, NEW t, tx' = [tx EXCEPT ![c] = t], t.op \notin {"edit", "adjust"}
      PROVE  AllAsked'
  BY <1>2, AskedMoves
<1>3. CASE Vouchers
  <2>1. ASSUME NEW c \in Clerks, NEW op \in {"post", "approve"}, NEW d, NEW n, BeginPost(c, op, d, n)
        PROVE  AllAsked'
    <3> DEFINE t == [op |-> op, step |-> "waiting", day |-> d, figure |-> n, prev |-> 0]
    <3>1. tx' = [tx EXCEPT ![c] = t] /\ t.op \notin {"edit", "adjust"}
      BY <2>1 DEF BeginPost
    <3> HIDE DEF t
    <3> QED
      BY <1>2, <3>1
  <2>2. ASSUME NEW c \in Clerks, LockToPost(c)
        PROVE  AllAsked'
    <3> DEFINE t == [tx[c] EXCEPT !.step = "locked", !.prev = LastBalance]
    <3>1. PICK B : tx[c] \in Calls(B)
      BY DEF Shape
    <3>2. tx[c].op \in {"post", "approve"} /\ tx[c] # Idle
      BY <2>2 DEF LockToPost
    <3>3. tx[c] \in [op: {"post", "approve"}, step: {"waiting", "locked"}, day: Days,
                     figure: Figures, prev: B]
      BY <3>1, <3>2 DEF Calls, Correcting
    <3>4. t.op \notin {"edit", "adjust"}
      <4> HIDE DEF LastBalance
      <4> QED
        BY <3>3
    <3>5. tx' = [tx EXCEPT ![c] = t]
      BY <2>2 DEF LockToPost, Shape
    <3> HIDE DEF t
    <3> QED
      BY <1>2, <3>4, <3>5
  <2>3. ASSUME NEW c \in Clerks, CommitPost(c)
        PROVE  AllAsked'
    BY <1>2, <2>3 DEF CommitPost, Idle
  <2> QED
    BY <1>3, <2>1, <2>2, <2>3 DEF Vouchers
<1>4. CASE Closings
  <2>1. ASSUME NEW c \in Clerks, NEW d \in Days, ReadDay(c, d)
        PROVE  AllAsked'
    <3> DEFINE t == [op |-> "close", step |-> "read", day |-> d, net |-> Net(d)]
    <3>1. tx' = [tx EXCEPT ![c] = t] /\ t.op \notin {"edit", "adjust"}
      BY <2>1 DEF ReadDay
    <3> HIDE DEF t
    <3> QED
      BY <1>2, <3>1
  <2>2. ASSUME NEW c \in Clerks, CountPending(c)
        PROVE  AllAsked'
    <3> DEFINE t == [tx[c] EXCEPT !.step = "counted"]
    <3>1. PICK B : tx[c] \in Calls(B)
      BY DEF Shape
    <3>2. tx[c] # Idle /\ tx[c].op = "close"
      BY <2>2 DEF CountPending
    <3>3. tx[c] \in [op: {"close"}, step: {"read", "counted"}, day: Days, net: B]
      BY <3>1, <3>2 DEF Calls, Correcting
    <3>4. t.op \notin {"edit", "adjust"}
      BY <3>3
    <3>5. tx' = [tx EXCEPT ![c] = t]
      BY <2>2 DEF CountPending, Shape
    <3> HIDE DEF t
    <3> QED
      BY <1>2, <3>4, <3>5
  <2>3. ASSUME NEW c \in Clerks, InsertClosing(c)
        PROVE  AllAsked'
    BY <1>2, <2>3 DEF InsertClosing, Idle
  <2> QED
    BY <1>4, <2>1, <2>2, <2>3 DEF Closings
<1> QED
  BY <1>1, <1>3, <1>4, AskedCorrections DEF Next, Documents, Submit, Reject, vars

\* From its check to its commit a correction stands on the voucher as it is: what an edit
\* sent as expected is what the voucher says, and what a correction does not name is
\* written back as it is (edit_finance_ledger_entry, app.edit_ledger_entry).
THEOREM EditsReplaceWhatWasSeen == Spec => []EditReplacesWhatWasSeen
<1>1. Init => AllAsked
  BY DEF Init, AllAsked, Corrector, InTransaction
<1>2. LedgerInv /\ AllAsked => EditReplacesWhatWasSeen
  BY DEF LedgerInv, Held, AllAsked, Asked, Corrector, Corrects, EditReplacesWhatWasSeen
<1> QED
  BY LedgerHolds, AskedStep, <1>1, <1>2, PTL DEF Spec

\* A closed day whose earlier calls have ended keeps its vouchers for ever, but for what
\* the Help Desk deletes (assertDateOpen and the closings' checks in SQL).
THEOREM ClosedDaysAreKept == Spec => ClosedDayIsKept
<1>1. LedgerInv /\ [Next]_vars => [DayKept]_vars
  BY LedgerStep
<1> QED
  BY LedgerHolds, <1>1, PTL DEF Spec, ClosedDayIsKept, DayKept

-----------------------------------------------------------------------------
(* The running sum.  Its recursion is unfolded, and facts about all its     *)
(* values are proved, by taking the least index where they would fail.      *)

RunsOver(g, rows) ==
    g = [i \in 0 .. Len(rows) |-> IF i = 0 THEN 0 ELSE g[i - 1] + Counted(rows[i])]

LEMMA RunningExists ==
    ASSUME NEW rows, Len(rows) \in Nat
    PROVE  \E g : RunsOver(g, rows)
<1> DEFINE n == Len(rows)
           Step(g) == [i \in 0 .. n |-> IF i = 0 THEN 0 ELSE g[i - 1] + Counted(rows[i])]
           Bad == {m \in 0 .. n : ~ \E g : \A i \in 0 .. m : g[i] = Step(g)[i]}
<1>1. Bad = {}
  <2> SUFFICES ASSUME Bad # {} PROVE FALSE
    OBVIOUS
  <2>1. Bad \subseteq Nat
    OBVIOUS
  <2>2. PICK m \in Bad : \A k \in 0 .. m - 1 : k \notin Bad
    <3> HIDE DEF Bad
    <3> QED
      BY <2>1, SmallestNat
  <2>3. m \in 0 .. n
    OBVIOUS
  <2>4. CASE m = 0
    <3> DEFINE g == [i \in 0 .. n |-> 0]
    <3>1. \A i \in 0 .. m : g[i] = Step(g)[i]
      BY <2>4
    <3> QED
      BY <2>2, <3>1
  <2>5. CASE m # 0
    <3>1. m - 1 \in 0 .. n /\ m - 1 \notin Bad
      <4>1. m - 1 \in 0 .. m - 1 /\ m - 1 \in 0 .. n
        BY <2>3, <2>5
      <4> HIDE DEF Bad
      <4> QED
        BY <2>2, <4>1
    <3>2. PICK g : \A i \in 0 .. m - 1 : g[i] = Step(g)[i]
      BY <3>1
    <3> DEFINE h == Step(g)
    <3>3. ASSUME NEW i \in 0 .. m PROVE h[i] = Step(h)[i]
      <4>1. CASE i = 0
        BY <4>1
      <4>2. CASE i # 0
        <5>1. i \in 0 .. n /\ i - 1 \in 0 .. m - 1
          BY <2>3, <4>2
        <5>2. h[i - 1] = g[i - 1]
          BY <3>2, <5>1
        <5>3. h[i] = g[i - 1] + Counted(rows[i]) /\ Step(h)[i] = h[i - 1] + Counted(rows[i])
          BY <4>2, <5>1
        <5> QED
          BY <5>2, <5>3
      <4> QED
        BY <4>1, <4>2
    <3> HIDE DEF h
    <3> QED
      BY <2>2, <3>3
  <2> QED
    BY <2>4, <2>5
<1>2. n \in 0 .. n
  OBVIOUS
<1>3. PICK g : \A i \in 0 .. n : g[i] = Step(g)[i]
  BY <1>1, <1>2
<1> DEFINE h == Step(g)
<1>4. \A i \in 0 .. n : h[i] = g[i]
  BY <1>3
<1>5. \A i \in 0 .. n : i # 0 => i - 1 \in 0 .. n
  BY <1>2
<1>6. h = Step(h)
  BY <1>4, <1>5
<1> QED
  BY <1>6 DEF RunsOver

LEMMA RunningUnfolds ==
    ASSUME NEW rows, Len(rows) \in Nat
    PROVE  /\ SumUpTo(rows, 0) = 0
           /\ \A i \in 1 .. Len(rows) :
                 SumUpTo(rows, i) = SumUpTo(rows, i - 1) + Counted(rows[i])
<1>1. Running(rows) = CHOOSE g : RunsOver(g, rows)
  BY DEF Running, RunsOver
<1>2. RunsOver(Running(rows), rows)
  BY <1>1, RunningExists
<1> DEFINE g == Running(rows)
<1> HIDE DEF g
<1>3. g = [i \in 0 .. Len(rows) |-> IF i = 0 THEN 0 ELSE g[i - 1] + Counted(rows[i])]
  BY <1>2 DEF RunsOver, g
<1>4. \A i \in 0 .. Len(rows) : g[i] = IF i = 0 THEN 0 ELSE g[i - 1] + Counted(rows[i])
  BY <1>3
<1>5. g[0] = 0 /\ \A i \in 1 .. Len(rows) : g[i] = g[i - 1] + Counted(rows[i])
  BY <1>4
<1> QED
  BY <1>5 DEF SumUpTo, g

LEMMA RunningType ==
    ASSUME NEW rows, Len(rows) \in Nat, \A i \in 1 .. Len(rows) : Counted(rows[i]) \in Int
    PROVE  \A i \in 0 .. Len(rows) : SumUpTo(rows, i) \in Int
<1> DEFINE Bad == {i \in 0 .. Len(rows) : SumUpTo(rows, i) \notin Int}
<1> SUFFICES ASSUME Bad # {} PROVE FALSE
  OBVIOUS
<1>1. Bad \subseteq Nat
  OBVIOUS
<1>2. PICK m \in Bad : \A k \in 0 .. m - 1 : k \notin Bad
  <2> HIDE DEF Bad
  <2> QED
    BY <1>1, SmallestNat
<1>3. m # 0
  BY RunningUnfolds
<1>4. m \in 1 .. Len(rows) /\ m - 1 \in 0 .. m - 1 /\ m - 1 \in 0 .. Len(rows)
  BY <1>3
<1>5. SumUpTo(rows, m - 1) \in Int
  BY <1>2, <1>4
<1>6. SumUpTo(rows, m) = SumUpTo(rows, m - 1) + Counted(rows[m])
  BY <1>4, RunningUnfolds
<1>7. SumUpTo(rows, m) \in Int
  BY <1>4, <1>5, <1>6
<1> QED
  BY <1>7

\* Two books count the same as far as their vouchers count the same.
LEMMA SumsAgree ==
    ASSUME NEW a, Len(a) \in Nat, NEW b, Len(b) \in Nat, NEW n \in Nat,
           n <= Len(a), n <= Len(b), \A i \in 1 .. n : Counted(a[i]) = Counted(b[i])
    PROVE  \A i \in 0 .. n : SumUpTo(a, i) = SumUpTo(b, i)
<1> DEFINE Bad == {i \in 0 .. n : SumUpTo(a, i) # SumUpTo(b, i)}
<1> SUFFICES ASSUME Bad # {} PROVE FALSE
  OBVIOUS
<1>1. Bad \subseteq Nat
  OBVIOUS
<1>2. PICK m \in Bad : \A k \in 0 .. m - 1 : k \notin Bad
  <2> HIDE DEF Bad
  <2> QED
    BY <1>1, SmallestNat
<1>3. m # 0
  BY RunningUnfolds
<1>4. /\ m \in 1 .. n /\ m \in 1 .. Len(a) /\ m \in 1 .. Len(b)
      /\ m - 1 \in 0 .. m - 1 /\ m - 1 \in 0 .. n
  BY <1>3
<1>5. SumUpTo(a, m - 1) = SumUpTo(b, m - 1)
  BY <1>2, <1>4
<1>6. /\ SumUpTo(a, m) = SumUpTo(a, m - 1) + Counted(a[m])
      /\ SumUpTo(b, m) = SumUpTo(b, m - 1) + Counted(b[m])
  BY <1>4, RunningUnfolds
<1>7. SumUpTo(a, m) = SumUpTo(b, m)
  BY <1>4, <1>5, <1>6
<1> QED
  BY <1>7

\* Behind the last voucher that counts the sum stays.
LEMMA SumStays ==
    ASSUME NEW rows, Len(rows) \in Nat, \A i \in 1 .. Len(rows) : Counted(rows[i]) \in Int,
           NEW k \in 0 .. Len(rows), \A i \in k + 1 .. Len(rows) : Counted(rows[i]) = 0
    PROVE  SumUpTo(rows, Len(rows)) = SumUpTo(rows, k)
<1> DEFINE Bad == {i \in k .. Len(rows) : SumUpTo(rows, i) # SumUpTo(rows, k)}
<1>1. Bad = {}
  <2> SUFFICES ASSUME Bad # {} PROVE FALSE
    OBVIOUS
  <2>1. Bad \subseteq Nat
    OBVIOUS
  <2>2. PICK m \in Bad : \A j \in 0 .. m - 1 : j \notin Bad
    <3> HIDE DEF Bad
    <3> QED
      BY <2>1, SmallestNat
  <2>3. m # k /\ m \in k .. Len(rows)
    OBVIOUS
  <2>4. /\ m \in k + 1 .. Len(rows) /\ m \in 1 .. Len(rows)
        /\ m - 1 \in 0 .. m - 1 /\ m - 1 \in k .. Len(rows) /\ m - 1 \in 0 .. Len(rows)
    BY <2>3
  <2>5. SumUpTo(rows, m - 1) = SumUpTo(rows, k)
    BY <2>2, <2>4
  <2>6. SumUpTo(rows, m) = SumUpTo(rows, m - 1) + 0
    BY <2>4, RunningUnfolds
  <2>7. SumUpTo(rows, m - 1) \in Int
    BY <2>4, RunningType
  <2>8. SumUpTo(rows, m) = SumUpTo(rows, k)
    BY <2>5, <2>6, <2>7
  <2> QED
    BY <2>8
<1>2. Len(rows) \in k .. Len(rows)
  OBVIOUS
<1> QED
  BY <1>1, <1>2

LEMMA MaxOf ==
    ASSUME NEW n \in Nat, NEW T, T \subseteq 1 .. n, T # {}
    PROVE  Max(T) \in T /\ \A x \in T : x <= Max(T)
<1> DEFINE Up == {m \in Nat : \A x \in T : x <= m}
<1>1. n \in Up /\ Up \subseteq Nat
  OBVIOUS
<1>2. PICK m \in Up : \A k \in 0 .. m - 1 : k \notin Up
  <2> HIDE DEF Up
  <2> QED
    BY <1>1, SmallestNat
<1>3. m \in Nat /\ \A x \in T : x <= m
  OBVIOUS
<1>4. m \in T
  <2> SUFFICES ASSUME m \notin T PROVE FALSE
    OBVIOUS
  <2>1. \A x \in T : x \in 1 .. n /\ x <= m - 1
    BY <1>3
  <2>2. m - 1 \in Nat /\ m - 1 \in 0 .. m - 1
    <3>1. PICK x \in T : TRUE
      OBVIOUS
    <3>2. x \in 1 .. n /\ x <= m - 1
      BY <2>1
    <3> HIDE DEF Up
    <3> QED
      BY <1>3, <3>2
  <2>3. m - 1 \in Up
    BY <2>1, <2>2
  <2> HIDE DEF Up
  <2> QED
    BY <1>2, <2>2, <2>3
<1>5. \E x \in T : \A y \in T : x >= y
  BY <1>3, <1>4
<1>6. Max(T) \in T /\ \A y \in T : Max(T) >= y
  BY <1>5 DEF Max
<1> QED
  BY <1>6

-----------------------------------------------------------------------------
(* The stored balances                                                      *)

\* Whoever holds the ledger lock holds it alone; a posting then has in hand the sum
\* of the rows as it is until it commits.
OneHolder ==
    \A b, c \in Clerks :
       /\ InTransaction(b) /\ tx[b].step = "locked"
       /\ InTransaction(c) /\ tx[c].step = "locked"
       => b = c

SumInHand ==
    \A c \in Clerks :
       InTransaction(c) /\ ~Corrects(c) /\ tx[c].step = "locked"
         => tx[c].prev = SumUpTo(entries, Len(entries))

BalanceInv == BalanceIsPrefixSum /\ OneHolder /\ SumInHand

LEMMA BookCounts ==
    ASSUME Shape
    PROVE  /\ Len(entries) \in Nat /\ DOMAIN entries = 1 .. Len(entries)
           /\ \A i \in 1 .. Len(entries) : Counted(entries[i]) \in Int
           /\ \A i \in 1 .. Len(entries) : ~Live(i) => Counted(entries[i]) = 0
<1>1. PICK B : entries \in Seq(Rows(B))
  BY DEF Shape
<1>2. Len(entries) \in Nat /\ DOMAIN entries = 1 .. Len(entries)
  BY <1>1
<1>3. \A i \in 1 .. Len(entries) : entries[i].figure \in Int
  BY <1>2, RowTyped, LedgerAssumption
<1> QED
  BY <1>2, <1>3 DEF Counted, Live

\* post_finance_ledger_entry reads the sum of the rows when it reads the last balance.
LEMMA LastIsSum ==
    ASSUME Shape, BalanceIsPrefixSum
    PROVE  LastBalance = SumUpTo(entries, Len(entries))
<1> DEFINE live == {i \in DOMAIN entries : Live(i)}
<1>1. /\ Len(entries) \in Nat /\ DOMAIN entries = 1 .. Len(entries)
      /\ \A i \in 1 .. Len(entries) : Counted(entries[i]) \in Int
      /\ \A i \in 1 .. Len(entries) : ~Live(i) => Counted(entries[i]) = 0
  BY BookCounts
<1>2. CASE live = {}
  <2>1. 0 \in 0 .. Len(entries) /\ \A i \in 0 + 1 .. Len(entries) : Counted(entries[i]) = 0
    BY <1>1, <1>2
  <2>2. SumUpTo(entries, Len(entries)) = 0
    BY <1>1, <2>1, SumStays, RunningUnfolds
  <2> QED
    BY <1>2, <2>2 DEF LastBalance
<1>3. CASE live # {}
  <2> DEFINE k == Max(live)
  <2>1. live \subseteq 1 .. Len(entries)
    BY <1>1
  <2>2. k \in live /\ \A i \in live : i <= k
    <3> HIDE DEF live
    <3> QED
      BY <1>1, <1>3, <2>1, MaxOf
  <2>3. LastBalance = entries[k].balance
    BY <1>3 DEF LastBalance
  <2>4. k \in 1 .. Len(entries) /\ Live(k)
    BY <2>1, <2>2
  <2>5. entries[k].balance = SumUpTo(entries, k)
    BY <1>1, <2>4 DEF BalanceIsPrefixSum
  <2>6. ASSUME NEW i \in k + 1 .. Len(entries) PROVE Counted(entries[i]) = 0
    <3>1. i \in 1 .. Len(entries) /\ ~(i <= k)
      BY <1>1, <2>4
    <3>2. ~Live(i)
      BY <1>1, <2>2, <3>1
    <3> QED
      BY <1>1, <3>1, <3>2
  <2> HIDE DEF k, live
  <2>7. SumUpTo(entries, Len(entries)) = SumUpTo(entries, k)
    <3>1. k \in 0 .. Len(entries)
      BY <1>1, <2>4
    <3> QED
      BY <1>1, <2>6, <3>1, SumStays
  <2> QED
    BY <2>3, <2>5, <2>7
<1> QED
  BY <1>2, <1>3

\* The rows stays and one clerk's call moves: it takes the lock only from nobody, and a
\* posting takes the sum with it.
LEMMA CallBalance ==
    ASSUME BalanceInv, entries' = entries, NEW c \in Clerks,
           \A b \in Clerks \ {c} : tx'[b] = tx[b],
           InTransaction(c)' /\ tx'[c].step = "locked" =>
              LedgerFree /\ (~Corrects(c)' => tx'[c].prev = SumUpTo(entries, Len(entries)))
    PROVE  BalanceInv'
<1>1. \A b \in Clerks \ {c} : /\ InTransaction(b)' <=> InTransaction(b)
                              /\ Corrects(b)' <=> Corrects(b)
                              /\ tx'[b] = tx[b]
  BY DEF InTransaction, Corrects
<1>2. BalanceIsPrefixSum'
  BY DEF BalanceInv, BalanceIsPrefixSum, Live
<1>3. OneHolder'
  BY <1>1 DEF BalanceInv, OneHolder, LedgerFree
<1>4. SumInHand'
  BY <1>1 DEF BalanceInv, SumInHand
<1> QED
  BY <1>2, <1>3, <1>4 DEF BalanceInv

\* A call that ends or does not hold the lock takes nothing from the balances.
LEMMA UnlockedBalance ==
    ASSUME Shape, BalanceInv, entries' = entries, NEW c \in Clerks, NEW t,
           tx' = [tx EXCEPT ![c] = t], t # Idle => t.op = "close" \/ t.step # "locked"
    PROVE  BalanceInv'
<1>1. tx'[c] = t /\ \A b \in Clerks \ {c} : tx'[b] = tx[b]
  BY DEF Shape
<1>2. ~(InTransaction(c)' /\ tx'[c].step = "locked")
  BY <1>1 DEF InTransaction
<1> QED
  BY <1>1, <1>2, CallBalance

LEMMA PostBalance ==
    ASSUME Shape, BalanceInv, NEW c \in Clerks, CommitPost(c)
    PROVE  BalanceInv'
<1> DEFINE n == Len(entries)
           x == [day |-> tx[c].day, figure |-> tx[c].figure,
                 balance |-> tx[c].prev + tx[c].figure, deleted |-> "no"]
<1>1. /\ tx[c] # Idle /\ tx[c].op \in {"post", "approve"} /\ tx[c].step = "locked"
      /\ entries' = Append(entries, x) /\ tx' = [tx EXCEPT ![c] = Idle]
  BY DEF CommitPost
<1>2. PICK B : entries \in Seq(Rows(B))
  BY DEF Shape
<1>3. InTransaction(c) /\ ~Corrects(c)
  BY <1>1 DEF InTransaction, Corrects
<1>4. tx[c].prev = SumUpTo(entries, n)
  BY <1>1, <1>3 DEF BalanceInv, SumInHand
<1>5. x.balance = tx[c].prev + x.figure /\ Counted(x) = x.figure
  BY DEF Counted
<1> HIDE DEF x
<1>6. /\ n \in Nat /\ Len(entries') = n + 1 /\ DOMAIN entries = 1 .. n
      /\ DOMAIN entries' = 1 .. n + 1
      /\ entries'[n + 1] = x /\ \A i \in 1 .. n : entries'[i] = entries[i]
  BY <1>1, <1>2
<1> HIDE DEF n
<1>7. \A i \in 0 .. n : SumUpTo(entries', i) = SumUpTo(entries, i)
  <2>1. Len(entries) = n /\ Len(entries') \in Nat /\ n <= Len(entries')
    BY <1>6 DEF n
  <2>2. \A i \in 1 .. n : Counted(entries'[i]) = Counted(entries[i])
    BY <1>6
  <2> QED
    BY <1>6, <2>1, <2>2, SumsAgree
<1>8. SumUpTo(entries', n + 1) = x.balance
  <2>1. n + 1 \in 1 .. Len(entries') /\ Len(entries') \in Nat /\ (n + 1) - 1 = n /\ n \in 0 .. n
    BY <1>6
  <2>2. SumUpTo(entries', n + 1) = SumUpTo(entries', n) + Counted(entries'[n + 1])
    BY <2>1, RunningUnfolds
  <2>3. SumUpTo(entries', n) = SumUpTo(entries, n)
    BY <1>7, <2>1
  <2>4. SumUpTo(entries', n + 1) = tx[c].prev + x.figure
    BY <1>4, <1>5, <1>6, <2>2, <2>3
  <2> QED
    BY <1>5, <2>4
<1>9. ASSUME NEW i \in DOMAIN entries', Live(i)'
      PROVE  entries'[i].balance = SumUpTo(entries', i)
  <2>1. CASE i = n + 1
    BY <1>6, <1>8, <2>1
  <2>2. CASE i # n + 1
    <3>1. i \in 1 .. n /\ i \in 0 .. n /\ i \in DOMAIN entries
      BY <1>6, <2>2
    <3>2. entries'[i] = entries[i] /\ Live(i)
      BY <1>6, <1>9, <3>1 DEF Live
    <3>3. entries[i].balance = SumUpTo(entries, i)
      BY <3>1, <3>2 DEF BalanceInv, BalanceIsPrefixSum
    <3> QED
      BY <1>7, <3>1, <3>2, <3>3
  <2> QED
    BY <2>1, <2>2
<1>10. BalanceIsPrefixSum'
  BY <1>9 DEF BalanceIsPrefixSum
<1>11. /\ \A b \in Clerks \ {c} : /\ InTransaction(b)' <=> InTransaction(b)
                                  /\ tx'[b] = tx[b]
       /\ ~InTransaction(c)'
  BY <1>1 DEF Shape, InTransaction
<1>12. \A b \in Clerks : ~(InTransaction(b)' /\ tx'[b].step = "locked")
  BY <1>1, <1>3, <1>11 DEF BalanceInv, OneHolder
<1>13. OneHolder' /\ SumInHand'
  BY <1>12 DEF OneHolder, SumInHand
<1> QED
  BY <1>10, <1>13 DEF BalanceInv

\* A correction that moves no figure: every voucher counts what it counted.
LEMMA UnmovedBalance ==
    ASSUME LedgerInv, BalanceInv, NEW c \in Clerks, CommitUnmoved(c)
    PROVE  BalanceInv'
<1>0. Shape
  BY DEF LedgerInv
<1>1. /\ Corrector(c) /\ ~MovesBalance(tx[c]) /\ entries' = Corrected(tx[c])
      /\ tx' = [tx EXCEPT ![c] = Idle]
  BY DEF CommitUnmoved, Corrector, InTransaction, Corrects
<1>2. PICK t \in Correcting : t = tx[c]
  BY <1>0, <1>1, CallType
<1>3. PICK i \in DOMAIN entries : i = t.entry
  BY <1>1, <1>2 DEF LedgerInv, Held, Live
<1>4. PICK B : entries \in Seq(Rows(B))
  BY <1>0 DEF Shape
<1>5. t.op \notin {"delete", "desk"} /\ t.figure = entries[i].figure
  BY <1>1, <1>2, <1>3 DEF MovesBalance
<1> DEFINE x == [entries[i] EXCEPT !.day = t.day, !.figure = t.figure]
<1>6. entries[i] \in Rows(B)
  BY <1>3, <1>4
<1>7. /\ x.figure = entries[i].figure /\ x.deleted = entries[i].deleted
      /\ x.balance = entries[i].balance
  BY <1>5, <1>6 DEF Rows
<1>8. entries' = [entries EXCEPT ![i] = x]
  BY <1>1, <1>2, <1>3, <1>5 DEF Corrected
<1> HIDE DEF x
<1>9. /\ Len(entries) \in Nat /\ Len(entries') = Len(entries)
      /\ DOMAIN entries = 1 .. Len(entries) /\ DOMAIN entries' = DOMAIN entries
      /\ \A j \in DOMAIN entries : /\ entries'[j].figure = entries[j].figure
                                   /\ entries'[j].deleted = entries[j].deleted
                                   /\ entries'[j].balance = entries[j].balance
  <2>1. Len(entries) \in Nat /\ DOMAIN entries = 1 .. Len(entries)
    BY <1>4
  <2>2. DOMAIN entries' = DOMAIN entries /\ Len(entries') = Len(entries)
    BY <1>3, <1>4, <1>8
  <2>3. \A j \in DOMAIN entries : entries'[j] = IF j = i THEN x ELSE entries[j]
    BY <1>3, <1>8
  <2> QED
    BY <1>7, <2>1, <2>2, <2>3
<1>10. \A j \in 0 .. Len(entries) : SumUpTo(entries', j) = SumUpTo(entries, j)
  <2>1. \A j \in 1 .. Len(entries) : Counted(entries'[j]) = Counted(entries[j])
    BY <1>9 DEF Counted
  <2> QED
    BY <1>9, <2>1, SumsAgree
<1>11. BalanceIsPrefixSum'
  <2> SUFFICES ASSUME NEW j \in DOMAIN entries', Live(j)'
               PROVE  entries'[j].balance = SumUpTo(entries', j)
    BY DEF BalanceIsPrefixSum
  <2>1. j \in DOMAIN entries /\ j \in 0 .. Len(entries) /\ Live(j)
    BY <1>9 DEF Live
  <2>2. entries[j].balance = SumUpTo(entries, j)
    BY <2>1 DEF BalanceInv, BalanceIsPrefixSum
  <2> QED
    BY <1>9, <1>10, <2>1, <2>2
<1>12. /\ \A b \in Clerks \ {c} : /\ InTransaction(b)' <=> InTransaction(b)
                                  /\ Corrects(b)' <=> Corrects(b)
                                  /\ tx'[b] = tx[b]
       /\ ~InTransaction(c)'
  BY <1>0, <1>1 DEF Shape, InTransaction, Corrects
<1>13. OneHolder'
  BY <1>12 DEF BalanceInv, OneHolder
<1>14. SumUpTo(entries', Len(entries')) = SumUpTo(entries, Len(entries))
  <2>1. Len(entries) \in 0 .. Len(entries)
    BY <1>9
  <2> QED
    BY <1>9, <1>10, <2>1
<1>15. SumInHand'
  BY <1>12, <1>14 DEF BalanceInv, SumInHand
<1> QED
  BY <1>11, <1>13, <1>15 DEF BalanceInv

\* The recompute writes the sum of the corrected rows into every voucher that counts,
\* while no posting holds the lock.
LEMMA RebalanceBalance ==
    ASSUME LedgerInv, BalanceInv, NEW c \in Clerks, Rebalance(c)
    PROVE  BalanceInv'
<1>0. Shape
  BY DEF LedgerInv
<1> DEFINE rows == Corrected(tx[c])
<1>1. /\ Corrector(c) /\ tx[c].step = "locked" /\ entries' = Rebalanced(rows)
      /\ tx' = [tx EXCEPT ![c] = Idle]
  BY DEF Rebalance, Corrector, InTransaction, Corrects
<1>2. PICK B : entries \in Seq(Rows(B))
  BY <1>0 DEF Shape
<1>3. Live(tx[c].entry)
  BY <1>1 DEF LedgerInv, Held
<1>4. rows \in Seq(Rows(B))
  BY <1>0, <1>1, <1>2, <1>3, CorrectedRows
<1> HIDE DEF rows
<1>5. DOMAIN entries' = DOMAIN rows /\ Len(entries') = Len(rows) /\ Len(rows) \in Nat
      /\ DOMAIN rows = 1 .. Len(rows)
  <2>1. Len(rows) \in Nat /\ DOMAIN rows = 1 .. Len(rows)
    BY <1>4
  <2>2. DOMAIN entries' = DOMAIN rows
    BY <1>1 DEF Rebalanced
  <2>3. Len(entries') = Len(rows)
    BY <1>1, <1>4, RebalancedRows
  <2> QED
    BY <2>1, <2>2, <2>3
<1>6. ASSUME NEW j \in DOMAIN rows
      PROVE  /\ entries'[j].figure = rows[j].figure /\ entries'[j].deleted = rows[j].deleted
             /\ rows[j].deleted = "no" => entries'[j].balance = SumUpTo(rows, j)
  <2> DEFINE s == SumUpTo(rows, j)
  <2>1. entries'[j] = IF rows[j].deleted = "no" THEN [rows[j] EXCEPT !.balance = s] ELSE rows[j]
    BY <1>1 DEF Rebalanced
  <2>2. rows[j] \in Rows(B)
    BY <1>4
  <2> HIDE DEF s
  <2>3. [rows[j] EXCEPT !.balance = s].balance = s
    BY <2>2 DEF Rows
  <2>4. /\ [rows[j] EXCEPT !.balance = s].figure = rows[j].figure
        /\ [rows[j] EXCEPT !.balance = s].deleted = rows[j].deleted
    BY <2>2 DEF Rows
  <2>5. /\ entries'[j].figure = rows[j].figure /\ entries'[j].deleted = rows[j].deleted
        /\ rows[j].deleted = "no" => entries'[j].balance = s
    BY <2>1, <2>3, <2>4
  <2> QED
    BY <2>5 DEF s
<1>7. \A j \in 0 .. Len(rows) : SumUpTo(entries', j) = SumUpTo(rows, j)
  <2>1. \A j \in 1 .. Len(rows) : Counted(entries'[j]) = Counted(rows[j])
    BY <1>5, <1>6 DEF Counted
  <2> QED
    BY <1>5, <2>1, SumsAgree
<1>8. BalanceIsPrefixSum'
  <2> SUFFICES ASSUME NEW j \in DOMAIN entries', Live(j)'
               PROVE  entries'[j].balance = SumUpTo(entries', j)
    BY DEF BalanceIsPrefixSum
  <2>1. j \in DOMAIN rows /\ j \in 0 .. Len(rows) /\ entries'[j].deleted = "no"
    BY <1>5 DEF Live
  <2> QED
    BY <1>6, <1>7, <2>1
<1>9. /\ \A b \in Clerks \ {c} : /\ InTransaction(b)' <=> InTransaction(b)
                                 /\ tx'[b] = tx[b]
      /\ ~InTransaction(c)'
  BY <1>0, <1>1 DEF Shape, InTransaction
<1>10. InTransaction(c) /\ \A b \in Clerks : ~(InTransaction(b)' /\ tx'[b].step = "locked")
  BY <1>1, <1>9 DEF BalanceInv, OneHolder, Corrector
<1>11. OneHolder' /\ SumInHand'
  BY <1>10 DEF OneHolder, SumInHand
<1> QED
  BY <1>8, <1>11 DEF BalanceInv

\* A call begins, goes on without the lock, or ends.
LEMMA OutsideBalance ==
    ASSUME LedgerInv, BalanceInv, NEW c \in Clerks,
           \/ \E op \in {"post", "approve"}, d \in Days, n \in Figures : BeginPost(c, op, d, n)
           \/ \E i \in DOMAIN entries, d \in Days, n \in Figures, f \in Forms :
                Look(c, i, d, n, f[1], f[2])
           \/ BeginEdit(c)
           \/ \E i \in DOMAIN entries, n \in Figures : BeginAdjust(c, i, n)
           \/ \E i \in DOMAIN entries : BeginDelete(c, i)
           \/ \E i \in DOMAIN entries : BeginDeskDelete(c, i)
           \/ Abort(c)
           \/ \E d \in Days : ReadDay(c, d)
           \/ CountPending(c)
           \/ InsertClosing(c)
    PROVE  BalanceInv'
<1>0. Shape
  BY DEF LedgerInv
<1>1. ASSUME NEW op \in {"post", "approve"}, NEW d \in Days, NEW n \in Figures, BeginPost(c, op, d, n)
      PROVE  BalanceInv'
  <2> DEFINE t == [op |-> op, step |-> "waiting", day |-> d, figure |-> n, prev |-> 0]
  <2>1. t.step = "waiting"
    OBVIOUS
  <2> HIDE DEF t
  <2> QED
    BY <1>0, <1>1, <2>1, UnlockedBalance DEF BeginPost, t
<1>2. ASSUME NEW op, NEW step \in {"looking", "waiting"}, NEW i, NEW d, NEW n,
             NEW s, NEW e, NEW v,
             tx' = [tx EXCEPT ![c] = Correction(op, step, i, d, n, s, e, v)], entries' = entries
      PROVE  BalanceInv'
  <2>1. Correction(op, step, i, d, n, s, e, v).step # "locked"
    BY DEF Correction
  <2> QED
    BY <1>0, <1>2, <2>1, UnlockedBalance
<1>3. CASE \E i \in DOMAIN entries, d \in Days, n \in Figures, f \in Forms :
             Look(c, i, d, n, f[1], f[2])
  <2>1. PICK i, d, n, s, e : Look(c, i, d, n, s, e)
    BY <1>3
  <2>2. tx' = [tx EXCEPT ![c] = Correction("edit", "looking", i, d, n, s, e, <<d, n>>)] /\ entries' = entries
    BY <2>1 DEF Look
  <2> QED
    BY <1>2, <2>2
<1>4. CASE \E i \in DOMAIN entries, n \in Figures : BeginAdjust(c, i, n)
  <2>1. PICK i \in DOMAIN entries, n \in Figures : BeginAdjust(c, i, n)
    BY <1>4
  <2>2. /\ tx' = [tx EXCEPT ![c] = Correction("adjust", "waiting", i, entries[i].day, n,
                                             {"figure"}, {}, Says(i))]
        /\ entries' = entries
    BY <2>1 DEF BeginAdjust
  <2> QED
    BY <1>2, <2>2
<1>5. CASE \E i \in DOMAIN entries : BeginDelete(c, i)
  <2>1. PICK i \in DOMAIN entries : BeginDelete(c, i)
    BY <1>5
  <2>2. /\ tx' = [tx EXCEPT ![c] = Correction("delete", "waiting", i, entries[i].day, entries[i].figure,
                                             {}, {}, Says(i))]
        /\ entries' = entries
    BY <2>1 DEF BeginDelete
  <2> QED
    BY <1>2, <2>2
<1>6. CASE \E i \in DOMAIN entries : BeginDeskDelete(c, i)
  <2>1. PICK i \in DOMAIN entries : BeginDeskDelete(c, i)
    BY <1>6
  <2>2. /\ tx' = [tx EXCEPT ![c] = Correction("desk", "waiting", i, entries[i].day, entries[i].figure,
                                             {}, {}, Says(i))]
        /\ entries' = entries
    BY <2>1 DEF BeginDeskDelete
  <2> QED
    BY <1>2, <2>2
<1>7. CASE BeginEdit(c)
  <2> DEFINE t == OnRow(tx[c])
  <2>1. tx[c] \in Correcting
    BY <1>0, <1>7, CallType DEF BeginEdit, Corrects
  <2>2. t.step = "waiting"
    BY <2>1 DEF Correcting, OnRow
  <2>3. tx' = [tx EXCEPT ![c] = t] /\ entries' = entries
    BY <1>7 DEF BeginEdit
  <2> HIDE DEF t
  <2> QED
    BY <1>0, <2>2, <2>3, UnlockedBalance
<1>8. CASE Abort(c) \/ InsertClosing(c)
  <2>1. tx' = [tx EXCEPT ![c] = Idle] /\ entries' = entries
    BY <1>8 DEF Abort, InsertClosing
  <2> QED
    BY <1>0, <2>1, UnlockedBalance
<1>9. ASSUME NEW d \in Days, ReadDay(c, d) PROVE BalanceInv'
  <2> DEFINE net == Net(d)
             t == [op |-> "close", step |-> "read", day |-> d, net |-> net]
  <2>1. tx' = [tx EXCEPT ![c] = t] /\ entries' = entries
    BY <1>9 DEF ReadDay
  <2> HIDE DEF net
  <2>2. t.op = "close"
    OBVIOUS
  <2> HIDE DEF t
  <2> QED
    BY <1>0, <2>1, <2>2, UnlockedBalance
<1>10. CASE CountPending(c)
  <2> DEFINE t == [tx[c] EXCEPT !.step = "counted"]
  <2>1. PICK B : tx[c] \in Calls(B)
    BY <1>0 DEF Shape
  <2>2. tx[c] \in [op: {"close"}, step: {"read", "counted"}, day: Days, net: B]
    BY <1>10, <2>1 DEF CountPending, Calls, Correcting
  <2>3. t.op = "close"
    BY <2>2
  <2>4. tx' = [tx EXCEPT ![c] = t] /\ entries' = entries
    BY <1>10 DEF CountPending
  <2> HIDE DEF t
  <2> QED
    BY <1>0, <2>3, <2>4, UnlockedBalance
<1> QED
  BY <1>1, <1>3, <1>4, <1>5, <1>6, <1>7, <1>8, <1>9, <1>10

\* The two who take the lock: a posting reads the last balance under it.
LEMMA LockBalance ==
    ASSUME LedgerInv, BalanceInv, NEW c \in Clerks, LockToPost(c) \/ LockToRebalance(c)
    PROVE  BalanceInv'
<1>0. Shape /\ \A b \in Clerks \ {c} : tx'[b] = tx[b]
  BY DEF LedgerInv, Shape, LockToPost, LockToRebalance
<1>1. LedgerFree /\ entries' = entries
  BY DEF LockToPost, LockToRebalance
<1>2. CASE LockToPost(c)
  <2> DEFINE last == LastBalance
             t == [tx[c] EXCEPT !.step = "locked", !.prev = last]
  <2>1. last = SumUpTo(entries, Len(entries))
    BY <1>0, LastIsSum DEF BalanceInv
  <2>2. PICK B : tx[c] \in Calls(B)
    BY <1>0 DEF Shape
  <2>3. tx[c] \in [op: {"post", "approve"}, step: {"waiting", "locked"}, day: Days,
                   figure: Figures, prev: B]
    BY <1>2, <2>2 DEF LockToPost, Calls, Correcting
  <2> HIDE DEF last
  <2>4. t.prev = last
    BY <2>3
  <2>5. tx'[c] = t
    BY <1>0, <1>2 DEF Shape, LockToPost, last
  <2> HIDE DEF t
  <2> QED
    BY <1>0, <1>1, <2>1, <2>4, <2>5, CallBalance
<1>3. CASE LockToRebalance(c)
  <2> DEFINE t == [tx[c] EXCEPT !.step = "locked"]
  <2>1. tx[c] \in Correcting /\ Corrects(c)
    BY <1>0, <1>3, CallType DEF LockToRebalance
  <2>2. t.op = tx[c].op
    BY <2>1 DEF Correcting
  <2>3. tx'[c] = t
    BY <1>0, <1>3 DEF Shape, LockToRebalance
  <2>4. Corrects(c)'
    BY <2>1, <2>2, <2>3 DEF Corrects
  <2> QED
    BY <1>0, <1>1, <2>4, CallBalance
<1> QED
  BY <1>2, <1>3

LEMMA BalanceStep ==
    ASSUME LedgerInv, BalanceInv, [Next]_vars
    PROVE  BalanceInv'
<1>1. CASE Documents \/ UNCHANGED vars
  <2>1. UNCHANGED <<entries, tx>>
    BY <1>1 DEF Documents, Submit, Reject, vars
  <2> QED
    BY <2>1 DEF BalanceInv, BalanceIsPrefixSum, OneHolder, SumInHand, InTransaction, Corrects, Live
<1>2. CASE Vouchers
  BY <1>2, OutsideBalance, LockBalance, PostBalance DEF Vouchers, LedgerInv
<1>3. CASE Corrections
  BY <1>3, OutsideBalance, LockBalance, UnmovedBalance, RebalanceBalance DEF Corrections
<1>4. CASE Closings
  BY <1>4, OutsideBalance DEF Closings
<1> QED
  BY <1>1, <1>2, <1>3, <1>4 DEF Next

LEMMA BalanceInit == Init => BalanceInv
<1> SUFFICES ASSUME Init PROVE BalanceInv
  OBVIOUS
<1>1. \A i \in DOMAIN entries : FALSE
  BY DEF Init
<1>2. \A c \in Clerks : ~InTransaction(c)
  BY DEF Init, InTransaction
<1> QED
  BY <1>1, <1>2 DEF BalanceInv, BalanceIsPrefixSum, OneHolder, SumInHand

\* The stored running balance of a voucher is the sum of the rows up to it: the advisory
\* lock keeps the balance a posting reads true until it is inserted
\* (post_finance_ledger_entry), and every correction that moves a figure rewrites the
\* balances behind it under that lock (recompute_finance_ledger_balances).
THEOREM BalancesCorrect == Spec => []BalanceIsPrefixSum
<1>1. LedgerInv /\ BalanceInv /\ [Next]_vars => BalanceInv'
  BY BalanceStep
<1>2. BalanceInv => BalanceIsPrefixSum
  BY DEF BalanceInv
<1> QED
  BY BalanceInit, LedgerHolds, <1>1, <1>2, PTL DEF Spec

-----------------------------------------------------------------------------
(* The receipts of a cash deposit                                           *)

\* The receipt a sync claims exists and is booked under the slice's head.
LEMMA ClaimIsThere ==
    ASSUME NEW B, \A v \in B : v.no \in Nat, NEW s, Claimants(B, s) # {}
    PROVE  Claim(B, s) \in B /\ Claim(B, s).head = s.head
<1> DEFINE T == {v.no : v \in Claimants(B, s)}
<1>1. T \subseteq Nat /\ T # {} BY DEF Claimants
<1>2. PICK x \in T : \A y \in T : x <= y BY <1>1, Smallest
<1>3. PICK v \in Claimants(B, s) : v.no = x OBVIOUS
<1>4. \A w \in Claimants(B, s) : v.no <= w.no BY <1>2, <1>3
<1>5. Claim(B, s) \in Claimants(B, s) BY <1>4 DEF Claim
<1> QED BY <1>5 DEF Claimants

\* The first number of a deposit's receipts.
LEMMA FirstNoIsFirst ==
    ASSUME NEW B, \A v \in B : v.no \in Nat, B # {}
    PROVE  (\E v \in B : v.no = FirstNo(B)) /\ (\A v \in B : FirstNo(B) <= v.no)
<1> DEFINE T == {v.no : v \in B}
<1>1. T \subseteq Nat /\ T # {} OBVIOUS
<1>2. PICK x \in T : \A y \in T : x <= y BY <1>1, Smallest
<1>3. \A v \in B : x <= v.no BY <1>2
<1>4. FirstNo(B) \in T /\ \A v \in B : FirstNo(B) <= v.no BY <1>3 DEF FirstNo
<1> QED BY <1>4

-----------------------------------------------------------------------------
(* Slices                                                                   *)

Slice == [head : {"share", "fuel"}, amount : 1 .. 2 * MaxAmount,
          method : SUBSET Accounts, account : Accounts]

\* The slices of a deposit that is worth something: at least one, at most one to a head.
LEMMA SlicesOfFigures ==
    ASSUME DepositsAssumption, NEW f \in Payments
    PROVE  /\ Slices(f) # {}
           /\ Slices(f) \subseteq Slice
           /\ \A s, t \in Slices(f) : s.head = t.head => s = t
<1> DEFINE paid == {k \in Accounts : f[k] > 0}
           a == [head |-> "share", amount |-> f["cash"] + f["bank"], method |-> paid,
                 account |-> IF f["cash"] >= f["bank"] THEN "cash" ELSE "bank"]
           b == [head |-> "fuel", amount |-> f["fuel"], method |-> {"cash"}, account |-> "cash"]
<1>1. /\ f["cash"] \in 0 .. MaxAmount /\ f["bank"] \in 0 .. MaxAmount /\ f["fuel"] \in 0 .. MaxAmount
      /\ f["cash"] > 0 \/ f["bank"] > 0 \/ f["fuel"] > 0
      /\ MaxAmount \in Nat
      BY DEF Payments, Amounts, Fields, DepositsAssumption
<1>2. \A s : s \in Slices(f) <=> (s = a /\ a.amount > 0) \/ (s = b /\ b.amount > 0)
      BY DEF Slices
<1>3. Slices(f) # {}
  <2>1. a.amount > 0 \/ b.amount > 0 BY <1>1
  <2>2. a \in Slices(f) \/ b \in Slices(f) BY <1>2, <2>1
  <2> QED BY <2>2
<1>4. a.amount > 0 => a \in Slice BY <1>1 DEF Slice, Accounts
<1>5. b.amount > 0 => b \in Slice BY <1>1 DEF Slice, Accounts
<1>6. Slices(f) \subseteq Slice
  <2> HIDE DEF a, b
  <2> QED BY <1>2, <1>4, <1>5
<1>7. \A s, t \in Slices(f) : s.head = t.head => s = t BY <1>2
<1> QED BY <1>3, <1>6, <1>7

\* How many of them there are.
LEMMA SlicesCounted ==
    ASSUME DepositsAssumption, NEW f \in Payments, NEW S, S \subseteq Slices(f)
    PROVE  /\ Cardinality(S) \in Nat
           /\ \A s \in S : Cardinality(S) >= 1
           /\ \A s, t \in S : s # t => Cardinality(S) >= 2
<1>1. \A s \in S : s.head \in {"share", "fuel"} BY SlicesOfFigures DEF Slice
<1>2. \A s, t \in S : s.head = t.head => s = t BY SlicesOfFigures
<1>3. IsFiniteSet(S)
  <2>1. CASE S = {} BY <2>1, FS_EmptySet
  <2>2. CASE \E s \in S : TRUE
    <3>1. PICK s \in S : TRUE BY <2>2
    <3>2. CASE S = {s} BY <3>2, FS_Singleton
    <3>3. CASE \E t \in S : t # s
      <4>1. PICK t \in S : t # s BY <3>3
      <4>2. S = {s} \cup {t}
        <5>1. \A u \in S : u = s \/ u = t BY <1>1, <1>2, <4>1
        <5> QED BY <5>1
      <4>3. IsFiniteSet({s}) BY FS_Singleton
      <4> QED BY <4>2, <4>3, FS_AddElement
    <3> QED BY <3>2, <3>3
  <2> QED BY <2>1, <2>2
<1>4. Cardinality(S) \in Nat BY <1>3, FS_CardinalityType
<1>5. ASSUME NEW s \in S PROVE Cardinality(S) >= 1
  <2>1. IsFiniteSet({s}) /\ Cardinality({s}) = 1 BY FS_Singleton
  <2>2. Cardinality({s}) <= Cardinality(S) BY <1>3, FS_Subset
  <2> QED BY <1>4, <2>1, <2>2
<1>6. ASSUME NEW s \in S, NEW t \in S, s # t PROVE Cardinality(S) >= 2
  <2>1. IsFiniteSet({s}) /\ Cardinality({s}) = 1 BY FS_Singleton
  <2>2. Cardinality({s} \cup {t}) = 2 BY <1>6, <2>1, FS_AddElement
  <2>3. Cardinality({s} \cup {t}) <= Cardinality(S) BY <1>3, FS_Subset
  <2> QED BY <1>4, <2>2, <2>3
<1> QED BY <1>4, <1>5, <1>6

-----------------------------------------------------------------------------
(* The sync                                                                 *)

OneHead(B) == \A v, w \in B : v.head = w.head => v = w

NumberedBelow(B, n) ==
    /\ \A v \in B : v.no < n
    /\ \A v, w \in B : v.no = w.no => v = w

\* New receipts say their slices, take the next numbers and are dated as asked.
LEMMA PostBooks ==
    ASSUME DepositsAssumption, NEW f \in Payments, NEW S, S \subseteq Slices(f), NEW n \in Dates,
           next \in 1 .. MaxVouchers + 1, next + Cardinality(S) <= MaxVouchers + 1
    PROVE  /\ Post(S, n) \subseteq Voucher
           /\ \A w \in Post(S, n) : Shown(w) \in S /\ w.day = n
           /\ \A s \in S : \E w \in Post(S, n) : Shown(w) = s
           /\ \A w \in Post(S, n) : w.no >= next /\ w.no < next + Cardinality(S)
           /\ \A v, w \in Post(S, n) : v.no = w.no => v = w
<1> DEFINE no(s) == IF s.head = "fuel" /\ (\E t \in S : t.head = "share") THEN next + 1 ELSE next
           p(s) == [no |-> no(s), head |-> s.head, amount |-> s.amount, account |-> s.account,
                    method |-> s.method, day |-> n]
<1>1. Post(S, n) = {p(s) : s \in S} BY DEF Post
<1>2. S \subseteq Slice /\ \A s, t \in S : s.head = t.head => s = t BY SlicesOfFigures
<1>3. /\ Cardinality(S) \in Nat
      /\ \A s \in S : Cardinality(S) >= 1
      /\ \A s, t \in S : s # t => Cardinality(S) >= 2
      BY SlicesCounted
<1>4. next \in Nat /\ MaxVouchers \in Nat BY DEF DepositsAssumption
<1>5. ASSUME NEW s \in S
      PROVE  no(s) \in Nat /\ no(s) >= next /\ no(s) < next + Cardinality(S)
  <2>1. CASE s.head = "fuel" /\ \E t \in S : t.head = "share"
    <3>1. PICK t \in S : t.head = "share" BY <2>1
    <3>2. s # t BY <2>1, <3>1
    <3>3. Cardinality(S) >= 2 BY <1>3, <3>2
    <3>4. no(s) = next + 1 BY <2>1
    <3> QED BY <1>3, <1>4, <3>3, <3>4
  <2>2. CASE ~ (s.head = "fuel" /\ \E t \in S : t.head = "share")
    <3>1. no(s) = next BY <2>2
    <3>2. Cardinality(S) >= 1 BY <1>3
    <3> QED BY <1>3, <1>4, <3>1, <3>2
  <2> QED BY <2>1, <2>2
<1>6. ASSUME NEW s \in S, NEW t \in S, no(s) = no(t) PROVE s = t
  <2>1. s.head \in {"share", "fuel"} /\ t.head \in {"share", "fuel"} BY <1>2 DEF Slice
  <2>2. ASSUME NEW u \in S, NEW w \in S, u.head = "share", w.head = "fuel" PROVE no(u) # no(w)
    <3>1. no(u) = next BY <2>2
    <3>2. no(w) = next + 1 BY <2>2
    <3> QED BY <1>4, <3>1, <3>2
  <2>3. s.head = t.head BY <1>6, <2>1, <2>2
  <2> QED BY <1>2, <2>3
<1> HIDE DEF no
<1>7. ASSUME NEW s \in S PROVE p(s) \in Voucher /\ Shown(p(s)) = s
  <2>1. s \in Slice BY <1>2
  <2>2. no(s) \in 1 .. MaxVouchers BY <1>3, <1>4, <1>5
  <2>3. Shown(p(s)) = s BY <2>1 DEF Shown, Slice
  <2>4. p(s) \in Voucher BY <2>1, <2>2 DEF Voucher, Slice, Heads
  <2> QED BY <2>3, <2>4
<1>8. ASSUME NEW w \in Post(S, n)
      PROVE  w \in Voucher /\ Shown(w) \in S /\ w.day = n /\ w.no >= next /\ w.no < next + Cardinality(S)
  <2>1. PICK s \in S : w = p(s) BY <1>1
  <2>2. w.no = no(s) /\ w.day = n BY <2>1
  <2> HIDE DEF p
  <2> QED BY <1>5, <1>7, <2>1, <2>2
<1>9. ASSUME NEW v \in Post(S, n), NEW w \in Post(S, n), v.no = w.no PROVE v = w
  <2>1. PICK s \in S : v = p(s) BY <1>1
  <2>2. PICK t \in S : w = p(t) BY <1>1
  <2>3. no(s) = no(t) BY <1>9, <2>1, <2>2
  <2> QED BY <1>6, <2>1, <2>2, <2>3
<1>10. ASSUME NEW s \in S PROVE \E w \in Post(S, n) : Shown(w) = s
  <2>1. p(s) \in Post(S, n) BY <1>1
  <2> QED BY <1>7, <2>1
<1> QED BY <1>8, <1>9, <1>10

\* A receipt corrected to a slice keeps its number and its day and says the slice.
LEMMA CorrectedSays ==
    ASSUME NEW v \in Voucher, NEW s \in Slice, v.head = s.head
    PROVE  /\ BroughtInLine(v, s) \in Voucher
           /\ BroughtInLine(v, s).no = v.no /\ BroughtInLine(v, s).day = v.day
           /\ Shown(BroughtInLine(v, s)) = s
           /\ Matches(v, s) => BroughtInLine(v, s) = v
<1> DEFINE c == [no |-> v.no, head |-> s.head, amount |-> s.amount, account |-> s.account,
                 method |-> s.method, day |-> v.day]
<1>1. BroughtInLine(v, s) = c
  <2>1. v = [no |-> v.no, head |-> v.head, amount |-> v.amount, account |-> v.account,
             method |-> v.method, day |-> v.day]
        BY DEF Voucher
  <2> DEFINE x == [v EXCEPT !.amount = s.amount]
             y == [x EXCEPT !.account = s.account]
             z == [y EXCEPT !.method = s.method]
  <2>2. x = [no |-> v.no, head |-> v.head, amount |-> s.amount, account |-> v.account,
             method |-> v.method, day |-> v.day]
        BY <2>1
  <2> HIDE DEF x
  <2>3. y = [no |-> v.no, head |-> v.head, amount |-> s.amount, account |-> s.account,
             method |-> v.method, day |-> v.day]
        BY <2>2
  <2> HIDE DEF y
  <2>4. z = c BY <2>3
  <2> QED BY <2>4 DEF BroughtInLine, x, y
<1>2. c \in Voucher BY DEF Voucher, Slice, Heads
<1>3. Shown(c) = s BY DEF Shown, Slice
<1>4. Matches(v, s) => c = v BY DEF Matches, Voucher
<1> QED BY <1>1, <1>2, <1>3, <1>4

\* What sync_cash_transfer_entries makes of receipts B.
LEMMA SyncedBooks ==
    ASSUME DepositsAssumption, NEW f \in Payments, NEW B, B \subseteq Voucher, NEW n \in Dates,
           next \in 1 .. MaxVouchers + 1, NumberedBelow(B, next),
           next + Cardinality(Missing(B, f)) <= MaxVouchers + 1,
           \A s \in Kept(B, f) : Matches(Claim(B, s), s) \/ Claim(B, s).day \notin closed,
           Missing(B, f) # {} => n \notin closed
    PROVE  /\ Synced(B, f, n) \subseteq Voucher
           /\ {Shown(w) : w \in Synced(B, f, n)} = Slices(f)
           /\ OneHead(Synced(B, f, n))
           /\ NumberedBelow(Synced(B, f, n), next + Cardinality(Missing(B, f)))
           /\ \A w \in Synced(B, f, n) : w.day \in closed => w \in B
           /\ \A v \in B, w \in Synced(B, f, n) : v.no = w.no /\ v.day \in closed => v = w
<1> DEFINE M == Missing(B, f)
           S == Synced(B, f, n)
           c(s) == BroughtInLine(Claim(B, s), s)
<1>1. M \subseteq Slices(f) /\ Kept(B, f) \subseteq Slices(f) /\ Slices(f) = Kept(B, f) \cup M
      BY DEF Missing, Kept
<1>2. Slices(f) \subseteq Slice /\ \A s, t \in Slices(f) : s.head = t.head => s = t
      BY SlicesOfFigures
<1>3. \A v \in B : v.no \in Nat /\ v.no \in 1 .. MaxVouchers BY DEF Voucher
<1>4. ASSUME NEW s \in Kept(B, f)
      PROVE  /\ Claim(B, s) \in B /\ c(s) \in Voucher /\ Shown(c(s)) = s
             /\ c(s).no = Claim(B, s).no /\ c(s).day = Claim(B, s).day
             /\ c(s).day \in closed => c(s) = Claim(B, s)
  <2>1. Claim(B, s) \in B /\ Claim(B, s).head = s.head BY <1>3, ClaimIsThere DEF Kept
  <2>2. Claim(B, s) \in Voucher /\ s \in Slice BY <1>1, <1>2, <2>1
  <2>3. /\ c(s) \in Voucher /\ c(s).no = Claim(B, s).no /\ c(s).day = Claim(B, s).day
        /\ Shown(c(s)) = s /\ (Matches(Claim(B, s), s) => c(s) = Claim(B, s))
        BY <2>1, <2>2, CorrectedSays
  <2> QED BY <2>1, <2>3
<1>5. /\ Post(M, n) \subseteq Voucher
      /\ \A w \in Post(M, n) : Shown(w) \in M /\ w.day = n
      /\ \A s \in M : \E w \in Post(M, n) : Shown(w) = s
      /\ \A w \in Post(M, n) : w.no >= next /\ w.no < next + Cardinality(M)
      /\ \A v, w \in Post(M, n) : v.no = w.no => v = w
      BY <1>1, PostBooks
<1>6. /\ \A w \in S : w \in Post(M, n) \/ \E s \in Kept(B, f) : w = c(s)
      /\ Post(M, n) \subseteq S
      /\ \A s \in Kept(B, f) : c(s) \in S
      BY DEF Synced
<1>7. Cardinality(M) \in Nat BY <1>1, SlicesCounted
<1>8. next \in Nat BY DEF DepositsAssumption
<1>9. /\ \A v \in B : v.no < next
      /\ \A v, w \in B : v.no = w.no => v = w
      BY DEF NumberedBelow
<1> HIDE DEF M, S, c
<1>10. ASSUME NEW w \in S PROVE w \in Voucher /\ Shown(w) \in Slices(f)
  <2>1. CASE w \in Post(M, n) BY <1>1, <1>5, <2>1
  <2>2. CASE \E s \in Kept(B, f) : w = c(s) BY <1>1, <1>4, <2>2
  <2> QED BY <1>6, <2>1, <2>2
<1>11. ASSUME NEW s \in Slices(f) PROVE \E w \in S : Shown(w) = s
  <2>1. CASE s \in M BY <1>5, <1>6, <2>1
  <2>2. CASE s \in Kept(B, f) BY <1>4, <1>6, <2>2
  <2> QED BY <1>1, <2>1, <2>2
<1>12. {Shown(w) : w \in S} = Slices(f) BY <1>10, <1>11
<1>13. ASSUME NEW w \in S PROVE w.no < next + Cardinality(M)
  <2>1. CASE w \in Post(M, n) BY <1>5, <2>1
  <2>2. CASE \E s \in Kept(B, f) : w = c(s)
    <3>1. PICK s \in Kept(B, f) : w = c(s) BY <2>2
    <3>2. w.no = Claim(B, s).no /\ Claim(B, s) \in B BY <1>4, <3>1
    <3>3. w.no < next /\ w.no \in Nat BY <1>3, <1>9, <3>2
    <3> QED BY <1>7, <1>8, <3>3
  <2> QED BY <1>6, <2>1, <2>2
<1>14. \A v \in S : v.head = Shown(v).head BY DEF Shown
<1>15. ASSUME NEW s \in Kept(B, f), NEW w \in Post(M, n) PROVE c(s).no < w.no /\ c(s).head # w.head
  <2>1. c(s).no = Claim(B, s).no /\ Claim(B, s) \in B /\ Shown(c(s)) = s BY <1>4
  <2>2. c(s).no < next /\ c(s).no \in Nat BY <1>3, <1>9, <2>1
  <2>3. w \in Voucher /\ w.no >= next /\ Shown(w) \in M BY <1>5
  <2>4. w.no \in Int BY <2>3 DEF Voucher
  <2>5. s # Shown(w) BY <2>3 DEF M, Missing, Kept
  <2>6. s.head # Shown(w).head BY <1>1, <1>2, <2>3, <2>5
  <2>7. c(s).head # w.head BY <1>6, <1>14, <2>1, <2>6
  <2> QED BY <1>8, <2>2, <2>3, <2>4, <2>7
<1>16. ASSUME NEW v \in S, NEW w \in S, v.no = w.no \/ v.head = w.head PROVE v = w
  <2>1. CASE v \in Post(M, n) /\ w \in Post(M, n)
    <3>1. CASE v.no = w.no BY <1>5, <2>1, <3>1
    <3>2. CASE v.head = w.head
      <4>1. Shown(v) = Shown(w) BY <1>2, <1>10, <1>14, <3>2
      <4>2. v.no = w.no
        <5>1. v.head = w.head BY <3>2
        <5> QED BY <2>1, <5>1 DEF Post
      <4> QED BY <1>5, <2>1, <4>2
    <3> QED BY <1>16, <3>1, <3>2
  <2>2. CASE v \notin Post(M, n) /\ w \notin Post(M, n)
    <3>1. PICK s \in Kept(B, f) : v = c(s) BY <1>6, <2>2
    <3>2. PICK t \in Kept(B, f) : w = c(t) BY <1>6, <2>2
    <3>3. Shown(v) = s /\ Shown(w) = t BY <1>4, <3>1, <3>2
    <3>4. CASE v.head = w.head
      <4>1. s = t BY <1>1, <1>2, <1>14, <3>3, <3>4
      <4> QED BY <3>1, <3>2, <4>1
    <3>5. CASE v.no = w.no
      <4>1. Claim(B, s) = Claim(B, t) BY <1>4, <1>9, <3>1, <3>2, <3>5
      <4>2. Claim(B, s).head = s.head /\ Claim(B, t).head = t.head
            BY <1>3, ClaimIsThere DEF Kept
      <4>3. s = t BY <1>1, <1>2, <4>1, <4>2
      <4> QED BY <3>1, <3>2, <4>3
    <3> QED BY <1>16, <3>4, <3>5
  <2>3. CASE v \in Post(M, n) /\ w \notin Post(M, n)
    <3>1. PICK s \in Kept(B, f) : w = c(s) BY <1>6, <2>3
    <3>2. w.no < v.no /\ w.head # v.head BY <1>15, <2>3, <3>1
    <3>3. w.no \in Int /\ v.no \in Int BY <1>10 DEF Voucher
    <3> QED BY <1>16, <3>2, <3>3
  <2>4. CASE v \notin Post(M, n) /\ w \in Post(M, n)
    <3>1. PICK s \in Kept(B, f) : v = c(s) BY <1>6, <2>4
    <3>2. v.no < w.no /\ v.head # w.head BY <1>15, <2>4, <3>1
    <3>3. w.no \in Int /\ v.no \in Int BY <1>10 DEF Voucher
    <3> QED BY <1>16, <3>2, <3>3
  <2> QED BY <2>1, <2>2, <2>3, <2>4
<1>17. ASSUME NEW w \in S, w.day \in closed PROVE w \in B
  <2>1. CASE w \in Post(M, n) BY <1>5, <1>17, <2>1 DEF M
  <2>2. CASE \E s \in Kept(B, f) : w = c(s) BY <1>4, <1>17, <2>2
  <2> QED BY <1>6, <2>1, <2>2
<1>18. ASSUME NEW v \in B, NEW w \in S, v.no = w.no, v.day \in closed PROVE v = w
  <2>1. CASE w \in Post(M, n)
    <3>1. v.no < next /\ w.no >= next /\ v.no \in Nat /\ w.no \in Int
          BY <1>3, <1>5, <1>9, <1>10, <2>1 DEF Voucher
    <3> QED BY <1>8, <1>18, <3>1
  <2>2. CASE \E s \in Kept(B, f) : w = c(s)
    <3>1. PICK s \in Kept(B, f) : w = c(s) BY <2>2
    <3>2. v = Claim(B, s) BY <1>4, <1>9, <1>18, <3>1
    <3> QED BY <1>4, <1>18, <3>1, <3>2
  <2> QED BY <1>6, <2>1, <2>2
<1>19. S \subseteq Voucher BY <1>10
<1>20. OneHead(S) BY <1>16 DEF OneHead
<1>21. NumberedBelow(S, next + Cardinality(M)) BY <1>13, <1>16 DEF NumberedBelow
<1> QED BY <1>12, <1>17, <1>18, <1>19, <1>20, <1>21 DEF S, M

-----------------------------------------------------------------------------
(* The inductive invariant, deposit by deposit                              *)

\* What holds of a deposit's row and its receipts whoever changed them, numbers below n.
Sound(r, B, n) ==
    /\ r \in Deposit /\ (r.status = "none" \/ r.figures \in Payments)
    /\ r.submitted \in {0, r.revision}
    /\ r.status \in {"approved", "rejected"} => r.submitted = r.revision
    /\ B \subseteq Voucher /\ NumberedBelow(B, n)
    /\ r.status # "approved" => B = {}

Agree(r, B) ==
    IF r.status = "approved" /\ r.live
    THEN {Shown(v) : v \in B} = Slices(r.figures) /\ r.entry = FirstNo(B)
    ELSE B = {}

Rest ==
    /\ next \in 1 .. MaxVouchers + 1
    /\ closed \subseteq Dates
    /\ call \in [Callers -> Call \cup {NoCall}]
    /\ touched \subseteq Deposits /\ overtaken \subseteq Deposits
    /\ edits \in 0 .. MaxEdits

DepositInv ==
    /\ deposit \in [Deposits -> Deposit] /\ book \in [Deposits -> SUBSET Voucher]
    /\ Rest
    /\ \A d \in Deposits :
         /\ Sound(deposit[d], book[d], next)
         /\ d \notin touched => OneHead(book[d])
         /\ d \notin touched \cup overtaken => Agree(deposit[d], book[d])

\* On a closed day nothing appears and nothing changes.
KeptClosed(B, C) ==
    /\ \A w \in C : w.day \in closed => w \in B
    /\ \A v \in B, w \in C : v.no = w.no /\ v.day \in closed => v = w

Good == DepositInv' /\ KeepsSubmitted /\ KeepsClosed

LEMMA Unfold ==
    ASSUME DepositInv
    PROVE  DepositTypeOK /\ BookFollowsDeposit /\ OneVoucherEach /\ DecidedAsSubmitted
<1>1. DepositTypeOK BY DEF DepositInv, Rest, DepositTypeOK, Sound
<1>2. BookFollowsDeposit
      BY DEF DepositInv, BookFollowsDeposit, Agree, Booked, Standing
<1>3. OneVoucherEach BY DEF DepositInv, OneVoucherEach, OneHead
<1>4. DecidedAsSubmitted BY DEF DepositInv, DecidedAsSubmitted, Sound
<1> QED BY <1>1, <1>2, <1>3, <1>4

\* Numbers stay below the next one.
LEMMA NumbersGrow ==
    ASSUME NEW B, B \subseteq Voucher, NEW m \in Int, NEW n \in Int, m <= n, NumberedBelow(B, m)
    PROVE  NumberedBelow(B, n)
  BY DEF NumberedBelow, Voucher

\* A receipt that nobody touches keeps its closed day.
LEMMA SameIsKept ==
    ASSUME NEW B, NEW n, NumberedBelow(B, n)
    PROVE  KeptClosed(B, B)
  BY DEF KeptClosed, NumberedBelow

\* A step that changes one deposit and its receipts.
LEMMA OneDepositStep ==
    ASSUME DepositInv, NEW d \in Deposits,
           deposit' \in [Deposits -> Deposit], book' \in [Deposits -> SUBSET Voucher], Rest',
           \A e \in Deposits \ {d} : deposit'[e] = deposit[e] /\ book'[e] = book[e],
           next <= next',
           \A e \in Deposits \ {d} : (e \in touched' <=> e \in touched) /\ (e \in overtaken' <=> e \in overtaken),
           Sound(deposit'[d], book'[d], next'),
           d \notin touched' => OneHead(book'[d]),
           d \notin touched' \cup overtaken' => Agree(deposit'[d], book'[d]),
           KeptClosed(book[d], book'[d]),
           Decidable(d) /\ deposit'[d].figures # deposit[d].figures =>
               \E c \in Callers : Amends(c) /\ call[c].id = d /\ call'[c] = NoCall
    PROVE  Good
<1>1. \A e \in Deposits \ {d} : /\ Sound(deposit[e], book[e], next)
                                /\ e \notin touched => OneHead(book[e])
                                /\ e \notin touched \cup overtaken => Agree(deposit[e], book[e])
      BY DEF DepositInv
<1>2. next \in Int /\ next' \in Int BY DEF DepositInv, Rest
<1>3. ASSUME NEW e \in Deposits \ {d} PROVE Sound(deposit[e], book[e], next')
  <2>1. book[e] \subseteq Voucher /\ NumberedBelow(book[e], next) BY <1>1 DEF Sound
  <2>2. NumberedBelow(book[e], next') BY <1>2, <2>1, NumbersGrow
  <2> QED BY <1>1, <2>2 DEF Sound
<1>4. \A e \in Deposits :
        /\ Sound(deposit'[e], book'[e], next')
        /\ e \notin touched' => OneHead(book'[e])
        /\ e \notin touched' \cup overtaken' => Agree(deposit'[e], book'[e])
  <2>1. ASSUME NEW e \in Deposits, e # d
        PROVE  /\ Sound(deposit'[e], book'[e], next')
               /\ e \notin touched' => OneHead(book'[e])
               /\ e \notin touched' \cup overtaken' => Agree(deposit'[e], book'[e])
    <3>1. e \in Deposits \ {d} BY <2>1
    <3>2. deposit'[e] = deposit[e] /\ book'[e] = book[e] BY <3>1
    <3>3. (e \in touched' <=> e \in touched) /\ (e \in overtaken' <=> e \in overtaken) BY <3>1
    <3> QED BY <1>1, <1>3, <3>1, <3>2, <3>3
  <2> QED BY <2>1, Zenon
<1>5. DepositInv' BY <1>4 DEF DepositInv
<1>6. KeepsSubmitted
  <2>1. \A e \in Deposits \ {d} : deposit'[e].figures = deposit[e].figures OBVIOUS
  <2> QED BY <2>1 DEF KeepsSubmitted
<1>7. KeepsClosed
  <2>1. ASSUME NEW e \in Deposits PROVE KeptClosed(book[e], book'[e])
    <3>1. CASE e = d BY <3>1
    <3>2. CASE e # d
      <4>1. e \in Deposits \ {d} BY <3>2
      <4>2. NumberedBelow(book[e], next) BY <1>1, <4>1 DEF Sound
      <4>3. KeptClosed(book[e], book[e]) BY <4>2, SameIsKept
      <4>4. book'[e] = book[e] BY <4>1
      <4> QED BY <4>3, <4>4
    <3> QED BY <3>1, <3>2
  <2> QED BY <2>1 DEF KeepsClosed, KeptClosed
<1> QED BY <1>5, <1>6, <1>7 DEF Good

\* A step that changes no deposit and no receipt.
LEMMA NoDepositStep ==
    ASSUME DepositInv, UNCHANGED <<deposit, book, next, touched, overtaken>>, Rest'
    PROVE  Good
<1>1. DepositInv' BY DEF DepositInv
<1>2. KeepsSubmitted BY DEF KeepsSubmitted
<1>3. KeepsClosed
  <2>1. \A e \in Deposits : KeptClosed(book[e], book[e])
        BY SameIsKept DEF DepositInv, Sound
  <2> QED BY <2>1 DEF KeepsClosed, KeptClosed
<1> QED BY <1>1, <1>2, <1>3 DEF Good

-----------------------------------------------------------------------------
(* The steps                                                                *)

\* A sync inside a step of deposit d.
LEMMA SyncBooks ==
    ASSUME DepositsAssumption, DepositInv, NEW d \in Deposits, NEW f \in Payments, NEW n \in Dates,
           Sync(d, f, n)
    PROVE  /\ book' \in [Deposits -> SUBSET Voucher]
           /\ \A e \in Deposits \ {d} : book'[e] = book[e]
           /\ next' \in 1 .. MaxVouchers + 1 /\ next <= next'
           /\ touched' = touched \ {d}
           /\ {Shown(v) : v \in book'[d]} = Slices(f)
           /\ OneHead(book'[d]) /\ NumberedBelow(book'[d], next')
           /\ KeptClosed(book[d], book'[d])
           /\ FirstNo(book'[d]) \in 1 .. MaxVouchers
<1> DEFINE B == book[d]
           M == Missing(B, f)
<1>1. /\ B \subseteq Voucher /\ NumberedBelow(B, next) /\ next \in 1 .. MaxVouchers + 1
      /\ book \in [Deposits -> SUBSET Voucher]
      BY DEF DepositInv, Rest, Sound
<1>2. /\ \A s \in Kept(B, f) : Matches(Claim(B, s), s) \/ Claim(B, s).day \notin closed
      /\ M # {} => n \notin closed
      /\ next + Cardinality(M) <= MaxVouchers + 1
      /\ book' = [book EXCEPT ![d] = Synced(B, f, n)]
      /\ next' = next + Cardinality(M)
      /\ touched' = touched \ {d}
      BY DEF Sync
<1> HIDE DEF B
<1>3. /\ Synced(B, f, n) \subseteq Voucher
      /\ {Shown(w) : w \in Synced(B, f, n)} = Slices(f)
      /\ OneHead(Synced(B, f, n))
      /\ NumberedBelow(Synced(B, f, n), next + Cardinality(M))
      /\ \A w \in Synced(B, f, n) : w.day \in closed => w \in B
      /\ \A v \in B, w \in Synced(B, f, n) : v.no = w.no /\ v.day \in closed => v = w
      BY <1>1, <1>2, SyncedBooks
<1>4. Cardinality(M) \in Nat
  <2>1. M \subseteq Slices(f) BY DEF Missing
  <2> QED BY <2>1, SlicesCounted
<1>5. next' \in 1 .. MaxVouchers + 1 /\ next <= next'
  <2> HIDE DEF M
  <2> QED BY <1>1, <1>2, <1>4 DEF DepositsAssumption
<1> DEFINE S == Synced(B, f, n)
<1> HIDE DEF S
<1>6. book' \in [Deposits -> SUBSET Voucher] /\ book'[d] = S
      /\ \A e \in Deposits \ {d} : book'[e] = book[e]
      BY <1>1, <1>2, <1>3 DEF S
<1>7. FirstNo(S) \in 1 .. MaxVouchers
  <2>1. S \subseteq Voucher /\ {Shown(w) : w \in S} = Slices(f) BY <1>3 DEF S
  <2>2. S # {} BY <2>1, SlicesOfFigures
  <2>3. \A v \in S : v.no \in 1 .. MaxVouchers /\ v.no \in Nat BY <2>1 DEF Voucher
  <2>4. \E v \in S : v.no = FirstNo(S) BY <2>2, <2>3, FirstNoIsFirst
  <2> QED BY <2>3, <2>4
<1>8. KeptClosed(B, S) BY <1>3 DEF KeptClosed, S
<1>9. {Shown(w) : w \in S} = Slices(f) /\ OneHead(S) /\ NumberedBelow(S, next')
      BY <1>2, <1>3 DEF S
<1> QED BY <1>2, <1>5, <1>6, <1>7, <1>8, <1>9 DEF B

\* A step that leaves the receipts alone, of a deposit neither approved before nor after.
LEMMA RowStep ==
    ASSUME DepositInv, NEW d \in Deposits,
           deposit' \in [Deposits -> Deposit],
           \A e \in Deposits \ {d} : deposit'[e] = deposit[e],
           UNCHANGED <<book, next, touched, overtaken>>, Rest',
           deposit'[d].status = "none" \/ deposit'[d].figures \in Payments,
           deposit'[d].submitted \in {0, deposit'[d].revision},
           deposit'[d].status = "rejected" => deposit'[d].submitted = deposit'[d].revision,
           deposit[d].status # "approved", deposit'[d].status # "approved",
           Decidable(d) => deposit'[d].figures = deposit[d].figures
    PROVE  Good
<1>1. /\ book' \in [Deposits -> SUBSET Voucher]
      /\ Sound(deposit[d], book[d], next)
      /\ d \notin touched => OneHead(book[d])
      /\ d \notin touched \cup overtaken => Agree(deposit[d], book[d])
      BY DEF DepositInv
<1>2. Sound(deposit'[d], book'[d], next') BY <1>1 DEF Sound
<1>3. d \notin touched' \cup overtaken' => Agree(deposit'[d], book'[d])
      BY <1>1 DEF Agree, Booked, Standing
<1>4. KeptClosed(book[d], book'[d]) BY <1>1, SameIsKept DEF Sound
<1>5. next <= next' BY DEF DepositInv, Rest
<1> QED BY <1>1, <1>2, <1>3, <1>4, <1>5, OneDepositStep

LEMMA BranchSteps ==
    ASSUME DepositsAssumption, DepositInv, NEW d \in Deposits, NEW f \in Payments, NEW n \in Dates,
           Create(d, f, n) \/ Edit(d, f) \/ Resubmit(d, f) \/ Forward(d) \/ RejectDeposit(d)
    PROVE  Good
<1>1. /\ deposit \in [Deposits -> Deposit] /\ Rest
      /\ deposit[d].status = "none" \/ deposit[d].figures \in Payments
      /\ deposit[d].submitted \in {0, deposit[d].revision}
      /\ deposit[d].status \in {"approved", "rejected"} => deposit[d].submitted = deposit[d].revision
      BY DEF DepositInv, Sound
<1>2. Rest' /\ UNCHANGED <<book, next, touched, overtaken>>
      BY <1>1 DEF Rest, Create, Edit, Resubmit, Forward, RejectDeposit
<1> USE DEF Deposit, Standing, Decidable
<1>3. CASE Create(d, f, n)
  <2>1. /\ deposit' \in [Deposits -> Deposit]
        /\ \A e \in Deposits \ {d} : deposit'[e] = deposit[e]
        /\ deposit'[d].status = "pending" /\ deposit'[d].submitted = deposit[d].submitted
        /\ deposit'[d].revision = deposit[d].revision
    <3>1. deposit \in [Deposits -> Deposit] BY <1>1
    <3>2. deposit' = [deposit EXCEPT ![d].status = "pending", ![d].figures = f, ![d].day = n]
          BY <1>3 DEF Create
    <3> DEFINE x == [deposit EXCEPT ![d].status = "pending"]
               y == [x EXCEPT ![d].figures = f]
               z == [y EXCEPT ![d].day = n]
    <3>3. /\ x \in [Deposits -> Deposit] /\ \A e \in Deposits \ {d} : x[e] = deposit[e]
          /\ x[d].status = "pending" /\ x[d].submitted = deposit[d].submitted
          /\ x[d].revision = deposit[d].revision
          BY <3>1
    <3> HIDE DEF x
    <3>4. /\ y \in [Deposits -> Deposit] /\ \A e \in Deposits \ {d} : y[e] = deposit[e]
          /\ y[d].status = "pending" /\ y[d].submitted = deposit[d].submitted
          /\ y[d].revision = deposit[d].revision
          BY <3>3
    <3> HIDE DEF y
    <3>5. /\ z \in [Deposits -> Deposit] /\ \A e \in Deposits \ {d} : z[e] = deposit[e]
          /\ z[d].status = "pending" /\ z[d].submitted = deposit[d].submitted
          /\ z[d].revision = deposit[d].revision
          BY <3>4
    <3> QED BY <3>2, <3>5 DEF x, y
  <2>2. deposit'[d].figures = f BY <1>1, <1>3 DEF Create
  <2>3. deposit[d].status = "none" BY <1>3 DEF Create
  <2> QED BY <1>1, <1>2, <2>1, <2>2, <2>3, RowStep
<1>4. CASE Edit(d, f)
  <2>1. /\ deposit' \in [Deposits -> Deposit]
        /\ \A e \in Deposits \ {d} : deposit'[e] = deposit[e]
        /\ deposit'[d].figures = f /\ deposit'[d].status = "pending"
        /\ deposit'[d].submitted = 0 /\ deposit'[d].revision = deposit[d].revision
        /\ deposit[d].status = "pending" /\ deposit[d].submitted = 0
        BY <1>1, <1>4 DEF Edit, WithAccounts
  <2> QED BY <1>1, <1>2, <2>1, RowStep
<1>5. CASE Resubmit(d, f)
  <2>1. /\ deposit' \in [Deposits -> Deposit]
        /\ \A e \in Deposits \ {d} : deposit'[e] = deposit[e]
        /\ deposit'[d].status = "pending" /\ deposit'[d].submitted = 0
        BY <1>1, <1>5 DEF Resubmit, Resubmitted, DepositsAssumption
  <2>2. deposit'[d].figures = f BY <1>1, <1>5 DEF Resubmit
  <2>3. deposit[d].status = "rejected" BY <1>5 DEF Resubmit
  <2> QED BY <1>1, <1>2, <2>1, <2>2, <2>3, RowStep
<1>6. CASE Forward(d)
  <2>1. /\ deposit' \in [Deposits -> Deposit]
        /\ \A e \in Deposits \ {d} : deposit'[e] = deposit[e]
        /\ deposit'[d].figures = deposit[d].figures /\ deposit'[d].status = "pending"
        /\ deposit'[d].submitted = deposit[d].revision /\ deposit'[d].revision = deposit[d].revision
        /\ deposit[d].status = "pending"
        BY <1>1, <1>6 DEF Forward, WithAccounts
  <2> QED BY <1>1, <1>2, <2>1, RowStep
<1>7. CASE RejectDeposit(d)
  <2>1. /\ deposit' \in [Deposits -> Deposit]
        /\ \A e \in Deposits \ {d} : deposit'[e] = deposit[e]
        /\ deposit'[d].figures = deposit[d].figures /\ deposit'[d].status = "rejected"
        /\ deposit'[d].submitted = deposit[d].submitted /\ deposit'[d].revision = deposit[d].revision
        /\ deposit[d].status = "pending" /\ deposit[d].submitted # 0
        BY <1>1, <1>7 DEF RejectDeposit
  <2> QED BY <1>1, <1>2, <2>1, RowStep
<1> QED BY <1>3, <1>4, <1>5, <1>6, <1>7

\* A step that syncs: the deposit is approved afterwards, with the figures that were booked.
LEMMA SyncStep ==
    ASSUME DepositsAssumption, DepositInv, NEW d \in Deposits, NEW f \in Payments, NEW n \in Dates,
           Sync(d, f, n),
           deposit' \in [Deposits -> Deposit],
           \A e \in Deposits \ {d} : deposit'[e] = deposit[e],
           closed' = closed, edits' = edits, call' \in [Callers -> Call \cup {NoCall}],
           overtaken' \in {overtaken \ {d}, overtaken \cup {d}},
           ~ deposit'[d].live => overtaken' = overtaken \cup {d},
           deposit'[d].status = "approved", deposit'[d].figures = f,
           deposit'[d].entry = FirstNo(book'[d]),
           deposit'[d].submitted = deposit'[d].revision,
           Decidable(d) => f = deposit[d].figures
    PROVE  Good
<1>1. /\ book' \in [Deposits -> SUBSET Voucher]
      /\ \A e \in Deposits \ {d} : book'[e] = book[e]
      /\ next' \in 1 .. MaxVouchers + 1 /\ next <= next'
      /\ touched' = touched \ {d}
      /\ {Shown(v) : v \in book'[d]} = Slices(f)
      /\ OneHead(book'[d]) /\ NumberedBelow(book'[d], next')
      /\ KeptClosed(book[d], book'[d])
      BY SyncBooks
<1>2. Rest' BY <1>1 DEF DepositInv, Rest
<1>3. Sound(deposit'[d], book'[d], next') BY <1>1 DEF Sound
<1>4. d \notin touched' \cup overtaken' => Agree(deposit'[d], book'[d]) BY <1>1 DEF Agree
<1>5. \A e \in Deposits \ {d} : (e \in touched' <=> e \in touched) /\ (e \in overtaken' <=> e \in overtaken)
      BY <1>1
<1> QED BY <1>1, <1>2, <1>3, <1>4, <1>5, OneDepositStep

LEMMA ApproveStep ==
    ASSUME DepositsAssumption, DepositInv, NEW d \in Deposits, Approve(d)
    PROVE  Good
<1> DEFINE f == deposit[d].figures
           n == PostingDay(deposit[d].day)
<1>1. deposit \in [Deposits -> Deposit] /\ Rest BY DEF DepositInv
<1>2. /\ deposit[d].status = "pending" /\ deposit[d].live /\ deposit[d].submitted # 0
      /\ Sync(d, f, n)
      /\ deposit' = [deposit EXCEPT ![d].status = "approved", ![d].entry = FirstNo(book'[d])]
      /\ overtaken' = overtaken \ {d}
      /\ closed' = closed /\ edits' = edits /\ call' = call
      BY DEF Approve, Decidable, Standing
<1>3. f \in Payments /\ deposit[d].submitted = deposit[d].revision
      BY <1>2 DEF DepositInv, Sound
<1>4. n \in Dates BY <1>1 DEF PostingDay, Deposit, Dates, DepositsAssumption
<1>5. FirstNo(book'[d]) \in 0 .. MaxVouchers
  <2> HIDE DEF f, n
  <2>1. FirstNo(book'[d]) \in 1 .. MaxVouchers BY <1>2, <1>3, <1>4, SyncBooks
  <2> QED BY <2>1
<1>6. /\ deposit' \in [Deposits -> Deposit]
      /\ \A e \in Deposits \ {d} : deposit'[e] = deposit[e]
      /\ deposit'[d].status = "approved" /\ deposit'[d].figures = f
      /\ deposit'[d].entry = FirstNo(book'[d])
      /\ deposit'[d].submitted = deposit[d].submitted /\ deposit'[d].revision = deposit[d].revision
      /\ deposit'[d].live
  <2>1. deposit[d] \in Deposit BY <1>1
  <2>2. [deposit[d] EXCEPT !.status = "approved", !.entry = FirstNo(book'[d])] \in Deposit
    BY <1>5, <2>1 DEF Deposit
  <2>3. /\ deposit' \in [Deposits -> Deposit]
        /\ \A e \in Deposits \ {d} : deposit'[e] = deposit[e]
        /\ deposit'[d] = [deposit[d] EXCEPT !.status = "approved", !.entry = FirstNo(book'[d])]
    BY <1>1, <1>2, <2>2
  <2> QED BY <1>2, <2>1, <2>3 DEF Deposit
<1>7. call' \in [Callers -> Call \cup {NoCall}] BY <1>1, <1>2 DEF Rest
<1> QED
  <2>1. f = deposit[d].figures OBVIOUS
  <2> HIDE DEF f, n
  <2> QED BY <1>2, <1>3, <1>4, <1>6, <1>7, <2>1, SyncStep

LEMMA ReadStep ==
    ASSUME DepositInv, NEW c \in Callers, NEW d \in Deposits, Read(c, d)
    PROVE  Good
<1>1. deposit[d] \in Deposit /\ deposit[d].figures \in Payments
      /\ deposit[d].status \in {"pending", "approved", "rejected"}
      BY DEF DepositInv, Read, Sound, Deposit
<1>2. [id |-> d, status |-> deposit[d].status, figures |-> deposit[d].figures] \in Call
      BY <1>1 DEF Call
<1>3. Rest' BY <1>2 DEF DepositInv, Rest, Read
<1> QED BY <1>3, NoDepositStep DEF Read

LEMMA GiveUpStep ==
    ASSUME DepositInv, NEW c \in Callers, GiveUp(c)
    PROVE  Good
<1>1. Rest' BY DEF DepositInv, Rest, GiveUp
<1> QED BY <1>1, NoDepositStep DEF GiveUp

LEMMA CloseDayStep ==
    ASSUME DepositInv, NEW n \in Dates, CloseDay(n)
    PROVE  Good
<1>1. Rest' BY DEF DepositInv, Rest, CloseDay
<1> QED BY <1>1, NoDepositStep DEF CloseDay

LEMMA ReadType ==
    ASSUME DepositInv, NEW c \in Callers, Amends(c) \/ CorrectsRejected(c)
    PROVE  /\ call[c].id \in Deposits /\ call[c].figures \in Payments
           /\ call[c].status \in {"pending", "approved", "rejected"}
           /\ call[c] # NoCall
           /\ call \in [Callers -> Call \cup {NoCall}]
<1>1. call[c] \in Call \cup {NoCall} /\ call \in [Callers -> Call \cup {NoCall}] BY DEF DepositInv, Rest
<1>2. call[c] # NoCall BY DEF Amends, CorrectsRejected, NoCall
<1> QED BY <1>1, <1>2 DEF Call

\* amend_finance_record: whoever came in between, the deposit is exempt, or the read was true.
LEMMA AmendStep ==
    ASSUME DepositsAssumption, DepositInv, NEW c \in Callers, NEW k \in Fields, NEW m \in Amounts,
           AmendWrite(c, k, m)
    PROVE  Good
<1> DEFINE q == call[c]
           d == q.id
           f == [deposit[d].figures EXCEPT ![k] = m]
<1>1. /\ deposit \in [Deposits -> Deposit] /\ Rest
      /\ d \in Deposits /\ q # NoCall /\ call \in [Callers -> Call \cup {NoCall}]
      /\ q.status \in {"pending", "approved"} /\ Amends(c)
      BY ReadType DEF DepositInv, AmendWrite, Amends
<1>2. /\ f \in Payments /\ call' = [call EXCEPT ![c] = NoCall]
      /\ closed' = closed /\ edits' = edits
      BY DEF AmendWrite, WorthSomething
<1>3. call' \in [Callers -> Call \cup {NoCall}] /\ call'[c] = NoCall BY <1>1, <1>2
<1>4. Today \in Dates BY DEF Dates, DepositsAssumption
<1>5. CASE Reposts(q, k, m) /\ deposit[d].status = "approved" /\ deposit[d].entry # 0
  <2>1. /\ Sync(d, f, Today)
        /\ deposit' = [deposit EXCEPT ![d].figures = f, ![d].entry = FirstNo(book'[d])]
        /\ overtaken' = IF deposit[d].live THEN overtaken \ {d} ELSE overtaken \cup {d}
        BY <1>5 DEF AmendWrite
  <2> HIDE DEF d, f
  <2>2. deposit[d].submitted = deposit[d].revision BY <1>1, <1>5 DEF DepositInv, Sound
  <2>3. FirstNo(book'[d]) \in 0 .. MaxVouchers
    <3>1. FirstNo(book'[d]) \in 1 .. MaxVouchers BY <1>1, <1>2, <1>4, <2>1, SyncBooks
    <3> QED BY <3>1
  <2>4. /\ deposit' \in [Deposits -> Deposit]
        /\ \A e \in Deposits \ {d} : deposit'[e] = deposit[e]
        /\ deposit'[d].status = "approved" /\ deposit'[d].figures = f
        /\ deposit'[d].entry = FirstNo(book'[d])
        /\ deposit'[d].submitted = deposit'[d].revision
        /\ deposit'[d].live = deposit[d].live
    <3>1. deposit[d] \in Deposit BY <1>1
    <3>2. [deposit[d] EXCEPT !.figures = f, !.entry = FirstNo(book'[d])] \in Deposit
      BY <1>2, <2>3, <3>1 DEF Deposit
    <3>3. /\ deposit' \in [Deposits -> Deposit]
          /\ \A e \in Deposits \ {d} : deposit'[e] = deposit[e]
          /\ deposit'[d] = [deposit[d] EXCEPT !.figures = f, !.entry = FirstNo(book'[d])]
      BY <1>1, <2>1, <3>2
    <3> QED BY <1>5, <2>2, <3>1, <3>3 DEF Deposit
  <2>5. ~ Decidable(d) BY <1>5 DEF Decidable, Standing
  <2>6. overtaken' \in {overtaken \ {d}, overtaken \cup {d}} BY <2>1
  <2>7. ~ deposit'[d].live => overtaken' = overtaken \cup {d} BY <2>1, <2>4
  <2> QED BY <1>1, <1>2, <1>3, <1>4, <2>1, <2>4, <2>5, <2>6, <2>7, SyncStep
<1>6. CASE ~ (Reposts(q, k, m) /\ deposit[d].status = "approved" /\ deposit[d].entry # 0)
  <2>1. /\ deposit' = [deposit EXCEPT ![d].figures = f]
        /\ overtaken' = IF Overtaken(q, k) THEN overtaken \cup {d} ELSE overtaken
        /\ UNCHANGED <<book, next, touched>>
        BY <1>6 DEF AmendWrite
  <2> DEFINE r == deposit[d]
  <2>2. /\ Sound(r, book[d], next)
        /\ d \notin touched => OneHead(book[d])
        /\ d \notin touched \cup overtaken => Agree(r, book[d])
        BY <1>1 DEF DepositInv
  <2>3. ASSUME d \notin touched, d \notin overtaken, ~ Overtaken(q, k) PROVE ~ (r.status = "approved" /\ r.live) \/ f = r.figures
    <3>1. r.status = q.status /\ r.live /\ r.figures[k] = q.figures[k] BY <2>3 DEF Overtaken
    <3>2. CASE q.status = "pending" BY <3>1, <3>2
    <3>3. CASE q.status = "approved"
      <4>1. r.entry # 0
        <5>1. {Shown(v) : v \in book[d]} = Slices(r.figures) /\ r.entry = FirstNo(book[d])
              /\ r.figures \in Payments /\ book[d] \subseteq Voucher
              BY <2>2, <2>3, <3>1, <3>3 DEF Agree, Sound
        <5>2. book[d] # {} BY <5>1, SlicesOfFigures
        <5>3. \A v \in book[d] : v.no \in Nat /\ v.no # 0 BY <5>1 DEF Voucher
        <5>4. \E v \in book[d] : v.no = FirstNo(book[d]) BY <5>2, <5>3, FirstNoIsFirst
        <5> QED BY <5>1, <5>3, <5>4
      <4>2. ~ Reposts(q, k, m) BY <1>6, <3>1, <3>3, <4>1
      <4>3. r.figures[k] = m BY <3>1, <3>3, <4>2 DEF Reposts
      <4>4. r.figures \in [Fields -> Amounts] BY <2>2, <3>1, <3>3 DEF Sound, Payments
      <4> QED BY <4>3, <4>4
    <3> QED BY <1>1, <3>2, <3>3
  <2> HIDE DEF d, f, q
  <2>4. /\ deposit' \in [Deposits -> Deposit]
        /\ \A e \in Deposits \ {d} : deposit'[e] = deposit[e]
        /\ deposit'[d].figures = f
        /\ deposit'[d].status = r.status /\ deposit'[d].live = r.live /\ deposit'[d].entry = r.entry
        /\ deposit'[d].submitted = r.submitted /\ deposit'[d].revision = r.revision
        BY <1>1, <1>2, <2>1 DEF Deposit
  <2>5. book' \in [Deposits -> SUBSET Voucher] BY <2>1 DEF DepositInv
  <2>6. Rest' BY <1>1, <1>2, <1>3, <2>1 DEF Rest
  <2>7. Sound(deposit'[d], book'[d], next') BY <1>1, <1>2, <2>1, <2>2, <2>4 DEF Sound
  <2>8. d \notin touched' \cup overtaken' => Agree(deposit'[d], book'[d])
    <3>1. SUFFICES ASSUME d \notin touched' \cup overtaken' PROVE Agree(deposit'[d], book'[d])
          OBVIOUS
    <3>2. d \notin touched /\ d \notin overtaken /\ ~ Overtaken(q, k) BY <2>1, <3>1
    <3>3. ~ (r.status = "approved" /\ r.live) \/ f = r.figures BY <2>3, <3>2
    <3>4. Agree(r, book[d]) BY <2>2, <3>2
    <3> QED BY <2>1, <2>4, <3>3, <3>4 DEF Agree
  <2>9. KeptClosed(book[d], book'[d]) BY <2>1, <2>2, SameIsKept DEF Sound
  <2>10. \E b \in Callers : Amends(b) /\ call[b].id = d /\ call'[b] = NoCall BY <1>1, <1>3 DEF d, q
  <2>11. next <= next' BY <2>1, <2>6 DEF Rest
  <2>12. \A e \in Deposits \ {d} : /\ deposit'[e] = deposit[e] /\ book'[e] = book[e]
                                   /\ e \in touched' <=> e \in touched
                                   /\ e \in overtaken' <=> e \in overtaken
         BY <2>1, <2>4
  <2>13. d \notin touched' => OneHead(book'[d]) BY <2>1, <2>2
  <2> HIDE DEF r
  <2> QED BY <1>1, <2>4, <2>5, <2>6, <2>7, <2>8, <2>9, <2>10, <2>11, <2>12, <2>13, OneDepositStep
<1> QED BY <1>5, <1>6

LEMMA CorrectStep ==
    ASSUME DepositsAssumption, DepositInv, NEW c \in Callers, NEW k \in Fields, NEW m \in Amounts,
           NEW n \in Dates, NEW approve \in BOOLEAN, CorrectWrite(c, k, m, n, approve)
    PROVE  Good
<1> DEFINE d == call[c].id
           f == [call[c].figures EXCEPT ![k] = m]
<1>1. /\ deposit \in [Deposits -> Deposit] /\ Rest
      /\ d \in Deposits /\ call \in [Callers -> Call \cup {NoCall}]
      BY ReadType DEF DepositInv, CorrectWrite
<1>2. /\ deposit[d].status = "rejected" /\ deposit[d].live /\ f \in Payments
      /\ call' = [call EXCEPT ![c] = NoCall] /\ closed' = closed /\ edits' = edits
      BY DEF CorrectWrite, WorthSomething, Standing
<1>3. call' \in [Callers -> Call \cup {NoCall}] BY <1>1, <1>2
<1>4. deposit[d].submitted = deposit[d].revision BY <1>1, <1>2 DEF DepositInv, Sound
<1>5. ~ Decidable(d) BY <1>2 DEF Decidable, Standing
<1>6. CASE approve
  <2>1. /\ Sync(d, f, PostingDay(n))
        /\ deposit' = [deposit EXCEPT ![d].status = "approved", ![d].figures = f,
                                      ![d].day = n, ![d].entry = FirstNo(book'[d])]
        /\ overtaken' = overtaken \ {d}
        BY <1>6 DEF CorrectWrite
  <2> HIDE DEF d, f
  <2>2. PostingDay(n) \in Dates BY DEF PostingDay, Dates, DepositsAssumption
  <2>3. FirstNo(book'[d]) \in 0 .. MaxVouchers
    <3>1. FirstNo(book'[d]) \in 1 .. MaxVouchers BY <1>1, <1>2, <2>1, <2>2, SyncBooks
    <3> QED BY <3>1
  <2> DEFINE x == [deposit EXCEPT ![d].status = "approved"]
             y == [x EXCEPT ![d].figures = f]
             z == [y EXCEPT ![d].day = n]
             u == [z EXCEPT ![d].entry = FirstNo(book'[d])]
  <2>4. /\ x \in [Deposits -> Deposit] /\ \A e \in Deposits \ {d} : x[e] = deposit[e]
        /\ x[d].status = "approved" /\ x[d].live = deposit[d].live
        /\ x[d].submitted = deposit[d].submitted /\ x[d].revision = deposit[d].revision
        BY <1>1 DEF Deposit
  <2> HIDE DEF x
  <2>5. /\ y \in [Deposits -> Deposit] /\ \A e \in Deposits \ {d} : y[e] = deposit[e]
        /\ y[d].status = "approved" /\ y[d].live = deposit[d].live /\ y[d].figures = f
        /\ y[d].submitted = deposit[d].submitted /\ y[d].revision = deposit[d].revision
        BY <1>1, <1>2, <2>4 DEF Deposit
  <2> HIDE DEF y
  <2>6. /\ z \in [Deposits -> Deposit] /\ \A e \in Deposits \ {d} : z[e] = deposit[e]
        /\ z[d].status = "approved" /\ z[d].live = deposit[d].live /\ z[d].figures = f
        /\ z[d].submitted = deposit[d].submitted /\ z[d].revision = deposit[d].revision
        BY <1>1, <2>5 DEF Deposit
  <2> HIDE DEF z
  <2>7. /\ u \in [Deposits -> Deposit] /\ \A e \in Deposits \ {d} : u[e] = deposit[e]
        /\ u[d].status = "approved" /\ u[d].live = deposit[d].live /\ u[d].figures = f
        /\ u[d].submitted = deposit[d].submitted /\ u[d].revision = deposit[d].revision
        /\ u[d].entry = FirstNo(book'[d])
        BY <1>1, <2>3, <2>6 DEF Deposit
  <2> HIDE DEF u
  <2>8. deposit' = u BY <2>1 DEF x, y, z, u
  <2>9. /\ deposit' \in [Deposits -> Deposit] /\ \A e \in Deposits \ {d} : deposit'[e] = deposit[e]
        /\ deposit'[d].status = "approved" /\ deposit'[d].live /\ deposit'[d].figures = f
        /\ deposit'[d].submitted = deposit'[d].revision
        /\ deposit'[d].entry = FirstNo(book'[d])
        BY <1>2, <1>4, <2>7, <2>8
  <2> QED BY <1>1, <1>2, <1>3, <1>5, <2>1, <2>2, <2>9, SyncStep
<1>7. CASE ~ approve
  <2>1. /\ deposit' = [deposit EXCEPT ![d].figures = f, ![d].day = n]
        /\ UNCHANGED <<book, next, touched, overtaken>>
        BY <1>7 DEF CorrectWrite
  <2> HIDE DEF d, f
  <2>2. /\ deposit' \in [Deposits -> Deposit] /\ \A e \in Deposits \ {d} : deposit'[e] = deposit[e]
        /\ deposit'[d].status = "rejected" /\ deposit'[d].figures = f
        /\ deposit'[d].submitted = deposit'[d].revision
    <3>1. deposit[d] \in Deposit BY <1>1
    <3> DEFINE x == [deposit[d] EXCEPT !.figures = f, !.day = n]
    <3>2. /\ x \in Deposit /\ x.figures = f /\ x.status = deposit[d].status
          /\ x.submitted = deposit[d].submitted /\ x.revision = deposit[d].revision
      BY <1>2, <3>1 DEF Deposit
    <3>3. deposit' = [deposit EXCEPT ![d] = x]
      BY <1>1, <2>1
    <3> HIDE DEF x
    <3>4. /\ deposit' \in [Deposits -> Deposit] /\ \A e \in Deposits \ {d} : deposit'[e] = deposit[e]
          /\ deposit'[d] = x
      BY <1>1, <3>2, <3>3
    <3> QED BY <1>2, <1>4, <3>2, <3>4
  <2>3. Rest' BY <1>1, <1>2, <1>3, <2>1 DEF Rest
  <2> QED BY <1>1, <1>2, <1>5, <2>1, <2>2, <2>3, RowStep
<1> QED BY <1>6, <1>7

LEMMA RedateStep ==
    ASSUME DepositsAssumption, DepositInv, NEW d \in Deposits, NEW n \in Dates, Redate(d, n)
    PROVE  Good
<1> DEFINE B == book[d]
           r == deposit[d]
           C == {[v EXCEPT !.day = n] : v \in B}
<1>1. /\ deposit \in [Deposits -> Deposit] /\ book \in [Deposits -> SUBSET Voucher] /\ Rest
      /\ Sound(r, B, next)
      /\ d \notin touched => OneHead(B)
      /\ d \notin touched \cup overtaken => Agree(r, B)
      BY DEF DepositInv
<1>2. /\ r.status = "approved" => Movable(d, n)
      /\ r.status \in {"pending", "approved"}
      /\ deposit' = [deposit EXCEPT ![d].day = n]
      /\ book' = [book EXCEPT ![d] = C]
      /\ UNCHANGED <<next, closed, call, touched, overtaken, edits>>
      BY DEF Redate, Standing
<1>3. /\ deposit' \in [Deposits -> Deposit] /\ \A e \in Deposits \ {d} : deposit'[e] = deposit[e]
      /\ deposit'[d].status = r.status /\ deposit'[d].live = r.live
      /\ deposit'[d].figures = r.figures /\ deposit'[d].entry = r.entry
      /\ deposit'[d].submitted = r.submitted /\ deposit'[d].revision = r.revision
      BY <1>1, <1>2 DEF Deposit
<1>4. ASSUME NEW v \in B
      PROVE  /\ [v EXCEPT !.day = n] \in Voucher /\ [v EXCEPT !.day = n].no = v.no
             /\ [v EXCEPT !.day = n].head = v.head /\ [v EXCEPT !.day = n].day = n
             /\ Shown([v EXCEPT !.day = n]) = Shown(v)
  <2>1. v \in Voucher BY <1>1 DEF Sound
  <2> QED BY <2>1 DEF Voucher, Shown
<1>5. /\ \A v \in B : \E w \in C : w.no = v.no /\ w.head = v.head /\ Shown(w) = Shown(v)
      /\ \A w \in C : \E v \in B : w = [v EXCEPT !.day = n]
      BY <1>4
<1> HIDE DEF C, B, r
<1>6. C \subseteq Voucher BY <1>4, <1>5
<1>7. book' \in [Deposits -> SUBSET Voucher] /\ book'[d] = C
      /\ \A e \in Deposits \ {d} : book'[e] = book[e]
      BY <1>1, <1>2, <1>6
<1>8. NumberedBelow(C, next)
  <2>1. NumberedBelow(B, next) BY <1>1 DEF Sound
  <2>2. ASSUME NEW w \in C PROVE w.no < next
    <3>1. PICK v \in B : w = [v EXCEPT !.day = n] BY <1>5
    <3>2. w.no = v.no BY <1>4, <3>1
    <3> QED BY <2>1, <3>2 DEF NumberedBelow
  <2>3. ASSUME NEW v \in C, NEW w \in C, v.no = w.no PROVE v = w
    <3>1. PICK a \in B : v = [a EXCEPT !.day = n] BY <1>5
    <3>2. PICK b \in B : w = [b EXCEPT !.day = n] BY <1>5
    <3>3. a.no = b.no BY <1>4, <2>3, <3>1, <3>2
    <3>4. a = b BY <2>1, <3>3 DEF NumberedBelow
    <3> QED BY <3>1, <3>2, <3>4
  <2> QED BY <2>2, <2>3 DEF NumberedBelow
<1>9. OneHead(B) => OneHead(C)
  <2>1. ASSUME OneHead(B), NEW v \in C, NEW w \in C, v.head = w.head PROVE v = w
    <3>1. PICK a \in B : v = [a EXCEPT !.day = n] BY <1>5
    <3>2. PICK b \in B : w = [b EXCEPT !.day = n] BY <1>5
    <3>3. a.head = b.head BY <1>4, <2>1, <3>1, <3>2
    <3>4. a = b BY <2>1, <3>3 DEF OneHead
    <3> QED BY <3>1, <3>2, <3>4
  <2> QED BY <2>1 DEF OneHead
<1>10. Agree(r, B) => Agree(deposit'[d], C)
  <2>1. SUFFICES ASSUME Agree(r, B) PROVE Agree(deposit'[d], C) OBVIOUS
  <2>2. CASE r.status = "approved" /\ r.live
    <3>1. {Shown(v) : v \in B} = Slices(r.figures) /\ r.entry = FirstNo(B) BY <2>1, <2>2 DEF Agree
    <3>2. \A w \in C : Shown(w) \in {Shown(v) : v \in B} BY <1>4, <1>5
    <3>3. \A v \in B : Shown(v) \in {Shown(w) : w \in C} BY <1>5
    <3>4. {Shown(w) : w \in C} = {Shown(v) : v \in B} BY <3>2, <3>3
    <3>5. r.figures \in Payments /\ B \subseteq Voucher BY <1>1, <2>2 DEF Sound
    <3>6. B # {} /\ C # {} BY <3>1, <3>4, <3>5, SlicesOfFigures
    <3>7. (\A v \in B : v.no \in Nat) /\ (\A v \in C : v.no \in Nat) BY <1>6, <3>5 DEF Voucher
    <3>8. (\E v \in B : v.no = FirstNo(B)) /\ (\A v \in B : FirstNo(B) <= v.no)
          BY <3>6, <3>7, FirstNoIsFirst
    <3>9. (\E v \in C : v.no = FirstNo(C)) /\ (\A v \in C : FirstNo(C) <= v.no)
          BY <3>6, <3>7, FirstNoIsFirst
    <3>10. FirstNo(C) <= FirstNo(B) BY <1>5, <3>8, <3>9
    <3>11. FirstNo(B) <= FirstNo(C)
      <4>1. PICK w \in C : w.no = FirstNo(C) BY <3>9
      <4>2. PICK v \in B : w = [v EXCEPT !.day = n] BY <1>5
      <4>3. v.no = FirstNo(C) BY <1>4, <4>1, <4>2
      <4> QED BY <3>8, <4>3
    <3>12. FirstNo(B) = FirstNo(C) BY <3>7, <3>8, <3>9, <3>10, <3>11
    <3> QED BY <1>3, <2>2, <3>1, <3>4, <3>12 DEF Agree
  <2>3. CASE ~ (r.status = "approved" /\ r.live)
    <3>1. B = {} BY <2>1, <2>3 DEF Agree
    <3>2. C = {} BY <1>5, <3>1
    <3> QED BY <1>3, <2>3, <3>2 DEF Agree
  <2> QED BY <2>2, <2>3
<1>11. KeptClosed(B, C)
  <2>1. CASE r.status = "approved"
    <3>1. n \notin closed /\ \A v \in B : v.day \notin closed BY <1>2, <2>1 DEF Movable, B
    <3>2. ASSUME NEW w \in C PROVE w.day = n
      <4>1. PICK v \in B : w = [v EXCEPT !.day = n] BY <1>5
      <4> QED BY <1>4, <4>1
    <3> QED BY <3>1, <3>2 DEF KeptClosed
  <2>2. CASE r.status # "approved"
    <3>1. B = {} BY <1>1, <2>2 DEF Sound
    <3>2. C = {} BY <1>5, <3>1
    <3> QED BY <3>1, <3>2 DEF KeptClosed
  <2> QED BY <2>1, <2>2
<1>12. Sound(deposit'[d], C, next)
  <2>1. r.status # "approved" => C = {} BY <1>1, <1>5 DEF Sound
  <2> QED BY <1>1, <1>3, <1>6, <1>8, <2>1 DEF Sound
<1>13. Rest' /\ next <= next' BY <1>1, <1>2 DEF Rest
<1>14. book[d] = B /\ deposit[d] = r BY DEF B, r
<1> QED
  BY <1>1, <1>2, <1>3, <1>7, <1>9, <1>10, <1>11, <1>12, <1>13, <1>14, OneDepositStep

LEMMA DeleteStep ==
    ASSUME DepositInv, NEW d \in Deposits, Delete(d)
    PROVE  Good
<1>1. /\ deposit \in [Deposits -> Deposit] /\ book \in [Deposits -> SUBSET Voucher] /\ Rest
      /\ Sound(deposit[d], book[d], next)
      BY DEF DepositInv
<1>2. /\ deposit' = [deposit EXCEPT ![d].live = FALSE]
      /\ book' = [book EXCEPT ![d] = {}]
      /\ touched' = touched \ {d} /\ overtaken' = overtaken \ {d}
      /\ UNCHANGED <<next, closed, call, edits>>
      BY DEF Delete
<1>3. /\ deposit' \in [Deposits -> Deposit] /\ \A e \in Deposits \ {d} : deposit'[e] = deposit[e]
      /\ deposit'[d].status = deposit[d].status /\ ~ deposit'[d].live
      /\ deposit'[d].figures = deposit[d].figures
      /\ deposit'[d].submitted = deposit[d].submitted /\ deposit'[d].revision = deposit[d].revision
      BY <1>1, <1>2 DEF Deposit
<1>4. /\ book' \in [Deposits -> SUBSET Voucher] /\ book'[d] = {}
      /\ \A e \in Deposits \ {d} : book'[e] = book[e]
      BY <1>1, <1>2
<1>5. Rest' /\ next <= next' BY <1>1, <1>2 DEF Rest
<1>6. Sound(deposit'[d], book'[d], next') BY <1>1, <1>3, <1>4 DEF Sound, NumberedBelow
<1>7. OneHead(book'[d]) /\ Agree(deposit'[d], book'[d]) /\ KeptClosed(book[d], book'[d])
      BY <1>3, <1>4 DEF OneHead, Agree, KeptClosed
<1>8. \A e \in Deposits \ {d} : (e \in touched' <=> e \in touched) /\ (e \in overtaken' <=> e \in overtaken)
      BY <1>2
<1> QED BY <1>1, <1>3, <1>4, <1>5, <1>6, <1>7, <1>8, OneDepositStep

\* The general ledger: the deposit counts as touched.
LEMMA VoucherStep ==
    ASSUME DepositsAssumption, DepositInv, NEW d \in Deposits, NEW C \in SUBSET Voucher,
           book' = [book EXCEPT ![d] = C], Touch(d),
           UNCHANGED <<deposit, next, closed, call, overtaken>>,
           deposit[d].status = "approved", NumberedBelow(C, next), KeptClosed(book[d], C)
    PROVE  Good
<1>1. /\ deposit \in [Deposits -> Deposit] /\ book \in [Deposits -> SUBSET Voucher] /\ Rest
      /\ Sound(deposit[d], book[d], next)
      BY DEF DepositInv
<1>2. /\ book' \in [Deposits -> SUBSET Voucher] /\ book'[d] = C
      /\ \A e \in Deposits \ {d} : book'[e] = book[e]
      BY <1>1
<1>3. edits' \in 0 .. MaxEdits /\ touched' = touched \cup {d} BY <1>1 DEF Touch, Rest, DepositsAssumption
<1>4. Rest' /\ next <= next' BY <1>1, <1>3 DEF Rest
<1>5. Sound(deposit'[d], book'[d], next') BY <1>1, <1>2 DEF Sound
<1>6. deposit' \in [Deposits -> Deposit] /\ KeptClosed(book[d], book'[d]) BY <1>1, <1>2
<1>7. /\ d \in touched'
      /\ \A e \in Deposits \ {d} : /\ deposit'[e] = deposit[e] /\ book'[e] = book[e]
                                   /\ e \in touched' <=> e \in touched
                                   /\ e \in overtaken' <=> e \in overtaken
      BY <1>2, <1>3
<1> QED BY <1>2, <1>4, <1>5, <1>6, <1>7, OneDepositStep

LEMMA RemoveStep ==
    ASSUME DepositsAssumption, DepositInv, NEW d \in Deposits, NEW v \in book[d], RemoveVoucher(d, v)
    PROVE  Good
<1>1. /\ book[d] \subseteq Voucher /\ NumberedBelow(book[d], next)
      /\ deposit[d].status # "approved" => book[d] = {}
      BY DEF DepositInv, Sound
<1>2. /\ book' = [book EXCEPT ![d] = book[d] \ {v}] /\ Touch(d)
      /\ UNCHANGED <<deposit, next, closed, call, overtaken>>
      BY DEF RemoveVoucher
<1>3. NumberedBelow(book[d] \ {v}, next) /\ KeptClosed(book[d], book[d] \ {v})
      BY <1>1 DEF NumberedBelow, KeptClosed
<1> QED BY <1>1, <1>2, <1>3, VoucherStep

LEMMA EditStep ==
    ASSUME DepositsAssumption, DepositInv, NEW d \in Deposits, NEW v \in book[d], NEW w \in Edits(v),
           EditVoucher(d, v, w)
    PROVE  Good
<1> DEFINE C == (book[d] \ {v}) \cup {w}
<1>1. /\ book[d] \subseteq Voucher /\ NumberedBelow(book[d], next)
      /\ deposit[d].status # "approved" => book[d] = {}
      BY DEF DepositInv, Sound
<1>2. /\ v.day \notin closed /\ w.day \notin closed
      /\ book' = [book EXCEPT ![d] = C] /\ Touch(d)
      /\ UNCHANGED <<deposit, next, closed, call, overtaken>>
      BY DEF EditVoucher
<1>3. v \in Voucher BY <1>1
<1>4. w \in Voucher /\ w.no = v.no
  <2>1. CASE \E h \in Heads : w = [v EXCEPT !.head = h] BY <1>3, <2>1 DEF Voucher
  <2>2. CASE \E n \in 1 .. MaxAmount : w = [v EXCEPT !.amount = n]
    <3>1. PICK n \in 1 .. MaxAmount : w = [v EXCEPT !.amount = n] BY <2>2
    <3>2. n \in 1 .. 2 * MaxAmount BY DEF DepositsAssumption
    <3> QED BY <1>3, <3>1, <3>2 DEF Voucher
  <2>3. CASE \E a \in Accounts : w = [v EXCEPT !.account = a] BY <1>3, <2>3 DEF Voucher
  <2>4. CASE \E P \in SUBSET Accounts : w = [v EXCEPT !.method = P] BY <1>3, <2>4 DEF Voucher
  <2>5. CASE \E n \in Dates : w = [v EXCEPT !.day = n] BY <1>3, <2>5 DEF Voucher
  <2> QED BY <2>1, <2>2, <2>3, <2>4, <2>5 DEF Edits
<1>5. C \in SUBSET Voucher BY <1>1, <1>4
<1>6. NumberedBelow(C, next) BY <1>1, <1>4 DEF NumberedBelow
<1>7. KeptClosed(book[d], C) BY <1>1, <1>2, <1>4 DEF KeptClosed, NumberedBelow
<1> HIDE DEF C
<1> QED BY <1>1, <1>2, <1>5, <1>6, <1>7, VoucherStep

-----------------------------------------------------------------------------
(* The theorems                                                             *)

LEMMA InitInv ==
    ASSUME DepositsAssumption, DepositInit
    PROVE  DepositInv
<1>1. Blank \in [Fields -> Amounts] BY DEF Blank, Amounts, DepositsAssumption
<1>2. /\ deposit \in [Deposits -> Deposit]
      /\ \A d \in Deposits : deposit[d].status = "none" /\ deposit[d].submitted = 0
      BY DEF DepositInit, Deposit, Dates, DepositsAssumption
<1>3. book \in [Deposits -> SUBSET Voucher] /\ \A d \in Deposits : book[d] = {} BY DEF DepositInit
<1>4. Rest BY DEF DepositInit, Rest, DepositsAssumption
<1>5. ASSUME NEW d \in Deposits
      PROVE  Sound(deposit[d], book[d], next) /\ OneHead(book[d]) /\ Agree(deposit[d], book[d])
      BY <1>2, <1>3 DEF Sound, NumberedBelow, OneHead, Agree
<1> QED BY <1>2, <1>3, <1>4, <1>5 DEF DepositInv

LEMMA NextIsGood ==
    ASSUME DepositsAssumption, DepositInv, DepositNext
    PROVE  Good
<1>1. CASE \E d \in Deposits, f \in Payments, n \in Dates : Create(d, f, n)
      BY <1>1, BranchSteps
<1>2. ASSUME NEW d \in Deposits, NEW f \in Payments, Edit(d, f) \/ Resubmit(d, f) PROVE Good
  <2>1. Today \in Dates BY DEF Dates, DepositsAssumption
  <2> QED BY <1>2, <2>1, BranchSteps
<1>3. ASSUME NEW d \in Deposits, Forward(d) \/ RejectDeposit(d) PROVE Good
  <2>1. Today \in Dates BY DEF Dates, DepositsAssumption
  <2>2. deposit[d].status \notin {"none"} BY <1>3 DEF Forward, RejectDeposit, WithAccounts, Decidable, Standing
  <2>3. deposit[d].figures \in Payments BY <2>2 DEF DepositInv, Sound
  <2> QED BY <1>3, <2>1, <2>3, BranchSteps
<1>4. CASE \E d \in Deposits : Approve(d) \/ Delete(d) BY <1>4, ApproveStep, DeleteStep
<1>5. CASE \E d \in Deposits, n \in Dates : Redate(d, n) BY <1>5, RedateStep
<1>6. CASE \E d \in Deposits : \E v \in book[d] :
             RemoveVoucher(d, v) \/ \E w \in Edits(v) \ {v} : EditVoucher(d, v, w)
      BY <1>6, RemoveStep, EditStep
<1>7. CASE \E c \in Callers : (\E d \in Deposits : Read(c, d)) \/ GiveUp(c)
      BY <1>7, ReadStep, GiveUpStep
<1>8. CASE \E c \in Callers, k \in Fields, m \in Amounts : AmendWrite(c, k, m) BY <1>8, AmendStep
<1>9. CASE \E c \in Callers, k \in Fields, m \in Amounts, n \in Dates, approve \in BOOLEAN :
             CorrectWrite(c, k, m, n, approve)
      BY <1>9, CorrectStep
<1>10. CASE \E n \in Dates : CloseDay(n) BY <1>10, CloseDayStep
<1> QED BY <1>1, <1>2, <1>3, <1>4, <1>5, <1>6, <1>7, <1>8, <1>9, <1>10 DEF DepositNext

LEMMA StutterIsGood ==
    ASSUME DepositInv, UNCHANGED depositVars
    PROVE  Good
<1>1. Rest' BY DEF depositVars, DepositInv, Rest
<1> QED BY <1>1, NoDepositStep DEF depositVars

LEMMA Invariance ==
    ASSUME DepositsAssumption
    PROVE  DepositSpec => []DepositInv
<1>1. DepositInit => DepositInv BY InitInv
<1>2. DepositInv /\ [DepositNext]_depositVars => DepositInv' BY NextIsGood, StutterIsGood DEF Good
<1> QED BY <1>1, <1>2, PTL DEF DepositSpec

\* Deposits and receipts are always of their kind, and no deposit is of nothing.
THEOREM TypeCorrect ==
    ASSUME DepositsAssumption
    PROVE  DepositSpec => []DepositTypeOK
<1>1. DepositInv => DepositTypeOK BY Unfold
<1> QED BY <1>1, Invariance, PTL

\* The general ledger follows an approved deposit through every order of approval,
\* correction, redating and deletion (sync_cash_transfer_entries under the deposit's lock),
\* unless it changed the receipts itself or a correction was overtaken after its read.
THEOREM BookFollows ==
    ASSUME DepositsAssumption
    PROVE  DepositSpec => []BookFollowsDeposit
<1>1. DepositInv => BookFollowsDeposit BY Unfold
<1> QED BY <1>1, Invariance, PTL

\* No slice of a deposit is booked twice, however many corrections are in flight.
THEOREM NeverBookedTwice ==
    ASSUME DepositsAssumption
    PROVE  DepositSpec => []OneVoucherEach
<1>1. DepositInv => OneVoucherEach BY Unfold
<1> QED BY <1>1, Invariance, PTL

\* A decided deposit was submitted by Accounts in the revision it has.
THEOREM Decided ==
    ASSUME DepositsAssumption
    PROVE  DepositSpec => []DecidedAsSubmitted
<1>1. DepositInv => DecidedAsSubmitted BY Unfold
<1> QED BY <1>1, Invariance, PTL

\* The figures Accounts submitted change by a help desk's amendment alone.
THEOREM SubmittedStays ==
    ASSUME DepositsAssumption
    PROVE  DepositSpec => SubmittedIsKept
<1>1. DepositInv /\ [DepositNext]_depositVars => [KeepsSubmitted]_depositVars
      BY NextIsGood, StutterIsGood DEF Good
<1> QED BY <1>1, Invariance, PTL DEF DepositSpec, SubmittedIsKept

\* No step adds a receipt to a closed finance day, changes one there or moves it.
THEOREM ClosedStays ==
    ASSUME DepositsAssumption
    PROVE  DepositSpec => ClosedDayKept
<1>1. DepositInv /\ [DepositNext]_depositVars => [KeepsClosed]_depositVars
      BY NextIsGood, StutterIsGood DEF Good
<1> QED BY <1>1, Invariance, PTL DEF DepositSpec, ClosedDayKept

=============================================================================
