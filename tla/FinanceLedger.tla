---------------------------- MODULE FinanceLedger ----------------------------
(***************************************************************************)
(* The general ledger: vouchers with a stored running balance, their       *)
(* corrections, and the closing of a finance day.                          *)
(*                                                                         *)
(* A posting checks that its day is open, waits for the ledger's advisory  *)
(* lock, reads the last balance and inserts.  A correction locks its       *)
(* voucher's row, checks its day, changes it, waits for the same lock and  *)
(* rewrites the balances behind it.  Both commit with the lock.  Closing a *)
(* day is no transaction at all: the API reads the day's figures, counts   *)
(* what is pending and inserts the closing, one call after another.        *)
(* An effect shows in the variables when its transaction commits.          *)
(***************************************************************************)
EXTENDS Integers, Sequences, FiniteSetsExt

CONSTANTS
    Clerks,      \* people of Finance, a call each
    Days,        \* business dates, in order
    Figures,     \* debit - credit of a voucher
    Forms,       \* the edits a client may send: <<fields it sets, fields it expects>>
    MaxEntries,  \* bound on the vouchers
    MaxPending,  \* bound: the documents of a day that wait for approval
    MaxClosed    \* bound on the days closed

\* The two fields of a voucher that are told apart.
VoucherFields == {"day", "figure"}

ASSUME LedgerAssumption ==
    /\ Days \subseteq Nat
    /\ Figures \subseteq Int \ {0}
    /\ Forms \subseteq ((SUBSET VoucherFields) \ {{}}) \X SUBSET VoucherFields
    /\ MaxEntries \in Nat
    /\ MaxPending \in Nat
    /\ MaxClosed \in Nat

VARIABLES
    entries,   \* ledger_entries in posting order (seq)
    pending,   \* per day, the documents countPendingForDate counts
    closings,  \* finance_day_closings: per day, the net figure signed off
    tx         \* per clerk, the call in progress

vars == <<entries, pending, closings, tx>>

Entry == [day: Days, figure: Figures, balance: Int, deleted: {"no", "book", "desk"}]
Open == [closed |-> FALSE]
Closed == [closed: {TRUE}, net: Int]

Idle == [op |-> "none"]
\* prev: the balance read under the ledger lock.
Posting == [op: {"post", "approve"}, step: {"waiting", "locked"}, day: Days, figure: Figures, prev: Int]
\* day, figure: what the voucher is to say; set: which of the two the call names; expected:
\* what of its screen the call sends along; seen: the voucher as its transaction read it.
Correcting == [op: {"edit", "adjust", "delete", "desk"}, step: {"looking", "waiting", "locked"},
               entry: 1 .. MaxEntries, day: Days, figure: Figures, set: SUBSET VoucherFields,
               expected: SUBSET (({"day"} \X Days) \cup ({"figure"} \X Figures)),
               seen: Days \X Figures]
Closing == [op: {"close"}, step: {"read", "counted"}, day: Days, net: Int]

-----------------------------------------------------------------------------
IsOpen(d) == closings[d] = Open

Live(i) == i \in DOMAIN entries /\ entries[i].deleted = "no"

Counted(e) == IF e.deleted = "no" THEN e.figure ELSE 0

\* sum(debit - credit) OVER (ORDER BY seq)
Running(book) ==
    LET total[i \in 0 .. Len(book)] == IF i = 0 THEN 0 ELSE total[i - 1] + Counted(book[i])
    IN total

SumUpTo(book, i) == Running(book)[i]

\* finance_day_summary: income less expenses of a day.
Net(d) ==
    MapThenSumSet(LAMBDA j : entries[j].figure,
                  {j \in DOMAIN entries : entries[j].deleted = "no" /\ entries[j].day = d})

LastBalance ==
    LET live == {i \in DOMAIN entries : Live(i)} IN
    IF live = {} THEN 0 ELSE entries[Max(live)].balance

\* recompute_finance_ledger_balances
Rebalanced(book) ==
    [i \in DOMAIN book |->
       IF book[i].deleted = "no" THEN [book[i] EXCEPT !.balance = SumUpTo(book, i)] ELSE book[i]]

-----------------------------------------------------------------------------
(* Locks                                                                    *)

InTransaction(c) == tx[c] # Idle /\ tx[c].op # "close" /\ tx[c].step # "looking"

LedgerFreeNever == TRUE

\* pg_advisory_xact_lock(finance_ledger_post)
LedgerFree == \A c \in Clerks : InTransaction(c) => tx[c].step # "locked"

Corrects(c) == tx[c].op \in {"edit", "adjust", "delete", "desk"}

RowFree(i) == \A c \in Clerks : InTransaction(c) /\ Corrects(c) => tx[c].entry # i

-----------------------------------------------------------------------------
Init ==
    /\ entries = <<>>
    /\ pending = [d \in Days |-> 0]
    /\ closings = [d \in Days |-> Open]
    /\ tx = [c \in Clerks |-> Idle]

\* A document dated d is submitted, or rejected (its row is locked by an approval).
Submit(d) ==
    /\ \A e \in Days : pending[e] < MaxPending
    /\ pending' = [pending EXCEPT ![d] = @ + 1]
    /\ UNCHANGED <<entries, closings, tx>>

Approving(d) == {c \in Clerks : tx[c] # Idle /\ tx[c].op = "approve" /\ tx[c].day = d}

Awaiting(d) == pending[d] > Cardinality(Approving(d))

Reject(d) ==
    /\ Awaiting(d)
    /\ pending' = [pending EXCEPT ![d] = @ - 1]
    /\ UNCHANGED <<entries, closings, tx>>

-----------------------------------------------------------------------------
(* Posting: from a document that counts as pending (approve) or from a      *)
(* workflow that does not, such as a supplier payment (post)                *)

BeginPost(c, op, d, n) ==
    /\ tx[c] = Idle
    /\ IsOpen(d)
    /\ op = "approve" => Awaiting(d)
    /\ Len(entries) < MaxEntries
    /\ tx' = [tx EXCEPT ![c] = [op |-> op, step |-> "waiting", day |-> d, figure |-> n, prev |-> 0]]
    /\ UNCHANGED <<entries, pending, closings>>

LockToPost(c) ==
    /\ tx[c] # Idle /\ tx[c].op \in {"post", "approve"} /\ tx[c].step = "waiting"
    /\ LedgerFree
    /\ tx' = [tx EXCEPT ![c].step = "locked", ![c].prev = LastBalance]
    /\ UNCHANGED <<entries, pending, closings>>

CommitPost(c) ==
    /\ tx[c] # Idle /\ tx[c].op \in {"post", "approve"} /\ tx[c].step = "locked"
    /\ Len(entries) < MaxEntries
    /\ entries' = Append(entries, [day |-> tx[c].day, figure |-> tx[c].figure,
                                   balance |-> tx[c].prev + tx[c].figure, deleted |-> "no"])
    /\ pending' = IF tx[c].op = "approve" THEN [pending EXCEPT ![tx[c].day] = @ - 1] ELSE pending
    /\ tx' = [tx EXCEPT ![c] = Idle]
    /\ UNCHANGED closings

-----------------------------------------------------------------------------
(* Correcting                                                               *)

Says(i) == <<entries[i].day, entries[i].figure>>

Field(says, k) == IF k = "day" THEN says[1] ELSE says[2]

Correction(op, step, i, d, n, set, expected, seen) ==
    [op |-> op, step |-> step, entry |-> i, day |-> d, figure |-> n, set |-> set,
     expected |-> {<<k, Field(Says(i), k)>> : k \in expected}, seen |-> seen]

\* A voucher keeps its side of the book.
SameSide(i, n) == (n > 0) = (entries[i].figure > 0)

\* The editor's screen: the voucher as it is, and what the editor changes on it.
Look(c, i, d, n, set, expected) ==
    /\ tx[c] = Idle
    /\ Live(i)
    /\ SameSide(i, n)
    /\ \A k \in VoucherFields : Field(<<d, n>>, k) # Field(Says(i), k) <=> k \in set
    /\ tx' = [tx EXCEPT ![c] = Correction("edit", "looking", i, d, n, set, expected, <<d, n>>)]
    /\ UNCHANGED <<entries, pending, closings>>

AnyRow(t) == TRUE

\* `expected` of edit_finance_ledger_entry: the fields the caller sent are compared
StillAsSeen(t) ==
    \A e \in t.expected : Field(Says(t.entry), e[1]) = e[2]

\* A field the call does not name stays what it is when the row is locked.
OnRow(t) ==
    [t EXCEPT !.step = "waiting", !.seen = Says(t.entry),
              !.day = IF "day" \in t.set THEN @ ELSE entries[t.entry].day,
              !.figure = IF "figure" \in t.set THEN @ ELSE entries[t.entry].figure]

OpenFrom(old, new) == IsOpen(old)

\* Nothing on a closed day changes and nothing lands on it.
OpenBoth(old, new) == IsOpen(old) /\ IsOpen(new)

BeginEdit(c) ==
    /\ tx[c] # Idle /\ tx[c].op = "edit" /\ tx[c].step = "looking"
    /\ Live(tx[c].entry)
    /\ RowFree(tx[c].entry)
    /\ StillAsSeen(tx[c])
    /\ OpenBoth(entries[tx[c].entry].day, OnRow(tx[c]).day)
    /\ tx' = [tx EXCEPT ![c] = OnRow(@)]
    /\ UNCHANGED <<entries, pending, closings>>

\* reverse_finance_ledger_entry, with a corrected amount or without: it compares nothing.
BeginAdjust(c, i, n) ==
    /\ tx[c] = Idle
    /\ Live(i) /\ RowFree(i)
    /\ SameSide(i, n)
    /\ IsOpen(entries[i].day)
    /\ tx' = [tx EXCEPT ![c] = Correction("adjust", "waiting", i, entries[i].day, n, {"figure"}, {}, Says(i))]
    /\ UNCHANGED <<entries, pending, closings>>

BeginDelete(c, i) ==
    /\ tx[c] = Idle
    /\ Live(i) /\ RowFree(i)
    /\ IsOpen(entries[i].day)
    /\ tx' = [tx EXCEPT ![c] = Correction("delete", "waiting", i, entries[i].day, entries[i].figure, {}, {}, Says(i))]
    /\ UNCHANGED <<entries, pending, closings>>

\* soft_delete_finance_record: the Help Desk asks for no open day.
BeginDeskDelete(c, i) ==
    /\ tx[c] = Idle
    /\ Live(i) /\ RowFree(i)
    /\ tx' = [tx EXCEPT ![c] = Correction("desk", "waiting", i, entries[i].day, entries[i].figure, {}, {}, Says(i))]
    /\ UNCHANGED <<entries, pending, closings>>

\* A change that moves no figure needs no new balances.
MovesBalance(t) == t.op \in {"delete", "desk"} \/ t.figure # entries[t.entry].figure

Corrected(t) ==
    CASE t.op = "delete" -> [entries EXCEPT ![t.entry].deleted = "book"]
      [] t.op = "desk"   -> [entries EXCEPT ![t.entry].deleted = "desk"]
      [] OTHER           -> [entries EXCEPT ![t.entry].day = t.day, ![t.entry].figure = t.figure]

CommitUnmoved(c) ==
    /\ tx[c] # Idle /\ Corrects(c) /\ tx[c].step = "waiting"
    /\ ~MovesBalance(tx[c])
    /\ entries' = Corrected(tx[c])
    /\ tx' = [tx EXCEPT ![c] = Idle]
    /\ UNCHANGED <<pending, closings>>

LockToRebalance(c) ==
    /\ tx[c] # Idle /\ Corrects(c) /\ tx[c].step = "waiting"
    /\ MovesBalance(tx[c])
    /\ LedgerFree
    /\ tx' = [tx EXCEPT ![c].step = "locked"]
    /\ UNCHANGED <<entries, pending, closings>>

\* The rows whose balance changes; other corrections may hold them.
Rewritten(book) == {i \in DOMAIN book : Rebalanced(book)[i].balance # book[i].balance}

Rebalance(c) ==
    LET book == Corrected(tx[c]) IN
    /\ tx[c] # Idle /\ Corrects(c) /\ tx[c].step = "locked"
    /\ \A i \in Rewritten(book) : i = tx[c].entry \/ RowFree(i)
    /\ entries' = Rebalanced(book)
    /\ tx' = [tx EXCEPT ![c] = Idle]
    /\ UNCHANGED <<pending, closings>>

\* A refusal, a lost connection, or the victim of a deadlock.
Abort(c) ==
    /\ tx[c] # Idle
    /\ tx' = [tx EXCEPT ![c] = Idle]
    /\ UNCHANGED <<entries, pending, closings>>

-----------------------------------------------------------------------------
(* closeFinanceDay: three calls, no lock                                    *)

ReadDay(c, d) ==
    /\ tx[c] = Idle
    /\ IsOpen(d)
    /\ tx' = [tx EXCEPT ![c] = [op |-> "close", step |-> "read", day |-> d, net |-> Net(d)]]
    /\ UNCHANGED <<entries, pending, closings>>

CountPending(c) ==
    /\ tx[c] # Idle /\ tx[c].op = "close" /\ tx[c].step = "read"
    /\ pending[tx[c].day] = 0
    /\ tx' = [tx EXCEPT ![c].step = "counted"]
    /\ UNCHANGED <<entries, pending, closings>>

\* The primary key refuses a second closing (Abort).
InsertClosing(c) ==
    /\ tx[c] # Idle /\ tx[c].op = "close" /\ tx[c].step = "counted"
    /\ IsOpen(tx[c].day)
    /\ Cardinality({d \in Days : ~IsOpen(d)}) < MaxClosed
    /\ closings' = [closings EXCEPT ![tx[c].day] = [closed |-> TRUE, net |-> tx[c].net]]
    /\ tx' = [tx EXCEPT ![c] = Idle]
    /\ UNCHANGED <<entries, pending>>

-----------------------------------------------------------------------------
Documents ==
    \/ \E d \in Days : Submit(d)
    \/ \E d \in Days : Reject(d)

Vouchers ==
    \/ \E c \in Clerks, op \in {"post", "approve"}, d \in Days, n \in Figures : BeginPost(c, op, d, n)
    \/ \E c \in Clerks : LockToPost(c)
    \/ \E c \in Clerks : CommitPost(c)

Corrections ==
    \/ \E c \in Clerks, i \in DOMAIN entries, d \in Days, n \in Figures,
          f \in Forms : Look(c, i, d, n, f[1], f[2])
    \/ \E c \in Clerks : BeginEdit(c)
    \/ \E c \in Clerks, i \in DOMAIN entries, n \in Figures : BeginAdjust(c, i, n)
    \/ \E c \in Clerks, i \in DOMAIN entries : BeginDelete(c, i)
    \/ \E c \in Clerks, i \in DOMAIN entries : BeginDeskDelete(c, i)
    \/ \E c \in Clerks : CommitUnmoved(c)
    \/ \E c \in Clerks : LockToRebalance(c)
    \/ \E c \in Clerks : Rebalance(c)
    \/ \E c \in Clerks : Abort(c)

Closings ==
    \/ \E c \in Clerks, d \in Days : ReadDay(c, d)
    \/ \E c \in Clerks : CountPending(c)
    \/ \E c \in Clerks : InsertClosing(c)

Next == Documents \/ Vouchers \/ Corrections \/ Closings

Spec == Init /\ [][Next]_vars

-----------------------------------------------------------------------------
TypeOK ==
    /\ entries \in Seq(Entry) /\ Len(entries) <= MaxEntries
    /\ pending \in [Days -> 0 .. MaxPending]
    /\ closings \in [Days -> {Open} \cup Closed]
    /\ tx \in [Clerks -> {Idle} \cup Posting \cup Correcting \cup Closing]

\* The stored running balance of every voucher is the sum of the book up to it,
\* with postings, edits and deletions of older vouchers waiting for each other.
BalanceIsPrefixSum ==
    \A i \in DOMAIN entries : Live(i) => entries[i].balance = SumUpTo(entries, i)

\* From its check to its commit a correction stands on the voucher as it is: the fields an
\* edit sent as `expected` are what its editor's screen showed, and the fields a call does
\* not name are written back as they are, so nobody's change of those is lost.  (A field
\* named but not expected is overwritten, whatever it says: by every adjustment.)
EditReplacesWhatWasSeen ==
    \A c \in Clerks :
       InTransaction(c) /\ tx[c].op \in {"edit", "adjust"} =>
          LET t == tx[c] IN
          /\ Live(t.entry)
          /\ \A e \in t.expected : Field(Says(t.entry), e[1]) = e[2]
          /\ \A k \in VoucherFields \ t.set : Field(Says(t.entry), k) = Field(<<t.day, t.figure>>, k)

\* No call that passed its check of day d before the closing is still under way.
\* (The Help Desk checks nothing.)
Quiet(d) ==
    \A c \in Clerks :
       InTransaction(c) /\ tx[c].op # "desk" =>
          /\ tx[c].day # d
          /\ Corrects(c) => tx[c].seen[1] # d

OnDay(d) == {<<i, entries[i].figure>> : i \in {j \in DOMAIN entries : Live(j) /\ entries[j].day = d}}

\* Once a day is closed and the calls that were under way have ended, it stays so:
\* nothing is posted on it, moved onto it or off it, or changed; only the Help
\* Desk deletes.
ClosedDayIsKept ==
    [][\A d \in Days : ~IsOpen(d) /\ Quiet(d) =>
         /\ ~IsOpen(d)' /\ Quiet(d)'
         /\ OnDay(d)' \subseteq OnDay(d)
         /\ \A v \in OnDay(d) \ OnDay(d)' : entries'[v[1]].deleted = "desk"]_vars
=============================================================================
