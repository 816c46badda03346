------------------------ MODULE WhatsAppOutboxProofs ------------------------
(***************************************************************************)
(* Theorems about WhatsAppOutbox, for every value of its constants: any    *)
(* number of workers, messages, crashes, lost answers and retries; the     *)
(* last two where a lease outlasts the batch of its worker.                *)
(***************************************************************************)
EXTENDS WhatsAppOutbox, SequenceTheorems, FiniteSetTheorems, TLAPS

-----------------------------------------------------------------------------
(* The inductive invariant                                                  *)

RowStatus == {"none", "pending", "processing", "done", "failed"}
OutboxRow == [status: RowStatus, attempts: Int, ripe: BOOLEAN, text: Texts]
Shown == [status: MessageStatus, id: Nat]

\* The part of the types the argument needs: attempts are not bounded here.
Shape ==
    /\ outbox \in [Messages -> OutboxRow]
    /\ message \in [Messages -> Shown]
    /\ worker \in [Workers -> [batch: SUBSET Claimed, answer: Answer \cup {NoAnswer}]]
    /\ meta \in Seq(Claimed)

\* The link is masked only in the row of a message Meta took, and nobody holds
\* a masked copy.
TextIsWhole ==
    /\ \A m \in Linked : outbox[m].status # "done" => outbox[m].text = "whole"
    /\ \A w \in Workers : \A c \in worker[w].batch : c.message \in Linked => c.text = "whole"

\* An answer a worker has to record names the message Meta took under that id.
AnswerIsMetas ==
    \A w \in Workers :
       worker[w].answer # NoAnswer /\ worker[w].answer.id > 0 =>
          /\ worker[w].answer.id \in DOMAIN meta
          /\ meta[worker[w].answer.id].message = worker[w].answer.message

\* A message with a link has an id only once its row is done, and no status
\* before it was enqueued.
IdComesWithDone ==
    \A m \in Linked :
       /\ outbox[m].status # "done" => message[m].id = 0
       /\ outbox[m].status = "none" => message[m].status = "none"

LinkInv ==
    Shape /\ TextIsWhole /\ AnswerIsMetas /\ IdComesWithDone /\ NoDeadLink /\ LinkTellsQueue

LEMMA LinkInit == Init => LinkInv
<1> SUFFICES ASSUME Init PROVE LinkInv
  OBVIOUS
<1>1. Shape
  BY DEF Init, Shape, OutboxRow, RowStatus, Shown, Texts, MessageStatus, NoWork
<1>2. TextIsWhole /\ AnswerIsMetas
  BY OutboxAssumption DEF Init, TextIsWhole, AnswerIsMetas, NoWork, NoAnswer
<1>3. IdComesWithDone /\ NoDeadLink /\ LinkTellsQueue
  BY OutboxAssumption DEF Init, IdComesWithDone, NoDeadLink, LinkTellsQueue
<1> QED
  BY <1>1, <1>2, <1>3 DEF LinkInv

-----------------------------------------------------------------------------
(* What the steps do to one row and one message                             *)

RowMoves(m, st) ==
    /\ outbox' \in [Messages -> OutboxRow]
    /\ \A k \in Messages \ {m} : outbox'[k] = outbox[k]
    /\ outbox'[m].status = st

RowKeepsText(m) == outbox'[m].text = outbox[m].text

MessageMoves(m, st, id) ==
    /\ message' \in [Messages -> Shown]
    /\ \A k \in Messages \ {m} : message'[k] = message[k]
    /\ message'[m].status = st
    /\ message'[m].id = id

LEMMA AttemptsType ==
    ASSUME NEW x \in OutboxRow, NEW n \in Int
    PROVE  LET y == [x EXCEPT !.attempts = n] IN
           y \in OutboxRow /\ y.text = x.text /\ y.status = x.status /\ y.ripe = x.ripe
  BY DEF OutboxRow

LEMMA ClaimedRowType ==
    ASSUME NEW x \in OutboxRow
    PROVE  LET y == [x EXCEPT !.status = "processing", !.ripe = FALSE, !.attempts = @ + 1] IN
           y \in OutboxRow /\ y.text = x.text /\ y.status = "processing" /\ ~y.ripe
<1> DEFINE y == [x EXCEPT !.status = "processing", !.ripe = FALSE]
<1>1. y \in OutboxRow /\ y.text = x.text /\ y.status = "processing" /\ ~y.ripe
  BY DEF OutboxRow, RowStatus
<1>2. x.attempts + 1 \in Int
  <2>1. x.attempts \in Int
    BY DEF OutboxRow
  <2> QED
    BY <2>1
<1>3. [y EXCEPT !.attempts = x.attempts + 1]
        = [x EXCEPT !.status = "processing", !.ripe = FALSE, !.attempts = @ + 1]
  OBVIOUS
<1> HIDE DEF y
<1> QED
  BY <1>1, <1>2, <1>3, AttemptsType

LEMMA RetriedRowType ==
    ASSUME NEW x \in OutboxRow
    PROVE  LET y == [x EXCEPT !.status = "pending", !.attempts = 0, !.ripe = TRUE] IN
           y \in OutboxRow /\ y.text = x.text /\ y.status = "pending"
<1> DEFINE y == [x EXCEPT !.status = "pending"]
           z == [y EXCEPT !.attempts = 0]
<1>1. y \in OutboxRow /\ y.text = x.text /\ y.status = "pending"
  BY DEF OutboxRow, RowStatus
<1>2. [z EXCEPT !.ripe = TRUE]
        = [x EXCEPT !.status = "pending", !.attempts = 0, !.ripe = TRUE]
  OBVIOUS
<1> HIDE DEF y
<1>3. z \in OutboxRow /\ z.text = x.text /\ z.status = "pending"
  BY <1>1, AttemptsType
<1> HIDE DEF z
<1>4. /\ [z EXCEPT !.ripe = TRUE] \in OutboxRow
      /\ [z EXCEPT !.ripe = TRUE].text = z.text
      /\ [z EXCEPT !.ripe = TRUE].status = z.status
  BY <1>3 DEF OutboxRow
<1> QED
  BY <1>2, <1>3, <1>4

LEMMA EnqueueEffect ==
    ASSUME Shape, NEW m \in Messages, Enqueue(m)
    PROVE  /\ RowMoves(m, "pending") /\ RowKeepsText(m)
           /\ MessageMoves(m, "queued", message[m].id)
<1>1. outbox \in [Messages -> OutboxRow] /\ message \in [Messages -> Shown]
  BY DEF Shape
<1>2. RowMoves(m, "pending") /\ RowKeepsText(m)
  BY <1>1 DEF Enqueue, RowMoves, RowKeepsText, OutboxRow, RowStatus
<1>3. MessageMoves(m, "queued", message[m].id)
  BY <1>1 DEF Enqueue, MessageMoves, Shown, MessageStatus
<1> QED
  BY <1>2, <1>3

LEMMA RetryEffect ==
    ASSUME Shape, NEW m \in Messages, Retry(m)
    PROVE  /\ RowMoves(m, "pending") /\ RowKeepsText(m)
           /\ MessageMoves(m, "queued", message[m].id)
<1>1. outbox \in [Messages -> OutboxRow] /\ message \in [Messages -> Shown]
  BY DEF Shape
<1>2. RowMoves(m, "pending") /\ RowKeepsText(m)
  <2> DEFINE y == [outbox[m] EXCEPT !.status = "pending", !.attempts = 0, !.ripe = TRUE]
  <2>1. y \in OutboxRow /\ y.text = outbox[m].text /\ y.status = "pending"
    BY <1>1, RetriedRowType
  <2>2. outbox' = [k \in Messages |-> IF k = m THEN y ELSE outbox[k]]
    BY <1>1 DEF Retry
  <2> HIDE DEF y
  <2> QED
    BY <1>1, <2>1, <2>2 DEF RowMoves, RowKeepsText
<1>3. MessageMoves(m, "queued", message[m].id)
  BY <1>1 DEF Retry, MessageMoves, Shown, MessageStatus
<1> QED
  BY <1>2, <1>3

LEMMA ClockEffect ==
    ASSUME Shape, NEW m \in Messages, BackoffPasses(m) \/ LeaseLapses(m)
    PROVE  RowMoves(m, outbox[m].status) /\ RowKeepsText(m)
<1>1. outbox \in [Messages -> OutboxRow] /\ outbox' = [outbox EXCEPT ![m].ripe = TRUE]
  BY DEF Shape, BackoffPasses, LeaseLapses
<1> QED
  BY <1>1 DEF RowMoves, RowKeepsText, OutboxRow

LEMMA DoneEffect ==
    ASSUME Shape, NEW m \in Messages, NEW id \in Nat, Done(m, id)
    PROVE  RowMoves(m, "done") /\ MessageMoves(m, "accepted", id)
<1>1. outbox \in [Messages -> OutboxRow] /\ message \in [Messages -> Shown]
  BY DEF Shape
<1>2. MaskedText(m) \in Texts
  BY <1>1 DEF MaskedText, OutboxRow, Texts
<1>3. RowMoves(m, "done")
  BY <1>1, <1>2 DEF Done, RowMoves, OutboxRow, RowStatus
<1>4. MessageMoves(m, "accepted", id)
  <2>1. message' = [message EXCEPT ![m] = [status |-> "accepted", id |-> id]]
    BY DEF Done
  <2> QED
    BY <1>1, <2>1 DEF MessageMoves, Shown, MessageStatus
<1> QED
  BY <1>3, <1>4

LEMMA TryAgainEffect ==
    ASSUME Shape, NEW m \in Messages, TryAgain(m)
    PROVE  RowMoves(m, "pending") /\ RowKeepsText(m) /\ UNCHANGED message
  BY DEF Shape, TryAgain, RowMoves, RowKeepsText, OutboxRow, RowStatus

LEMMA GiveUpEffect ==
    ASSUME Shape, NEW m \in Messages, GiveUp(m)
    PROVE  /\ RowMoves(m, "failed") /\ RowKeepsText(m)
           /\ MessageMoves(m, "failed", message[m].id)
<1>1. outbox \in [Messages -> OutboxRow] /\ message \in [Messages -> Shown]
  BY DEF Shape
<1>2. RowMoves(m, "failed") /\ RowKeepsText(m)
  BY <1>1 DEF GiveUp, RowMoves, RowKeepsText, OutboxRow, RowStatus
<1>3. MessageMoves(m, "failed", message[m].id)
  BY <1>1 DEF GiveUp, MessageMoves, Shown, MessageStatus
<1> QED
  BY <1>2, <1>3

-----------------------------------------------------------------------------
(* One lemma per kind of step                                               *)

\* A message goes back to the queue that WhatsApp never took.
LEMMA QueuedKeeps ==
    ASSUME LinkInv, NEW m \in Messages, outbox[m].status # "done" \/ m \notin Linked,
           RowMoves(m, "pending"), RowKeepsText(m),
           MessageMoves(m, "queued", message[m].id), UNCHANGED <<worker, meta>>
    PROVE  LinkInv'
<1> USE DEF LinkInv
<1>1. Shape'
  BY DEF Shape, RowMoves, MessageMoves
<1>2. TextIsWhole' /\ AnswerIsMetas' /\ NoDeadLink'
  BY OutboxAssumption DEF TextIsWhole, AnswerIsMetas, NoDeadLink, RowMoves, RowKeepsText
<1>3. IdComesWithDone' /\ LinkTellsQueue'
  BY OutboxAssumption DEF IdComesWithDone, LinkTellsQueue, RowMoves, MessageMoves
<1> QED
  BY <1>1, <1>2, <1>3

LEMMA ClaimKeeps ==
    ASSUME LinkInv, NEW w \in Workers, NEW S \in SUBSET Messages, Claim(w, S)
    PROVE  LinkInv'
<1> DEFINE batch == {[message |-> m, text |-> outbox[m].text] : m \in S}
<1> USE DEF LinkInv
<1>1. batch \subseteq Claimed
  BY DEF Shape, Claimed, OutboxRow
<1>2. /\ \A v \in Workers : worker'[v].answer = worker[v].answer
      /\ \A v \in Workers : worker'[v].batch = IF v = w THEN batch ELSE worker[v].batch
      /\ worker' \in [Workers -> [batch: SUBSET Claimed, answer: Answer \cup {NoAnswer}]]
  BY <1>1 DEF Claim, Shape
<1>3. /\ \A m \in Messages : outbox'[m].text = outbox[m].text
      /\ \A m \in Messages :
            outbox'[m].status = IF m \in S THEN "processing" ELSE outbox[m].status
      /\ outbox' \in [Messages -> OutboxRow]
  BY ClaimedRowType DEF Claim, Shape
<1>4. /\ \A m \in S : outbox[m].status \in {"pending", "processing"}
      /\ UNCHANGED <<message, meta>>
  BY DEF Claim, Claimable
<1>5. Shape'
  BY <1>2, <1>3, <1>4 DEF Shape
<1>6. \A c \in batch : c.message \in Linked => c.text = "whole"
  BY <1>4 DEF TextIsWhole
<1>7. TextIsWhole'
  <2>1. \A m \in Linked : outbox'[m].status # "done" => outbox'[m].text = "whole"
    BY <1>3, <1>4, OutboxAssumption DEF TextIsWhole
  <2>2. \A v \in Workers : \A c \in worker'[v].batch : c.message \in Linked => c.text = "whole"
    BY <1>2, <1>6 DEF TextIsWhole
  <2> QED
    BY <2>1, <2>2 DEF TextIsWhole
<1>8. AnswerIsMetas'
  BY <1>2, <1>4 DEF AnswerIsMetas
<1>9. IdComesWithDone' /\ NoDeadLink' /\ LinkTellsQueue'
  BY <1>3, <1>4, OutboxAssumption DEF IdComesWithDone, NoDeadLink, LinkTellsQueue
<1> QED
  BY <1>5, <1>7, <1>8, <1>9

\* A send: a claimed copy leaves the batch, and Meta may have taken it.
LEMMA DeliverKeeps ==
    ASSUME LinkInv, NEW w \in Workers, NEW c \in worker[w].batch, NEW a \in Answer,
           TakeUp(w, c, a), UNCHANGED <<outbox, message>>,
           \/ UNCHANGED meta /\ a.id = 0
           \/ Accept(c) /\ a.id = 0
           \/ Accept(c) /\ a.id = Len(meta) + 1 /\ a.message = c.message
    PROVE  LinkInv'
<1> USE DEF LinkInv
<1>1. c \in Claimed /\ c.message \in Messages
  BY DEF Shape, Claimed
<1>2. /\ \A v \in Workers : worker'[v].batch \subseteq worker[v].batch
      /\ \A v \in Workers : worker'[v].answer = IF v = w THEN a ELSE worker[v].answer
      /\ worker' \in [Workers -> [batch: SUBSET Claimed, answer: Answer \cup {NoAnswer}]]
  BY DEF TakeUp, Shape
<1>3. meta \in Seq(Claimed) /\ Len(meta) \in Nat
  BY DEF Shape
<1>4. /\ meta' \in Seq(Claimed)
      /\ \A i \in DOMAIN meta : i \in DOMAIN meta' /\ meta'[i] = meta[i]
      /\ \A i \in DOMAIN meta' : i \in DOMAIN meta \/ meta'[i] = c
  BY <1>1, <1>3, AppendProperties DEF Accept
<1>5. Shape'
  BY <1>2, <1>4 DEF Shape
<1>6. TextIsWhole'
  BY <1>2 DEF TextIsWhole
<1>7. a.id > 0 => a.id \in DOMAIN meta' /\ meta'[a.id].message = a.message
  BY <1>1, <1>3, AppendProperties DEF Accept
<1>8. AnswerIsMetas'
  BY <1>2, <1>4, <1>7 DEF AnswerIsMetas
<1>9. NoDeadLink'
  BY <1>4 DEF NoDeadLink, TextIsWhole
<1>10. IdComesWithDone' /\ LinkTellsQueue'
  BY <1>4 DEF IdComesWithDone, LinkTellsQueue
<1> QED
  BY <1>5, <1>6, <1>8, <1>9, <1>10

\* What recording an answer does to the row and the message.
Recorded(a) ==
    \/ UNCHANGED <<outbox, message>>
    \/ outbox[a.message].status = "processing" /\ a.id > 0 /\ Done(a.message, a.id)
    \/ outbox[a.message].status = "processing" /\ TryAgain(a.message)
    \/ outbox[a.message].status = "processing" /\ GiveUp(a.message)

LEMMA CompleteCases == ASSUME NEW a, Complete(a) PROVE Recorded(a)
  BY DEF Complete, Recorded

LEMMA RecordKeeps ==
    ASSUME LinkInv, NEW w \in Workers, Record(w)
    PROVE  LinkInv'
<1> DEFINE a == worker[w].answer
<1> USE DEF LinkInv
<1>1. a \in Answer /\ a.message \in Messages /\ a.id \in Nat
  BY OutboxAssumption DEF Record, Shape, Answer
<1>2. /\ \A v \in Workers : worker'[v].batch = worker[v].batch
      /\ \A v \in Workers : worker'[v].answer = IF v = w THEN NoAnswer ELSE worker[v].answer
      /\ worker' \in [Workers -> [batch: SUBSET Claimed, answer: Answer \cup {NoAnswer}]]
      /\ UNCHANGED meta
  BY DEF Record, Shape
<1>3. Recorded(a)
  BY CompleteCases DEF Record
<1>4. a.id > 0 => a.id \in DOMAIN meta /\ meta[a.id].message = a.message
  BY DEF AnswerIsMetas, Record
<1>5. AnswerIsMetas' /\ NoDeadLink'
  BY <1>2 DEF AnswerIsMetas, NoDeadLink
<1>6. CASE UNCHANGED <<outbox, message>>
  BY <1>2, <1>5, <1>6 DEF Shape, TextIsWhole, IdComesWithDone, LinkTellsQueue
<1>7. CASE outbox[a.message].status = "processing" /\ a.id > 0 /\ Done(a.message, a.id)
  <2>1. RowMoves(a.message, "done") /\ MessageMoves(a.message, "accepted", a.id)
    BY <1>1, <1>7, DoneEffect
  <2>2. Shape' /\ TextIsWhole'
    <3>1. Shape'
      BY <1>2, <2>1, OutboxAssumption DEF Shape, RowMoves, MessageMoves
    <3>2. TextIsWhole'
      BY <1>2, <2>1, OutboxAssumption DEF Shape, TextIsWhole, RowMoves
    <3> QED
      BY <3>1, <3>2
  <2>3. IdComesWithDone' /\ LinkTellsQueue'
    BY <1>1, <1>2, <1>4, <1>7, <2>1, OutboxAssumption
       DEF IdComesWithDone, LinkTellsQueue, RowMoves, MessageMoves
  <2> QED
    BY <1>5, <2>2, <2>3
<1>8. CASE outbox[a.message].status = "processing" /\ TryAgain(a.message)
  <2>1. RowMoves(a.message, "pending") /\ RowKeepsText(a.message) /\ UNCHANGED message
    BY <1>1, <1>8, TryAgainEffect
  <2>2. Shape' /\ TextIsWhole'
    BY <1>1, <1>2, <1>8, <2>1, OutboxAssumption DEF Shape, TextIsWhole, RowMoves, RowKeepsText
  <2>3. IdComesWithDone' /\ LinkTellsQueue'
    BY <1>1, <1>2, <1>8, <2>1, OutboxAssumption DEF IdComesWithDone, LinkTellsQueue, RowMoves
  <2> QED
    BY <1>5, <2>2, <2>3
<1>9. CASE outbox[a.message].status = "processing" /\ GiveUp(a.message)
  <2>1. /\ RowMoves(a.message, "failed") /\ RowKeepsText(a.message)
        /\ MessageMoves(a.message, "failed", message[a.message].id)
    BY <1>1, <1>9, GiveUpEffect
  <2>2. Shape' /\ TextIsWhole'
    BY <1>1, <1>2, <1>9, <2>1, OutboxAssumption
       DEF Shape, TextIsWhole, RowMoves, RowKeepsText, MessageMoves
  <2>3. IdComesWithDone' /\ LinkTellsQueue'
    BY <1>1, <1>2, <1>9, <2>1, OutboxAssumption
       DEF IdComesWithDone, LinkTellsQueue, RowMoves, MessageMoves
  <2> QED
    BY <1>5, <2>2, <2>3
<1> QED
  BY <1>3, <1>6, <1>7, <1>8, <1>9 DEF Recorded

\* A worker that dies or loses an answer forgets; it holds nothing new.
LEMMA ForgetKeeps ==
    ASSUME LinkInv, NEW w \in Workers, RecordFails(w) \/ Crash(w)
    PROVE  LinkInv'
<1> USE DEF LinkInv
<1>1. /\ \A v \in Workers : worker'[v].batch \subseteq worker[v].batch
      /\ \A v \in Workers : worker'[v].answer \in {worker[v].answer, NoAnswer}
      /\ worker' \in [Workers -> [batch: SUBSET Claimed, answer: Answer \cup {NoAnswer}]]
      /\ UNCHANGED <<outbox, message, meta>>
  <2>1. CASE RecordFails(w)
    BY <2>1 DEF RecordFails, Shape
  <2>2. CASE Crash(w)
    BY <2>2 DEF Crash, NoWork, Shape
  <2> QED
    BY <2>1, <2>2
<1>2. Shape' /\ TextIsWhole'
  BY <1>1 DEF Shape, TextIsWhole
<1>3. AnswerIsMetas'
  BY <1>1 DEF AnswerIsMetas
<1>4. IdComesWithDone' /\ NoDeadLink' /\ LinkTellsQueue'
  BY <1>1 DEF IdComesWithDone, NoDeadLink, LinkTellsQueue
<1> QED
  BY <1>2, <1>3, <1>4

LEMMA ClockKeeps ==
    ASSUME LinkInv, NEW m \in Messages, BackoffPasses(m) \/ LeaseLapses(m)
    PROVE  LinkInv'
<1> USE DEF LinkInv
<1>1. /\ RowMoves(m, outbox[m].status) /\ RowKeepsText(m)
      /\ UNCHANGED <<message, worker, meta>>
  BY ClockEffect DEF BackoffPasses, LeaseLapses
<1>2. Shape' /\ TextIsWhole' /\ AnswerIsMetas' /\ NoDeadLink'
  BY <1>1, OutboxAssumption
     DEF Shape, TextIsWhole, AnswerIsMetas, NoDeadLink, RowMoves, RowKeepsText
<1>3. IdComesWithDone' /\ LinkTellsQueue'
  BY <1>1, OutboxAssumption DEF IdComesWithDone, LinkTellsQueue, RowMoves
<1> QED
  BY <1>2, <1>3

\* A receipt moves only messages Meta took, never back to waiting.
LEMMA ApplyKeeps ==
    ASSUME LinkInv, NEW i \in 1 .. MaxSends, NEW s \in Receipts, ApplyStatus(i, s),
           UNCHANGED <<outbox, worker, meta>>
    PROVE  LinkInv'
<1> USE DEF LinkInv
<1>1. s \in MessageStatus /\ s \notin {"none", "queued"}
  BY OutboxAssumption DEF MessageStatus
<1>2. \A m \in Messages :
         /\ message'[m].id = message[m].id
         /\ message'[m].status \in {message[m].status, s}
         /\ message'[m].status # message[m].status => message[m].id = i
  BY DEF ApplyStatus, Applied, Known, Shape
<1>3. message' \in [Messages -> Shown]
  BY <1>1 DEF ApplyStatus, Applied, Known, Shape, Shown
<1>4. Shape' /\ TextIsWhole' /\ AnswerIsMetas' /\ NoDeadLink'
  BY <1>3 DEF Shape, TextIsWhole, AnswerIsMetas, NoDeadLink
<1>5. IdComesWithDone' /\ LinkTellsQueue'
  BY <1>1, <1>2, OutboxAssumption DEF IdComesWithDone, LinkTellsQueue
<1> QED
  BY <1>4, <1>5

LEMMA LinkStep == LinkInv /\ [Next]_vars => LinkInv'
<1> SUFFICES ASSUME LinkInv, [Next]_vars PROVE LinkInv'
  OBVIOUS
<1> USE DEF LinkInv
<1>1. ASSUME UNCHANGED <<outbox, message, worker, meta>> PROVE LinkInv'
  BY <1>1 DEF Shape, TextIsWhole, AnswerIsMetas, IdComesWithDone, NoDeadLink, LinkTellsQueue
<1>2. CASE UNCHANGED vars
  BY <1>1, <1>2 DEF vars
<1>3. CASE Sending
  <2>1. ASSUME NEW w \in Workers, NEW c \in worker[w].batch, DeliverAccepted(w, c)
        PROVE  LinkInv'
    <3> DEFINE a == [message |-> c.message, id |-> Len(meta) + 1, retryable |-> FALSE]
    <3>1. a \in Answer
      BY <2>1, OutboxAssumption DEF DeliverAccepted, Accept, Shape, Claimed, Answer
    <3> QED
      BY <2>1, <3>1, DeliverKeeps DEF DeliverAccepted
  <2>2. ASSUME NEW w \in Workers, NEW c \in worker[w].batch, DeliverUnheard(w, c)
        PROVE  LinkInv'
    <3> DEFINE a == [message |-> c.message, id |-> 0, retryable |-> TRUE]
    <3>1. a \in Answer
      BY <2>2, OutboxAssumption DEF Shape, Claimed, Answer
    <3> QED
      BY <2>2, <3>1, DeliverKeeps DEF DeliverUnheard
  <2>3. ASSUME NEW w \in Workers, NEW c \in worker[w].batch, NEW r \in BOOLEAN,
               DeliverRefused(w, c, r)
        PROVE  LinkInv'
    <3> DEFINE a == [message |-> c.message, id |-> 0, retryable |-> r]
    <3>1. a \in Answer
      BY <2>3, OutboxAssumption DEF Shape, Claimed, Answer
    <3> QED
      BY <2>3, <3>1, DeliverKeeps DEF DeliverRefused
  <2>4. ASSUME NEW m \in Messages, Enqueue(m) PROVE LinkInv'
    BY <2>4, EnqueueEffect, QueuedKeeps DEF Enqueue
  <2> QED
    BY <1>3, <2>1, <2>2, <2>3, <2>4, ClaimKeeps, RecordKeeps, ForgetKeeps DEF Sending
<1>4. CASE Passing
  <2>1. ASSUME NEW m \in Messages, Retry(m) PROVE LinkInv'
    BY <2>1, RetryEffect, QueuedKeeps DEF Retry, Retryable
  <2> QED
    BY <1>4, <2>1, ClockKeeps DEF Passing
<1>5. CASE Receiving
  BY <1>1, <1>5, ApplyKeeps DEF Receiving, Receive, Process, ProcessUnmarked, ProcessUnknown
<1> QED
  BY <1>2, <1>3, <1>4, <1>5 DEF Next

-----------------------------------------------------------------------------
\* A message that carries a supplier link is sent whole or not at all, through
\* lapsed leases, crashes, lost answers and retries (whatsapp_claim_outbox,
\* whatsapp_complete_outbox, whatsapp_retry_message).
THEOREM NeverADeadLink == Spec => []NoDeadLink
<1>1. LinkInv => NoDeadLink
  BY DEF LinkInv
<1> QED
  BY <1>1, LinkInit, LinkStep, PTL DEF Spec

\* The status staff see of a message with a link agrees with its outbox row, and
\* the provider id on record is one under which Meta took that very message.
THEOREM LinkToldRight == Spec => []LinkTellsQueue
<1>1. LinkInv => LinkTellsQueue
  BY DEF LinkInv
<1> QED
  BY <1>1, LinkInit, LinkStep, PTL DEF Spec

-----------------------------------------------------------------------------
(* One hand, where a lease outlasts the batch of a live worker              *)

\* Of a message with a link a worker has one copy: waiting in its batch or sent
\* with the answer still to record.
OneCopy ==
    \A w \in Workers : \A c \in worker[w].batch :
       c.message \in Linked =>
          /\ \A d \in worker[w].batch : d.message = c.message => d = c
          /\ worker[w].answer # NoAnswer => worker[w].answer.message # c.message

HeldIsLeased ==
    \A w \in Workers, m \in Linked :
       Holds(w, m) => outbox[m].status = "processing" /\ ~outbox[m].ripe

OneHolder == \A v, w \in Workers, m \in Linked : Holds(v, m) /\ Holds(w, m) => v = w

HandInv == OneCopy /\ HeldIsLeased /\ OneHolder

\* Rows nobody holds may do anything as long as nobody takes hold of more.
LEMMA ReleaseKeeps ==
    ASSUME HandInv, OneCopy',
           \A v \in Workers, m \in Linked : Holds(v, m)' => Holds(v, m),
           \A v \in Workers, m \in Linked : Holds(v, m)' => outbox'[m] = outbox[m]
    PROVE  HandInv'
<1>1. HeldIsLeased'
  BY DEF HandInv, HeldIsLeased
<1>2. OneHolder'
  BY DEF HandInv, OneHolder
<1> QED
  BY <1>1, <1>2 DEF HandInv

LEMMA FreeRowKeeps ==
    ASSUME HandInv, NEW m \in Messages, \A v \in Workers : ~Holds(v, m) \/ m \notin Linked,
           \A k \in Messages \ {m} : outbox'[k] = outbox[k], UNCHANGED worker
    PROVE  HandInv'
<1>1. OneCopy'
  BY DEF HandInv, OneCopy
<1>2. \A v \in Workers, k \in Linked : Holds(v, k)' <=> Holds(v, k)
  BY DEF Holds
<1> QED
  BY <1>1, <1>2, ReleaseKeeps, OutboxAssumption

LEMMA ClaimHand ==
    ASSUME LinkInv, HandInv, NEW w \in Workers, NEW S \in SUBSET Messages, Claim(w, S)
    PROVE  HandInv'
<1> DEFINE batch == {[message |-> m, text |-> outbox[m].text] : m \in S}
<1>1. /\ \A v \in Workers \ {w} : worker'[v] = worker[v]
      /\ worker'[w].batch = batch
      /\ worker'[w].answer = NoAnswer
      /\ \A m \in Messages : ~Holds(w, m)
  BY DEF Claim, Working, Holds, LinkInv, Shape
<1>2. /\ \A m \in S : outbox'[m].status = "processing" /\ ~outbox'[m].ripe
      /\ \A m \in Messages \ S : outbox'[m] = outbox[m]
  BY ClaimedRowType DEF Claim, LinkInv, Shape
<1>3. \A v \in Workers, m \in S \cap Linked : ~Holds(v, m)
  BY DEF Claim, Claimable, HandInv, HeldIsLeased
<1>4. /\ \A v \in Workers \ {w}, m \in Linked : Holds(v, m)' <=> Holds(v, m)
      /\ \A m \in Linked : Holds(w, m)' => m \in S
  BY <1>1 DEF Holds
<1>5. OneCopy'
  BY <1>1 DEF HandInv, OneCopy
<1>6. HeldIsLeased'
  BY <1>2, <1>3, <1>4, OutboxAssumption DEF HandInv, HeldIsLeased
<1>7. OneHolder'
  BY <1>3, <1>4 DEF HandInv, OneHolder
<1> QED
  BY <1>5, <1>6, <1>7 DEF HandInv

LEMMA DeliverHand ==
    ASSUME LinkInv, HandInv, NEW w \in Workers, NEW c \in worker[w].batch, NEW a,
           a.message = c.message, TakeUp(w, c, a), UNCHANGED outbox
    PROVE  HandInv'
<1>1. /\ \A v \in Workers \ {w} : worker'[v] = worker[v]
      /\ worker'[w].batch = worker[w].batch \ {c}
      /\ worker'[w].answer = a
  BY DEF TakeUp, LinkInv, Shape
<1>2. \A v \in Workers, m \in Linked : Holds(v, m)' => Holds(v, m)
  BY <1>1 DEF Holds
<1>3. OneCopy'
  BY <1>1 DEF HandInv, OneCopy
<1> QED
  BY <1>2, <1>3, ReleaseKeeps

LEMMA RecordHand ==
    ASSUME LinkInv, HandInv, NEW w \in Workers, Record(w)
    PROVE  HandInv'
<1>1. PICK m \in Messages : m = worker[w].answer.message
  BY DEF Record, LinkInv, Shape, Answer
<1>2. worker[w].answer.id \in Nat
  BY OutboxAssumption DEF Record, LinkInv, Shape, Answer
<1>3. /\ \A v \in Workers \ {w} : worker'[v] = worker[v]
      /\ worker'[w].batch = worker[w].batch
      /\ worker'[w].answer = NoAnswer
  BY DEF Record, LinkInv, Shape
<1>4. \A k \in Messages \ {m} : outbox'[k] = outbox[k]
  <2>1. Recorded(worker[w].answer)
    BY CompleteCases DEF Record
  <2> QED
    BY <1>1, <1>2, <2>1, DoneEffect, TryAgainEffect, GiveUpEffect
       DEF Recorded, RowMoves, LinkInv
<1>5. \A v \in Workers, k \in Linked : Holds(v, k)' => Holds(v, k)
  BY <1>3 DEF Holds
<1>6. OneCopy'
  BY <1>3 DEF HandInv, OneCopy
<1>7. m \in Linked => ~Holds(w, m)'
  BY <1>1, <1>3 DEF Holds, HandInv, OneCopy, Record
<1>8. Holds(w, m)
  BY <1>1 DEF Holds, Record
<1>9. \A v \in Workers : m \in Linked => ~Holds(v, m)'
  BY <1>5, <1>7, <1>8 DEF HandInv, OneHolder
<1> QED
  BY <1>4, <1>5, <1>6, <1>9, ReleaseKeeps, OutboxAssumption

LEMMA HandStep == LeaseOutlasts /\ LinkInv /\ HandInv /\ [Next]_vars => HandInv'
<1> SUFFICES ASSUME LeaseOutlasts, LinkInv, HandInv, [Next]_vars PROVE HandInv'
  OBVIOUS
<1>1. ASSUME UNCHANGED <<outbox, worker>> PROVE HandInv'
  BY <1>1 DEF HandInv, OneCopy, HeldIsLeased, OneHolder, Holds
<1>2. CASE UNCHANGED vars
  BY <1>1, <1>2 DEF vars
<1>3. CASE Sending
  <2>1. ASSUME NEW m \in Messages, Enqueue(m) PROVE HandInv'
    <3>1. \A v \in Workers : ~Holds(v, m) \/ m \notin Linked
      BY <2>1 DEF Enqueue, HandInv, HeldIsLeased
    <3>2. RowMoves(m, "pending") /\ UNCHANGED worker
      BY <2>1, EnqueueEffect DEF Enqueue, LinkInv
    <3> QED
      BY <3>1, <3>2, FreeRowKeeps DEF RowMoves
  <2>2. ASSUME NEW w \in Workers, RecordFails(w) \/ Crash(w) PROVE HandInv'
    <3>1. /\ \A v \in Workers : worker'[v].batch \in {worker[v].batch, {}}
          /\ \A v \in Workers : worker'[v].answer \in {worker[v].answer, NoAnswer}
          /\ UNCHANGED outbox
      <4>1. CASE RecordFails(w)
        BY <4>1 DEF RecordFails, LinkInv, Shape
      <4>2. CASE Crash(w)
        BY <4>2 DEF Crash, NoWork, LinkInv, Shape
      <4> QED
        BY <2>2, <4>1, <4>2
    <3>2. OneCopy'
      BY <3>1 DEF HandInv, OneCopy
    <3>3. \A v \in Workers, m \in Linked : Holds(v, m)' => Holds(v, m)
      BY <3>1 DEF Holds
    <3> QED
      BY <3>1, <3>2, <3>3, ReleaseKeeps
  <2>3. ASSUME NEW w \in Workers, NEW c \in worker[w].batch,
               \/ DeliverAccepted(w, c)
               \/ DeliverUnheard(w, c)
               \/ \E r \in BOOLEAN : DeliverRefused(w, c, r)
        PROVE  HandInv'
    BY <2>3, DeliverHand DEF DeliverAccepted, DeliverUnheard, DeliverRefused
  <2> QED
    BY <1>3, <2>1, <2>2, <2>3, ClaimHand, RecordHand DEF Sending
<1>4. CASE Passing
  <2>1. ASSUME NEW m \in Messages, Retry(m) PROVE HandInv'
    <3>1. \A v \in Workers : ~Holds(v, m) \/ m \notin Linked
      BY <2>1 DEF Retry, Retryable, LinkInv, LinkTellsQueue, HandInv, HeldIsLeased
    <3>2. RowMoves(m, "pending") /\ UNCHANGED worker
      BY <2>1, RetryEffect DEF Retry, LinkInv
    <3> QED
      BY <3>1, <3>2, FreeRowKeeps DEF RowMoves
  <2>2. ASSUME NEW m \in Messages, BackoffPasses(m) \/ LeaseLapses(m) PROVE HandInv'
    <3>1. \A v \in Workers : ~Holds(v, m) \/ m \notin Linked
      BY <2>2 DEF BackoffPasses, LeaseLapses, HandInv, HeldIsLeased
    <3>2. \A k \in Messages \ {m} : outbox'[k] = outbox[k]
      BY <2>2, ClockEffect DEF RowMoves, LinkInv
    <3>3. UNCHANGED worker
      BY <2>2 DEF BackoffPasses, LeaseLapses
    <3> QED
      BY <3>1, <3>2, <3>3, FreeRowKeeps
  <2> QED
    BY <1>4, <2>1, <2>2 DEF Passing
<1>5. CASE Receiving
  BY <1>1, <1>5 DEF Receiving, Receive, Process, ProcessUnmarked, ProcessUnknown
<1> QED
  BY <1>2, <1>3, <1>4, <1>5 DEF Next

LEMMA HandInit == Init => HandInv
  BY DEF Init, HandInv, OneCopy, HeldIsLeased, OneHolder, Holds, NoWork

\* A message with a link is never in the hands of two workers, whatever else
\* crashes or is retried, if a lease outlasts the batch of a live worker
\* (LEASE_SECONDS against BATCH_SIZE sends in outbox.ts).
THEOREM NeverInTwoHands ==
    ASSUME LeaseOutlasts
    PROVE  Spec => []LinkInOneHand
<1>2. HandInv => LinkInOneHand
  <2> SUFFICES ASSUME HandInv, NEW m \in Linked PROVE Cardinality(InHand(m)) <= 1
    BY DEF LinkInOneHand
  <2>1. CASE InHand(m) = {}
    BY <2>1, FS_EmptySet
  <2>2. CASE \E w \in Workers : InHand(m) = {w}
    BY <2>2, FS_Singleton
  <2> QED
    BY <2>1, <2>2 DEF InHand, HandInv, OneHolder
<1>3. LinkInv /\ HandInv /\ [Next]_vars => HandInv'
  BY HandStep
<1> QED
  BY <1>2, <1>3, HandInit, LinkInit, LinkStep, PTL DEF Spec
-----------------------------------------------------------------------------
(* The outbox implements MessageLife, where a lease outlasts its batch      *)

shownNow == [m \in Linked |-> message[m].status]
placeNow == [m \in Linked |-> Place(m)]
copiesNow == [m \in Linked |-> Cardinality(Copies(m))]

Lives == Life!LifeNext \/ UNCHANGED <<shownNow, placeNow, copiesNow>>

OthersLive(S) ==
    \A k \in S :
       /\ message'[k].status = message[k].status
       /\ Place(k)' = Place(k)
       /\ Copies(k)' = Copies(k)

LEMMA QuietLife == ASSUME OthersLive(Linked) PROVE Lives
  BY DEF Lives, OthersLive, shownNow, placeNow, copiesNow

\* A step that moves one message only moves it in the life.
LEMMA OneLife ==
    ASSUME NEW m \in Linked, OthersLive(Linked \ {m})
    PROVE  /\ shownNow' = [shownNow EXCEPT ![m] = message'[m].status]
           /\ placeNow' = [placeNow EXCEPT ![m] = Place(m)']
           /\ copiesNow' = [copiesNow EXCEPT ![m] = Cardinality(Copies(m))']
           /\ message'[m].status = message[m].status => UNCHANGED shownNow
           /\ Place(m)' = Place(m) => UNCHANGED placeNow
           /\ Copies(m)' = Copies(m) => UNCHANGED copiesNow
           /\ shownNow[m] = message[m].status
           /\ placeNow[m] = Place(m)
           /\ copiesNow[m] = Cardinality(Copies(m))
<1>1. \A k \in Linked \ {m} :
         /\ message'[k].status = message[k].status
         /\ Place(k)' = Place(k)
         /\ Copies(k)' = Copies(k)
  BY DEF OthersLive
<1>2. /\ shownNow' = [shownNow EXCEPT ![m] = message'[m].status]
      /\ message'[m].status = message[m].status => UNCHANGED shownNow
      /\ shownNow[m] = message[m].status
  BY <1>1 DEF shownNow
<1>3. /\ placeNow' = [placeNow EXCEPT ![m] = Place(m)']
      /\ Place(m)' = Place(m) => UNCHANGED placeNow
      /\ placeNow[m] = Place(m)
  BY <1>1 DEF placeNow
<1>4. /\ copiesNow' = [copiesNow EXCEPT ![m] = Cardinality(Copies(m))']
      /\ Copies(m)' = Copies(m) => UNCHANGED copiesNow
      /\ copiesNow[m] = Cardinality(Copies(m))
  BY <1>1 DEF copiesNow
<1> QED
  BY <1>2, <1>3, <1>4

\* While no worker and not the row's being done changes, a message stays where it is.
LEMMA SamePlace ==
    ASSUME UNCHANGED worker, NEW m \in Messages,
           outbox'[m].status = "done" <=> outbox[m].status = "done"
    PROVE  Place(m)' = Place(m)
  BY DEF Place, Answered

LEMMA SameCopies == ASSUME UNCHANGED meta, NEW m PROVE Copies(m)' = Copies(m)
  BY DEF Copies

LEMMA AnsweredIsHeld ==
    ASSUME HandInv, NEW m \in Linked, Answered(m)
    PROVE  outbox[m].status = "processing"
  BY DEF HandInv, HeldIsLeased, Holds, Answered

LEMMA WaitLife ==
    ASSUME LinkInv, HandInv, NEW m \in Messages, NEW id \in Nat, RowMoves(m, "pending"),
           MessageMoves(m, "queued", id), UNCHANGED <<worker, meta>>,
           m \in Linked => /\ outbox[m].status \notin {"done", "processing"}
                           /\ message[m].status \in {"none", "failed"}
    PROVE  Lives
<1>1. \A k \in Linked : k # m \/ m \in Linked =>
         /\ k # m => message'[k] = message[k]
         /\ Place(k)' = Place(k)
         /\ Copies(k)' = Copies(k)
  BY SamePlace, SameCopies, OutboxAssumption DEF RowMoves, MessageMoves
<1>2. CASE m \notin Linked
  BY <1>1, <1>2, QuietLife, OutboxAssumption DEF OthersLive, MessageMoves
<1>3. CASE m \in Linked
  <2>1. OthersLive(Linked \ {m})
    BY <1>1, <1>3 DEF OthersLive
  <2>2. Place(m) = "here"
    BY <1>3, AnsweredIsHeld DEF Place
  <2>3. /\ shownNow' = [shownNow EXCEPT ![m] = "queued"]
        /\ UNCHANGED <<placeNow, copiesNow>>
        /\ placeNow[m] = "here" /\ shownNow[m] \in {"none", "failed"}
    BY <1>1, <1>3, <2>1, <2>2, OneLife DEF MessageMoves
  <2> QED
    BY <1>3, <2>3 DEF Lives, Life!LifeNext, Life!Wait, shownNow, placeNow, copiesNow
<1> QED
  BY <1>2, <1>3

\* A send: the message is here, in this hand only.
LEMMA DeliverLife ==
    ASSUME LinkInv, HandInv, NEW w \in Workers, NEW c \in worker[w].batch, NEW a \in Answer,
           a.message = c.message, TakeUp(w, c, a), UNCHANGED <<outbox, message>>,
           \/ UNCHANGED meta /\ a.id = 0
           \/ Accept(c)
    PROVE  Lives
<1> DEFINE m == c.message
<1> USE DEF LinkInv
<1>1. c \in Claimed /\ m \in Messages /\ a.id \in Nat /\ a # NoAnswer
  BY OutboxAssumption DEF Shape, Claimed, Answer, NoAnswer
<1>2. /\ worker[w].answer = NoAnswer
      /\ worker'[w].answer = a
      /\ \A v \in Workers \ {w} : worker'[v] = worker[v]
  BY DEF TakeUp, Shape
<1>3. meta \in Seq(Claimed) /\ Len(meta) \in Nat
  BY DEF Shape
<1>4. \A k \in Linked \ {m} : Place(k)' = Place(k) /\ Copies(k)' = Copies(k)
  <2> SUFFICES ASSUME NEW k \in Linked \ {m}
               PROVE  Place(k)' = Place(k) /\ Copies(k)' = Copies(k)
    OBVIOUS
  <2>1. Answered(k)' <=> Answered(k)
    BY <1>1, <1>2 DEF Answered
  <2>2. Place(k)' = Place(k)
    BY <2>1 DEF Place
  <2>3. Copies(k)' = Copies(k)
    <3>1. CASE UNCHANGED meta
      BY <3>1 DEF Copies
    <3>2. CASE Accept(c)
      <4>1. meta' = Append(meta, c)
        BY <3>2 DEF Accept
      <4>2. /\ DOMAIN meta = 1 .. Len(meta) /\ DOMAIN meta' = 1 .. Len(meta) + 1
            /\ \A i \in 1 .. Len(meta) : meta'[i] = meta[i]
            /\ meta'[Len(meta) + 1] = c
        BY <1>1, <1>3, <4>1, AppendProperties
      <4> QED
        BY <1>3, <4>2 DEF Copies
    <3> QED
      BY <3>1, <3>2
  <2> QED
    BY <2>2, <2>3
<1>5. CASE m \notin Linked
  BY <1>4, <1>5, QuietLife DEF OthersLive
<1>6. CASE m \in Linked
  <2>1. OthersLive(Linked \ {m})
    BY <1>4 DEF OthersLive
  <2>2. Holds(w, m)
    BY DEF Holds
  <2>3. outbox[m].status = "processing" /\ message[m].status = "queued"
    BY <1>6, <2>2 DEF HandInv, HeldIsLeased, LinkTellsQueue
  <2>4. \A v \in Workers \ {w} : ~Holds(v, m)
    BY <1>6, <2>2 DEF HandInv, OneHolder
  <2>5. Place(m) = "here"
    BY <1>2, <2>3, <2>4 DEF Place, Answered, Holds
  <2>6. Place(m)' = IF a.id > 0 THEN "sent" ELSE "here"
    BY <1>1, <1>2, <2>3, <2>4 DEF Place, Answered, Holds
  <2>7. UNCHANGED shownNow /\ shownNow[m] = "queued" /\ placeNow[m] = "here"
    BY <1>6, <2>1, <2>3, <2>5, OneLife
  <2>8. CASE UNCHANGED meta /\ a.id = 0
    BY <1>6, <2>1, <2>5, <2>6, <2>7, <2>8, OneLife, SameCopies DEF Lives
  <2>9. CASE Accept(c)
    <3>1. meta' = Append(meta, c)
      BY <2>9 DEF Accept
    <3>2. /\ DOMAIN meta = 1 .. Len(meta) /\ DOMAIN meta' = 1 .. Len(meta) + 1
          /\ \A i \in 1 .. Len(meta) : meta'[i] = meta[i]
          /\ meta'[Len(meta) + 1] = c
      BY <1>1, <1>3, <3>1, AppendProperties
    <3>3. Copies(m)' = Copies(m) \cup {Len(meta) + 1} /\ Len(meta) + 1 \notin Copies(m)
      BY <1>3, <3>2 DEF Copies
    <3>4. IsFiniteSet(Copies(m))
      <4>1. Copies(m) \subseteq 1 .. Len(meta)
        BY <3>2 DEF Copies
      <4>2. IsFiniteSet(1 .. Len(meta))
        BY <1>3, FS_Interval
      <4> QED
        BY <4>1, <4>2, FS_Subset
    <3>5. Cardinality(Copies(m))' = Cardinality(Copies(m)) + 1
      <4>1. Cardinality(Copies(m) \cup {Len(meta) + 1}) = Cardinality(Copies(m)) + 1
        BY <3>3, <3>4, FS_AddElement
      <4> QED
        BY <3>3, <4>1
    <3>6. copiesNow' = [copiesNow EXCEPT ![m] = copiesNow[m] + 1]
      BY <1>6, <2>1, <3>5, OneLife
    <3>7. CASE a.id > 0
      <4>1. placeNow' = [placeNow EXCEPT ![m] = "sent"]
        BY <1>6, <2>1, <2>6, <3>7, OneLife
      <4> QED
        BY <1>6, <2>7, <3>6, <4>1 DEF Lives, Life!LifeNext, Life!Send, shownNow, placeNow, copiesNow
    <3>8. CASE ~(a.id > 0)
      <4>1. UNCHANGED placeNow
        BY <1>6, <2>1, <2>5, <2>6, <3>8, OneLife
      <4> QED
        BY <1>6, <2>7, <3>6, <4>1 DEF Lives, Life!LifeNext, Life!SendUnheard, shownNow, placeNow, copiesNow
    <3> QED
      BY <3>7, <3>8
  <2> QED
    BY <2>8, <2>9
<1> QED
  BY <1>5, <1>6

\* What a worker's forgetting its answer does to where messages are.
LEMMA ForgottenPlace ==
    ASSUME LinkInv, HandInv, NEW w \in Workers,
           worker'[w].answer = NoAnswer,
           \A v \in Workers \ {w} : worker'[v].answer = worker[v].answer,
           NEW m \in Linked
    PROVE  /\ worker[w].answer = NoAnswer => (Answered(m)' <=> Answered(m))
           /\ worker[w].answer # NoAnswer =>
                 IF worker[w].answer.message = m
                 THEN ~Answered(m)' /\ (Answered(m) <=> worker[w].answer.id > 0)
                 ELSE Answered(m)' <=> Answered(m)
<1>1. worker[w].answer = NoAnswer => (Answered(m)' <=> Answered(m))
  BY DEF Answered
<1>2. ASSUME worker[w].answer # NoAnswer, worker[w].answer.message = m
      PROVE  ~Answered(m)' /\ (Answered(m) <=> worker[w].answer.id > 0)
  <2>1. \A v \in Workers \ {w} : ~Holds(v, m)
    BY <1>2 DEF Holds, HandInv, OneHolder
  <2> QED
    BY <1>2, <2>1 DEF Answered, Holds
<1>3. ASSUME worker[w].answer # NoAnswer, worker[w].answer.message # m
      PROVE  Answered(m)' <=> Answered(m)
  BY <1>3 DEF Answered
<1> QED
  BY <1>1, <1>2, <1>3

LEMMA ForgetLife ==
    ASSUME LinkInv, HandInv, NEW w \in Workers, RecordFails(w) \/ Crash(w)
    PROVE  Lives
<1> USE DEF LinkInv
<1>1. /\ worker'[w].answer = NoAnswer
      /\ \A v \in Workers \ {w} : worker'[v].answer = worker[v].answer
      /\ UNCHANGED <<outbox, message, meta>>
  <2>1. CASE RecordFails(w)
    BY <2>1 DEF RecordFails, Shape
  <2>2. CASE Crash(w)
    BY <2>2 DEF Crash, NoWork, Shape
  <2> QED
    BY <2>1, <2>2
<1>2. \A k \in Linked : Copies(k)' = Copies(k) /\ message'[k] = message[k]
  BY <1>1, SameCopies
<1>3. CASE worker[w].answer = NoAnswer
  <2>1. \A k \in Linked : Place(k)' = Place(k)
    BY <1>1, <1>3, ForgottenPlace DEF Place
  <2> QED
    BY <1>2, <2>1, QuietLife DEF OthersLive
<1>4. CASE worker[w].answer # NoAnswer
  <2>0. PICK m \in Messages : m = worker[w].answer.message
    BY <1>4 DEF Shape, Answer
  <2>1. \A k \in Linked \ {m} : Place(k)' = Place(k)
    BY <1>1, <1>4, <2>0, ForgottenPlace DEF Place
  <2>2. CASE m \notin Linked
    BY <1>2, <2>1, <2>2, QuietLife DEF OthersLive
  <2>3. CASE m \in Linked
    <3>1. OthersLive(Linked \ {m})
      BY <1>2, <2>1 DEF OthersLive
    <3>2. outbox[m].status = "processing"
      BY <1>4, <2>0, <2>3 DEF Holds, HandInv, HeldIsLeased
    <3>3. /\ Place(m)' = "here"
          /\ Place(m) = IF worker[w].answer.id > 0 THEN "sent" ELSE "here"
      BY <1>1, <1>4, <2>0, <2>3, <3>2, ForgottenPlace DEF Place
    <3>4. UNCHANGED <<shownNow, copiesNow>>
      BY <1>2, <2>3, <3>1, OneLife
    <3>5. CASE Place(m) = "here"
      BY <2>3, <3>1, <3>3, <3>4, <3>5, OneLife DEF Lives
    <3>6. CASE Place(m) = "sent"
      <4>1. placeNow[m] = "sent" /\ placeNow' = [placeNow EXCEPT ![m] = "here"]
        BY <2>3, <3>1, <3>3, <3>6, OneLife
      <4> QED
        BY <2>3, <3>4, <4>1 DEF Lives, Life!LifeNext, Life!Lose, shownNow, placeNow, copiesNow
    <3> QED
      BY <3>3, <3>5, <3>6
  <2> QED
    BY <2>2, <2>3
<1> QED
  BY <1>3, <1>4

LEMMA RecordLife ==
    ASSUME LinkInv, HandInv, NEW w \in Workers, Record(w)
    PROVE  Lives
<1> DEFINE a == worker[w].answer
<1> USE DEF LinkInv
<1>0. PICK m \in Messages : m = a.message
  BY DEF Record, Shape, Answer
<1>1. a.id \in Nat /\ message[m].id \in Nat /\ a # NoAnswer
  BY OutboxAssumption DEF Record, Shape, Answer, Shown
<1>2. Recorded(a)
  BY CompleteCases DEF Record
<1>3. /\ worker'[w].answer = NoAnswer
      /\ \A v \in Workers \ {w} : worker'[v].answer = worker[v].answer
      /\ UNCHANGED meta
  BY DEF Record, Shape
<1>4. \A k \in Messages \ {m} : outbox'[k] = outbox[k] /\ message'[k] = message[k]
  BY <1>0, <1>1, <1>2, DoneEffect, TryAgainEffect, GiveUpEffect
     DEF Recorded, RowMoves, MessageMoves
<1>5. \A k \in Linked : Copies(k)' = Copies(k)
  BY <1>3, SameCopies
<1>6. \A k \in Linked \ {m} : Place(k)' = Place(k)
  BY <1>0, <1>1, <1>3, <1>4, ForgottenPlace, OutboxAssumption DEF Place
<1>7. CASE m \notin Linked
  BY <1>4, <1>5, <1>6, <1>7, QuietLife, OutboxAssumption DEF OthersLive
<1>8. CASE m \in Linked
  <2>1. OthersLive(Linked \ {m})
    BY <1>4, <1>5, <1>6, OutboxAssumption DEF OthersLive
  <2>2. outbox[m].status = "processing" /\ message[m].status = "queued"
    BY <1>0, <1>1, <1>8 DEF Holds, HandInv, HeldIsLeased, LinkTellsQueue
  <2>3. Place(m) = IF a.id > 0 THEN "sent" ELSE "here"
    BY <1>0, <1>1, <1>3, <1>8, <2>2, ForgottenPlace DEF Place
  <2>4. Place(m)' = IF outbox'[m].status = "done" THEN "known" ELSE "here"
    BY <1>0, <1>1, <1>3, <1>8, ForgottenPlace DEF Place
  <2>5. UNCHANGED copiesNow /\ shownNow[m] = "queued" /\ placeNow[m] = Place(m)
    BY <1>5, <1>8, <2>1, <2>2, OneLife
  <2>6. CASE a.id > 0
    <3>1. Done(m, a.id)
      BY <1>0, <1>1, <2>2, <2>6 DEF Record, Complete
    <3>2. outbox'[m].status = "done" /\ message'[m].status = "accepted"
      BY <1>1, <3>1, DoneEffect DEF RowMoves, MessageMoves
    <3>3. /\ placeNow[m] = "sent"
          /\ placeNow' = [placeNow EXCEPT ![m] = "known"]
          /\ shownNow' = [shownNow EXCEPT ![m] = "accepted"]
      BY <1>8, <2>1, <2>3, <2>4, <2>5, <2>6, <3>2, OneLife
    <3> QED
      BY <1>8, <2>5, <3>3 DEF Lives, Life!LifeNext, Life!Hear, shownNow, placeNow, copiesNow
  <2>7. CASE ~(a.id > 0)
    <3>1. \/ TryAgain(m) \/ GiveUp(m)
      BY <1>0, <1>1, <2>2, <2>7 DEF Record, Complete
    <3>2. CASE TryAgain(m)
      <4>1. outbox'[m].status = "pending" /\ message' = message
        BY <3>2, TryAgainEffect DEF RowMoves
      <4>2. UNCHANGED <<shownNow, placeNow>>
        BY <1>8, <2>1, <2>3, <2>4, <2>7, <4>1, OneLife
      <4> QED
        BY <2>5, <4>2 DEF Lives
    <3>3. CASE GiveUp(m)
      <4>1. outbox'[m].status = "failed" /\ message'[m].status = "failed"
        BY <3>3, GiveUpEffect DEF RowMoves, MessageMoves
      <4>2. /\ UNCHANGED placeNow
            /\ shownNow' = [shownNow EXCEPT ![m] = "failed"]
            /\ placeNow[m] = "here"
        BY <1>8, <2>1, <2>3, <2>4, <2>5, <2>7, <4>1, OneLife
      <4> QED
        BY <1>8, <2>5, <4>2 DEF Lives, Life!LifeNext, Life!Fail, shownNow, placeNow, copiesNow
    <3> QED
      BY <3>1, <3>2, <3>3
  <2> QED
    BY <2>6, <2>7
<1> QED
  BY <1>7, <1>8

\* Rows may do what they like as long as none becomes done or ceases to be.
LEMMA RowsLife ==
    ASSUME UNCHANGED <<message, meta>>,
           \A v \in Workers : worker'[v].answer = worker[v].answer,
           \A m \in Messages : outbox'[m].status = "done" <=> outbox[m].status = "done"
    PROVE  Lives
<1>1. \A k \in Linked : Place(k)' = Place(k)
  BY OutboxAssumption DEF Place, Answered
<1>2. \A k \in Linked : Copies(k)' = Copies(k)
  BY SameCopies
<1> QED
  BY <1>1, <1>2, QuietLife DEF OthersLive

\* The ids of messages with a link are their own.
LEMMA ApplyLife ==
    ASSUME LinkInv, NEW i \in 1 .. MaxSends, NEW s \in Receipts, ApplyStatus(i, s),
           UNCHANGED <<outbox, worker, meta>>
    PROVE  Lives
<1> USE DEF LinkInv
<1>1. \A k \in Messages :
         message'[k] = IF message[k].id = i THEN [message[k] EXCEPT !.status = Applied(@, s)]
                                            ELSE message[k]
  BY DEF ApplyStatus, Known
<1>2. \A k \in Linked : Place(k)' = Place(k) /\ Copies(k)' = Copies(k)
  BY SamePlace, SameCopies, OutboxAssumption
<1>3. CASE \A m \in Linked : message[m].id # i
  BY <1>1, <1>2, <1>3, QuietLife, OutboxAssumption DEF OthersLive
<1>4. CASE \E m \in Linked : message[m].id = i
  <2>1. PICK m \in Linked : message[m].id = i
    BY <1>4
  <2>2. \A k \in Linked \ {m} : message[k].id # i
    BY <2>1, OutboxAssumption DEF IdComesWithDone, LinkTellsQueue
  <2>3. m \in Messages /\ message[m] \in Shown
    BY OutboxAssumption DEF Shape
  <2>4. outbox[m].status = "done" /\ message[m].status \notin {"none", "queued"}
    BY <2>1 DEF IdComesWithDone, LinkTellsQueue
  <2>5. message'[m].status = Applied(message[m].status, s)
    BY <1>1, <2>1, <2>3 DEF Shown
  <2>6. OthersLive(Linked \ {m})
    BY <1>1, <1>2, <2>2, OutboxAssumption DEF OthersLive
  <2>7. /\ shownNow' = [shownNow EXCEPT ![m] = Applied(message[m].status, s)]
        /\ UNCHANGED <<placeNow, copiesNow>>
        /\ shownNow[m] = message[m].status /\ placeNow[m] = "known"
    BY <1>2, <2>4, <2>5, <2>6, OneLife DEF Place
  <2>8. CASE Applied(message[m].status, s) = message[m].status
    BY <1>2, <2>5, <2>6, <2>8, OneLife DEF Lives
  <2>9. CASE s = "failed"
    <3>1. Applied(message[m].status, s) = "failed"
      BY <2>9 DEF Applied
    <3>2. Life!Fail(m)
      BY <2>4, <2>7, <3>1 DEF Life!Fail, shownNow, placeNow, copiesNow
    <3> QED
      BY <3>2 DEF Lives, Life!LifeNext
  <2>10. CASE /\ s # "failed" /\ message[m].status # "failed"
              /\ StatusRank(s) > StatusRank(message[m].status)
    <3>1. Applied(message[m].status, s) = s
      BY <2>10 DEF Applied
    <3>2. s \in Life!Statuses
      BY OutboxAssumption DEF Life!Statuses
    <3>3. Life!Rank(s) > Life!Rank(message[m].status)
      BY <2>10 DEF Life!Rank, StatusRank
    <3>4. Life!Progress(m, s)
      BY <2>7, <2>10, <3>1, <3>3 DEF Life!Progress, shownNow, placeNow, copiesNow
    <3> QED
      BY <3>2, <3>4 DEF Lives, Life!LifeNext
  <2> QED
    BY <2>8, <2>9, <2>10 DEF Applied
<1> QED
  BY <1>3, <1>4

LEMMA LifeStep ==
    LinkInv /\ HandInv /\ [Next]_vars => [Life!LifeNext]_<<shownNow, placeNow, copiesNow>>
<1> SUFFICES ASSUME LinkInv, HandInv, [Next]_vars PROVE Lives
  BY DEF Lives
<1> USE DEF LinkInv
<1>1. ASSUME UNCHANGED <<outbox, message, worker, meta>> PROVE Lives
  BY <1>1, RowsLife
<1>2. CASE UNCHANGED vars
  BY <1>1, <1>2 DEF vars
<1>3. CASE Sending
  <2>1. ASSUME NEW m \in Messages, Enqueue(m) PROVE Lives
    <3>1. message[m].id \in Nat
      BY DEF Shape, Shown
    <3> QED
      BY <2>1, <3>1, EnqueueEffect, WaitLife DEF Enqueue, IdComesWithDone
  <2>2. ASSUME NEW w \in Workers, NEW S \in SUBSET Messages, Claim(w, S) PROVE Lives
    <3>1. \A m \in Messages :
             outbox'[m].status = IF m \in S THEN "processing" ELSE outbox[m].status
      BY <2>2, ClaimedRowType DEF Claim, Shape
    <3>2. \A m \in S : outbox[m].status # "done"
      BY <2>2 DEF Claim, Claimable
    <3>3. \A m \in Messages : outbox'[m].status = "done" <=> outbox[m].status = "done"
      BY <3>1, <3>2
    <3>4. UNCHANGED <<message, meta>> /\ \A v \in Workers : worker'[v].answer = worker[v].answer
      BY <2>2 DEF Claim, Shape
    <3> QED
      BY <3>3, <3>4, RowsLife
  <2>3. ASSUME NEW w \in Workers, NEW c \in worker[w].batch, DeliverAccepted(w, c) PROVE Lives
    <3> DEFINE a == [message |-> c.message, id |-> Len(meta) + 1, retryable |-> FALSE]
    <3>1. a \in Answer
      BY <2>3, OutboxAssumption DEF DeliverAccepted, Accept, Shape, Claimed, Answer
    <3> QED
      BY <2>3, <3>1, DeliverLife DEF DeliverAccepted
  <2>4. ASSUME NEW w \in Workers, NEW c \in worker[w].batch, DeliverUnheard(w, c) PROVE Lives
    <3> DEFINE a == [message |-> c.message, id |-> 0, retryable |-> TRUE]
    <3>1. a \in Answer
      BY <2>4, OutboxAssumption DEF Shape, Claimed, Answer
    <3> QED
      BY <2>4, <3>1, DeliverLife DEF DeliverUnheard
  <2>5. ASSUME NEW w \in Workers, NEW c \in worker[w].batch, NEW r \in BOOLEAN,
               DeliverRefused(w, c, r)
        PROVE  Lives
    <3> DEFINE a == [message |-> c.message, id |-> 0, retryable |-> r]
    <3>1. a \in Answer
      BY <2>5, OutboxAssumption DEF Shape, Claimed, Answer
    <3> QED
      BY <2>5, <3>1, DeliverLife DEF DeliverRefused
  <2> QED
    BY <1>3, <2>1, <2>2, <2>3, <2>4, <2>5, RecordLife, ForgetLife DEF Sending
<1>4. CASE Passing
  <2>1. ASSUME NEW m \in Messages, Retry(m) PROVE Lives
    <3>1. message[m].id \in Nat
      BY DEF Shape, Shown
    <3>2. m \in Linked => outbox[m].status \notin {"done", "processing"}
      BY <2>1 DEF Retry, Retryable, LinkTellsQueue
    <3> QED
      BY <2>1, <3>1, <3>2, RetryEffect, WaitLife DEF Retry, Retryable
  <2>2. ASSUME NEW m \in Messages, BackoffPasses(m) \/ LeaseLapses(m) PROVE Lives
    BY <2>2, ClockEffect, RowsLife DEF RowMoves, BackoffPasses, LeaseLapses
  <2> QED
    BY <1>4, <2>1, <2>2 DEF Passing
<1>5. CASE Receiving
  BY <1>1, <1>5, ApplyLife DEF Receiving, Receive, Process, ProcessUnmarked, ProcessUnknown
<1> QED
  BY <1>2, <1>3, <1>4, <1>5 DEF Next

\* Workers, leases, crashes, webhooks and retries together implement the life the
\* conversation promises of every message with a link: a further copy reaches
\* WhatsApp only after its answer to the former was lost, none once an answer is
\* on record, if a lease outlasts the batch of a live worker (LEASE_SECONDS).
THEOREM LivesAsPromised ==
    ASSUME LeaseOutlasts
    PROVE  Spec => LinkLife
<1>1. Init => Life!LifeInit
  <2> SUFFICES ASSUME Init PROVE Life!LifeInit
    OBVIOUS
  <2>1. \A m \in Linked : message[m].status = "none" /\ outbox[m].status = "none"
    BY OutboxAssumption DEF Init
  <2>2. \A m \in Linked : Place(m) = "here"
    BY <2>1 DEF Init, Place, Answered, NoWork
  <2>3. \A m \in Linked : Cardinality(Copies(m)) = 0
    <3>1. \A m \in Linked : Copies(m) = {}
      BY DEF Init, Copies
    <3> QED
      BY <3>1, FS_EmptySet
  <2> QED
    BY <2>1, <2>2, <2>3 DEF Life!LifeInit
<1>2. LinkInv /\ HandInv /\ [Next]_vars => [Life!LifeNext]_(Life!lifeVars)
  BY LifeStep DEF shownNow, placeNow, copiesNow, Life!lifeVars
<1>3. LinkInv /\ HandInv /\ [Next]_vars => HandInv'
  BY HandStep
<1> QED
  BY <1>1, <1>2, <1>3, LinkInit, LinkStep, HandInit, PTL DEF Spec, LinkLife, Life!LifeSpec

=============
