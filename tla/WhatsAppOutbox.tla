--------------------------- MODULE WhatsAppOutbox ---------------------------
(***************************************************************************)
(* How a queued WhatsApp message reaches Meta and how Meta's receipts come *)
(* back: the outbox table, the worker of every API process (outbox.ts),    *)
(* the webhook events (webhook.ts) and the people who retry.               *)
(*                                                                         *)
(* Each database function is one step.  The send itself is a network call  *)
(* outside any transaction, so claiming, delivering and recording the      *)
(* result are three steps of a worker, between which it may die.  Clocks   *)
(* are steps of their own: a backoff passes, a lease lapses.               *)
(***************************************************************************)
EXTENDS Integers, Sequences, FiniteSets

CONSTANTS
    Messages,       \* outbound messages, one outbox row each
    Linked,         \* those with a masked copy: they carry a supplier link
    Workers,        \* API processes
    Receipts,       \* the statuses Meta reports, of "sent" .. "failed"
    LeaseOutlasts,  \* a lease outlives the batch of a live worker
    MaxAttempts,    \* whatsapp_outbox.max_attempts
    MaxTries,       \* attempts after which an event is left alone
    MaxSends,       \* bound: messages Meta accepts
    MaxFaults,      \* bound: crashes, lost answers, failed bookkeeping
    MaxRetries      \* bound: retries by people

ASSUME OutboxAssumption ==
    /\ Linked \subseteq Messages
    /\ Receipts \subseteq {"sent", "delivered", "read", "failed"}
    /\ LeaseOutlasts \in BOOLEAN
    /\ {MaxAttempts, MaxTries, MaxSends, MaxFaults, MaxRetries} \subseteq Nat

VARIABLES
    outbox,    \* whatsapp_outbox; ripe: due, or its lease has lapsed
    message,   \* whatsapp_messages: status and provider_message_id
    worker,    \* per process: the rows it claimed, and the answer it has to record
    meta,      \* what Meta accepted, in order; the position is the message id
    events,    \* whatsapp_webhook_events by dedupe key
    faults, retries

vars == <<outbox, message, worker, meta, events, faults, retries>>

MessageStatus == {"none", "queued", "accepted", "sent", "delivered", "read", "failed"}
Texts == {"whole", "masked"}
Row == [status: {"none", "pending", "processing", "done", "failed"},
        attempts: 0 .. MaxAttempts + MaxFaults, ripe: BOOLEAN, text: Texts]
Claimed == [message: Messages, text: Texts]
\* id 0: not accepted, as far as the worker knows.
Answer == [message: Messages, id: 0 .. MaxSends, retryable: BOOLEAN]
Keys == (1 .. MaxSends) \X Receipts

NoAnswer == [id |-> -1]
NoWork == [batch |-> {}, answer |-> NoAnswer]

Fault == faults < MaxFaults /\ faults' = faults + 1

Init ==
    /\ outbox = [m \in Messages |->
                   [status |-> "none", attempts |-> 0, ripe |-> FALSE, text |-> "whole"]]
    /\ message = [m \in Messages |-> [status |-> "none", id |-> 0]]
    /\ worker = [w \in Workers |-> NoWork]
    /\ meta = <<>>
    /\ events = [k \in Keys |-> [state |-> "none", tries |-> 0]]
    /\ faults = 0
    /\ retries = 0

\* The insert of a business function; its dedupe key makes it happen once.
Enqueue(m) ==
    /\ outbox[m].status = "none"
    /\ outbox' = [outbox EXCEPT ![m].status = "pending", ![m].ripe = TRUE]
    /\ message' = [message EXCEPT ![m].status = "queued"]
    /\ UNCHANGED <<worker, meta, events, faults, retries>>

-----------------------------------------------------------------------------
(* The worker                                                               *)

Working(w) == worker[w].batch # {} \/ worker[w].answer # NoAnswer

Holds(w, m) == \/ \E c \in worker[w].batch : c.message = m
               \/ worker[w].answer # NoAnswer /\ worker[w].answer.message = m

ClaimablePending(m) == outbox[m].status = "pending" /\ outbox[m].ripe

ClaimableAnyway(m) == outbox[m].status \in {"pending", "processing"}

\* Due, or claimed by somebody whose lease has lapsed.
Claimable(m) == outbox[m].status \in {"pending", "processing"} /\ outbox[m].ripe

\* whatsapp_claim_outbox: some of the claimable rows, others being locked or
\* beyond the limit.
Claim(w, S) ==
    /\ ~Working(w)
    /\ S # {}
    /\ \A m \in S : Claimable(m)
    /\ outbox' = [m \in Messages |->
                    IF m \in S THEN [outbox[m] EXCEPT !.status = "processing", !.ripe = FALSE,
                                                      !.attempts = @ + 1]
                               ELSE outbox[m]]
    /\ worker' = [worker EXCEPT ![w].batch = {[message |-> m, text |-> outbox[m].text] : m \in S}]
    /\ UNCHANGED <<message, meta, events, faults, retries>>

TakeUp(w, c, answer) ==
    /\ c \in worker[w].batch
    /\ worker[w].answer = NoAnswer
    /\ worker' = [worker EXCEPT ![w].batch = @ \ {c}, ![w].answer = answer]

Accept(c) ==
    /\ Len(meta) < MaxSends
    /\ meta' = Append(meta, c)

DeliverAccepted(w, c) ==
    /\ Accept(c)
    /\ TakeUp(w, c, [message |-> c.message, id |-> Len(meta) + 1, retryable |-> FALSE])
    /\ UNCHANGED <<outbox, message, events, faults, retries>>

\* Meta has the message, the worker saw a timeout.
DeliverUnheard(w, c) ==
    /\ Fault
    /\ Accept(c)
    /\ TakeUp(w, c, [message |-> c.message, id |-> 0, retryable |-> TRUE])
    /\ UNCHANGED <<outbox, message, events, retries>>

\* A rate limit or outage (retryable), or a refusal: a closed window, a bad number.
DeliverRefused(w, c, retryable) ==
    /\ TakeUp(w, c, [message |-> c.message, id |-> 0, retryable |-> retryable])
    /\ UNCHANGED <<outbox, message, meta, events, faults, retries>>

MaskedText(m) == IF m \in Linked THEN "masked" ELSE outbox[m].text

Done(m, id) ==
    /\ outbox' = [outbox EXCEPT ![m].status = "done", ![m].ripe = FALSE, ![m].text = MaskedText(m)]
    /\ message' = [message EXCEPT ![m] = [status |-> "accepted", id |-> id]]

TryAgain(m) ==
    /\ outbox' = [outbox EXCEPT ![m].status = "pending", ![m].ripe = FALSE]
    /\ UNCHANGED message

GiveUp(m) ==
    /\ outbox' = [outbox EXCEPT ![m].status = "failed", ![m].ripe = FALSE]
    /\ message' = [message EXCEPT ![m].status = "failed"]

\* whatsapp_complete_outbox: somebody else may have answered for the row.
Complete(a) ==
    IF outbox[a.message].status # "processing" THEN UNCHANGED <<outbox, message>>
    ELSE IF a.id > 0 THEN Done(a.message, a.id)
    ELSE IF a.retryable /\ outbox[a.message].attempts < MaxAttempts THEN TryAgain(a.message)
    ELSE GiveUp(a.message)

Record(w) ==
    /\ worker[w].answer # NoAnswer
    /\ Complete(worker[w].answer)
    /\ worker' = [worker EXCEPT ![w].answer = NoAnswer]
    /\ UNCHANGED <<meta, events, faults, retries>>

\* The result could not be recorded: logged, and the worker moves on.
RecordFails(w) ==
    /\ Fault
    /\ worker[w].answer # NoAnswer
    /\ worker' = [worker EXCEPT ![w].answer = NoAnswer]
    /\ UNCHANGED <<outbox, message, meta, events, retries>>

Crash(w) ==
    /\ Fault
    /\ Working(w)
    /\ worker' = [worker EXCEPT ![w] = NoWork]
    /\ UNCHANGED <<outbox, message, meta, events, retries>>

-----------------------------------------------------------------------------
(* Clocks                                                                   *)

BackoffPasses(m) ==
    /\ outbox[m].status = "pending"
    /\ ~outbox[m].ripe
    /\ outbox' = [outbox EXCEPT ![m].ripe = TRUE]
    /\ UNCHANGED <<message, worker, meta, events, faults, retries>>

LeaseLapses(m) ==
    /\ outbox[m].status = "processing"
    /\ ~outbox[m].ripe
    /\ \/ \A w \in Workers : ~Holds(w, m)
       \/ ~LeaseOutlasts /\ outbox[m].attempts < MaxAttempts + MaxFaults
    /\ outbox' = [outbox EXCEPT ![m].ripe = TRUE]
    /\ UNCHANGED <<message, worker, meta, events, faults, retries>>

-----------------------------------------------------------------------------
(* People                                                                   *)

RetryableWhenFailed(m) == message[m].status = "failed"

\* Not when Meta took it and the link in it is gone.
Retryable(m) ==
    /\ message[m].status = "failed"
    /\ ~(outbox[m].status = "done" /\ m \in Linked)

Retry(m) ==
    /\ retries < MaxRetries
    /\ Retryable(m)
    /\ outbox' = [outbox EXCEPT ![m].status = "pending", ![m].attempts = 0, ![m].ripe = TRUE]
    /\ message' = [message EXCEPT ![m].status = "queued"]
    /\ retries' = retries + 1
    /\ UNCHANGED <<worker, meta, events, faults>>

-----------------------------------------------------------------------------
(* Receipts                                                                 *)

Reported(i, s) == <<i, s>> \in Keys /\ events[<<i, s>>].state # "none"

\* Meta fires a receipt and it is stored; a repeated delivery changes nothing.
Receive(i, s) ==
    /\ i <= Len(meta)
    /\ ~Reported(i, s)
    /\ s = "failed" => ~Reported(i, "delivered") /\ ~Reported(i, "read")
    /\ s \in {"delivered", "read"} => ~Reported(i, "failed")
    /\ events' = [events EXCEPT ![<<i, s>>].state = "stored"]
    /\ UNCHANGED <<outbox, message, worker, meta, faults, retries>>

StatusRank(s) ==
    CASE s = "accepted" -> 1 [] s = "sent" -> 2 [] s = "delivered" -> 3 [] s = "read" -> 4
      [] OTHER -> 0

AppliedLate(old, s) == IF s = "failed" \/ StatusRank(s) > StatusRank(old) THEN s ELSE old

\* Statuses only move forward; a failure lands whenever it comes, and stays.
Applied(old, s) ==
    IF s = "failed" THEN s
    ELSE IF old # "failed" /\ StatusRank(s) > StatusRank(old) THEN s
    ELSE old

\* Left alone once it was tried often enough.
Pending(i, s) == events[<<i, s>>].state = "stored" /\ events[<<i, s>>].tries < MaxTries

Known(i) == {m \in Messages : message[m].id = i}

ApplyStatus(i, s) ==
    message' = [m \in Messages |->
                  IF m \in Known(i) THEN [message[m] EXCEPT !.status = Applied(@, s)]
                                    ELSE message[m]]

Process(i, s) ==
    /\ Pending(i, s)
    /\ Known(i) # {}
    /\ ApplyStatus(i, s)
    /\ events' = [events EXCEPT ![<<i, s>>].state = "processed"]
    /\ UNCHANGED <<outbox, worker, meta, faults, retries>>

\* Applied, and then the mark is lost: the recovery sweep will apply it again.
ProcessUnmarked(i, s) ==
    /\ Fault
    /\ Pending(i, s)
    /\ Known(i) # {}
    /\ ApplyStatus(i, s)
    /\ UNCHANGED <<outbox, worker, meta, events, retries>>

\* The receipt overtook the record of the send, or that record is lost.
ProcessUnknown(i, s) ==
    /\ Pending(i, s)
    /\ Known(i) = {}
    /\ events' = [events EXCEPT ![<<i, s>>].tries = @ + 1]
    /\ UNCHANGED <<outbox, message, worker, meta, faults, retries>>

-----------------------------------------------------------------------------
Sending ==
    \/ \E m \in Messages : Enqueue(m)
    \/ \E w \in Workers, S \in SUBSET Messages : Claim(w, S)
    \/ \E w \in Workers : \E c \in worker[w].batch : DeliverAccepted(w, c)
    \/ \E w \in Workers : \E c \in worker[w].batch : DeliverUnheard(w, c)
    \/ \E w \in Workers : \E c \in worker[w].batch : \E r \in BOOLEAN : DeliverRefused(w, c, r)
    \/ \E w \in Workers : Record(w)
    \/ \E w \in Workers : RecordFails(w)
    \/ \E w \in Workers : Crash(w)

Passing ==
    \/ \E m \in Messages : BackoffPasses(m)
    \/ \E m \in Messages : LeaseLapses(m)
    \/ \E m \in Messages : Retry(m)

Receiving ==
    \/ \E i \in 1 .. MaxSends, s \in Receipts : Receive(i, s)
    \/ \E i \in 1 .. MaxSends, s \in Receipts : Process(i, s)
    \/ \E i \in 1 .. MaxSends, s \in Receipts : ProcessUnmarked(i, s)
    \/ \E i \in 1 .. MaxSends, s \in Receipts : ProcessUnknown(i, s)

Next == Sending \/ Passing \/ Receiving

Spec == Init /\ [][Next]_vars

-----------------------------------------------------------------------------
(* The timer's fairness: each process claims what is due, sends its batch   *)
(* row by row (a send ends within its timeout) and records each answer;     *)
(* backoffs and leases end.  Nothing is assumed of Meta, people or faults.  *)
Deliver(w) ==
    \E c \in worker[w].batch :
       \/ DeliverAccepted(w, c)
       \/ \E r \in BOOLEAN : DeliverRefused(w, c, r)

Fairness ==
    /\ \A w \in Workers :
          /\ WF_vars(Claim(w, {m \in Messages : Claimable(m)}))
          /\ WF_vars(Deliver(w))
          /\ WF_vars(Record(w))
    /\ \A m \in Messages : WF_vars(BackoffPasses(m)) /\ WF_vars(LeaseLapses(m))

FairSpec == Spec /\ Fairness

-----------------------------------------------------------------------------
TypeOK ==
    /\ outbox \in [Messages -> Row]
    /\ message \in [Messages -> [status: MessageStatus, id: 0 .. MaxSends]]
    /\ worker \in [Workers -> [batch: SUBSET Claimed, answer: Answer \cup {NoAnswer}]]
    /\ meta \in Seq(Claimed) /\ Len(meta) <= MaxSends
    /\ events \in [Keys -> [state: {"none", "stored", "processed"}, tries: 0 .. MaxTries]]
    /\ faults \in 0 .. MaxFaults
    /\ retries \in 0 .. MaxRetries

\* A message that carries a supplier link is sent with the link or not at all:
\* never the masked copy that replaces it, through crashes, lapsed leases, late
\* answers and retries.
NoDeadLink == \A i \in DOMAIN meta : meta[i].message \in Linked => meta[i].text = "whole"

\* What staff see of a message with a link agrees with its place in the queue:
\* waiting or being sent, taken by Meta under the id on record, or given up.
LinkTellsQueue ==
    \A m \in Linked :
       /\ outbox[m].status \in {"pending", "processing"} => message[m].status = "queued"
       /\ outbox[m].status = "failed" => message[m].status = "failed"
       /\ outbox[m].status = "done" =>
            /\ message[m].status \notin {"none", "queued"}
            /\ message[m].id \in DOMAIN meta
            /\ meta[message[m].id].message = m

InHand(m) == {w \in Workers : Holds(w, m)}

\* outbox.ts: a row is never claimed again while a worker is still sending it.
LinkInOneHand == \A m \in Linked : Cardinality(InHand(m)) <= 1

\* WhatsApp took m and a worker has yet to record its answer.
Answered(m) ==
    \E w \in Workers :
       /\ worker[w].answer # NoAnswer
       /\ worker[w].answer.message = m
       /\ worker[w].answer.id > 0

Place(m) == IF outbox[m].status = "done" THEN "known"
            ELSE IF Answered(m) THEN "sent"
            ELSE "here"

Copies(m) == {i \in DOMAIN meta : meta[i].message = m}

Life == INSTANCE MessageLife
    WITH Messages <- Linked,
         shown <- [m \in Linked |-> message[m].status],
         place <- [m \in Linked |-> Place(m)],
         copies <- [m \in Linked |-> Cardinality(Copies(m))]

\* A message with a link lives as MessageLife says: WhatsApp gets a further copy
\* only if its answer to the former was lost (meta.provider.ts says why it is sent
\* again), never once an answer is on record; then its status moves forward or
\* fails, and it waits again only while no answer is on record.
LinkLife == Life!LifeSpec

\* Every queued message is one day accepted or given up, whatever a bounded
\* number of crashes and lost answers do.
EveryMessageSettles ==
    \A m \in Messages :
       outbox[m].status = "pending" ~> outbox[m].status \in {"done", "failed"}
=============================================================================
