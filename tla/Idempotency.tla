---------------------------- MODULE Idempotency ----------------------------
(***************************************************************************)
(* Replay protection of HTTP requests: the idempotency middleware and the  *)
(* table it claims keys in.                                                *)
(*                                                                         *)
(* An operation is what a client wants done once; its key stays the same   *)
(* on every attempt.  A request claims the key, runs its handler, whose    *)
(* transactions are the operation's parts, records the answer and sends    *)
(* it.  Those are steps of their own: the connection may close, a call     *)
(* fail or the process die between any two of them.                        *)
(***************************************************************************)
EXTENDS Integers

CONSTANTS
    Ops,          \* operations: one client_operation_id each
    Bodies,       \* what an attempt may ask for (its fingerprint)
    Requests,     \* HTTP requests the server works on at once
    MaxParts,     \* bound: transactions of one handler
    Parts,        \* per operation, the transactions its handler makes
    Reports,      \* operations whose refusals say what was moved (persistIfCommitted)
    MaxFaults     \* bound: closed connections, crashes, failed calls

ASSUME IdempotencyAssumption ==
    /\ Bodies # {}
    /\ MaxParts \in Nat
    /\ Parts \in [Ops -> 1 .. MaxParts]
    /\ Reports \subseteq Ops
    /\ MaxFaults \in Nat

VARIABLES
    keys,     \* idempotency_keys, a row per operation
    request,  \* the requests on the server
    applied,  \* per operation, how often each part was committed for each body
    torn,     \* of those, what handlers that broke left behind as their key was given back
              \* (a record of the past that no guard reads)
    expired,  \* the operation's business date has left the sync window
    heard,    \* what the client was told in answer to its last attempt
    faults

vars == <<keys, request, applied, torn, expired, heard, faults>>

Kept == {"ok", "partial"}
Refusals == {"refused", "error"}
Kinds == Kept \cup Refusals \cup {"busy", "parked", "mismatch"}

NoKey == [state |-> "none"]
Key == [state : {"in_progress"}, stale : BOOLEAN, body : Bodies]
         \cup [state : {"completed"}, body : Bodies, kind : Kept]
Idle == [pc |-> "idle"]
Attempt(steps, kinds) ==
    [pc : steps, op : Ops, body : Bodies, line : {"open", "closed", "settled"},
     late : BOOLEAN, done : Nat, kind : kinds]
Request == Attempt({"sent", "running"}, {"none"}) \cup Attempt({"recording", "answering"}, Kinds)
Unheard == [kind |-> "none"]

\* A part as one body asks for it.
Slots == Bodies \X (1 .. MaxParts)

Init ==
    /\ keys = [o \in Ops |-> NoKey]
    /\ request = [r \in Requests |-> Idle]
    /\ applied = [o \in Ops |-> [slot \in Slots |-> 0]]
    /\ torn = applied
    /\ expired = [o \in Ops |-> FALSE]
    /\ heard = [o \in Ops |-> Unheard]
    /\ faults = 0

Fault == faults < MaxFaults /\ faults' = faults + 1

At(r, step) == request[r].pc = step

\* The requests of an operation that are on the server.
InHand(o) == {r \in Requests : request[r] # Idle /\ request[r].op = o}

-----------------------------------------------------------------------------
(* The client (outside this code): it sends, and sends again until told.    *)

Waiting(o) == \E r \in InHand(o) : request[r].line = "open"

Send(r, o, b) ==
    /\ request[r] = Idle
    /\ ~Waiting(o)
    /\ heard[o].kind # "ok"
    /\ request' = [request EXCEPT ![r] =
                     [pc |-> "sent", op |-> o, body |-> b, line |-> "open",
                      late |-> FALSE, done |-> 0, kind |-> "none"]]
    /\ heard' = [heard EXCEPT ![o] = Unheard]
    /\ UNCHANGED <<keys, applied, torn, expired, faults>>

-----------------------------------------------------------------------------
(* Claiming the key                                                         *)

ToAnswer(r, kind) == request' = [request EXCEPT ![r].pc = "answering", ![r].kind = kind]

Fresh(b) == [state |-> "in_progress", stale |-> FALSE, body |-> b]

OutcomeAnyBody(key, b) ==
    IF key.state = "completed" THEN key.kind
    ELSE IF key.stale THEN "parked" ELSE "busy"

OutcomeNeverStale(key, b) ==
    IF key.body # b THEN "mismatch"
    ELSE IF key.state = "completed" THEN key.kind ELSE "busy"

\* What a repeat is told of the row it meets.
Outcome(key, b) ==
    IF key.body # b THEN "mismatch"
    ELSE IF key.state = "completed" THEN key.kind
    ELSE IF key.stale THEN "parked" ELSE "busy"

ClaimedStale(key) == key.state = "none" \/ (key.state = "in_progress" /\ key.stale)

\* on conflict do nothing: only the first insert owns the claim.
Claimed(key) == key.state = "none"

\* Granted: the handler starts, with the check of the business date.
Claim(r) ==
    /\ At(r, "sent")
    /\ Claimed(keys[request[r].op])
    /\ keys' = [keys EXCEPT ![request[r].op] = Fresh(request[r].body)]
    /\ request' = [request EXCEPT ![r].pc = "running", ![r].late = expired[request[r].op]]
    /\ UNCHANGED <<applied, torn, expired, heard, faults>>

Repeat(r) ==
    /\ At(r, "sent")
    /\ ~Claimed(keys[request[r].op])
    /\ ToAnswer(r, Outcome(keys[request[r].op], request[r].body))
    /\ UNCHANGED <<keys, applied, torn, expired, heard, faults>>

\* The call failed, whether or not its insert was committed.
ClaimFails(r) ==
    /\ At(r, "sent")
    /\ Fault
    /\ ToAnswer(r, "busy")
    /\ \/ UNCHANGED keys
       \/ /\ Claimed(keys[request[r].op])
          /\ keys' = [keys EXCEPT ![request[r].op] = Fresh(request[r].body)]
    /\ UNCHANGED <<applied, torn, expired, heard>>

-----------------------------------------------------------------------------
(* The handler and its answer                                               *)

Commit(r) ==
    LET q == request[r] IN
    /\ At(r, "running")
    /\ ~q.late
    /\ q.done < Parts[q.op]
    /\ applied' = [applied EXCEPT ![q.op] =
                    [applied[q.op] EXCEPT ![<<q.body, q.done + 1>>] = @ + 1]]
    /\ request' = [request EXCEPT ![r].done = @ + 1]
    /\ UNCHANGED <<keys, torn, expired, heard, faults>>

\* res.json: a connection that closed under the handler has settled the request.
Respond(r, kind) ==
    /\ At(r, "running")
    /\ request' = [request EXCEPT ![r] = IF @.line = "settled" THEN Idle
                                         ELSE [@ EXCEPT !.pc = "recording", !.kind = kind]]
    /\ UNCHANGED <<keys, applied, torn, expired, heard>>

Succeed(r) ==
    /\ Respond(r, "ok")
    /\ request[r].done = Parts[request[r].op]
    /\ UNCHANGED faults

Refuse(r) ==
    /\ Respond(r, "refused")
    /\ request[r].done = 0
    /\ UNCHANGED faults

\* A shortfall after some parts: the answer lists what was committed.
StopShort(r) ==
    /\ Respond(r, "partial")
    /\ request[r].op \in Reports
    /\ request[r].done \in 1 .. Parts[request[r].op] - 1
    /\ UNCHANGED faults

\* The error handler answers 500, whatever the handler had committed before it threw.
Break(r) ==
    /\ Respond(r, "error")
    /\ Fault

-----------------------------------------------------------------------------
(* Recording the answer and sending it                                      *)

\* persistOn: success, or a refusal that reports what it moved.
Persisted(kind) == kind \in Kept

\* What a handler that broke leaves behind: its parts stay, and its key is given back.
LeftBehind(r, slot) ==
    LET q == request[r] IN
    IF /\ q.kind = "error" /\ keys[q.op].state = "in_progress"
       /\ slot[1] = q.body /\ slot[2] <= q.done
    THEN 1 ELSE 0

Record(r) ==
    LET q == request[r] IN
    /\ At(r, "recording")
    /\ keys' = [keys EXCEPT ![q.op] =
                  IF @.state = "none" THEN @
                  ELSE IF Persisted(q.kind)
                       THEN [state |-> "completed", body |-> @.body, kind |-> q.kind]
                  ELSE IF @.state = "in_progress" THEN NoKey ELSE @]
    /\ torn' = [torn EXCEPT ![q.op] =
                  [slot \in Slots |-> torn[q.op][slot] + LeftBehind(r, slot)]]
    /\ ToAnswer(r, q.kind)
    /\ UNCHANGED <<applied, expired, heard, faults>>

\* Logged; the claim stays in flight and the answer is sent all the same.
RecordFails(r) ==
    /\ At(r, "recording")
    /\ Fault
    /\ ToAnswer(r, request[r].kind)
    /\ UNCHANGED <<keys, applied, torn, expired, heard>>

Deliver(r) ==
    LET q == request[r] IN
    /\ At(r, "answering")
    /\ heard' = IF q.line = "open" THEN [heard EXCEPT ![q.op] = [kind |-> q.kind, body |-> q.body]]
                                     ELSE heard
    /\ request' = [request EXCEPT ![r] = Idle]
    /\ UNCHANGED <<keys, applied, torn, expired, faults>>

-----------------------------------------------------------------------------
(* What may go wrong, and the clocks                                        *)

Hangs(r) ==
    /\ request[r] # Idle /\ request[r].line = "open"
    /\ request' = [request EXCEPT ![r].line = IF At(r, "running") THEN "settled" ELSE "closed"]

\* The client gives up or the network drops.  The server works on; a handler that
\* was running will leave its claim in flight.
Close(r) ==
    /\ Hangs(r)
    /\ Fault
    /\ UNCHANGED <<keys, applied, torn, expired, heard>>

\* The process dies, or the request never reached it.
Crash(r) ==
    /\ request[r] # Idle
    /\ Fault
    /\ request' = [request EXCEPT ![r] = Idle]
    /\ UNCHANGED <<keys, applied, torn, expired, heard>>

\* STALE_AFTER_SECONDS pass over a claim in flight.
KeyAges(o) ==
    /\ keys[o].state = "in_progress" /\ ~keys[o].stale
    /\ keys' = [keys EXCEPT ![o].stale = TRUE]
    /\ UNCHANGED <<request, applied, torn, expired, heard, faults>>

\* The sync window of seven business days passes.
Expire(o) ==
    /\ ~expired[o]
    /\ expired' = [expired EXCEPT ![o] = TRUE]
    /\ UNCHANGED <<keys, request, applied, torn, heard, faults>>

\* Keys of thirty days, weeks after the window and every request's end.
Purge(o) ==
    /\ keys[o].state # "none"
    /\ expired[o] /\ InHand(o) = {}
    /\ keys' = [keys EXCEPT ![o] = NoKey]
    /\ UNCHANGED <<request, applied, torn, expired, heard, faults>>

Handle(r) == \/ Claim(r) \/ Repeat(r) \/ Commit(r) \/ Succeed(r) \/ Refuse(r)
             \/ Record(r) \/ Deliver(r)

Next ==
    \/ \E r \in Requests : \/ Handle(r) \/ StopShort(r)
                           \/ ClaimFails(r) \/ Break(r) \/ RecordFails(r)
                           \/ Close(r) \/ Crash(r)
                           \/ \E o \in Ops, b \in Bodies : Send(r, o, b)
    \/ \E o \in Ops : KeyAges(o) \/ Expire(o) \/ Purge(o)

Spec == Init /\ [][Next]_vars

\* A handler ends, a client that was told nothing final sends again, time passes.
FairSpec ==
    /\ Spec
    /\ \A r \in Requests : WF_vars(Handle(r))
    /\ \A o \in Ops : /\ WF_vars(\E r \in Requests, b \in Bodies : Send(r, o, b))
                      /\ WF_vars(KeyAges(o))

-----------------------------------------------------------------------------
(* Properties                                                               *)

TypeOK ==
    /\ keys \in [Ops -> {NoKey} \cup Key]
    /\ request \in [Requests -> {Idle} \cup Request]
    /\ applied \in [Ops -> [Slots -> Nat]]
    /\ torn \in [Ops -> [Slots -> Nat]]
    /\ \A o \in Ops : heard[o] = Unheard \/ heard[o] \in [kind : Kinds, body : Bodies]
    /\ expired \in [Ops -> BOOLEAN]
    /\ faults \in 0 .. MaxFaults

\* Nothing stands applied.  What a broken handler left behind is counted apart: the
\* middleware takes a 500 for a request that moved nothing, gives its key back and lets
\* the next attempt move it all again.
Untouched(o) ==
    \A b \in Bodies, p \in 1 .. MaxParts : applied[o][<<b, p>>] = torn[o][<<b, p>>]

\* The first n parts, once each, and nothing of another body.
AppliedUpTo(o, b, n) ==
    \A c \in Bodies, p \in 1 .. MaxParts :
        applied[o][<<c, p>>] = torn[o][<<c, p>>] + IF c = b /\ p <= n THEN 1 ELSE 0

\* However often an operation is sent, and whatever its attempts ask for, each part
\* of it is committed at most once, in order, and all for one body: closed
\* connections, crashes, lost answers and failed bookkeeping included, and handlers
\* that stop short.  The one thing set aside is what a handler that threw had committed.
AppliedOnce ==
    \A o \in Ops : \E b \in Bodies, n \in 0 .. Parts[o] : AppliedUpTo(o, b, n)

\* What the client is told was done is what was done: every part as this attempt
\* asked for it, or some of them and no more to come.  A 500 tells of nothing, so what a
\* handler that threw had committed is on top of it, here too.
AnswersAreTrue ==
    \A o \in Ops :
        /\ heard[o].kind = "ok" => AppliedUpTo(o, heard[o].body, Parts[o])
        /\ heard[o].kind = "partial" =>
             \E n \in 1 .. Parts[o] - 1 : AppliedUpTo(o, heard[o].body, n)

\* A refusal need not be the last word, for an attempt the client gave up may arrive
\* after it; but once anything stands applied the key is in place, so the next attempt
\* is told of it and runs nothing.
KeyRemembers ==
    \A o \in Ops : ~Untouched(o) /\ ~expired[o] =>
        /\ keys[o].state # "none"
        /\ \E n \in 1 .. Parts[o] : AppliedUpTo(o, keys[o].body, n)
        /\ keys[o].state = "completed" /\ keys[o].kind = "ok" =>
             AppliedUpTo(o, keys[o].body, Parts[o])

\* Nothing is done behind the back of a client that has its final answer.
SettledStays ==
    [][\A o \in Ops : heard[o].kind \in Kept => applied'[o] = applied[o]]_vars

\* Every operation gets an answer that says what became of it, or that a person has
\* to look: none is told for ever to come back later.
EveryOpAnswered ==
    \A o \in Ops : heard[o].kind \in {"none", "busy"}
                      ~> heard[o].kind \notin {"none", "busy"}
=============================================================================
