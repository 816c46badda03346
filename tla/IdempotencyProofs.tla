-------------------------- MODULE IdempotencyProofs --------------------------
(***************************************************************************)
(* Whatever the number of operations, requests, bodies, parts and faults,  *)
(* an operation under a key is applied once and its client hears the       *)
(* truth; what a handler that threw had committed is counted apart.        *)
(***************************************************************************)
EXTENDS Idempotency, TLAPS

Owns(r) == request[r].pc \in {"running", "recording"}

\* No handler that holds the operation's claim has committed anything or will.
Quiet(o) == \A r \in Requests : Owns(r) /\ request[r].op = o => request[r].late

Told(o, kind, b) ==
    /\ kind = "ok" => AppliedUpTo(o, b, Parts[o])
    /\ kind = "partial" => \E n \in 1 .. Parts[o] - 1 : AppliedUpTo(o, b, n)
    /\ kind \in Kept => Quiet(o)

\* A request that owns the claim has applied what it has done, and nobody else has.
OwnerOK(r) ==
    LET q == request[r] IN
    Owns(r) =>
        /\ keys[q.op].state = "in_progress" /\ keys[q.op].body = q.body
        /\ q.done \in 0 .. Parts[q.op]
        /\ q.late => expired[q.op] /\ q.done = 0
        /\ ~q.late => AppliedUpTo(q.op, q.body, q.done)

AnswerOK(r) ==
    LET q == request[r] IN
    /\ q.pc = "sent" => q.done = 0
    /\ q.pc = "recording" =>
         /\ q.kind \in Kept \cup Refusals
         /\ q.kind = "ok" => q.done = Parts[q.op]
         /\ q.kind = "partial" => q.done \in 1 .. Parts[q.op] - 1
         /\ q.kind = "refused" => q.done = 0
    /\ q.pc = "answering" => Told(q.op, q.kind, q.body)

OneOwner == \A r, s \in Requests :
    Owns(r) /\ Owns(s) /\ request[r].op = request[s].op => r = s

KeyOK(o) ==
    /\ keys[o].state = "none" => Untouched(o) \/ expired[o]
    /\ keys[o].state = "in_progress" =>
         expired[o] \/ \E n \in 0 .. Parts[o] : AppliedUpTo(o, keys[o].body, n)
    /\ keys[o].state = "completed" => Told(o, keys[o].kind, keys[o].body)

HeardOK(o) == heard[o].kind \in Kept => Told(o, heard[o].kind, heard[o].body)

IdemInv ==
    /\ TypeOK
    /\ \A r \in Requests : OwnerOK(r) /\ AnswerOK(r)
    /\ OneOwner
    /\ \A o \in Ops : KeyOK(o) /\ HeardOK(o)
    /\ AppliedOnce

-----------------------------------------------------------------------------
(* Type correctness                                                         *)

LEMMA InitTyped == Init => TypeOK
  BY IdempotencyAssumption DEF Init, TypeOK, Unheard, NoKey, Idle

LEMMA RequestsTyped ==
  ASSUME TypeOK, NEW r \in Requests, request[r] # Idle
  PROVE  /\ request[r] \in Request
         /\ request[r].op \in Ops /\ request[r].body \in Bodies /\ request[r].done \in Nat
  BY DEF TypeOK, Request, Attempt

LEMMA KeysTyped ==
  ASSUME TypeOK, NEW o \in Ops
  PROVE  /\ keys[o].state = "none" => keys[o] = NoKey
         /\ keys[o].state = "in_progress" =>
              keys[o] \in [state : {"in_progress"}, stale : BOOLEAN, body : Bodies]
         /\ keys[o].state = "completed" =>
              keys[o] \in [state : {"completed"}, body : Bodies, kind : Kept]
         /\ keys[o].state # "none" => keys[o].body \in Bodies
         /\ keys[o].state \in {"none", "in_progress", "completed"}
  BY DEF TypeOK, Key, NoKey

LEMMA AttemptMoves ==
  ASSUME NEW q \in Request, NEW step, NEW kind, NEW kinds, NEW steps,
         step \in steps, kind \in kinds
  PROVE  [q EXCEPT !.pc = step, !.kind = kind] \in Attempt(steps, kinds)
  BY DEF Request, Attempt

LEMMA RequestMoves ==
  ASSUME TypeOK, NEW r \in Requests, NEW q \in {Idle} \cup Request,
         request' = [request EXCEPT ![r] = q]
  PROVE  request' \in [Requests -> {Idle} \cup Request]
  BY DEF TypeOK

LEMMA ToAnswerTyped ==
  ASSUME TypeOK, NEW r \in Requests, request[r] # Idle, NEW kind \in Kinds, ToAnswer(r, kind)
  PROVE  request' \in [Requests -> {Idle} \cup Request]
<1> DEFINE q == [request[r] EXCEPT !.pc = "answering", !.kind = kind]
<1>1. q \in Request
  BY RequestsTyped, AttemptMoves DEF Request
<1>2. request' = [request EXCEPT ![r] = q]
  BY DEF ToAnswer
<1> QED BY <1>1, <1>2, RequestMoves

LEMMA OutcomeTyped ==
  ASSUME TypeOK, NEW o \in Ops, NEW b, keys[o].state # "none"
  PROVE  Outcome(keys[o], b) \in Kinds
  BY KeysTyped DEF Outcome, Kinds

LEMMA RespondTyped ==
  ASSUME TypeOK, NEW r \in Requests, NEW kind \in Kinds, Respond(r, kind),
         UNCHANGED faults \/ Fault
  PROVE  TypeOK'
<1>1. request[r] \in Request
  BY RequestsTyped DEF Respond, At, Idle
<1> DEFINE q == [request[r] EXCEPT !.pc = "recording", !.kind = kind]
<1>2. q \in Request
  BY <1>1, AttemptMoves DEF Request
<1>3. request' = [request EXCEPT ![r] = IF request[r].line = "settled" THEN Idle ELSE q]
  BY DEF Respond
<1>4. request' \in [Requests -> {Idle} \cup Request]
  BY <1>2, <1>3, RequestMoves
<1> QED BY <1>4, IdempotencyAssumption DEF Respond, TypeOK, Fault

LEMMA CountOnce ==
  ASSUME NEW S, NEW f \in [S -> Nat], NEW s \in S
  PROVE  [f EXCEPT ![s] = @ + 1] \in [S -> Nat]
  OBVIOUS

LEMMA CountTyped ==
  ASSUME TypeOK, NEW o \in Ops, NEW slot \in Slots,
         applied' = [applied EXCEPT ![o] = [applied[o] EXCEPT ![slot] = @ + 1]]
  PROVE  applied' \in [Ops -> [Slots -> Nat]]
<1> DEFINE moved == [applied[o] EXCEPT ![slot] = @ + 1]
<1>1. applied \in [Ops -> [Slots -> Nat]]
  BY DEF TypeOK
<1>2. moved \in [Slots -> Nat]
  BY <1>1, CountOnce
<1>3. applied' = [applied EXCEPT ![o] = moved]
  OBVIOUS
<1> HIDE DEF moved
<1> QED BY <1>1, <1>2, <1>3

LEMMA TypeStep == TypeOK /\ [Next]_vars => TypeOK'
<1> SUFFICES ASSUME TypeOK, [Next]_vars PROVE TypeOK'
  OBVIOUS
<1>1. ASSUME NEW r \in Requests, NEW o \in Ops, NEW b \in Bodies, Send(r, o, b) PROVE TypeOK'
  BY <1>1 DEF Send, TypeOK, Request, Attempt, Unheard
<1>2. ASSUME NEW r \in Requests, Claim(r) PROVE TypeOK'
  <2>1. request[r] \in Request /\ request[r].op \in Ops /\ request[r].body \in Bodies
    BY <1>2, RequestsTyped DEF Claim, At, Idle
  <2>2. keys' \in [Ops -> {NoKey} \cup Key]
    BY <1>2, <2>1 DEF Claim, TypeOK, Fresh, Key
  <2>3. [request[r] EXCEPT !.pc = "running", !.late = expired[request[r].op]] \in Request
    <3>1. expired[request[r].op] \in BOOLEAN
      BY <2>1 DEF TypeOK
    <3>2. request[r].pc = "sent"
      BY <1>2 DEF Claim, At
    <3> QED
      BY <2>1, <3>1, <3>2 DEF Request, Attempt
  <2>4. request' \in [Requests -> {Idle} \cup Request]
    BY <1>2, <2>3, RequestMoves DEF Claim
  <2> QED BY <1>2, <2>2, <2>4 DEF Claim, TypeOK
<1>3. ASSUME NEW r \in Requests, Repeat(r) PROVE TypeOK'
  <2>1. request[r] # Idle /\ request[r].op \in Ops
    BY <1>3, RequestsTyped DEF Repeat, At, Idle
  <2>2. request' \in [Requests -> {Idle} \cup Request]
    BY <1>3, <2>1, ToAnswerTyped, OutcomeTyped DEF Repeat, Claimed
  <2> QED BY <1>3, <2>2 DEF Repeat, TypeOK
<1>4. ASSUME NEW r \in Requests, ClaimFails(r) PROVE TypeOK'
  <2>1. request[r] # Idle /\ request[r].op \in Ops /\ request[r].body \in Bodies
    BY <1>4, RequestsTyped DEF ClaimFails, At, Idle
  <2>2. request' \in [Requests -> {Idle} \cup Request]
    BY <1>4, <2>1, ToAnswerTyped DEF ClaimFails, Kinds
  <2>3. Fresh(request[r].body) \in Key
    BY <2>1 DEF Fresh, Key
  <2>4. keys' = keys \/ keys' = [keys EXCEPT ![request[r].op] = Fresh(request[r].body)]
    BY <1>4 DEF ClaimFails
  <2>5. keys' \in [Ops -> {NoKey} \cup Key]
    BY <2>1, <2>3, <2>4 DEF TypeOK
  <2> QED BY <1>4, <2>2, <2>5, IdempotencyAssumption DEF ClaimFails, TypeOK, Fault
<1>5. ASSUME NEW r \in Requests, Commit(r) PROVE TypeOK'
  <2>1. request[r] \in Request /\ request[r].op \in Ops /\ request[r].body \in Bodies
                              /\ request[r].done \in Nat
    BY <1>5, RequestsTyped DEF Commit, At, Idle
  <2>2. [request[r] EXCEPT !.done = @ + 1] \in Request
    BY <2>1 DEF Request, Attempt
  <2>3. request' \in [Requests -> {Idle} \cup Request]
    BY <1>5, <2>2, RequestMoves DEF Commit
  <2>4. applied' \in [Ops -> [Slots -> Nat]]
    <3>1. Parts[request[r].op] \in 1 .. MaxParts /\ MaxParts \in Nat
      BY <2>1, IdempotencyAssumption
    <3> DEFINE slot == <<request[r].body, request[r].done + 1>>
    <3>2. slot \in Slots
      BY <1>5, <2>1, <3>1 DEF Commit, Slots
    <3>3. applied' = [applied EXCEPT ![request[r].op] =
                          [applied[request[r].op] EXCEPT ![slot] = @ + 1]]
      BY <1>5 DEF Commit
    <3> HIDE DEF slot
    <3> QED BY <2>1, <3>2, <3>3, CountTyped
  <2> QED BY <1>5, <2>3, <2>4 DEF Commit, TypeOK
<1>6. ASSUME NEW r \in Requests, Succeed(r) \/ Refuse(r) \/ StopShort(r) \/ Break(r)
      PROVE TypeOK'
  BY <1>6, RespondTyped DEF Succeed, Refuse, StopShort, Break, Kinds, Kept, Refusals
<1>7. ASSUME NEW r \in Requests, Record(r) PROVE TypeOK'
  <2>1. request[r] # Idle /\ request[r].op \in Ops /\ request[r].kind \in Kinds
    BY <1>7, RequestsTyped DEF Record, At, Idle, Request, Attempt
  <2>2. request' \in [Requests -> {Idle} \cup Request]
    BY <1>7, <2>1, ToAnswerTyped DEF Record
  <2>3. keys' \in [Ops -> {NoKey} \cup Key]
    BY <1>7, <2>1, KeysTyped DEF Record, TypeOK, Persisted, Key
  <2>4. torn' \in [Ops -> [Slots -> Nat]]
    <3> DEFINE after == [slot \in Slots |-> torn[request[r].op][slot] + LeftBehind(r, slot)]
    <3>1. torn \in [Ops -> [Slots -> Nat]] /\ torn' = [torn EXCEPT ![request[r].op] = after]
      BY <1>7 DEF Record, TypeOK
    <3>2. \A slot \in Slots : LeftBehind(r, slot) \in Nat
      BY DEF LeftBehind
    <3>3. after \in [Slots -> Nat]
      BY <2>1, <3>1, <3>2
    <3> HIDE DEF after
    <3> QED BY <2>1, <3>1, <3>3
  <2> QED BY <1>7, <2>2, <2>3, <2>4 DEF Record, TypeOK
<1>8. ASSUME NEW r \in Requests, RecordFails(r) PROVE TypeOK'
  <2>1. request[r] # Idle /\ request[r].kind \in Kinds
    BY <1>8, RequestsTyped DEF RecordFails, At, Idle, Request, Attempt
  <2>2. request' \in [Requests -> {Idle} \cup Request]
    BY <1>8, <2>1, ToAnswerTyped DEF RecordFails
  <2> QED BY <1>8, <2>2, IdempotencyAssumption DEF RecordFails, TypeOK, Fault
<1>9. ASSUME NEW r \in Requests, Deliver(r) PROVE TypeOK'
  <2>1. request[r] # Idle /\ request[r].op \in Ops /\ request[r].body \in Bodies
                        /\ request[r].kind \in Kinds
    BY <1>9, RequestsTyped DEF Deliver, At, Idle, Request, Attempt
  <2> QED BY <1>9, <2>1 DEF Deliver, TypeOK
<1>10. ASSUME NEW r \in Requests, Close(r) PROVE TypeOK'
  <2>1. request[r] \in Request
    BY <1>10, RequestsTyped DEF Close, Hangs
  <2>2. \A l \in {"open", "closed", "settled"} : [request[r] EXCEPT !.line = l] \in Request
    BY <2>1 DEF Request, Attempt
  <2>3. request' \in [Requests -> {Idle} \cup Request]
    BY <1>10, <2>2, RequestMoves DEF Close, Hangs
  <2> QED BY <1>10, <2>3, IdempotencyAssumption DEF Close, TypeOK, Fault
<1>11. ASSUME NEW r \in Requests, Crash(r) PROVE TypeOK'
  BY <1>11, IdempotencyAssumption DEF Crash, TypeOK, Fault
<1>12. ASSUME NEW o \in Ops, KeyAges(o) \/ Expire(o) \/ Purge(o) PROVE TypeOK'
  <2>1. CASE KeyAges(o)
    <3>1. keys[o] \in [state : {"in_progress"}, stale : BOOLEAN, body : Bodies]
      BY <2>1, KeysTyped DEF KeyAges
    <3> QED BY <2>1, <3>1 DEF KeyAges, TypeOK, Key
  <2>2. CASE Expire(o)
    BY <2>2 DEF Expire, TypeOK
  <2>3. CASE Purge(o)
    BY <2>3 DEF Purge, TypeOK
  <2> QED BY <1>12, <2>1, <2>2, <2>3
<1>13. CASE UNCHANGED vars
  BY <1>13 DEF vars, TypeOK
<1> QED
  BY <1>1, <1>2, <1>3, <1>4, <1>5, <1>6, <1>7, <1>8, <1>9, <1>10, <1>11, <1>12, <1>13
     DEF Next, Handle

\* The rows, requests, counts and answers are what the code can hold: among other
\* things only a success or a refusal that reports its parts is ever stored.
THEOREM IdempotencyTyped == Spec => []TypeOK
  BY InitTyped, TypeStep, PTL DEF Spec

-----------------------------------------------------------------------------
(* The invariant                                                            *)

LEMMA Untold == TypeOK => \A o \in Ops, b \in Bodies : Untouched(o) <=> AppliedUpTo(o, b, 0)
<1> SUFFICES ASSUME TypeOK, NEW o \in Ops, NEW b \in Bodies,
                    NEW c \in Bodies, NEW p \in 1 .. MaxParts
             PROVE applied[o][<<c, p>>] = torn[o][<<c, p>>] <=>
                     applied[o][<<c, p>>] =
                       torn[o][<<c, p>>] + IF c = b /\ p <= 0 THEN 1 ELSE 0
  BY DEF Untouched, AppliedUpTo
<1>1. torn[o][<<c, p>>] \in Nat /\ ~(p <= 0)
  BY IdempotencyAssumption DEF TypeOK, Slots
<1> QED BY <1>1

LEMMA UntoldNext ==
  (TypeOK => \A o \in Ops, b \in Bodies : Untouched(o) <=> AppliedUpTo(o, b, 0))'
  BY Untold, PTL

LEMMA InitInv == Init => IdemInv
<1> SUFFICES ASSUME Init PROVE IdemInv
  OBVIOUS
<1>1. \A o \in Ops : Untouched(o)
  BY IdempotencyAssumption DEF Init, Untouched, Slots
<1>2. AppliedOnce
  <2> SUFFICES ASSUME NEW o \in Ops
               PROVE \E b \in Bodies, n \in 0 .. Parts[o] : AppliedUpTo(o, b, n)
    BY DEF AppliedOnce
  <2>1. 0 \in 0 .. Parts[o]
    BY IdempotencyAssumption
  <2>2. PICK b \in Bodies : AppliedUpTo(o, b, 0)
    BY <1>1, InitTyped, Untold, IdempotencyAssumption
  <2> QED BY <2>1, <2>2
<1>3. \A r \in Requests : request[r].pc = "idle"
  BY DEF Init, Idle
<1>4. (\A r \in Requests : OwnerOK(r) /\ AnswerOK(r)) /\ OneOwner
  BY <1>3 DEF OwnerOK, AnswerOK, OneOwner, Owns
<1>5. \A o \in Ops : KeyOK(o) /\ HeardOK(o)
  BY <1>1 DEF Init, KeyOK, HeardOK, NoKey, Unheard, Kept
<1> QED BY <1>2, <1>4, <1>5, InitTyped DEF IdemInv

\* A step that commits nothing, keeps every claim as it is and hands none out.
Calm ==
    /\ applied' = applied /\ torn' = torn
    /\ \A o \in Ops : /\ expired[o] => expired'[o]
                      /\ \/ keys'[o] = keys[o]
                         \/ /\ keys[o].state = "in_progress" /\ keys'[o].state = "in_progress"
                            /\ keys'[o].body = keys[o].body
    /\ \A r \in Requests : Owns(r)' =>
          /\ Owns(r) /\ (At(r, "running")' => At(r, "running"))
          /\ request'[r].op = request[r].op /\ request'[r].body = request[r].body
          /\ request'[r].done = request[r].done /\ request'[r].late = request[r].late

\* What the client is told stays true.
Standing == \A o \in Ops, b \in Bodies, kind \in Kinds : Told(o, kind, b) => Told(o, kind, b)'

LEMMA CalmStands == Calm => Standing
<1> SUFFICES ASSUME Calm, NEW o \in Ops, NEW b \in Bodies, NEW kind \in Kinds, Told(o, kind, b)
             PROVE Told(o, kind, b)'
  BY DEF Standing
<1>1. Quiet(o) => Quiet(o)'
  BY DEF Calm, Quiet
<1>2. \A n : AppliedUpTo(o, b, n) => AppliedUpTo(o, b, n)'
  BY DEF Calm, AppliedUpTo
<1> QED BY <1>1, <1>2 DEF Told

LEMMA KeyStands ==
  ASSUME IdemInv, Standing, NEW o \in Ops, keys'[o] = keys[o],
         applied'[o] = applied[o], torn'[o] = torn[o], expired[o] => expired'[o]
  PROVE  KeyOK(o)'
<1>1. KeyOK(o)
  BY DEF IdemInv
<1>2. keys[o].state = "completed" => keys[o].kind \in Kinds /\ keys[o].body \in Bodies
  BY KeysTyped DEF IdemInv, Kept, Kinds
<1>3. ASSUME NEW kind, NEW b, keys[o].state = "completed", keys[o].kind = kind, keys[o].body = b
      PROVE Told(o, kind, b)'
  BY <1>1, <1>2, <1>3 DEF KeyOK, Standing
<1>4. keys[o].state = "completed" => (Told(o, keys[o].kind, keys[o].body))'
  BY <1>3
<1>5. Untouched(o) => Untouched(o)'
  BY DEF Untouched
<1>6. \A b, n : AppliedUpTo(o, b, n) => AppliedUpTo(o, b, n)'
  BY DEF AppliedUpTo
<1> QED BY <1>1, <1>4, <1>5, <1>6 DEF KeyOK

LEMMA CalmOwners ==
  ASSUME IdemInv, TypeOK', Calm
  PROVE  /\ \A r \in Requests : OwnerOK(r)'
         /\ OneOwner' /\ AppliedOnce'
         /\ \A o \in Ops : KeyOK(o)'
<1>1. ASSUME NEW r \in Requests PROVE OwnerOK(r)'
  <2> SUFFICES ASSUME Owns(r)' PROVE OwnerOK(r)'
    BY DEF OwnerOK
  <2>1. OwnerOK(r) /\ Owns(r) /\ request[r].op \in Ops
    BY RequestsTyped DEF IdemInv, Calm, Owns, Idle
  <2> QED BY <2>1 DEF OwnerOK, Calm, AppliedUpTo
<1>2. OneOwner'
  BY DEF IdemInv, OneOwner, Calm
<1>3. AppliedOnce'
  BY DEF IdemInv, AppliedOnce, AppliedUpTo, Calm
<1>4. ASSUME NEW o \in Ops PROVE KeyOK(o)'
  <2>1. KeyOK(o)
    BY DEF IdemInv
  <2>2. CASE keys'[o] = keys[o]
    BY <2>2, CalmStands, KeyStands DEF Calm
  <2>3. CASE /\ keys[o].state = "in_progress" /\ keys'[o].state = "in_progress"
             /\ keys'[o].body = keys[o].body
    BY <2>1, <2>3 DEF KeyOK, Calm, AppliedUpTo
  <2> QED BY <2>2, <2>3 DEF Calm
<1> QED BY <1>1, <1>2, <1>3, <1>4

LEMMA AnswerStands ==
  ASSUME IdemInv, Standing, NEW r \in Requests, request'[r] = request[r]
  PROVE  AnswerOK(r)'
<1>1. AnswerOK(r) /\ TypeOK
  BY DEF IdemInv
<1>2. CASE request[r].pc = "answering"
  <2>1. request[r].op \in Ops /\ request[r].body \in Bodies /\ request[r].kind \in Kinds
    BY <1>1, <1>2, RequestsTyped DEF Idle, Request, Attempt
  <2>2. ASSUME NEW o, NEW b, NEW kind,
               request[r].op = o, request[r].body = b, request[r].kind = kind
        PROVE Told(o, kind, b)'
    BY <1>1, <1>2, <2>1, <2>2 DEF AnswerOK, Standing
  <2> QED BY <1>2, <2>2 DEF AnswerOK
<1>3. CASE request[r].pc # "answering"
  BY <1>1, <1>3 DEF AnswerOK
<1> QED BY <1>2, <1>3

LEMMA HeardStands ==
  ASSUME IdemInv, Standing, NEW o \in Ops, heard'[o] = heard[o]
  PROVE  HeardOK(o)'
<1>1. HeardOK(o) /\ TypeOK
  BY DEF IdemInv
<1>2. CASE heard[o].kind \in Kept
  <2>1. heard[o].body \in Bodies /\ heard[o].kind \in Kinds
    BY <1>1, <1>2 DEF TypeOK, Unheard, Kept
  <2>2. ASSUME NEW b, NEW kind, heard[o].body = b, heard[o].kind = kind
        PROVE Told(o, kind, b)'
    BY <1>1, <1>2, <2>1, <2>2 DEF HeardOK, Standing
  <2> QED BY <1>2, <2>2 DEF HeardOK
<1>3. CASE heard[o].kind \notin Kept
  BY <1>3 DEF HeardOK
<1> QED BY <1>2, <1>3

\* A calm step of one request: what is left to show is that its own answer is true.
LEMMA CalmStep ==
  ASSUME IdemInv, TypeOK', Calm, NEW r \in Requests, AnswerOK(r)',
         \A s \in Requests \ {r} : request'[s] = request[s],
         \A o \in Ops : HeardOK(o)'
  PROVE  IdemInv'
<1>1. Standing
  BY CalmStands
<1>2. \A s \in Requests : AnswerOK(s)'
  BY <1>1, AnswerStands
<1> QED BY <1>2, CalmOwners DEF IdemInv

\* One part of an operation is enough to tell it from an untouched one.
LEMMA ToldTouched ==
  ASSUME TypeOK, NEW o \in Ops, NEW b \in Bodies, NEW kind \in Kept, Told(o, kind, b)
  PROVE  ~Untouched(o)
<1>1. PICK n \in 1 .. MaxParts : AppliedUpTo(o, b, n)
  BY IdempotencyAssumption DEF Told, Kept
<1>2. 1 \in 1 .. MaxParts
  BY IdempotencyAssumption
<1>3. torn[o][<<b, 1>>] \in Nat
  BY <1>2 DEF TypeOK, Slots
<1>4. applied[o][<<b, 1>>] = torn[o][<<b, 1>>] + 1
  BY <1>1, <1>2 DEF AppliedUpTo
<1> QED BY <1>2, <1>3, <1>4 DEF Untouched

-----------------------------------------------------------------------------
(* Steps that leave the claims where they are                               *)

LEMMA SendInv ==
  ASSUME IdemInv, TypeOK', NEW r \in Requests, NEW o \in Ops, NEW b \in Bodies, Send(r, o, b)
  PROVE  IdemInv'
<1>0. request \in [Requests -> {Idle} \cup Request] /\ \A p \in Ops : HeardOK(p)
  BY DEF IdemInv, TypeOK
<1>1. /\ request'[r].pc = "sent" /\ request'[r].done = 0
      /\ \A s \in Requests \ {r} : request'[s] = request[s]
  BY <1>0 DEF Send
<1>2. Calm
  BY <1>1 DEF Send, Calm, Owns, At
<1>3. AnswerOK(r)'
  BY <1>1 DEF AnswerOK
<1>4. ASSUME NEW p \in Ops PROVE HeardOK(p)'
  <2>1. heard'[p] = heard[p] \/ heard'[p].kind \notin Kept
    BY DEF Send, Unheard, Kept, IdemInv, TypeOK
  <2> QED BY <1>2, <2>1, CalmStands, HeardStands DEF HeardOK
<1> QED BY <1>1, <1>2, <1>3, <1>4, CalmStep

\* A request that only moves on to its answer, the keys staying as they are.
LEMMA AnsweredInv ==
  ASSUME IdemInv, TypeOK', NEW r \in Requests, request[r] # Idle, NEW kind,
         ToAnswer(r, kind), UNCHANGED <<keys, applied, torn, expired, heard>>,
         Told(request[r].op, kind, request[r].body)'
  PROVE  IdemInv'
<1>0. request \in [Requests -> {Idle} \cup Request]
  BY DEF IdemInv, TypeOK
<1>1. /\ request'[r].pc = "answering" /\ request'[r].kind = kind
      /\ \A s \in Requests \ {r} : request'[s] = request[s]
  BY <1>0, RequestsTyped DEF IdemInv, ToAnswer, Request, Attempt
<1>2. Calm
  BY <1>1 DEF Calm, Owns, At
<1>3. AnswerOK(r)'
  BY <1>1 DEF AnswerOK
<1>4. \A p \in Ops : HeardOK(p)'
  BY <1>2, CalmStands, HeardStands
<1> QED BY <1>1, <1>2, <1>3, <1>4, CalmStep

LEMMA RepeatInv ==
  ASSUME IdemInv, TypeOK', NEW r \in Requests, Repeat(r)
  PROVE  IdemInv'
<1> DEFINE o == request[r].op  b == request[r].body  kind == Outcome(keys[o], b)
<1>1. request[r] # Idle /\ o \in Ops /\ b \in Bodies /\ TypeOK
  BY RequestsTyped DEF IdemInv, Repeat, At, Idle
<1>2. keys[o].state # "none"
  BY DEF Repeat, Claimed
<1>3. kind \in Kept => keys[o].state = "completed" /\ keys[o].kind = kind /\ keys[o].body = b
  BY <1>1, <1>2, KeysTyped DEF Outcome, Kept
<1>4. kind \in Kept => Told(o, kind, b)
  BY <1>1, <1>3 DEF IdemInv, KeyOK
<1>5. request'[r].op = o /\ request'[r].body = b /\ request'[r].kind = kind
      /\ (\A s \in Requests : Owns(s)' =>
             /\ Owns(s) /\ request'[s].op = request[s].op
             /\ request'[s].late = request[s].late)
  <2>1. request \in [Requests -> {Idle} \cup Request] /\ request[r] \in Request
    BY <1>1, RequestsTyped DEF TypeOK
  <2> QED BY <2>1 DEF Repeat, ToAnswer, Request, Attempt, Owns
<1>6. ASSUME NEW p, NEW k, NEW c, Told(p, k, c), k \in Kept PROVE Told(p, k, c)'
  BY <1>5, <1>6 DEF Told, Quiet, Repeat, AppliedUpTo
<1>7. PICK k : k = kind
  OBVIOUS
<1>8. Told(request[r].op, k, request[r].body)'
  <2>1. ASSUME NEW p, NEW c, p = o, c = b PROVE Told(p, k, c)'
    <3>1. CASE k \in Kept
      BY <1>4, <1>6, <1>7, <2>1, <3>1
    <3>2. CASE k \notin Kept
      BY <3>2 DEF Told, Kept
    <3> QED BY <3>1, <3>2
  <2> QED BY <1>5, <2>1
<1>9. ToAnswer(r, k) /\ UNCHANGED <<keys, applied, torn, expired, heard>>
  BY <1>7 DEF Repeat
<1> QED BY <1>1, <1>8, <1>9, AnsweredInv

\* The answer an owner has ready, once it lets go of the claim.
LEMMA OwnerTells ==
  ASSUME IdemInv, NEW r \in Requests, At(r, "recording"), NEW kind, request[r].kind = kind,
         ToAnswer(r, kind), kind \in Kept => UNCHANGED <<applied, torn>>
  PROVE  Told(request[r].op, kind, request[r].body)'
<1> DEFINE o == request[r].op  b == request[r].body
<1>1. request[r] # Idle /\ o \in Ops /\ b \in Bodies
  BY RequestsTyped DEF IdemInv, At, Idle
<1>2. request'[r].op = o /\ request'[r].body = b /\ request'[r].pc = "answering"
      /\ \A s \in Requests \ {r} : request'[s] = request[s]
  BY <1>1, RequestsTyped DEF IdemInv, TypeOK, ToAnswer, Request, Attempt
<1>3. OwnerOK(r) /\ AnswerOK(r) /\ Owns(r) /\ Parts[o] \in Nat \ {0}
  BY <1>1, IdempotencyAssumption DEF IdemInv, Owns, At
<1>4. kind \in Kept => ~request[r].late /\ AppliedUpTo(o, b, request[r].done)
  BY <1>3 DEF OwnerOK, AnswerOK, At, Kept
<1>5. /\ kind = "ok" => AppliedUpTo(o, b, Parts[o])
      /\ kind = "partial" => \E n \in 1 .. Parts[o] - 1 : AppliedUpTo(o, b, n)
  BY <1>3, <1>4 DEF AnswerOK, At, Kept
<1>6. ASSUME NEW s \in Requests, Owns(s)', request'[s].op = o PROVE FALSE
  <2>1. s # r /\ request'[s] = request[s]
    BY <1>2, <1>6 DEF Owns
  <2>2. Owns(s) /\ request[s].op = request[r].op
    BY <1>6, <2>1 DEF Owns
  <2> QED BY <1>3, <2>1, <2>2 DEF IdemInv, OneOwner
<1>7. ASSUME NEW p, NEW c, p = o, c = b PROVE Told(p, kind, c)'
  BY <1>5, <1>6, <1>7 DEF Told, Quiet, AppliedUpTo, Kept
<1> QED BY <1>2, <1>7

LEMMA RecordFailsInv ==
  ASSUME IdemInv, TypeOK', NEW r \in Requests, RecordFails(r)
  PROVE  IdemInv'
<1>1. PICK kind : kind = request[r].kind
  OBVIOUS
<1>2. request[r] # Idle
  BY DEF RecordFails, At, Idle
<1> QED BY <1>1, <1>2, OwnerTells, AnsweredInv DEF RecordFails

LEMMA RespondInv ==
  ASSUME IdemInv, TypeOK', NEW r \in Requests, NEW kind \in Kept \cup Refusals, Respond(r, kind),
         LET q == request[r] IN
           /\ kind = "ok" => q.done = Parts[q.op]
           /\ kind = "partial" => q.done \in 1 .. Parts[q.op] - 1
           /\ kind = "refused" => q.done = 0
  PROVE  IdemInv'
<1>0. request \in [Requests -> {Idle} \cup Request] /\ request[r] \in Request
  BY RequestsTyped DEF IdemInv, TypeOK, Respond, At, Idle
<1>1. \A s \in Requests \ {r} : request'[s] = request[s]
  BY <1>0 DEF Respond
<1>2. \/ request'[r] = Idle
      \/ /\ request'[r].pc = "recording" /\ request'[r].kind = kind
         /\ request'[r].op = request[r].op /\ request'[r].body = request[r].body
         /\ request'[r].done = request[r].done /\ request'[r].late = request[r].late
  BY <1>0 DEF Respond, Request, Attempt
<1>3. Calm
  BY <1>1, <1>2 DEF Respond, Calm, Owns, At, Idle
<1>4. AnswerOK(r)'
  BY <1>2 DEF AnswerOK, Idle
<1>5. \A o \in Ops : HeardOK(o)'
  BY <1>3, CalmStands, HeardStands DEF Respond
<1> QED BY <1>1, <1>3, <1>4, <1>5, CalmStep

LEMMA HandlerInv ==
  ASSUME IdemInv, TypeOK', NEW r \in Requests,
         Succeed(r) \/ Refuse(r) \/ StopShort(r) \/ Break(r)
  PROVE  IdemInv'
<1>1. CASE Succeed(r)
  BY <1>1, RespondInv DEF Succeed, Kept, Refusals
<1>2. CASE Refuse(r)
  BY <1>2, RespondInv DEF Refuse, Kept, Refusals
<1>3. CASE StopShort(r)
  BY <1>3, RespondInv DEF StopShort, Kept, Refusals
<1>4. CASE Break(r)
  BY <1>4, RespondInv DEF Break, Kept, Refusals
<1> QED BY <1>1, <1>2, <1>3, <1>4

LEMMA DeliverInv ==
  ASSUME IdemInv, TypeOK', NEW r \in Requests, Deliver(r)
  PROVE  IdemInv'
<1>0. request \in [Requests -> {Idle} \cup Request] /\ request[r] \in Request /\ AnswerOK(r)
      /\ request[r].op \in Ops /\ request[r].body \in Bodies /\ request[r].kind \in Kinds
  BY RequestsTyped DEF IdemInv, TypeOK, Deliver, At, Idle, Request, Attempt
<1>1. request'[r] = Idle /\ \A s \in Requests \ {r} : request'[s] = request[s]
  BY <1>0 DEF Deliver
<1>2. Calm
  BY <1>1 DEF Deliver, Calm, Owns, At, Idle
<1>3. AnswerOK(r)'
  BY <1>1 DEF AnswerOK, Idle
<1>4. ASSUME NEW o \in Ops PROVE HeardOK(o)'
  <2>1. CASE heard'[o] = heard[o]
    BY <1>2, <2>1, CalmStands, HeardStands
  <2>2. CASE heard'[o] # heard[o]
    <3>1. o = request[r].op /\ heard'[o].kind = request[r].kind
                            /\ heard'[o].body = request[r].body
      BY <2>2 DEF Deliver, IdemInv, TypeOK
    <3>2. ASSUME NEW k, NEW b, k = request[r].kind, b = request[r].body PROVE Told(o, k, b)'
      BY <1>0, <1>2, <3>1, <3>2, CalmStands DEF Standing, AnswerOK, Deliver, At
    <3> QED BY <3>1, <3>2 DEF HeardOK
  <2> QED BY <2>1, <2>2
<1> QED BY <1>1, <1>2, <1>3, <1>4, CalmStep

LEMMA LeaveInv ==
  ASSUME IdemInv, TypeOK', NEW r \in Requests, Close(r) \/ Crash(r)
  PROVE  IdemInv'
<1>0. request \in [Requests -> {Idle} \cup Request] /\ request[r] \in Request /\ AnswerOK(r)
  BY RequestsTyped DEF IdemInv, TypeOK, Close, Hangs, Crash
<1>1. \A s \in Requests \ {r} : request'[s] = request[s]
  BY <1>0 DEF Close, Hangs, Crash
<1>2. \/ request'[r] = Idle
      \/ /\ request'[r].pc = request[r].pc /\ request'[r].kind = request[r].kind
         /\ request'[r].op = request[r].op /\ request'[r].body = request[r].body
         /\ request'[r].done = request[r].done /\ request'[r].late = request[r].late
  BY <1>0 DEF Close, Hangs, Crash, Request, Attempt
<1>3. Calm
  BY <1>1, <1>2 DEF Close, Crash, Calm, Owns, At, Idle
<1>4. AnswerOK(r)'
  <2>1. CASE request'[r] = Idle
    BY <2>1 DEF AnswerOK, Idle
  <2>2. CASE request'[r] # Idle /\ request[r].pc = "answering"
    <3>1. request[r].op \in Ops /\ request[r].body \in Bodies /\ request[r].kind \in Kinds
      BY <1>0, <2>2 DEF Request, Attempt
    <3>2. ASSUME NEW o, NEW b, NEW k, o = request[r].op, b = request[r].body, k = request[r].kind
          PROVE Told(o, k, b)'
      BY <1>0, <1>3, <2>2, <3>1, <3>2, CalmStands DEF AnswerOK, Standing
    <3> QED BY <1>2, <2>2, <3>2 DEF AnswerOK
  <2>3. CASE request'[r] # Idle /\ request[r].pc # "answering"
    BY <1>0, <1>2, <2>3 DEF AnswerOK
  <2> QED BY <2>1, <2>2, <2>3
<1>5. \A o \in Ops : HeardOK(o)'
  BY <1>3, CalmStands, HeardStands DEF Close, Crash
<1> QED BY <1>1, <1>3, <1>4, <1>5, CalmStep

LEMMA TimeInv ==
  ASSUME IdemInv, TypeOK', NEW o \in Ops, KeyAges(o) \/ Expire(o)
  PROVE  IdemInv'
<1>1. \A p \in Ops : \/ keys'[p] = keys[p]
                     \/ /\ keys[p].state = "in_progress" /\ keys'[p].state = "in_progress"
                        /\ keys'[p].body = keys[p].body
  <2>1. CASE KeyAges(o)
    BY <2>1, KeysTyped DEF KeyAges, IdemInv, TypeOK
  <2>2. CASE Expire(o)
    BY <2>2 DEF Expire
  <2> QED BY <2>1, <2>2
<1>2. applied' = applied /\ torn' = torn /\ request' = request /\ heard' = heard
      /\ \A p \in Ops : expired[p] => expired'[p]
  BY DEF KeyAges, Expire, IdemInv, TypeOK
<1>3. Calm
  BY <1>1, <1>2 DEF Calm, Owns, At
<1>4. (\A r \in Requests : AnswerOK(r)') /\ (\A p \in Ops : HeardOK(p)')
  BY <1>2, <1>3, CalmStands, AnswerStands, HeardStands
<1> QED BY <1>3, <1>4, CalmOwners DEF IdemInv

-----------------------------------------------------------------------------
(* Steps that change a claim or apply a part                                *)

LEMMA OwnerStands ==
  ASSUME IdemInv, NEW r \in Requests, request'[r] = request[r],
         Owns(r) => /\ keys'[request[r].op] = keys[request[r].op]
                    /\ applied'[request[r].op] = applied[request[r].op]
                    /\ torn'[request[r].op] = torn[request[r].op]
                    /\ expired[request[r].op] => expired'[request[r].op]
  PROVE  OwnerOK(r)'
<1>1. OwnerOK(r)
  BY DEF IdemInv
<1> QED BY <1>1 DEF OwnerOK, Owns, AppliedUpTo

\* An owner's operation has a key in flight, so nobody owns an operation without one.
LEMMA FreeOfOwners ==
  ASSUME IdemInv, NEW o \in Ops, keys[o].state # "in_progress", NEW r \in Requests, Owns(r)
  PROVE  request[r].op # o
  BY DEF IdemInv, OwnerOK

\* A key handed out late, or to an operation nothing was told of, unsettles no answer.
LEMMA ClaimStands ==
  ASSUME IdemInv, NEW o \in Ops, keys[o].state = "none", UNCHANGED <<applied, torn>>,
         NEW r \in Requests, \A s \in Requests \ {r} : request'[s] = request[s],
         Owns(r)' => request'[r].op = o /\ request'[r].late = expired[o]
  PROVE  Standing
<1> SUFFICES ASSUME NEW p \in Ops, NEW b \in Bodies, NEW kind \in Kinds, Told(p, kind, b)
             PROVE Told(p, kind, b)'
  BY DEF Standing
<1>1. \A n : AppliedUpTo(p, b, n) => AppliedUpTo(p, b, n)'
  BY DEF AppliedUpTo
<1>2. ASSUME kind \in Kept PROVE Quiet(p)'
  <2>1. Quiet(p) /\ ~Untouched(p)
    BY <1>2, ToldTouched DEF Told, IdemInv
  <2>2. p = o => expired[o]
    BY <2>1 DEF IdemInv, KeyOK
  <2> QED BY <2>1, <2>2 DEF Quiet, Owns
<1> QED BY <1>1, <1>2 DEF Told

LEMMA FreshOK ==
  ASSUME IdemInv, NEW o \in Ops, NEW b \in Bodies, keys[o].state = "none", UNCHANGED <<applied, torn>>,
         expired' = expired, keys' = [keys EXCEPT ![o] = Fresh(b)]
  PROVE  KeyOK(o)'
<1>1. keys'[o].state = "in_progress" /\ keys'[o].body = b
  BY DEF IdemInv, TypeOK, Fresh
<1>2. Untouched(o) \/ expired[o]
  BY DEF IdemInv, KeyOK
<1>3. Untouched(o) => 0 \in 0 .. Parts[o] /\ AppliedUpTo(o, b, 0)'
  BY Untold, IdempotencyAssumption DEF IdemInv, AppliedUpTo
<1>4. expired'[o] \/ \E n \in 0 .. Parts[o] : AppliedUpTo(o, b, n)'
  BY <1>2, <1>3
<1>5. (expired[o] \/ \E n \in 0 .. Parts[o] : AppliedUpTo(o, keys[o].body, n))'
  BY <1>1, <1>4 DEF AppliedUpTo
<1> QED BY <1>1, <1>5 DEF KeyOK

LEMMA ClaimInv ==
  ASSUME IdemInv, TypeOK', NEW r \in Requests, Claim(r)
  PROVE  IdemInv'
<1> DEFINE o == request[r].op  b == request[r].body
<1>0. /\ request[r] \in Request /\ o \in Ops /\ b \in Bodies
      /\ keys[o].state = "none" /\ request[r].done = 0
  BY RequestsTyped DEF IdemInv, Claim, At, Idle, Claimed, AnswerOK
<1>1. /\ \A s \in Requests \ {r} : request'[s] = request[s]
      /\ request'[r].pc = "running" /\ request'[r].op = o /\ request'[r].body = b
      /\ request'[r].done = 0 /\ request'[r].late = expired[o]
  BY <1>0 DEF Claim, IdemInv, TypeOK, Request, Attempt
<1>2. keys' = [keys EXCEPT ![o] = Fresh(b)] /\ UNCHANGED <<applied, torn, expired, heard>>
  BY DEF Claim
<1>3. Standing
  BY <1>0, <1>1, <1>2, ClaimStands
<1>4. ASSUME NEW s \in Requests, s # r PROVE OwnerOK(s)' /\ AnswerOK(s)'
  <2>1. Owns(s) => request[s].op \in Ops /\ request[s].op # o
    BY <1>0, RequestsTyped, FreeOfOwners DEF IdemInv, Owns, Idle
  <2>2. Owns(s) => /\ keys'[request[s].op] = keys[request[s].op]
                   /\ applied'[request[s].op] = applied[request[s].op]
                   /\ torn'[request[s].op] = torn[request[s].op]
                   /\ expired[request[s].op] => expired'[request[s].op]
    BY <1>2, <2>1 DEF IdemInv, TypeOK
  <2> QED BY <1>1, <1>3, <1>4, <2>2, OwnerStands, AnswerStands
<1>5. OwnerOK(r)'
  <2>1. keys'[o].state = "in_progress" /\ keys'[o].body = b
    BY <1>0, <1>2 DEF IdemInv, TypeOK, Fresh
  <2>2. Untouched(o) \/ expired[o]
    BY <1>0 DEF IdemInv, KeyOK
  <2>4. 0 \in 0 .. Parts[o]
    BY <1>0, IdempotencyAssumption
  <2>5. ASSUME NEW p, NEW c, p = o, c = b, ~expired[o] PROVE AppliedUpTo(p, c, 0)'
    <3>1. AppliedUpTo(p, c, 0)
      BY <1>0, <2>2, <2>5, Untold DEF IdemInv
    <3> QED BY <1>2, <3>1 DEF AppliedUpTo
  <2> QED BY <1>1, <1>2, <2>1, <2>4, <2>5 DEF OwnerOK, AppliedUpTo
<1>6. AnswerOK(r)'
  BY <1>1 DEF AnswerOK
<1>7. OneOwner'
  <2>1. \A s \in Requests \ {r} : Owns(s)' => Owns(s) /\ request'[s].op # o
    BY <1>0, <1>1, FreeOfOwners DEF Owns
  <2> QED BY <1>1, <2>1 DEF IdemInv, OneOwner, Owns
<1>8. AppliedOnce'
  BY <1>2 DEF IdemInv, AppliedOnce, AppliedUpTo
<1>9. ASSUME NEW p \in Ops PROVE KeyOK(p)'
  <2>1. CASE p = o
    BY <1>0, <1>2, <2>1, FreshOK
  <2>2. CASE p # o
    BY <1>0, <1>2, <1>3, <2>2, KeyStands DEF IdemInv, TypeOK
  <2> QED BY <2>1, <2>2
<1>10. \A p \in Ops : HeardOK(p)'
  BY <1>2, <1>3, HeardStands
<1> QED BY <1>4, <1>5, <1>6, <1>7, <1>8, <1>9, <1>10 DEF IdemInv

LEMMA ClaimFailsInv ==
  ASSUME IdemInv, TypeOK', NEW r \in Requests, ClaimFails(r)
  PROVE  IdemInv'
<1> DEFINE o == request[r].op  b == request[r].body
<1>0. request[r] \in Request /\ o \in Ops /\ b \in Bodies /\ request[r] # Idle
  BY RequestsTyped DEF IdemInv, ClaimFails, At, Idle
<1>1. /\ \A s \in Requests \ {r} : request'[s] = request[s]
      /\ request'[r].pc = "answering" /\ request'[r].kind = "busy"
  BY <1>0 DEF ClaimFails, ToAnswer, IdemInv, TypeOK, Request, Attempt
<1>2. \A p, c : Told(p, "busy", c)'
  BY DEF Told, Kept
<1>3. CASE UNCHANGED keys
  BY <1>0, <1>2, <1>3, AnsweredInv DEF ClaimFails
<1>4. CASE /\ Claimed(keys[o])
           /\ keys' = [keys EXCEPT ![o] = Fresh(b)]
  <2>0. keys[o].state = "none" /\ UNCHANGED <<applied, torn, expired, heard>>
    BY <1>4 DEF Claimed, ClaimFails
  <2>1. Standing
    BY <1>0, <1>1, <2>0, ClaimStands DEF Owns
  <2>2. ASSUME NEW s \in Requests, s # r PROVE OwnerOK(s)' /\ AnswerOK(s)'
    <3>1. Owns(s) => request[s].op \in Ops /\ request[s].op # o
      BY <1>0, <2>0, RequestsTyped, FreeOfOwners DEF IdemInv, Owns, Idle
    <3>2. Owns(s) => /\ keys'[request[s].op] = keys[request[s].op]
                     /\ applied'[request[s].op] = applied[request[s].op]
                     /\ torn'[request[s].op] = torn[request[s].op]
                     /\ expired[request[s].op] => expired'[request[s].op]
      BY <1>4, <2>0, <3>1 DEF IdemInv, TypeOK
    <3> QED BY <1>1, <2>1, <2>2, <3>2, OwnerStands, AnswerStands
  <2>3. OwnerOK(r)' /\ AnswerOK(r)'
    BY <1>1, <1>2 DEF OwnerOK, Owns, AnswerOK
  <2>4. OneOwner'
    BY <1>1 DEF IdemInv, OneOwner, Owns
  <2>5. AppliedOnce'
    BY <2>0 DEF IdemInv, AppliedOnce, AppliedUpTo
  <2>6. ASSUME NEW p \in Ops PROVE KeyOK(p)'
    <3>1. CASE p = o
      BY <1>0, <1>4, <2>0, <3>1, FreshOK
    <3>2. CASE p # o
      BY <1>0, <1>4, <2>0, <2>1, <3>2, KeyStands DEF IdemInv, TypeOK
    <3> QED BY <3>1, <3>2
  <2>7. \A p \in Ops : HeardOK(p)'
    BY <2>0, <2>1, HeardStands
  <2> QED BY <2>2, <2>3, <2>4, <2>5, <2>6, <2>7 DEF IdemInv
<1> QED BY <1>3, <1>4 DEF ClaimFails

\* Where the owner's answer leaves the key.
LEMMA RecordKey ==
  ASSUME IdemInv, NEW r \in Requests, Record(r)
  PROVE  LET o == request[r].op IN
         /\ o \in Ops /\ keys[o].state = "in_progress" /\ keys[o].body = request[r].body
         /\ \A p \in Ops \ {o} : keys'[p] = keys[p]
         /\ request[r].kind \in Refusals => keys'[o].state = "none"
         /\ request[r].kind \in Kept => /\ keys'[o].state = "completed"
                                       /\ keys'[o].body = request[r].body
                                       /\ keys'[o].kind = request[r].kind
         /\ request[r].kind \in Kept \cup Refusals
<1> DEFINE o == request[r].op
<1>1. o \in Ops /\ OwnerOK(r) /\ AnswerOK(r) /\ Owns(r)
  BY RequestsTyped DEF IdemInv, Record, At, Idle, Owns
<1>2. keys[o].state = "in_progress" /\ keys[o].body = request[r].body
  BY <1>1 DEF OwnerOK
<1>3. request[r].kind \in Kept \cup Refusals
  BY <1>1 DEF AnswerOK, Record, At
<1>4. keys' = [keys EXCEPT ![o] =
                 IF request[r].kind \in Kept
                 THEN [state |-> "completed", body |-> keys[o].body, kind |-> request[r].kind]
                 ELSE NoKey]
  BY <1>2 DEF Record, Persisted
<1> QED BY <1>1, <1>2, <1>3, <1>4 DEF IdemInv, TypeOK, NoKey, Kept, Refusals

\* What it leaves behind: nothing, unless its handler broke with parts committed.
LEMMA RecordTorn ==
  ASSUME IdemInv, NEW r \in Requests, Record(r)
  PROVE  LET q == request[r] IN
         /\ \A p \in Ops \ {q.op} : torn'[p] = torn[p]
         /\ q.kind # "error" \/ q.done = 0 => torn' = torn
         /\ q.kind = "error" =>
              \A c \in Bodies, i \in 1 .. MaxParts :
                torn'[q.op][<<c, i>>] =
                  torn[q.op][<<c, i>>] + IF c = q.body /\ i <= q.done THEN 1 ELSE 0
<1> DEFINE o == request[r].op
           after == [slot \in Slots |-> torn[o][slot] + LeftBehind(r, slot)]
<1>1. torn \in [Ops -> [Slots -> Nat]] /\ torn' = [torn EXCEPT ![o] = after]
  BY DEF IdemInv, TypeOK, Record
<1>2. o \in Ops /\ keys[o].state = "in_progress" /\ request[r].done \in Nat
  <2>1. request[r] # Idle
    BY DEF Record, At, Idle
  <2> QED BY <2>1, RecordKey, RequestsTyped DEF IdemInv
<1>3. ASSUME request[r].kind # "error" \/ request[r].done = 0 PROVE torn' = torn
  <2>1. \A slot \in Slots : LeftBehind(r, slot) = 0
    BY <1>3, IdempotencyAssumption DEF LeftBehind, Slots
  <2>2. \A slot \in Slots : after[slot] = torn[o][slot]
    BY <1>1, <1>2, <2>1
  <2>3. after = torn[o]
    BY <1>1, <1>2, <2>2
  <2> HIDE DEF after
  <2> QED BY <1>1, <1>2, <2>3
<1>4. ASSUME request[r].kind = "error", NEW c \in Bodies, NEW i \in 1 .. MaxParts
      PROVE torn'[o][<<c, i>>] =
              torn[o][<<c, i>>] + IF c = request[r].body /\ i <= request[r].done THEN 1 ELSE 0
  <2>1. <<c, i>> \in Slots /\ torn'[o] = after
    BY <1>1, <1>2 DEF Slots
  <2> QED BY <1>2, <1>4, <2>1 DEF LeftBehind
<1> QED BY <1>1, <1>2, <1>3, <1>4

LEMMA RecordInv ==
  ASSUME IdemInv, TypeOK', NEW r \in Requests, Record(r)
  PROVE  IdemInv'
<1> DEFINE o == request[r].op
<1>1. PICK kind : kind = request[r].kind
  OBVIOUS
<1>2. PICK b : b = request[r].body
  OBVIOUS
<1>3. PICK p : p = request[r].op
  OBVIOUS
<1>4. At(r, "recording") /\ ToAnswer(r, kind) /\ UNCHANGED <<applied, expired, heard>>
  BY <1>1 DEF Record
<1>5. request[r] \in Request /\ p \in Ops
  BY <1>3, <1>4, RequestsTyped DEF IdemInv, At, Idle
<1>6. /\ \A s \in Requests \ {r} : request'[s] = request[s]
      /\ request'[r].pc = "answering" /\ request'[r].kind = kind
      /\ request'[r].op = p /\ request'[r].body = b
  BY <1>2, <1>3, <1>4, <1>5 DEF ToAnswer, IdemInv, TypeOK, Request, Attempt
<1>7. Told(p, kind, b)'
  <2>1. kind \in Kept => UNCHANGED <<applied, torn>>
    BY <1>1, <1>4, RecordTorn DEF Kept
  <2>2. Told(request[r].op, kind, request[r].body)'
    BY <1>1, <1>4, <2>1, OwnerTells
  <2> QED BY <1>6, <2>2 DEF Told
<1>owner. OwnerOK(r) /\ Owns(r) /\ b \in Bodies /\ request[r].done \in Nat
  BY <1>2, <1>4, <1>5, RequestsTyped DEF IdemInv, At, Owns, Idle
<1>late. request[r].late => torn' = torn
  BY <1>owner, RecordTorn DEF OwnerOK
<1>broken. ~request[r].late /\ kind \in Refusals => Untouched(p)'
  <2> SUFFICES ASSUME ~request[r].late, kind \in Refusals,
                      NEW c \in Bodies, NEW i \in 1 .. MaxParts
               PROVE applied'[p][<<c, i>>] = torn'[p][<<c, i>>]
    BY DEF Untouched
  <2>1. applied[p][<<c, i>>] =
          torn[p][<<c, i>>] + IF c = b /\ i <= request[r].done THEN 1 ELSE 0
    BY <1>owner, <1>2, <1>3 DEF OwnerOK, AppliedUpTo
  <2>2. CASE kind = "error"
    BY <1>1, <1>2, <1>3, <1>4, <2>1, <2>2, RecordTorn
  <2>3. CASE kind # "error"
    <3>1. request[r].done = 0 /\ torn' = torn
      BY <1>owner, <1>1, <1>4, <2>3, RecordTorn DEF IdemInv, AnswerOK, Refusals, At
    <3>2. torn[p][<<c, i>>] \in Nat /\ ~(i <= 0)
      BY <1>5, IdempotencyAssumption DEF IdemInv, TypeOK, Slots
    <3> QED BY <1>4, <2>1, <3>1, <3>2
  <2> QED BY <2>2, <2>3
<1>8. Standing
  <2> SUFFICES ASSUME NEW q \in Ops, NEW c \in Bodies, NEW k \in Kinds, Told(q, k, c)
               PROVE Told(q, k, c)'
    BY DEF Standing
  <2>1. Quiet(q) => Quiet(q)'
    BY <1>6 DEF Quiet, Owns
  <2>2. ASSUME k \in Kept PROVE torn'[q] = torn[q]
    <3>1. CASE q # p
      BY <1>3, <3>1, RecordTorn
    <3>2. CASE q = p
      BY <1>owner, <1>3, <1>late, <2>2, <3>2 DEF Told, Quiet
    <3> QED BY <3>1, <3>2
  <2>3. k \in Kept => \A n : AppliedUpTo(q, c, n) => AppliedUpTo(q, c, n)'
    BY <1>4, <2>2 DEF AppliedUpTo
  <2> QED BY <2>1, <2>3 DEF Told, Kept
<1>9. ASSUME NEW s \in Requests, s # r PROVE OwnerOK(s)' /\ AnswerOK(s)'
  <2>1. Owns(s) => request[s].op \in Ops /\ request[s].op # p
    BY <1>3, <1>4, <1>9, RequestsTyped DEF IdemInv, OneOwner, Owns, At, Idle
  <2>2. Owns(s) => /\ keys'[request[s].op] = keys[request[s].op]
                   /\ applied'[request[s].op] = applied[request[s].op]
                   /\ torn'[request[s].op] = torn[request[s].op]
                   /\ expired[request[s].op] => expired'[request[s].op]
    BY <1>3, <1>4, <2>1, RecordKey, RecordTorn
  <2> QED BY <1>6, <1>8, <1>9, <2>2, OwnerStands, AnswerStands
<1>10. OwnerOK(r)' /\ AnswerOK(r)'
  BY <1>6, <1>7 DEF OwnerOK, AnswerOK, Owns
<1>11. OneOwner'
  BY <1>6 DEF IdemInv, OneOwner, Owns
<1>12. AppliedOnce'
  <2>1. ASSUME NEW q \in Ops, torn'[q] = torn[q]
        PROVE (\E c \in Bodies, n \in 0 .. Parts[q] : AppliedUpTo(q, c, n))'
    BY <1>4, <2>1 DEF IdemInv, AppliedOnce, AppliedUpTo
  <2>2. ASSUME Untouched(p)'
        PROVE (\E c \in Bodies, n \in 0 .. Parts[p] : AppliedUpTo(p, c, n))'
    <3>1. AppliedUpTo(p, b, 0)' /\ 0 \in 0 .. Parts[p]
      BY <1>owner, <1>5, <2>2, UntoldNext, IdempotencyAssumption DEF IdemInv
    <3> QED BY <1>owner, <3>1
  <2>3. torn'[p] = torn[p] \/ Untouched(p)'
    BY <1>owner, <1>1, <1>3, <1>late, <1>broken, RecordTorn, RecordKey DEF Kept, Refusals
  <2>4. \A q \in Ops : q # p => torn'[q] = torn[q]
    BY <1>3, RecordTorn
  <2> QED BY <2>1, <2>2, <2>3, <2>4 DEF AppliedOnce
<1>13. ASSUME NEW q \in Ops PROVE KeyOK(q)'
  <2>1. CASE q # p
    <3>1. keys'[q] = keys[q] /\ torn'[q] = torn[q] /\ applied'[q] = applied[q]
      BY <1>3, <1>4, <2>1, RecordKey, RecordTorn
    <3> QED BY <1>4, <1>8, <3>1, KeyStands
  <2>2. CASE q = p /\ kind \in Kept
    BY <1>1, <1>2, <1>3, <1>7, <2>2, RecordKey DEF KeyOK
  <2>3. CASE q = p /\ kind \in Refusals
    <3>1. keys'[p].state = "none"
      BY <1>1, <1>3, <2>3, RecordKey
    <3>2. (expired[p] \/ Untouched(p))'
      BY <1>owner, <1>3, <1>4, <1>broken, <2>3 DEF OwnerOK
    <3> QED BY <2>3, <3>1, <3>2 DEF KeyOK
  <2> QED BY <1>1, <2>1, <2>2, <2>3, RecordKey
<1>14. \A q \in Ops : HeardOK(q)'
  BY <1>4, <1>8, HeardStands
<1> QED BY <1>9, <1>10, <1>11, <1>12, <1>13, <1>14 DEF IdemInv

LEMMA CommitInv ==
  ASSUME IdemInv, TypeOK', NEW r \in Requests, Commit(r)
  PROVE  IdemInv'
<1>1. PICK o : o = request[r].op
  OBVIOUS
<1>2. PICK b : b = request[r].body
  OBVIOUS
<1>3. PICK n : n = request[r].done
  OBVIOUS
<1>4. /\ request[r] \in Request /\ o \in Ops /\ b \in Bodies
      /\ At(r, "running") /\ ~request[r].late
      /\ n < Parts[o] /\ Parts[o] \in 1 .. MaxParts /\ MaxParts \in Nat
      /\ UNCHANGED <<keys, torn, expired, heard>>
  BY <1>1, <1>2, <1>3, RequestsTyped, IdempotencyAssumption DEF IdemInv, Commit, At, Idle
<1>5. /\ OwnerOK(r) /\ Owns(r)
      /\ keys[o].state = "in_progress" /\ keys[o].body = b
      /\ n \in 0 .. Parts[o] /\ AppliedUpTo(o, b, n)
  BY <1>1, <1>2, <1>3, <1>4 DEF IdemInv, OwnerOK, Owns, At
<1>6. /\ \A s \in Requests \ {r} : request'[s] = request[s]
      /\ request'[r].pc = "running" /\ request'[r].op = o /\ request'[r].body = b
      /\ request'[r].done = n + 1 /\ request'[r].late = request[r].late
  <2>1. request'[r] = [request[r] EXCEPT !.done = n + 1]
    BY <1>3 DEF Commit, IdemInv, TypeOK
  <2>2. \A s \in Requests \ {r} : request'[s] = request[s]
    BY DEF Commit, IdemInv, TypeOK
  <2> QED BY <1>1, <1>2, <1>4, <2>1, <2>2 DEF Request, Attempt, At
<1>7. /\ \A p \in Ops \ {o} : applied'[p] = applied[p]
      /\ applied'[o] = [applied[o] EXCEPT ![<<b, n + 1>>] = applied[o][<<b, n + 1>>] + 1]
  BY <1>1, <1>2, <1>3, <1>4 DEF Commit, IdemInv, TypeOK
<1>8. AppliedUpTo(o, b, n + 1)'
  <2> SUFFICES ASSUME NEW c \in Bodies, NEW i \in 1 .. MaxParts
               PROVE applied'[o][<<c, i>>] =
                       torn[o][<<c, i>>] + IF c = b /\ i <= n + 1 THEN 1 ELSE 0
    BY <1>4 DEF AppliedUpTo
  <2>1. applied[o] \in [Slots -> Nat] /\ <<c, i>> \in Slots /\ torn[o][<<c, i>>] \in Nat
    BY <1>4 DEF IdemInv, TypeOK, Slots
  <2>2. applied[o][<<c, i>>] = torn[o][<<c, i>>] + IF c = b /\ i <= n THEN 1 ELSE 0
    BY <1>5 DEF AppliedUpTo
  <2>3. CASE c = b /\ i = n + 1
    BY <1>4, <1>5, <1>7, <2>1, <2>2, <2>3
  <2>4. CASE ~(c = b /\ i = n + 1)
    <3>1. applied'[o][<<c, i>>] = applied[o][<<c, i>>]
      BY <1>7, <2>1, <2>4
    <3>2. c = b => (i <= n <=> i <= n + 1)
      BY <1>4, <1>5, <2>4
    <3> QED BY <2>2, <3>1, <3>2
  <2> QED BY <2>3, <2>4
<1>9. Standing
  <2> SUFFICES ASSUME NEW p \in Ops, NEW c \in Bodies, NEW k \in Kinds, Told(p, k, c)
               PROVE Told(p, k, c)'
    BY DEF Standing
  <2>1. CASE p = o
    <3>1. ~Quiet(o)
      BY <1>1, <1>4, <1>5 DEF Quiet
    <3> QED BY <2>1, <3>1 DEF Told, Kept
  <2>2. CASE p # o
    <3>1. Quiet(p) => Quiet(p)'
      BY <1>6, <2>2 DEF Quiet, Owns
    <3>2. \A i : AppliedUpTo(p, c, i) => AppliedUpTo(p, c, i)'
      BY <1>4, <1>7, <2>2 DEF AppliedUpTo
    <3> QED BY <3>1, <3>2 DEF Told
  <2> QED BY <2>1, <2>2
<1>10. ASSUME NEW s \in Requests, s # r PROVE OwnerOK(s)' /\ AnswerOK(s)'
  <2>1. Owns(s) => request[s].op \in Ops /\ request[s].op # o
    BY <1>1, <1>5, <1>10, RequestsTyped DEF IdemInv, OneOwner, Owns, Idle
  <2> QED BY <1>4, <1>6, <1>7, <1>9, <1>10, <2>1, OwnerStands, AnswerStands
<1>11. OwnerOK(r)' /\ AnswerOK(r)'
  <2>1. n + 1 \in 0 .. Parts[o]
    BY <1>4, <1>5
  <2>2. (OwnerOK(r))'
    BY <1>4, <1>5, <1>6, <1>8, <2>1 DEF OwnerOK, AppliedUpTo
  <2> QED BY <1>6, <2>2 DEF AnswerOK
<1>12. OneOwner'
  BY <1>1, <1>5, <1>6 DEF IdemInv, OneOwner, Owns
<1>13. AppliedOnce'
  <2>1. \A p \in Ops \ {o} : \A c, i : AppliedUpTo(p, c, i) => AppliedUpTo(p, c, i)'
    BY <1>4, <1>7 DEF AppliedUpTo
  <2>2. n + 1 \in 0 .. Parts[o]
    BY <1>4, <1>5
  <2> QED BY <1>4, <1>8, <2>1, <2>2 DEF IdemInv, AppliedOnce
<1>14. ASSUME NEW p \in Ops PROVE KeyOK(p)'
  <2>1. CASE p = o
    <3>1. n + 1 \in 0 .. Parts[o]
      BY <1>4, <1>5
    <3> QED BY <1>4, <1>5, <1>8, <2>1, <3>1 DEF KeyOK, AppliedUpTo
  <2>2. CASE p # o
    <3>1. KeyOK(p)
      BY DEF IdemInv
    <3>2. Untouched(p) => Untouched(p)'
      BY <1>4, <1>7, <2>2 DEF Untouched
    <3>3. \A c, i : AppliedUpTo(p, c, i) => AppliedUpTo(p, c, i)'
      BY <1>4, <1>7, <2>2 DEF AppliedUpTo
    <3>4. keys[p].state = "completed" => keys[p].kind \in Kinds /\ keys[p].body \in Bodies
      BY KeysTyped DEF IdemInv, Kept, Kinds
    <3>5. ASSUME NEW k, NEW c, keys[p].state = "completed", keys[p].kind = k, keys[p].body = c
          PROVE Told(p, k, c)'
      BY <1>9, <3>1, <3>4, <3>5 DEF KeyOK, Standing
    <3>6. keys[p].state = "completed" => (Told(p, keys[p].kind, keys[p].body))'
      BY <1>4, <3>5
    <3> QED BY <1>4, <3>1, <3>2, <3>3, <3>6 DEF KeyOK
  <2> QED BY <2>1, <2>2
<1>15. \A p \in Ops : HeardOK(p)'
  BY <1>4, <1>9, HeardStands
<1> QED BY <1>10, <1>11, <1>12, <1>13, <1>14, <1>15 DEF IdemInv

LEMMA PurgeInv ==
  ASSUME IdemInv, TypeOK', NEW o \in Ops, Purge(o)
  PROVE  IdemInv'
<1>1. /\ UNCHANGED <<request, applied, torn, expired, heard>> /\ expired[o]
      /\ keys'[o].state = "none" /\ \A p \in Ops \ {o} : keys'[p] = keys[p]
  BY DEF Purge, IdemInv, TypeOK, NoKey
<1>2. \A r \in Requests : Owns(r) => request[r].op \in Ops \ {o}
  BY RequestsTyped DEF Purge, InHand, IdemInv, Owns, Idle
<1>3. Standing
  BY <1>1 DEF Standing, Told, Quiet, Owns, AppliedUpTo
<1>4. \A r \in Requests : OwnerOK(r)' /\ AnswerOK(r)'
  BY <1>1, <1>2, <1>3, OwnerStands, AnswerStands
<1>5. OneOwner' /\ AppliedOnce'
  BY <1>1 DEF IdemInv, OneOwner, Owns, AppliedOnce, AppliedUpTo
<1>6. ASSUME NEW p \in Ops PROVE KeyOK(p)'
  <2>1. CASE p = o
    BY <1>1, <2>1 DEF KeyOK
  <2>2. CASE p # o
    BY <1>1, <1>3, <2>2, KeyStands
  <2> QED BY <2>1, <2>2
<1>7. \A p \in Ops : HeardOK(p)'
  BY <1>1, <1>3, HeardStands
<1> QED BY <1>4, <1>5, <1>6, <1>7 DEF IdemInv

-----------------------------------------------------------------------------
(* The results                                                              *)

LEMMA InvStep == IdemInv /\ [Next]_vars => IdemInv'
<1> SUFFICES ASSUME IdemInv, [Next]_vars PROVE IdemInv'
  OBVIOUS
<1>1. TypeOK'
  BY TypeStep DEF IdemInv
<1>2. CASE UNCHANGED vars
  <2>1. Calm
    BY <1>2 DEF vars, Calm, Owns, At
  <2>2. (\A r \in Requests : AnswerOK(r)') /\ (\A o \in Ops : HeardOK(o)')
    BY <1>2, <2>1, CalmStands, AnswerStands, HeardStands DEF vars
  <2> QED BY <1>1, <2>1, <2>2, CalmOwners DEF IdemInv
<1>3. ASSUME NEW r \in Requests, NEW o \in Ops, NEW b \in Bodies, Send(r, o, b) PROVE IdemInv'
  BY <1>1, <1>3, SendInv
<1>4. ASSUME NEW r \in Requests, Handle(r) PROVE IdemInv'
  BY <1>1, <1>4, ClaimInv, RepeatInv, CommitInv, HandlerInv, RecordInv, DeliverInv
     DEF Handle
<1>5. ASSUME NEW r \in Requests,
             StopShort(r) \/ ClaimFails(r) \/ Break(r) \/ RecordFails(r) \/ Close(r) \/ Crash(r)
      PROVE IdemInv'
  BY <1>1, <1>5, HandlerInv, ClaimFailsInv, RecordFailsInv, LeaveInv
<1>6. ASSUME NEW o \in Ops, KeyAges(o) \/ Expire(o) \/ Purge(o) PROVE IdemInv'
  BY <1>1, <1>6, TimeInv, PurgeInv
<1> QED BY <1>2, <1>3, <1>4, <1>5, <1>6 DEF Next

LEMMA Remembers == IdemInv => KeyRemembers
<1> SUFFICES ASSUME IdemInv, NEW o \in Ops, ~Untouched(o), ~expired[o]
             PROVE /\ keys[o].state # "none"
                   /\ \E n \in 1 .. Parts[o] : AppliedUpTo(o, keys[o].body, n)
                   /\ keys[o].state = "completed" /\ keys[o].kind = "ok" =>
                        AppliedUpTo(o, keys[o].body, Parts[o])
  BY DEF KeyRemembers
<1>1. KeyOK(o) /\ keys[o].state \in {"none", "in_progress", "completed"}
      /\ Parts[o] \in 1 .. MaxParts /\ MaxParts \in Nat
  BY KeysTyped, IdempotencyAssumption DEF IdemInv
<1>2. keys[o].state # "none"
  BY <1>1 DEF KeyOK
<1>3. CASE keys[o].state = "in_progress"
  <2>1. keys[o].body \in Bodies
    BY <1>3, KeysTyped DEF IdemInv
  <2>2. PICK n \in 0 .. Parts[o] : AppliedUpTo(o, keys[o].body, n)
    BY <1>1, <1>3 DEF KeyOK
  <2>3. n # 0
    BY <2>1, <2>2, Untold DEF IdemInv
  <2>4. n \in 1 .. Parts[o]
    BY <1>1, <2>2, <2>3
  <2> QED BY <1>3, <2>2, <2>4
<1>4. CASE keys[o].state = "completed"
  <2>1. keys[o].kind \in Kept
    BY <1>4, KeysTyped DEF IdemInv
  <2>2. CASE keys[o].kind = "ok"
    <3>1. AppliedUpTo(o, keys[o].body, Parts[o]) /\ Parts[o] \in 1 .. Parts[o]
      BY <1>1, <1>4, <2>2 DEF KeyOK, Told
    <3> QED BY <1>4, <3>1
  <2>3. CASE keys[o].kind = "partial"
    <3>1. PICK n \in 1 .. Parts[o] - 1 : AppliedUpTo(o, keys[o].body, n)
      BY <1>1, <1>4, <2>3 DEF KeyOK, Told
    <3>2. n \in 1 .. Parts[o]
      BY <1>1, <3>1
    <3> QED BY <1>4, <2>3, <3>1, <3>2
  <2> QED BY <2>1, <2>2, <2>3 DEF Kept
<1> QED BY <1>1, <1>2, <1>3, <1>4

LEMMA Truth == IdemInv => AnswersAreTrue
  BY DEF IdemInv, HeardOK, Told, AnswersAreTrue, Kept

LEMMA Silence == IdemInv /\ [Next]_vars =>
                   [\A o \in Ops : heard[o].kind \in Kept => applied'[o] = applied[o]]_vars
<1> SUFFICES ASSUME IdemInv, Next, NEW o \in Ops, heard[o].kind \in Kept
             PROVE applied'[o] = applied[o]
  OBVIOUS
<1>1. Quiet(o)
  BY DEF IdemInv, HeardOK, Told
<1>2. ASSUME NEW r \in Requests, Commit(r) PROVE applied'[o] = applied[o]
  <2>1. request[r].op # o
    BY <1>1, <1>2 DEF Quiet, Commit, Owns, At
  <2> QED BY <1>2, <2>1 DEF Commit, IdemInv, TypeOK
<1>3. applied' = applied \/ \E r \in Requests : Commit(r)
  BY DEF Next, Handle, Claim, Repeat, ClaimFails, Succeed, Refuse, StopShort, Break, Respond,
         Record, RecordFails, Deliver, Close, Crash, KeyAges, Expire, Purge, Send
<1> QED BY <1>2, <1>3

\* Each part of an operation is committed at most once and for one body, for any number
\* of attempts, requests in hand, closed connections, crashes and failed calls.  Counted
\* apart is what handlers that threw had committed when their 500 gave the key back.
THEOREM OperationAppliedOnce == Spec => []AppliedOnce
<1>1. IdemInv => AppliedOnce
  BY DEF IdemInv
<1>2. IdemInv /\ [Next]_vars => IdemInv'
  BY InvStep
<1> QED BY <1>1, <1>2, InitInv, PTL DEF Spec

\* A client that is told "done", or told what part was done, was told the truth, and it
\* stays true, on top of what an attempt that threw may have left behind.
THEOREM ClientToldTruth == Spec => []AnswersAreTrue
<1>1. IdemInv /\ [Next]_vars => IdemInv'
  BY InvStep
<1> QED BY <1>1, InitInv, Truth, PTL DEF Spec

\* Until its business date leaves the sync window an operation that stands applied, in
\* part or whole, has its key, and the key names the body that was applied.
THEOREM AppliedKeyKept == Spec => []KeyRemembers
<1>1. IdemInv /\ [Next]_vars => IdemInv'
  BY InvStep
<1> QED BY <1>1, InitInv, Remembers, PTL DEF Spec

\* After its final answer the client's operation is never touched again.
THEOREM SettledStaysSettled == Spec => SettledStays
<1>1. IdemInv /\ [Next]_vars => IdemInv'
  BY InvStep
<1> QED BY <1>1, InitInv, Silence, PTL DEF Spec, SettledStays
=============================================================================
