---------------------------- MODULE NightProofs ----------------------------
(***************************************************************************)
(* Proofs about the jobs of the night, each for any number of callers.     *)
(*                                                                         *)
(* DayClosing. The claim of the date's row is the lock of its archive      *)
(* (ClaimInv); a dispatch that is alone goes on with the ids of the stored *)
(* reports, and whatever the provider accepted is in the logs under them   *)
(* or about to be (DispatchInv, LogInv).                                   *)
(*                                                                         *)
(* Backups. A key in S3 belongs to the run whose row is running, unless    *)
(* that run outlived its lock (Owned, HoldAlone); so what a run read back  *)
(* is still there when it writes its manifest and marks its row (Carried), *)
(* and what retention was planned from is still verified when it deletes   *)
(* (Planned).                                                              *)
(***************************************************************************)
EXTENDS DayClosing, Backups, SumTheorems

(***************************************************************************)
(* DayClosing: callers and what they hold.                                 *)
(***************************************************************************)
\* What a caller is, as TypeOK says.
Task == [step : {"idle"} \cup Closing \cup Dispatching, job : BOOLEAN,
         resend : BOOLEAN, ids : [Scopes -> Nat], want : SUBSET Scopes,
         todo : SUBSET Deliveries, refused : SUBSET Deliveries, now : SUBSET Deliveries]

\* New ids are numbers, none of them 0.
LEMMA NewIds ==
    ASSUME NEW S, IsFiniteSet(S), nextId \in Nat \ {0}
    PROVE  Numbered(S) \in [S -> Nat \ {0}] /\ nextId + Cardinality(S) \in Nat \ {0}
<1> DEFINE n == Cardinality(S)
           Good(f) == \A s, t \in S : f[s] = f[t] => s = t
<1>1. n \in Nat /\ ExistsBijection(1 .. n, S)
  BY FS_CardinalityType
<1>2. PICK g \in [1 .. n -> S] : \A s \in S : \E i \in 1 .. n : g[i] = s
  BY <1>1 DEF ExistsBijection, Bijection, Injection, Surjection
<1> HIDE DEF n
<1> DEFINE place == [s \in S |-> CHOOSE i \in 1 .. n : g[i] = s]
           h == [s \in S |-> nextId + place[s] - 1]
<1>3. \A s \in S : place[s] \in 1 .. n /\ g[place[s]] = s
  BY <1>2
<1> HIDE DEF place
<1>4. h \in [S -> nextId .. nextId + n - 1] /\ Good(h)
  <2>1. ASSUME NEW s \in S PROVE h[s] \in nextId .. nextId + n - 1 /\ h[s] = nextId + place[s] - 1
    BY <1>1, <1>3
  <2>2. ASSUME NEW s \in S, NEW t \in S, h[s] = h[t] PROVE s = t
    <3>1. place[s] = place[t]
      BY <1>1, <1>3, <2>1, <2>2
    <3> QED
      BY <1>3, <3>1
  <2> QED
    BY <2>1, <2>2
<1> HIDE DEF h
<1>5. Numbered(S) \in [S -> nextId .. nextId + n - 1]
  BY <1>4 DEF Numbered, n
<1>6. \A x \in nextId .. nextId + n - 1 : x \in Nat \ {0}
  BY <1>1
<1> QED
  BY <1>1, <1>5, <1>6 DEF n

\* One caller takes a step.
LEMMA Moved ==
    ASSUME NEW c \in Callers, at \in [Callers -> Task], NEW y \in Task,
           at' = [at EXCEPT ![c] = y]
    PROVE  /\ at' \in [Callers -> Task] /\ at'[c] = y
           /\ \A o \in Callers \ {c} : at'[o] = at[o]
  OBVIOUS

\* The ways a caller moves: to a step, to an end; and what is counted and noted.
LEMMA IdleIsTask == Idle \in Task
  BY DEF Idle, Task

LEMMA ToMoves ==
    ASSUME NEW c \in Callers, at \in [Callers -> Task],
           NEW step \in {"idle"} \cup Closing \cup Dispatching, To(c, step)
    PROVE  /\ at' \in [Callers -> Task]
           /\ at'[c] = [at[c] EXCEPT !.step = step]
           /\ \A o \in Callers \ {c} : at'[o] = at[o]
<1>1. [at[c] EXCEPT !.step = step] \in Task
  BY DEF Task
<1>2. at' = [at EXCEPT ![c] = [at[c] EXCEPT !.step = step]]
  BY DEF To
<1> QED
  BY <1>1, <1>2, Moved

LEMMA EndsMoves ==
    ASSUME NEW c \in Callers, at \in [Callers -> Task], Ends(c)
    PROVE  /\ at' \in [Callers -> Task] /\ at'[c] = Idle
           /\ \A o \in Callers \ {c} : at'[o] = at[o]
  BY IdleIsTask, Moved DEF Ends

LEMMA FaultBounded ==
    ASSUME BoundsAssumption, faults \in 0 .. MaxFaults, Fault
    PROVE  faults' \in 0 .. MaxFaults
  BY DEF BoundsAssumption, Fault

LEMMA Started ==
    ASSUME BoundsAssumption, calls \in 0 .. MaxCalls, NEW c \in Callers, Start(c)
    PROVE  calls' \in 0 .. MaxCalls /\ at[c].step = "idle"
  BY DEF BoundsAssumption, Start

LEMMA NotedKept ==
    ASSUME NEW m \in Mishaps, NEW holds \in BOOLEAN, Noting(m, holds), mishaps \subseteq Mishaps
    PROVE  mishaps' \subseteq Mishaps /\ mishaps \subseteq mishaps' /\ (holds => m \in mishaps')
  BY DEF Noting

\* What a caller has become, in a table of callers that is otherwise as it was.
Holding(g, c, step, resend, ids, want, todo, refused, now) ==
    /\ g \in [Callers -> Task] /\ \A o \in Callers \ {c} : g[o] = at[o]
    /\ g[c].step = step /\ g[c].resend = resend /\ g[c].ids = ids /\ g[c].want = want
    /\ g[c].todo = todo /\ g[c].refused = refused /\ g[c].now = now

Becomes(c, step, resend, ids, want, todo, refused, now) ==
    Holding(at', c, step, resend, ids, want, todo, refused, now)

\* Setting one field changes that field.
LEMMA HoldsItself ==
    ASSUME NEW c \in Callers, at \in [Callers -> Task]
    PROVE  Holding(at, c, at[c].step, at[c].resend, at[c].ids, at[c].want,
                   at[c].todo, at[c].refused, at[c].now)
  BY DEF Holding

LEMMA SetsStep ==
    ASSUME NEW c \in Callers, NEW g, NEW step, NEW resend, NEW ids, NEW want, NEW todo,
           NEW refused, NEW now, NEW new \in {"idle"} \cup Closing \cup Dispatching,
           Holding(g, c, step, resend, ids, want, todo, refused, now)
    PROVE  Holding([g EXCEPT ![c].step = new], c, new, resend, ids, want, todo, refused, now)
<1>1. g \in [Callers -> Task] /\ g[c] \in Task
  BY DEF Holding
<1> DEFINE y == [g[c] EXCEPT !.step = new]
<1>2. [g EXCEPT ![c].step = new] = [g EXCEPT ![c] = y]
  BY <1>1
<1>3. /\ y \in Task /\ y.step = new
      /\ y.resend = g[c].resend /\ y.ids = g[c].ids /\ y.want = g[c].want
      /\ y.todo = g[c].todo /\ y.refused = g[c].refused /\ y.now = g[c].now
  BY <1>1 DEF Task
<1> HIDE DEF y
<1> QED
  BY <1>1, <1>2, <1>3 DEF Holding

LEMMA SetsIds ==
    ASSUME NEW c \in Callers, NEW g, NEW step, NEW resend, NEW ids, NEW want, NEW todo,
           NEW refused, NEW now, NEW new \in [Scopes -> Nat],
           Holding(g, c, step, resend, ids, want, todo, refused, now)
    PROVE  Holding([g EXCEPT ![c].ids = new], c, step, resend, new, want, todo, refused, now)
<1>1. g \in [Callers -> Task] /\ g[c] \in Task
  BY DEF Holding
<1> DEFINE y == [g[c] EXCEPT !.ids = new]
<1>2. [g EXCEPT ![c].ids = new] = [g EXCEPT ![c] = y]
  BY <1>1
<1>3. /\ y \in Task /\ y.ids = new
      /\ y.step = g[c].step /\ y.resend = g[c].resend /\ y.want = g[c].want
      /\ y.todo = g[c].todo /\ y.refused = g[c].refused /\ y.now = g[c].now
  BY <1>1 DEF Task
<1> HIDE DEF y
<1> QED
  BY <1>1, <1>2, <1>3 DEF Holding

LEMMA SetsWant ==
    ASSUME NEW c \in Callers, NEW g, NEW step, NEW resend, NEW ids, NEW want, NEW todo,
           NEW refused, NEW now, NEW new \in SUBSET Scopes,
           Holding(g, c, step, resend, ids, want, todo, refused, now)
    PROVE  Holding([g EXCEPT ![c].want = new], c, step, resend, ids, new, todo, refused, now)
<1>1. g \in [Callers -> Task] /\ g[c] \in Task
  BY DEF Holding
<1> DEFINE y == [g[c] EXCEPT !.want = new]
<1>2. [g EXCEPT ![c].want = new] = [g EXCEPT ![c] = y]
  BY <1>1
<1>3. /\ y \in Task /\ y.want = new
      /\ y.step = g[c].step /\ y.resend = g[c].resend /\ y.ids = g[c].ids
      /\ y.todo = g[c].todo /\ y.refused = g[c].refused /\ y.now = g[c].now
  BY <1>1 DEF Task
<1> HIDE DEF y
<1> QED
  BY <1>1, <1>2, <1>3 DEF Holding

LEMMA SetsTodo ==
    ASSUME NEW c \in Callers, NEW g, NEW step, NEW resend, NEW ids, NEW want, NEW todo,
           NEW refused, NEW now, NEW new \in SUBSET Deliveries,
           Holding(g, c, step, resend, ids, want, todo, refused, now)
    PROVE  Holding([g EXCEPT ![c].todo = new], c, step, resend, ids, want, new, refused, now)
<1>1. g \in [Callers -> Task] /\ g[c] \in Task
  BY DEF Holding
<1> DEFINE y == [g[c] EXCEPT !.todo = new]
<1>2. [g EXCEPT ![c].todo = new] = [g EXCEPT ![c] = y]
  BY <1>1
<1>3. /\ y \in Task /\ y.todo = new
      /\ y.step = g[c].step /\ y.resend = g[c].resend /\ y.ids = g[c].ids
      /\ y.want = g[c].want /\ y.refused = g[c].refused /\ y.now = g[c].now
  BY <1>1 DEF Task
<1> HIDE DEF y
<1> QED
  BY <1>1, <1>2, <1>3 DEF Holding

LEMMA SetsRefused ==
    ASSUME NEW c \in Callers, NEW g, NEW step, NEW resend, NEW ids, NEW want, NEW todo,
           NEW refused, NEW now, NEW new \in SUBSET Deliveries,
           Holding(g, c, step, resend, ids, want, todo, refused, now)
    PROVE  Holding([g EXCEPT ![c].refused = new], c, step, resend, ids, want, todo, new, now)
<1>1. g \in [Callers -> Task] /\ g[c] \in Task
  BY DEF Holding
<1> DEFINE y == [g[c] EXCEPT !.refused = new]
<1>2. [g EXCEPT ![c].refused = new] = [g EXCEPT ![c] = y]
  BY <1>1
<1>3. /\ y \in Task /\ y.refused = new
      /\ y.step = g[c].step /\ y.resend = g[c].resend /\ y.ids = g[c].ids
      /\ y.want = g[c].want /\ y.todo = g[c].todo /\ y.now = g[c].now
  BY <1>1 DEF Task
<1> HIDE DEF y
<1> QED
  BY <1>1, <1>2, <1>3 DEF Holding

LEMMA SetsNow ==
    ASSUME NEW c \in Callers, NEW g, NEW step, NEW resend, NEW ids, NEW want, NEW todo,
           NEW refused, NEW now, NEW new \in SUBSET Deliveries,
           Holding(g, c, step, resend, ids, want, todo, refused, now)
    PROVE  Holding([g EXCEPT ![c].now = new], c, step, resend, ids, want, todo, refused, new)
<1>1. g \in [Callers -> Task] /\ g[c] \in Task
  BY DEF Holding
<1> DEFINE y == [g[c] EXCEPT !.now = new]
<1>2. [g EXCEPT ![c].now = new] = [g EXCEPT ![c] = y]
  BY <1>1
<1>3. /\ y \in Task /\ y.now = new
      /\ y.step = g[c].step /\ y.resend = g[c].resend /\ y.ids = g[c].ids
      /\ y.want = g[c].want /\ y.todo = g[c].todo /\ y.refused = g[c].refused
  BY <1>1 DEF Task
<1> HIDE DEF y
<1> QED
  BY <1>1, <1>2, <1>3 DEF Holding

Zeros == [s \in Scopes |-> 0]
CallerSteps == {"idle"} \cup Closing \cup Dispatching

\* What a caller becomes by each action.
LEMMA ToBecomes ==
    ASSUME NEW c \in Callers, at \in [Callers -> Task], NEW step \in CallerSteps, To(c, step)
    PROVE  Becomes(c, step, at[c].resend, at[c].ids, at[c].want, at[c].todo, at[c].refused, at[c].now)
<1>1. at' = [at EXCEPT ![c].step = step]
  BY DEF To
<1> QED
  BY <1>1, HoldsItself, SetsStep DEF Becomes, CallerSteps

LEMMA EndsBecomes ==
    ASSUME NEW c \in Callers, at \in [Callers -> Task], Ends(c)
    PROVE  Becomes(c, "idle", FALSE, Zeros, {}, {}, {}, {})
<1>1. at' \in [Callers -> Task] /\ at'[c] = Idle /\ \A o \in Callers \ {c} : at'[o] = at[o]
  BY EndsMoves
<1> QED
  BY <1>1 DEF Becomes, Holding, Idle, Zeros

\* A call begins.
LEMMA BeginBecomes ==
    ASSUME NEW c \in Callers, at \in [Callers -> Task], NEW step \in CallerSteps, NEW job \in BOOLEAN,
           NEW resend \in BOOLEAN,
           \/ at' = [at EXCEPT ![c] = [Idle EXCEPT !.step = step, !.job = job]] /\ resend = FALSE
           \/ at' = [at EXCEPT ![c] = [Idle EXCEPT !.step = step, !.resend = resend]]
    PROVE  Becomes(c, step, resend, Zeros, {}, {}, {}, {})
<1> DEFINE x == [Idle EXCEPT !.step = step]
           y == [x EXCEPT !.job = job]
           z == [x EXCEPT !.resend = resend]
<1>1. /\ x \in Task /\ x.step = step /\ x.resend = FALSE /\ x.ids = Zeros /\ x.want = {}
      /\ x.todo = {} /\ x.refused = {} /\ x.now = {}
  BY IdleIsTask DEF Idle, Zeros, Task, CallerSteps
<1>2. (at' = [at EXCEPT ![c] = y] /\ resend = FALSE) \/ at' = [at EXCEPT ![c] = z]
  OBVIOUS
<1> HIDE DEF x
<1>3. /\ y \in Task /\ y.step = step /\ y.resend = FALSE /\ y.ids = Zeros /\ y.want = {}
      /\ y.todo = {} /\ y.refused = {} /\ y.now = {}
  BY <1>1 DEF Task
<1>4. /\ z \in Task /\ z.step = step /\ z.resend = resend /\ z.ids = Zeros /\ z.want = {}
      /\ z.todo = {} /\ z.refused = {} /\ z.now = {}
  BY <1>1 DEF Task
<1> HIDE DEF y, z
<1>5. CASE at' = [at EXCEPT ![c] = y] /\ resend = FALSE
  BY <1>3, <1>5, Moved DEF Becomes, Holding
<1>6. CASE at' = [at EXCEPT ![c] = z]
  BY <1>4, <1>6, Moved DEF Becomes, Holding
<1> QED
  BY <1>2, <1>5, <1>6

LEMMA ClaimBecomes ==
    ASSUME NEW c \in Callers, at \in [Callers -> Task], NEW job \in BOOLEAN
    PROVE  /\ Claim(c, job) => Becomes(c, "archive", FALSE, Zeros, {}, {}, {}, {})
           /\ LookInVain(c, job) => Becomes(c, "insert", FALSE, Zeros, {}, {}, {}, {})
<1>1. "archive" \in CallerSteps /\ "insert" \in CallerSteps /\ FALSE \in BOOLEAN
  BY DEF CallerSteps, Closing
<1>2. ASSUME Claim(c, job) PROVE Becomes(c, "archive", FALSE, Zeros, {}, {}, {}, {})
  <2>1. at' = [at EXCEPT ![c] = [Idle EXCEPT !.step = "archive", !.job = job]]
    BY <1>2 DEF Claim
  <2> QED
    BY <1>1, <2>1, BeginBecomes
<1>3. ASSUME LookInVain(c, job) PROVE Becomes(c, "insert", FALSE, Zeros, {}, {}, {}, {})
  <2>1. at' = [at EXCEPT ![c] = [Idle EXCEPT !.step = "insert", !.job = job]]
    BY <1>3 DEF LookInVain
  <2> QED
    BY <1>1, <2>1, BeginBecomes
<1> QED
  BY <1>2, <1>3

LEMMA HandBecomes ==
    ASSUME NEW c \in Callers, at \in [Callers -> Task], NEW resend \in BOOLEAN,
           DispatchByHand(c, resend)
    PROVE  Becomes(c, "reports", resend, Zeros, {}, {}, {}, {})
<1>1. at' = [at EXCEPT ![c] = [Idle EXCEPT !.step = "reports", !.resend = resend]]
  BY DEF DispatchByHand
<1> QED
  BY <1>1, BeginBecomes DEF CallerSteps, Dispatching

LEMMA ReadBecomes ==
    ASSUME NEW c \in Callers, at \in [Callers -> Task], report \in [Scopes -> Nat],
           active \in SUBSET Scopes, ReadReports(c)
    PROVE  Becomes(c, "persist", at[c].resend, report, active, at[c].todo, at[c].refused, at[c].now)
<1> DEFINE x == [at EXCEPT ![c].step = "persist"]
           y == [x EXCEPT ![c].ids = report]
           z == [y EXCEPT ![c].want = active]
<1>1. at' = z
  BY DEF ReadReports
<1>2. Holding(x, c, "persist", at[c].resend, at[c].ids, at[c].want, at[c].todo, at[c].refused, at[c].now)
  BY HoldsItself, SetsStep DEF Dispatching
<1> HIDE DEF x
<1>3. Holding(y, c, "persist", at[c].resend, report, at[c].want, at[c].todo, at[c].refused, at[c].now)
  BY <1>2, SetsIds
<1> HIDE DEF y
<1>4. Holding(z, c, "persist", at[c].resend, report, active, at[c].todo, at[c].refused, at[c].now)
  BY <1>3, SetsWant
<1> QED
  BY <1>1, <1>4 DEF Becomes

LEMMA PersistBecomes ==
    ASSUME NEW c \in Callers, at \in [Callers -> Task], KeptIds(c) \in [Scopes -> Nat], Persist(c)
    PROVE  Becomes(c, "recipients", at[c].resend, KeptIds(c), at[c].want,
                   at[c].todo, at[c].refused, at[c].now)
<1> DEFINE k == KeptIds(c)
           x == [at EXCEPT ![c].step = "recipients"]
           y == [x EXCEPT ![c].ids = k]
<1>1. at' = y
  BY DEF Persist
<1> HIDE DEF k
<1>2. Holding(x, c, "recipients", at[c].resend, at[c].ids, at[c].want, at[c].todo, at[c].refused, at[c].now)
  BY HoldsItself, SetsStep DEF Dispatching
<1> HIDE DEF x
<1>3. Holding(y, c, "recipients", at[c].resend, k, at[c].want, at[c].todo, at[c].refused, at[c].now)
  BY <1>2, SetsIds DEF k
<1> QED
  BY <1>1, <1>3 DEF Becomes, k

LEMMA ReadRecipientsBecomes ==
    ASSUME NEW c \in Callers, at \in [Callers -> Task], ReadRecipients(c)
    PROVE  \E sent \in {AlreadySent(c), {}} :
              /\ Becomes(c, "send", at[c].resend, at[c].ids, at[c].want,
                         IF at[c].resend THEN Due(c) ELSE Due(c) \ sent, at[c].refused, at[c].now)
              /\ IF sent = AlreadySent(c) THEN UNCHANGED <<faults, mishaps>>
                 ELSE Fault /\ Noting("unlogged", TRUE)
<1>1. PICK sent \in {AlreadySent(c), {}} :
          /\ at' = [at EXCEPT ![c].step = "send",
                              ![c].todo = IF at[c].resend THEN Due(c) ELSE Due(c) \ sent]
          /\ IF sent = AlreadySent(c) THEN UNCHANGED <<faults, mishaps>>
             ELSE Fault /\ Noting("unlogged", TRUE)
  BY DEF ReadRecipients
<1> DEFINE k == IF at[c].resend THEN Due(c) ELSE Due(c) \ sent
           x == [at EXCEPT ![c].step = "send"]
           y == [x EXCEPT ![c].todo = k]
<1>2. at' = y
  BY <1>1
<1>3. k \in SUBSET Deliveries
  BY DEF Due
<1> HIDE DEF k
<1>4. Holding(x, c, "send", at[c].resend, at[c].ids, at[c].want, at[c].todo, at[c].refused, at[c].now)
  BY HoldsItself, SetsStep DEF Dispatching
<1> HIDE DEF x
<1>5. Holding(y, c, "send", at[c].resend, at[c].ids, at[c].want, k, at[c].refused, at[c].now)
  BY <1>3, <1>4, SetsTodo
<1> QED
  BY <1>1, <1>2, <1>5 DEF Becomes, k

LEMMA SendBecomes ==
    ASSUME NEW c \in Callers, at \in [Callers -> Task], NEW d \in Deliveries, Send(c, d)
    PROVE  \E ok \in BOOLEAN, lost \in 0 .. 1 :
              /\ IF lost = 1 THEN Fault ELSE UNCHANGED faults
              /\ Noting("unlogged", lost = 1)
              /\ sends' = [sends EXCEPT ![d] = @ + lost + (IF ok THEN 1 ELSE 0)]
              /\ Becomes(c, "log", at[c].resend, at[c].ids, at[c].want, at[c].todo \ {d},
                         IF ok THEN at[c].refused ELSE at[c].refused \cup {d}, {d})
<1>1. PICK ok \in BOOLEAN, lost \in 0 .. 1 :
          /\ IF lost = 1 THEN Fault ELSE UNCHANGED faults
          /\ Noting("unlogged", lost = 1)
          /\ sends' = [sends EXCEPT ![d] = @ + lost + (IF ok THEN 1 ELSE 0)]
          /\ at' = [at EXCEPT ![c].step = "log", ![c].now = {d},
                              ![c].todo = @ \ {d},
                              ![c].refused = IF ok THEN @ ELSE @ \cup {d}]
  BY DEF Send
<1> DEFINE x == [at EXCEPT ![c].step = "log"]
           y == [x EXCEPT ![c].now = {d}]
           z == [y EXCEPT ![c].todo = @ \ {d}]
           u == [z EXCEPT ![c].refused = IF ok THEN @ ELSE @ \cup {d}]
           left == at[c].todo \ {d}
           refused == IF ok THEN at[c].refused ELSE at[c].refused \cup {d}
<1>2. at' = u
  BY <1>1
<1>3. left \in SUBSET Deliveries /\ refused \in SUBSET Deliveries
  BY DEF Task
<1>4. Holding(x, c, "log", at[c].resend, at[c].ids, at[c].want, at[c].todo, at[c].refused, at[c].now)
  BY HoldsItself, SetsStep DEF Dispatching
<1> HIDE DEF x
<1>5. Holding(y, c, "log", at[c].resend, at[c].ids, at[c].want, at[c].todo, at[c].refused, {d})
  BY <1>4, SetsNow
<1> HIDE DEF y
<1>6. Holding(z, c, "log", at[c].resend, at[c].ids, at[c].want, left, at[c].refused, {d})
  <2>1. y \in [Callers -> Task] /\ y[c].todo = at[c].todo
    BY <1>5 DEF Holding
  <2>2. z = [y EXCEPT ![c].todo = left]
    BY <2>1
  <2> HIDE DEF left, z
  <2> QED
    BY <1>3, <1>5, <2>2, SetsTodo
<1> HIDE DEF z
<1>7. Holding(u, c, "log", at[c].resend, at[c].ids, at[c].want, left, refused, {d})
  <2>1. z \in [Callers -> Task] /\ z[c].refused = at[c].refused
    BY <1>6 DEF Holding
  <2>2. u = [z EXCEPT ![c].refused = refused]
    BY <2>1
  <2> HIDE DEF left, refused, u
  <2> QED
    BY <1>3, <1>6, <2>2, SetsRefused
<1> QED
  BY <1>1, <1>2, <1>7 DEF Becomes

LEMMA LogBecomes ==
    ASSUME NEW c \in Callers, at \in [Callers -> Task], Log(c)
    PROVE  Becomes(c, "send", at[c].resend, at[c].ids, at[c].want, at[c].todo, at[c].refused, {})
<1> DEFINE x == [at EXCEPT ![c].step = "send"]
           y == [x EXCEPT ![c].now = {}]
<1>1. at' = y
  BY DEF Log
<1>2. Holding(x, c, "send", at[c].resend, at[c].ids, at[c].want, at[c].todo, at[c].refused, at[c].now)
  BY HoldsItself, SetsStep DEF Dispatching
<1> HIDE DEF x
<1>3. Holding(y, c, "send", at[c].resend, at[c].ids, at[c].want, at[c].todo, at[c].refused, {})
  BY <1>2, SetsNow
<1> QED
  BY <1>1, <1>3 DEF Becomes

RowType == row \in [status : {"none", "running", "success", "failed"}, fresh : BOOLEAN,
                    run : Callers \cup {NoRun}, archive : Callers \cup {NoRun}]
ReportType ==
    /\ active \in SUBSET Scopes /\ Scopes \ Branches \subseteq active
    /\ report \in [Scopes -> Nat] /\ nextId \in Nat \ {0}
    /\ logged \subseteq Recipients \X {report[s] : s \in Scopes}
SentType == told \in BOOLEAN /\ sends \in [Deliveries -> Nat]
CountType == calls \in 0 .. MaxCalls /\ faults \in 0 .. MaxFaults /\ turns \in 0 .. MaxTurns
MishapType == mishaps \subseteq Mishaps

LEMMA Types ==
    /\ TypeOK => at \in [Callers -> Task] /\ RowType /\ ReportType /\ SentType /\ CountType /\ MishapType
    /\ at \in [Callers -> Task] /\ RowType /\ ReportType /\ SentType /\ CountType /\ MishapType => TypeOK
    /\ (at \in [Callers -> Task] /\ RowType /\ ReportType /\ SentType /\ CountType /\ MishapType)' => TypeOK'
<1>1. TypeOK => at \in [Callers -> Task] /\ RowType /\ ReportType /\ SentType /\ CountType /\ MishapType
  BY DEF TypeOK, Task, RowType, ReportType, SentType, CountType, MishapType
<1>2. (at \in [Callers -> Task] /\ RowType /\ ReportType /\ SentType /\ CountType /\ MishapType)' => TypeOK'
  BY DEF TypeOK, Task, RowType, ReportType, SentType, CountType, MishapType
<1>3. at \in [Callers -> Task] /\ RowType /\ ReportType /\ SentType /\ CountType /\ MishapType => TypeOK
  BY DEF TypeOK, Task, RowType, ReportType, SentType, CountType, MishapType
<1> QED
  BY <1>1, <1>2, <1>3

\* The row keeps its type whatever is written to it.
LEMMA RowMoves ==
    ASSUME NEW c \in Callers, RowType,
           \/ row' = ClaimedBy(c) \/ row' = Recorded(c) \/ row' = [row EXCEPT !.status = "failed"]
           \/ row' = [row EXCEPT !.fresh = FALSE] \/ UNCHANGED row
    PROVE  RowType'
<1>1. CASE row' = ClaimedBy(c)
  BY <1>1 DEF ClaimedBy, RowType
<1>2. CASE row' = Recorded(c)
  <2> DEFINE x == [row EXCEPT !.status = "success"]
             y == [x EXCEPT !.archive = c]
  <2>1. x \in [status : {"none", "running", "success", "failed"}, fresh : BOOLEAN,
               run : Callers \cup {NoRun}, archive : Callers \cup {NoRun}]
    BY DEF RowType
  <2>2. row' = y
    BY <1>2 DEF Recorded
  <2> HIDE DEF x
  <2> QED
    BY <2>1, <2>2 DEF RowType
<1>3. CASE row' = [row EXCEPT !.status = "failed"]
  BY <1>3 DEF RowType
<1>4. CASE row' = [row EXCEPT !.fresh = FALSE]
  BY <1>4 DEF RowType
<1>5. CASE UNCHANGED row
  BY <1>5 DEF RowType
<1> QED
  BY <1>1, <1>2, <1>3, <1>4, <1>5

LEMMA SummariesKept ==
    ASSUME ReportType, SentType, UNCHANGED summaries
    PROVE  ReportType' /\ SentType' /\ turns' = turns
  BY DEF ReportType, SentType, summaries

\* Calls and faults are counted up to their bounds.
LEMMA Counted ==
    ASSUME BoundsAssumption, CountType, NEW c \in Callers,
           UNCHANGED calls \/ Start(c), UNCHANGED faults \/ Fault,
           \/ UNCHANGED turns
           \/ turns < MaxTurns /\ turns' = turns + 1
    PROVE  CountType'
<1>1. calls' \in 0 .. MaxCalls
  BY Started DEF CountType
<1>2. faults' \in 0 .. MaxFaults
  BY FaultBounded DEF CountType
<1>3. turns' \in 0 .. MaxTurns
  BY DEF CountType, BoundsAssumption
<1> QED
  BY <1>1, <1>2, <1>3 DEF CountType

\* A mishap is remembered.
LEMMA MishapsGrow ==
    ASSUME MishapType, [Next]_vars
    PROVE  MishapType' /\ mishaps \subseteq mishaps'
<1> USE DEF MishapType
<1>1. {"outlived", "met", "crossed", "resent", "dropped", "unlogged", "silenced"} \subseteq Mishaps
  BY DEF Mishaps
<1>2. ASSUME NEW m \in Mishaps, NEW p, Noting(m, p) PROVE MishapType' /\ mishaps \subseteq mishaps'
  BY <1>2 DEF Noting
<1>3. ASSUME NEW c \in Callers, Begin(c) PROVE MishapType' /\ mishaps \subseteq mishaps'
  BY <1>1, <1>2, <1>3 DEF Begin, Claim, LookInVain, DispatchByHand
<1>4. ASSUME NEW c \in Callers, InsertClaim(c) \/ Succeed(c) \/ AnswerLost(c) \/ Fail(c)
      PROVE MishapType' /\ mishaps \subseteq mishaps'
  BY <1>1, <1>2, <1>4 DEF InsertClaim, Succeed, AnswerLost, Fail
<1>5. ASSUME NEW c \in Callers, ReadReports(c) \/ Persist(c) \/ PersistFails(c)
      PROVE MishapType' /\ mishaps \subseteq mishaps'
  BY <1>1, <1>2, <1>5 DEF ReadReports, Persist, PersistFails, Escalate
<1>6. ASSUME NEW c \in Callers, ReadRecipients(c) \/ RecipientsUnread(c) \/ Log(c) \/ Finish(c)
      PROVE MishapType' /\ mishaps \subseteq mishaps'
  BY <1>1, <1>2, <1>6 DEF ReadRecipients, RecipientsUnread, Log, Finish, Escalate
<1>7. ASSUME NEW c \in Callers, NEW d \in Deliveries, Send(c, d) PROVE MishapType' /\ mishaps \subseteq mishaps'
  BY <1>1, <1>2, <1>7 DEF Send
<1>8. ASSUME NEW c \in Callers, Crash(c) PROVE MishapType' /\ mishaps \subseteq mishaps'
  BY <1>1, <1>8 DEF Crash
<1>9. CASE UNCHANGED vars \/ ClaimAges \/ \E b \in Branches : TurnBranch(b)
  BY <1>9 DEF vars, ClaimAges, TurnBranch
<1> QED
  BY <1>3, <1>4, <1>5, <1>6, <1>7, <1>8, <1>9 DEF Next, Proceed

\* The ids a dispatch goes on with are numbers, and those it wants are of rows.
LEMMA KeptIdsReal ==
    ASSUME ScopesAssumption, ReportType, at \in [Callers -> Task], NEW c \in Callers
    PROVE  /\ KeptIds(c) \in [Scopes -> Nat]
           /\ \A s \in at[c].want : KeptIds(c)[s] # 0 /\ (s \notin Missing(c) => KeptIds(c)[s] = at[c].ids[s])
           /\ nextId + Cardinality(Missing(c)) \in Nat \ {0}
<1>1. Missing(c) \subseteq at[c].want /\ at[c].want \subseteq Scopes /\ at[c].ids \in [Scopes -> Nat]
  BY DEF Missing, Task
<1>2. IsFiniteSet(Missing(c))
  BY <1>1, FS_Subset DEF ScopesAssumption
<1>3. Numbered(Missing(c)) \in [Missing(c) -> Nat \ {0}] /\ nextId + Cardinality(Missing(c)) \in Nat \ {0}
  BY <1>2, NewIds DEF ReportType
<1> DEFINE new == Numbered(Missing(c))
<1>4. KeptIds(c) = [s \in Scopes |-> IF s \in Missing(c) THEN new[s]
                                     ELSE IF s \in at[c].want THEN at[c].ids[s] ELSE 0]
  BY DEF KeptIds
<1> HIDE DEF new
<1>5. new \in [Missing(c) -> Nat \ {0}]
  BY <1>3 DEF new
<1>6. \A s \in at[c].want : s \notin Missing(c) => at[c].ids[s] # 0
  BY DEF Missing
<1> QED
  BY <1>1, <1>3, <1>4, <1>5, <1>6

\* What the steps that write reports and logs leave of them.
LEMMA PersistReports ==
    ASSUME ScopesAssumption, ReportType, DispatchInv, at \in [Callers -> Task], NEW c \in Callers, Persist(c)
    PROVE  ReportType'
<1> DEFINE k == KeptIds(c)
           gone == Deleted(Stale(c), c)
<1>1. /\ \A s \in Missing(c) : report[s] = 0
      /\ report' = [s \in Scopes |-> IF s \in Missing(c) THEN k[s] ELSE IF s \in gone THEN 0 ELSE report[s]]
      /\ logged' = Unlinked(gone) /\ active' = active
      /\ nextId' = nextId + Cardinality(Missing(c))
  BY DEF Persist
<1>2. k \in [Scopes -> Nat] /\ nextId' \in Nat \ {0}
  BY <1>1, KeptIdsReal
<1> HIDE DEF k, gone
<1>3. report' \in [Scopes -> Nat]
  BY <1>1, <1>2 DEF ReportType
<1>4. logged' \subseteq Recipients \X {report'[s] : s \in Scopes}
  <2>1. ASSUME NEW l \in logged' PROVE l \in Recipients \X {report'[s] : s \in Scopes}
    <3>1. l \in logged /\ l[2] \notin {report[s] : s \in gone} /\ l[2] # 0
      BY <1>1, <2>1 DEF Unlinked, DispatchInv
    <3>2. PICK r \in Recipients, s \in Scopes : l = <<r, report[s]>>
      BY <3>1 DEF ReportType
    <3>3. s \notin gone /\ s \notin Missing(c)
      BY <1>1, <3>1, <3>2
    <3>4. report'[s] = report[s]
      BY <1>1, <3>3
    <3> QED
      BY <3>2, <3>4
  <2> QED
    BY <2>1
<1> QED
  BY <1>1, <1>2, <1>3, <1>4 DEF ReportType

LEMMA PersistFailsReports ==
    ASSUME ScopesAssumption, ReportType, DispatchInv, at \in [Callers -> Task], NEW c \in Callers, PersistFails(c)
    PROVE  /\ ReportType' /\ \A s \in Scopes : report[s] # 0 => report'[s] = report[s]
           /\ logged' = logged
<1>1. PICK S \in SUBSET {s \in Missing(c) : report[s] = 0} :
          /\ report' = [s \in Scopes |-> IF s \in S THEN Numbered(S)[s] ELSE report[s]]
          /\ nextId' = nextId + Cardinality(S)
  BY DEF PersistFails
<1>2. active' = active /\ logged' = logged
  BY DEF PersistFails
<1>3. S \subseteq Scopes /\ IsFiniteSet(S)
  <2>1. S \subseteq Scopes
    BY <1>1 DEF Missing, Task
  <2> QED
    BY <2>1, FS_Subset DEF ScopesAssumption
<1>4. Numbered(S) \in [S -> Nat \ {0}] /\ nextId' \in Nat \ {0}
  BY <1>1, <1>3, NewIds DEF ReportType
<1> DEFINE new == Numbered(S)
<1>5. report' = [s \in Scopes |-> IF s \in S THEN new[s] ELSE report[s]]
  BY <1>1
<1>6. new \in [S -> Nat \ {0}]
  BY <1>4
<1> HIDE DEF new
<1>7. report' \in [Scopes -> Nat] /\ \A s \in Scopes : report[s] # 0 => report'[s] = report[s]
  BY <1>3, <1>5, <1>6 DEF ReportType
<1>8. logged' \subseteq Recipients \X {report'[s] : s \in Scopes}
  <2>1. ASSUME NEW l \in logged PROVE l \in Recipients \X {report'[s] : s \in Scopes}
    <3>1. l[2] # 0
      BY <2>1 DEF DispatchInv
    <3>2. PICK r \in Recipients, s \in Scopes : l = <<r, report[s]>>
      BY <2>1 DEF ReportType
    <3>3. report'[s] = report[s]
      BY <1>7, <3>1, <3>2
    <3> QED
      BY <3>2, <3>3
  <2> QED
    BY <1>2, <2>1
<1> QED
  BY <1>2, <1>4, <1>7, <1>8 DEF ReportType

\* What a dispatch logs: the deliveries accepted whose row is the one it holds.
Kept(c) == {<<d[1], report[d[2]]>> : d \in {e \in Delivered(c) : report[e[2]] = at[c].ids[e[2]]}}

LEMMA LogReports ==
    ASSUME ReportType, DispatchInv, at \in [Callers -> Task], NEW c \in Callers, Log(c)
    PROVE  /\ ReportType'
           /\ \A l \in logged' : l[2] # 0
           /\ \E kept \in {Kept(c), {}} :
                /\ logged' = logged \cup kept
                /\ Noting("unlogged", Delivered(c) # {} /\ kept = {})
<1>1. PICK kept \in {Kept(c), {}} :
         /\ logged' = logged \cup kept
         /\ Noting("unlogged", Delivered(c) # {} /\ kept = {})
  BY DEF Log, Kept
<1>2. at[c].step = "log" /\ report' = report /\ nextId' = nextId /\ active' = active
  BY DEF Log
<1>3. ASSUME NEW l \in Kept(c)
      PROVE  l \in Recipients \X {report[s] : s \in Scopes} /\ l[2] # 0
  <2>1. PICK d \in Delivered(c) : report[d[2]] = at[c].ids[d[2]] /\ l = <<d[1], report[d[2]]>>
    BY <1>3 DEF Kept
  <2>2. d \in Due(c)
    BY <2>1 DEF Delivered, DispatchInv
  <2>3. d[1] \in Recipients /\ d[2] \in Scopes /\ d[2] \in at[c].want
    BY <2>2 DEF Due, Deliveries
  <2>4. at[c].ids[d[2]] # 0
    BY <1>2, <2>3 DEF DispatchInv, Sending
  <2> QED
    BY <2>1, <2>3, <2>4
<1>4. logged' \subseteq logged \cup Kept(c)
  BY <1>1
<1> QED
  BY <1>1, <1>2, <1>3, <1>4 DEF ReportType, DispatchInv

\* Every step keeps the types.
LEMMA TypeStep ==
    ASSUME ScopesAssumption, BoundsAssumption, TypeOK, DispatchInv, [Next]_vars
    PROVE  TypeOK'
<1>1. at \in [Callers -> Task] /\ RowType /\ ReportType /\ SentType /\ CountType /\ MishapType
  BY Types
<1>2. MishapType'
  BY <1>1, MishapsGrow
<1> SUFFICES (at \in [Callers -> Task] /\ RowType /\ ReportType /\ SentType /\ CountType)'
  BY <1>2, Types
<1> DEFINE Goal == (at \in [Callers -> Task] /\ RowType /\ ReportType /\ SentType /\ CountType)'
           AtGoal == at' \in [Callers -> Task]
<1>3. ASSUME NEW c \in Callers, NEW step, NEW resend, NEW ids, NEW want, NEW todo, NEW refused, NEW now,
             Becomes(c, step, resend, ids, want, todo, refused, now)
      PROVE  AtGoal
  BY <1>3 DEF Becomes, Holding
<1>4. "archive" \in CallerSteps /\ "reports" \in CallerSteps /\ "failing" \in CallerSteps
  BY DEF CallerSteps, Closing, Dispatching
<1>5. ASSUME NEW c \in Callers, Begin(c) PROVE Goal
  <2>1. ASSUME NEW job \in BOOLEAN, Claim(c, job) PROVE Goal
    <3>1. AtGoal
      BY <1>1, <1>3, <2>1, ClaimBecomes
    <3>2. row' = ClaimedBy(c) /\ UNCHANGED summaries /\ Start(c) /\ UNCHANGED faults
      BY <2>1 DEF Claim
    <3> QED
      BY <1>1, <3>1, <3>2, RowMoves, SummariesKept, Counted
  <2>2. ASSUME NEW job \in BOOLEAN, LookInVain(c, job) PROVE Goal
    <3>1. AtGoal
      BY <1>1, <1>3, <2>2, ClaimBecomes
    <3>2. row' = row /\ UNCHANGED summaries /\ Start(c) /\ UNCHANGED faults
      BY <2>2 DEF LookInVain
    <3> QED
      BY <1>1, <3>1, <3>2, RowMoves, SummariesKept, Counted
  <2>3. ASSUME NEW resend \in BOOLEAN, DispatchByHand(c, resend) PROVE Goal
    <3>1. AtGoal
      BY <1>1, <1>3, <2>3, HandBecomes
    <3>2. row' = row /\ UNCHANGED summaries /\ Start(c) /\ UNCHANGED faults
      BY <2>3 DEF DispatchByHand
    <3> QED
      BY <1>1, <3>1, <3>2, RowMoves, SummariesKept, Counted
  <2> QED
    BY <1>5, <2>1, <2>2, <2>3 DEF Begin
<1>6. ASSUME NEW c \in Callers, InsertClaim(c) \/ Succeed(c) \/ AnswerLost(c) \/ Fail(c) PROVE Goal
  <2>1. AtGoal
    <3>1. (\E step \in CallerSteps : To(c, step)) \/ Ends(c)
      BY <1>4, <1>6 DEF InsertClaim, Succeed, AnswerLost, Fail
    <3> QED
      BY <1>1, <1>3, <3>1, ToBecomes, EndsBecomes
  <2>2. row' = ClaimedBy(c) \/ row' = Recorded(c) \/ row' = [row EXCEPT !.status = "failed"] \/ UNCHANGED row
    BY <1>6 DEF InsertClaim, Succeed, AnswerLost, Fail
  <2>3. UNCHANGED <<summaries, calls>> /\ (UNCHANGED faults \/ Fault)
    BY <1>6 DEF InsertClaim, Succeed, AnswerLost, Fail
  <2> QED
    BY <1>1, <2>1, <2>2, <2>3, RowMoves, SummariesKept, Counted
<1>7. ASSUME NEW c \in Callers, ReadReports(c) \/ RecipientsUnread(c) \/ Crash(c) \/ ReadRecipients(c) PROVE Goal
  <2>1. AtGoal
    <3>1. CASE ReadReports(c)
      BY <1>1, <1>3, <3>1, ReadBecomes DEF ReportType
    <3>2. CASE RecipientsUnread(c) \/ Crash(c)
      BY <1>1, <1>3, <3>2, EndsBecomes DEF RecipientsUnread, Crash
    <3>3. CASE ReadRecipients(c)
      BY <1>1, <1>3, <3>3, ReadRecipientsBecomes
    <3> QED
      BY <1>7, <3>1, <3>2, <3>3
  <2>2. UNCHANGED <<row, summaries, calls>> /\ (UNCHANGED faults \/ Fault)
    BY <1>7 DEF ReadReports, RecipientsUnread, Crash, ReadRecipients
  <2> QED
    BY <1>1, <2>1, <2>2, RowMoves, SummariesKept, Counted
<1>8. ASSUME NEW c \in Callers, Persist(c) \/ PersistFails(c) PROVE Goal
  <2>1. AtGoal
    <3>1. CASE Persist(c)
      BY <1>1, <1>3, <3>1, PersistBecomes, KeptIdsReal
    <3>2. CASE PersistFails(c)
      BY <1>1, <1>3, <3>2, EndsBecomes DEF PersistFails
    <3> QED
      BY <1>8, <3>1, <3>2
  <2>2. ReportType'
    BY <1>1, <1>8, PersistReports, PersistFailsReports
  <2>3. UNCHANGED <<row, sends, turns, calls>> /\ (UNCHANGED faults \/ Fault) /\ told' \in {told, TRUE}
    BY <1>8 DEF Persist, PersistFails, Escalate
  <2>4. SentType'
    BY <1>1, <2>3 DEF SentType
  <2> QED
    BY <1>1, <2>1, <2>2, <2>3, <2>4, RowMoves, Counted
<1>9. ASSUME NEW c \in Callers, NEW d \in Deliveries, Send(c, d) PROVE Goal
  <2>1. AtGoal
    BY <1>1, <1>3, <1>9, SendBecomes
  <2>2. UNCHANGED <<row, active, report, nextId, logged, told, turns, calls>> /\ (UNCHANGED faults \/ Fault)
    BY <1>9 DEF Send
  <2>3. SentType'
    <3>1. PICK ok \in BOOLEAN, lost \in 0 .. 1 :
             sends' = [sends EXCEPT ![d] = @ + lost + (IF ok THEN 1 ELSE 0)]
      BY <1>9 DEF Send
    <3>2. sends' = [sends EXCEPT ![d] = sends[d] + lost + (IF ok THEN 1 ELSE 0)]
      BY <3>1
    <3>3. sends[d] \in Nat /\ sends[d] + lost + (IF ok THEN 1 ELSE 0) \in Nat
      BY <1>1 DEF SentType
    <3> QED
      BY <1>1, <2>2, <3>2, <3>3 DEF SentType
  <2>4. ReportType'
    BY <1>1, <2>2 DEF ReportType
  <2> QED
    BY <1>1, <2>1, <2>2, <2>3, <2>4, RowMoves, Counted
<1>10. ASSUME NEW c \in Callers, Log(c) \/ Finish(c) PROVE Goal
  <2>1. AtGoal
    <3>1. CASE Log(c)
      BY <1>1, <1>3, <3>1, LogBecomes
    <3>2. CASE Finish(c)
      BY <1>1, <1>3, <3>2, EndsBecomes DEF Finish
    <3> QED
      BY <1>10, <3>1, <3>2
  <2>2. ReportType'
    <3>1. CASE Log(c)
      BY <1>1, <3>1, LogReports
    <3>2. CASE Finish(c)
      BY <1>1, <3>2 DEF Finish, ReportType
    <3> QED
      BY <1>10, <3>1, <3>2
  <2>3. UNCHANGED <<row, sends, turns, calls>> /\ (UNCHANGED faults \/ Fault) /\ told' \in {told, TRUE}
    BY <1>10 DEF Log, Finish, Escalate
  <2>4. SentType'
    BY <1>1, <2>3 DEF SentType
  <2> QED
    BY <1>1, <2>1, <2>2, <2>3, <2>4, RowMoves, Counted
<1>11. CASE UNCHANGED vars
  BY <1>1, <1>11 DEF vars, RowType, ReportType, SentType, CountType
<1>12. CASE ClaimAges
  <2>1. row' = [row EXCEPT !.fresh = FALSE] /\ UNCHANGED <<at, summaries, calls, faults>>
    BY <1>12 DEF ClaimAges
  <2>2. RowType'
    BY <1>1, <2>1 DEF RowType
  <2>3. CountType'
    BY <1>1, <2>1 DEF CountType, summaries
  <2> QED
    BY <1>1, <2>1, <2>2, <2>3, SummariesKept
<1>13. ASSUME NEW b \in Branches, TurnBranch(b) PROVE Goal
  <2>1. /\ turns < MaxTurns /\ turns' = turns + 1
        /\ active' = IF b \in active THEN active \ {b} ELSE active \cup {b}
        /\ UNCHANGED <<row, at, report, nextId, logged, told, sends, calls, faults>>
    BY <1>13 DEF TurnBranch
  <2>2. ReportType'
    BY <1>1, <2>1 DEF ReportType, ScopesAssumption
  <2>3. CountType'
    BY <1>1, <2>1 DEF CountType, BoundsAssumption
  <2> QED
    BY <1>1, <2>1, <2>2, <2>3 DEF RowType, SentType
<1> QED
  BY <1>5, <1>6, <1>7, <1>8, <1>9, <1>10, <1>11, <1>12, <1>13 DEF Next, Proceed

(***************************************************************************)
(* The claim of the date's row.                                            *)
(***************************************************************************)
Unexcused == mishaps \cap {"outlived", "met"} = {}

\* A step that leaves the row, and starts or goes on with no archive.
LEMMA ClaimKept ==
    ASSUME ClaimInv, mishaps \subseteq mishaps', UNCHANGED row,
           \A o \in Callers : at'[o].step \in {"archive", "failing"} => at'[o].step = at[o].step
    PROVE  ClaimInv'
  BY DEF ClaimInv

\* Every step keeps the claim's meaning.
LEMMA ClaimStep ==
    ASSUME ScopesAssumption, TypeOK, ClaimInv, [Next]_vars
    PROVE  ClaimInv'
<1>1. at \in [Callers -> Task] /\ RowType /\ ReportType /\ MishapType
  BY Types
<1>2. mishaps \subseteq mishaps'
  BY <1>1, MishapsGrow
<1>3. Unexcused' => Unexcused
  BY <1>2 DEF Unexcused
<1>4. "insert" \in CallerSteps /\ "archive" \in CallerSteps /\ "reports" \in CallerSteps /\ "failing" \in CallerSteps
  BY DEF CallerSteps, Closing, Dispatching
<1>5. ASSUME NEW c \in Callers, UNCHANGED row, NEW step \in CallerSteps \ {"archive", "failing"},
             NEW resend, NEW ids, NEW want, NEW todo, NEW refused, NEW now,
             Becomes(c, step, resend, ids, want, todo, refused, now)
      PROVE  ClaimInv'
  <2>1. \A o \in Callers : at'[o].step \in {"archive", "failing"} => at'[o].step = at[o].step
    BY <1>5 DEF Becomes, Holding
  <2> QED
    BY <1>2, <1>5, <2>1, ClaimKept
<1>6. ASSUME NEW c \in Callers, NEW job \in BOOLEAN, Claim(c, job) PROVE ClaimInv'
  <2>1. /\ at'[c].step = "archive" /\ \A o \in Callers \ {c} : at'[o] = at[o]
    BY <1>1, <1>6, ClaimBecomes DEF Becomes, Holding
  <2>2. /\ row.status = "failed" \/ (row.status = "running" /\ ~row.fresh)
        /\ row' = [status |-> "running", fresh |-> TRUE, run |-> c, archive |-> NoRun]
        /\ Noting("outlived", row.status = "running" /\ ~row.fresh /\ \E o \in Callers : Running(o))
    BY <1>6 DEF Claim, Claimable, ClaimedBy
  <2>3. ASSUME Unexcused', NEW o \in Callers PROVE ~ Running(o)
    <3>1. ~ (row.status = "running" /\ ~row.fresh /\ \E p \in Callers : Running(p))
      BY <2>2, <2>3 DEF Noting, Unexcused
    <3>2. CASE row.status = "failed"
      BY <1>3, <2>3, <3>2 DEF ClaimInv, Unexcused, Running
    <3> QED
      BY <2>2, <3>1, <3>2
  <2> QED
    BY <2>1, <2>2, <2>3 DEF ClaimInv, Unexcused, Running
<1>7. ASSUME NEW c \in Callers, InsertClaim(c) PROVE ClaimInv'
  <2>1. at[c].step = "insert" /\ To(c, "archive")
        /\ row' = [status |-> "running", fresh |-> TRUE, run |-> c, archive |-> NoRun]
        /\ Noting("met", row.status # "none")
    BY <1>7 DEF InsertClaim, ClaimedBy
  <2>2. at'[c].step = "archive" /\ \A o \in Callers \ {c} : at'[o] = at[o]
    BY <1>1, <1>4, <2>1, ToBecomes DEF Becomes, Holding
  <2>3. ASSUME Unexcused', NEW o \in Callers PROVE ~ Running(o)
    <3>1. row.status = "none"
      BY <2>1, <2>3 DEF Noting, Unexcused
    <3> QED
      BY <1>3, <2>3, <3>1 DEF ClaimInv, Unexcused, Running
  <2> QED
    BY <2>1, <2>2, <2>3 DEF ClaimInv, Unexcused, Running
<1>8. ASSUME NEW c \in Callers, Succeed(c) \/ AnswerLost(c) PROVE ClaimInv'
  <2>1. at[c].step = "archive" /\ row' = Recorded(c)
    BY <1>8 DEF Succeed, AnswerLost
  <2>2. row'.status = "success" /\ row'.archive = c /\ row'.run = row.run
    BY <1>1, <2>1 DEF Recorded, RowType
  <2>3. at'[c].step # "archive" /\ \A o \in Callers \ {c} : at'[o] = at[o]
    <3>1. (\E step \in CallerSteps \ {"archive"} : To(c, step)) \/ Ends(c)
      BY <1>4, <1>8 DEF Succeed, AnswerLost
    <3> QED
      BY <1>1, <3>1, ToBecomes, EndsBecomes DEF Becomes, Holding
  <2>4. ASSUME Unexcused' PROVE row.run = c /\ \A o \in Callers \ {c} : ~ Running(o)
    BY <1>3, <2>1, <2>4 DEF ClaimInv, Unexcused, Running
  <2> QED
    BY <2>2, <2>3, <2>4 DEF ClaimInv, Unexcused, Running
<1>9. ASSUME NEW c \in Callers, Fail(c) PROVE ClaimInv'
  <2>1. /\ at[c].step \in {"archive", "failing"} /\ Ends(c)
        /\ row' = [row EXCEPT !.status = "failed"] \/ UNCHANGED row
    BY <1>9 DEF Fail
  <2>2. Becomes(c, "idle", FALSE, Zeros, {}, {}, {}, {})
    BY <1>1, <2>1, EndsBecomes
  <2>3. at'[c].step = "idle" /\ \A o \in Callers \ {c} : at'[o] = at[o]
    BY <2>2 DEF Becomes, Holding
  <2>4. CASE UNCHANGED row
    BY <1>5, <2>2, <2>4 DEF CallerSteps
  <2>5. CASE row' = [row EXCEPT !.status = "failed"]
    <3>1. row'.status = "failed"
      BY <1>1, <2>5 DEF RowType
    <3>2. ASSUME Unexcused', NEW o \in Callers \ {c} PROVE ~ Running(o)
      BY <1>3, <2>1, <3>2 DEF ClaimInv, Unexcused, Running
    <3> QED
      BY <2>3, <3>1, <3>2 DEF ClaimInv, Unexcused, Running
  <2> QED
    BY <2>1, <2>4, <2>5
<1>10. ASSUME NEW c \in Callers,
              \/ \E job \in BOOLEAN : LookInVain(c, job)
              \/ \E resend \in BOOLEAN : DispatchByHand(c, resend)
              \/ ReadReports(c) \/ Persist(c) \/ PersistFails(c) \/ ReadRecipients(c) \/ RecipientsUnread(c)
              \/ \E d \in Deliveries : Send(c, d)
              \/ Log(c) \/ Finish(c) \/ Crash(c)
       PROVE  ClaimInv'
  <2>1. UNCHANGED row
    BY <1>10 DEF LookInVain, DispatchByHand, ReadReports, Persist, PersistFails, ReadRecipients,
                 RecipientsUnread, Send, Log, Finish, Crash
  <2>2. /\ "idle" \in CallerSteps \ {"archive", "failing"} /\ "insert" \in CallerSteps \ {"archive", "failing"}
        /\ Dispatching \subseteq CallerSteps \ {"archive", "failing"}
        /\ {"reports", "persist", "recipients", "send", "log"} \subseteq Dispatching
    BY DEF CallerSteps, Closing, Dispatching
  <2>3. CASE \E job \in BOOLEAN : LookInVain(c, job)
    BY <1>1, <1>5, <2>1, <2>2, <2>3, ClaimBecomes
  <2>4. CASE \E resend \in BOOLEAN : DispatchByHand(c, resend)
    BY <1>1, <1>5, <2>1, <2>2, <2>4, HandBecomes
  <2>5. CASE ReadReports(c)
    BY <1>1, <1>5, <2>1, <2>2, <2>5, ReadBecomes DEF ReportType
  <2>6. CASE Persist(c)
    BY <1>1, <1>5, <2>1, <2>2, <2>6, PersistBecomes, KeptIdsReal
  <2>7. CASE PersistFails(c) \/ RecipientsUnread(c) \/ Finish(c) \/ Crash(c)
    BY <1>1, <1>5, <2>1, <2>2, <2>7, EndsBecomes DEF PersistFails, RecipientsUnread, Finish, Crash
  <2>8. CASE ReadRecipients(c)
    BY <1>1, <1>5, <2>1, <2>2, <2>8, ReadRecipientsBecomes
  <2>9. CASE \E d \in Deliveries : Send(c, d)
    BY <1>1, <1>5, <2>1, <2>2, <2>9, SendBecomes
  <2>10. CASE Log(c)
    BY <1>1, <1>5, <2>1, <2>2, <2>10, LogBecomes
  <2> QED
    BY <1>10, <2>3, <2>4, <2>5, <2>6, <2>7, <2>8, <2>9, <2>10
<1>11. CASE UNCHANGED vars
  BY <1>11 DEF vars, ClaimInv
<1>12. CASE ClaimAges
  <2>1. row.status = "running" /\ row' = [row EXCEPT !.fresh = FALSE] /\ UNCHANGED <<at, mishaps>>
    BY <1>12 DEF ClaimAges
  <2>2. row'.status = "running" /\ row'.run = row.run
    BY <1>1, <2>1 DEF RowType
  <2> QED
    BY <2>1, <2>2 DEF ClaimInv
<1>13. ASSUME NEW b \in Branches, TurnBranch(b) PROVE ClaimInv'
  BY <1>13 DEF TurnBranch, ClaimInv
<1> QED
  BY <1>6, <1>7, <1>8, <1>9, <1>10, <1>11, <1>12, <1>13 DEF Next, Begin, Proceed

(***************************************************************************)
(* What a dispatch holds.                                                  *)
(***************************************************************************)
Fine(step, ids, want, todo, refused, now) ==
    /\ todo \cup now \cup refused \subseteq {d \in Deliveries : d[2] \in want}
    /\ todo \cap refused = {}
    /\ step \notin Sending => todo = {} /\ refused = {}
    /\ step # "log" => now = {}
    /\ step \in {"recipients"} \cup Sending => \A s \in want : ids[s] # 0

Handful(c) == Fine(at[c].step, at[c].ids, at[c].want, at[c].todo, at[c].refused, at[c].now)
LogsReal == \A l \in logged : l[2] # 0

LEMMA DispatchParts ==
    /\ DispatchInv <=> LogsReal /\ \A c \in Callers : Handful(c)
    /\ (DispatchInv <=> LogsReal /\ \A c \in Callers : Handful(c))'
  BY DEF DispatchInv, LogsReal, Handful, Fine, Due

LEMMA OneBecomesFine ==
    ASSUME DispatchInv, LogsReal', NEW c \in Callers, NEW step, NEW resend, NEW ids, NEW want, NEW todo,
           NEW refused, NEW now, Becomes(c, step, resend, ids, want, todo, refused, now),
           Fine(step, ids, want, todo, refused, now)
    PROVE  DispatchInv'
<1>1. ASSUME NEW o \in Callers PROVE Handful(o)'
  <2>1. CASE o = c
    BY <2>1 DEF Becomes, Holding, Handful
  <2>2. CASE o # c
    <3>1. at'[o] = at[o]
      BY <2>2 DEF Becomes, Holding
    <3>2. Handful(o)
      BY DispatchParts
    <3> QED
      BY <3>1, <3>2 DEF Handful
  <2> QED
    BY <2>1, <2>2
<1> QED
  BY <1>1, DispatchParts

LEMMA EmptyHands ==
    ASSUME NEW step, NEW ids, NEW want, step \notin Sending, step # "recipients"
    PROVE  Fine(step, ids, want, {}, {}, {})
  BY DEF Fine, Sending

\* Every step keeps what a dispatch holds true.
LEMMA DispatchStep ==
    ASSUME ScopesAssumption, TypeOK, DispatchInv, [Next]_vars
    PROVE  DispatchInv'
<1>1. at \in [Callers -> Task] /\ RowType /\ ReportType /\ MishapType
  BY Types
<1>2. LogsReal /\ \A c \in Callers : Handful(c)
  BY DispatchParts
<1>3. ASSUME NEW c \in Callers
      PROVE  /\ at[c].step \notin Sending => at[c].todo = {} /\ at[c].refused = {}
             /\ at[c].step # "log" => at[c].now = {}
  BY <1>2 DEF Handful, Fine
<1>4. UNCHANGED logged => LogsReal'
  BY <1>2 DEF LogsReal
<1>5. /\ "insert" \in CallerSteps /\ "archive" \in CallerSteps /\ "reports" \in CallerSteps /\ "failing" \in CallerSteps
      /\ {"insert", "archive", "failing", "reports", "persist", "idle", "recipients"} \cap Sending = {}
  BY DEF CallerSteps, Closing, Dispatching, Sending
<1>6. ASSUME NEW c \in Callers, Begin(c) PROVE DispatchInv'
  <2>1. LogsReal'
    BY <1>4, <1>6 DEF Begin, Claim, LookInVain, DispatchByHand, summaries
  <2>2. \E step \in {"archive", "insert", "reports"}, resend \in BOOLEAN :
           Becomes(c, step, resend, Zeros, {}, {}, {}, {})
    BY <1>1, <1>6, ClaimBecomes, HandBecomes DEF Begin
  <2> QED
    BY <1>5, <2>1, <2>2, EmptyHands, OneBecomesFine
<1>7. ASSUME NEW c \in Callers, InsertClaim(c) \/ Succeed(c) \/ AnswerLost(c) \/ Fail(c) PROVE DispatchInv'
  <2>1. LogsReal'
    BY <1>4, <1>7 DEF InsertClaim, Succeed, AnswerLost, Fail, summaries
  <2>2. (\E step \in {"archive", "reports", "failing"} : To(c, step)) \/ Ends(c)
    BY <1>7 DEF InsertClaim, Succeed, AnswerLost, Fail
  <2>3. at[c].step \in {"insert", "archive", "failing"}
    BY <1>7 DEF InsertClaim, Succeed, AnswerLost, Fail
  <2>4. at[c].todo = {} /\ at[c].refused = {} /\ at[c].now = {}
    BY <1>3, <2>3 DEF Sending
  <2>5. CASE Ends(c)
    BY <1>1, <1>5, <2>1, <2>5, EndsBecomes, EmptyHands, OneBecomesFine
  <2>6. ASSUME NEW step \in {"archive", "reports", "failing"}, To(c, step) PROVE DispatchInv'
    <3>1. Becomes(c, step, at[c].resend, at[c].ids, at[c].want, {}, {}, {})
      BY <1>1, <1>5, <2>4, <2>6, ToBecomes
    <3>2. Fine(step, at[c].ids, at[c].want, {}, {}, {})
      BY <1>5, EmptyHands
    <3> QED
      BY <2>1, <3>1, <3>2, OneBecomesFine
  <2> QED
    BY <2>2, <2>5, <2>6
<1>8. ASSUME NEW c \in Callers, PersistFails(c) \/ RecipientsUnread(c) \/ Finish(c) \/ Crash(c) PROVE DispatchInv'
  <2>1. LogsReal' /\ Ends(c)
    BY <1>4, <1>8 DEF PersistFails, RecipientsUnread, Finish, Crash, summaries
  <2> QED
    BY <1>1, <1>5, <2>1, EndsBecomes, EmptyHands, OneBecomesFine
<1>9. ASSUME NEW c \in Callers, ReadReports(c) PROVE DispatchInv'
  <2>1. LogsReal' /\ at[c].step = "reports"
    BY <1>4, <1>9 DEF ReadReports, summaries
  <2>2. at[c].todo = {} /\ at[c].refused = {} /\ at[c].now = {}
    BY <1>3, <2>1 DEF Sending
  <2>3. Becomes(c, "persist", at[c].resend, report, active, {}, {}, {})
    BY <1>1, <1>9, <2>2, ReadBecomes DEF ReportType
  <2>4. Fine("persist", report, active, {}, {}, {})
    BY <1>5, EmptyHands
  <2> QED
    BY <2>1, <2>3, <2>4, OneBecomesFine
<1>10. ASSUME NEW c \in Callers, Persist(c) PROVE DispatchInv'
  <2>1. at[c].step = "persist" /\ logged' \subseteq logged
    BY <1>10 DEF Persist, Unlinked
  <2>2. at[c].todo = {} /\ at[c].refused = {} /\ at[c].now = {}
    BY <1>3, <2>1 DEF Sending
  <2>3. Becomes(c, "recipients", at[c].resend, KeptIds(c), at[c].want, {}, {}, {})
    BY <1>1, <1>10, <2>2, PersistBecomes, KeptIdsReal
  <2>4. Fine("recipients", KeptIds(c), at[c].want, {}, {}, {})
    BY <1>1, KeptIdsReal DEF Fine, Sending
  <2>5. LogsReal'
    BY <1>2, <2>1 DEF LogsReal
  <2> QED
    BY <2>3, <2>4, <2>5, OneBecomesFine
<1>11. ASSUME NEW c \in Callers, ReadRecipients(c) PROVE DispatchInv'
  <2>1. at[c].step = "recipients" /\ LogsReal'
    BY <1>4, <1>11 DEF ReadRecipients, summaries
  <2>2. at[c].todo = {} /\ at[c].refused = {} /\ at[c].now = {}
    BY <1>3, <2>1 DEF Sending
  <2>3. \A s \in at[c].want : at[c].ids[s] # 0
    BY <1>2, <2>1 DEF Handful, Fine
  <2>4. PICK todo \in SUBSET Due(c) : Becomes(c, "send", at[c].resend, at[c].ids, at[c].want, todo, {}, {})
    BY <1>1, <1>11, <2>2, ReadRecipientsBecomes
  <2>5. Fine("send", at[c].ids, at[c].want, todo, {}, {})
    BY <2>3 DEF Fine, Due, Sending
  <2> QED
    BY <2>1, <2>4, <2>5, OneBecomesFine
<1>12. ASSUME NEW c \in Callers, NEW d \in Deliveries, Send(c, d) PROVE DispatchInv'
  <2>1. at[c].step = "send" /\ d \in at[c].todo /\ LogsReal'
    BY <1>4, <1>12 DEF Send
  <2>2. Fine("send", at[c].ids, at[c].want, at[c].todo, at[c].refused, at[c].now)
    BY <1>2, <2>1 DEF Handful
  <2>3. PICK refused \in {at[c].refused, at[c].refused \cup {d}} :
           Becomes(c, "log", at[c].resend, at[c].ids, at[c].want, at[c].todo \ {d}, refused, {d})
    BY <1>1, <1>12, SendBecomes
  <2>4. Fine("log", at[c].ids, at[c].want, at[c].todo \ {d}, refused, {d})
    BY <2>1, <2>2, <2>3 DEF Fine, Sending
  <2> QED
    BY <2>1, <2>3, <2>4, OneBecomesFine
<1>13. ASSUME NEW c \in Callers, Log(c) PROVE DispatchInv'
  <2>1. at[c].step = "log"
    BY <1>13 DEF Log
  <2>2. Fine("log", at[c].ids, at[c].want, at[c].todo, at[c].refused, at[c].now)
    BY <1>2, <2>1 DEF Handful
  <2>3. Fine("send", at[c].ids, at[c].want, at[c].todo, at[c].refused, {})
    BY <2>2 DEF Fine, Sending
  <2>4. LogsReal'
    BY <1>1, <1>13, LogReports DEF LogsReal
  <2> QED
    BY <1>1, <1>13, <2>3, <2>4, LogBecomes, OneBecomesFine
<1>14. CASE UNCHANGED vars
  BY <1>14 DEF vars, DispatchInv, Due
<1>15. CASE ClaimAges \/ \E b \in Branches : TurnBranch(b)
  <2>1. UNCHANGED <<at, logged>>
    BY <1>15 DEF ClaimAges, TurnBranch, summaries
  <2> QED
    BY <2>1 DEF DispatchInv, Due
<1> QED
  BY <1>6, <1>7, <1>8, <1>9, <1>10, <1>11, <1>12, <1>13, <1>14, <1>15 DEF Next, Proceed

(***************************************************************************)
(* What the logs know.                                                     *)
(***************************************************************************)
Knows(c) ==
    /\ ~at[c].resend
    /\ at[c].step = "persist" => at[c].ids = report
    /\ at[c].step \in {"recipients"} \cup Sending => \A s \in at[c].want : at[c].ids[s] = report[s]
    /\ \A d \in at[c].todo : sends[d] = 0
OneDispatch == \A c, o \in Callers : Dispatches(c) /\ Dispatches(o) => c = o
Remembered(d) ==
    /\ sends[d] <= 1
    /\ sends[d] # 0 => /\ report[d[2]] # 0
                       /\ \/ <<d[1], report[d[2]]>> \in logged
                          \/ \E c \in Callers : d \in Delivered(c)

LEMMA LogParts ==
    /\ LogInv <=> (Alone => OneDispatch /\ (\A c \in Callers : Knows(c)) /\ \A d \in Deliveries : Remembered(d))
    /\ (LogInv <=> (Alone => OneDispatch /\ (\A c \in Callers : Knows(c)) /\ \A d \in Deliveries : Remembered(d)))'
  BY DEF LogInv, OneDispatch, Knows, Remembered

\* What was accepted stays remembered while nothing is sent.
LEMMA RememberedKept ==
    ASSUME NEW c \in Callers, NEW step, NEW resend, NEW ids, NEW want, NEW todo, NEW refused, NEW now,
           Becomes(c, step, resend, ids, want, todo, refused, now),
           \A d \in Deliveries : Remembered(d),
           sends' = sends, logged \subseteq logged',
           \A s \in Scopes : report[s] # 0 => report'[s] = report[s],
           \A d \in Delivered(c) : d \in now \ refused \/ <<d[1], report[d[2]]>> \in logged'
    PROVE  \A d \in Deliveries : Remembered(d)'
<1>1. SUFFICES ASSUME NEW d \in Deliveries, sends[d] # 0
               PROVE  /\ report'[d[2]] # 0
                      /\ <<d[1], report'[d[2]]>> \in logged' \/ \E o \in Callers : d \in Delivered(o)'
  BY DEF Remembered
<1>2. /\ report[d[2]] # 0
      /\ <<d[1], report[d[2]]>> \in logged \/ \E o \in Callers : d \in Delivered(o)
  BY <1>1 DEF Remembered
<1>3. d[2] \in Scopes
  BY DEF Deliveries
<1>4. report'[d[2]] = report[d[2]]
  BY <1>2, <1>3
<1>5. CASE <<d[1], report[d[2]]>> \in logged
  BY <1>2, <1>4, <1>5
<1>6. CASE \E o \in Callers : d \in Delivered(o)
  <2>1. PICK o \in Callers : d \in Delivered(o)
    BY <1>6
  <2>2. CASE o = c
    <3>1. CASE d \in now \ refused
      <4>1. d \in Delivered(c)'
        BY <3>1 DEF Delivered, Becomes, Holding
      <4> QED
        BY <1>2, <1>4, <4>1
    <3>2. CASE <<d[1], report[d[2]]>> \in logged'
      BY <1>2, <1>4, <3>2
    <3> QED
      BY <2>1, <2>2, <3>1, <3>2
  <2>3. CASE o # c
    <3>1. d \in Delivered(o)'
      BY <2>1, <2>3 DEF Delivered, Becomes, Holding
    <3> QED
      BY <1>2, <1>4, <3>1
  <2> QED
    BY <2>2, <2>3
<1> QED
  BY <1>2, <1>5, <1>6

\* What is left to show of a step of caller c.
LEMMA LogKept ==
    ASSUME DispatchInv, LogInv, mishaps \subseteq mishaps',
           NEW c \in Callers, NEW step, NEW resend, NEW ids, NEW want, NEW todo, NEW refused, NEW now,
           Becomes(c, step, resend, ids, want, todo, refused, now),
           Alone' => /\ ~resend
                     /\ step = "persist" => ids = report'
                     /\ step \in {"recipients"} \cup Sending => \A s \in want : ids[s] = report'[s]
                     /\ \A d \in todo : sends'[d] = 0
                     /\ step \in Dispatching => \A o \in Callers \ {c} : ~Dispatches(o)
                     /\ UNCHANGED <<report, sends>> \/ \A o \in Callers \ {c} : ~Dispatches(o)
                     /\ \A d \in Deliveries : Remembered(d)'
    PROVE  LogInv'
<1>1. SUFFICES ASSUME Alone'
               PROVE  OneDispatch' /\ (\A o \in Callers : Knows(o)') /\ \A d \in Deliveries : Remembered(d)'
  BY LogParts
<1>2. Alone
  BY <1>1 DEF Alone
<1>3. OneDispatch /\ \A o \in Callers : Knows(o)
  BY <1>2, LogParts
<1>4. \A o \in Callers \ {c} : at'[o] = at[o]
  BY DEF Becomes, Holding
<1>5. OneDispatch'
  <2>1. Dispatches(c)' => step \in Dispatching
    BY DEF Dispatches, Becomes, Holding
  <2>2. \A o \in Callers \ {c} : Dispatches(o)' <=> Dispatches(o)
    BY <1>4 DEF Dispatches
  <2> QED
    BY <1>1, <1>3, <2>1, <2>2 DEF OneDispatch
<1>6. Knows(c)'
  BY <1>1 DEF Knows, Becomes, Holding
<1>7. ASSUME NEW o \in Callers \ {c} PROVE Knows(o)'
  <2>1. CASE UNCHANGED <<report, sends>>
    BY <1>3, <1>4, <2>1 DEF Knows
  <2>2. CASE ~Dispatches(o)
    <3>1. at[o].step \notin {"persist", "recipients"} \cup Sending
      BY <2>2 DEF Dispatches, Dispatching, Sending
    <3>2. at[o].todo = {}
      BY <3>1 DEF DispatchInv
    <3>3. ~at[o].resend
      BY <1>3 DEF Knows
    <3> QED
      BY <1>4, <3>1, <3>2, <3>3 DEF Knows
  <2> QED
    BY <1>1, <2>1, <2>2
<1> QED
  BY <1>1, <1>5, <1>6, <1>7

\* The steps that leave reports, logs and messages alone.
LEMMA QuietKept ==
    ASSUME DispatchInv, LogInv, mishaps \subseteq mishaps', UNCHANGED <<report, logged, sends>>,
           NEW c \in Callers, NEW step, NEW resend, NEW ids, NEW want, NEW todo, NEW refused, NEW now,
           Becomes(c, step, resend, ids, want, todo, refused, now),
           Alone' => /\ ~resend
                     /\ step = "persist" => ids = report
                     /\ step \in {"recipients"} \cup Sending => \A s \in want : ids[s] = report[s]
                     /\ \A d \in todo : sends[d] = 0
                     /\ step \in Dispatching => Dispatches(c) \/ \A o \in Callers : ~Dispatches(o)
                     /\ Delivered(c) \subseteq now \ refused
    PROVE  LogInv'
<1>1. ASSUME Alone' PROVE \A d \in Deliveries : Remembered(d)'
  <2>1. Alone
    BY <1>1 DEF Alone
  <2>2. \A d \in Deliveries : Remembered(d)
    BY <2>1, LogParts
  <2> QED
    BY <1>1, <2>2, RememberedKept
<1>2. ASSUME Alone', step \in Dispatching PROVE \A o \in Callers \ {c} : ~Dispatches(o)
  <2>1. Alone
    BY <1>2 DEF Alone
  <2>2. OneDispatch
    BY <2>1, LogParts
  <2> QED
    BY <1>2, <2>2 DEF OneDispatch
<1> QED
  BY <1>1, <1>2, LogKept

\* Every step keeps what the logs know.
LEMMA LogStep ==
    ASSUME ScopesAssumption, TypeOK, DispatchInv, LogInv, [Next]_vars
    PROVE  LogInv'
<1>1. /\ at \in [Callers -> Task] /\ RowType /\ ReportType /\ SentType /\ MishapType
      /\ mishaps \subseteq mishaps'
  BY Types, MishapsGrow
<1>2. ASSUME Alone' PROVE Alone /\ OneDispatch /\ (\A c \in Callers : Knows(c)) /\ \A d \in Deliveries : Remembered(d)
  <2>1. Alone
    BY <1>1, <1>2 DEF Alone
  <2> QED
    BY <2>1, LogParts
<1>3. ASSUME NEW c \in Callers
      PROVE  /\ at[c].step \notin Sending => at[c].todo = {} /\ at[c].refused = {}
             /\ at[c].step # "log" => at[c].now = {} /\ Delivered(c) = {}
             /\ at[c].todo \subseteq Due(c) /\ Delivered(c) \subseteq Due(c)
             /\ at[c].todo \cap at[c].refused = {}
  BY DEF DispatchInv, Delivered
<1>4. /\ "insert" \in CallerSteps /\ "archive" \in CallerSteps /\ "reports" \in CallerSteps /\ "failing" \in CallerSteps
      /\ {"insert", "archive", "failing", "reports", "persist", "idle"} \cap ({"recipients"} \cup Sending) = {}
      /\ {"insert", "archive", "failing", "idle"} \cap Dispatching = {}
      /\ {"reports", "persist", "recipients", "send", "log"} \subseteq Dispatching
  BY DEF CallerSteps, Closing, Dispatching, Sending
<1>5. ASSUME NEW c \in Callers, UNCHANGED <<report, logged, sends>>, NEW resend, NEW ids, NEW want,
             NEW step \in {"insert", "archive", "failing", "reports", "idle"},
             Becomes(c, step, resend, ids, want, {}, {}, {}),
             Alone' => ~resend /\ Delivered(c) = {},
             Alone' /\ step = "reports" => \A o \in Callers : ~Dispatches(o)
      PROVE  LogInv'
  BY <1>1, <1>4, <1>5, QuietKept
<1>6. ASSUME NEW c \in Callers, Begin(c) PROVE LogInv'
  <2>1. UNCHANGED <<report, logged, sends>> /\ at[c].step = "idle"
    BY <1>6 DEF Begin, Claim, LookInVain, DispatchByHand, summaries, Start
  <2>2. Delivered(c) = {}
    BY <1>3, <2>1
  <2>3. CASE \E job \in BOOLEAN : Claim(c, job) \/ LookInVain(c, job)
    BY <1>1, <1>5, <2>1, <2>2, <2>3, ClaimBecomes
  <2>4. ASSUME NEW resend \in BOOLEAN, DispatchByHand(c, resend) PROVE LogInv'
    <3>1. Becomes(c, "reports", resend, Zeros, {}, {}, {}, {})
      BY <1>1, <2>4, HandBecomes
    <3>2. Alone' => ~resend /\ \A o \in Callers : ~Dispatches(o)
      BY <2>4 DEF DispatchByHand, Alone
    <3> QED
      BY <1>5, <2>1, <2>2, <3>1, <3>2
  <2> QED
    BY <1>6, <2>3, <2>4 DEF Begin
<1>7. ASSUME NEW c \in Callers, InsertClaim(c) \/ Succeed(c) \/ AnswerLost(c) \/ Fail(c) PROVE LogInv'
  <2>1. /\ UNCHANGED <<report, logged, sends>> /\ at[c].step \in {"insert", "archive", "failing"}
        /\ (\E step \in {"archive", "failing", "reports"} : To(c, step)) \/ Ends(c)
    BY <1>7 DEF InsertClaim, Succeed, AnswerLost, Fail, summaries
  <2>2. at[c].todo = {} /\ at[c].refused = {} /\ at[c].now = {} /\ Delivered(c) = {}
    BY <1>3, <2>1 DEF Sending
  <2>3. CASE Ends(c)
    BY <1>1, <1>5, <2>1, <2>2, <2>3, EndsBecomes
  <2>4. ASSUME NEW step \in {"archive", "failing", "reports"}, To(c, step) PROVE LogInv'
    <3>1. Becomes(c, step, at[c].resend, at[c].ids, at[c].want, {}, {}, {})
      BY <1>1, <1>4, <2>2, <2>4, ToBecomes
    <3>2. Alone' => ~at[c].resend
      BY <1>2 DEF Knows
    <3>3. ASSUME Alone', step = "reports" PROVE \A o \in Callers : ~Dispatches(o)
      <4>1. at'[c].step = "reports"
        BY <3>1, <3>3 DEF Becomes, Holding
      <4>2. CASE Succeed(c)
        <5>1. CASE at[c].job
          BY <3>3, <4>2, <5>1 DEF Succeed, Noting, Alone
        <5>2. CASE ~at[c].job
          <6>1. at'[c].step = "idle"
            BY <1>1, <4>2, <5>2, EndsBecomes DEF Succeed, Becomes, Holding
          <6> QED
            BY <4>1, <6>1
        <5> QED
          BY <5>1, <5>2
      <4>3. CASE InsertClaim(c)
        <5>1. at'[c].step = "archive"
          BY <1>1, <1>4, <4>3, ToBecomes DEF InsertClaim, Becomes, Holding
        <5> QED
          BY <4>1, <5>1
      <4>4. CASE AnswerLost(c)
        <5>1. at'[c].step = "failing"
          BY <1>1, <1>4, <4>4, ToBecomes DEF AnswerLost, Becomes, Holding
        <5> QED
          BY <4>1, <5>1
      <4>5. CASE Fail(c)
        <5>1. at'[c].step = "idle"
          BY <1>1, <4>5, EndsBecomes DEF Fail, Becomes, Holding
        <5> QED
          BY <4>1, <5>1
      <4> QED
        BY <1>7, <4>2, <4>3, <4>4, <4>5
    <3> QED
      BY <1>5, <2>1, <2>2, <3>1, <3>2, <3>3
  <2> QED
    BY <2>1, <2>3, <2>4
<1>8. ASSUME NEW c \in Callers, RecipientsUnread(c) \/ Finish(c) \/ Crash(c) PROVE LogInv'
  <2>1. UNCHANGED <<report, logged, sends>> /\ Ends(c)
    BY <1>8 DEF RecipientsUnread, Finish, Crash, summaries
  <2>2. Alone' => Delivered(c) = {}
    <3>1. CASE Crash(c)
      BY <3>1 DEF Crash, Alone
    <3>2. CASE RecipientsUnread(c) \/ Finish(c)
      <4>1. at[c].step # "log"
        BY <3>2 DEF RecipientsUnread, Finish
      <4> QED
        BY <1>3, <4>1
    <3> QED
      BY <1>8, <3>1, <3>2
  <2> QED
    BY <1>1, <1>5, <2>1, <2>2, EndsBecomes
<1>9. ASSUME NEW c \in Callers, ReadReports(c) PROVE LogInv'
  <2>1. UNCHANGED <<report, logged, sends>> /\ at[c].step = "reports"
    BY <1>9 DEF ReadReports, summaries
  <2>2. at[c].todo = {} /\ at[c].refused = {} /\ at[c].now = {} /\ Delivered(c) = {}
    BY <1>3, <2>1 DEF Sending
  <2>3. Becomes(c, "persist", at[c].resend, report, active, {}, {}, {})
    BY <1>1, <1>9, <2>2, ReadBecomes DEF ReportType
  <2>4. Alone' => ~at[c].resend
    BY <1>2 DEF Knows
  <2>5. Dispatches(c)
    BY <1>4, <2>1 DEF Dispatches
  <2> QED
    BY <1>1, <1>4, <2>1, <2>2, <2>3, <2>4, <2>5, QuietKept
<1>10. ASSUME NEW c \in Callers, Persist(c) PROVE LogInv'
  <2> DEFINE k == KeptIds(c)
             gone == Deleted(Stale(c), c)
  <2>1. /\ at[c].step = "persist" /\ \A s \in Missing(c) : report[s] = 0
        /\ report' = [s \in Scopes |-> IF s \in Missing(c) THEN k[s] ELSE IF s \in gone THEN 0 ELSE report[s]]
        /\ logged' = Unlinked(gone) /\ sends' = sends
        /\ Noting("dropped", gone # {})
    BY <1>10 DEF Persist
  <2>2. at[c].todo = {} /\ at[c].refused = {} /\ at[c].now = {} /\ Delivered(c) = {}
    BY <1>3, <2>1 DEF Sending
  <2>3. /\ k \in [Scopes -> Nat] /\ at[c].want \subseteq Scopes
        /\ \A s \in at[c].want : s \notin Missing(c) => k[s] = at[c].ids[s]
    BY <1>1, KeptIdsReal DEF Task
  <2>4. Becomes(c, "recipients", at[c].resend, k, at[c].want, {}, {}, {})
    BY <1>1, <1>10, <2>2, <2>3, PersistBecomes
  <2> HIDE DEF k, gone
  <2>5. ASSUME Alone'
        PROVE  /\ ~at[c].resend /\ \A o \in Callers \ {c} : ~Dispatches(o)
               /\ logged' = logged /\ \A s \in Scopes : report[s] # 0 => report'[s] = report[s]
               /\ \A s \in at[c].want : k[s] = report'[s]
    <3>1. gone = {}
      BY <2>1, <2>5 DEF Noting, Alone
    <3>2. logged' = logged /\ \A s \in Scopes : report[s] # 0 => report'[s] = report[s]
      BY <2>1, <3>1 DEF Unlinked
    <3>3. ~at[c].resend /\ at[c].ids = report
      BY <1>2, <2>1, <2>5 DEF Knows
    <3>4. \A s \in at[c].want : k[s] = report'[s]
      BY <2>1, <2>3, <3>1, <3>3
    <3>5. \A o \in Callers \ {c} : ~Dispatches(o)
      BY <1>2, <1>4, <2>1, <2>5 DEF OneDispatch, Dispatches
    <3> QED
      BY <3>2, <3>3, <3>4, <3>5
  <2>6. ASSUME Alone' PROVE \A d \in Deliveries : Remembered(d)'
    <3>1. \A d \in Deliveries : Remembered(d)
      BY <1>2, <2>6
    <3> QED
      BY <2>1, <2>2, <2>4, <2>5, <2>6, <3>1, RememberedKept
  <2>7. "recipients" # "persist"
    OBVIOUS
  <2> QED
    BY <1>1, <2>4, <2>5, <2>6, <2>7, LogKept
<1>11. ASSUME NEW c \in Callers, PersistFails(c) PROVE LogInv'
  <2>1. at[c].step = "persist" /\ sends' = sends /\ Ends(c)
    BY <1>11 DEF PersistFails
  <2>2. Delivered(c) = {}
    BY <1>3, <2>1
  <2>3. Becomes(c, "idle", FALSE, Zeros, {}, {}, {}, {})
    BY <1>1, <2>1, EndsBecomes
  <2>4. logged' = logged /\ \A s \in Scopes : report[s] # 0 => report'[s] = report[s]
    BY <1>1, <1>11, PersistFailsReports
  <2>5. ASSUME Alone' PROVE \A o \in Callers \ {c} : ~Dispatches(o)
    BY <1>2, <1>4, <2>1, <2>5 DEF OneDispatch, Dispatches
  <2>6. ASSUME Alone' PROVE \A d \in Deliveries : Remembered(d)'
    <3>1. \A d \in Deliveries : Remembered(d)
      BY <1>2, <2>6
    <3> QED
      BY <2>1, <2>2, <2>3, <2>4, <3>1, RememberedKept
  <2> QED
    BY <1>1, <1>4, <2>3, <2>5, <2>6, LogKept
<1>12. ASSUME NEW c \in Callers, ReadRecipients(c) PROVE LogInv'
  <2>1. UNCHANGED <<report, logged, sends>> /\ at[c].step = "recipients"
    BY <1>12 DEF ReadRecipients, summaries
  <2>2. at[c].todo = {} /\ at[c].refused = {} /\ at[c].now = {} /\ Delivered(c) = {}
    BY <1>3, <2>1 DEF Sending
  <2>3. PICK sent \in {AlreadySent(c), {}} :
          /\ Becomes(c, "send", at[c].resend, at[c].ids, at[c].want,
                     IF at[c].resend THEN Due(c) ELSE Due(c) \ sent, at[c].refused, at[c].now)
          /\ sent # AlreadySent(c) => Noting("unlogged", TRUE)
    BY <1>1, <1>12, ReadRecipientsBecomes
  <2> DEFINE todo == IF at[c].resend THEN Due(c) ELSE Due(c) \ sent
  <2>4. ASSUME Alone'
        PROVE  ~at[c].resend /\ (\A s \in at[c].want : at[c].ids[s] = report[s]) /\ \A d \in todo : sends[d] = 0
    <3>1. sent = AlreadySent(c)
      BY <2>3, <2>4 DEF Noting, Alone
    <3>2. ~at[c].resend /\ \A s \in at[c].want : at[c].ids[s] = report[s]
      BY <1>2, <2>1, <2>4 DEF Knows
    <3>3. ASSUME NEW d \in todo PROVE sends[d] = 0
      <4>1. d \in Due(c) /\ d \notin AlreadySent(c)
        BY <3>1, <3>2
      <4>2. d \in Deliveries /\ at[c].ids[d[2]] = report[d[2]] /\ <<d[1], report[d[2]]>> \notin logged
        BY <3>2, <4>1 DEF Due, AlreadySent
      <4>3. \A o \in Callers : Delivered(o) = {}
        <5>1. ASSUME NEW o \in Callers PROVE Delivered(o) = {}
          <6>1. at[o].step # "log"
            BY <1>2, <1>4, <2>1, <2>4 DEF OneDispatch, Dispatches
          <6> QED
            BY <1>3, <6>1
        <5> QED
          BY <5>1
      <4> QED
        BY <1>2, <2>4, <4>2, <4>3 DEF Remembered
    <3> QED
      BY <3>2, <3>3
  <2>5. Dispatches(c)
    BY <1>4, <2>1 DEF Dispatches
  <2>6. Becomes(c, "send", at[c].resend, at[c].ids, at[c].want, todo, {}, {})
    BY <2>2, <2>3
  <2> HIDE DEF todo
  <2> QED
    BY <1>1, <2>1, <2>2, <2>4, <2>5, <2>6, QuietKept
<1>13. ASSUME NEW c \in Callers, NEW d \in Deliveries, Send(c, d) PROVE LogInv'
  <2>1. at[c].step = "send" /\ d \in at[c].todo /\ UNCHANGED <<report, logged>>
    BY <1>13 DEF Send
  <2>2. PICK ok \in BOOLEAN, lost \in 0 .. 1 :
          /\ Noting("unlogged", lost = 1)
          /\ sends' = [sends EXCEPT ![d] = @ + lost + (IF ok THEN 1 ELSE 0)]
          /\ Becomes(c, "log", at[c].resend, at[c].ids, at[c].want, at[c].todo \ {d},
                     IF ok THEN at[c].refused ELSE at[c].refused \cup {d}, {d})
    BY <1>1, <1>13, SendBecomes
  <2> DEFINE refused == IF ok THEN at[c].refused ELSE at[c].refused \cup {d}
             todo == at[c].todo \ {d}
  <2>3. Becomes(c, "log", at[c].resend, at[c].ids, at[c].want, todo, refused, {d})
    BY <2>2
  <2>4. d \notin at[c].refused /\ Delivered(c) = {} /\ d[2] \in at[c].want
    BY <1>3, <2>1 DEF Due
  <2>5. \A e \in Deliveries \ {d} : sends'[e] = sends[e]
    BY <1>1, <2>2 DEF SentType
  <2>6. ASSUME Alone'
        PROVE  /\ ~at[c].resend /\ (\A s \in at[c].want : at[c].ids[s] = report'[s])
               /\ \A e \in todo : sends'[e] = 0
               /\ \A o \in Callers \ {c} : ~Dispatches(o)
    <3>1. Knows(c)
      BY <1>2, <2>6
    <3>2. ~at[c].resend /\ (\A s \in at[c].want : at[c].ids[s] = report'[s])
      BY <2>1, <3>1 DEF Knows, Sending
    <3>3. \A e \in todo : sends'[e] = 0
      <4>1. todo \subseteq Deliveries \ {d}
        BY <1>3 DEF Due
      <4>2. \A e \in todo : sends[e] = 0
        BY <3>1 DEF Knows
      <4> QED
        BY <2>5, <4>1, <4>2
    <3>4. \A o \in Callers \ {c} : ~Dispatches(o)
      BY <1>2, <1>4, <2>1, <2>6 DEF OneDispatch, Dispatches
    <3> QED
      BY <3>2, <3>3, <3>4
  <2>7. ASSUME Alone', NEW e \in Deliveries PROVE Remembered(e)'
    <3>1. Remembered(e) /\ Knows(c)
      BY <1>2, <2>7
    <3>2. CASE e # d
      <4>1. ASSUME NEW o \in Callers, e \in Delivered(o) PROVE e \in Delivered(o)'
        BY <2>3, <2>4, <4>1 DEF Delivered, Becomes, Holding
      <4>2. sends'[e] = sends[e]
        BY <2>5, <3>2
      <4> QED
        BY <2>1, <3>1, <4>1, <4>2 DEF Remembered
    <3>3. CASE e = d
      <4>1. sends[d] = 0 /\ lost = 0
        BY <2>1, <2>2, <2>7, <3>1 DEF Knows, Noting, Alone
      <4>2. sends'[d] = IF ok THEN 1 ELSE 0
        BY <1>1, <2>2, <4>1 DEF SentType
      <4>3. report[d[2]] # 0
        <5>1. at[c].ids[d[2]] = report[d[2]]
          BY <2>1, <2>4, <3>1 DEF Knows, Sending
        <5>2. at[c].ids[d[2]] # 0
          BY <2>1, <2>4 DEF DispatchInv, Sending
        <5> QED
          BY <5>1, <5>2
      <4>4. ok => d \in Delivered(c)'
        BY <2>3, <2>4 DEF Delivered, Becomes, Holding
      <4> QED
        BY <2>1, <3>3, <4>2, <4>3, <4>4 DEF Remembered
    <3> QED
      BY <3>2, <3>3
  <2>8. "log" # "persist"
    OBVIOUS
  <2> HIDE DEF todo, refused
  <2> QED
    BY <1>1, <2>3, <2>6, <2>7, <2>8, LogKept
<1>14. ASSUME NEW c \in Callers, Log(c) PROVE LogInv'
  <2>1. at[c].step = "log" /\ UNCHANGED <<report, sends>>
    BY <1>14 DEF Log
  <2>2. Becomes(c, "send", at[c].resend, at[c].ids, at[c].want, at[c].todo, at[c].refused, {})
    BY <1>1, <1>14, LogBecomes
  <2>3. PICK kept \in {Kept(c), {}} :
          logged' = logged \cup kept /\ Noting("unlogged", Delivered(c) # {} /\ kept = {})
    BY <1>1, <1>14, LogReports
  <2>4. ASSUME Alone'
        PROVE  /\ ~at[c].resend /\ (\A s \in at[c].want : at[c].ids[s] = report'[s])
               /\ (\A d \in at[c].todo : sends'[d] = 0)
               /\ \A o \in Callers \ {c} : ~Dispatches(o)
    <3>1. Knows(c)
      BY <1>2, <2>4
    <3>2. \A o \in Callers \ {c} : ~Dispatches(o)
      BY <1>2, <1>4, <2>1, <2>4 DEF OneDispatch, Dispatches
    <3> QED
      BY <2>1, <3>1, <3>2 DEF Knows, Sending
  <2>5. ASSUME Alone' PROVE \A d \in Deliveries : Remembered(d)'
    <3>1. \A d \in Deliveries : Remembered(d)
      BY <1>2, <2>5
    <3>2. ASSUME NEW d \in Delivered(c) PROVE <<d[1], report[d[2]]>> \in logged'
      <4>1. kept = Kept(c)
        BY <2>3, <2>5, <3>2 DEF Noting, Alone
      <4>2. d \in Due(c)
        BY <1>3, <3>2
      <4>3. report[d[2]] = at[c].ids[d[2]]
        BY <2>1, <2>4, <2>5, <4>2 DEF Due
      <4> QED
        BY <2>3, <3>2, <4>1, <4>3 DEF Kept
    <3> QED
      BY <2>1, <2>2, <2>3, <3>1, <3>2, RememberedKept
  <2>6. "send" # "persist"
    OBVIOUS
  <2> QED
    BY <1>1, <2>1, <2>2, <2>4, <2>5, <2>6, LogKept
<1>15. CASE UNCHANGED vars \/ ClaimAges \/ \E b \in Branches : TurnBranch(b)
  <2>1. UNCHANGED <<at, report, logged, sends, mishaps>>
    BY <1>15 DEF vars, ClaimAges, TurnBranch, summaries
  <2> QED
    BY <2>1 DEF LogInv, Alone, Dispatches, Delivered
<1> QED
  BY <1>6, <1>7, <1>8, <1>9, <1>10, <1>11, <1>12, <1>13, <1>14, <1>15 DEF Next, Proceed

(***************************************************************************)
(* The theorems.                                                           *)
(***************************************************************************)
\* The inductive invariant.
ClosingInv == TypeOK /\ ClaimInv /\ DispatchInv /\ LogInv

LEMMA ClosingInitially ==
    ASSUME ScopesAssumption, BoundsAssumption, Init
    PROVE  ClosingInv
<1>1. \A c \in Callers : at[c] = Idle
  BY DEF Init
<1>2. TypeOK
  <2>1. at \in [Callers -> Task]
    <3>1. at = [c \in Callers |-> Idle]
      BY DEF Init
    <3> QED
      BY <3>1, IdleIsTask
  <2>2. RowType
    BY DEF Init, RowType
  <2>3. ReportType
    BY DEF Init, ReportType
  <2>4. SentType /\ CountType /\ MishapType
    <3>1. SentType
      BY DEF Init, SentType
    <3>2. calls = 0 /\ faults = 0 /\ turns = 0 /\ mishaps = {}
      BY DEF Init
    <3> QED
      BY <3>1, <3>2 DEF CountType, MishapType, BoundsAssumption
  <2> QED
    BY <2>1, <2>2, <2>3, <2>4, Types
<1>3. ClaimInv
  BY <1>1 DEF Init, ClaimInv, Idle
<1>4. DispatchInv
  BY <1>1 DEF Init, DispatchInv, Idle, Sending
<1>5. LogInv
  BY <1>1 DEF Init, LogInv, Idle, Sending, Dispatches, Dispatching
<1> QED
  BY <1>2, <1>3, <1>4, <1>5 DEF ClosingInv

LEMMA ClosingKept ==
    ASSUME ScopesAssumption, BoundsAssumption, ClosingInv, [Next]_vars
    PROVE  ClosingInv'
  BY TypeStep, ClaimStep, DispatchStep, LogStep DEF ClosingInv

\* The date's row, the callers, the stored reports and the logs keep their types, and
\* a log entry never names a report row that was deleted.
THEOREM ClosingTyped ==
    ASSUME ScopesAssumption, BoundsAssumption
    PROVE  Spec => []TypeOK
<1>1. Init => ClosingInv
  BY ClosingInitially
<1>2. ClosingInv /\ [Next]_vars => ClosingInv'
  BY ClosingKept
<1>3. ClosingInv => TypeOK
  BY DEF ClosingInv
<1> QED
  BY <1>1, <1>2, <1>3, PTL DEF Spec

\* One run at a time closes the date, and a closed date's archive is the work of the
\* run its claim names, for any number of instances, calls and failures, as long as no
\* live run outlived the ten minutes and no two first claims met.
THEOREM OneRunClosesTheDate ==
    ASSUME ScopesAssumption, BoundsAssumption
    PROVE  Spec => []ArchiveIsTheClaimants
<1>1. Init => ClosingInv
  BY ClosingInitially
<1>2. ClosingInv /\ [Next]_vars => ClosingInv'
  BY ClosingKept
<1>3. ClosingInv => ArchiveIsTheClaimants
  <2>1. SUFFICES ASSUME ClosingInv, mishaps \cap {"outlived", "met"} = {}
                 PROVE  /\ Cardinality({c \in Callers : Running(c)}) <= 1
                        /\ row.status = "success" => row.archive = row.run
    BY DEF ArchiveIsTheClaimants
  <2> DEFINE R == {c \in Callers : Running(c)}
  <2>2. R \subseteq {row.run} /\ (row.status = "success" => row.archive = row.run)
    BY <2>1 DEF ClosingInv, ClaimInv, Running
  <2>3. IsFiniteSet({row.run}) /\ Cardinality({row.run}) = 1
    BY FS_Singleton, Zenon
  <2> HIDE DEF R
  <2>4. Cardinality(R) <= 1
    <3>1. R \in SUBSET {row.run}
      BY <2>2
    <3>2. Cardinality(R) <= Cardinality({row.run})
      BY <2>3, <3>1, FS_Subset, Zenon
    <3> QED
      BY <2>3, <3>2
  <2> QED
    BY <2>2, <2>4 DEF R
<1> QED
  BY <1>1, <1>2, <1>3, PTL DEF Spec

\* Nobody is sent a summary twice, for any recipients, reports, refusals, crashes and
\* dispatches made again after one another, as long as none overlap, none is told to
\* resend, no report row is deleted and no accepted message missed its log.
THEOREM NobodyIsSpammed ==
    ASSUME ScopesAssumption, BoundsAssumption
    PROVE  Spec => []NoSpam
<1>1. Init => ClosingInv
  BY ClosingInitially
<1>2. ClosingInv /\ [Next]_vars => ClosingInv'
  BY ClosingKept
<1>3. ClosingInv => NoSpam
  BY DEF ClosingInv, LogInv, Alone, NoSpam
<1> QED
  BY <1>1, <1>2, <1>3, PTL DEF Spec

(***************************************************************************)
(* Backups.                                                                *)
(***************************************************************************)
\* A function has no more values than arguments.
LEMMA ValuesCounted ==
    ASSUME NEW S, IsFiniteSet(S), NEW f
    PROVE  IsFiniteSet({f[x] : x \in S}) /\ Cardinality({f[x] : x \in S}) <= Cardinality(S)
<1> DEFINE g == [x \in S |-> f[x]]
           T == {f[x] : x \in S}
<1>1. g \in Surjection(S, T) BY DEF Surjection
<1> QED BY <1>1, FS_Surjection

LEMMA UnionCounted ==
    ASSUME NEW S, NEW T, IsFiniteSet(S), IsFiniteSet(T), NEW m \in Nat, NEW n \in Nat,
           Cardinality(S) <= m, Cardinality(T) <= n
    PROVE  IsFiniteSet(S \cup T) /\ Cardinality(S \cup T) <= m + n
<1>1. /\ IsFiniteSet(S \cup T) /\ IsFiniteSet(S \cap T)
      /\ Cardinality(S \cup T) = Cardinality(S) + Cardinality(T) - Cardinality(S \cap T)
      BY FS_Union, FS_Intersection
<1>2. Cardinality(S) \in Nat /\ Cardinality(T) \in Nat /\ Cardinality(S \cap T) \in Nat
      BY <1>1, FS_CardinalityType
<1> QED BY <1>1, <1>2

\* There is a dump like no dump before.
LEMMA NewDumpIsNew ==
    ASSUME DayAssumption, BoundAssumption
    PROVE  NewDump \in 1 .. MaxDumps
<1>1. /\ MaxDay \in Nat /\ MaxDumps \in Nat /\ IsFiniteSet(Runs)
      /\ MaxDumps > 3 * MaxDay + Cardinality(Runs)
      BY DEF DayAssumption, BoundAssumption
<1>2. IsFiniteSet(Days) /\ Cardinality(Days) <= MaxDay
  <2>1. 1 \in Int /\ MaxDay \in Int /\ ~ (1 > MaxDay) BY DEF DayAssumption
  <2>2. IsFiniteSet(1 .. MaxDay) /\ Cardinality(1 .. MaxDay) = MaxDay - 1 + 1 BY <2>1, FS_Interval
  <2> QED BY <2>1, <2>2 DEF Days
<1>3. Cardinality(Runs) \in Nat BY <1>1, FS_CardinalityType
<1> DEFINE A == {object[i] : i \in Days}
           B == {manifest[i] : i \in Days}
           j == [i \in Days |-> backup[i].dump]
           C == {j[i] : i \in Days}
           a == [r \in Runs |-> doing[r].dump]
           D == {a[r] : r \in Runs}
<1>4. IsFiniteSet(A) /\ Cardinality(A) <= MaxDay
  <2>1. IsFiniteSet(A) /\ Cardinality(A) <= Cardinality(Days) BY <1>2, ValuesCounted
  <2> QED BY <1>1, <1>2, <2>1, FS_CardinalityType
<1>5. IsFiniteSet(B) /\ Cardinality(B) <= MaxDay
  <2>1. IsFiniteSet(B) /\ Cardinality(B) <= Cardinality(Days) BY <1>2, ValuesCounted
  <2> QED BY <1>1, <1>2, <2>1, FS_CardinalityType
<1>6. IsFiniteSet(C) /\ Cardinality(C) <= MaxDay
  <2>1. IsFiniteSet(C) /\ Cardinality(C) <= Cardinality(Days) BY <1>2, ValuesCounted
  <2> QED BY <1>1, <1>2, <2>1, FS_CardinalityType
<1>7. IsFiniteSet(D) /\ Cardinality(D) <= Cardinality(Runs) BY <1>1, ValuesCounted
<1>8. Used = ((A \cup B) \cup C) \cup D BY DEF Used
<1> HIDE DEF A, B, C, D
<1>9. IsFiniteSet(A \cup B) /\ Cardinality(A \cup B) <= MaxDay + MaxDay
      BY <1>1, <1>4, <1>5, UnionCounted
<1>10. IsFiniteSet((A \cup B) \cup C) /\ Cardinality((A \cup B) \cup C) <= (MaxDay + MaxDay) + MaxDay
  <2>1. MaxDay + MaxDay \in Nat BY <1>1
  <2> QED BY <1>1, <1>6, <1>9, <2>1, UnionCounted
<1>11. IsFiniteSet(Used) /\ Cardinality(Used) <= ((MaxDay + MaxDay) + MaxDay) + Cardinality(Runs)
  <2>1. (MaxDay + MaxDay) + MaxDay \in Nat BY <1>1
  <2> QED BY <1>3, <1>7, <1>8, <1>10, <2>1, UnionCounted
<1>12. 1 .. MaxDumps \ Used # {}
  <2>1. SUFFICES ASSUME 1 .. MaxDumps \subseteq Used PROVE FALSE OBVIOUS
  <2>2. Cardinality(1 .. MaxDumps) = MaxDumps BY <1>1, FS_Interval
  <2>3. Cardinality(1 .. MaxDumps) <= Cardinality(Used) BY <1>11, <2>1, FS_Subset
  <2>4. Cardinality(Used) \in Nat BY <1>11, FS_CardinalityType
  <2> QED BY <1>1, <1>3, <1>11, <2>2, <2>3, <2>4
<1>13. PICK x \in 1 .. MaxDumps \ Used : \A y \in 1 .. MaxDumps \ Used : x <= y
  <2>1. 1 .. MaxDumps \ Used \subseteq Nat BY <1>1
  <2> QED BY <1>12, <2>1, Smallest
<1> QED BY <1>13 DEF NewDump

-----------------------------------------------------------------------------
(* The inductive invariant                                                  *)

OneRunning == \A i, k \in RunningIds : i = k

Owned == \A r \in Runs : Live(r) /\ doing[r].id \notin outlived => backup[doing[r].id].status = "running"

HoldAlone ==
    \A r, o \in Runs :
        Live(r) /\ Live(o) /\ doing[r].id = doing[o].id /\ doing[r].id \notin outlived => r = o

CarriedBy(r) ==
    /\ doing[r].step \in {"upload", "check", "manifest", "release"} => doing[r].dump # 0
    /\ doing[r].step \in {"manifest", "release"} => object[doing[r].id] = doing[r].dump
    /\ doing[r].step = "release" => manifest[doing[r].id] = doing[r].dump

Carried == \A r \in Runs : Live(r) /\ doing[r].id \notin outlived => CarriedBy(r)

Planned == \A i \in verified \cup doomed : i \in outlived \/ i \in VerifiedIds

Succeeded(i) == \E k \in VerifiedIds : k > i

Replaced ==
    outlived = {} => /\ \A i \in doomed : Succeeded(i)
                     /\ \A i \in VerifiedIds : object[i] = 0 => Succeeded(i)

BackupInv ==
    /\ BackupTypeOK /\ OneRunning /\ Owned /\ HoldAlone /\ Carried
    /\ VerifiedIsThere /\ Planned /\ Replaced

\* A step of run r, which touches its own row and key and goes on or ends.
LEMMA RunStep ==
    ASSUME BackupInv, NEW r \in Runs, Live(r), BackupTypeOK',
           \A o \in Runs \ {r} : doing'[o] = doing[o],
           \A i \in Days \ {doing[r].id} :
               backup'[i] = backup[i] /\ object'[i] = object[i] /\ manifest'[i] = manifest[i],
           UNCHANGED <<day, retention, outlived>>,
           Live(r)' => doing'[r].id = doing[r].id /\ backup' = backup,
           Live(r)' /\ doing[r].id \notin outlived => CarriedBy(r)',
           backup'[doing[r].id].status = "running" => backup[doing[r].id].status = "running",
           backup'[doing[r].id].status = "verified" /\ doing[r].id \notin outlived =>
               /\ manifest'[doing[r].id] = backup'[doing[r].id].dump /\ backup'[doing[r].id].dump # 0
               /\ object'[doing[r].id] = backup'[doing[r].id].dump
    PROVE  BackupInv'
<1> DEFINE id == doing[r].id
<1>1. BackupTypeOK /\ OneRunning /\ Owned /\ HoldAlone /\ Carried /\ VerifiedIsThere /\ Planned /\ Replaced
      BY DEF BackupInv
<1>2. id \in Days BY <1>1 DEF BackupTypeOK
<1>3. id \notin outlived => backup[id].status = "running" BY <1>1 DEF Owned
<1>4. \A o \in Runs \ {r} : Live(o) /\ doing[o].id \notin outlived => doing[o].id # id
      BY <1>1 DEF HoldAlone
<1>5. verified' = verified /\ doomed' = doomed /\ outlived' = outlived /\ day' = day
      BY DEF retention
<1>6. RunningIds' \subseteq RunningIds BY <1>2 DEF RunningIds
<1>7. id \notin outlived => VerifiedIds \subseteq VerifiedIds' BY <1>3 DEF VerifiedIds
<1>8. \A i \in Days \ {id} : i \in VerifiedIds' <=> i \in VerifiedIds BY DEF VerifiedIds
<1> HIDE DEF id
<1>9. OneRunning' BY <1>1, <1>6 DEF OneRunning
<1>10. Owned'
  <2>1. ASSUME NEW o \in Runs, Live(o)', doing'[o].id \notin outlived
        PROVE  backup'[doing'[o].id].status = "running"
    <3>1. CASE o = r BY <1>3, <2>1, <3>1 DEF id
    <3>2. CASE o # r
      <4>1. doing'[o] = doing[o] /\ Live(o) BY <2>1, <3>2 DEF Live
      <4>2. doing[o].id # id /\ doing[o].id \in Days BY <1>1, <1>4, <2>1, <3>2, <4>1 DEF BackupTypeOK
      <4> QED BY <1>1, <2>1, <4>1, <4>2 DEF Owned, id
    <3> QED BY <3>1, <3>2
  <2> QED BY <1>5, <2>1 DEF Owned
<1>11. HoldAlone'
  <2>1. \A o \in Runs : Live(o)' => Live(o) /\ doing'[o].id = doing[o].id
    <3>1. \A o \in Runs \ {r} : Live(o)' => Live(o) /\ doing'[o].id = doing[o].id BY DEF Live
    <3> QED BY <3>1
  <2> QED BY <1>1, <1>5, <2>1 DEF HoldAlone
<1>12. Carried'
  <2>1. ASSUME NEW o \in Runs, Live(o)', doing'[o].id \notin outlived PROVE CarriedBy(o)'
    <3>1. CASE o = r BY <2>1, <3>1
    <3>2. CASE o # r
      <4>1. doing'[o] = doing[o] /\ Live(o) BY <2>1, <3>2 DEF Live
      <4>2. doing[o].id # id /\ doing[o].id \in Days BY <1>1, <1>4, <2>1, <3>2, <4>1 DEF BackupTypeOK
      <4>3. object'[doing[o].id] = object[doing[o].id] /\ manifest'[doing[o].id] = manifest[doing[o].id]
            BY <4>2 DEF id
      <4>4. CarriedBy(o) BY <1>1, <2>1, <4>1 DEF Carried
      <4> QED BY <4>1, <4>3, <4>4 DEF CarriedBy
    <3> QED BY <3>1, <3>2
  <2> QED BY <1>5, <2>1 DEF Carried
<1>13. VerifiedIsThere'
  <2>1. ASSUME NEW i \in VerifiedIds', i \notin outlived
        PROVE  manifest'[i] = backup'[i].dump /\ backup'[i].dump # 0 /\ object'[i] \in {0, backup'[i].dump}
    <3>1. CASE i = id BY <2>1, <3>1 DEF VerifiedIds, id
    <3>2. CASE i # id
      <4>1. i \in Days \ {id} BY <3>2, <2>1 DEF VerifiedIds
      <4>2. i \in VerifiedIds BY <1>8, <2>1, <4>1
      <4> QED BY <1>1, <2>1, <4>1, <4>2 DEF VerifiedIsThere, id
    <3> QED BY <3>1, <3>2
  <2> QED BY <1>5, <2>1 DEF VerifiedIsThere
<1>14. Planned'
  <2>1. ASSUME NEW i \in verified \cup doomed PROVE i \in outlived \/ i \in VerifiedIds'
    <3>1. i \in outlived \/ i \in VerifiedIds BY <1>1 DEF Planned
    <3>2. i \in VerifiedIds => i \in Days BY DEF VerifiedIds
    <3> QED BY <1>7, <1>8, <3>1, <3>2
  <2> QED BY <1>5, <2>1 DEF Planned
<1>15. Replaced'
  <2>1. SUFFICES ASSUME outlived = {} PROVE /\ \A i \in doomed : Succeeded(i)'
                                            /\ \A i \in VerifiedIds' : object'[i] = 0 => Succeeded(i)'
        BY <1>5 DEF Replaced
  <2>2. VerifiedIds \subseteq VerifiedIds' BY <1>7, <2>1
  <2>3. \A i \in Days : Succeeded(i) => Succeeded(i)' BY <2>2 DEF Succeeded
  <2>4. \A i \in doomed : i \in Days /\ Succeeded(i) BY <1>1, <2>1 DEF Replaced, BackupTypeOK
  <2>5. ASSUME NEW i \in VerifiedIds', object'[i] = 0 PROVE Succeeded(i)'
    <3>1. i \in Days /\ backup'[i].status = "verified" BY <2>5 DEF VerifiedIds
    <3>2. i # id BY <2>1, <2>5, <3>1 DEF id
    <3>3. i \in VerifiedIds /\ object[i] = 0 BY <1>8, <2>5, <3>1, <3>2 DEF id
    <3>4. Succeeded(i) BY <1>1, <2>1, <3>3 DEF Replaced
    <3> QED BY <2>3, <3>1, <3>4
  <2> QED BY <2>3, <2>4, <2>5
<1> QED BY <1>9, <1>10, <1>11, <1>12, <1>13, <1>14, <1>15 DEF BackupInv

\* A new claim, and everything still alive has outlived its lock.
LEMMA BackupClaimStep ==
    ASSUME DayAssumption, BoundAssumption, BackupInv, NEW r \in Runs, ClaimBackup(r)
    PROVE  BackupInv'
<1>1. BackupTypeOK /\ OneRunning /\ Owned /\ HoldAlone /\ Carried /\ VerifiedIsThere /\ Planned /\ Replaced
      BY DEF BackupInv
<1>2. /\ ~ Live(r) /\ backup[day].status # "verified" /\ LockFree
      /\ backup' = Claimed
      /\ outlived' = outlived \cup {i \in RunningIds : ~backup[i].fresh /\ \E o \in Runs : Live(o) /\ doing[o].id = i}
      /\ doing' = [doing EXCEPT ![r] = [step |-> "duplicate", id |-> day, dump |-> 0]]
      /\ UNCHANGED <<day, object, manifest, verified, doomed, backupFaults>>
      BY DEF ClaimBackup, s3, retention
<1>3. day \in Days BY <1>1 DEF BackupTypeOK
<1>4. \A i \in Days :
        /\ backup'[i].dump = backup[i].dump
        /\ i = day => backup'[i].status = "running"
        /\ i # day /\ i \in RunningIds => backup'[i].status = "stale"
        /\ i # day /\ i \notin RunningIds => backup'[i] = backup[i]
  <2>1. ASSUME NEW i \in Days
        PROVE  /\ backup'[i].dump = backup[i].dump
               /\ i = day => backup'[i].status = "running"
               /\ i # day /\ i \in RunningIds => backup'[i].status = "stale"
               /\ i # day /\ i \notin RunningIds => backup'[i] = backup[i]
    BY <1>1, <1>2 DEF Claimed, BackupTypeOK
  <2> QED BY <2>1
<1>5. BackupTypeOK'
  <2>1. backup' \in [Days -> [status : {"none", "running", "stale", "failed", "verified"},
                           fresh : BOOLEAN, dump : 0 .. MaxDumps]]
        BY <1>1, <1>2 DEF Claimed, BackupTypeOK
  <2>2. doing' \in [Runs -> [step : Steps, id : Days, dump : 0 .. MaxDumps]]
        BY <1>1, <1>2, <1>3 DEF BackupTypeOK, Steps, BoundAssumption
  <2>3. outlived' \subseteq Days BY <1>1, <1>2 DEF BackupTypeOK, RunningIds
  <2> QED BY <1>1, <1>2, <2>1, <2>2, <2>3 DEF BackupTypeOK
<1>6. doing'[r].id = day /\ doing'[r].step = "duplicate" /\ \A o \in Runs \ {r} : doing'[o] = doing[o]
      BY <1>1, <1>2 DEF BackupTypeOK
<1>7. ASSUME NEW o \in Runs \ {r}, Live(o) PROVE doing[o].id \in outlived'
  <2>1. doing[o].id \in Days BY <1>1 DEF BackupTypeOK
  <2>2. CASE doing[o].id \in outlived BY <1>2, <2>2
  <2>3. CASE doing[o].id \notin outlived
    <3>1. doing[o].id \in RunningIds BY <1>1, <1>7, <2>1, <2>3 DEF Owned, RunningIds
    <3>2. ~ backup[doing[o].id].fresh BY <1>2, <3>1 DEF LockFree
    <3> QED BY <1>2, <1>7, <3>1, <3>2
  <2> QED BY <2>2, <2>3
<1>8. \A o \in Runs \ {r} : Live(o)' => doing'[o].id \in outlived' BY <1>6, <1>7 DEF Live
<1>9. RunningIds' = {day} /\ OneRunning' BY <1>3, <1>4 DEF RunningIds, OneRunning
<1>10. VerifiedIds' = VerifiedIds BY <1>2, <1>3, <1>4 DEF VerifiedIds, RunningIds
<1>11. outlived \subseteq outlived' BY <1>2
<1>12. Owned'
  <2>1. \A o \in Runs : Live(o)' /\ doing'[o].id \notin outlived' => o = r BY <1>8
  <2> QED BY <1>3, <1>4, <1>6, <2>1 DEF Owned
<1>13. HoldAlone' BY <1>8 DEF HoldAlone
<1>14. Carried'
  <2>1. \A o \in Runs : Live(o)' /\ doing'[o].id \notin outlived' => o = r BY <1>8
  <2>2. CarriedBy(r)' BY <1>6 DEF CarriedBy
  <2> QED BY <2>1, <2>2 DEF Carried
<1>15. VerifiedIsThere'
  <2>1. \A i \in VerifiedIds : i \in Days BY DEF VerifiedIds
  <2> QED BY <1>1, <1>2, <1>4, <1>10, <1>11, <2>1 DEF VerifiedIsThere
<1>16. Planned' BY <1>1, <1>2, <1>10, <1>11 DEF Planned
<1>17. Replaced' BY <1>1, <1>2, <1>10, <1>11 DEF Replaced, Succeeded
<1> QED BY <1>5, <1>9, <1>12, <1>13, <1>14, <1>15, <1>16, <1>17 DEF BackupInv

\* A run ends: its key written at most with what it carried, its row left,
\* marked failed, or marked verified with the dump that is in S3.
LEMMA EndStep ==
    ASSUME DayAssumption, BoundAssumption, BackupInv, NEW r \in Runs, Live(r), RunEnds(r),
           backupFaults' \in 0 .. MaxBackupFaults, UNCHANGED <<day, retention, outlived>>,
           NEW n \in 0 .. MaxDumps,
           \/ WroteAnyway(r) /\ UNCHANGED backup
           \/ WroteAnyway(r) /\ Release(r, MarkedFailed(r))
           \/ /\ UNCHANGED s3 /\ Release(r, Verified(r, n))
              /\ doing[r].id \notin outlived =>
                     n # 0 /\ object[doing[r].id] = n /\ manifest[doing[r].id] = n
    PROVE  BackupInv'
<1> DEFINE id == doing[r].id
<1>1. BackupTypeOK BY DEF BackupInv
<1>2. id \in Days /\ doing[r].dump \in 0 .. MaxDumps BY <1>1 DEF BackupTypeOK
<1>3. doing' = [doing EXCEPT ![r] = IdleRun] BY DEF RunEnds
<1>4. /\ ~ Live(r)' /\ \A o \in Runs \ {r} : doing'[o] = doing[o]
      /\ doing' \in [Runs -> [step : Steps, id : Days, dump : 0 .. MaxDumps]]
  <2>1. IdleRun \in [step : Steps, id : Days, dump : 0 .. MaxDumps]
        BY DEF IdleRun, Steps, Days, DayAssumption, BoundAssumption
  <2> QED BY <1>1, <1>3, <2>1 DEF BackupTypeOK, Live, IdleRun
<1>5. /\ object' \in [Days -> 0 .. MaxDumps] /\ manifest' \in [Days -> 0 .. MaxDumps]
      /\ \A i \in Days \ {id} : object'[i] = object[i] /\ manifest'[i] = manifest[i]
      BY <1>1, <1>2 DEF BackupTypeOK, WroteAnyway, s3
<1> DEFINE Row == [status : {"none", "running", "stale", "failed", "verified"},
                   fresh : BOOLEAN, dump : 0 .. MaxDumps]
           f == MarkedFailed(r)
           v == Verified(r, n)
<1>a. backup \in [Days -> Row] /\ backup[id] \in Row BY <1>1, <1>2 DEF BackupTypeOK
<1>b. /\ f \in Row /\ f.status = "failed"
      /\ v \in Row /\ v.status = "verified" /\ v.dump = n
      BY <1>a DEF MarkedFailed, Verified
<1>c. \/ backup' = backup
      \/ backup' = [backup EXCEPT ![id] = f]
      \/ backup' = [backup EXCEPT ![id] = v] /\ UNCHANGED s3
         /\ (id \notin outlived => n # 0 /\ object[id] = n /\ manifest[id] = n)
      BY DEF Release
<1> HIDE DEF Row, f, v
<1>6. /\ backup' \in [Days -> Row]
      /\ \A i \in Days \ {id} : backup'[i] = backup[i]
      BY <1>2, <1>a, <1>b, <1>c
<1>7. BackupTypeOK' BY <1>1, <1>4, <1>5, <1>6 DEF BackupTypeOK, Row, retention
<1>8. backup'[id].status = "running" => backup[id].status = "running"
      BY <1>2, <1>a, <1>b, <1>c
<1>9. backup'[id].status = "verified" /\ id \notin outlived =>
          manifest'[id] = backup'[id].dump /\ backup'[id].dump # 0 /\ object'[id] = backup'[id].dump
  <2>1. id \notin outlived => backup[id].status = "running" BY DEF BackupInv, Owned
  <2> QED BY <1>2, <1>a, <1>b, <1>c, <2>1 DEF s3
<1> HIDE DEF BackupTypeOK, Live
<1> QED BY <1>4, <1>5, <1>6, <1>7, <1>8, <1>9, RunStep

\* A run goes on to its next step.
LEMMA OnwardStep ==
    ASSUME BackupInv, NEW r \in Runs, Live(r), NEW step \in Steps \ {"idle"},
           NEW n \in 0 .. MaxDumps,
           doing' = [doing EXCEPT ![r] = [step |-> step, id |-> doing[r].id, dump |-> n]],
           UNCHANGED <<day, backup, retention, outlived, backupFaults>>,
           object' \in [Days -> 0 .. MaxDumps], manifest' \in [Days -> 0 .. MaxDumps],
           \A i \in Days \ {doing[r].id} : object'[i] = object[i] /\ manifest'[i] = manifest[i],
           doing[r].id \notin outlived => CarriedBy(r)'
    PROVE  BackupInv'
<1>1. BackupTypeOK BY DEF BackupInv
<1>2. /\ doing'[r].id = doing[r].id /\ \A o \in Runs \ {r} : doing'[o] = doing[o]
      /\ doing' \in [Runs -> [step : Steps, id : Days, dump : 0 .. MaxDumps]]
  <2> DEFINE x == [step |-> step, id |-> doing[r].id, dump |-> n]
  <2>1. x \in [step : Steps, id : Days, dump : 0 .. MaxDumps] /\ x.id = doing[r].id
        BY <1>1 DEF BackupTypeOK
  <2> HIDE DEF x
  <2> QED BY <1>1, <2>1 DEF BackupTypeOK
<1>3. BackupTypeOK' BY <1>1, <1>2 DEF BackupTypeOK, retention
<1>4. doing[r].id \notin outlived => backup'[doing[r].id].status # "verified"
  <2>1. doing[r].id \notin outlived => backup[doing[r].id].status = "running" BY DEF BackupInv, Owned
  <2> QED BY <2>1
<1> QED BY <1>2, <1>3, <1>4, RunStep

\* Going on rewrites a run's record.
LEMMA Rewritten ==
    ASSUME BackupTypeOK, NEW r \in Runs, NEW step, NEW n
    PROVE  /\ [doing EXCEPT ![r].step = step, ![r].dump = n]
              = [doing EXCEPT ![r] = [step |-> step, id |-> doing[r].id, dump |-> n]]
           /\ [doing EXCEPT ![r].step = step]
              = [doing EXCEPT ![r] = [step |-> step, id |-> doing[r].id, dump |-> doing[r].dump]]
<1> DEFINE R == [step : Steps, id : Days, dump : 0 .. MaxDumps]
<1>1. doing \in [Runs -> R] BY DEF BackupTypeOK
<1>2. \A z \in R : /\ [[z EXCEPT !.step = step] EXCEPT !.dump = n]
                        = [step |-> step, id |-> z.id, dump |-> n]
                   /\ [z EXCEPT !.step = step] = [step |-> step, id |-> z.id, dump |-> z.dump]
  <2>1. SUFFICES ASSUME NEW z \in R
                 PROVE  /\ [[z EXCEPT !.step = step] EXCEPT !.dump = n]
                           = [step |-> step, id |-> z.id, dump |-> n]
                        /\ [z EXCEPT !.step = step] = [step |-> step, id |-> z.id, dump |-> z.dump]
        OBVIOUS
  <2> DEFINE y == [z EXCEPT !.step = step]
  <2>2. y = [step |-> step, id |-> z.id, dump |-> z.dump] OBVIOUS
  <2> HIDE DEF y
  <2>3. [y EXCEPT !.dump = n] = [step |-> step, id |-> z.id, dump |-> n] BY <2>2
  <2> QED BY <2>2, <2>3 DEF y
<1> HIDE DEF R
<1>3. doing[r] \in R BY <1>1
<1> QED BY <1>1, <1>2, <1>3

LEMMA ProceedStep ==
    ASSUME DayAssumption, BoundAssumption, BackupInv, NEW r \in Runs, ProceedRun(r)
    PROVE  BackupInv'
<1>1. BackupTypeOK BY DEF BackupInv
<1>2. Live(r) BY DEF ProceedRun, FoundComplete, Dump, Upload, Check, PutManifest, Complete, FailRun, Live
<1>3. doing[r].id \in Days /\ doing[r].dump \in 0 .. MaxDumps BY <1>1 DEF BackupTypeOK
<1>4. doing[r].id \notin outlived => CarriedBy(r) BY <1>2 DEF BackupInv, Carried
<1>5. backupFaults' = backupFaults \/ BackupFault => backupFaults' \in 0 .. MaxBackupFaults
      BY <1>1 DEF BackupTypeOK, BackupFault, BoundAssumption
<1>6. CASE FoundComplete(r)
  <2>1. /\ CompleteInS3(doing[r].id) /\ RunEnds(r) /\ UNCHANGED <<day, s3, retention, outlived>>
        /\ backupFaults' \in 0 .. MaxBackupFaults
        /\ Release(r, Verified(r, manifest[doing[r].id])) \/ UNCHANGED backup
        BY <1>5, <1>6 DEF FoundComplete, ReleaseLost
  <2>2. manifest[doing[r].id] \in 0 .. MaxDumps BY <1>1, <1>3 DEF BackupTypeOK
  <2>3. manifest[doing[r].id] # 0 /\ object[doing[r].id] = manifest[doing[r].id] BY <2>1 DEF CompleteInS3
  <2>4. WroteAnyway(r) BY <2>1 DEF WroteAnyway
  <2> QED BY <1>2, <2>1, <2>2, <2>3, <2>4, EndStep
<1>7. CASE Complete(r)
  <2>1. /\ doing[r].step = "release" /\ RunEnds(r) /\ UNCHANGED <<day, s3, retention, outlived>>
        /\ backupFaults' \in 0 .. MaxBackupFaults
        /\ Release(r, Verified(r, doing[r].dump)) \/ UNCHANGED backup
        BY <1>5, <1>7 DEF Complete, ReleaseLost
  <2>2. doing[r].id \notin outlived =>
            doing[r].dump # 0 /\ object[doing[r].id] = doing[r].dump /\ manifest[doing[r].id] = doing[r].dump
        BY <1>4, <2>1 DEF CarriedBy
  <2>3. WroteAnyway(r) BY <2>1 DEF WroteAnyway
  <2> QED BY <1>2, <1>3, <2>1, <2>2, <2>3, EndStep
<1>8. CASE FailRun(r)
  <2>1. /\ RunEnds(r) /\ UNCHANGED <<day, retention, outlived>> /\ WroteAnyway(r)
        /\ backupFaults' \in 0 .. MaxBackupFaults
        /\ Release(r, MarkedFailed(r)) \/ UNCHANGED backup
        BY <1>5, <1>8 DEF FailRun
  <2> QED BY <1>2, <1>3, <2>1, EndStep
<1>9. CASE Dump(r)
  <2>1. NewDump \in 1 .. MaxDumps BY NewDumpIsNew
  <2>2. doing' = [doing EXCEPT ![r].step = "upload", ![r].dump = NewDump]
        /\ UNCHANGED <<day, backup, object, manifest, retention, outlived, backupFaults>>
        BY <1>9 DEF Dump, s3
  <2> DEFINE n == NewDump
  <2> HIDE DEF n
  <2>3. /\ n \in 1 .. MaxDumps
        /\ doing' = [doing EXCEPT ![r] = [step |-> "upload", id |-> doing[r].id, dump |-> n]]
    <3>1. n \in 1 .. MaxDumps /\ doing' = [doing EXCEPT ![r].step = "upload", ![r].dump = n]
      BY <2>1, <2>2 DEF n
    <3>2. [doing EXCEPT ![r].step = "upload", ![r].dump = n]
            = [doing EXCEPT ![r] = [step |-> "upload", id |-> doing[r].id, dump |-> n]]
      BY <1>1, Rewritten, Zenon
    <3> QED
      BY <3>1, <3>2, Zenon
  <2>4. n \in 0 .. MaxDumps /\ n # 0 BY <2>3
  <2>5. CarriedBy(r)' BY <1>1, <2>3, <2>4 DEF CarriedBy, BackupTypeOK
  <2>6. "upload" \in Steps \ {"idle"} BY DEF Steps
  <2>7. object' \in [Days -> 0 .. MaxDumps] /\ manifest' \in [Days -> 0 .. MaxDumps]
        BY <1>1, <2>2 DEF BackupTypeOK
  <2> QED BY <1>2, <2>2, <2>3, <2>4, <2>5, <2>6, <2>7, OnwardStep
<1>10. CASE Upload(r) \/ Check(r) \/ PutManifest(r)
  <2>1. /\ UNCHANGED <<day, backup, retention, outlived, backupFaults>>
        /\ \E step \in Steps \ {"idle"} : RunTo(r, step)
        BY <1>10 DEF Upload, Check, PutManifest, Steps, s3
  <2>4. PICK step \in Steps \ {"idle"} :
            doing' = [doing EXCEPT ![r] = [step |-> step, id |-> doing[r].id, dump |-> doing[r].dump]]
        BY <1>1, <2>1, Rewritten DEF RunTo
  <2>2. /\ object' \in [Days -> 0 .. MaxDumps] /\ manifest' \in [Days -> 0 .. MaxDumps]
        /\ \A i \in Days \ {doing[r].id} : object'[i] = object[i] /\ manifest'[i] = manifest[i]
        BY <1>1, <1>3, <1>10 DEF Upload, Check, PutManifest, BackupTypeOK, s3
  <2>3. doing[r].id \notin outlived => CarriedBy(r)'
    <3>1. CASE Upload(r) BY <1>1, <1>3, <1>4, <3>1 DEF Upload, RunTo, CarriedBy, BackupTypeOK
    <3>2. CASE Check(r) BY <1>1, <1>3, <1>4, <3>2 DEF Check, ReadBack, RunTo, CarriedBy, BackupTypeOK, s3
    <3>3. CASE PutManifest(r) BY <1>1, <1>3, <1>4, <3>3 DEF PutManifest, RunTo, CarriedBy, BackupTypeOK
    <3> QED BY <1>10, <3>1, <3>2, <3>3
  <2> QED BY <1>2, <1>3, <2>1, <2>2, <2>3, <2>4, OnwardStep
<1> QED BY <1>6, <1>7, <1>8, <1>9, <1>10 DEF ProceedRun

LEMMA CrashStep ==
    ASSUME DayAssumption, BoundAssumption, BackupInv, NEW r \in Runs, CrashRun(r)
    PROVE  BackupInv'
<1>1. backupFaults' \in 0 .. MaxBackupFaults BY DEF CrashRun, BackupFault, BackupInv, BackupTypeOK, BoundAssumption
<1>2. doing[r].dump \in 0 .. MaxDumps BY DEF BackupInv, BackupTypeOK
<1>3. Live(r) /\ RunEnds(r) /\ WroteAnyway(r) /\ UNCHANGED <<day, backup, retention, outlived>>
      BY DEF CrashRun
<1> QED BY <1>1, <1>2, <1>3, EndStep

\* Time passes: rows keep their status and their dump.
LEMMA TimeStep ==
    ASSUME BackupInv, BackupTypeOK', UNCHANGED <<s3, doing, retention, outlived>>,
           \A i \in Days : backup'[i].status = backup[i].status /\ backup'[i].dump = backup[i].dump
    PROVE  BackupInv'
<1>1. BackupTypeOK /\ OneRunning /\ Owned /\ HoldAlone /\ Carried /\ VerifiedIsThere /\ Planned /\ Replaced
      BY DEF BackupInv
<1>2. RunningIds' = RunningIds /\ VerifiedIds' = VerifiedIds BY DEF RunningIds, VerifiedIds
<1>3. /\ object' = object /\ manifest' = manifest /\ doing' = doing /\ outlived' = outlived
      /\ verified' = verified /\ doomed' = doomed
      BY DEF s3, retention
<1>4. \A r \in Runs : doing[r].id \in Days BY <1>1 DEF BackupTypeOK
<1>5. \A i \in VerifiedIds : i \in Days BY DEF VerifiedIds
<1>6. OneRunning' BY <1>1, <1>2 DEF OneRunning
<1>7. Owned' BY <1>1, <1>3, <1>4 DEF Owned, Live
<1>8. HoldAlone' BY <1>1, <1>3 DEF HoldAlone, Live
<1>9. Carried' BY <1>1, <1>3 DEF Carried, CarriedBy, Live
<1>10. VerifiedIsThere' BY <1>1, <1>2, <1>3, <1>5 DEF VerifiedIsThere
<1>11. Planned' BY <1>1, <1>2, <1>3 DEF Planned
<1>12. Replaced' BY <1>1, <1>2, <1>3 DEF Replaced, Succeeded
<1> QED BY <1>6, <1>7, <1>8, <1>9, <1>10, <1>11, <1>12 DEF BackupInv

\* Retention reads, plans and deletes.
LEMMA RetentionStep ==
    ASSUME DayAssumption, BoundAssumption, BackupInv, ReadVerified \/ Plan \/ \E i \in Days : Delete(i)
    PROVE  BackupInv'
<1>1. BackupTypeOK /\ OneRunning /\ Owned /\ HoldAlone /\ Carried /\ VerifiedIsThere /\ Planned /\ Replaced
      BY DEF BackupInv
<1>2. /\ UNCHANGED <<day, backup, manifest, doing, outlived, backupFaults>>
      /\ RunningIds' = RunningIds /\ VerifiedIds' = VerifiedIds
      BY DEF ReadVerified, Plan, Delete, RunningIds, VerifiedIds, s3
<1>3. OneRunning' /\ Owned' /\ HoldAlone' BY <1>1, <1>2 DEF OneRunning, Owned, HoldAlone, Live
<1>4. CASE ReadVerified
  <2>1. verified' = VerifiedIds /\ doomed = {} /\ doomed' = {} /\ object' = object
        BY <1>4 DEF ReadVerified, s3
  <2>2. BackupTypeOK' BY <1>1, <1>2, <2>1 DEF BackupTypeOK, VerifiedIds
  <2>3. Carried' BY <1>1, <1>2, <2>1 DEF Carried, CarriedBy, Live
  <2>4. VerifiedIsThere' BY <1>1, <1>2, <2>1 DEF VerifiedIsThere
  <2>5. Planned' BY <1>2, <2>1 DEF Planned
  <2>6. Replaced' BY <1>1, <1>2, <2>1 DEF Replaced, Succeeded
  <2> QED BY <1>3, <2>2, <2>3, <2>4, <2>5, <2>6 DEF BackupInv
<1>5. CASE Plan
  <2>1. /\ doomed' \subseteq verified \ Newest(verified) /\ verified' = {} /\ object' = object
        BY <1>5 DEF Plan, Protected, s3
  <2>2. BackupTypeOK' BY <1>1, <1>2, <2>1 DEF BackupTypeOK
  <2>3. Carried' BY <1>1, <1>2, <2>1 DEF Carried, CarriedBy, Live
  <2>4. VerifiedIsThere' BY <1>1, <1>2, <2>1 DEF VerifiedIsThere
  <2>5. Planned' BY <1>1, <1>2, <2>1 DEF Planned
  <2>6. ASSUME outlived = {}, NEW i \in doomed' PROVE Succeeded(i)
    <3>1. i \in verified /\ i \notin Newest(verified) BY <2>1, <2>6
    <3>2. PICK k \in verified : ~ (k <= i) BY <3>1 DEF Newest
    <3>3. k \in VerifiedIds BY <1>1, <2>6 DEF Planned
    <3>4. k > i BY <1>1, <3>1, <3>2 DEF BackupTypeOK, Days
    <3> QED BY <3>3, <3>4 DEF Succeeded
  <2>7. Replaced' BY <1>1, <1>2, <2>1, <2>6 DEF Replaced, Succeeded
  <2> QED BY <1>3, <2>2, <2>3, <2>4, <2>5, <2>7 DEF BackupInv
<1>6. CASE \E i \in Days : Delete(i)
  <2>1. PICK i \in Days : Delete(i) BY <1>6
  <2>2. /\ i \in doomed /\ object' = [object EXCEPT ![i] = 0]
        /\ doomed' = doomed \ {i} /\ verified' = verified
        BY <2>1 DEF Delete
  <2>3. object'[i] = 0 /\ \A k \in Days \ {i} : object'[k] = object[k] BY <1>1, <2>2 DEF BackupTypeOK
  <2>4. BackupTypeOK'
    <3>1. 0 \in 0 .. MaxDumps BY DEF BoundAssumption
    <3> QED BY <1>1, <1>2, <2>2, <3>1 DEF BackupTypeOK
  <2>5. ASSUME NEW r \in Runs, Live(r), doing[r].id \notin outlived PROVE doing[r].id \in Days \ {i}
    <3>1. doing[r].id \in Days /\ backup[doing[r].id].status = "running" BY <1>1, <2>5 DEF BackupTypeOK, Owned
    <3>2. i \in outlived \/ i \in VerifiedIds BY <1>1, <2>2 DEF Planned
    <3> QED BY <2>5, <3>1, <3>2 DEF VerifiedIds
  <2>6. Carried' BY <1>1, <1>2, <2>3, <2>5 DEF Carried, CarriedBy, Live
  <2>7. VerifiedIsThere'
    <3>1. \A k \in VerifiedIds : k \in Days BY DEF VerifiedIds
    <3> QED BY <1>1, <1>2, <2>3, <3>1 DEF VerifiedIsThere
  <2>8. Planned' BY <1>1, <1>2, <2>2 DEF Planned
  <2>9. ASSUME outlived = {} PROVE \A k \in VerifiedIds : object'[k] = 0 => Succeeded(k)
    <3>1. Succeeded(i) BY <1>1, <2>2, <2>9 DEF Replaced
    <3>2. \A k \in VerifiedIds : object[k] = 0 => Succeeded(k) BY <1>1, <2>9 DEF Replaced
    <3>3. \A k \in VerifiedIds : k \in Days BY DEF VerifiedIds
    <3> QED BY <2>3, <3>1, <3>2, <3>3
  <2>10. Replaced' BY <1>1, <1>2, <2>2, <2>9 DEF Replaced, Succeeded
  <2> QED BY <1>3, <2>4, <2>6, <2>7, <2>8, <2>10 DEF BackupInv
<1> QED BY <1>4, <1>5, <1>6

LEMMA InitInv ==
    ASSUME DayAssumption, BoundAssumption, BackupInit PROVE BackupInv
<1>1. /\ day = 1 /\ backup = [i \in Days |-> NoJob]
      /\ object = [i \in Days |-> 0] /\ manifest = [i \in Days |-> 0]
      /\ doing = [r \in Runs |-> IdleRun] /\ verified = {} /\ doomed = {} /\ outlived = {} /\ backupFaults = 0
      BY DEF BackupInit
<1>2. 1 \in Days /\ 0 \in 0 .. MaxDumps /\ 0 \in 0 .. MaxBackupFaults
      BY DEF DayAssumption, BoundAssumption, Days
<1>3. RunningIds = {} /\ VerifiedIds = {} BY <1>1 DEF RunningIds, VerifiedIds, NoJob
<1>4. \A r \in Runs : ~ Live(r) BY <1>1 DEF Live, IdleRun
<1>5. BackupTypeOK
  <2>1. NoJob \in [status : {"none", "running", "stale", "failed", "verified"},
                   fresh : BOOLEAN, dump : 0 .. MaxDumps] BY <1>2 DEF NoJob
  <2>2. IdleRun \in [step : Steps, id : Days, dump : 0 .. MaxDumps] BY <1>2 DEF IdleRun, Steps
  <2> QED BY <1>1, <1>2, <2>1, <2>2 DEF BackupTypeOK
<1>6. OneRunning BY <1>3 DEF OneRunning
<1>7. Owned /\ HoldAlone /\ Carried BY <1>4 DEF Owned, HoldAlone, Carried
<1>8. VerifiedIsThere /\ Planned /\ Replaced
      BY <1>1, <1>3 DEF VerifiedIsThere, Planned, Replaced
<1> QED BY <1>5, <1>6, <1>7, <1>8 DEF BackupInv

LEMMA NextKeeps ==
    ASSUME DayAssumption, BoundAssumption, BackupInv, [BackupNext]_backupVars
    PROVE  BackupInv'
<1>1. BackupTypeOK BY DEF BackupInv
<1>2. ASSUME NEW r \in Runs, ClaimBackup(r) PROVE BackupInv' BY <1>2, BackupClaimStep
<1>3. ASSUME NEW r \in Runs, ProceedRun(r) PROVE BackupInv' BY <1>3, ProceedStep
<1>4. ASSUME NEW r \in Runs, CrashRun(r) PROVE BackupInv' BY <1>4, CrashStep
<1>5. ASSUME NEW i \in Days, LockAges(i) PROVE BackupInv'
  <2>1. UNCHANGED <<s3, doing, retention, outlived>> BY <1>5 DEF LockAges
  <2>2. \A k \in Days : backup'[k].status = backup[k].status /\ backup'[k].dump = backup[k].dump
        BY <1>1, <1>5 DEF LockAges, BackupTypeOK
  <2>3. BackupTypeOK' BY <1>1, <1>5 DEF LockAges, BackupTypeOK, s3, retention
  <2> QED BY <2>1, <2>2, <2>3, TimeStep
<1>6. ASSUME NextDay PROVE BackupInv'
  <2>1. UNCHANGED <<s3, doing, retention, outlived>> BY <1>6 DEF NextDay
  <2>2. \A k \in Days : backup'[k].status = backup[k].status /\ backup'[k].dump = backup[k].dump
        BY <1>1, <1>6 DEF NextDay, BackupTypeOK
  <2>3. BackupTypeOK'
    <3>1. day' \in Days BY <1>1, <1>6 DEF NextDay, BackupTypeOK, Days, DayAssumption
    <3> QED BY <1>1, <1>6, <3>1 DEF NextDay, BackupTypeOK, s3, retention
  <2> QED BY <2>1, <2>2, <2>3, TimeStep
<1>7. CASE ReadVerified \/ Plan \/ \E i \in Days : Delete(i) BY <1>7, RetentionStep
<1>8. CASE UNCHANGED backupVars
  <2>1. UNCHANGED <<s3, doing, retention, outlived>> /\ backup' = backup
        BY <1>8 DEF backupVars, s3, retention
  <2>2. BackupTypeOK' BY <1>1, <1>8 DEF backupVars, BackupTypeOK
  <2> QED BY <2>1, <2>2, TimeStep
<1> QED BY <1>2, <1>3, <1>4, <1>5, <1>6, <1>7, <1>8 DEF BackupNext

LEMMA Invariance ==
    ASSUME DayAssumption, BoundAssumption PROVE BackupSpec => []BackupInv
<1>1. BackupInit => BackupInv BY InitInv
<1>2. BackupInv /\ [BackupNext]_backupVars => BackupInv' BY NextKeeps
<1> QED BY <1>1, <1>2, PTL DEF BackupSpec

\* What all the members of a set equal is its only member.
LEMMA AtMostOne ==
    ASSUME NEW S, \A x, y \in S : x = y PROVE Cardinality(S) <= 1
<1>1. CASE S = {} BY <1>1, FS_EmptySet
<1>2. CASE S # {}
  <2>1. PICK x \in S : TRUE BY <1>2
  <2>2. S = {x} BY <2>1
  <2> QED BY <2>2, FS_Singleton
<1> QED BY <1>1, <1>2

-----------------------------------------------------------------------------
\* Rows, keys, runs and retention's lists keep their types, and there is
\* always a dump that can be told from every other.
THEOREM TypeCorrect ==
    ASSUME DayAssumption, BoundAssumption PROVE BackupSpec => []BackupTypeOK
<1>1. BackupInv => BackupTypeOK BY DEF BackupInv
<1> QED BY <1>1, Invariance, PTL

\* claim_backup_job lets one run of a type in at a time, as long as none
\* has outlived its lock.
THEOREM LockExcludes ==
    ASSUME DayAssumption, BoundAssumption PROVE BackupSpec => []OneHolder
<1>1. ASSUME BackupInv PROVE OneHolder
  <2>1. BackupTypeOK /\ OneRunning /\ Owned /\ HoldAlone BY <1>1 DEF BackupInv
  <2>2. Cardinality(RunningIds) <= 1 BY <2>1, AtMostOne DEF OneRunning
  <2>3. ASSUME outlived = {} PROVE \A r, o \in {q \in Runs : Live(q)} : r = o
    <3>1. SUFFICES ASSUME NEW r \in Runs, NEW o \in Runs, Live(r), Live(o) PROVE r = o OBVIOUS
    <3>2. doing[r].id \in RunningIds /\ doing[o].id \in RunningIds
          BY <2>1, <2>3, <3>1 DEF BackupTypeOK, Owned, RunningIds
    <3>3. doing[r].id = doing[o].id BY <2>1, <3>2 DEF OneRunning
    <3> QED BY <2>1, <2>3, <3>1, <3>3 DEF HoldAlone
  <2>4. outlived = {} => Cardinality({r \in Runs : Live(r)}) <= 1 BY <2>3, AtMostOne
  <2> QED BY <2>2, <2>4 DEF OneHolder
<1> QED BY <1>1, Invariance, PTL

\* A row runBackup marked verified describes what is in S3, whatever failed
\* and whatever crashed before, unless a run of that id outlived its lock.
THEOREM VerifiedStands ==
    ASSUME DayAssumption, BoundAssumption PROVE BackupSpec => []VerifiedIsThere
<1>1. BackupInv => VerifiedIsThere BY DEF BackupInv
<1> QED BY <1>1, Invariance, PTL

\* applyRetention never deletes the newest verified backup, although it was
\* planned from rows read before other runs ended.
THEOREM RetentionKeepsNewest ==
    ASSUME DayAssumption, BoundAssumption PROVE BackupSpec => []NewestIsKept
<1>1. ASSUME BackupInv PROVE NewestIsKept
  <2>1. SUFFICES ASSUME outlived = {}, NEW i \in Newest(VerifiedIds)
                 PROVE  object[i] = backup[i].dump
        BY DEF NewestIsKept
  <2>2. i \in VerifiedIds /\ i \in Days /\ \A k \in VerifiedIds : k <= i
        BY DEF Newest, VerifiedIds
  <2>3. object[i] \in {0, backup[i].dump} BY <1>1, <2>1, <2>2 DEF BackupInv, VerifiedIsThere
  <2>4. ~ Succeeded(i)
    <3>1. \A k \in VerifiedIds : ~ (k > i) BY <2>2 DEF VerifiedIds, Days
    <3> QED BY <3>1 DEF Succeeded
  <2>5. object[i] # 0 BY <1>1, <2>1, <2>2, <2>4 DEF BackupInv, Replaced
  <2> QED BY <2>3, <2>5
<1> QED BY <1>1, Invariance, PTL
============================================================================
