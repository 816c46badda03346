----------------------------- MODULE DayClosing -----------------------------
(* The end-of-day closing of one business date and the summaries it sends  *)
(* (services/daily-closing.service.ts, services/closing-notifications.     *)
(* service.ts, scheduler/daily-closing.job.ts).                            *)
(*                                                                         *)
(* The 02:00 job of every API instance and a Super Admin's "close now" run *)
(* runDailyClosing: claim the date's row, build the archive, record        *)
(* success or failure by the date alone. A claim older than ten minutes is *)
(* taken for crashed. The job then runs dispatchClosingSummaries, which an *)
(* admin can also ask for: persist one report per scope, send each         *)
(* recipient those it is entitled to, log every attempt. The rows of       *)
(* different dates never meet, so one date is modelled; both settings that *)
(* switch the job off are on. What the archive and the reports contain is  *)
(* left out: an archive is the run that built it, a report is its row id.  *)
EXTENDS Naturals, FiniteSets

CONSTANTS
    Callers,        \* fires of the job and requests, on any instance
    Scopes,         \* the reports of a day: one per branch, production, company
    Branches,       \* the scopes whose branch can be deactivated
    Recipients,     \* a recipient on one channel ("both" is two of them)
    Entitled,       \* the scopes a recipient is sent
    NoRun,
    MaxCalls,       \* bound: calls started
    MaxFaults,      \* bound: crashes, failed writes and lost answers
    MaxTurns        \* bound: branches deactivated or activated

ASSUME ScopesAssumption == Branches \subseteq Scopes /\ IsFiniteSet(Scopes)
ASSUME EntitledAssumption == Entitled \in [Recipients -> SUBSET Scopes]
ASSUME RunAssumption == NoRun \notin Callers
ASSUME BoundsAssumption == MaxCalls \in Nat /\ MaxFaults \in Nat /\ MaxTurns \in Nat

VARIABLES
    row,        \* the date's business_day_closures row
    at,         \* what each caller is doing
    active,     \* scopes generateClosingReports builds today
    report,     \* daily_closing_reports: the id of a scope's row, 0 without one
    nextId,
    logged,     \* notification_logs with status sent, as <<recipient, report id>>
    told,       \* the Admin has a ticket about the summaries
    sends,      \* ghost: messages the provider accepted, per delivery
    mishaps,    \* ghost: which of Mishaps have happened
    calls, faults, turns

vars == <<row, at, active, report, nextId, logged, told, sends, mishaps,
          calls, faults, turns>>

summaries == <<active, report, nextId, logged, told, sends, turns>>

Deliveries == {d \in Recipients \X Scopes : d[2] \in Entitled[d[1]]}

(* What the properties excuse: a run outlived its claim and was taken for  *)
(* crashed; two first claims met; two dispatches ran at once; one was told *)
(* to resend; a report row was deleted; an accepted message is not in the  *)
(* logs, or they could not be read; a dispatch ended before it could tell  *)
(* the Admin.                                                              *)
Mishaps == {"outlived", "met", "crossed", "resent", "dropped", "unlogged", "silenced"}

Noting(m, holds) == mishaps' = IF holds THEN mishaps \cup {m} ELSE mishaps

(* A step of a caller, and what it has read: the scopes and the ids of the *)
(* reports, the deliveries left, those refused, and the one just made.     *)
Idle == [step |-> "idle", job |-> FALSE, resend |-> FALSE,
         ids |-> [s \in Scopes |-> 0], want |-> {}, todo |-> {}, refused |-> {}, now |-> {}]

Closing == {"insert", "archive", "failing"}
Dispatching == {"reports", "persist", "recipients", "send", "log"}

Running(c) == at[c].step \in {"archive", "failing"}
Dispatches(c) == at[c].step \in Dispatching

Init ==
    /\ row = [status |-> "none", fresh |-> FALSE, run |-> NoRun, archive |-> NoRun]
    /\ at = [c \in Callers |-> Idle]
    /\ active = Scopes
    /\ report = [s \in Scopes |-> 0]
    /\ nextId = 1
    /\ logged = {}
    /\ told = FALSE
    /\ sends = [d \in Deliveries |-> 0]
    /\ mishaps = {}
    /\ calls = 0 /\ faults = 0 /\ turns = 0

To(c, step) == at' = [at EXCEPT ![c].step = step]
Ends(c) == at' = [at EXCEPT ![c] = Idle]
Fault == faults < MaxFaults /\ faults' = faults + 1

-----------------------------------------------------------------------------
(* runDailyClosing *)

(* claim_business_day_closure's row: the same one update for a new claim,  *)
(* a failed day and a claim taken for crashed.                             *)
ClaimedUnsigned(c) == [row EXCEPT !.status = "running", !.fresh = TRUE, !.archive = NoRun,
                                  !.run = IF @ = NoRun THEN c ELSE @]
ClaimedBy(c) == [status |-> "running", fresh |-> TRUE, run |-> c, archive |-> NoRun]

(* What the function lets through once it holds the date's row.            *)
Claimable == row.status = "failed" \/ (row.status = "running" /\ ~row.fresh)

Start(c) == at[c].step = "idle" /\ calls < MaxCalls /\ calls' = calls + 1

(* The claim finds the row, holds it, and updates it in one transaction.   *)
Claim(c, job) ==
    /\ Start(c)
    /\ Claimable
    /\ row' = ClaimedBy(c)
    /\ at' = [at EXCEPT ![c] = [Idle EXCEPT !.step = "archive", !.job = job]]
    /\ Noting("outlived", row.status = "running" /\ ~row.fresh /\ \E o \in Callers : Running(o))
    /\ UNCHANGED <<summaries, faults>>

(* The claim finds no row: nothing is locked, and the insert comes later.  *)
LookInVain(c, job) ==
    /\ Start(c)
    /\ row.status = "none"
    /\ at' = [at EXCEPT ![c] = [Idle EXCEPT !.step = "insert", !.job = job]]
    /\ UNCHANGED <<row, summaries, mishaps, faults>>

(* insert ... on conflict do update, whatever the row has become.          *)
InsertClaim(c) ==
    /\ at[c].step = "insert"
    /\ row' = ClaimedBy(c)
    /\ Noting("met", row.status # "none")
    /\ To(c, "archive")
    /\ UNCHANGED <<summaries, calls, faults>>

(* The archive is built and recorded by the date alone; the job goes on to *)
(* the summaries.                                                          *)
Recorded(c) == [row EXCEPT !.status = "success", !.archive = c]

Succeed(c) ==
    /\ at[c].step = "archive"
    /\ row' = Recorded(c)
    /\ IF at[c].job THEN To(c, "reports") ELSE Ends(c)
    /\ Noting("crossed", at[c].job /\ \E o \in Callers : Dispatches(o))
    /\ UNCHANGED <<summaries, calls, faults>>

(* The update is stored and its answer is lost: the catch block follows.   *)
AnswerLost(c) ==
    /\ at[c].step = "archive"
    /\ Fault
    /\ row' = Recorded(c)
    /\ To(c, "failing")
    /\ UNCHANGED <<summaries, mishaps, calls>>

(* The archive could not be built in three tries, or not recorded; the     *)
(* failure is written by the date alone, if it can be.                     *)
Fail(c) ==
    /\ \/ at[c].step = "archive" /\ Fault
       \/ at[c].step = "failing" /\ UNCHANGED faults
    /\ \/ row' = [row EXCEPT !.status = "failed"]
       \/ UNCHANGED row
    /\ Ends(c)
    /\ UNCHANGED <<summaries, mishaps, calls>>

(* Ten minutes pass since started_at.                                      *)
ClaimAges ==
    /\ row.status = "running" /\ row.fresh
    /\ row' = [row EXCEPT !.fresh = FALSE]
    /\ UNCHANGED <<at, summaries, mishaps, calls, faults>>

-----------------------------------------------------------------------------
(* dispatchClosingSummaries *)

DispatchByHand(c, resend) ==
    /\ Start(c)
    /\ at' = [at EXCEPT ![c] = [Idle EXCEPT !.step = "reports", !.resend = resend]]
    /\ mishaps' = mishaps \cup (IF resend THEN {"resent"} ELSE {})
                         \cup (IF \E o \in Callers : Dispatches(o) THEN {"crossed"} ELSE {})
    /\ UNCHANGED <<row, summaries, faults>>

(* The reports are computed and the stored rows of the date are read.      *)
ReadReports(c) ==
    /\ at[c].step = "reports"
    /\ at' = [at EXCEPT ![c].step = "persist", ![c].ids = report, ![c].want = active]
    /\ UNCHANGED <<row, summaries, mishaps, calls, faults>>

(* The reports to insert, and the stored ones no longer built.             *)
Missing(c) == {s \in at[c].want : at[c].ids[s] = 0}
Stale(c) == {s \in Scopes \ at[c].want : at[c].ids[s] # 0}

(* Ids for the scopes inserted: any numbering is as good as another.       *)
Numbered(S) == CHOOSE f \in [S -> nextId .. nextId + Cardinality(S) - 1] :
                   \A s, t \in S : f[s] = f[t] => s = t

(* A report's row is gone, and with it its logs' report_id.                *)
Deleted(S, c) == {s \in S : report[s] = at[c].ids[s]}
Unlinked(S) == {l \in logged : l[2] \notin {report[s] : s \in S}}

(* The ids a dispatch goes on with: a row that is there is updated in      *)
(* place, the others are inserted.                                         *)
KeptIds(c) == LET new == Numbered(Missing(c))
              IN  [s \in Scopes |-> IF s \in Missing(c) THEN new[s]
                                    ELSE IF s \in at[c].want THEN at[c].ids[s] ELSE 0]

(* Every report is stored, and those of scopes no longer built deleted.    *)
Persist(c) ==
    /\ at[c].step = "persist"
    /\ \A s \in Missing(c) : report[s] = 0
    /\ LET gone == Deleted(Stale(c), c)
       IN  /\ report' = [s \in Scopes |-> IF s \in Missing(c) THEN KeptIds(c)[s]
                                          ELSE IF s \in gone THEN 0 ELSE report[s]]
           /\ logged' = Unlinked(gone)
           /\ Noting("dropped", gone # {})
    /\ nextId' = nextId + Cardinality(Missing(c))
    /\ at' = [at EXCEPT ![c].step = "recipients", ![c].ids = KeptIds(c)]
    /\ UNCHANGED <<row, active, told, sends, turns, calls, faults>>

(* A ticket is opened and the Admin notified; an error is only logged.     *)
Escalate ==
    \/ told' = TRUE /\ UNCHANGED mishaps
    \/ UNCHANGED told /\ Noting("silenced", TRUE)

(* The unique key meets a row another dispatch inserted since, or a query  *)
(* fails: the inserts made before it stay, and the Admin is told.          *)
PersistFails(c) ==
    /\ at[c].step = "persist"
    /\ \/ (\E s \in Missing(c) : report[s] # 0) /\ UNCHANGED faults
       \/ (\A s \in Missing(c) : report[s] = 0) /\ Fault
    /\ \E S \in SUBSET {s \in Missing(c) : report[s] = 0} :
          /\ report' = [s \in Scopes |-> IF s \in S THEN Numbered(S)[s] ELSE report[s]]
          /\ nextId' = nextId + Cardinality(S)
    /\ Escalate
    /\ Ends(c)
    /\ UNCHANGED <<row, active, logged, sends, turns, calls>>

(* The recipients and what the logs say they were sent. A failed read of   *)
(* the logs goes unnoticed and counts as nothing sent.                     *)
Due(c) == {d \in Deliveries : d[2] \in at[c].want}
AlreadySentToAll(c) ==
    IF \A d \in Due(c) : <<d[1], at[c].ids[d[2]]>> \in logged THEN Due(c) ELSE {}
AlreadySent(c) == {d \in Deliveries : <<d[1], at[c].ids[d[2]]>> \in logged}

ReadRecipients(c) ==
    /\ at[c].step = "recipients"
    /\ \E sent \in {AlreadySent(c), {}} :
          /\ at' = [at EXCEPT ![c].step = "send",
                              ![c].todo = IF at[c].resend THEN Due(c) ELSE Due(c) \ sent]
          /\ IF sent = AlreadySent(c) THEN UNCHANGED <<faults, mishaps>>
             ELSE Fault /\ Noting("unlogged", TRUE)
    /\ UNCHANGED <<row, summaries, calls>>

(* The read of the recipients fails: thrown past the escalation.           *)
RecipientsUnread(c) ==
    /\ at[c].step = "recipients"
    /\ Fault
    /\ Ends(c)
    /\ Noting("silenced", TRUE)
    /\ UNCHANGED <<row, summaries, calls>>

(* sendWithRetry: accepted, or refused to the last try; a try the provider *)
(* accepted may be answered as a failure, and is then made again.          *)
Send(c, d) ==
    /\ at[c].step = "send"
    /\ d \in at[c].todo
    /\ \E ok \in BOOLEAN, lost \in 0 .. 1 :
          /\ IF lost = 1 THEN Fault ELSE UNCHANGED faults
          /\ Noting("unlogged", lost = 1)
          /\ sends' = [sends EXCEPT ![d] = @ + lost + (IF ok THEN 1 ELSE 0)]
          /\ at' = [at EXCEPT ![c].step = "log", ![c].now = {d},
                              ![c].todo = @ \ {d},
                              ![c].refused = IF ok THEN @ ELSE @ \cup {d}]
    /\ UNCHANGED <<row, active, report, nextId, logged, told, turns, calls>>

(* The attempt is logged under the id the dispatch holds; an insert whose  *)
(* report row is gone, or that fails, goes unnoticed.                      *)
Delivered(c) == at[c].now \ at[c].refused

Log(c) ==
    /\ at[c].step = "log"
    /\ \E kept \in {{<<d[1], report[d[2]]>> : d \in {e \in Delivered(c) : report[e[2]] = at[c].ids[e[2]]}}, {}} :
          /\ logged' = logged \cup kept
          /\ IF \E d \in Delivered(c) : report[d[2]] = at[c].ids[d[2]] /\ kept = {}
             THEN Fault ELSE UNCHANGED faults
          /\ Noting("unlogged", Delivered(c) # {} /\ kept = {})
    /\ at' = [at EXCEPT ![c].step = "send", ![c].now = {}]
    /\ UNCHANGED <<row, active, report, nextId, told, sends, turns, calls>>

(* Whatever was refused is escalated.                                      *)
EscalatesAll(c) == at[c].refused = Due(c) /\ Due(c) # {}
Escalates(c) == at[c].refused # {}

Finish(c) ==
    /\ at[c].step = "send"
    /\ at[c].todo = {}
    /\ IF Escalates(c) THEN Escalate ELSE UNCHANGED <<told, mishaps>>
    /\ Ends(c)
    /\ UNCHANGED <<row, active, report, nextId, logged, sends, turns, calls, faults>>

(* The process dies where it is.                                           *)
Crash(c) ==
    /\ at[c].step # "idle"
    /\ Fault
    /\ Ends(c)
    /\ mishaps' = mishaps \cup (IF Dispatches(c) THEN {"silenced"} ELSE {})
                         \cup (IF Delivered(c) # {} THEN {"unlogged"} ELSE {})
    /\ UNCHANGED <<row, summaries, calls>>

(* A branch is deactivated, or activated again.                            *)
TurnBranch(b) ==
    /\ turns < MaxTurns
    /\ turns' = turns + 1
    /\ active' = IF b \in active THEN active \ {b} ELSE active \cup {b}
    /\ UNCHANGED <<row, at, report, nextId, logged, told, sends, mishaps, calls, faults>>

-----------------------------------------------------------------------------
Begin(c) ==
    \/ \E job \in BOOLEAN : Claim(c, job) \/ LookInVain(c, job)
    \/ \E resend \in BOOLEAN : DispatchByHand(c, resend)

Proceed(c) ==
    \/ InsertClaim(c) \/ Succeed(c) \/ AnswerLost(c) \/ Fail(c)
    \/ ReadReports(c) \/ Persist(c) \/ PersistFails(c)
    \/ ReadRecipients(c) \/ RecipientsUnread(c)
    \/ \E d \in Deliveries : Send(c, d)
    \/ Log(c) \/ Finish(c)

Next ==
    \/ \E c \in Callers : Begin(c) \/ Proceed(c) \/ Crash(c)
    \/ ClaimAges
    \/ \E b \in Branches : TurnBranch(b)

Spec == Init /\ [][Next]_vars

(* A call that runs goes on: every await of it returns or throws.          *)
FairSpec == Spec /\ \A c \in Callers : WF_vars(Proceed(c))

-----------------------------------------------------------------------------
TypeOK ==
    /\ row \in [status : {"none", "running", "success", "failed"}, fresh : BOOLEAN,
                run : Callers \cup {NoRun}, archive : Callers \cup {NoRun}]
    /\ at \in [Callers -> [step : {"idle"} \cup Closing \cup Dispatching, job : BOOLEAN,
                           resend : BOOLEAN, ids : [Scopes -> Nat], want : SUBSET Scopes,
                           todo : SUBSET Deliveries, refused : SUBSET Deliveries,
                           now : SUBSET Deliveries]]
    /\ active \in SUBSET Scopes /\ Scopes \ Branches \subseteq active
    /\ report \in [Scopes -> Nat] /\ nextId \in Nat \ {0}
    /\ logged \subseteq Recipients \X {report[s] : s \in Scopes}
    /\ told \in BOOLEAN
    /\ sends \in [Deliveries -> Nat]
    /\ mishaps \subseteq Mishaps
    /\ calls \in 0 .. MaxCalls /\ faults \in 0 .. MaxFaults /\ turns \in 0 .. MaxTurns

(* One run at a time closes the date (daily-closing.service.ts:84), and    *)
(* the archive of a closed date was built by the run its claim names       *)
(* (closed_by, trigger, started_at), unless a live run outlived the ten    *)
(* minutes or two first claims met on the missing row: what                *)
(* daily-closing.service.ts:107 writes by date alone is its own row.       *)
ArchiveIsTheClaimants ==
    mishaps \cap {"outlived", "met"} = {} =>
        /\ Cardinality({c \in Callers : Running(c)}) <= 1
        /\ row.status = "success" => row.archive = row.run

(* Nobody is sent the same summary twice, however often the dispatch is    *)
(* run again after refusals, as long as dispatches do not overlap, nobody  *)
(* asks for a resend, no report row is deleted and every accepted message  *)
(* is in the logs (closing-notifications.service.ts:148).                  *)
NoSpam ==
    mishaps \cap {"crossed", "resent", "dropped", "unlogged"} = {}
        => \A d \in Deliveries : sends[d] <= 1

(* Everyone a dispatch means to reach is sent the summary, or the Admin    *)
(* hears of it, unless the dispatch dies, cannot read its recipients or    *)
(* cannot open the ticket (closing-notifications.service.ts:55).           *)
EveryoneReached ==
    \A d \in Deliveries :
        (\E c \in Callers : at[c].step = "persist" /\ d[2] \in at[c].want)
            ~> (sends[d] > 0 \/ told \/ "silenced" \in mishaps)
-----------------------------------------------------------------------------
(* Why they hold. *)

(* The claim of the date's row is the lock: whoever builds the archive has *)
(* its name in a running row, whoever lost the answer in a closed one.     *)
ClaimInv ==
    mishaps \cap {"outlived", "met"} = {} =>
        /\ \A c \in Callers : at[c].step = "archive" => row.status = "running" /\ row.run = c
        /\ \A c \in Callers : at[c].step = "failing" => row.status = "success" /\ row.run = c
        /\ row.status = "success" => row.archive = row.run

(* What a dispatch holds: its deliveries are of the reports it wants, each *)
(* still to do or done, and the ids it goes on with are of stored rows.    *)
Sending == {"send", "log"}
DispatchInv ==
    /\ \A c \in Callers :
         /\ at[c].todo \cup at[c].now \cup at[c].refused \subseteq Due(c)
         /\ at[c].todo \cap at[c].refused = {}
         /\ at[c].step \notin Sending => at[c].todo = {} /\ at[c].refused = {}
         /\ at[c].step # "log" => at[c].now = {}
         /\ at[c].step \in {"recipients"} \cup Sending => \A s \in at[c].want : at[c].ids[s] # 0
    /\ \A l \in logged : l[2] # 0

(* A dispatch alone: its ids are those of the stored rows, and what was    *)
(* accepted is in the logs under them, or about to be.                     *)
Alone == mishaps \cap {"crossed", "resent", "dropped", "unlogged"} = {}
LogInv ==
    Alone =>
        /\ \A c, o \in Callers : Dispatches(c) /\ Dispatches(o) => c = o
        /\ \A c \in Callers :
             /\ ~at[c].resend
             /\ at[c].step = "persist" => at[c].ids = report
             /\ at[c].step \in {"recipients"} \cup Sending
                  => \A s \in at[c].want : at[c].ids[s] = report[s]
             /\ \A d \in at[c].todo : sends[d] = 0
        /\ \A d \in Deliveries :
             /\ sends[d] <= 1
             /\ sends[d] # 0 => /\ report[d[2]] # 0
                               /\ \/ <<d[1], report[d[2]]>> \in logged
                                  \/ \E c \in Callers : d \in Delivered(c)
=============================================================================
