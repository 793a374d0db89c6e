-------------------------- MODULE GithubIngestion --------------------------
(***************************************************************************)
(* GitHub evidence on its way into the ledger.  The repository moves (its  *)
(* actions are what GitHub lets users and CI do); webhook deliveries are   *)
(* lost, late, repeated and reordered; sweeps are run now and then.  What  *)
(* either yields passes the upstream idempotency filter on event ids that  *)
(* webhook/normalize.js asks for, and is appended to the ledger.           *)
(*                                                                         *)
(* A sweep reads the repository at one instant.  A delivery is correlated  *)
(* with the index of the last sweep.                                       *)
(***************************************************************************)
EXTENDS GithubMapping

CONSTANTS
  Usage,       \* run attempts the operator supplied a usage record for
  Scenarios    \* what may happen to the repository, each with its bound

(* A run attempt is known by its run and its number, a job belongs to one  *)
(* attempt, a check has its own id; the vocabulary has the refs and the    *)
(* labels of what is mapped.  A scenario says what users do to pull        *)
(* requests, or the operator to the usage records; which committer dates   *)
(* occur, 0 for an absent one; and how many steps the repository takes.    *)
ASSUME IngestionAssumption ==
  /\ IsFiniteSet(Runs) /\ IsFiniteSet(Checks)
  /\ \A q, r \in Runs : (q.id = r.id /\ q.attempt = r.attempt) \/ q.job = r.job => q = r
  /\ \A c, d \in Checks : c.id = d.id => c = d
  /\ \A n \in Tasks : PrRef(n) \in Refs
  /\ \A r \in Runs : CiRef(r) \in Refs /\ ComputeRef(r) \in Refs
  /\ \A c \in Checks : ValidationRef(c) \in Refs
  /\ Revisions \subseteq Labels
  /\ Usage \subseteq Runs
  /\ Scenarios \subseteq
       [moves : SUBSET {"push", "force_push", "reset", "absorb", "close", "merge",
                        "reopen", "export"},
        dates : SUBSET Nat, steps : Nat]
  /\ \A s \in Scenarios : IsFiniteSet(s.dates)

VARIABLES
  scenario, \* the scenario that takes place
  now,      \* steps the repository has taken; the time of the last one
  date,     \* the committer date of each revision
  pulls,    \* the pull requests; created = 0 for one not opened yet
  ci,       \* the state of each run attempt
  checks,   \* the state of each check run
  usage,    \* usage records supplied so far
  listed,   \* history: the revisions each pull request ever listed
  net,      \* deliveries sent; one may be lost, or arrive again, at any time
  index,    \* the PR index of the last sweep
  log,      \* the ledger: event ids and events, oldest first
  swept     \* history: the repository has not moved since the last sweep

repository == <<scenario, now, date, pulls, listed, ci, checks, usage, net>>
vars == <<repository, index, log, swept>>

Opened == {n \in Tasks : pulls[n].created # 0}
Open(n) == n \in Opened /\ pulls[n].closed = 0
Shas(n) == {pulls[n].commits[i].sha : i \in DOMAIN pulls[n].commits}

Init ==
  /\ scenario \in Scenarios
  /\ now = 0
  /\ date \in [Revisions -> scenario.dates]
  /\ pulls = [n \in Tasks |->
       [number |-> n, created |-> 0, closed |-> 0, merged |-> 0, commits |-> <<>>]]
  /\ listed = [n \in Tasks |-> {}]
  /\ ci = [r \in Runs |-> [run |-> r, start |-> 0, jobEnd |-> 0, end |-> 0, status |-> None]]
  /\ checks = [c \in Checks |-> [check |-> c, end |-> 0, status |-> None]]
  /\ usage = Usage
  /\ net = {} /\ index = {} /\ log = <<>> /\ swept = FALSE

-----------------------------------------------------------------------------
(* The repository. *)

Tick ==
  /\ now < scenario.steps /\ now' = now + 1
  /\ swept' = FALSE
  /\ UNCHANGED scenario

Happens(move) == move \in scenario.moves

Send(event, action, about) ==
  net' = net \cup {[event |-> event, action |-> action, about |-> about]}

(* The pull request lists other commits: a delivery of it is an action the *)
(* normalizer does not support.                                            *)
Relist(n, commits) ==
  /\ Tick
  /\ pulls' = [pulls EXCEPT ![n].commits = commits]
  /\ listed' = [listed EXCEPT ![n] = @ \cup {commits[i].sha : i \in DOMAIN commits}]
  /\ UNCHANGED <<date, ci, checks, usage, net, index, log>>

Commit(s) == [sha |-> s, date |-> date[s]]

(* Pull requests are numbered as they are opened. *)
OpenPull(n, s) ==
  /\ pulls[n].created = 0
  /\ \A m \in Tasks : m < n => m \in Opened
  /\ Tick
  /\ pulls' = [pulls EXCEPT ![n].created = now', ![n].commits = <<Commit(s)>>]
  /\ listed' = [listed EXCEPT ![n] = {s}]
  /\ Send("pull_request", "opened", pulls'[n])
  /\ UNCHANGED <<date, ci, checks, usage, index, log>>

Push(n, s) ==
  /\ Happens("push") /\ Open(n) /\ s \notin listed[n]
  /\ Relist(n, Append(pulls[n].commits, Commit(s)))

(* A force push keeps the first commits, or none, and adds a new one.      *)
ForcePush(n, s) ==
  /\ Happens("force_push") /\ Open(n) /\ s \notin listed[n]
  /\ \E k \in 0..(Len(pulls[n].commits) - 1) :
       Relist(n, Append(SubSeq(pulls[n].commits, 1, k), Commit(s)))

(* A force push back to an earlier head. *)
Reset(n) ==
  /\ Happens("reset") /\ Open(n)
  /\ \E k \in 1..(Len(pulls[n].commits) - 1) : Relist(n, SubSeq(pulls[n].commits, 1, k))

(* The base branch advances to the first commit of the pull request, which *)
(* GitHub then no longer lists with it.                                    *)
Absorb(n) ==
  /\ Happens("absorb") /\ Open(n) /\ Len(pulls[n].commits) > 1
  /\ Relist(n, Tail(pulls[n].commits))

Redeclare(n, action, closed, merged) ==
  /\ Tick
  /\ pulls' = [pulls EXCEPT ![n].closed = closed, ![n].merged = merged]
  /\ Send("pull_request", action, pulls'[n])
  /\ UNCHANGED <<date, listed, ci, checks, usage, index, log>>

Close(n) == Happens("close") /\ Open(n) /\ Redeclare(n, "closed", now + 1, 0)

Merge(n) == Happens("merge") /\ Open(n) /\ Redeclare(n, "closed", now + 1, now + 1)

Reopen(n) ==
  /\ Happens("reopen") /\ pulls[n].closed # 0 /\ pulls[n].merged = 0
  /\ Redeclare(n, "reopened", 0, 0)

(* An attempt, made once the one before it has ended, runs its job. *)
RunJob(r) ==
  /\ ci[r].jobEnd = 0
  /\ \A q \in Runs : q.id = r.id /\ q.attempt < r.attempt => ci[q].end # 0
  /\ Tick
  /\ ci' = [ci EXCEPT ![r].start = now', ![r].jobEnd = now']
  /\ Send("workflow_job", "completed", ci'[r])
  /\ UNCHANGED <<date, pulls, listed, checks, usage, index, log>>

(* A run completes with a mapped conclusion or another one. *)
CompleteRun(r) ==
  /\ ci[r].jobEnd # 0 /\ ci[r].end = 0
  /\ Tick
  /\ \E status \in {"passed", None} :
       ci' = [ci EXCEPT ![r].end = now', ![r].status = status]
  /\ Send("workflow_run", "completed", ci'[r])
  /\ UNCHANGED <<date, pulls, listed, checks, usage, index, log>>

CompleteCheck(c) ==
  /\ checks[c].end = 0
  /\ Tick
  /\ \E status \in {"passed", None} :
       checks' = [checks EXCEPT ![c].end = now', ![c].status = status]
  /\ Send("check_run", "completed", checks'[c])
  /\ UNCHANGED <<date, pulls, listed, ci, usage, index, log>>

(* The operator supplies a usage record after the fact. *)
ExportUsage(r) ==
  /\ Happens("export") /\ ci[r].start # 0 /\ r \notin usage
  /\ Tick
  /\ usage' = usage \cup {r}
  /\ UNCHANGED <<date, pulls, listed, ci, checks, net, index, log>>

-----------------------------------------------------------------------------
(* The adapter. *)

Ids(records) == {records[i].id : i \in DOMAIN records}

(* The filter drops what is stored already, and the ledger appends the     *)
(* rest in its order.                                                      *)
Unstored(records, stored) ==
  LET fresh == {i \in DOMAIN records : records[i].id \notin stored}
      Place(i) == Cardinality({j \in fresh : j <= i})
  IN [k \in 1..Cardinality(fresh) |-> records[CHOOSE i \in fresh : Place(i) = k]]

Ingest(records) == log' = log \o Unstored(records, Ids(log))

Deliver(d) ==
  /\ Ingest(NormalizeWebhookDelivery(d, index, usage))
  /\ UNCHANGED <<repository, index, swept>>

(* The listing of runs shows the latest attempt of each. *)
ListedRuns ==
  {r \in Runs : ci[r].start # 0 /\
     \A q \in Runs : q.id = r.id /\ q.attempt > r.attempt => ci[q].start = 0}

(* Checks are probed for the revisions of ingested pull requests. *)
ProbedChecks ==
  {c \in Checks : \E n \in Opened \cap Agentic : c.sha \in Shas(n)}

OpenedPulls == {pulls[n] : n \in Opened}

(* assembleAudit over all of the repository. *)
Audit ==
  AssembleAudit(OpenedPulls, {ci[r] : r \in ListedRuns},
                {checks[c] : c \in ProbedChecks}, usage)

Sweep ==
  /\ Ingest(Audit)
  /\ index' = PrIndex(OpenedPulls)
  /\ swept' = TRUE
  /\ UNCHANGED repository

Next ==
  \/ \E n \in Tasks, s \in Revisions : OpenPull(n, s) \/ Push(n, s) \/ ForcePush(n, s)
  \/ \E n \in Tasks : Reset(n) \/ Absorb(n) \/ Close(n) \/ Merge(n) \/ Reopen(n)
  \/ \E r \in Runs : RunJob(r) \/ CompleteRun(r) \/ ExportUsage(r)
  \/ \E c \in Checks : CompleteCheck(c)
  \/ \E d \in net : Deliver(d)
  \/ Sweep

Spec == Init /\ [][Next]_vars

-----------------------------------------------------------------------------
EventsOf(records) == [i \in DOMAIN records |-> records[i].ev]

(* The tasks of the ledger, and those of a sweep into an empty ledger.     *)
Incremental == Reconstruct(EventsOf(log))
Historical == Reconstruct(EventsOf(Audit))

(* What the adapter emits has the ledger's types and passes its validator. *)
TypeOK ==
  /\ now \in 0..scenario.steps
  /\ usage \subseteq Runs /\ index \subseteq [number : Agentic, branch : Branches,
                                              shas : SUBSET Revisions]
  /\ \A i \in DOMAIN log : log[i].ev \in Event /\ Conforms(log[i].ev)

(* The header of webhook/normalize.js: the idempotency filter makes        *)
(* deliveries and sweeps safe to ingest again.  No history of either makes *)
(* the append-only ledger refuse reconstruction.                           *)
LedgerAuditable ==
  LET books == Incremental IN \A n \in Tasks : AuditableTask(books[n])

(* Pull requests only gain commits; dates are the same, so that the order  *)
(* of the list decides.                                                    *)
OnlyGrowing == {"force_push", "reset", "absorb"} \cap scenario.moves = {}
DatesTie == Cardinality(scenario.dates) = 1

(* What does hold: the ledger stays auditable whatever the clocks of the   *)
(* committers say while pull requests only grow, and through rewritten and *)
(* absorbed commits while no revision comes back and all dates are equal.  *)
AuditableIfOrdered ==
  OnlyGrowing \/ (DatesTie /\ ~Happens("reset")) => LedgerAuditable

Sha(e) == e[2]

(* A sweep tells the story of a pull request as it is: every revision is   *)
(* an execution, all but one are superseded, none by an earlier commit,    *)
(* and task and last revision end as the pull request did.                 *)
SweepTellsHistory ==
  LET history == Historical IN
  \A n \in Opened \cap Agentic :
    LET t == history[n]
        p == pulls[n]
        execs == {n} \X Shas(n)
        last == {e \in execs : t.execs[e].status # "superseded"}
    IN /\ AuditableTask(t)
       /\ execs = {e \in Executions : t.execs[e].announced}
       /\ Cardinality(last) = 1
       /\ \A e \in execs \ last : date[Sha(e)] <= date[Sha(t.execs[e].by)]
       /\ \A e \in last :
            t.execs[e].status = CASE p.merged # 0 -> "completed"
                                  [] p.merged = 0 /\ p.closed # 0 -> "aborted"
                                  [] OTHER -> "running"
       /\ Outcome(t) = CASE p.merged # 0 -> "accepted"
                         [] p.merged = 0 /\ p.closed # 0 -> "failed"
                         [] OTHER -> "unresolved"

(* The ledger and a fresh reconstruction of the repository give every task *)
(* its outcome and every revision its status.                              *)
Agrees ==
  LET books == Incremental
      history == Historical
  IN \A n \in Tasks :
       /\ Outcome(books[n]) = Outcome(history[n])
       /\ \A e \in {n} \X Shas(n) :
            books[n].execs[e].status = history[n].execs[e].status

(* The header of webhook/normalize.js: incremental ingestion can never     *)
(* diverge from the historical reconstruction.  A sweep makes up for every *)
(* lost, late and repeated delivery, unless what was declared over (a pull *)
(* request, a revision) came back.                                         *)
AgreesUnlessRevived ==
  /\ swept
  /\ {"reopen", "reset"} \cap scenario.moves = {}
  /\ OnlyGrowing \/ DatesTie
  => Agrees

(* The header of superseded-execution.js, the rule that charges superseded *)
(* executions: the replaced work "can no longer contribute to the accepted *)
(* outcome".  The head of a merged pull request is not superseded.         *)
ReplacedNeverMerged ==
  swept =>
    LET books == Incremental IN
    \A n \in Opened \cap Agentic :
      LET head == Last(pulls[n].commits).sha IN
      pulls[n].merged # 0 => books[n].execs[<<n, head>>].status # "superseded"

(* What does hold: with the dates of a pull request tied, no history of    *)
(* force pushes, absorbed commits and reopenings charges the merged head.  *)
MergedNeverReplacedIfTied ==
  DatesTie /\ ~Happens("reset") => ReplacedNeverMerged

(* The refs of the cost components of all tasks, where the cost is known.  *)
RefsIn(ts) == {c.ev.ref : c \in UNION {ts[n].comps : n \in Tasks}}
PaidIn(ts) ==
  {c.ev.ref : c \in {d \in UNION {ts[n].comps : n \in Tasks} : d.ev.cost # None}}

(* After a sweep every cost component GitHub shows is in the books.        *)
SweptComplete == swept => RefsIn(Historical) \subseteq RefsIn(Incremental)

(* The filter of event ids drops a component that a delivery brings, now   *)
(* or again, only if the ledger has a component with its ref: the evidence *)
(* of one attempt, of which no sweep tells any more once the next attempt  *)
(* has started, is not taken for that of another.                          *)
DropsOnlyStored ==
  LET stored == Ids(log) IN
  \A d \in net : \A rec \in Range(NormalizeWebhookDelivery(d, index, usage)) :
    IsComponent(rec.ev) /\ rec.id \in stored =>
      \E i \in DOMAIN log : IsComponent(log[i].ev) /\ log[i].ev.ref = rec.ev.ref

(* No cost component gets lost between sweeps and deliveries: a sweep      *)
(* makes up for what deliveries did not bring, and what only deliveries    *)
(* brought is not dropped as if it were stored.                            *)
EvidenceComplete == SweptComplete /\ DropsOnlyStored

(* The comment of actionsMeasuredCostSource: run-level and job-level money *)
(* "can never double-count BY CONSTRUCTION".  No attempt is paid for by    *)
(* its run and by its job.                                                 *)
MinutesPaidOnce ==
  LET paid == PaidIn(Incremental) IN
  \A r \in Runs : ~(CiRef(r) \in paid /\ ComputeRef(r) \in paid)

(* What does hold: it is so if usage is supplied before the attempt runs.  *)
PaidOnceIfUsageKnown == ~Happens("export") => MinutesPaidOnce

(* A revision binding is never invented: a component bound to a revision   *)
(* belongs to an execution its task has explicitly started, also when it   *)
(* was correlated with an index older than the repository.                 *)
BindingsNeverInvented ==
  LET books == Incremental IN
  \A n \in Tasks : \A c \in books[n].comps :
    c.ev.exec # None => books[n].execs[c.ev.exec].explicit

=============================================================================
