---------------------------- MODULE OfflineBundle ----------------------------
(***************************************************************************)
(* The producer of normalized bundles in packages/github (bundle.js): the  *)
(* same evidence as the event path, placed on executions instead of sent   *)
(* as events.  Evidence is what the collector brought back: pull requests  *)
(* with their commits, and the listing of workflow runs, a sequence in     *)
(* which one run may occur twice, each entry with the job found for it.    *)
(* Bundle statistics are left out, and the validation money of checks: the *)
(* cost sources of cost-source.js know none.                               *)
(***************************************************************************)
EXTENDS GithubMapping

Cli == INSTANCE NormalizedAudit WITH Nil <- None

(* A usage record names an attempt of a run, whatever its jobs. *)
UsageFor(s, usage) == {[r EXCEPT !.job = s.run.job] : r \in usage}

(* The numbers of a finite set, the lowest first. *)
Ascending(S) ==
  CHOOSE f \in [1..Cardinality(S) -> S] : \A i, j \in DOMAIN f : i < j => f[i] < f[j]

(* What the mappers emit for one entry of the listing of runs. *)
CiRecords(s, index, usage) ==
  LET entries == CorrelateWorkflowRun(s.run, index)
      known == UsageFor(s, usage)
  IN JobRecords(s, entries, known) \cup RunRecords(s, entries, known)

-----------------------------------------------------------------------------
(* Pass 2: known money goes to its revision, else to its task. *)

(* The known money of one kind for task n: of revision rev, or with None   *)
(* what no revision could provably hold.                                   *)
Bucket(runs, index, usage, type, n, rev) ==
  LET exec == IF rev = None THEN None ELSE <<n, rev>>
      Here(i) == {r \in CiRecords(runs[i], index, usage) :
                    r.ev.type = type /\ r.ev.task = n /\ r.ev.exec = exec /\ r.ev.cost # None}
  IN SumFunction([i \in DOMAIN runs |-> SumFunction([r \in Here(i) |-> r.ev.cost])])

(* Mutant: money that no revision holds is left where it is. *)
MutPlaceBoundOnly(runs, index, usage, n) ==
  [type \in {"ci_run_recorded", "compute_usage_recorded"} |->
     [rev \in Revisions \cup {None} |->
        IF rev = None THEN 0 ELSE Bucket(runs, index, usage, type, n, rev)]]

(* The two cost maps of a task: CI money, and compute money of jobs. *)
PlaceKnownCost(runs, index, usage, n) ==
  [type \in {"ci_run_recorded", "compute_usage_recorded"} |->
     [rev \in Revisions \cup {None} |-> Bucket(runs, index, usage, type, n, rev)]]

-----------------------------------------------------------------------------
(* Pass 3: one record for each ingested pull request. *)

(* executionJson: model and tool money is never known, other money only if *)
(* there is some.                                                          *)
ExecutionJson(id, start, by, ci, compute) ==
  LET MoneyOf(n) == IF n > 0 THEN Cli!Measured(n) ELSE Cli!Unavailable
  IN [id |-> id, start |-> start,
      components |-> [inference |-> Cli!Unavailable, tools |-> Cli!Unavailable,
                      ci |-> MoneyOf(ci), compute |-> MoneyOf(compute)],
      total |-> ci + compute,
      retryOf |-> None, by |-> by, failure |-> None, signature |-> None]

(* Mutant: a revision is superseded by the next, as in the event path. *)
MutReplacement(revs, i) == IF i = Len(revs) THEN None ELSE revs[i + 1].sha

(* Succession of revisions is not waste evidence: no relation is emitted.  *)
Replacement(revs, i) == None

(* Revisions without a date are left out; those are sorted first.  The     *)
(* last revision takes the money that no revision holds.                   *)
RevisionExecutions(p, money) ==
  LET revs == OrderCommits(p.commits)
      undated == Cardinality({i \in DOMAIN revs : revs[i].date = 0})
      Cost(type, i) == money[type][revs[i].sha] + IF i = Len(revs) THEN money[type][None] ELSE 0
      Execution(i) == ExecutionJson(revs[i].sha, revs[i].date, Replacement(revs, i),
                                    Cost("ci_run_recorded", i),
                                    Cost("compute_usage_recorded", i))
  IN [k \in 1..(Len(revs) - undated) |-> Execution(undated + k)]

(* One execution for the span of the task, with all of its money. *)
SpanExecution(p, start, money) ==
  LET Total(type) == SumFunction(money[type])
  IN ExecutionJson("span", start, None, Total("ci_run_recorded"),
                   Total("compute_usage_recorded"))

(* createdAt, else the first commit; 0 if neither is known. *)
StartOf(p) ==
  CASE p.created # 0 -> p.created
    [] p.created = 0 /\ p.commits # <<>> -> OrderCommits(p.commits)[1].date
    [] OTHER -> 0

(* A pull request closed without a merge is aborted, at its close. *)
BundleOutcome(p) ==
  CASE p.merged # 0 -> "accepted"
    [] p.merged = 0 /\ p.closed # 0 -> "aborted"
    [] OTHER -> "unresolved"

BuildRecord(p, money) ==
  LET execs == RevisionExecutions(p, money)
      status == BundleOutcome(p)
  IN [task |-> p.number, status |-> status,
      aborted |-> IF status = "aborted" THEN p.closed ELSE None,
      execs |-> IF execs = <<>> THEN <<SpanExecution(p, StartOf(p), money)>> ELSE execs]

(* The records, by pull request number; one without a start is left out.   *)
BuildNormalizedBundle(pulls, runs, usage) ==
  LET index == PrIndex(pulls)
      ingested == {p \in pulls : p.number \in Agentic /\ StartOf(p) # 0}
      numbers == Ascending({p.number : p \in ingested})
      Numbered(n) == CHOOSE p \in ingested : p.number = n
  IN [k \in DOMAIN numbers |->
        BuildRecord(Numbered(numbers[k]), PlaceKnownCost(runs, index, usage, numbers[k]))]
=============================================================================
