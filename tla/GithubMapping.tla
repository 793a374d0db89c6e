--------------------------- MODULE GithubMapping ---------------------------
(***************************************************************************)
(* The mapping layer of packages/github: raw pull requests, workflow runs, *)
(* jobs and checks to canonical events, for a sweep (map/) and for one     *)
(* webhook delivery (webhook/normalize.js).                                *)
(*                                                                         *)
(* A pull request is [number, created, closed, merged, commits], a commit  *)
(* [sha, date], a run attempt [run, start, jobEnd, end, status], a check   *)
(* [check, end, status]: times are naturals, 0 is an absent time (the code *)
(* sorts an absent time first), None an unmapped conclusion.  The task of  *)
(* pull request n is n, its execution of revision s is <<n, s>>.           *)
(***************************************************************************)
EXTENDS TaskFold

CONSTANTS
  Revisions,   \* commit SHAs
  Branches,    \* head branches of pull requests and runs
  Agentic,     \* the pull requests the policy classifies as agentic
  HeadBranch,  \* the head branch of each pull request
  Runs,        \* run attempts: [id, attempt, job, sha, branch, links]
  Checks       \* check runs: [id, sha]

ASSUME MappingAssumption ==
  /\ Executions = Tasks \X Revisions
  /\ Agentic \subseteq Tasks
  /\ HeadBranch \in [Tasks -> Branches]
  /\ Runs \subseteq [id : Nat, attempt : Nat, job : Nat, sha : Revisions,
                     branch : Branches, links : SUBSET Tasks]
  /\ Checks \subseteq [id : Nat, sha : Revisions]

PrRef(n) == <<"pr", n, 0>>
CiRef(r) == <<"ci", r.id, r.attempt>>
ComputeRef(r) == <<"cmp", r.job, 0>>
ValidationRef(c) == <<"val", c.id, 0>>

(* Records { _order, event }; id is the event_id, Unordered a null _order. *)
Unordered == 1000
Record(id, time, order, ev) == [id |-> id, time |-> time, order |-> order, ev |-> ev]

-----------------------------------------------------------------------------
(* map/pr-tasks.js: one pull request as one task. *)

(* Mutant: commits are taken to be listed newest first. *)
MutNewestFirst(commits) == Reverse(commits)

(* Commits by date, GitHub's order for equal dates. *)
OrderCommits(commits) ==
  LET Earlier(i, j) == \/ commits[i].date < commits[j].date
                       \/ commits[i].date = commits[j].date /\ i < j
      Place(i) == Cardinality({j \in DOMAIN commits : Earlier(j, i)}) + 1
  IN [k \in DOMAIN commits |-> commits[CHOOSE i \in DOMAIN commits : Place(i) = k]]

TaskSignals(p) ==
  {Record(<<"task-started", p.number, 0>>, p.created, 0, Blank(p.number, "task_started")),
   Record(<<"pr-created", p.number, 0>>, p.created, 1,
          Signal(p.number, "pull_request_created", PrRef(p.number)))}

(* Mutant: a start is named by its index alone. *)
MutStartIdOfIndex(n, i, sha) == <<"exec-start", n, i>>

(* The event ids of a revision carry its index among the commits. *)
StartId(n, i, sha) == <<"exec-start", n, i, sha>>

(* Mutant: a finish is named by its index alone. *)
MutFinishIdOfIndex(n, i, sha) == <<"exec-finish", n, i>>

FinishId(n, i, sha) == <<"exec-finish", n, i, sha>>

StartRecords(p) ==
  LET revs == OrderCommits(p.commits) IN
  {Record(StartId(p.number, i, revs[i].sha), revs[i].date, 2 * i,
          Started(p.number, <<p.number, revs[i].sha>>)) : i \in DOMAIN revs}

(* Mutant: any closed pull request aborts its last revision. *)
MutClosedMeansAborted(p) == "aborted"

TerminalStatus(p) == IF p.merged # 0 THEN "completed" ELSE "aborted"

(* A replaced revision finishes when its replacement was committed; the    *)
(* last one with the pull request, if it has ended.                        *)
FinishRecords(p) ==
  LET revs == OrderCommits(p.commits)
      Exec(i) == <<p.number, revs[i].sha>>
      Id(i) == FinishId(p.number, i, revs[i].sha)
      last == Len(revs)
  IN {Record(Id(i), revs[i + 1].date, 2 * i + 1, Superseded(p.number, Exec(i), Exec(i + 1))) :
        i \in 1..(last - 1)}
     \cup IF last > 0 /\ p.closed # 0
          THEN {Record(Id(last), IF p.merged # 0 THEN p.merged ELSE p.closed, 2 * last + 1,
                       Finished(p.number, Exec(last), TerminalStatus(p)))}
          ELSE {}

(* The terminal delivery signal: merged, or closed without a merge. *)
MergedRecord(p, order) ==
  Record(<<"pr-merged", p.number, 0>>, p.merged, order,
         Signal(p.number, "pull_request_merged", PrRef(p.number)))
ClosedRecord(p, order) ==
  Record(<<"pr-closed", p.number, 0>>, p.closed, order,
         Signal(p.number, "pull_request_closed", PrRef(p.number)))

TerminalSignals(p) ==
  LET order == 2 * Len(p.commits) + 2 IN
  CASE p.merged # 0 -> {MergedRecord(p, order)}
    [] p.merged = 0 /\ p.closed # 0 -> {ClosedRecord(p, order)}
    [] OTHER -> {}

PullRecords(p) ==
  TaskSignals(p) \cup StartRecords(p) \cup FinishRecords(p) \cup TerminalSignals(p)

(* map/pr-index.js: what correlation knows of an ingested pull request. *)
Entry(p) ==
  [number |-> p.number, branch |-> HeadBranch[p.number],
   shas |-> {p.commits[i].sha : i \in DOMAIN p.commits}]

PrIndex(pulls) == {Entry(p) : p \in {q \in pulls : q.number \in Agentic}}

Lowest(entries) == CHOOSE e \in entries : \A f \in entries : e.number <= f.number

-----------------------------------------------------------------------------
(* map/ci-evidence.js, map/workflow-jobs.js, cost-source.js. *)

(* The entries a run binds to, at most one: the lowest pull request GitHub *)
(* linked, else the only one on its branch, else the only one on its       *)
(* branch that has its revision.                                           *)
CorrelateWorkflowRun(run, index) ==
  LET explicit == {e \in index : e.number \in run.links}
      onBranch == {e \in index : e.branch = run.branch}
      withSha == {e \in onBranch : run.sha \in e.shas}
  IN CASE explicit # {} -> {Lowest(explicit)}
       [] explicit = {} /\ Cardinality(onBranch) = 1 -> onBranch
       [] explicit = {} /\ Cardinality(onBranch) > 1 /\ Cardinality(withSha) = 1 -> withSha
       [] OTHER -> {}

(* Mutant: the revision is taken for one of the task's. *)
MutBindsAnyRevision(entry, sha) == <<entry.number, sha>>

(* A revision binding exists only for a revision of the task. *)
ExecutionBinding(entry, sha) ==
  IF sha \in entry.shas THEN <<entry.number, sha>> ELSE None

(* actionsMeasuredCostSource with one unit per run and per job: usage is   *)
(* the set of run attempts the operator supplied a record for.             *)
RunCost(run, usage) == IF run \in usage THEN 1 ELSE None

(* Mutant: no guard against counting a run and its jobs. *)
MutJobCostUnguarded(run, usage) == 1

JobCost(run, usage) == IF run \in usage THEN None ELSE 1

(* Mutant: attempts of a run share one event id. *)
MutRunIdWithoutAttempt(run) == <<"wfrun", run.id, 0>>

RunId(run) == <<"wfrun", run.id, run.attempt>>

(* Mutant: an unmapped conclusion is passed on. *)
MutCompletedAnyhow(s) == s.end # 0

(* Completed, with a conclusion the adapter has a status for. *)
Terminal(s) == s.end # 0 /\ s.status # None

RunRecords(s, entries, usage) ==
  {Record(RunId(s.run), s.start, Unordered,
          [Spent(e.number, "ci_run_recorded", ExecutionBinding(e, s.run.sha),
                 CiRef(s.run), RunCost(s.run, usage))
             EXCEPT !.status = s.status, !.key = s.run.sha, !.rev = s.run.sha,
                    !.start = s.start, !.finish = s.end]) :
     e \in {f \in entries : Terminal(s)}}

(* A job is evidence as soon as it has ended, whatever became of its run.  *)
JobRecords(s, entries, usage) ==
  {Record(<<"wfjob", s.run.job, 0>>, s.start, Unordered,
          Spent(e.number, "compute_usage_recorded", ExecutionBinding(e, s.run.sha),
                ComputeRef(s.run), JobCost(s.run, usage))) :
     e \in {f \in entries : s.jobEnd # 0}}

Owners(sha, index) == {e \in index : sha \in e.shas}

(* The lowest pull request that has the revision, if any has. *)
RevisionOwner(sha, index) ==
  LET owners == Owners(sha, index) IN IF owners = {} THEN {} ELSE {Lowest(owners)}

CheckRecords(c, index) ==
  {Record(<<"checkrun", c.check.id, 0>>, c.end, Unordered,
          [Spent(e.number, "validation_recorded", ExecutionBinding(e, c.check.sha),
                 ValidationRef(c.check), None) EXCEPT !.status = c.status]) :
     e \in {f \in RevisionOwner(c.check.sha, index) : Terminal(c)}}

-----------------------------------------------------------------------------
(* map/audit.js. *)

TypeRank ==
  [task_started |-> 0, pull_request_created |-> 1, execution_started |-> 2,
   ci_run_recorded |-> 3, compute_usage_recorded |-> 35, validation_recorded |-> 4,
   pull_request_closed |-> 5, pull_request_merged |-> 6, execution_finished |-> 7]

(* compareRecords: time, type, order, then event id. *)
Precedes(a, b) ==
  LET Key(r) == <<r.time, TypeRank[r.ev.type], r.order, r.id[2], r.id[3]>>
      k == Key(a)
      l == Key(b)
  IN \E i \in DOMAIN k : k[i] < l[i] /\ \A j \in 1..(i - 1) : k[j] = l[j]

Ordered(records) ==
  LET Place(r) == Cardinality({q \in records : Precedes(q, r)}) + 1
  IN [k \in 1..Cardinality(records) |-> CHOOSE r \in records : Place(r) = k]

(* assembleAudit over what a sweep collected. *)
AssembleAudit(pulls, runs, checks, usage) ==
  LET index == PrIndex(pulls)
      Ci(s) == LET entries == CorrelateWorkflowRun(s.run, index) IN
               JobRecords(s, entries, usage) \cup RunRecords(s, entries, usage)
  IN Ordered((UNION {PullRecords(p) : p \in {q \in pulls : q.number \in Agentic}})
             \cup (UNION {Ci(s) : s \in runs})
             \cup (UNION {CheckRecords(c, index) : c \in checks}))

-----------------------------------------------------------------------------
(* webhook/normalize.js: a delivery is [event, action, about]. *)

HandlePullRequest(action, p) ==
  CASE p.number \notin Agentic -> {}
    [] p.number \in Agentic /\ action \in {"opened", "reopened"} -> TaskSignals(p)
    [] p.number \in Agentic /\ action = "closed" ->
         {IF p.merged # 0 THEN MergedRecord(p, 0) ELSE ClosedRecord(p, 0)}

HandleWorkflowRun(s, index, usage) ==
  RunRecords(s, CorrelateWorkflowRun(s.run, index), usage)

(* A job delivery is bound by its revision, like a check. *)
HandleWorkflowJob(s, index, usage) ==
  JobRecords(s, RevisionOwner(s.run.sha, index), usage)

NormalizeWebhookDelivery(d, index, usage) ==
  Ordered(CASE d.event = "pull_request" -> HandlePullRequest(d.action, d.about)
            [] d.event = "workflow_run" -> HandleWorkflowRun(d.about, index, usage)
            [] d.event = "check_run" -> CheckRecords(d.about, index)
            [] d.event = "workflow_job" -> HandleWorkflowJob(d.about, index, usage))
=============================================================================
