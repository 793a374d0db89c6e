--------------------------- MODULE GithubCollector ---------------------------
(***************************************************************************)
(* The read-only sweep of a repository (collect/history.js) request by     *)
(* request, while the repository moves, and what runGithubReadOnly of      *)
(* apps/cli makes of it: assembleAudit, a fresh ledger, a report.  Every   *)
(* page, commit list, job list and check list is one request; between two  *)
(* requests anything may happen.  A request that fails, and an event id    *)
(* that occurs twice, end the sweep; an answer whose body cannot be read   *)
(* is taken for one that says nothing.  The operator may run another.      *)
(*                                                                         *)
(* A page holds PageSize entries; runs are listed newest first, pull       *)
(* requests oldest first.  An attempt of a run has one job, so that lists  *)
(* of jobs have one page; checks are complete when they are probed.        *)
(***************************************************************************)
EXTENDS OfflineBundle

CONSTANTS
  PageSize,   \* entries on a page
  Usage,      \* run attempts the operator supplied a usage record for
  Scenarios   \* what may happen, each with its bounds

(* Attempts of a run are counted from 1, and a job belongs to one run.     *)
(* A scenario names what users do; how many revisions are pushed with a    *)
(* committer date other than the present; the pull requests and runs there *)
(* are at first (pull requests are numbered as they are opened); the       *)
(* limits of the sweep; and how many steps the repository takes and how    *)
(* many requests fail or bring no readable answer.                         *)
ASSUME CollectorAssumption ==
  /\ PageSize \in Nat \ {0}
  /\ Usage \subseteq Runs
  /\ IsFiniteSet(Runs) /\ Revisions # {}
  /\ \A q, r \in Runs : r.attempt > 0 /\ (q.job = r.job => q.id = r.id)
  /\ \A s \in Scenarios :
       /\ s.moves \subseteq {"open", "push", "close", "merge", "reopen", "run", "again"}
       /\ s.dates \subseteq {"now", "none", "late"}
       /\ s.opened \subseteq Tasks /\ s.started \subseteq Runs
       /\ \A n \in s.opened : \A m \in Tasks : m < n => m \in s.opened
       /\ s.limits \in [pulls : Nat \ {0}, commits : Nat \ {0}, runs : Nat \ {0}, shas : Nat \ {0}]
       /\ s.steps \in Nat /\ s.failures \in Nat

VARIABLES
  scenario, \* the scenario that takes place
  now,      \* steps the repository has taken; the time of the last one
  pulls,    \* the pull requests; created = 0 for one not opened yet
  ci,       \* the state of each run attempt
  phase,    \* where the sweep is
  page,     \* the next page of the listing being read
  pages,    \* requests made for the listings of pull requests and of runs
  todo,     \* what the phase has left to read
  prs,      \* pull requests read, as listed, their commits where read
  runs,     \* entries of the listing of runs
  jobs,     \* the jobs found, by run id and first-seen attempt
  probed,   \* revisions whose checks were asked for
  checked,  \* those of them whose checks were read
  failures, \* requests that failed or brought no readable answer
  unread,   \* history: the phases of this sweep with an unreadable answer
  cut,      \* history: listings left while they had another page
  entered   \* history: when each phase began

repository == <<scenario, now, pulls, ci>>
sweep == <<phase, page, pages, todo, prs, runs, jobs, probed, checked, failures, unread, cut,
           entered>>
vars == <<repository, sweep>>

Phases == {"idle", "pulls", "commits", "runs", "jobs", "checks", "assemble"}
Ends == {"failed", "rejected", "refused", "reported"}

Opened == {n \in Tasks : pulls[n].created # 0}
Open(n) == n \in Opened /\ pulls[n].closed = 0
Happens(move) == move \in scenario.moves

(* The first revision of the pull requests there are at first. *)
FirstCommit(n) == [sha |-> CHOOSE s \in Revisions : TRUE, date |-> 1]

NothingRead ==
  /\ page = 1 /\ pages = [pulls |-> 0, runs |-> 0]
  /\ todo = <<>> /\ prs = <<>> /\ runs = <<>>
  /\ jobs = [k \in {} |-> 0] /\ probed = {} /\ checked = {} /\ unread = {} /\ cut = {}

Init ==
  /\ scenario \in Scenarios
  /\ now = 1
  /\ pulls = [n \in Tasks |->
       [number |-> n, created |-> IF n \in scenario.opened THEN 1 ELSE 0, closed |-> 0,
        merged |-> 0,
        commits |-> IF n \in scenario.opened THEN <<FirstCommit(n)>> ELSE <<>>]]
  /\ ci = [r \in Runs |->
       LET started == IF r \in scenario.started THEN 1 ELSE 0 IN
       [run |-> r, start |-> started, jobEnd |-> started, end |-> started,
        status |-> IF started = 1 THEN "passed" ELSE None]]
  /\ phase = "idle" /\ failures = 0
  /\ NothingRead
  /\ entered = [p \in Phases |-> 0]

-----------------------------------------------------------------------------
(* The repository. *)

Tick == now <= scenario.steps /\ now' = now + 1 /\ UNCHANGED <<scenario, sweep>>

OpenPull(n) ==
  /\ Happens("open") /\ n \notin Opened /\ \A m \in Tasks : m < n => m \in Opened
  /\ Tick
  /\ pulls' = [pulls EXCEPT ![n].created = now', ![n].commits = <<FirstCommit(n)>>]
  /\ UNCHANGED ci

(* A commit carries the present date, a later one, or none. *)
Push(n, s) ==
  /\ Happens("push") /\ Open(n)
  /\ \A i \in DOMAIN pulls[n].commits : pulls[n].commits[i].sha # s
  /\ Tick
  /\ \E kind \in scenario.dates :
       LET date == CASE kind = "now" -> now' [] kind = "none" -> 0 [] kind = "late" -> now' + 2
       IN pulls' = [pulls EXCEPT ![n].commits = Append(@, [sha |-> s, date |-> date])]
  /\ UNCHANGED ci

Redeclare(n, closed, merged) ==
  /\ Tick
  /\ pulls' = [pulls EXCEPT ![n].closed = closed, ![n].merged = merged]
  /\ UNCHANGED ci

Close(n) == Happens("close") /\ Open(n) /\ Redeclare(n, now + 1, 0)
Merge(n) == Happens("merge") /\ Open(n) /\ Redeclare(n, now + 1, now + 1)
Reopen(n) ==
  Happens("reopen") /\ pulls[n].closed # 0 /\ pulls[n].merged = 0 /\ Redeclare(n, 0, 0)

StartedRuns == {r \in Runs : ci[r].start # 0}

(* Runs are numbered as they start; an attempt follows the end of another. *)
StartRun(r) ==
  /\ Happens(IF r.attempt = 1 THEN "run" ELSE "again")
  /\ r \notin StartedRuns
  /\ r.attempt = 1 => \A q \in StartedRuns : q.id < r.id
  /\ r.attempt > 1 => \E q \in StartedRuns :
                        q.id = r.id /\ q.attempt = r.attempt - 1 /\ ci[q].end # 0
  /\ Tick
  /\ ci' = [ci EXCEPT ![r].start = now']
  /\ UNCHANGED pulls

(* A conclusion the adapter has a status for, or another one. *)
EndRun(r) ==
  /\ r \in StartedRuns /\ ci[r].end = 0
  /\ Tick
  /\ \E status \in {"passed", None} :
       ci' = [ci EXCEPT ![r].jobEnd = now', ![r].end = now', ![r].status = status]
  /\ UNCHANGED pulls

-----------------------------------------------------------------------------
(* What GitHub answers (external): listings at this moment, by pages.      *)

PullListing ==
  LET order == Ascending(Opened) IN
  [i \in DOMAIN order |-> [pulls[order[i]] EXCEPT !.commits = <<>>]]

(* The latest attempt of each run, newest run first. *)
Latest == {r \in StartedRuns : \A q \in StartedRuns : q.id = r.id => q.attempt <= r.attempt}
LatestOf(id) == CHOOSE r \in Latest : r.id = id
RunListing ==
  LET order == Reverse(Ascending({r.id : r \in Latest})) IN
  [i \in DOMAIN order |-> ci[LatestOf(order[i])]]

(* Mutant: the token of the next page is lost, the first page read again.  *)
MutPage(listing, p) == SubSeq(listing, 1, IF Len(listing) < PageSize THEN Len(listing) ELSE PageSize)

Page(listing, p) ==
  LET end == IF p * PageSize < Len(listing) THEN p * PageSize ELSE Len(listing) IN
  SubSeq(listing, (p - 1) * PageSize + 1, end)

HasNext(listing, p) == p * PageSize < Len(listing)

-----------------------------------------------------------------------------
(* client.js, history.js. *)

Limit(name) == scenario.limits[name]

(* paginate goes on while there is a next page, up to the limit. *)
Continues(listing, limit) == HasNext(listing, page) /\ page < limit

(* The light index of the pull requests read. *)
CorrelationIndex == PrIndex(Range(prs))

Correlates(s, index) == CorrelateWorkflowRun(s.run, index) # {}

(* The numbers of the agentic pull requests of a listing. *)
AgenticPrs(listed) ==
  LET places == Ascending({i \in DOMAIN listed : listed[i].number \in Agentic}) IN
  [k \in DOMAIN places |-> listed[places[k]].number]

(* The entries whose jobs are fetched: the first of each run id that       *)
(* correlates.                                                             *)
EntriesToFetch(entries, index) ==
  LET correlated == {i \in DOMAIN entries : Correlates(entries[i], index)} IN
  Ascending({i \in correlated :
               \A j \in correlated : j < i => entries[j].run.id # entries[i].run.id})

(* distinctRevisionShas: by pull request, then in order of the commits.    *)
DistinctRevisions ==
  LET Shas(p) == [j \in DOMAIN p.commits |-> p.commits[j].sha]
      all == FlattenSeq([i \in DOMAIN prs |-> Shas(prs[i])])
      first == Ascending({k \in DOMAIN all : \A j \in 1..(k - 1) : all[j] # all[k]})
  IN [k \in DOMAIN first |-> all[first[k]]]

Move(to, work) ==
  /\ phase' = to /\ page' = 1 /\ todo' = work
  /\ entered' = [entered EXCEPT ![to] = now]

Stay == page' = page + 1 /\ UNCHANGED <<phase, todo, entered>>

(* Leaving a listing that has another page cuts it. *)
Leave(name, listing) == cut' = IF HasNext(listing, page) THEN cut \cup {name} ELSE cut

(* client.request: an answer with a body. *)
Readable == UNCHANGED <<failures, unread>>

(* A body that cannot be read is null, which throws nothing: the callers   *)
(* take it for a page without entries and go on.                           *)
Unreadable ==
  /\ failures < scenario.failures /\ failures' = failures + 1
  /\ unread' = unread \cup {phase}

(* A sweep begins: the command is run, for the first time or again. *)
Begin ==
  /\ phase \in {"idle"} \cup Ends
  /\ phase' = "pulls" /\ entered' = [[p \in Phases |-> 0] EXCEPT !["pulls"] = now]
  /\ page' = 1 /\ pages' = [pulls |-> 0, runs |-> 0]
  /\ todo' = <<>> /\ prs' = <<>> /\ runs' = <<>>
  /\ jobs' = [k \in {} |-> 0] /\ probed' = {} /\ checked' = {} /\ unread' = {} /\ cut' = {}
  /\ UNCHANGED <<repository, failures>>

ListPulls ==
  LET listing == PullListing IN
  /\ phase = "pulls"
  /\ pages' = [pages EXCEPT !.pulls = @ + 1]
  /\ \/ Readable /\ prs' = prs \o Page(listing, page)
     \/ Unreadable /\ UNCHANGED prs
  /\ IF Continues(listing, Limit("pulls"))
     THEN Stay /\ UNCHANGED cut
     ELSE /\ Leave("pulls", listing)
          /\ Move("commits", AgenticPrs(prs'))
  /\ UNCHANGED <<repository, runs, jobs, probed, checked>>

(* The commits of the first pull request left. *)
ListCommits ==
  /\ phase = "commits" /\ todo # <<>>
  /\ LET n == Head(todo)
         listing == pulls[n].commits
     IN /\ \/ /\ Readable
              /\ prs' = [i \in DOMAIN prs |->
                           IF prs[i].number = n
                           THEN [prs[i] EXCEPT !.commits = @ \o Page(listing, page)]
                           ELSE prs[i]]
           \/ Unreadable /\ UNCHANGED prs
        /\ IF Continues(listing, Limit("commits"))
           THEN Stay /\ UNCHANGED cut
           ELSE /\ Leave("commits", listing)
                /\ page' = 1 /\ todo' = Tail(todo) /\ UNCHANGED <<phase, entered>>
  /\ UNCHANGED <<repository, pages, runs, jobs, probed, checked>>

CommitsRead ==
  /\ phase = "commits" /\ todo = <<>>
  /\ Move("runs", <<>>)
  /\ UNCHANGED <<repository, pages, prs, runs, jobs, probed, checked, failures, unread, cut>>

ListRuns ==
  LET listing == RunListing IN
  /\ phase = "runs"
  /\ pages' = [pages EXCEPT !.runs = @ + 1]
  /\ \/ Readable /\ runs' = runs \o Page(listing, page)
     \/ Unreadable /\ UNCHANGED runs
  /\ IF Continues(listing, Limit("runs"))
     THEN Stay /\ UNCHANGED cut
     ELSE /\ Leave("runs", listing)
          /\ Move("jobs", EntriesToFetch(runs', CorrelationIndex))
  /\ UNCHANGED <<repository, prs, jobs, probed, checked>>

(* Mutant: jobs are stored under the run id alone. *)
MutJobKey(s) == <<s.run.id, 1>>

JobKey(s) == <<s.run.id, s.run.attempt>>

(* The jobs of the latest attempt, filed under the attempt listed.         *)
ListJobs ==
  /\ phase = "jobs" /\ todo # <<>>
  /\ LET s == runs[Head(todo)]
         latest == ci[LatestOf(s.run.id)]
         File(job) == jobs' = [k \in DOMAIN jobs \cup {JobKey(s)} |->
                                 IF k = JobKey(s) THEN job ELSE jobs[k]]
     IN \/ Readable /\ File(latest)
        \/ Unreadable /\ File([latest EXCEPT !.jobEnd = 0])
  /\ page' = 1 /\ todo' = Tail(todo) /\ UNCHANGED <<phase, entered>>
  /\ UNCHANGED <<repository, pages, prs, runs, probed, checked, cut>>

JobsRead ==
  /\ phase = "jobs" /\ todo = <<>>
  /\ LET revisions == DistinctRevisions
         most == IF Len(revisions) < Limit("shas") THEN Len(revisions) ELSE Limit("shas")
     IN /\ Move("checks", SubSeq(revisions, 1, most))
        /\ cut' = IF most < Len(revisions) THEN cut \cup {"shas"} ELSE cut
  /\ UNCHANGED <<repository, pages, prs, runs, jobs, probed, checked, failures, unread>>

ProbeChecks ==
  /\ phase = "checks" /\ todo # <<>>
  /\ probed' = probed \cup {Head(todo)}
  /\ \/ Readable /\ checked' = checked \cup {Head(todo)}
     \/ Unreadable /\ UNCHANGED checked
  /\ page' = 1 /\ todo' = Tail(todo) /\ UNCHANGED <<phase, entered>>
  /\ UNCHANGED <<repository, pages, prs, runs, jobs, cut>>

ChecksRead ==
  /\ phase = "checks" /\ todo = <<>>
  /\ Move("assemble", <<>>)
  /\ UNCHANGED <<repository, pages, prs, runs, jobs, probed, checked, failures, unread, cut>>

(* A network error or an answer that is not a success throws. *)
RequestFails ==
  /\ \/ phase \in {"pulls", "runs"}
     \/ phase \in {"commits", "jobs", "checks"} /\ todo # <<>>
  /\ failures < scenario.failures /\ failures' = failures + 1
  /\ phase' = "failed"
  /\ UNCHANGED <<repository, page, pages, todo, prs, runs, jobs, probed, checked, unread, cut,
                 entered>>

(* Mutant: a listing is reported only beyond its limit. *)
MutTruncated ==
  (IF prs # <<>> /\ pages.pulls > Limit("pulls") THEN {"pulls"} ELSE {})
  \cup (IF runs # <<>> /\ pages.runs > Limit("runs") THEN {"runs"} ELSE {})
  \cup (IF Len(DistinctRevisions) > Cardinality(probed) THEN {"shas"} ELSE {})

(* collection.truncated: a listing is reported when as many pages were     *)
(* read as its limit allows, whether or not there was another.             *)
Truncated ==
  (IF prs # <<>> /\ pages.pulls >= Limit("pulls") THEN {"pulls"} ELSE {})
  \cup (IF runs # <<>> /\ pages.runs >= Limit("runs") THEN {"runs"} ELSE {})
  \cup (IF Len(DistinctRevisions) > Cardinality(probed) THEN {"shas"} ELSE {})

-----------------------------------------------------------------------------
(* runGithubReadOnly, once the sweep is complete. *)

(* An entry of the listing with the job found under its key, if any. *)
WithJob(s) ==
  IF JobKey(s) \notin DOMAIN jobs THEN [s EXCEPT !.jobEnd = 0]
  ELSE [s EXCEPT !.jobEnd = jobs[JobKey(s)].jobEnd, !.run.job = jobs[JobKey(s)].run.job]

Evidence == [i \in DOMAIN runs |-> WithJob(runs[i])]

CheckEvidence ==
  LET index == CorrelationIndex IN
  UNION {CheckRecords([check |-> c, end |-> 1, status |-> "passed"], index) :
           c \in {d \in Checks : d.sha \in checked}}

(* The records of each entry of the listing. *)
RunEvidence ==
  LET index == CorrelationIndex
      entries == Evidence
  IN [i \in DOMAIN entries |-> CiRecords(entries[i], index, Usage)]

PullEvidence == UNION {PullRecords(p) : p \in {q \in Range(prs) : q.number \in Agentic}}

(* The ledger refuses a batch that has an event id twice. *)
SameIds(a, b) == {r.id : r \in a} \cap {r.id : r \in b} # {}
DuplicateIds ==
  LET evidence == RunEvidence IN
  \E i, j \in DOMAIN evidence : i < j /\ SameIds(evidence[i], evidence[j])

Audit ==
  LET evidence == RunEvidence IN
  Ordered(PullEvidence \cup (UNION {evidence[i] : i \in DOMAIN evidence}) \cup CheckEvidence)

RunGithubReadOnly ==
  /\ phase = "assemble"
  /\ phase' = CASE PullEvidence = {} -> "refused"
                [] PullEvidence # {} /\ DuplicateIds -> "rejected"
                [] OTHER -> "reported"
  /\ UNCHANGED <<repository, page, pages, todo, prs, runs, jobs, probed, checked, failures, unread,
                 cut, entered>>

Repository ==
  \/ \E n \in Tasks : OpenPull(n) \/ Close(n) \/ Merge(n) \/ Reopen(n)
  \/ \E n \in Tasks, s \in Revisions : Push(n, s)
  \/ \E r \in Runs : StartRun(r) \/ EndRun(r)

(* The sweep is one asynchronous function: each answer runs it to its next *)
(* request.                                                                *)
Collect ==
  \/ ListPulls \/ ListCommits \/ CommitsRead \/ ListRuns
  \/ ListJobs \/ JobsRead \/ ProbeChecks \/ ChecksRead \/ RunGithubReadOnly

Next == Repository \/ Begin \/ Collect \/ RequestFails

(* Requests are answered or fail, so a sweep that was begun goes on.       *)
(* Nothing is asked of users or of the operator, and no request need fail. *)
Fairness == WF_vars(Collect)

Spec == Init /\ [][Next]_vars /\ Fairness

-----------------------------------------------------------------------------
(* The sweep has read all it reads. *)
Assembled == phase \in {"assemble"} \cup (Ends \ {"failed"})

TypeOK ==
  /\ phase \in Phases \cup Ends
  /\ \A i \in DOMAIN prs : prs[i].number \in Opened
  /\ \A i \in DOMAIN runs : runs[i].run \in StartedRuns
  /\ probed \subseteq Revisions /\ checked \subseteq probed
  /\ unread \subseteq {"pulls", "commits", "runs", "jobs", "checks"}
  /\ cut \subseteq {"pulls", "commits", "runs", "shas"}
  /\ \A p \in Phases : entered[p] <= now
  /\ phase = "reported" =>
       LET audit == Audit IN
       \A i \in DOMAIN audit : audit[i].ev \in Event /\ Conforms(audit[i].ev)

(* The adapter's README: sweeps are bounded, "truncation is reported".     *)
(* Every listing the sweep left while it had another page is flagged.      *)
TruncationReported == Assembled => cut \subseteq Truncated

(* What does hold, of whatever was answered with a readable body: the pull *)
(* requests and runs that were there when their listing began have been    *)
(* read or the listing is flagged, whatever was opened, started or merged  *)
(* between the pages; the checks of every revision read have been read or  *)
(* that is flagged; and a pull request listed as merged comes with the     *)
(* very commits that were merged, if its list of commits was not cut.      *)
NothingSilentlyMissed ==
  Assembled =>
    /\ "pulls" \in Truncated \cup unread \/
         \A n \in Opened : pulls[n].created <= entered["pulls"] =>
           \E p \in Range(prs) : p.number = n
    /\ "runs" \in Truncated \cup unread \/
         \A r \in StartedRuns : ci[r].start <= entered["runs"] =>
           \E s \in Range(runs) : s.run.id = r.id
    /\ "shas" \in Truncated \/ "checks" \in unread \/
         \A p \in Range(prs) : \A c \in Range(p.commits) : c.sha \in checked
    /\ "commits" \in unread \/
         \A p \in Range(prs) :
           p.number \in Agentic /\ p.merged # 0
             /\ Len(p.commits) < Limit("commits") * PageSize => p.commits = pulls[p.number].commits

(* A sweep of a repository is refused by its own ledger only if a run      *)
(* started while the listing of runs was being read, which shifts an entry *)
(* over to the next page; attempts, pushes and pull requests do no harm.   *)
RunsMoved ==
  /\ Limit("runs") > 1
  /\ \E r \in StartedRuns :
       r.attempt = 1 /\ ci[r].start > entered["runs"] /\ ci[r].start <= entered["jobs"]

IngestibleUnlessMoved == phase = "rejected" => RunsMoved

(* The parity contract of collectHistory: jobs are fetched for the runs    *)
(* the assembler emits jobs for, once for each run id, and they are those  *)
(* of the attempt they are filed under, unless the run was started again   *)
(* after it was listed.                                                    *)
JobsWhereTheyBelong ==
  Assembled =>
    LET index == PrIndex(Range(prs)) IN
    /\ {k[1] : k \in DOMAIN jobs} =
         {runs[i].run.id : i \in {j \in DOMAIN runs : Correlates(runs[j], index)}}
    /\ \A k, l \in DOMAIN jobs : k[1] = l[1] => k = l
    /\ \A k \in DOMAIN jobs :
         \/ jobs[k].run.attempt = k[2]
         \/ jobs[k].run.attempt > k[2] /\ jobs[k].start > entered["runs"]

Bundle == BuildNormalizedBundle(Range(prs), Evidence, Usage)
TotalOf(record) == Cli!CostOfRecord(record, {"measured"})

(* The known money that task t holds on revisions of pull request p        *)
(* without a date, which are no executions of the bundle if others are.    *)
UndatedMoney(p, t) ==
  LET undated == {c \in Range(p.commits) : c.date = 0}
      lost == IF undated = Range(p.commits) THEN {} ELSE {<<p.number, c.sha>> : c \in undated}
  IN CostOf({c \in t.comps : c.ev.exec \in lost})

(* The header of bundle.js: "totals stay complete", and consumers who      *)
(* compare the seams compare economics.  The validator of the other side   *)
(* accepts the bundle, and the bundle gives every task the known cost that *)
(* the books of the ledger give it, but for the money of revisions without *)
(* a date beside others that have one.                                     *)
SeamsAgreeButUndated ==
  phase = "reported" =>
    LET audit == Audit
        books == Reconstruct([i \in DOMAIN audit |-> audit[i].ev])
        bundle == Bundle
    IN /\ Cli!ValidateNormalizedBundle(bundle)
       /\ {bundle[k].task : k \in DOMAIN bundle} = {p.number : p \in Range(prs)} \cap Agentic
       /\ \A k \in DOMAIN bundle : \A p \in Range(prs) :
            LET t == books[p.number] IN
            bundle[k].task = p.number => TotalOf(bundle[k]) = KnownCost(t) - UndatedMoney(p, t)

(* The header of bundle.js: the rules of the other side "have nothing to   *)
(* misfire on".  They charge a bundle only for revisions dated after the   *)
(* close of a pull request that was listed as closed.                      *)
NothingToMisfireOn ==
  phase = "reported" =>
    \A f \in Cli!DetectCertainWaste(Bundle) :
      /\ f.rule = "after_abort"
      /\ \E p \in Range(prs) :
           /\ p.number = f.task /\ p.merged = 0 /\ p.closed # 0
           /\ \E c \in Range(p.commits) : c.sha = f.exec /\ c.date > p.closed

(* However the repository moves between its requests, a sweep that begins  *)
(* while there is an agentic pull request ends in a report, unless a       *)
(* request fails, pull requests were not read or cut off, or a run started *)
(* while runs were listed.                                                 *)
SweepReports ==
  phase = "pulls" /\ page = 1 /\ Opened \cap Agentic # {} ~>
    \/ phase \in {"reported", "failed"}
    \/ phase = "refused" /\ "pulls" \in unread \cup cut
    \/ phase = "rejected" /\ RunsMoved
=============================================================================
