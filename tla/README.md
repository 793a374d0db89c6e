# Beetlejuice: specifications and proofs

Beetlejuice turns evidence about agent-driven engineering work (pull requests,
executions, CI runs, model calls and what they cost) into an audit: which tasks
succeeded, what they cost, and which of that cost was *certainly* avoidable.
This directory holds TLA+ models of that pipeline, the TLC configurations that
check them and TLAPS proofs about them. Paths below are relative to the
repository root.

## 1. The system

| Part | State | Operations | Talks to |
|---|---|---|---|
| Core event vocabulary, `packages/core/src/events.js` | none | `normalizeEvent` validates, stamps and freezes one event | called by the ledger |
| Tenant ledger, `core/src/analytics/tenant.js` | stored events, sequence counter, set of supplied ids | `append`, `appendAll`; `audit`, `tasks`, `exportCoreAudit` read | every adapter calls it |
| Task reconstruction, `core/src/task.js` | an accumulator per task, rebuilt at every audit | fold of the ledger (`applyEvent`), then `finalizeTask` | reads the ledger |
| Certain waste, `core/src/waste/` | the refs claimed during one analysis | four rules propose candidates, the engine claims and sums | reads reconstructed tasks |
| Economics, `core/src/economics/` | none | rollup per task, summary, evidence state | reads tasks and findings |
| Audit export, `core/src/export.js` | none | wraps an audit, refuses an unbalanced one | read by CLI and privacy gate |
| GitHub adapter, `packages/github/src/` | none between calls; a sweep reads a live repository page by page | collect, map, assemble; normalize webhook deliveries; offline bundle; cost sources | produces ledger events |
| Privacy gate, `packages/privacy/src/` | an export batch | classify, cap, suppress, bucket, add noise | consumes audits |
| CLI, `apps/cli/src/` | none | own input schema and waste rules, core-audit import, reports | consumes all of the above |
| Factory workflow, probe script | - | automation of the repository, manual probe | not part of the product |

The program is single-threaded JavaScript, so the hard behaviour is not
preemption. It is in *what arrives in which order*: adapters deliver the same
evidence again, late, in part, or in another order (webhook against sweep); a
batch fails in the middle; one bad event refuses the audit of a whole
append-only ledger; rules of the waste engine overlap on the same money; a
sweep reads a repository that changes under it; the same evidence reaches a
report through three different seams (ledger, bundle, imported audit); and a
privacy gate counts one batch with two pieces of code. `PROJECT.json` lists
these hazards at their lines.

What makes each part correct:

* ledger - idempotent, append-only, numbered in storage order, loses nothing
  without a reason;
* reconstruction - outcome, cost and positions follow from the evidence held,
  not from how it was delivered; money is conserved;
* waste - a charge is justified by evidence, made once, never exceeds the cost,
  and is withdrawn only by contrary evidence;
* adapter - webhook, sweep and bundle describe the same history alike, what
  they emit never makes a ledger un-auditable, and what a sweep did not read is
  said;
* privacy gate - counts are conserved through suppression, a caller can only
  tighten the policy, and what is told of a task is what its ledger knows;
* CLI and export - rows of a report add up to its headline, and an imported
  audit is accepted exactly as the core made it.

## 2. Modules

| Module | Models | Kind |
|---|---|---|
| `EvidenceLog` | what a ledger promises: an idempotent append-only log | abstract specification |
| `TenantLedger` | `tenant.js` with the verdict of `normalizeEvent` | state machine, implements `EvidenceLog` |
| `TenantLedgerProofs` | - | proofs |
| `CoreEvents` | vocabulary and validation rules of `events.js` | constants and operators |
| `TaskFold` | `task.js` (`applyEvent`, `finalizeTask`, the fold), and the rollup of `economics/cost.js` | operators over `CoreEvents` |
| `TaskReconstruction` | a ledger growing event by event and what its reconstruction says | state machine over `TaskFold` |
| `FiniteSums` | - | proofs: induction over finite sets and numbers, sums over finite sets, sorting by ranks |
| `TaskFoldProofs` | - | proofs: what one event does to a task, what a whole ledger tells of one |
| `CertainWaste` | `waste/engine.js` and the four rules | state functions over `TaskReconstruction` |
| `CoreAuditExport` | `economics/` and `export.js`, and their consumer in the CLI (`core_audit.js`, seam B of `audit.js`) | state functions over `CertainWaste` |
| `CoreAuditProofs` | - | proofs about `TaskReconstruction`, `CertainWaste` and `CoreAuditExport` |
| `GithubMapping` | `packages/github`: `map/`, `webhook/normalize.js`, the run/job money guard of `cost-source.js` | operators over `TaskFold` |
| `GithubIngestion` | a moving repository, its webhook deliveries, sweeps, the idempotency filter and the ledger | state machine composing `GithubMapping` and `TaskFold` |
| `GithubIngestionProofs` | - | proofs |
| `NormalizedAudit` | `apps/cli`: `schema.js`, `waste.js`, `economics.js`, rows of `audit.js` | operators |
| `TenantInput` | a tenant's bundle growing export by export | state machine over `NormalizedAudit` |
| `TenantInputProofs` | - | proofs |
| `OfflineBundle` | `packages/github/src/bundle.js` | operators over `GithubMapping`, instantiating `NormalizedAudit` |
| `GithubCollector` | `collect/client.js`, `collect/history.js`, `github_mode.js`, request by request over a repository that moves | state machine over `OfflineBundle` |
| `GithubCollectorProofs` | - | proofs |
| `SafeInsight` | `packages/privacy`: normalization, audit bridge, suppression, noise, envelope | state machine over `TaskFold` |
| `SafeInsightProofs` | - | proofs, over `TaskFoldProofs` for the bridge |
| `MC*` | alphabets and constants for TLC | instances |

**TenantLedger.** `events`, `seq` and `eventIds` are the private fields of
`TenantLedger`. A call runs to completion in the code; the model takes one step
per event of the batch, with the unvisited rest in `pending`, and no other call
starts meanwhile. A step is `Store`, `RefuseDuplicate` or `RefuseMalformed`,
the three ways `append` can end; the last two throw and so abandon the batch.
`attempted` and `skipped` are history for the properties. The order of the
code is kept where it matters: the number is taken first, the id is recorded
before the event is validated.

**TaskFold and TaskReconstruction.** The code folds the whole ledger at every audit. The
model advances the accumulator of the fold as each event is stored and defines
what `finalizeTask` computes as operators of it, so that every state of a
behaviour shows the audit of one ledger prefix. `ApplyEvent` has one case per
case of `applyEvent`. Exceptions become a value: `AuditableTask` is false where
`registerComponent` or `finalizeTask` throws, and `Auditable` is false when any
task of the ledger throws, since then no task is returned. `execs` is a total
function with `announced` for "is in the map"; component buckets are one set.
Amounts are small naturals, `None` an unknown cost.

**CertainWaste** adds no state: rules, claims and findings are functions of the
accumulator. Candidates of one rule on one task have disjoint refs, so the order
inside a rule (which only numbers finding ids) is left out; the order between
tasks and between rules decides who claims what and is kept in `Claimed`. Times
are naturals; the comparison of the rule (`>=`) is kept.

**CoreAuditExport** gives the numbers an audit has when it leaves the core (the
rollup by kind and by task, the evidence state, the summary) and when the CLI
takes it in: the validator recomputes some of them, and the report sums the rows
with code of its own. Every ledger prefix of `TaskReconstruction` is exported,
so the run shows that both sides agree on whatever the core can produce.

**GithubMapping** is the mapping layer as pure operators: a pull request to its
records (task signals, one execution per revision ordered by committer date,
supersessions, the terminal signals), runs, jobs and checks to cost components,
correlation with the index of pull requests, event ids, the order of the
assembled stream and the handlers of webhook deliveries. An id is a tuple of its
parts. Names are kept (`CorrelateWorkflowRun`, `HandleWorkflowJob`,
`AssembleAudit`).

**GithubIngestion** lets the repository move - open, push, force push, reset,
absorb (the base branch takes over commits), close, merge, reopen, jobs, run
attempts, checks, late usage exports; these actions are GitHub's and its users',
hence external in the map. Each step GitHub announces adds a delivery to `net`,
from which nothing is removed: a delivery may be lost (never handled), late,
repeated or out of order. `Deliver` normalizes one with the index of the last
sweep, `Sweep` collects and assembles the repository as it is at one instant;
both append what the upstream idempotency filter lets through, the filter
`webhook/normalize.js` requires of its caller: `Unstored` drops the records whose
id the ledger has and keeps the order of the rest. `Incremental` is the
reconstruction of the ledger so grown, `Historical` that of a sweep into an
empty ledger. A `scenario`, fixed in the initial state, says which moves and
committer dates occur.

**GithubCollector** takes the sweep apart. `collectHistory` is one asynchronous
function, so the model has one action for each request it awaits (`ListPulls`,
`ListCommits`, `ListRuns`, `ListJobs`, `ProbeChecks`) and one for each step
between phases; anything may happen to the repository between two of them.
`page`, `pages` and `todo` are the local variables of the loops, `prs`, `runs`,
`jobs`, `probed` and `checked` what has been read. A request may fail in two ways.
A network error or an answer that is not a success throws (`RequestFails`): the
exception leaves `collectHistory`, all that was read is lost, and the CLI exits.
A success whose body cannot be read is `json = null` (`Unreadable`,
`client.js:81-88`): the page adds nothing, the listing goes on with the next one,
and nothing is flagged. `RunGithubReadOnly` is what the CLI does with a complete
sweep: no agentic pull request refuses it, an event id that occurs twice rejects
it, else it is reported by the ledger (`Audit`). The bundle of the same evidence
(`Bundle`) is not made by this command; the properties compare the two. `cut`,
`unread` and `entered` are history for the properties. The request for checks has
no pagination (`history.js:147`); the page limit of job lists and its flag are not
modelled, since an attempt has one job.

**OfflineBundle** places known money on executions as `bundle.js` does: on the
revision that provably spent it, else on the last dated revision, else on one
execution that spans the task.

**NormalizedAudit and TenantInput.** The CLI's own validator, waste rules and
report rows are operators over the records of a bundle. `TenantInput` is the
tenant: executions, retries, supersessions, failures and outcomes are added or
corrected between exports, in any order, and only bundles the validator accepts
leave `buildNormalizedBundle`.

**SafeInsight.** A batch is made of observations and of audited tasks, the latter
mapped from a ledger that goes on growing. `Rejection` and
`NormalizeTenantRecord` are the gate for one record;
`ExportGlobalLearningRecords` the envelope for a batch under one request. The
requests are quantified in the properties, not chosen in a step, since an export
changes nothing. Nine of the seventeen dimensions stand for the kinds there are
(enumerations, numbers with a bucket, flags, classified texts, two keys for one
field), with all three that an input must have (`Required`). The bridge derives
only the outcome of these, so a task contributed without a hint on its class and
language is always rejected; `Hints` has good, bad, foreign, forbidden and absent
ones. The pseudo-random draw is the parameter `Noise`.

## 3. What the runs check

Every run is bounded: ledgers of the core by scenario (`Scenarios`: an alphabet
of evidence, a length, and how often one event is stored) or by `MaxSeq`,
repositories by scenario (moves, dates, steps, failed requests, page limits),
bundles by number of records, executions and exports. The alphabets in the `MC`
modules are chosen so that each case of the code and each overlap of rules
occurs within the bound. Most specifications have no deadlock to look for:
adapters may stop delivering and users may stop working (and the bounds stop
them), hence `CHECK_DEADLOCK FALSE`. The collector's runs do check it: a sweep is
never stuck between two requests, and one that ended may be run again.

| Run | Configuration | Shows |
|---|---|---|
| `tenant_ledger` | `MCTenantLedger.cfg` | typed state; storage order is numbering (`SeqStrictlyMonotonic`); no supplied id twice (`CallerIdsUnique`); evidence is lost only to a stored or a burned id, and what an exception abandons takes no id (`NoSilentLoss`); two stored ids clash only where a caller supplied a generated one (`IdsClashOnlyIfForged`); refinement of `EvidenceLog` |
| `core_audit` | `MCCoreAudit.cfg` | of every ledger: the outcome is what the evidence supports (`OutcomeFromEvidence`), is never weakened (`OutcomeNeverWeakens`), and like cost and reversal is independent of order (`OrderFreeFacts`); money is conserved over announced, unannounced and restarted executions (`MoneyConserved`); the positions the rules compare are those of the last start, finish, abort (`PositionsFromEvidence`). Of its audit: a charged repeat has an uncharged original and no contrary run or attempt beside it (`RepeatsHaveFreeOriginal`), and only contrary evidence clears it (`RepeatChargesStand`); overlapping rules and tasks charge a ref once (`ChargedOnce`); work charged as done after an abort started last behind every abort of a task that ended aborted (`AbortChargesJustified`); the exported audit is accepted by the CLI and its rows add up to its summary (`ReportAddsUp`) |
| `ingest_histories` | `MCIngestHistories.cfg` | a sweep reports a pull request as it is (`SweepTellsHistory`); the ledger stays auditable (`AuditableIfOrdered`), is made whole by a sweep (`AgreesUnlessRevived`) and never supersedes the merged revision (`MergedNeverReplacedIfTied`), each under the condition its name hints at |
| `ingest_ci` | `MCIngestCi.cfg` | every cost a sweep shows reaches the books, and what the filter drops of a delivery is there already, also of an attempt no sweep tells of any more (`EvidenceComplete`); minutes are paid once (`PaidOnceIfUsageKnown`), bindings are to announced revisions (`BindingsNeverInvented`) |
| `collect` | `MCCollect.cfg` | while the repository moves between requests: of listings answered with readable bodies, what was there when one began is read or the listing is flagged (`NothingSilentlyMissed`); a sweep is rejected only if a run shifted the listing (`IngestibleUnlessMoved`); jobs are filed under the attempt they belong to (`JobsWhereTheyBelong`); ledger and bundle know the same cost of every task, but for money on revisions without a date (`SeamsAgreeButUndated`), and the CLI's rules charge a bundle only for work dated after a close (`NothingToMisfireOn`); a sweep that is begun ends in a report unless a request fails, pull requests are unreadable or cut, or a run shifts the listing (`SweepReports`) |
| `normalized_audit` | `MCTenantInput.cfg` | rows add up to the headline (`RowsAddUp`); some work of a task survives the rules (`SomeWorkSurvives`, with the circles in which it does not); the order of listing does not matter (`OrderIndependent`); a charge is withdrawn only with its abort (`ChargesStand`) |
| `privacy` | `MCSafeInsight.cfg` | published, suppressed and rejected is what was provided (`BooksBalance`); no request loosens the policy or gets less noise than it has (`RequestsOnlyTighten`); one record more raises one published count by one or makes one cohort appear, with noise or without (`OneRecordCountsOnce`); what is told of a task is what its ledger knows (a known cost of 0 reads as unknown), and it is rejected for its hints or want of them only (`LearnsWhatLedgerKnows`) |

Bounds. Three deliveries suffice to re-deliver an id, burn it or split a batch,
and six numbers allow two batches of that size to interleave. Every two-event
order of outcome signals occurs within five events, with events of a second task
between them. The deepest interaction of executions (start, start, supersede,
cost, restart) and of a retried attempt (original, two retries, another failure,
a success) needs five events; repeated runs (original, repeat, contrary run,
other task, unfinished run) and a duplicated run inside a superseded or aborted
execution with a second task using the same refs get six; so does a task with
two aborts, an execution that is started before one and again behind
it, and a failure or a close to end it. Event types that only count
(`retry_recorded`, `human_rework_recorded`) are left out of the alphabets of the
core; retries occur in that of the privacy gate. A pull request of three
revisions under equal, absent and descending dates shows every order of three
commits; five steps of the repository fit open, push, force push, close and
reopen or merge, with sweeps and deliveries between any two of them, which are
not bounded. Two pull requests on one branch with two run attempts are the least
that makes correlation ambiguous. The collector reads pages of one entry, so
that every second entry is on another page and three steps of the repository can
shift a listing, start a run again and end it while it is read; limits of one
page cut every listing. Two failures allow an unreadable answer in each of two
phases, or one in a sweep and the end of the next. Three executions of one
record make a chain and a circle of retries; two records make a shared task id.
The draws of `Noise` run from -3 to 1, so that a cohort at the threshold is also
clamped at 0.

Fairness. `GithubCollector` assumes weak fairness of `Collect`: a request is
answered or fails, and the asynchronous function goes on. Nothing is assumed of
users or of the operator, who need not run the command again, and nothing forces
a request to fail or an answer to be readable. `SweepReports` speaks of one sweep,
from its first request to its end, whatever the repository does meanwhile. The
other specifications state no fairness: nothing obliges an adapter to deliver,
and every call of the core ends by itself.

### Disagreements between code and comments

Five runs expect a violation: the property is a sentence of a document or a
comment, the counterexample what the code does.

| Run | Sentence | What happens |
|---|---|---|
| `ingest_skewed` | `superseded-execution.js:6-7` replaced work "can no longer contribute to the accepted outcome" | a head dated before its parent is superseded by it, merged, and charged as waste |
| `ingest_absorbed` | `webhook/normalize.js:14-16` an idempotency filter "makes webhook + sweep re-ingestion safe" | event ids carry the index of a revision; when the list loses its first commits, a supersession is stored whose replacement started earlier: every audit throws |
| `ingest_late_usage` | `cost-source.js:147-149` "can never double-count BY CONSTRUCTION" | the guard looks at the usage records of today, not at what was ingested: a late record pays twice |
| `sweep_truncation` | `packages/github/README.md:144-146` sweeps are bounded by four limits "and truncation is reported" | a commit list cut at `maxCommitPagesPerPr` is not: the last revisions of a long pull request, and their checks, are missing from an audit that reports no truncation |
| `mode_disagreement` | `apps/cli/src/waste.js:24-27` on a disagreeing retry "the group abstains instead of charging" | only that retry is left out (155-164); the other identical retries of the attempt are charged |

What does hold is stated by a property of a passing run: `SweepTellsHistory` and
`MergedNeverReplacedIfTied`, `AuditableIfOrdered`, `PaidOnceIfUsageKnown`,
`NothingSilentlyMissed`, `ChargesStand`. Others met while modelling have no run
of their own; where a property says what holds instead, it is named.

* `webhook/normalize.js:4-6`, "incremental ingestion can never diverge from the
  historical reconstruction": a delivered close is never taken back, so a
  reopened pull request stays failed in a ledger fed by deliveries where a sweep
  into an empty one says unresolved (`AgreesUnlessRevived`).
* `webhook/normalize.js:200-203`, "a delivery and a later sweep produce identical
  events": when two pull requests share a revision, the delivered job belongs to
  the first, the swept one to the task its run is linked to, under one event id
  (`BindingsNeverInvented`: to a task that started the revision in both cases).
* `packages/github/src/bundle.js:43-45`, "totals stay complete": money bound to a
  revision without a date is in no execution of a bundle once another revision
  has one (`SeamsAgreeButUndated` says that this is all the seams differ by).
* `packages/github/src/bundle.js:28-32`, the rules "have nothing to misfire on": a
  commit dated after the close of its pull request is charged as work after an
  abort (`NothingToMisfireOn` says that nothing else is).
* `apps/cli/src/waste.js:3-5`, "Ambiguous evidence yields NO finding": executions
  declared retries of one another are all charged, and a superseded attempt and
  its charged retry each on the strength of the other (`SomeWorkSurvives`
  excuses both).
* `webhook/normalize.js:14-16`: without the upstream filter, the duplicate guard
  throws out of `appendAll` and the rest of the sweep is lost (`tenant_ledger`,
  `NoSilentLoss`).
* `task.js:165-167`, "delivery order cannot manufacture or break evidence":
  exchanging two starts makes `BAD_SUPERSESSION` refuse the ledger
  (`OrderFreeFacts` says what is free of order).
* `execution-after-abort.js:25-27`: an execution begun before the abort is
  charged once a second start event moves it behind the abort
  (`AbortChargesJustified` speaks of the last start).
* `tenant.js:70`: generated ids are unique unless a caller supplies
  `evt-000002` (`IdsClashOnlyIfForged`).
* `engine.js:9-12` says units are stripped for an accepted finding, but a
  candidate dropped for costing nothing claims its refs too (`Claimed`).
* A page whose body cannot be read is skipped without a flag
  (`client.js:84-88`, `history.js:68,91,103,134,148`); if it held the agentic pull
  requests, the CLI says that its policy matched none (`collect`,
  `NothingSilentlyMissed` and `SweepReports` except such listings).
* An audited task without hints is always rejected by the privacy gate as
  missing a required field (`transform.js:121`; `LearnsWhatLedgerKnows`).
* The CLI's validator compares findings with the summary and never the sum of
  the rows with its known cost; the numbers agree because the core computes them
  so (`ReportAddsUp`). It also lets several records of a bundle share a task id
  (`RowsAddUp` assumes they do not).

## 4. What is proved

The proofs hold for every value of the constants that satisfies the named
assumptions, all of them evaluated by TLC on the instances:

* `LedgerAssumption`, `AutoIdAssumption`: ids are ids, generated ones are
  distinct among themselves;
* `VocabularyAssumption`: `None` is not a value, tasks are numbers, tasks and
  executions are finite sets (a ledger names finitely many);
* `ScenarioAssumption`, `InputAssumption`: what is delivered are events, which
  the privacy bridge finds validated, and times and scopes are numbers;
* `MappingAssumption`, `CollectorAssumption`: executions are pairs of a task and
  a revision, there are finitely many run attempts, attempts count from one, a
  job belongs to one run, pull requests are numbered in the order of their
  opening, pages and limits are positive;
* `IngestionAssumption`: run attempts, jobs and checks are finite and known by
  their ids, a job belongs to one attempt, the vocabulary has the refs and
  labels of what is mapped, the dates of a scenario are finitely many naturals;
* `PolicyAssumption`, `RequestAssumption`: a policy's threshold is a natural no
  less than the absolute minimum, a request's threshold, cap and epsilon are
  integers or absent;
* `NilAssumption`: an absent value is not a failure category.

`OneRecordMovesOneCount` has one hypothesis of its own, that the noise drawn for
a cohort is a whole number: `dp.js:148` rounds the noisy size, and a whole size
plus a draw rounds to the size plus the rounded draw.

| Theorem | Property | Argument |
|---|---|---|
| `LedgerTypeOK` | `TypeOK` | inductive as it stands |
| `SeqMonotonic` | `SeqStrictlyMonotonic` | needs that no stored number exceeds `seq` |
| `SuppliedIdsUnique` | `CallerIdsUnique` | needs that every stored supplied id is in `eventIds` |
| `ClashOnlyIfForged` | `IdsClashOnlyIfForged` | each stored id is the supplied one or that of its number; supplied ids are unique, numbers strictly increase, generated ids are distinct |
| `OnlyExplainedLoss` | `NoSilentLoss` | needs that every id in `eventIds` is stored or burned, and that each was carried by an event that `append` was called on (`IdsFromAttempts`) |
| `LedgerImplementsLog` | `ImplementsEvidenceLog` | `Store` maps to `Accept`, every other step to a stutter, from the id invariant |
| `TypeCorrect` | `TypeOK` | one lemma per operator of `applyEvent` |
| `OutcomeIsMeasured` | `OutcomeFromEvidence` | inductive invariant `SignalsFromEvidence`: each flag of the accumulator is set exactly when the ledger holds an event that sets it |
| `OutcomesOnlyStrengthen` | `OutcomeNeverWeakens` | the flags only grow, and the outcome is monotonic in them |
| `PositionsAreTheLedgers` | `PositionsFromEvidence` | inductive invariant `AllPlaced`, strengthened by "explicitly started implies announced": without it a first mention could overwrite a recorded start |
| `MoneyIsConserved` | `MoneyConserved` | inductive invariant `CompsFromLedger`: unless a ref was repeated, the components of a task are its component events; then the sum over events is a sum over components, regrouped by the execution each is filed under |
| `FactsAreFreeOfOrder` | `OrderFreeFacts` | `Told`: what a ledger says of a task, as a set of its events, determines the three facts; it holds of the accumulator (invariant `ToldAll`) and of `Reconstruct`, by induction over the events it has read (`ReconstructTells`); exchanged ledgers hold the same events of every kind (`SameKinds`), and the sum of costs is taken over the same components, numbered differently (`SameCosts`) |
| `RefsChargedOnce` | `ChargedOnce` | between rules or tasks by the claims of the earlier one (`EarlierClaims`); within a rule because its candidates do not overlap (`CandidatesDisjoint`) and, invariant `RefsUnique`, a ref names one component of a task |
| `RepeatsRepeatFreeWork` | `RepeatsHaveFreeOriginal` | the original is the first of its kind, and a repeat has an earlier one: if the original were charged as well there would be one before the first; the partition of a charge holds every run and attempt at its inputs, and it passed the guards of the rule |
| `ChargesStand` | `RepeatChargesStand` | a new component leaves a candidate in place unless it contradicts it (`DuplicateStands`, `RetryStands`; invariant `SeqBounded`: it comes after all others), and a candidate is claimed by nobody else while tasks share no ref (`RepeatsAreReported`) |
| `AbortsJustifyCharges` | `AbortChargesJustified` | `SignalsFromEvidence` turns the outcome into events, `AllPlaced` the positions; so that the start compared with the last abort is the last start; invariant `AnnouncedByEvent` excludes executions that no event placed |
| `ReportAgrees` | `ReportAddsUp` | in an auditable ledger the components of the seen tasks are finite sets of typed events (`SoundBooks`), and every number on either side is a sum over them, regrouped by task, kind or outcome (`SumGrouped`, `SumSplit`); findings are disjoint (`RefsChargedOnce`), so waste is at most cost |
| `NothingIsSilentlyMissed` | `NothingSilentlyMissed` | inductive invariant `IInv`: a pull request keeps its place from the oldest while newer ones come, a run only moves towards the end of the listing, so what a page held is read or on a later page; each `*Inv` says it for one listing that had no unreadable answer, and when its last page is short nothing is left |
| `JobsAreWhereTheyBelong` | `JobsWhereTheyBelong` | inductive invariant `JInv`: the keys of `jobs` are those of the correlated runs passed so far, and an attempt later than the one listed started after the listing |
| `OnlyMovesReject` | `IngestibleUnlessMoved` | also from `JInv`: until a run starts (`PlacedInv`), an entry is at the rank of its run and before the next page, so none is listed twice, whatever pages were skipped, and an event id occurs twice only if a run does (`DuplicatesNeedARunTwice`) |
| `NothingMisfires` | `NothingToMisfireOn` | the bundle's executions name no relation, so the relational rules add nothing to any findings (`RulesOnUnrelated`) and all that is found, record after record, is charged for an abort (`LateFindingsOnly`); a span starts when its pull request was opened, which invariant `DatesInv` puts before the close, so what is charged is a revision, and the sorted revisions are those of the list (`OrderedCommits`) |
| `Typed` | `TypeOK` of ingestion | invariant `Books`: the repository is typed and its lists of commits have each revision once with its date (`Core`), every delivery in the net is one GitHub sends, and every stored record is one the mapping makes (`Made`), its id stored once (`Ledger`); each handler and the assembler yield such records (`DeliveryBatch`, `AuditBatch`), sorted because their order is total (`PrecedesIsSooner`) |
| `NoBindingInvented` | `BindingsNeverInvented` | invariant `Bindings`: what the index lists was started in the ledger by the sweep that made the index, and what is bound was bound by an index (`IndexStarted`, `BindingsStarted`) |
| `NoEvidenceLost` | `EvidenceComplete` | invariant `SweptStored`: since the last sweep the ids of all records of a sweep are stored; ids of cost records and refs of components determine one another (`RefsTellIds`, `IdsTellRefs`). What is stored under an id was made by the mapping (`Ledger`), so a dropped component finds its ref there (`DroppedIsStored`) |
| `PaidOnce` | `PaidOnceIfUsageKnown` | invariant `PricedAlike`: every stored cost was decided on the usage of today, so a run has money only without and a job only with a usage record |
| `SweepsTellHistory` | `SweepTellsHistory` | the commits sorted by date are a permutation of the list (`ChronologyHolds`); every revision is started once, in that order, and finished as its place says (`AuditStory`); what a ledger tells of an execution by its last start and finish (`LedgerNarrates`) |
| `LedgerStaysAuditable` | `AuditableIfOrdered` | invariant `Stories`, see below |
| `MergedHeadStands` | `MergedNeverReplacedIfTied` | `HeadStands` of `Stories`: no finish of the last revision says superseded; with tied dates the last revision is the head (`TieKeepsOrder`) |
| `SweepsMakeUp` | `AgreesUnlessRevived` | `Stories`, `SweptStored`, and invariant `Endings`: what the ledger and the deliveries on their way say of the end of a pull request is how it ended, since what is closed does not move (`ClosedKept`) |
| `RowsAlwaysAddUp` | `RowsAddUp` | `Detected`: what the rules find, applied record after record, is one finding per proposed execution, by the first rule that proposes it; then sums over findings regroup by record, and what a record can lose is part of what it cost |
| `SomeWorkAlwaysSurvives` | `SomeWorkSurvives` | the execution that started last is not superseded; if it is charged as a retry the charged retries either reach an uncharged original or are all retries of one another, a circle |
| `OrderNeverMatters` | `OrderIndependent` | sorting permutes the records (`SortingPermutes`), and the findings depend on the set of executions, not on their list |
| `ChargesAlwaysStand` | `ChargesStand` | invariant `BundleInv` (the validator's verdict); every step only adds to what a bundle knows, and ids are unique in a record, so what an id referred to stays the same (`StepContinues`, `ProposalStands`) |
| `PolicyIsAFloor` | `RequestsOnlyTighten` | threshold and cap are monotonic in the request and bounded by the policy, and more epsilon than its ceiling is the ceiling (`EpsilonCeiling`); the batch is a sequence, so cohorts are finite and counted by naturals |
| `BooksAlwaysBalance` | `BooksBalance` | cohorts partition the accepted records, and each is published or suppressed as a whole |
| `OneRecordMovesOneCount` | `OneRecordCountsOnce` | the gate of a longer batch accepts the same records at the same places, so a cohort gains the new position or nothing; caps and thresholds are monotonic in a cohort's size |
| `BridgeLearnsTheLedger` | `LearnsWhatLedgerKnows` | invariant: the ledger of a scenario is typed and validated; so what `Reconstruct` makes of it is a typed task (`ReconstructTells` of `TaskFoldProofs`) whose components are finite and all collected (`AllCollected`), the bridge says of it the keys and values of `Bridged`, each field has one source, what the bridge derives or a hint (`BridgeSources`), and every derived value is in the words of the gate (`BridgeUnobjectionable`), so that what is rejected is rejected for its hints (`RejectedForHints`) |

The central argument of ingestion is `Stories`. An event id of a revision has its
place in the list sorted by date, the ledger stores an id once, and reconstruction
refuses a ledger whose superseded execution started behind its replacement; so
the invariant must say which ids can still arrive. A step of the repository moves
the places (`Shifts`): while pull requests only grow a revision moves to a higher
place, with tied dates and no reset to a lower one, in both cases the last place
is taken by the last revision or a new one, and a revision that keeps its place
keeps all before it. `Storied` then says of the ledger: a finish is stored with
its start (`StartedFirst`), stored places of a revision are all on one side of its
present one (`KeepsSide`), what is stored at its present place was started behind
all revisions before it (`InLine`), the last revision was never replaced
(`HeadStands`), and, the conclusion, whoever is replaced for good was so by one
that started behind its last start (`Overtaken`). A sweep keeps it
(`StorySwept`): a start that is new at a place comes after every start before it,
and a replaced revision that starts again at another place is finished again too.
Neither `InLine` nor `HeadStands` is inductive without `KeepsSide`, and
`KeepsSide` fails as soon as a dropped revision can come back or dates and a
force push reorder the list: those are the histories of `ingest_absorbed`.

What a fold over data computes is proved by minimal counterexample: the
library's induction theorems take an operator, which the provers cannot
instantiate, so `FiniteSums` derives from the well-foundedness of the naturals
induction over sets of numbers and over the subsets of a finite set, and sums
and the recursions of `Reconstruct` and `DetectCertainWaste` are recursive
functions.

Only model-checked:

* liveness (`SweepReports`), which rests on fairness;
* `SeamsAgreeButUndated`, which relates the mapping, the fold and the bundle over
  whole sweeps;
* the type invariant of the collector: of its conjuncts, that about the events of
  a report needs the lemmas on the mapping, which are proved over the variables
  of `GithubIngestion`.

## 5. Not modelled

Wording (explanations, formatting, Markdown), single-field syntax of schemas and
envelopes, analysis periods and token counts, freezing and cloning, HTTP details
and redaction, cryptography of webhooks and app tokens, the migration of version
1 records, the demonstration data, the probe script and the factory workflow:
none of them decides a state, and `PROJECT.json` gives the reason for each
part. Malformed deliveries, which the code ignores, are not sent.

Amounts are small naturals or unknown: rates, multipliers and composition of
cost sources, and sums beyond 2^53, are outside the instances. A sweep of
`GithubIngestion` reads the repository at one instant; that a sweep in pages
gives something as good is what `GithubCollector` is about, whose ledger is a
fresh one. In it an attempt of a run has one job, and checks are complete when
they are probed. Of the privacy gate eight dimensions of kinds already present are
left out, and the scan for raw content is a predicate of texts.

## 6. Plan

1. Money on bounded integers: rates and composition of cost sources, the balance
   check near 2^53.
2. Incremental ledgers fed by paginated sweeps (`GithubCollector` with the
   idempotency filter of `GithubIngestion`).
3. Proofs: the lemmas on the mapping in a module of their own, for the collector
   to share; then `SeamsAgreeButUndated`, by sums over the components of a task
   regrouped by the execution the bundle places them on.
