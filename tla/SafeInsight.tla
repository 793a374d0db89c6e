----------------------------- MODULE SafeInsight -----------------------------
(***************************************************************************)
(* The privacy gate (packages/privacy): audited tasks and observations     *)
(* made by hand are normalized to abstract records (transform.js), and a   *)
(* request exports the batch under one purpose (exporter.js): rows, counts *)
(* of cohorts, or counts with noise.  The ledger grows while tasks are     *)
(* contributed, so that a batch may hold one task at several times.        *)
(*                                                                         *)
(* Nine of the seventeen dimensions are modelled, some of each kind.      *)
(* Costs are in tenths of a dollar.  The content scan is modelled for      *)
(* texts; values of the closed vocabulary hold nothing it looks for.       *)
(***************************************************************************)
EXTENDS TaskFold

CONSTANTS
  Policies,       \* PURPOSE_POLICIES, by purpose
  Forbidden,      \* foreign keys that a forbidden pattern matches
  Family,         \* classifyAgentFamily, of each text that is safe
  Noise(_, _, _), \* the rounded draw for a seed, cohorts and an epsilon
  Requests,       \* the requests operators make
  Hints,          \* what a tenant adds to an audited task
  Scenarios       \* events ingested, observations made, and their bounds

ABSOLUTE_MINIMUM_COHORT == 2

ASSUME PolicyAssumption ==
  \A p \in DOMAIN Policies :
    /\ Policies[p].minimumCohort \in Nat
    /\ Policies[p].minimumCohort >= ABSOLUTE_MINIMUM_COHORT
    /\ Policies[p].maximumRowsPerCombination \in Nat
    /\ Policies[p].maximumRowsPerCombination >= Policies[p].minimumCohort
    /\ Policies[p].maximumEpsilon \in Nat \ {0}

ASSUME RequestAssumption ==
  \A r \in Requests : \A n \in {r.threshold, r.cap, r.epsilon} : n \in Optional(Int)

(* The ledger has validated what it stores. *)
ASSUME ScenarioAssumption ==
  \A s \in Scenarios : \A ev \in s.evidence : ev \in Event /\ Conforms(ev)

VARIABLES scenario, ledger, batch
vars == <<scenario, ledger, batch>>

-----------------------------------------------------------------------------
(* vocab.js, bucketing.js. *)

(* The least value of each bucket but the first, and the labels. *)
Buckets ==
  [cost_bucket |->
     [bounds |-> <<1, 10, 100, 1000, 10000, 100000>>,
      labels |-> <<"zero", "under_1", "1_to_10", "10_to_100", "100_to_1000",
                   "1000_to_10000", "over_10000">>],
   tool_call_bucket |->
     [bounds |-> <<1, 2, 6, 21>>,
      labels |-> <<"zero", "one", "2_to_5", "6_to_20", "over_20">>],
   retry_bucket |->
     [bounds |-> <<1, 2, 4>>, labels |-> <<"zero", "one", "2_to_3", "over_3">>]]

Bucket(field, n) ==
  LET b == Buckets[field] IN
  b.labels[1 + Cardinality({i \in DOMAIN b.bounds : b.bounds[i] <= n})]

Vocabulary ==
  [task_class |-> {"bug_fix", "feature_addition", "refactoring", "dependency_upgrade",
                   "test_authoring", "documentation", "ci_maintenance", "code_review",
                   "incident_response", "other"},
   language_family |-> {"python", "javascript_typescript", "jvm", "go", "rust", "c_cpp",
                        "csharp_dotnet", "ruby", "php", "swift_kotlin", "shell", "sql", "other"},
   ci_result |-> {"none", "passed", "failed", "mixed", "skipped"},
   outcome |-> {"task_started", "task_aborted", "task_failed", "pr_created", "pr_closed",
                "pr_merged", "ci_passed", "ci_failed", "human_rework", "retry", "revert"},
   cost_bucket |-> Range(Buckets.cost_bucket.labels) \cup {"unknown"},
   tool_call_bucket |-> Range(Buckets.tool_call_bucket.labels) \cup {"unknown"},
   retry_bucket |-> Range(Buckets.retry_bucket.labels) \cup {"unknown"},
   human_intervention |-> BOOLEAN,
   agent_family |-> {"cli_coding_agent", "ide_assistant", "cloud_autonomous_agent", "ci_bot",
                     "orchestrator_framework", "scripted_pipeline", "custom"}]

Fields == DOMAIN Vocabulary

-----------------------------------------------------------------------------
(* transform.js: an input is a function from its keys to tagged values.    *)

Enum(v) == [is |-> "enum", v |-> v]
Number(v) == [is |-> "number", v |-> v]
Flag(v) == [is |-> "boolean", v |-> v]
Text(v) == [is |-> "text", v |-> v]

InputSpec(key, is, to) == [key |-> key, is |-> is, to |-> to]

(* INPUT_SPECS, in order: of two keys of one field the first present wins. *)
INPUT_SPECS ==
  <<InputSpec("task_class", "enum", "task_class"),
    InputSpec("language_family", "enum", "language_family"),
    InputSpec("ci_result", "enum", "ci_result"), InputSpec("outcome", "enum", "outcome"),
    InputSpec("cost_bucket", "enum", "cost_bucket"), InputSpec("cost_usd", "number", "cost_bucket"),
    InputSpec("tool_call_bucket", "enum", "tool_call_bucket"),
    InputSpec("tool_calls", "number", "tool_call_bucket"),
    InputSpec("retry_bucket", "enum", "retry_bucket"),
    InputSpec("retry_count", "number", "retry_bucket"),
    InputSpec("human_intervention", "boolean", "human_intervention"),
    InputSpec("agent_family", "enum", "agent_family"), InputSpec("agent_name", "text", "agent_family")>>

Keys == {INPUT_SPECS[i].key : i \in DOMAIN INPUT_SPECS}
Required == {"task_class", "language_family", "outcome"}

Defaults ==
  [ci_result |-> "none", cost_bucket |-> "unknown", tool_call_bucket |-> "unknown",
   retry_bucket |-> "unknown", human_intervention |-> FALSE, agent_family |-> "custom"]

SpecsOf == [field \in Fields |-> {i \in DOMAIN INPUT_SPECS : INPUT_SPECS[i].to = field}]

(* The spec a field is resolved by, at most one: the first key present. *)
Source(input, field) ==
  LET present == {i \in SpecsOf[field] : INPUT_SPECS[i].key \in DOMAIN input}
  IN {i \in present : \A j \in present : i <= j}

(* The reason for a value of another type than its key asks for. *)
WrongType ==
  [enum |-> "invalid_enum_value", number |-> "invalid_number", boolean |-> "invalid_boolean",
   text |-> "invalid_text_input"]

(* Why a value cannot be resolved, or None.  Numbers are whole, of either  *)
(* sign; a text without a family holds something the content scan finds.   *)
Problem(s, value) ==
  CASE value.is # s.is -> WrongType[s.is]
    [] s.is = "enum" /\ value.is = s.is ->
         IF value.v \in Vocabulary[s.to] THEN None ELSE "invalid_enum_value"
    [] s.is = "number" /\ value.is = s.is -> IF value.v < 0 THEN "negative_value" ELSE None
    [] s.is = "text" /\ value.is = s.is ->
         IF value.v \in DOMAIN Family THEN None ELSE "content_detected"
    [] s.is = "boolean" /\ value.is = s.is -> None

Resolve(s, value) ==
  CASE s.is \in {"enum", "boolean"} -> value.v
    [] s.is = "number" -> Bucket(s.to, value.v)
    [] s.is = "text" -> Family[value.v]

(* The reason an input is rejected for, None if it is not: foreign keys    *)
(* first (an input has at most one), then what is missing, then the first  *)
(* value that is no good.                                                  *)
Rejection(input) ==
  LET foreign == DOMAIN input \ Keys
      Reason(i) == Problem(INPUT_SPECS[i], input[INPUT_SPECS[i].key])
      bad == {i \in UNION {Source(input, field) : field \in Fields} : Reason(i) # None}
  IN CASE foreign # {} ->
            IF foreign \cap Forbidden # {} THEN "forbidden_field" ELSE "unknown_input_field"
       [] foreign = {} /\ ~(Required \subseteq DOMAIN input) -> "missing_required_field"
       [] foreign = {} /\ Required \subseteq DOMAIN input /\ bad # {} ->
            Reason(CHOOSE i \in bad : \A j \in bad : i <= j)
       [] OTHER -> None

(* The abstract record of an input that is not rejected. *)
NormalizeTenantRecord(input) ==
  LET Resolved(s) == Resolve(s, input[s.key])
      Value(field) ==
        LET source == Source(input, field) IN
        IF source = {} THEN Defaults[field] ELSE Resolved(INPUT_SPECS[CHOOSE i \in source : TRUE])
  IN [task_class |-> Value("task_class"), language_family |-> Value("language_family"),
      ci_result |-> Value("ci_result"), outcome |-> Value("outcome"),
      cost_bucket |-> Value("cost_bucket"), tool_call_bucket |-> Value("tool_call_bucket"),
      retry_bucket |-> Value("retry_bucket"),
      human_intervention |-> Value("human_intervention"),
      agent_family |-> Value("agent_family")]

-----------------------------------------------------------------------------
(* audit-mapping.js: an audited task as an input. *)

(* Mutant: components outside executions are not collected. *)
MutCollectComponents(t) == UNION {Attached(t, e) : e \in Executions}

CollectComponents(t) == (UNION {Attached(t, e) : e \in Executions}) \cup Unassigned(t)

DeriveCiResult(runs) ==
  LET statuses == {c.ev.status : c \in runs} IN
  CASE statuses = {"passed"} -> "passed"
    [] "passed" \in statuses /\ statuses # {"passed"} -> "mixed"
    [] OTHER -> "failed"

MapOutcome(t) ==
  LET kind == Outcome(t) IN
  CASE kind = "accepted" -> IF Reverted(t) THEN "revert" ELSE "pr_merged"
    [] kind = "failed" -> "task_failed"
    [] kind = "aborted" -> "task_aborted"
    [] kind = "unresolved" -> "task_started"

(* Money only if some is known, CI only if there was a run; hints win.     *)
MapAuditTaskToPrivacyInput(t, hints) ==
  LET comps == CollectComponents(t)
      Kind(type) == {c \in comps : c.ev.type = type}
      runs == Kind("ci_run_recorded")
      known == CostOf(comps)
      human == t.reworks > 0 \/ Kind("human_intervention_recorded") # {}
      derived == [cost_usd |-> Number(known), ci_result |-> Enum(DeriveCiResult(runs)),
                  tool_calls |-> Number(Cardinality(Kind("tool_invocation_recorded"))),
                  retry_count |-> Number(t.retries),
                  human_intervention |-> Flag(human), outcome |-> Enum(MapOutcome(t))]
      told == {k \in DOMAIN derived : /\ k = "cost_usd" => known > 0
                                      /\ k = "ci_result" => runs # {}}
  IN [k \in told \cup DOMAIN hints |-> IF k \in DOMAIN hints THEN hints[k] ELSE derived[k]]

-----------------------------------------------------------------------------
(* suppression.js: cohorts are counted by their whole record. *)

CohortSize(candidates, c) == Cardinality({i \in DOMAIN candidates : candidates[i] = c})

Lesser(m, n) == IF m < n THEN m ELSE n
Greater(m, n) == IF m < n THEN n ELSE m

(* Mutant: rows beyond the cap are dropped without an entry. *)
MutSuppressRareCombinations(candidates, threshold, cap) ==
  [c \in Range(candidates) |->
     LET size == CohortSize(candidates, c) IN
     [admitted |-> IF size >= threshold THEN Lesser(size, cap) ELSE 0,
      suppressed |-> IF size >= threshold THEN 0 ELSE size]]

(* How many rows of each combination are admitted and suppressed. *)
SuppressRareCombinations(candidates, threshold, cap) ==
  [c \in Range(candidates) |->
     LET size == CohortSize(candidates, c)
         admitted == IF size >= threshold THEN Lesser(size, cap) ELSE 0
     IN [admitted |-> admitted, suppressed |-> size - admitted]]

(* Mutant: a cohort at the threshold is left out. *)
MutAggregateCohorts(candidates, threshold) ==
  LET cohorts == {c \in Range(candidates) : CohortSize(candidates, c) > threshold}
  IN [c \in cohorts |-> CohortSize(candidates, c)]

AggregateCohorts(candidates, threshold) ==
  LET cohorts == {c \in Range(candidates) : CohortSize(candidates, c) >= threshold}
  IN [c \in cohorts |-> CohortSize(candidates, c)]

(* Mutant: one draw for a release, which depends on all of its cohorts. *)
MutAddPrivateNoiseToCohorts(cohorts, epsilon, seed) ==
  [c \in DOMAIN cohorts |-> Greater(0, cohorts[c] + Noise(seed, DOMAIN cohorts, epsilon))]

(* dp.js: the draw of a cohort comes from the seed and its combination.    *)
AddPrivateNoiseToCohorts(cohorts, epsilon, seed) ==
  [c \in DOMAIN cohorts |-> Greater(0, cohorts[c] + Noise(seed, {c}, epsilon))]

-----------------------------------------------------------------------------
(* exporter.js. *)

EffectiveCohortThreshold(r) ==
  LET floor == Policies[r.purpose].minimumCohort IN
  IF r.threshold = None THEN floor ELSE Greater(floor, r.threshold)

(* Mutant: a request replaces the ceiling. *)
MutEffectiveMaxRows(r) ==
  IF r.cap = None THEN Policies[r.purpose].maximumRowsPerCombination ELSE r.cap

EffectiveMaxRows(r) ==
  LET ceiling == Policies[r.purpose].maximumRowsPerCombination IN
  IF r.cap = None THEN ceiling ELSE Lesser(ceiling, r.cap)

EffectiveEpsilon(r) ==
  LET ceiling == Policies[r.purpose].maximumEpsilon IN
  IF r.epsilon = None THEN ceiling ELSE Lesser(ceiling, r.epsilon)

(* A request that throws no PrivacyExportError. *)
WellFormed(r) ==
  /\ r.purpose \in DOMAIN Policies
  /\ Policies[r.purpose].requiresLicenseAcknowledgement => r.licensed
  /\ IF r.private
     THEN /\ r.aggregate /\ r.seed # None
          /\ r.epsilon # None => r.epsilon > 0
     ELSE r.epsilon = None /\ r.seed = None
  /\ r.threshold # None => r.threshold >= ABSOLUTE_MINIMUM_COHORT
  /\ ~r.aggregate /\ r.cap # None => r.cap >= 1

(* risk.js: what the gate did, from reasons and counts alone. *)
RiskLevel(reasons, suppressed) ==
  CASE reasons \cap {"forbidden_field", "content_detected"} # {} -> "high"
    [] reasons \cap {"forbidden_field", "content_detected"} = {}
         /\ (suppressed > 0 \/ reasons # {}) -> "medium"
    [] OTHER -> "low"

(* What is made of a batch, however it is published: the records of the    *)
(* inputs that are not rejected, by their position in the batch.           *)
Gate(records) ==
  [candidates |-> [i \in {j \in DOMAIN records : Rejection(records[j]) = None} |->
                     NormalizeTenantRecord(records[i])],
   reasons |-> {Rejection(x) : x \in Range(records)} \ {None},
   provided |-> Len(records)]

(* The envelope: counts, the level, and what is published of each          *)
(* combination (rows, or the size of its cohort, which has no cap).        *)
ExportGlobalLearningRecords(gate, r) ==
  LET k == EffectiveCohortThreshold(r)
      rows == SuppressRareCombinations(gate.candidates, k,
                IF r.aggregate THEN gate.provided ELSE EffectiveMaxRows(r))
      Count(column) == SumFunction([c \in DOMAIN rows |-> rows[c][column]])
      exact == AggregateCohorts(gate.candidates, k)
      admitted == {c \in DOMAIN rows : rows[c].admitted > 0}
      suppressed == Count("suppressed")
  IN [provided |-> gate.provided,
      accepted |-> IF r.aggregate THEN 0 ELSE Count("admitted"),
      suppressed |-> suppressed,
      rejected |-> gate.provided - Cardinality(DOMAIN gate.candidates),
      level |-> RiskLevel(gate.reasons, suppressed),
      published |->
        CASE ~r.aggregate -> [c \in admitted |-> rows[c].admitted]
          [] r.aggregate /\ ~r.private -> exact
          [] r.aggregate /\ r.private ->
               AddPrivateNoiseToCohorts(exact, EffectiveEpsilon(r), r.seed)]

-----------------------------------------------------------------------------
Init == scenario \in Scenarios /\ ledger = <<>> /\ batch = <<>>

Ingest(ev) ==
  /\ Len(ledger) < scenario.events
  /\ ledger' = Append(ledger, ev)
  /\ UNCHANGED <<scenario, batch>>

Observe(input) ==
  /\ Len(batch) < scenario.observations
  /\ batch' = Append(batch, input)
  /\ UNCHANGED <<scenario, ledger>>

(* The tasks the ledger has an audit of, at this moment. *)
Audited ==
  LET tasks == Reconstruct(ledger) IN
  IF \A t \in Tasks : AuditableTask(tasks[t])
  THEN {tasks[t] : t \in {u \in Tasks : tasks[u].seen}} ELSE {}

Contribute ==
  \E t \in Audited, hints \in Hints : Observe(MapAuditTaskToPrivacyInput(t, hints))

Next ==
  \/ \E ev \in scenario.evidence : Ingest(ev)
  \/ \E input \in scenario.inputs : Observe(input)
  \/ Contribute

Spec == Init /\ [][Next]_vars

-----------------------------------------------------------------------------
Allowed == {r \in Requests : WellFormed(r)}

(* The envelope's books balance although rows and cohorts are counted by   *)
(* different code: without noise, what is published, suppressed and        *)
(* rejected is what was provided, whichever way it is published, and the   *)
(* risk level is low only if all that was provided is published.           *)
BooksBalance ==
  LET gate == Gate(batch) IN
  \A r \in {q \in Allowed : ~q.private} :
    LET e == ExportGlobalLearningRecords(gate, r)
        published == SumFunction(e.published)
    IN /\ published + e.suppressed + e.rejected = e.provided
       /\ e.level = "low" => published = e.provided

(* How strict a request is, as asked for. *)
AsksLess(r, q) ==
  /\ r.purpose = q.purpose /\ r.aggregate = q.aggregate /\ r.private = q.private
  /\ q.threshold = None \/ (r.threshold # None /\ r.threshold >= q.threshold)
  /\ q.cap = None \/ (r.cap # None /\ r.cap <= q.cap)

(* A request for more epsilon, so less noise, than the policy allows, and  *)
(* one that leaves epsilon to the policy.                                  *)
AsksTooMuch(r, q) ==
  /\ r.purpose = q.purpose /\ r.threshold = q.threshold /\ r.seed = q.seed
  /\ q.epsilon = None /\ r.epsilon # None /\ r.epsilon > Policies[r.purpose].maximumEpsilon

(* A caller can tighten a purpose's policy and never loosen it: whatever   *)
(* is asked for, no combination is published more often, or in other       *)
(* records, than to a caller who asks for nothing or for less strictness,  *)
(* and what is published in rows stays within the policy of the purpose.   *)
(* Whoever asks for less noise than the policy has gets that of the policy.*)
RequestsOnlyTighten ==
  LET gate == Gate(batch)
      exports == {<<r, ExportGlobalLearningRecords(gate, r).published>> : r \in Allowed}
      exact == {x \in exports : ~x[1].private}
  IN /\ \A x \in exact :
          /\ \A y \in exact : AsksLess(x[1], y[1]) =>
               \A c \in DOMAIN x[2] : c \in DOMAIN y[2] /\ x[2][c] <= y[2][c]
          /\ ~x[1].aggregate => \A c \in DOMAIN x[2] :
               x[2][c] <= Policies[x[1].purpose].maximumRowsPerCombination
     /\ \A x, y \in exports \ exact : AsksTooMuch(x[1], y[1]) => x[2] = y[2]

(* dp.js: noise is stable for a cohort over overlapping batches, and one   *)
(* record changes a count by at most one.  An observation more leaves      *)
(* every published count as it was or raises it by one, noise or not, and  *)
(* raises one count at most, or it brings one cohort to the threshold,     *)
(* which then appears with all its records.                                *)
OneRecordCountsOnce ==
  [][LET old == Gate(batch)
         new == Gate(batch')
     IN
     \A r \in Allowed :
       LET before == ExportGlobalLearningRecords(old, r).published
           after == ExportGlobalLearningRecords(new, r).published
           raised == {c \in DOMAIN before : after[c] # before[c]}
       IN /\ DOMAIN before \subseteq DOMAIN after
          /\ \A c \in raised : after[c] = before[c] + 1
          /\ Cardinality(raised) + Cardinality(DOMAIN after \ DOMAIN before) <= 1]_vars

(* Hints on what the bridge does not derive. *)
Derived == {"ci_result", "outcome", "cost_bucket", "tool_call_bucket", "retry_bucket",
            "human_intervention"}
Supplements(hints) ==
  \A i \in DOMAIN INPUT_SPECS :
    INPUT_SPECS[i].key \in DOMAIN hints => INPUT_SPECS[i].to \notin Derived

(* Hints with no more than an outcome. *)
HintsAlone(hints) ==
  [k \in DOMAIN hints \cup {"outcome"} |->
     IF k \in DOMAIN hints THEN hints[k] ELSE Enum("task_started")]

(* The bridge from the audit: an audited task is never rejected for what   *)
(* the bridge derives, only for its hints or for want of them (without a   *)
(* hint on its class and language it always is), and the record of one     *)
(* that is accepted says what the ledger knows: a cost bucket holds the    *)
(* known cost of the task and is unknown if that is 0, known or not;       *)
(* passed CI means that no run ended otherwise; and a merge that was       *)
(* reverted is not told as accepted.                                       *)
LearnsWhatLedgerKnows ==
  \A t \in Audited, hints \in {h \in Hints : Supplements(h)} :
    LET input == MapAuditTaskToPrivacyInput(t, hints)
        record == NormalizeTenantRecord(input)
        Runs == {c \in t.comps : c.ev.type = "ci_run_recorded"}
    IN /\ Rejection(input) = Rejection(HintsAlone(hints))
       /\ ~({"task_class", "language_family"} \subseteq DOMAIN hints) =>
            Rejection(input) \in {"forbidden_field", "unknown_input_field", "missing_required_field"}
       /\ Rejection(input) = None =>
            /\ record.cost_bucket =
                 IF KnownCost(t) = 0 THEN "unknown" ELSE Bucket("cost_bucket", KnownCost(t))
            /\ record.ci_result = "passed" =>
                 Runs # {} /\ \A c \in Runs : c.ev.status = "passed"
            /\ record.outcome = "pr_merged" =>
                 t.merged # {} /\ t.merged \cap t.reverts = {}
=============================================================================
