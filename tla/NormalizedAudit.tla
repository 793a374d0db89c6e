--------------------------- MODULE NormalizedAudit ---------------------------
(***************************************************************************)
(* The audit of a normalized bundle by apps/cli: the validator of          *)
(* schema.js, the certain-waste rules of waste.js, the economics and the   *)
(* report rows of audit.js, as operators over the records of a bundle.     *)
(*                                                                         *)
(* A record is [task, status, aborted, execs], an execution [id, start,    *)
(* components, total, retryOf, by, failure, signature], a component        *)
(* [basis, amount].  Task ids are naturals, in the order of the strings;   *)
(* times are naturals; Nil is an absent field.  Ended times, token counts  *)
(* and agents decide nothing and are left out, as is the scan for raw      *)
(* provider fields.                                                        *)
(***************************************************************************)
EXTENDS Integers, Sequences, FiniteSets, SequencesExt

CONSTANT Nil  \* an absent field

OutcomeStatuses == {"accepted", "failed", "aborted", "unresolved"}
CostBases == {"measured", "estimated", "unavailable"}
ComponentKeys == {"inference", "tools", "ci", "compute"}
FailureCategories == {"deterministic", "transient", "flaky", "unknown"}

ASSUME NilAssumption == Nil \notin FailureCategories

Unavailable == [basis |-> "unavailable", amount |-> Nil]
Measured(n) == [basis |-> "measured", amount |-> n]

-----------------------------------------------------------------------------
(* schema.js. *)

(* The money of one basis over the components of an execution. *)
OfBasis(e, bases) ==
  SumFunction([k \in {c \in DOMAIN e.components : e.components[c].basis \in bases}
                 |-> e.components[k].amount])

RepresentableSum(e) == OfBasis(e, {"measured", "estimated"})

ValidComponent(c) ==
  /\ c.basis \in CostBases
  /\ IF c.basis = "unavailable" THEN c.amount = Nil ELSE c.amount \in Nat

(* The ids of the executions of a record. *)
Ids(record) == {record.execs[i].id : i \in DOMAIN record.execs}

ValidExecution(e, record) ==
  /\ DOMAIN e.components # {} /\ DOMAIN e.components \subseteq ComponentKeys
  /\ \A k \in DOMAIN e.components : ValidComponent(e.components[k])
  /\ e.total = RepresentableSum(e)
  /\ e.failure \in FailureCategories \cup {Nil}
  /\ \A ref \in {e.retryOf, e.by} \ {Nil} : ref # e.id /\ ref \in Ids(record)

ValidRecord(record) ==
  /\ record.status \in OutcomeStatuses
  /\ record.execs # <<>>
  /\ Cardinality(Ids(record)) = Len(record.execs)
  /\ \A i \in DOMAIN record.execs : ValidExecution(record.execs[i], record)

(* Nothing keeps two records from having one task id. *)
ValidateNormalizedBundle(records) ==
  records # <<>> /\ \A k \in DOMAIN records : ValidRecord(records[k])

-----------------------------------------------------------------------------
(* waste.js: each rule gives the executions of a record that it charges. *)

Named(record, id) == CHOOSE e \in Range(record.execs) : e.id = id

(* Mutant: a replacement that started at the same time counts. *)
MutSupersededAnyTime(record) ==
  {e \in Range(record.execs) : e.by # Nil}

(* Mutant: a replacement is an execution listed later. *)
MutSupersededByPosition(record) ==
  {record.execs[i] : i \in {j \in DOMAIN record.execs :
     \E l \in DOMAIN record.execs : l > j /\ record.execs[j].by = record.execs[l].id}}

(* R4: the replacement started strictly later. *)
SupersededExecutions(record) ==
  {e \in Range(record.execs) : e.by # Nil /\ Named(record, e.by).start > e.start}

(* Of an attempt that failed deterministically, on the same work; R2 and   *)
(* G4: and failed deterministically itself.                                *)
IdenticalRetries(record) ==
  {e \in Range(record.execs) :
     /\ e.retryOf # Nil
     /\ Named(record, e.retryOf).failure = "deterministic"
     /\ e.signature # Nil /\ e.signature = Named(record, e.retryOf).signature
     /\ e.failure = "deterministic"}

(* Mutant: an abort charges whatever the outcome is. *)
MutAfterAbortAnyOutcome(record) ==
  {e \in Range(record.execs) : record.aborted # Nil /\ e.start > record.aborted}

ExecutionsAfterAbort(record) ==
  {e \in Range(record.execs) :
     record.status = "aborted" /\ record.aborted # Nil /\ e.start > record.aborted}

ChargedBy(rule, record) ==
  CASE rule = "superseded" -> SupersededExecutions(record)
    [] rule = "identical_retry" -> IdenticalRetries(record)
    [] rule = "after_abort" -> ExecutionsAfterAbort(record)

(* Records by task id; those of one id in the order given, which is what   *)
(* the comparator, never zero, makes of a short list.                      *)
SortedRecords(records) ==
  LET Before(j, k) == \/ records[j].task < records[k].task
                      \/ records[j].task = records[k].task /\ j < k
      Place(k) == Cardinality({j \in DOMAIN records : Before(j, k)}) + 1
  IN [p \in DOMAIN records |-> records[CHOOSE k \in DOMAIN records : Place(k) = p]]

(* Mutant: nothing is remembered as claimed. *)
MutClaimAlways(findings, finding) == TRUE

(* The single-claim guard goes by task id and execution id. *)
Unclaimed(findings, finding) ==
  \A f \in findings : <<f.task, f.exec>> # <<finding.task, finding.exec>>

(* A finding names its execution and claims the whole of its cost. *)
Finding(record, rule, e) ==
  [task |-> record.task, rule |-> rule, exec |-> e.id, avoided |-> e.total]

(* One rule on one record; it names every execution at most once. *)
Claim(findings, record, rule) ==
  findings \cup {f \in {Finding(record, rule, e) : e \in ChargedBy(rule, record)} :
                   Unclaimed(findings, f)}

(* The rules on one record, in WASTE_RULE_ORDER. *)
ApplyRules(findings, record) ==
  Claim(Claim(Claim(findings, record, "superseded"), record, "identical_retry"),
        record, "after_abort")

(* found[n] is what the first n records give. *)
DetectCertainWaste(records) ==
  LET sorted == SortedRecords(records)
      found[n \in 0..Len(records)] ==
        IF n = 0 THEN {} ELSE ApplyRules(found[n - 1], sorted[n])
  IN found[Len(records)]

-----------------------------------------------------------------------------
(* economics.js and audit.js. *)

CostOfRecord(record, bases) ==
  SumFunction([i \in DOMAIN record.execs |-> OfBasis(record.execs[i], bases)])

CostOfBundle(records, bases) ==
  SumFunction([k \in DOMAIN records |-> CostOfRecord(records[k], bases)])

AvoidedBy(findings) == SumFunction([f \in findings |-> f.avoided])

(* The headline of the report. *)
Headline(records) ==
  [measured |-> CostOfBundle(records, {"measured"}),
   estimated |-> CostOfBundle(records, {"estimated"}),
   representable |-> CostOfBundle(records, {"measured", "estimated"}),
   avoidable |-> AvoidedBy(DetectCertainWaste(records))]

(* The row of a record has the findings of its task id. *)
LedgerRow(record, findings) ==
  [task |-> record.task,
   measured |-> CostOfRecord(record, {"measured"}),
   estimated |-> CostOfRecord(record, {"estimated"}),
   waste |-> AvoidedBy({f \in findings : f.task = record.task})]

TaskLedger(records) ==
  LET findings == DetectCertainWaste(records)
  IN [k \in DOMAIN records |-> LedgerRow(records[k], findings)]
=============================================================================
