--------------------------- MODULE CoreAuditExport ---------------------------
(***************************************************************************)
(* The audit of a ledger as it leaves packages/core (metrics.js, cost.js,  *)
(* export.js) and as apps/cli takes it in (core_audit.js) and reports it   *)
(* (seam B of audit.js).  The CLI computes no economics: it checks that    *)
(* the numbers of the envelope agree and groups the rest by task.          *)
(*                                                                         *)
(* Identifiers, texts and times of the envelope are left out, so the       *)
(* checks of their shape are, and the analysis period.                     *)
(***************************************************************************)
EXTENDS CertainWaste

Outcomes == {"accepted", "failed", "aborted", "unresolved"}

(* round(n / d), half up. *)
Rounded(n, d) == (2 * n + d) \div (2 * d)
PartsPerMillion(n, d) == Rounded(1000000 * n, d)

Unpriced(comps) == {c \in comps : c.ev.cost = None}

(* A task aggregate: components by execution, and those of the task. *)
Aggregate(t) ==
  [task |-> t, outcome |-> Outcome(tasks[t]),
   attached |-> [e \in Executions |-> Attached(tasks[t], e)],
   unassigned |-> Unassigned(tasks[t])]

(* Mutant: components of the task itself are not iterated. *)
MutAllComponents(a) == UNION {a.attached[e] : e \in Executions}

(* componentIterator. *)
AllComponents(a) == (UNION {a.attached[e] : e \in Executions}) \cup a.unassigned

(* Over all tasks, by kind: a component is its task and its ref. *)
OfKind(aggregates, type) ==
  UNION {{<<a.task, c>> : c \in {d \in AllComponents(a) : d.ev.type = type}} : a \in aggregates}

(* verifyCostAccounting. *)
VerifyCostAccounting(aggregates) ==
  LET CostIn(pairs) == SumFunction([p \in pairs |-> Price(p[2])])
      byKind == [type \in ComponentTypes |-> CostIn(OfKind(aggregates, type))]
      known == SumFunction([a \in aggregates |-> CostOf(AllComponents(a))])
  IN [known |-> known, byKind |-> byKind,
      total |-> SumFunction([a \in aggregates |-> Cardinality(AllComponents(a))]),
      unknown |-> SumFunction([a \in aggregates |-> Cardinality(Unpriced(AllComponents(a)))]),
      balanced |-> SumFunction(byKind) = known]

(* costEvidenceState: whether an amount of zero was measured. *)
CostEvidenceState(accounting) ==
  CASE accounting.total = 0 -> "none_observed"
    [] accounting.known > 0 -> "measured"
    [] accounting.total > 0 /\ accounting.known = 0 ->
         IF accounting.unknown > 0 THEN "unmeasured" ELSE "measured_zero"

ComputeSummary(aggregates, findings, avoidable) ==
  LET accounting == VerifyCostAccounting(aggregates)
      totals == [o \in Outcomes |-> Cardinality({a \in aggregates : a.outcome = o})]
  IN [totals |-> totals, known |-> accounting.known, unknown |-> accounting.unknown,
      state |-> CostEvidenceState(accounting), balanced |-> accounting.balanced,
      perAccepted |-> IF totals.accepted = 0 THEN None
                      ELSE Rounded(accounting.known, totals.accepted),
      findingsCount |-> Cardinality(findings), avoidable |-> avoidable,
      ratio |-> IF accounting.known = 0 THEN None
                ELSE PartsPerMillion(avoidable, accounting.known)]

(* TenantLedger.audit() of this prefix of the ledger. *)
LedgerAudit ==
  LET findings == Findings
      aggregates == {Aggregate(t) : t \in {u \in Tasks : tasks[u].seen}}
      avoidable == SumFunction([f \in findings |-> CostOf(f.units)])
  IN [tasks |-> aggregates, findings |-> findings, avoidable |-> avoidable,
      summary |-> ComputeSummary(aggregates, findings, avoidable)]

(* buildCoreAuditExport refuses a ledger that is not balanced. *)
Exportable(audit) == audit.summary.balanced

-----------------------------------------------------------------------------
(* validateCoreAuditExport: the identities of the envelope. *)
ValidateCoreAuditExport(audit) ==
  LET s == audit.summary
      wasted == SumFunction([f \in audit.findings |-> CostOf(f.units)])
  IN /\ audit.tasks # {}
     /\ s.balanced
     /\ SumFunction(s.totals) = Cardinality(audit.tasks)
     /\ IF s.totals.accepted > 0 THEN s.perAccepted = Rounded(s.known, s.totals.accepted)
        ELSE s.perAccepted = None
     /\ \A f \in audit.findings : f.units # {}
     /\ audit.avoidable = wasted /\ s.avoidable = audit.avoidable
     /\ s.findingsCount = Cardinality(audit.findings)
     /\ s.known > 0 /\ s.ratio # None =>
          s.ratio - PartsPerMillion(audit.avoidable, s.known) \in -1..1

(* coreTaskKnownCost and the row of a task in the report. *)
CoreRow(a, findings) ==
  [task |-> a.task,
   measured |-> SumFunction([e \in Executions |-> CostOf(a.attached[e])])
                  + CostOf(a.unassigned),
   unavailable |-> SumFunction([e \in Executions |-> Cardinality(Unpriced(a.attached[e]))])
                     + Cardinality(Unpriced(a.unassigned)),
   waste |-> SumFunction([f \in {g \in findings : g.task = a.task} |-> CostOf(f.units)])]

(* buildReportFromCoreAudit: rows, and the headline. *)
BuildReportFromCoreAudit(audit) ==
  [rows |-> {CoreRow(a, audit.findings) : a \in audit.tasks},
   measured |-> audit.summary.known, unavailable |-> audit.summary.unknown,
   avoidable |-> audit.avoidable,
   noEvidence |-> audit.summary.known = 0 /\ audit.summary.unknown > 0]

-----------------------------------------------------------------------------
(* The two sides of the export agree although each computes for itself: an *)
(* audit with a task is exported by the core and accepted by the CLI; the  *)
(* rows of the report add up to its headline, in money known, components   *)
(* without a price and avoidable spend; no row is charged more than its    *)
(* task cost; and the CLI calls a total of zero unmeasured exactly when    *)
(* the core does.                                                          *)
ReportAddsUp ==
  Auditable /\ (\E t \in Tasks : tasks[t].seen) =>
    LET audit == LedgerAudit
        report == BuildReportFromCoreAudit(audit)
        SumOf(column) == SumFunction([row \in report.rows |-> row[column]])
    IN /\ Exportable(audit) /\ ValidateCoreAuditExport(audit)
       /\ SumOf("measured") = report.measured
       /\ SumOf("unavailable") = report.unavailable
       /\ SumOf("waste") = report.avoidable
       /\ \A row \in report.rows : row.waste <= row.measured
       /\ report.noEvidence <=> audit.summary.state = "unmeasured"
=============================================================================
