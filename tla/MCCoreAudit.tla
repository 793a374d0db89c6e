----------------------------- MODULE MCCoreAudit -----------------------------
(* Small instances of the core: ledgers that tell outcomes, executions and *)
(* costs in every order, and that bring the waste rules to charge, to      *)
(* abstain and to overlap; each is reconstructed, analysed and exported.   *)
EXTENDS CoreAuditExport, MCEvidence

(* Outcome signals of one task, with two pull requests and one cost. *)
OutcomeEvidence ==
  {Blank(1, "task_failed"), Blank(1, "task_aborted"), Blank(1, "task_started"),
   Signal(1, "pull_request_created", "p1"), Signal(1, "pull_request_closed", "p1"),
   Signal(1, "pull_request_merged", "p1"), Signal(1, "pull_request_closed", "p2"),
   Signal(1, "revert_detected", "p1"), Blank(2, "task_aborted"),
   Started(1, "e1"), Spent(1, "compute_usage_recorded", "e1", "u1", 1)}

(* Two executions, one superseded by the other, restarts, an abort, and    *)
(* costs on announced, unannounced and no executions, in two tasks; one    *)
(* supersession is malformed.                                              *)
ExecutionEvidence ==
  {Started(1, "e1"), Started(1, "e2"), Superseded(1, "e1", "e2"), Finished(1, "e1", "failed"),
   Blank(1, "task_aborted"),
   [Spent(1, "model_invocation_recorded", "e1", "m1", 2) EXCEPT !.status = "ok"],
   Spent(1, "compute_usage_recorded", None, "u1", 1),
   [Spent(1, "tool_invocation_recorded", "e2", "m1", None) EXCEPT !.status = "ok"],
   Spent(2, "human_intervention_recorded", "e1", "m1", 4),
   Finished(2, "e1", "superseded")}

(* Repeated CI runs, each under a ref of its own: in time order,           *)
(* overlapping, of an instant, unfinished, failed, at other revisions, and *)
(* in another task.                                                        *)
RunEvidence ==
  {CiRun(1, None, "c1", 1, "passed", "v1", 1, 2), CiRun(1, None, "c2", None, "passed", "v1", 2, 3),
   CiRun(1, "e1", "c3", 1, "passed", "v1", 3, None), CiRun(1, None, "c4", 1, "passed", "v1", 1, 1),
   CiRun(1, None, "c5", 1, "failed", "v1", 3, 4), CiRun(1, None, "c6", 1, "failed", "v2", 3, 4),
   CiRun(1, None, "c7", 1, "passed", None, 3, 4), CiRun(2, None, "c8", 1, "failed", "v1", 3, 4)}

(* Retried attempts, failing alike or otherwise and for good or not, a     *)
(* success at the same inputs, and a run beside them.                      *)
AttemptEvidence ==
  {Attempt(1, None, "a1", 1, "error", "auth_error"), Attempt(1, "e1", "a2", 1, "error", "auth_error"),
   Attempt(1, None, "a3", 1, "error", "billing_error"), Attempt(1, None, "a4", 1, "error", "timeout"),
   Attempt(1, None, "a5", 1, "ok", None), CiRun(1, None, "c1", 1, "passed", "v1", 1, 2)}

(* Two tasks that use the same refs, and a task whose duplicated run       *)
(* belongs to a superseded execution, or to one started after an abort.    *)
ClaimEvidence ==
  {Started(1, "e1"), Started(1, "e2"), Superseded(1, "e1", "e2"),
   Blank(1, "task_aborted"), Signal(1, "pull_request_merged", "p1"),
   CiRun(1, "e1", "c1", 1, "passed", "v1", 1, 2), CiRun(1, "e1", "c2", 2, "passed", "v1", 2, 3),
   CiRun(2, None, "c2", 4, "passed", "v1", 1, 2), CiRun(2, None, "c1", 2, "passed", "v1", 2, 3)}

(* A free duplicate in task 1, a costly one under the same refs in task 2. *)
FreeDuplicateEvidence ==
  {CiRun(1, None, "c1", 0, "passed", "v1", 1, 2), CiRun(1, None, "c2", 0, "passed", "v1", 2, 3),
   CiRun(2, None, "c1", 1, "passed", "v1", 1, 2), CiRun(2, None, "c2", 1, "passed", "v1", 2, 3)}

(* Two aborts of a task whose execution starts, restarts and finishes      *)
(* around them, and a failure and a close that end the task otherwise.     *)
AbortEvidence ==
  {Blank(1, "task_aborted"), Started(1, "e1"), Finished(1, "e1", "completed"),
   CiRun(1, "e1", "c1", 1, "passed", "v1", 1, 2), Blank(1, "task_failed"),
   Signal(1, "pull_request_closed", "p1")}

CoreScenarios ==
  {[evidence |-> OutcomeEvidence, events |-> 5, deliveries |-> 1],
   [evidence |-> ExecutionEvidence, events |-> 5, deliveries |-> 2],
   [evidence |-> RunEvidence, events |-> 6, deliveries |-> 1],
   [evidence |-> AttemptEvidence, events |-> 5, deliveries |-> 1],
   [evidence |-> ClaimEvidence, events |-> 6, deliveries |-> 1],
   [evidence |-> FreeDuplicateEvidence, events |-> 4, deliveries |-> 1],
   [evidence |-> AbortEvidence, events |-> 6, deliveries |-> 2]}

MCTasks == {1, 2}
MCExecutions == {"e1", "e2"}
MCRefs ==
  {"p1", "p2", "m1", "u1", "c1", "c2", "c3", "c4", "c5", "c6", "c7", "c8", "a1", "a2", "a3", "a4", "a5"}
MCLabels == {"k", "v1", "v2", "auth_error", "billing_error", "timeout"}
=============================================================================
