----------------------------- MODULE CoreEvents -----------------------------
(***************************************************************************)
(* The canonical event vocabulary of packages/core (events.js): what an    *)
(* adapter may say about a task.  One record shape stands for every event  *)
(* type; a field an event type does not have is None.                      *)
(***************************************************************************)
EXTENDS Integers, Sequences, FiniteSets

CONSTANTS
  Tasks,         \* task_ref values, as their ranks in string order
  Executions,    \* execution_ref values
  Refs,          \* component refs and pr_ref values
  Labels,        \* equivalence keys, revision keys and failure classes
  None           \* an absent field

ASSUME VocabularyAssumption ==
  /\ Tasks \subseteq Nat
  /\ IsFiniteSet(Tasks) /\ IsFiniteSet(Executions)
  /\ None \notin Executions \cup Refs \cup Labels \cup Nat

ComponentTypes ==
  {"model_invocation_recorded", "tool_invocation_recorded",
   "compute_usage_recorded", "ci_run_recorded", "validation_recorded",
   "human_intervention_recorded"}

EventTypes ==
  ComponentTypes \cup
  {"task_started", "task_failed", "task_aborted",
   "execution_started", "execution_finished", "retry_recorded",
   "pull_request_created", "pull_request_closed", "pull_request_merged",
   "revert_detected", "human_rework_recorded"}

(* DETERMINISTIC_FAILURE_CLASSES: the classes that reproduce on identical  *)
(* input; any other label stands for a transient class.                    *)
DeterministicFailureClasses ==
  {"auth_error", "permission_denied", "invalid_request", "billing_error"}

ExecutionStatuses == {"completed", "failed", "aborted", "superseded"}
CiRunStatuses == {"passed", "failed", "cancelled", "timed_out"}
InvocationStatuses == {"ok", "error"}
ValidationStatuses == {"passed", "failed", "skipped"}

Statuses ==
  ExecutionStatuses \cup CiRunStatuses \cup InvocationStatuses \cup ValidationStatuses

Optional(S) == S \cup {None}

(* exec is payload.execution_ref of the lifecycle events and the top-level *)
(* execution_ref of the components; ref is the component ref, pr_ref or    *)
(* rework_ref; key is equivalence_key or attempt_equivalence_key; cost is  *)
(* micro_usd, None when the cost is unknown.                               *)
Event ==
  [type : EventTypes, task : Tasks, exec : Optional(Executions),
   ref : Optional(Refs), status : Optional(Statuses),
   by : Optional(Executions), cost : Optional(Nat), key : Optional(Labels),
   rev : Optional(Labels), class : Optional(Labels),
   start : Optional(Nat), finish : Optional(Nat)]

(* An event that says nothing beyond its type and its task. *)
Blank(t, type) ==
  [type |-> type, task |-> t, exec |-> None, ref |-> None, status |-> None,
   by |-> None, cost |-> None, key |-> None, rev |-> None, class |-> None,
   start |-> None, finish |-> None]

(* The events of an execution, a pull request signal, and a cost component. *)
Started(t, e) == [Blank(t, "execution_started") EXCEPT !.exec = e]
Finished(t, e, s) == [Blank(t, "execution_finished") EXCEPT !.exec = e, !.status = s]
Superseded(t, e, b) == [Finished(t, e, "superseded") EXCEPT !.by = b]
Signal(t, type, r) == [Blank(t, type) EXCEPT !.ref = r]
Spent(t, type, e, r, c) == [Signal(t, type, r) EXCEPT !.exec = e, !.cost = c]

IsComponent(ev) == ev.type \in ComponentTypes

(* validatePayload: required fields, enumerations and cross-field rules. *)
Conforms(ev) ==
  /\ ev.type \in {"execution_started", "execution_finished"} => ev.exec # None
  /\ ev.type = "execution_finished" =>
       /\ ev.status \in ExecutionStatuses
       /\ ev.status = "superseded" <=> ev.by # None
  /\ IsComponent(ev) => ev.ref # None
  /\ ev.type = "ci_run_recorded" => ev.status \in CiRunStatuses
  /\ ev.type = "validation_recorded" => ev.status \in ValidationStatuses
  /\ ev.type \in {"model_invocation_recorded", "tool_invocation_recorded"} =>
       ev.status \in InvocationStatuses
  /\ ev.type = "model_invocation_recorded" /\ ev.status = "error" => ev.class # None
  /\ ev.type \in {"pull_request_created", "pull_request_closed", "pull_request_merged",
                  "revert_detected", "human_rework_recorded"} => ev.ref # None
=============================================================================
