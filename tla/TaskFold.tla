----------------------------- MODULE TaskFold -----------------------------
(***************************************************************************)
(* AGENTIC_TASK reconstruction (packages/core task.js) as operators: the   *)
(* build state of a task, applyEvent, which folds one ledger event into    *)
(* it, and what finalizeTask and the cost rollup compute from it.          *)
(***************************************************************************)
EXTENDS CoreEvents, SequencesExt

ExecutionState ==
  [announced : BOOLEAN, explicit : BOOLEAN, startedSeq : Nat,
   status : ExecutionStatuses \cup {"running"}, by : Optional(Executions)]

Component == [seq : Nat, ev : Event]

TaskState ==
  [seen : BOOLEAN, execs : [Executions -> ExecutionState],
   comps : SUBSET Component, duplicateRef : BOOLEAN,
   closed : SUBSET Refs, merged : SUBSET Refs, reverts : SUBSET Refs,
   failed : BOOLEAN, abortedSeq : Nat, retries : Nat, reworks : Nat]

(* Mutant: an execution record starts without a status. *)
MutNoStatus ==
  [announced |-> FALSE, explicit |-> FALSE, startedSeq |-> 0,
   status |-> None, by |-> None]

NoExecution ==
  [announced |-> FALSE, explicit |-> FALSE, startedSeq |-> 0,
   status |-> "running", by |-> None]

EmptyTask ==
  [seen |-> FALSE, execs |-> [e \in Executions |-> NoExecution],
   comps |-> {}, duplicateRef |-> FALSE, closed |-> {}, merged |-> {},
   reverts |-> {}, failed |-> FALSE, abortedSeq |-> 0, retries |-> 0, reworks |-> 0]

-----------------------------------------------------------------------------
(* applyEvent, one operator for each case of its switch: t is the build    *)
(* state, ev the event, n its sequence number.                             *)

(* ensureExecution: the first event naming an execution announces it. *)
Ensure(e, n) ==
  IF e.announced THEN e ELSE [e EXCEPT !.announced = TRUE, !.startedSeq = n]

(* Mutant: only the first start event positions an execution. *)
MutStartKeepsPosition(t, ev, n) ==
  [t EXCEPT !.execs[ev.exec] = [Ensure(@, n) EXCEPT !.explicit = TRUE]]

(* Every explicit start repositions the execution, a repeated one too. *)
StartExecution(t, ev, n) ==
  [t EXCEPT !.execs[ev.exec] =
     [Ensure(@, n) EXCEPT !.explicit = TRUE, !.startedSeq = n]]

(* The last finish decides the status; supersededBy outlives a later one. *)
FinishExecution(t, ev, n) ==
  LET e == Ensure(t.execs[ev.exec], n) IN
  [t EXCEPT !.execs[ev.exec] =
     [e EXCEPT !.status = ev.status,
               !.by = IF ev.status = "superseded" THEN ev.by ELSE @]]

(* registerComponent: a ref used twice within a task makes it throw. *)
RegisterComponent(t, ev, n) ==
  IF \E c \in t.comps : c.ev.ref = ev.ref
  THEN [t EXCEPT !.duplicateRef = TRUE]
  ELSE [t EXCEPT !.comps = @ \cup {[seq |-> n, ev |-> ev]}]

(* Mutant: closing a pull request resets its merge flag. *)
MutCloseClearsMerge(t, ev) ==
  CASE ev.type = "pull_request_closed" ->
         [t EXCEPT !.closed = @ \cup {ev.ref}, !.merged = @ \ {ev.ref}]
    [] ev.type = "pull_request_merged" -> [t EXCEPT !.merged = @ \cup {ev.ref}]
    [] OTHER -> t

(* The flags of the pull request records; creation decides nothing. *)
PullRequestSignal(t, ev) ==
  CASE ev.type = "pull_request_closed" -> [t EXCEPT !.closed = @ \cup {ev.ref}]
    [] ev.type = "pull_request_merged" -> [t EXCEPT !.merged = @ \cup {ev.ref}]
    [] OTHER -> t

ApplyEvent(t0, ev, n) ==
  LET t == [t0 EXCEPT !.seen = TRUE] IN
  CASE ev.type = "execution_started" -> StartExecution(t, ev, n)
    [] ev.type = "execution_finished" -> FinishExecution(t, ev, n)
    [] IsComponent(ev) -> RegisterComponent(t, ev, n)
    [] ev.type = "retry_recorded" -> [t EXCEPT !.retries = @ + 1]
    [] ev.type \in {"pull_request_created", "pull_request_closed",
                    "pull_request_merged"} -> PullRequestSignal(t, ev)
    [] ev.type = "revert_detected" -> [t EXCEPT !.reverts = @ \cup {ev.ref}]
    [] ev.type = "human_rework_recorded" -> [t EXCEPT !.reworks = @ + 1]
    [] ev.type = "task_failed" -> [t EXCEPT !.failed = TRUE]
    [] ev.type = "task_aborted" -> [t EXCEPT !.abortedSeq = n]
    [] OTHER -> t

-----------------------------------------------------------------------------
(* finalizeTask. *)

(* A terminal execution was started explicitly (BAD_EXECUTION_LIFECYCLE),  *)
(* and a superseded one names a known (UNKNOWN_EXECUTION_REF) execution    *)
(* that started strictly later (BAD_SUPERSESSION).                         *)
LifecycleOK(t) ==
  \A e \in Executions :
    LET x == t.execs[e] IN
    x.announced /\ x.status # "running" =>
      /\ x.explicit
      /\ x.status = "superseded" =>
           /\ t.execs[x.by].announced
           /\ t.execs[x.by].startedSeq > x.startedSeq

(* The task is reconstructed instead of throwing. *)
AuditableTask(t) == ~t.duplicateRef /\ LifecycleOK(t)

(* Mutant: an abort signal outranks an unmerged close. *)
MutAbortOutranksClose(t) ==
  CASE t.merged # {} -> "accepted"
    [] t.merged = {} /\ t.failed -> "failed"
    [] t.merged = {} /\ ~t.failed /\ t.abortedSeq > 0 -> "aborted"
    [] t.merged = {} /\ ~t.failed /\ t.abortedSeq = 0 /\ t.closed # {} -> "failed"
    [] OTHER -> "unresolved"

(* resolveOutcome: merged > task_failed > closed-without-merge > aborted > *)
(* unresolved.                                                             *)
Outcome(t) ==
  CASE t.merged # {} -> "accepted"
    [] t.merged = {} /\ (t.failed \/ t.closed # {}) -> "failed"
    [] t.merged = {} /\ ~t.failed /\ t.closed = {} /\ t.abortedSeq > 0 -> "aborted"
    [] OTHER -> "unresolved"

Reverted(t) == Outcome(t) = "accepted" /\ t.reverts \cap t.merged # {}

(* The components of an announced execution in the aggregate. *)
Attached(t, e) == {c \in t.comps : t.execs[e].announced /\ c.ev.exec = e}

(* Mutant: components of an unannounced execution are dropped. *)
MutUnassignedDropsUnannounced(t) == {c \in t.comps : c.ev.exec = None}

(* The components the aggregate keeps at task level. *)
Unassigned(t) ==
  {c \in t.comps : c.ev.exec = None \/ ~t.execs[c.ev.exec].announced}

(* rollupTaskCost: every component of every execution, then the task's. *)
Price(c) == IF c.ev.cost = None THEN 0 ELSE c.ev.cost
CostOf(comps) == SumFunction([c \in comps |-> Price(c)])

KnownCost(t) ==
  SumFunction([e \in Executions |-> CostOf(Attached(t, e))]) + CostOf(Unassigned(t))

-----------------------------------------------------------------------------
(* reconstructTasks: built[n] is what the first n events of a ledger give. *)
Reconstruct(ledger) ==
  LET built[n \in 0..Len(ledger)] ==
        IF n = 0 THEN [t \in Tasks |-> EmptyTask]
        ELSE [built[n - 1] EXCEPT ![ledger[n].task] = ApplyEvent(@, ledger[n], n)]
  IN built[Len(ledger)]
=============================================================================
