---------------------------- MODULE CertainWaste ----------------------------
(***************************************************************************)
(* The certain-waste engine of packages/core (waste/engine.js and its four *)
(* rules) over the reconstructed tasks: state functions of the ledger,     *)
(* evaluated at every prefix of it.  A rule proposes candidates, sets of   *)
(* components ("evidence units"); the engine lets each component ref be    *)
(* claimed once, by the first candidate that names it in task order and    *)
(* then rule order.                                                        *)
(*                                                                         *)
(* Candidates of one rule on one task have disjoint refs, so their order   *)
(* among themselves (which numbers the finding ids) is left out, and so is *)
(* the wording of a finding.                                               *)
(***************************************************************************)
EXTENDS TaskReconstruction

DuplicateCi == 1
DeterministicRetry == 2
ExecutionSuperseded == 3
ExecutionAfterAbort == 4

(* DEFAULT_WASTE_RULES, as positions in the registry: order matters. *)
Rules == DuplicateCi..ExecutionAfterAbort

(* The components of a task of one type, wherever they are filed. *)
Recorded(t, type) == {c \in t.comps : c.ev.type = type}

(* The first of some components, if any: at most one, as none share a seq. *)
Earliest(comps) == {c \in comps : \A d \in comps : c.seq <= d.seq}

-----------------------------------------------------------------------------
(* WASTE_DUP_CI_V1. *)

(* Mutant: runs of one configuration are compared across revisions. *)
MutPartitionByKey(t, run) ==
  {c \in Recorded(t, "ci_run_recorded") : c.ev.key = run.ev.key}

(* The runs of one equivalence key at one known revision. *)
Partition(t, run) ==
  {c \in Recorded(t, "ci_run_recorded") : c.ev.key = run.ev.key /\ c.ev.rev = run.ev.rev}

(* G1, G6, G5: identical inputs are provable, and every run agrees. *)
Comparable(t, run) ==
  /\ run.ev.key # None /\ run.ev.rev # None
  /\ \A c \in Partition(t, run) : c.ev.status = "passed"

(* Mutant: the kept pass is looked up before the loop over the runs. *)
MutKeptFromWholePartition(t, run) ==
  Earliest({c \in Partition(t, run) : c.ev.finish # None})

(* keptPass when the loop reaches run: the first finished pass before it.  *)
KeptPass(t, run) ==
  Earliest({c \in Partition(t, run) : c.ev.finish # None /\ c.seq < run.seq})

(* startsAfter (G3, G4): timing evidence that the result was known.        *)
StartsAfter(run, earlier) ==
  run.ev.start # None /\ run.ev.start >= earlier.ev.finish

DuplicateCiCandidates(t) ==
  {{run} : run \in {c \in Recorded(t, "ci_run_recorded") :
     Comparable(t, c) /\ \E kept \in KeptPass(t, c) : StartsAfter(c, kept)}}

-----------------------------------------------------------------------------
(* WASTE_DET_RETRY_V1. *)

Attempts(t, c) == {d \in Recorded(t, "model_invocation_recorded") : d.ev.key = c.ev.key}

Premises(t, c) ==
  {d \in Attempts(t, c) : d.ev.status = "error" /\ d.ev.class \in DeterministicFailureClasses}

(* G1, G4: no attempt succeeded, and each one after the first              *)
(* deterministic failure failed with its class.                            *)
Reproduced(t, c, premise) ==
  \A d \in Attempts(t, c) :
    /\ d.ev.status # "ok"
    /\ d.seq > premise.seq => d.ev.class = premise.ev.class

(* G2, G3: the attempts after the premise, under a provable key. *)
RetryCandidates(t) ==
  {{c} : c \in {d \in Recorded(t, "model_invocation_recorded") :
     /\ d.ev.key # None
     /\ \E premise \in Earliest(Premises(t, d)) :
          d.seq > premise.seq /\ Reproduced(t, d, premise)}}

-----------------------------------------------------------------------------
(* WASTE_EXEC_SUPERSEDED_V1 and WASTE_EXEC_AFTER_ABORT_V1 charge whole     *)
(* executions; an execution without components proposes nothing.           *)

OfExecutions(t, execs) ==
  {Attached(t, e) : e \in {x \in execs : t.execs[x].announced}} \ {{}}

SupersededCandidates(t) ==
  OfExecutions(t, {e \in Executions :
                     t.execs[e].status = "superseded" /\ t.execs[e].by # None})

StartedAfterAbort(t) == {e \in Executions : t.execs[e].startedSeq > t.abortedSeq}

(* Mutant: a task with a later merge or failure still charges its starts   *)
(* after the abort.                                                        *)
MutAbortIgnoresOutcome(t) ==
  IF t.abortedSeq = 0 THEN {}
  ELSE OfExecutions(t, StartedAfterAbort(t))

(* G1, G2, G3: the task ended aborted, and the execution's recorded start  *)
(* is strictly after the last abort.                                       *)
AfterAbortCandidates(t) ==
  IF Outcome(t) # "aborted" THEN {}
  ELSE OfExecutions(t, StartedAfterAbort(t))

-----------------------------------------------------------------------------
(* runWasteAnalysis. *)

Candidates(t, r) ==
  CASE r = DuplicateCi -> DuplicateCiCandidates(t)
    [] r = DeterministicRetry -> RetryCandidates(t)
    [] r = ExecutionSuperseded -> SupersededCandidates(t)
    [] r = ExecutionAfterAbort -> AfterAbortCandidates(t)

RefsOf(comps) == {c.ev.ref : c \in comps}

(* Mutant: refs are claimed per task, not across the ledger. *)
MutClaimedInTask(t, r) ==
  RefsOf(UNION UNION {Candidates(tasks[t], q) : q \in {q \in Rules : q < r}})

(* The refs claimed when rule r reaches task t: those of every candidate   *)
(* of an earlier task, or of an earlier rule on this task, whether or not  *)
(* the candidate became a finding.                                         *)
Claimed(t, r) ==
  RefsOf(UNION UNION ({Candidates(tasks[u], q) : u \in {u \in Tasks : u < t}, q \in Rules}
                \cup {Candidates(tasks[t], q) : q \in {q \in Rules : q < r}}))

(* The findings of rule r on task t: candidates with units left to claim   *)
(* that cost something or carry an unknown cost.                           *)
FindingsOf(t, r) ==
  LET claimed == Claimed(t, r)
      units(cand) == {c \in cand : c.ev.ref \notin claimed}
      reported(u) == CostOf(u) > 0 \/ \E c \in u : c.ev.cost = None
  IN {[task |-> t, rule |-> r, units |-> u] :
        u \in {v \in {units(cand) : cand \in Candidates(tasks[t], r)} : reported(v)}}

Findings == UNION {FindingsOf(t, r) : t \in Tasks, r \in Rules}

CertainlyAvoidable == SumFunction([f \in Findings |-> CostOf(f.units)])

-----------------------------------------------------------------------------
(* No double counting: over all rules and tasks a component ref is         *)
(* reported in at most one finding.                                        *)
ChargedOnce ==
  Auditable =>
    \A f, g \in Findings : f # g => RefsOf(f.units) \cap RefsOf(g.units) = {}

(* What was observed before is never waste, and what observations disagree *)
(* on is not certain.  A CI run charged as a duplicate repeats a pass,     *)
(* stored before it and finished before it started, that is not charged as *)
(* a duplicate itself, and no run of the same inputs did anything else     *)
(* than pass, wherever in the ledger it is.  A charged retry repeats a     *)
(* failure of its class that is not charged as a retry, no attempt at the  *)
(* same inputs succeeded, and none after that failure failed otherwise.    *)
RepeatsHaveFreeOriginal ==
  Auditable =>
    LET findings == Findings
        charged(t, r) == UNION {f.units : f \in {g \in findings : g.task = t /\ g.rule = r}}
    IN \A t \in Tasks :
         /\ \A c \in charged(t, DuplicateCi) :
              \E kept \in Recorded(tasks[t], "ci_run_recorded") \ charged(t, DuplicateCi) :
                /\ kept.ev.key = c.ev.key /\ kept.ev.rev = c.ev.rev
                /\ kept.seq < c.seq
                /\ kept.ev.status = "passed"
                /\ kept.ev.finish # None /\ kept.ev.finish <= c.ev.start
                /\ \A d \in Recorded(tasks[t], "ci_run_recorded") :
                     d.ev.key = c.ev.key /\ d.ev.rev = c.ev.rev => d.ev.status = "passed"
         /\ \A c \in charged(t, DeterministicRetry) :
              \E first \in Recorded(tasks[t], "model_invocation_recorded")
                              \ charged(t, DeterministicRetry) :
                /\ first.ev.key = c.ev.key /\ first.ev.class = c.ev.class
                /\ first.seq < c.seq /\ first.ev.status = "error"
                /\ \A d \in Recorded(tasks[t], "model_invocation_recorded") :
                     d.ev.key = c.ev.key =>
                       d.ev.status # "ok" /\ (d.seq > first.seq => d.ev.class = c.ev.class)

TasksShareNoRef ==
  \A t, u \in Tasks : t # u => RefsOf(tasks[t].comps) \cap RefsOf(tasks[u].comps) = {}

(* A charge for a repeat is withdrawn only by an observation, in the same  *)
(* task, of the same inputs with another result: no other event a tenant   *)
(* later ingests makes a reported amount disappear, unless it re-uses the  *)
(* component ref in another task.                                          *)
RepeatChargesStand ==
  [][Auditable' /\ TasksShareNoRef' =>
       \A f \in {g \in Findings : g.rule \in {DuplicateCi, DeterministicRetry}} :
         LET ev == events'[Len(events')] IN
         \A c \in f.units :
           \/ \E g \in Findings' : g.task = f.task /\ c \in g.units
           \/ /\ ev.task = f.task /\ ev.type = c.ev.type
              /\ ev.key = c.ev.key
              /\ f.rule = DuplicateCi => ev.rev = c.ev.rev
              /\ ev.status # c.ev.status \/ ev.class # c.ev.class]_vars

(* Work is charged as started after the objective disappeared only if the  *)
(* task has no merge, failure or close anywhere in the ledger, and the     *)
(* last start of its execution is after every abort.                       *)
AbortChargesJustified ==
  Auditable =>
    \A f \in {g \in Findings : g.rule = ExecutionAfterAbort} :
      LET aborts == Observed(f.task, {"task_aborted"}) IN
      /\ Observed(f.task, {"pull_request_merged", "task_failed", "pull_request_closed"}) = {}
      /\ aborts # {}
      /\ \A c \in f.units :
           LET starts == ObservedOf(f.task, c.ev.exec, "execution_started")
           IN \E i \in starts : IsLast(i, starts) /\ \A a \in aborts : i > a
=============================================================================
