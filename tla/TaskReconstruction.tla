------------------------- MODULE TaskReconstruction -------------------------
(***************************************************************************)
(* AGENTIC_TASK reconstruction (packages/core task.js).  The ledger's      *)
(* events are folded, in sequence order, into one build state per task;    *)
(* finalizeTask then checks the execution lifecycle, resolves the outcome  *)
(* and files the cost components.                                          *)
(*                                                                         *)
(* The code folds the whole ledger at every audit; here the accumulator of *)
(* that fold (tasks) is advanced as each event is stored, and what         *)
(* finalizeTask computes are state functions of it, so every state shows   *)
(* the audit of every ledger prefix.  seq is the position in the ledger:   *)
(* TenantLedger's SeqStrictlyMonotonic says the two order events alike.    *)
(***************************************************************************)
EXTENDS TaskFold

(* A scenario is a set of events adapters may deliver, malformed ones      *)
(* included, with a bound on the length of the ledger and on how often one *)
(* and the same event is stored.                                           *)
CONSTANT Scenarios

ASSUME ScenarioAssumption ==
  Scenarios \subseteq [evidence : SUBSET Event, events : Nat, deliveries : Nat]

Evidence == UNION {s.evidence : s \in Scenarios}

InBounds(ledger) ==
  \E s \in Scenarios :
    /\ Len(ledger) <= s.events
    /\ \A i \in DOMAIN ledger :
         /\ ledger[i] \in s.evidence
         /\ Cardinality({j \in DOMAIN ledger : ledger[j] = ledger[i]}) <= s.deliveries

VARIABLES
  events,    \* the stored events, oldest first
  tasks      \* per task, the build state after folding events

vars == <<events, tasks>>

(* reconstructTasks returns instead of throwing: one bad task refuses the  *)
(* reconstruction of every task in the ledger.                             *)
Auditable == \A t \in Tasks : AuditableTask(tasks[t])

-----------------------------------------------------------------------------
Init ==
  /\ events = <<>>
  /\ tasks = [t \in Tasks |-> EmptyTask]

(* The ledger stores an event normalizeEvent accepts. *)
Observe(ev) ==
  /\ Conforms(ev)
  /\ events' = Append(events, ev)
  /\ InBounds(events')
  /\ tasks' = [tasks EXCEPT ![ev.task] = ApplyEvent(@, ev, Len(events) + 1)]

Next == \E ev \in Evidence : Observe(ev)

Spec == Init /\ [][Next]_vars

-----------------------------------------------------------------------------
(* Types of the ledger and of the reconstruction's build state. *)
TypeOK == events \in Seq(Event) /\ tasks \in [Tasks -> TaskState]

(* Positions of the ledger holding events of task t of one of some types. *)
Observed(t, types) == {i \in DOMAIN events : events[i].task = t /\ events[i].type \in types}
ObservedOf(t, e, type) == {i \in Observed(t, {type}) : events[i].exec = e}

(* Attribution is conservative and complete: the outcome is accepted,      *)
(* failed or aborted exactly when the ledger holds evidence of it that no  *)
(* stronger evidence overrides, wherever in the ledger that evidence is.   *)
OutcomeFromEvidence ==
  \A t \in Tasks :
    LET merges == Observed(t, {"pull_request_merged"})
        failures == Observed(t, {"task_failed", "pull_request_closed"})
        aborts == Observed(t, {"task_aborted"})
        outcome == Outcome(tasks[t])
    IN /\ outcome = "accepted" <=> merges # {}
       /\ outcome = "failed" <=> merges = {} /\ failures # {}
       /\ outcome = "aborted" <=> merges = {} /\ failures = {} /\ aborts # {}

OutcomeRank == [unresolved |-> 0, aborted |-> 1, failed |-> 2, accepted |-> 3]

(* Later evidence only strengthens an outcome: an accepted task is never   *)
(* reported failed, aborted or unresolved again, nor a failed one aborted. *)
OutcomeNeverWeakens ==
  [][\A t \in Tasks :
       OutcomeRank[Outcome(tasks[t])] <= OutcomeRank[Outcome(tasks'[t])]]_vars

(* Money is never dropped from the books nor counted twice: the cost of an *)
(* auditable task is the cost of its component events in the ledger,       *)
(* whatever executions they name and whether those were ever announced.    *)
MoneyConserved ==
  Auditable =>
    \A t \in Tasks :
      KnownCost(tasks[t]) =
        SumFunction([i \in {j \in Observed(t, ComponentTypes) : events[j].cost # None}
                       |-> events[i].cost])

IsLast(i, S) == i \in S /\ \A j \in S : j <= i

(* What the certain-waste rules compare is where the ledger says it is: an *)
(* execution's start is its last explicit start, its status that of its    *)
(* last finish, and the abort position is the last abort.                  *)
PositionsFromEvidence ==
  \A t \in Tasks :
    LET aborts == Observed(t, {"task_aborted"}) IN
    /\ aborts # {} => IsLast(tasks[t].abortedSeq, aborts)
    /\ \A e \in Executions :
         LET x == tasks[t].execs[e]
             starts == ObservedOf(t, e, "execution_started")
             finishes == ObservedOf(t, e, "execution_finished")
         IN /\ x.explicit <=> starts # {}
            /\ x.explicit => IsLast(x.startedSeq, starts)
            /\ x.status = "running" <=> finishes = {}
            /\ \A i \in finishes : IsLast(i, finishes) => x.status = events[i].status

Exchanged(evs, i) == [evs EXCEPT ![i] = evs[i + 1], ![i + 1] = evs[i]]

(* What delivery order indeed cannot change: outcome, cost and reversal of *)
(* every task are those of the same evidence in any neighbouring order.    *)
OrderFreeFacts ==
  \A i \in 1..(Len(events) - 1) :
    LET r == Reconstruct(Exchanged(events, i)) IN
    \A t \in Tasks :
      /\ Outcome(r[t]) = Outcome(tasks[t])
      /\ Reverted(r[t]) = Reverted(tasks[t])
      /\ ~r[t].duplicateRef => KnownCost(r[t]) = KnownCost(tasks[t])
=============================================================================
