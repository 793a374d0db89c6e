--------------------------- MODULE CoreAuditProofs ---------------------------
(***************************************************************************)
(* What the core promises for every vocabulary, every evidence and every   *)
(* ledger length.                                                          *)
(*                                                                         *)
(* Task reconstruction: the types of its build state; an outcome is what   *)
(* the stored evidence supports and never weakens; the positions the rules *)
(* compare are those of the ledger; money is conserved; outcome, reversal  *)
(* and cost are free of the order of delivery.  The invariants are         *)
(* inductive once the types are known, because storing an event adds one   *)
(* position (ObservedStep).                                                *)
(*                                                                         *)
(* Certain waste: a component is charged once, what was observed first is  *)
(* never charged as a repeat, and work is charged as done after an abort   *)
(* only if it was.  The findings are functions of the build state, so the  *)
(* proofs need invariants of it: no two components of a task share a ref   *)
(* (RefsUnique), and an execution is announced by a start or a finish      *)
(* (AnnouncedByEvent).                                                     *)
(*                                                                         *)
(* Audit export: the exported audit and the report the CLI makes of it     *)
(* agree.  Every number of either is a sum over the components of the seen *)
(* tasks, grouped by task, by kind, by execution or by finding; the sums   *)
(* agree because each component is in one group (SumOfFiled,               *)
(* SumOfLabelled), each finding is of a seen task, and findings share no   *)
(* component (ClaimsDisjoint).                                             *)
(***************************************************************************)
EXTENDS CoreAuditExport, TaskFoldProofs

USE VocabularyAssumption

(* Every scenario delivers events of the vocabulary. *)
LEMMA EvidenceWellFormed == Evidence \subseteq Event
BY ScenarioAssumption DEF Evidence

-----------------------------------------------------------------------------
(* Steps. *)

(* Storing an event adds its position to those observed of its kind. *)
LEMMA ObservedStep ==
  ASSUME events \in Seq(Event), NEW ev \in Event, events' = Append(events, ev),
         NEW t, NEW types
  PROVE  /\ Observed(t, types) \subseteq 1..Len(events)
         /\ Observed(t, types)' = IF ev.task = t /\ ev.type \in types
                                  THEN Observed(t, types) \cup {Len(events) + 1}
                                  ELSE Observed(t, types)
<1>1. /\ DOMAIN events = 1..Len(events) /\ Len(events) \in Nat
      /\ DOMAIN events' = 1..(Len(events) + 1)
      /\ \A i \in 1..Len(events) : events'[i] = events[i]
      /\ events'[Len(events) + 1] = ev
  OBVIOUS
<1>2. 1..(Len(events) + 1) = 1..Len(events) \cup {Len(events) + 1}
  BY <1>1
<1> QED
  BY <1>1, <1>2 DEF Observed

(* The projections stay well typed, whatever evidence the ledger stores. *)
THEOREM TypeCorrect == Spec => []TypeOK
<1>1. Init => TypeOK
  <2>1. NoExecution \in ExecutionState
    BY DEF NoExecution, ExecutionState, Optional
  <2>2. EmptyTask \in TaskState
    BY <2>1 DEF EmptyTask, TaskState
  <2> QED  BY <2>2 DEF Init, TypeOK
<1>2. TypeOK /\ [Next]_vars => TypeOK'
  <2> SUFFICES ASSUME TypeOK, [Next]_vars PROVE TypeOK'
    OBVIOUS
  <2>1. CASE Next
    <3>1. PICK ev \in Evidence : Observe(ev)
      BY <2>1 DEF Next
    <3>2. ev \in Event /\ ev.task \in Tasks /\ Conforms(ev) /\ Len(events) + 1 \in Nat
      BY <3>1, EvidenceWellFormed DEF Observe, Event, TypeOK
    <3>3. ApplyEvent(tasks[ev.task], ev, Len(events) + 1) \in TaskState
      BY <3>2, ApplyType DEF TypeOK
    <3> QED  BY <3>1, <3>2, <3>3 DEF Observe, TypeOK
  <2>2. CASE UNCHANGED vars
    BY <2>2 DEF vars, TypeOK
  <2> QED  BY <2>1, <2>2
<1> QED
  BY <1>1, <1>2, PTL DEF Spec

(* A step changes the build state of the stored event's task only. *)
LEMMA StepTasks ==
  ASSUME TypeOK, NEW ev \in Evidence, Observe(ev)
  PROVE  /\ ev \in Event /\ Conforms(ev) /\ events' = Append(events, ev)
         /\ Len(events) \in Nat
         /\ \A t \in Tasks :
              /\ tasks[t] \in TaskState
              /\ tasks'[t] = IF t = ev.task THEN ApplyEvent(tasks[t], ev, Len(events) + 1)
                             ELSE tasks[t]
BY EvidenceWellFormed DEF TypeOK, Observe

-----------------------------------------------------------------------------
(* Outcomes. *)

(* The inductive invariant: each kind of signal is in the build state      *)
(* exactly when it is in the ledger.                                       *)
SignalsFromEvidence ==
  \A t \in Tasks :
    /\ tasks[t].merged # {} <=> Observed(t, {"pull_request_merged"}) # {}
    /\ (tasks[t].failed \/ tasks[t].closed # {})
         <=> Observed(t, {"task_failed", "pull_request_closed"}) # {}
    /\ tasks[t].abortedSeq > 0 <=> Observed(t, {"task_aborted"}) # {}

(* With no evidence there is no signal. *)
LEMMA SignalsInit == Init => SignalsFromEvidence
BY DEF Init, SignalsFromEvidence, EmptyTask, Observed

(* Each event keeps the signals of every task those of the events in the ledger. *)
LEMMA SignalsStep == TypeOK /\ SignalsFromEvidence /\ [Next]_vars => SignalsFromEvidence'
<1> SUFFICES ASSUME TypeOK, SignalsFromEvidence, [Next]_vars PROVE SignalsFromEvidence'
  OBVIOUS
<1>1. CASE Next
  <2>1. PICK ev \in Evidence : Observe(ev)
    BY <1>1 DEF Next
  <2>2. ev \in Event /\ events' = Append(events, ev) /\ Len(events) \in Nat
    BY <2>1, StepTasks
  <2> SUFFICES ASSUME NEW t \in Tasks
               PROVE  /\ tasks'[t].merged # {} <=> Observed(t, {"pull_request_merged"})' # {}
                      /\ (tasks'[t].failed \/ tasks'[t].closed # {})
                           <=> Observed(t, {"task_failed", "pull_request_closed"})' # {}
                      /\ tasks'[t].abortedSeq > 0 <=> Observed(t, {"task_aborted"})' # {}
    BY DEF SignalsFromEvidence
  <2>3. events \in Seq(Event) /\ tasks[t] \in TaskState
    BY DEF TypeOK
  <2>4. /\ tasks[t].merged # {} <=> Observed(t, {"pull_request_merged"}) # {}
        /\ (tasks[t].failed \/ tasks[t].closed # {})
             <=> Observed(t, {"task_failed", "pull_request_closed"}) # {}
        /\ tasks[t].abortedSeq > 0 <=> Observed(t, {"task_aborted"}) # {}
    BY DEF SignalsFromEvidence
  <2>5. CASE t # ev.task
    <3>1. tasks'[t] = tasks[t]
      BY <2>1, <2>5, StepTasks
    <3>2. \A types : Observed(t, types)' = Observed(t, types)
      BY <2>2, <2>3, <2>5, ObservedStep
    <3> QED  BY <2>4, <3>1, <3>2
  <2>6. CASE t = ev.task
    <3> DEFINE n == Len(events) + 1
    <3>1. tasks'[t] = ApplyEvent(tasks[t], ev, n)
      BY <2>1, <2>6, StepTasks
    <3>2. n \in Nat /\ n > 0
      BY <2>2
    <3>3. \A types : Observed(t, types)' = IF ev.type \in types THEN Observed(t, types) \cup {n}
                                           ELSE Observed(t, types)
      BY <2>2, <2>3, <2>6, ObservedStep
    <3> HIDE DEF n
    <3>4. Applied(tasks[t], ev, n, tasks'[t])
      BY <2>2, <2>3, <3>1, <3>2, AppliedFields
    <3>5. tasks'[t].merged # {} <=> Observed(t, {"pull_request_merged"})' # {}
      BY <2>4, <3>3, <3>4 DEF Applied
    <3>6. (tasks'[t].failed \/ tasks'[t].closed # {})
             <=> Observed(t, {"task_failed", "pull_request_closed"})' # {}
      BY <2>4, <3>3, <3>4 DEF Applied
    <3>7. tasks'[t].abortedSeq > 0 <=> Observed(t, {"task_aborted"})' # {}
      BY <2>3, <2>4, <3>2, <3>3, <3>4 DEF TaskState, Applied
    <3> QED  BY <3>5, <3>6, <3>7
  <2> QED  BY <2>5, <2>6
<1>2. CASE UNCHANGED vars
  BY <1>2 DEF vars, SignalsFromEvidence, Observed
<1> QED  BY <1>1, <1>2

(* When the signals are those of the ledger, so is the outcome. *)
LEMMA SignalsDecide == SignalsFromEvidence => OutcomeFromEvidence
<1> SUFFICES ASSUME SignalsFromEvidence, NEW t \in Tasks
             PROVE  LET merges == Observed(t, {"pull_request_merged"})
                        failures == Observed(t, {"task_failed", "pull_request_closed"})
                        aborts == Observed(t, {"task_aborted"})
                        outcome == Outcome(tasks[t])
                    IN /\ outcome = "accepted" <=> merges # {}
                       /\ outcome = "failed" <=> merges = {} /\ failures # {}
                       /\ outcome = "aborted" <=> merges = {} /\ failures = {} /\ aborts # {}
  BY DEF OutcomeFromEvidence
<1>1. Outcome(tasks[t]) =
        IF tasks[t].merged # {} THEN "accepted"
        ELSE IF tasks[t].failed \/ tasks[t].closed # {} THEN "failed"
        ELSE IF tasks[t].abortedSeq > 0 THEN "aborted" ELSE "unresolved"
  BY DEF Outcome
<1> QED  BY <1>1 DEF SignalsFromEvidence

(* The outcome of every task is exactly what the stored evidence supports. *)
THEOREM OutcomeIsMeasured == Spec => []OutcomeFromEvidence
<1>1. Spec => []TypeOK
  BY TypeCorrect
<1>2. Spec => []SignalsFromEvidence
  BY <1>1, SignalsInit, SignalsStep, PTL DEF Spec
<1> QED  BY <1>2, SignalsDecide, PTL

(* Outcomes as ranks, without the lookup. *)
LEMMA Rank ==
  ASSUME NEW t \in TaskState
  PROVE  OutcomeRank[Outcome(t)] =
           IF t.merged # {} THEN 3
           ELSE IF t.failed \/ t.closed # {} THEN 2
           ELSE IF t.abortedSeq > 0 THEN 1 ELSE 0
BY DEF Outcome, OutcomeRank

(* No event lowers the rank of the outcome of any task. *)
THEOREM OutcomesOnlyStrengthen == Spec => OutcomeNeverWeakens
<1>1. TypeOK /\ [Next]_vars =>
        [\A t \in Tasks : OutcomeRank[Outcome(tasks[t])] <= OutcomeRank[Outcome(tasks'[t])]]_vars
  <2> SUFFICES ASSUME TypeOK, Next, NEW t \in Tasks
               PROVE  OutcomeRank[Outcome(tasks[t])] <= OutcomeRank[Outcome(tasks'[t])]
    OBVIOUS
  <2>1. PICK ev \in Evidence : Observe(ev)
    BY DEF Next
  <2>2. tasks[t] \in TaskState
    BY DEF TypeOK
  <2>3. CASE tasks'[t] = tasks[t]
    BY <2>2, <2>3, Rank
  <2>4. CASE tasks'[t] = ApplyEvent(tasks[t], ev, Len(events) + 1)
    <3>1. ev \in Event /\ Conforms(ev) /\ Len(events) + 1 \in Nat /\ Len(events) + 1 > 0
      BY <2>1, StepTasks
    <3>2. tasks'[t] \in TaskState
      BY <2>2, <2>4, <3>1, ApplyType
    <3>3. Applied(tasks[t], ev, Len(events) + 1, tasks'[t])
      BY <2>2, <2>4, <3>1, AppliedFields
    <3>4. /\ tasks[t].merged # {} => tasks'[t].merged # {}
          /\ tasks[t].closed # {} => tasks'[t].closed # {}
          /\ tasks[t].failed => tasks'[t].failed
          /\ tasks[t].abortedSeq > 0 => tasks'[t].abortedSeq > 0
      BY <3>1, <3>3 DEF Applied
    <3> QED  BY <2>2, <3>2, <3>4, Rank
  <2> QED  BY <2>1, <2>3, <2>4, StepTasks
<1> QED
  BY <1>1, TypeCorrect, PTL DEF Spec, OutcomeNeverWeakens

-----------------------------------------------------------------------------
(* Positions. *)

(* Storing an event adds its position to those of its execution. *)
LEMMA ObservedOfStep ==
  ASSUME events \in Seq(Event), NEW ev \in Event, events' = Append(events, ev),
         NEW t, NEW e, NEW type
  PROVE  /\ ObservedOf(t, e, type) \subseteq 1..Len(events)
         /\ ObservedOf(t, e, type)' = IF ev.task = t /\ ev.type = type /\ ev.exec = e
                                      THEN ObservedOf(t, e, type) \cup {Len(events) + 1}
                                      ELSE ObservedOf(t, e, type)
         /\ \A i \in 1..Len(events) : events'[i] = events[i]
         /\ events'[Len(events) + 1] = ev
<1>1. /\ Len(events) \in Nat
      /\ \A i \in 1..Len(events) : events'[i] = events[i]
      /\ events'[Len(events) + 1] = ev
  OBVIOUS
<1>2. /\ Observed(t, {type}) \subseteq 1..Len(events)
      /\ Observed(t, {type})' = IF ev.task = t /\ ev.type = type
                                THEN Observed(t, {type}) \cup {Len(events) + 1}
                                ELSE Observed(t, {type})
  BY ObservedStep
<1> QED  BY <1>1, <1>2 DEF ObservedOf

(* The last of a set of positions extended by a later one. *)
LEMMA LastStep ==
  ASSUME NEW n \in Nat, NEW S \in SUBSET (1..n)
  PROVE  /\ IsLast(n + 1, S \cup {n + 1})
         /\ \A i : IsLast(i, S \cup {n + 1}) => i = n + 1
<1>1. \A j \in S : j \in Int /\ j <= n
  OBVIOUS
<1>2. IsLast(n + 1, S \cup {n + 1})
  BY <1>1 DEF IsLast
<1>3. ASSUME NEW i, IsLast(i, S \cup {n + 1}) PROVE i = n + 1
  BY <1>1, <1>3 DEF IsLast
<1> QED  BY <1>2, <1>3

(* The inductive invariant on an execution record x: what                  *)
(* PositionsFromEvidence says of it, and that an explicit start announces. *)
Placed(x, starts, finishes, evs) ==
  /\ x.explicit => x.announced
  /\ x.explicit <=> starts # {}
  /\ x.explicit => IsLast(x.startedSeq, starts)
  /\ x.status = "running" <=> finishes = {}
  /\ \A i \in finishes : IsLast(i, finishes) => x.status = evs[i].status

AllPlaced ==
  \A t \in Tasks :
    LET aborts == Observed(t, {"task_aborted"}) IN
    /\ aborts # {} => IsLast(tasks[t].abortedSeq, aborts)
    /\ \A e \in Executions :
         Placed(tasks[t].execs[e], ObservedOf(t, e, "execution_started"),
                ObservedOf(t, e, "execution_finished"), events)

(* Each event keeps every execution placed: its start and its finish are those of the
   ledger. *)
LEMMA PlacedStep == TypeOK /\ AllPlaced /\ [Next]_vars => AllPlaced'
<1> SUFFICES ASSUME TypeOK, AllPlaced, [Next]_vars PROVE AllPlaced'
  OBVIOUS
<1>1. CASE Next
  <2>1. PICK ev \in Evidence : Observe(ev)
    BY <1>1 DEF Next
  <2> DEFINE n == Len(events)
  <2>2. /\ ev \in Event /\ Conforms(ev) /\ events' = Append(events, ev)
        /\ n \in Nat /\ n + 1 \in Nat /\ events \in Seq(Event)
    BY <2>1, StepTasks DEF TypeOK
  <2>3. ASSUME NEW t \in Tasks
        PROVE  Observed(t, {"task_aborted"})' # {}
                 => IsLast(tasks'[t].abortedSeq, Observed(t, {"task_aborted"})')
    <3> DEFINE A == Observed(t, {"task_aborted"})
    <3>1. /\ A \subseteq 1..n
          /\ A' = IF ev.task = t /\ ev.type = "task_aborted" THEN A \cup {n + 1} ELSE A
      BY <2>2, ObservedStep
    <3>2. tasks[t] \in TaskState /\ (A # {} => IsLast(tasks[t].abortedSeq, A))
      BY DEF TypeOK, AllPlaced
    <3> HIDE DEF n, A
    <3>3. CASE t = ev.task
      <4>1. Applied(tasks[t], ev, n + 1, tasks'[t])
        BY <2>1, <2>2, <3>2, <3>3, StepTasks, AppliedFields DEF n
      <4>2. CASE ev.type = "task_aborted"
        <5>1. IsLast(n + 1, A')
          BY <2>2, <3>1, <3>3, <4>2, LastStep
        <5>2. tasks'[t].abortedSeq = n + 1
          BY <4>1, <4>2 DEF Applied
        <5> QED  BY <5>1, <5>2 DEF A
      <4>3. CASE ev.type # "task_aborted"
        <5>1. tasks'[t].abortedSeq = tasks[t].abortedSeq /\ A' = A
          BY <3>1, <4>1, <4>3 DEF Applied
        <5> QED  BY <3>2, <5>1 DEF A
      <4> QED  BY <4>2, <4>3
    <3>4. CASE t # ev.task
      <4>1. tasks'[t] = tasks[t] /\ A' = A
        BY <2>1, <3>1, <3>4, StepTasks
      <4> QED  BY <3>2, <4>1 DEF A
    <3> QED  BY <3>3, <3>4
  <2>4. ASSUME NEW t \in Tasks, NEW e \in Executions
        PROVE  Placed(tasks'[t].execs[e], ObservedOf(t, e, "execution_started")',
                      ObservedOf(t, e, "execution_finished")', events')
    <3> DEFINE x == tasks[t].execs[e]
               y == tasks'[t].execs[e]
               S == ObservedOf(t, e, "execution_started")
               F == ObservedOf(t, e, "execution_finished")
    <3>1. Placed(x, S, F, events)
      BY DEF AllPlaced
    <3>2. /\ S \subseteq 1..n /\ F \subseteq 1..n
          /\ S' = IF ev.task = t /\ ev.type = "execution_started" /\ ev.exec = e THEN S \cup {n + 1} ELSE S
          /\ F' = IF ev.task = t /\ ev.type = "execution_finished" /\ ev.exec = e THEN F \cup {n + 1} ELSE F
          /\ \A i \in 1..n : events'[i] = events[i]
          /\ events'[n + 1] = ev
      BY <2>2, ObservedOfStep
    <3>3. tasks[t] \in TaskState /\ x \in ExecutionState
      BY DEF TypeOK, TaskState
    <3> HIDE DEF n, S, F
    <3>4. CASE t = ev.task
      <4>1. Moved(x, ev, n + 1, e, y)
        BY <2>1, <2>2, <3>3, <3>4, StepTasks, MovedExecution DEF n
      <4> HIDE DEF x, y
      <4>2. CASE ev.type = "execution_started" /\ ev.exec = e
        <5>1. y.explicit /\ y.announced /\ y.startedSeq = n + 1 /\ y.status = x.status
          BY <4>1, <4>2 DEF Moved
        <5>2. IsLast(n + 1, S')
          BY <2>2, <3>2, <3>4, <4>2, LastStep
        <5>3. S' # {} /\ F' = F
          BY <3>2, <3>4, <4>2
        <5> QED  BY <3>1, <3>2, <5>1, <5>2, <5>3 DEF Placed, S, F, y
      <4>3. CASE ev.type = "execution_finished" /\ ev.exec = e
        <5>1. /\ y.explicit <=> x.explicit
              /\ y.announced /\ y.status = ev.status
              /\ x.explicit => y.startedSeq = x.startedSeq
          BY <3>1, <4>1, <4>3 DEF Moved, Placed
        <5>2. ev.status # "running"
          BY <2>2, <4>3 DEF Conforms, ExecutionStatuses
        <5>3. S' = S /\ F' # {} /\ \A i \in F' : IsLast(i, F') => i = n + 1
          BY <2>2, <3>2, <3>4, <4>3, LastStep
        <5> QED  BY <3>1, <3>2, <5>1, <5>2, <5>3 DEF Placed, S, F, y
      <4>4. CASE ~(ev.type \in {"execution_started", "execution_finished"} /\ ev.exec = e)
        <5>1. y = x /\ S' = S /\ F' = F
          BY <3>2, <4>1, <4>4 DEF Moved
        <5> QED  BY <3>1, <3>2, <5>1 DEF Placed, S, F, y
      <4> QED  BY <4>2, <4>3, <4>4
    <3>5. CASE t # ev.task
      <4>1. y = x
        BY <2>1, <3>5, StepTasks
      <4>2. S' = S /\ F' = F
        BY <3>2, <3>5
      <4> HIDE DEF x, y
      <4> QED  BY <3>1, <3>2, <4>1, <4>2 DEF Placed, S, F, y
    <3> QED  BY <3>4, <3>5
  <2> QED  BY <2>3, <2>4 DEF AllPlaced
<1>2. CASE UNCHANGED vars
  BY <1>2 DEF vars, AllPlaced, Observed, ObservedOf
<1> QED  BY <1>1, <1>2

(* Starts, statuses and abort positions are the last ones of the ledger. *)
THEOREM PositionsAreTheLedgers == Spec => []PositionsFromEvidence
<1>1. Init => AllPlaced
  BY DEF Init, AllPlaced, Placed, EmptyTask, NoExecution, Observed, ObservedOf
<1>2. AllPlaced => PositionsFromEvidence
  BY DEF AllPlaced, Placed, PositionsFromEvidence
<1> QED
  BY <1>1, <1>2, PlacedStep, TypeCorrect, PTL DEF Spec

-----------------------------------------------------------------------------
(* Components and money. *)

(* An event adds at most itself to the components of its own task, and only if none of
   them carries its reference. *)
LEMMA StepComps ==
  ASSUME TypeOK, NEW ev \in Evidence, Observe(ev), NEW t \in Tasks
  PROVE  tasks'[t].comps =
           IF t = ev.task /\ IsComponent(ev) /\ ~\E c \in tasks[t].comps : c.ev.ref = ev.ref
           THEN tasks[t].comps \cup {[seq |-> Len(events) + 1, ev |-> ev]} ELSE tasks[t].comps
<1> DEFINE n == Len(events) + 1
<1>1. ev \in Event /\ tasks[t] \in TaskState /\ n \in Nat
  BY StepTasks
<1>2. tasks'[t] = IF t = ev.task THEN ApplyEvent(tasks[t], ev, n) ELSE tasks[t]
  BY StepTasks
<1> HIDE DEF n
<1>3. ApplyEvent(tasks[t], ev, n).comps =
        IF IsComponent(ev) /\ ~\E c \in tasks[t].comps : c.ev.ref = ev.ref
        THEN tasks[t].comps \cup {[seq |-> n, ev |-> ev]} ELSE tasks[t].comps
  BY <1>1, AppliedComps, Zenon
<1>4. CASE t = ev.task
  BY <1>2, <1>3, <1>4, Zenon DEF n
<1>5. CASE t # ev.task
  BY <1>2, <1>5, Zenon
<1> QED  BY <1>4, <1>5

(* A ref names at most one component of a task, and a component was        *)
(* stored no later than now.                                               *)
RefsUnique ==
  \A t \in Tasks : \A c, d \in tasks[t].comps : c.ev.ref = d.ev.ref => c = d

SeqBounded == \A t \in Tasks : \A c \in tasks[t].comps : c.seq <= Len(events)

(* No task holds two components of one reference, and none is numbered past the ledger. *)
LEMMA RefsUniqueAlways == Spec => [](RefsUnique /\ SeqBounded)
<1>1. Init => RefsUnique /\ SeqBounded
  BY DEF Init, RefsUnique, SeqBounded, EmptyTask
<1>2. TypeOK /\ RefsUnique /\ SeqBounded /\ [Next]_vars => RefsUnique' /\ SeqBounded'
  <2> SUFFICES ASSUME TypeOK, RefsUnique, SeqBounded, [Next]_vars
               PROVE  RefsUnique' /\ SeqBounded'
    OBVIOUS
  <2>1. CASE Next
    <3>1. PICK ev \in Evidence : Observe(ev)
      BY <2>1 DEF Next
    <3> DEFINE new == [seq |-> Len(events) + 1, ev |-> ev]
    <3>2. new.ev = ev /\ new.seq = Len(events) + 1 /\ Len(events) \in Nat
      BY <3>1, StepTasks
    <3>3. Len(events') = Len(events) + 1
      BY <3>1 DEF Observe, TypeOK
    <3> SUFFICES ASSUME NEW t \in Tasks
                 PROVE  /\ \A c, d \in tasks'[t].comps : c.ev.ref = d.ev.ref => c = d
                        /\ \A c \in tasks'[t].comps : c.seq <= Len(events')
      BY DEF RefsUnique, SeqBounded
    <3>4. \A c, d \in tasks[t].comps : c.ev.ref = d.ev.ref => c = d
      BY DEF RefsUnique
    <3>5. \A c \in tasks[t].comps : c.seq \in Nat /\ c.seq <= Len(events)
      BY DEF SeqBounded, TypeOK, TaskState, Component
    <3>6. \/ tasks'[t].comps = tasks[t].comps
          \/ /\ tasks'[t].comps = tasks[t].comps \cup {new}
             /\ ~\E c \in tasks[t].comps : c.ev.ref = ev.ref
      BY <3>1, StepComps, Zenon
    <3> HIDE DEF new
    <3> QED  BY <3>2, <3>3, <3>4, <3>5, <3>6
  <2>2. CASE UNCHANGED vars
    BY <2>2 DEF vars, RefsUnique, SeqBounded
  <2> QED  BY <2>1, <2>2
<1> QED  BY <1>1, <1>2, TypeCorrect, PTL DEF Spec

(* The inductive invariant: the components of a task without a repeated    *)
(* ref are its component events.                                           *)
CompsFromLedger ==
  \A t \in Tasks :
    ~tasks[t].duplicateRef =>
      tasks[t].comps = {Filed(events, i) : i \in Observed(t, ComponentTypes)}

(* Each event keeps the components of a task those of the ledger, unless a reference
   was repeated. *)
LEMMA CompsStep == TypeOK /\ CompsFromLedger /\ [Next]_vars => CompsFromLedger'
<1> SUFFICES ASSUME TypeOK, CompsFromLedger, [Next]_vars PROVE CompsFromLedger'
  OBVIOUS
<1>1. CASE Next
  <2>1. PICK ev \in Evidence : Observe(ev)
    BY <1>1 DEF Next
  <2> SUFFICES ASSUME NEW t \in Tasks, ~tasks'[t].duplicateRef
               PROVE  tasks'[t].comps = {Filed(events', i) : i \in Observed(t, ComponentTypes)'}
    BY DEF CompsFromLedger
  <2> DEFINE n == Len(events)
             O == Observed(t, ComponentTypes)
             old == {Filed(events, i) : i \in O}
             taken == \E c \in tasks[t].comps : c.ev.ref = ev.ref
  <2>2. /\ ev \in Event /\ events' = Append(events, ev) /\ n \in Nat /\ events \in Seq(Event)
        /\ tasks[t] \in TaskState /\ n + 1 \in Nat
        /\ tasks'[t] = IF t = ev.task THEN ApplyEvent(tasks[t], ev, n + 1) ELSE tasks[t]
    BY <2>1, StepTasks DEF TypeOK
  <2>3. /\ O \subseteq 1..n
        /\ O' = IF ev.task = t /\ ev.type \in ComponentTypes THEN O \cup {n + 1} ELSE O
    BY <2>2, ObservedStep
  <2>4. /\ \A i \in 1..n : Filed(events', i) = Filed(events, i)
        /\ Filed(events', n + 1) = [seq |-> n + 1, ev |-> ev]
    BY <2>2 DEF Filed
  <2>5. tasks'[t].comps = IF t = ev.task /\ IsComponent(ev) /\ ~taken
                          THEN tasks[t].comps \cup {[seq |-> n + 1, ev |-> ev]} ELSE tasks[t].comps
    BY <2>1, StepComps, Zenon
  <2>6. ~tasks[t].duplicateRef /\ (t = ev.task /\ IsComponent(ev) => ~taken)
    <3>1. CASE t = ev.task
      <4>1. ApplyEvent(tasks[t], ev, n + 1).duplicateRef =
              IF IsComponent(ev) /\ taken THEN TRUE ELSE tasks[t].duplicateRef
        <5> HIDE DEF n
        <5> QED  BY <2>2, AppliedDuplicate, Zenon
      <4> HIDE DEF taken
      <4> QED  BY <2>2, <3>1, <4>1, Zenon
    <3>2. CASE t # ev.task
      BY <2>2, <3>2
    <3> QED  BY <3>1, <3>2
  <2>7. tasks[t].comps = old
    BY <2>6 DEF CompsFromLedger
  <2>8. \A i \in O : Filed(events', i) = Filed(events, i)
    BY <2>3, <2>4
  <2> HIDE DEF n, O, taken
  <2>9. CASE t = ev.task /\ IsComponent(ev)
    <3>1. O' = O \cup {n + 1}
      BY <2>3, <2>9 DEF IsComponent
    <3>2. tasks'[t].comps = old \cup {Filed(events', n + 1)}
      BY <2>4, <2>5, <2>6, <2>7, <2>9
    <3>3. {Filed(events', i) : i \in O \cup {n + 1}} = old \cup {Filed(events', n + 1)}
      BY <2>8
    <3> QED  BY <3>1, <3>2, <3>3 DEF O
  <2>10. CASE ~(t = ev.task /\ IsComponent(ev))
    <3>1. O' = O
      BY <2>3, <2>10 DEF IsComponent
    <3>2. tasks'[t].comps = old
      BY <2>5, <2>7, <2>10
    <3>3. {Filed(events', i) : i \in O} = old
      BY <2>8
    <3> QED  BY <3>1, <3>2, <3>3 DEF O
  <2> QED  BY <2>9, <2>10
<1>2. CASE UNCHANGED vars
  BY <1>2 DEF vars, CompsFromLedger, Observed, Filed
<1> QED  BY <1>1, <1>2

(* Unless a reference was repeated, the components of a task are those of the ledger. *)
LEMMA CompsAlways == Spec => []CompsFromLedger
<1>1. Init => CompsFromLedger
  BY DEF Init, CompsFromLedger, EmptyTask, Observed
<1> QED  BY <1>1, CompsStep, TypeCorrect, PTL DEF Spec

(* From the components, which are those of the ledger, to the money: the sum over
   components is the sum over events. *)
LEMMA MoneyFromLedger == TypeOK /\ CompsFromLedger => MoneyConserved
<1> SUFFICES ASSUME TypeOK, CompsFromLedger, Auditable, NEW t \in Tasks
             PROVE  KnownCost(tasks[t]) =
                      SumFunction([i \in {j \in Observed(t, ComponentTypes) : events[j].cost # None}
                                     |-> events[i].cost])
  BY DEF MoneyConserved
<1> DEFINE P == Observed(t, ComponentTypes)
           S == tasks[t].comps
           w == [c \in S |-> Price(c)]
           v == [i \in P |-> IF events[i].cost = None THEN 0 ELSE events[i].cost]
           A == {i \in P : events[i].cost # None}
           f == [i \in P |-> Filed(events, i)]
<1>1. /\ tasks[t] \in TaskState /\ events \in Seq(Event)
      /\ S = {f[i] : i \in P} /\ S \in SUBSET Component
  <2>1. ~tasks[t].duplicateRef
    BY DEF Auditable, AuditableTask
  <2>2. S = {Filed(events, i) : i \in P}
    BY <2>1 DEF CompsFromLedger
  <2>3. tasks[t] \in TaskState /\ events \in Seq(Event)
    BY DEF TypeOK
  <2> QED  BY <2>2, <2>3 DEF TaskState
<1>2. P \subseteq 1..Len(events) /\ IsFiniteSet(P) /\ IsFiniteSet(S)
  <2>1. P \subseteq 1..Len(events) /\ Len(events) \in Nat
    BY <1>1 DEF Observed
  <2>2. IsFiniteSet(1..Len(events))
    BY <2>1, FS_Interval
  <2>3. IsFiniteSet(P)
    <3> HIDE DEF P
    <3> QED  BY <2>1, <2>2, FS_Subset
  <2>4. DOMAIN f = P
    OBVIOUS
  <2>5. IsFiniteSet({f[i] : i \in P})
    <3> HIDE DEF f, P
    <3> QED  BY <2>3, <2>4, FiniteImage
  <2>6. IsFiniteSet(S)
    <3> HIDE DEF f, P, S
    <3> QED  BY <1>1, <2>5
  <2> QED  BY <2>1, <2>3, <2>6
<1>3. ASSUME NEW i \in P
      PROVE  v[i] \in Nat /\ f[i] \in S /\ f[i].seq = i /\ w[f[i]] = v[i]
  <2>1. events[i] \in Event
    BY <1>1, <1>2
  <2>2. events[i].cost \in Nat \cup {None}
    BY <2>1 DEF Event, Optional
  <2>3. f[i] = [seq |-> i, ev |-> events[i]] /\ f[i] \in S
    BY <1>1 DEF Filed
  <2>4. w[f[i]] = Price(f[i])
    <3> HIDE DEF f, S
    <3> QED  BY <2>3
  <2>5. Price(f[i]) = IF events[i].cost = None THEN 0 ELSE events[i].cost
    <3> HIDE DEF f
    <3> QED  BY <2>3 DEF Price
  <2>6. v[i] = IF events[i].cost = None THEN 0 ELSE events[i].cost
    OBVIOUS
  <2> HIDE DEF f, v, w
  <2> QED  BY <2>2, <2>3, <2>4, <2>5, <2>6
<1>4. w \in [S -> Nat]
  BY <1>1, PriceType
<1>5. SumFunction(v) = SumFunction(w)
  <2>1. v \in [P -> Nat]
    BY <1>3
  <2>2. f \in [P -> S]
    BY <1>3
  <2>3. \A i, j \in P : f[i] = f[j] => i = j
    <3> HIDE DEF f, P
    <3> QED  BY <1>3
  <2>4. \A c \in S : \E i \in P : f[i] = c
    <3> HIDE DEF f, P, S
    <3> QED  BY <1>1
  <2>5. \A i \in P : w[f[i]] = v[i]
    BY <1>3
  <2> HIDE DEF f, v, w, P, S
  <2>6. Renames(f, P, v, S, w)
    BY <1>4, <2>1, <2>2, <2>3, <2>4, <2>5 DEF Renames
  <2> QED  BY <1>2, <2>6, SumReindexed
<1>6. SumFunction(v) = SumFunction(Part(v, A))
  <2>1. v \in [P -> Nat]
    BY <1>3
  <2>2. A \in SUBSET P /\ \A i \in P \ A : v[i] = 0
    OBVIOUS
  <2> HIDE DEF v, A, P
  <2> QED  BY <1>2, <2>1, <2>2, SumOfSupport
<1>7. Part(v, A) = [i \in A |-> events[i].cost]
  BY DEF Part
<1>8. KnownCost(tasks[t]) = SumFunction(w)
  BY <1>1, <1>2, KnownCostOfAll DEF CostOf
<1> HIDE DEF w, v
<1> QED  BY <1>5, <1>6, <1>7, <1>8

(* No money is lost or counted twice: an auditable task costs what its     *)
(* component events in the ledger cost.                                    *)
THEOREM MoneyIsConserved == Spec => []MoneyConserved
BY CompsAlways, MoneyFromLedger, TypeCorrect, PTL

-----------------------------------------------------------------------------
(* The order of delivery. *)

(* The accumulator of the model is told the same. *)
ToldAll == \A t \in Tasks : Told(events, Len(events), t, tasks[t])

(* In every state the build states are told by the ledger so far. *)
LEMMA ToldAlways == Spec => []ToldAll
<1>1. Init => ToldAll
  <2> SUFFICES ASSUME Init, NEW t \in Tasks PROVE Told(events, Len(events), t, tasks[t])
    BY DEF ToldAll
  <2>1. EmptyTask \in TaskState /\ tasks[t] = EmptyTask /\ Len(events) = 0
    BY DEF Init, EmptyTask, TaskState, NoExecution, ExecutionState, Optional
  <2>2. \A types : Upto(events, 0, t, types) = {}
    BY DEF Upto
  <2> QED  BY <2>1, <2>2 DEF Told, EmptyTask
<1>2. TypeOK /\ ToldAll /\ [Next]_vars => ToldAll'
  <2> SUFFICES ASSUME TypeOK, ToldAll, [Next]_vars PROVE ToldAll'
    OBVIOUS
  <2>1. CASE Next
    <3>1. PICK ev \in Evidence : Observe(ev)
      BY <2>1 DEF Next
    <3> DEFINE n == Len(events)
    <3> SUFFICES ASSUME NEW t \in Tasks PROVE Told(events', Len(events'), t, tasks'[t])
      BY DEF ToldAll
    <3>2. /\ ev \in Event /\ Conforms(ev) /\ n \in Nat
          /\ events' = Append(events, ev) /\ events \in Seq(Event)
          /\ tasks'[t] = IF t = ev.task THEN ApplyEvent(tasks[t], ev, n + 1) ELSE tasks[t]
      BY <3>1, StepTasks DEF TypeOK
    <3>3. /\ Len(events') = n + 1 /\ events'[n + 1] = ev
          /\ \A i \in 1..n : events'[i] = events[i]
      BY <3>2
    <3>4. Told(events, n, t, tasks[t])
      BY DEF ToldAll
    <3> HIDE DEF n
    <3>5. /\ \A types : Upto(events', n, t, types) = Upto(events, n, t, types)
          /\ \A types : \A i \in Upto(events, n, t, types) :
               events'[i] = events[i] /\ Filed(events', i) = Filed(events, i)
      BY <3>3 DEF Upto, Filed
    <3>6. Told(events', n, t, tasks[t])
      BY <3>4, <3>5 DEF Told
    <3>7. Told(events', n + 1, t,
               IF events'[n + 1].task = t THEN ApplyEvent(tasks[t], events'[n + 1], n + 1) ELSE tasks[t])
      BY <3>2, <3>3, <3>6, ToldStep, Zenon
    <3> QED  BY <3>2, <3>3, <3>7
  <2>2. CASE UNCHANGED vars
    BY <2>2 DEF vars, ToldAll
  <2> QED  BY <2>1, <2>2
<1> QED  BY <1>1, <1>2, TypeCorrect, PTL DEF Spec

(* In every auditable and every other ledger, the outcome, the reversal    *)
(* and the cost of a task are the same when two neighbouring events are    *)
(* exchanged, and so in every order of delivery.                           *)
THEOREM FactsAreFreeOfOrder == Spec => []OrderFreeFacts
<1>1. TypeOK /\ ToldAll /\ (\A i \in DOMAIN events : Conforms(events[i])) => OrderFreeFacts
  <2> SUFFICES ASSUME TypeOK, ToldAll, \A i \in DOMAIN events : Conforms(events[i]),
                      NEW k \in 1..(Len(events) - 1), NEW t \in Tasks
               PROVE  LET y == Reconstruct(Exchanged(events, k))[t] IN
                      /\ Outcome(y) = Outcome(tasks[t])
                      /\ Reverted(y) = Reverted(tasks[t])
                      /\ ~y.duplicateRef => KnownCost(y) = KnownCost(tasks[t])
    BY DEF OrderFreeFacts
  <2> DEFINE n == Len(events)
             m == Exchanged(events, k)
             p == [i \in 1..n |-> IF i = k THEN k + 1 ELSE IF i = k + 1 THEN k ELSE i]
  <2>1. events \in Seq(Event) /\ n \in Nat /\ DOMAIN events = 1..n /\ k \in 1..n /\ k + 1 \in 1..n
    BY DEF TypeOK
  <2>2. /\ m \in Seq(Event) /\ Len(m) = n /\ DOMAIN m = 1..n
        /\ \A i \in 1..n : m[i] = IF i = k THEN events[k + 1] ELSE IF i = k + 1 THEN events[k] ELSE events[i]
    <3>1. DOMAIN m = 1..n /\ \A i \in 1..n :
             m[i] = IF i = k THEN events[k + 1] ELSE IF i = k + 1 THEN events[k] ELSE events[i]
      BY <2>1 DEF Exchanged
    <3>2. m \in [1..n -> Event]
      BY <2>1, <3>1 DEF Exchanged
    <3> HIDE DEF m
    <3>3. m \in Seq(Event) /\ Len(m) = n
      BY <2>1, <3>1, <3>2
    <3> QED  BY <3>1, <3>3
  <2>3. \A i \in 1..n : Conforms(m[i])
    BY <2>1, <2>2
  <2>4. Rearranges(p, events, m, n)
    <3>1. p \in [1..n -> 1..n]
      BY <2>1
    <3>2. ASSUME NEW i \in 1..n
          PROVE  p[p[i]] = i /\ m[p[i]] = events[i] /\ events[p[i]] = m[i]
      <4>1. p[i] = IF i = k THEN k + 1 ELSE IF i = k + 1 THEN k ELSE i
        OBVIOUS
      <4>2. p[k] = k + 1 /\ p[k + 1] = k
        BY <2>1
      <4>3. k + 1 # k
        BY <2>1
      <4> HIDE DEF p, m, n
      <4> QED  BY <2>1, <2>2, <4>1, <4>2, <4>3
    <3> HIDE DEF p, m, n
    <3> QED  BY <3>1, <3>2 DEF Rearranges
  <2>5. Told(m, n, t, Reconstruct(m)[t])
    <3> HIDE DEF m
    <3> QED  BY <2>2, <2>3, ReconstructTells
  <2>6. Told(events, n, t, tasks[t])
    BY DEF ToldAll
  <2> HIDE DEF m, n, p
  <2>7. SameFacts(tasks[t], Reconstruct(m)[t])
    BY <2>1, <2>4, <2>5, <2>6, SameTold, Zenon
  <2> QED  BY <2>7 DEF m, SameFacts
<1>2. Init => \A i \in DOMAIN events : Conforms(events[i])
  BY DEF Init
<1>3. TypeOK /\ (\A i \in DOMAIN events : Conforms(events[i])) /\ [Next]_vars
        => (\A i \in DOMAIN events : Conforms(events[i]))'
  <2> SUFFICES ASSUME TypeOK, \A i \in DOMAIN events : Conforms(events[i]), [Next]_vars
               PROVE  \A i \in DOMAIN events' : Conforms(events'[i])
    OBVIOUS
  <2>1. CASE Next
    <3>1. PICK ev \in Evidence : Observe(ev)
      BY <2>1 DEF Next
    <3>2. Conforms(ev) /\ events' = Append(events, ev) /\ events \in Seq(Event)
      BY <3>1 DEF Observe, TypeOK
    <3>3. /\ DOMAIN events' = 1..(Len(events) + 1) /\ DOMAIN events = 1..Len(events)
          /\ events'[Len(events) + 1] = ev /\ \A i \in 1..Len(events) : events'[i] = events[i]
      BY <3>2
    <3>4. \A i \in DOMAIN events' : i \in DOMAIN events \/ i = Len(events) + 1
      BY <3>2, <3>3
    <3> QED  BY <3>2, <3>3, <3>4
  <2>2. CASE UNCHANGED vars
    BY <2>2 DEF vars
  <2> QED  BY <2>1, <2>2
<1> QED  BY <1>1, <1>2, <1>3, ToldAlways, TypeCorrect, PTL DEF Spec

-----------------------------------------------------------------------------
(* Certain waste: claims. *)

(* Candidates of one rule on one task are parts of the task's components   *)
(* that do not overlap.                                                    *)
LEMMA CandidatesDisjoint ==
  ASSUME NEW t, NEW r \in Rules, NEW X \in Candidates(t, r)
  PROVE  /\ X \subseteq t.comps
         /\ \A Y \in Candidates(t, r) : \A c \in X : c \in Y => X = Y
<1> USE DEF DuplicateCi, DeterministicRetry, ExecutionSuperseded, ExecutionAfterAbort
<1>1. ASSUME NEW E, NEW x \in OfExecutions(t, E), NEW y \in OfExecutions(t, E), NEW c \in x, c \in y
      PROVE  x = y
  BY <1>1 DEF OfExecutions, Attached
<1>2. ASSUME NEW E, NEW x \in OfExecutions(t, E) PROVE x \subseteq t.comps
  BY DEF OfExecutions, Attached
<1>3. ASSUME NEW E, Candidates(t, r) = OfExecutions(t, E)
      PROVE  X \subseteq t.comps /\ \A Y \in Candidates(t, r) : \A c \in X : c \in Y => X = Y
  <2>1. X \in OfExecutions(t, E)
    BY <1>3
  <2>2. ASSUME NEW Y \in Candidates(t, r), NEW c \in X, c \in Y PROVE X = Y
    BY <1>1, <1>3, <2>1, <2>2
  <2> QED  BY <1>2, <2>1, <2>2
<1>4. ASSUME \A Z \in Candidates(t, r) : \E c \in t.comps : Z = {c}
      PROVE  X \subseteq t.comps /\ \A Y \in Candidates(t, r) : \A c \in X : c \in Y => X = Y
  <2>1. PICK x \in t.comps : X = {x}
    BY <1>4
  <2>2. ASSUME NEW Y \in Candidates(t, r), NEW c \in X, c \in Y PROVE X = Y
    <3>1. PICK y \in t.comps : Y = {y}
      BY <1>4
    <3> QED  BY <2>1, <2>2, <3>1
  <2> QED  BY <2>1, <2>2
<1>5. r \in {DuplicateCi, DeterministicRetry, ExecutionSuperseded, ExecutionAfterAbort}
  BY DEF Rules
<1>6. CASE r = DuplicateCi
  <2>1. Candidates(t, r) = DuplicateCiCandidates(t)
    BY <1>6 DEF Candidates
  <2>2. \A Z \in DuplicateCiCandidates(t) : \E c \in t.comps : Z = {c}
    BY DEF DuplicateCiCandidates, Recorded
  <2> QED  BY <1>4, <2>1, <2>2
<1>7. CASE r = DeterministicRetry
  <2>1. Candidates(t, r) = RetryCandidates(t)
    BY <1>7 DEF Candidates
  <2>2. \A Z \in RetryCandidates(t) : \E c \in t.comps : Z = {c}
    BY DEF RetryCandidates, Recorded
  <2> QED  BY <1>4, <2>1, <2>2
<1>8. CASE r = ExecutionSuperseded
  <2> DEFINE E == {e \in Executions : t.execs[e].status = "superseded" /\ t.execs[e].by # None}
  <2>1. Candidates(t, r) = OfExecutions(t, E)
    BY <1>8 DEF Candidates, SupersededCandidates
  <2> HIDE DEF E
  <2> QED  BY <1>3, <2>1
<1>9. CASE r = ExecutionAfterAbort
  <2>1. Candidates(t, r) = OfExecutions(t, StartedAfterAbort(t))
    BY <1>9 DEF Candidates, AfterAbortCandidates
  <2> QED  BY <1>3, <2>1
<1> QED  BY <1>5, <1>6, <1>7, <1>8, <1>9

(* A finding reports what nobody claimed before of one candidate. *)
LEMMA FindingOrigin ==
  ASSUME NEW f \in Findings
  PROVE  /\ f.task \in Tasks /\ f.rule \in Rules
         /\ \E X \in Candidates(tasks[f.task], f.rule) :
              f.units = {c \in X : c.ev.ref \notin Claimed(f.task, f.rule)}
         /\ f = [task |-> f.task, rule |-> f.rule, units |-> f.units]
         /\ CostOf(f.units) > 0 \/ \E c \in f.units : c.ev.cost = None
<1>1. PICK t \in Tasks, r \in Rules : f \in FindingsOf(t, r)
  BY DEF Findings
<1>2. PICK X \in Candidates(tasks[t], r) :
        /\ f = [task |-> t, rule |-> r, units |-> {c \in X : c.ev.ref \notin Claimed(t, r)}]
        /\ CostOf(f.units) > 0 \/ \E c \in f.units : c.ev.cost = None
  BY <1>1 DEF FindingsOf
<1> QED  BY <1>2

(* What a candidate names is claimed for every later rule and task. *)
LEMMA EarlierClaims ==
  ASSUME NEW t \in Tasks, NEW r \in Rules, NEW u \in Tasks, NEW q \in Rules,
         t < u \/ (t = u /\ r < q), NEW X \in Candidates(tasks[t], r), NEW c \in X
  PROVE  c.ev.ref \in Claimed(u, q)
<1> DEFINE All == {Candidates(tasks[v], p) : v \in {v \in Tasks : v < u}, p \in Rules}
                    \cup {Candidates(tasks[u], p) : p \in {p \in Rules : p < q}}
<1>1. Candidates(tasks[t], r) \in All
  OBVIOUS
<1>2. c \in UNION UNION All
  BY <1>1
<1>3. Claimed(u, q) = RefsOf(UNION UNION All)
  BY DEF Claimed
<1> QED  BY <1>2, <1>3 DEF RefsOf

(* A candidate of an earlier task, or of an earlier rule, names the ref. *)
NamedBefore(t, r, ref) ==
  \E u \in Tasks, q \in Rules :
    /\ u < t \/ (u = t /\ q < r)
    /\ \E X \in Candidates(tasks[u], q) : \E d \in X : d.ev.ref = ref

(* And nothing else is claimed. *)
LEMMA ClaimedOrigin ==
  ASSUME NEW t \in Tasks, NEW r \in Rules, NEW ref \in Claimed(t, r)
  PROVE  NamedBefore(t, r, ref)
<1> DEFINE Before == {Candidates(tasks[u], q) : u \in {u \in Tasks : u < t}, q \in Rules}
           Same == {Candidates(tasks[t], q) : q \in {q \in Rules : q < r}}
<1>1. Claimed(t, r) = RefsOf(UNION UNION (Before \cup Same))
  BY DEF Claimed
<1>2. \A C \in Before : \E u \in Tasks, q \in Rules : u < t /\ C = Candidates(tasks[u], q)
  OBVIOUS
<1>3. \A C \in Same : \E q \in Rules : q < r /\ C = Candidates(tasks[t], q)
  OBVIOUS
<1> HIDE DEF Before, Same
<1>4. PICK d \in UNION UNION (Before \cup Same) : d.ev.ref = ref
  BY <1>1 DEF RefsOf
<1>5. PICK C \in Before \cup Same : \E X \in C : d \in X
  OBVIOUS
<1> QED  BY <1>2, <1>3, <1>4, <1>5 DEF NamedBefore

(* Two findings that share a reference are the same finding: the later of two rules finds
   the components the earlier one claimed already gone. *)
LEMMA ClaimsDisjoint == TypeOK /\ RefsUnique => ChargedOnce
<1> SUFFICES ASSUME TypeOK, RefsUnique, NEW f \in Findings, NEW g \in Findings,
                    NEW c \in f.units, NEW d \in g.units, c.ev.ref = d.ev.ref
             PROVE  f = g
  BY DEF ChargedOnce, RefsOf
<1>1. PICK X \in Candidates(tasks[f.task], f.rule) :
        f.units = {x \in X : x.ev.ref \notin Claimed(f.task, f.rule)}
  BY FindingOrigin
<1>2. PICK Y \in Candidates(tasks[g.task], g.rule) :
        g.units = {y \in Y : y.ev.ref \notin Claimed(g.task, g.rule)}
  BY FindingOrigin
<1>3. f.task \in Tasks /\ g.task \in Tasks /\ f.rule \in Rules /\ g.rule \in Rules
  BY FindingOrigin
<1>4. f.task \in Int /\ g.task \in Int /\ f.rule \in Int /\ g.rule \in Int
  <2>1. Rules \subseteq Int /\ Tasks \subseteq Int
    BY DEF Rules, DuplicateCi, ExecutionAfterAbort
  <2> QED  BY <1>3, <2>1
<1>5. /\ c \in X /\ c.ev.ref \notin Claimed(f.task, f.rule)
      /\ d \in Y /\ d.ev.ref \notin Claimed(g.task, g.rule)
  BY <1>1, <1>2
<1>6. f.task = g.task /\ f.rule = g.rule
  <2>1. ~(f.task < g.task \/ (f.task = g.task /\ f.rule < g.rule))
    BY <1>3, <1>5, EarlierClaims
  <2>2. ~(g.task < f.task \/ (g.task = f.task /\ g.rule < f.rule))
    BY <1>3, <1>5, EarlierClaims
  <2> QED  BY <1>4, <2>1, <2>2
<1>7. c = d
  <2>1. X \subseteq tasks[f.task].comps /\ Y \subseteq tasks[f.task].comps
    BY <1>3, <1>6, CandidatesDisjoint
  <2> QED  BY <1>3, <1>5, <2>1 DEF RefsUnique
<1>8. X = Y
  BY <1>3, <1>5, <1>6, <1>7, CandidatesDisjoint
<1>9. f.units = g.units
  BY <1>1, <1>2, <1>6, <1>8
<1>10. /\ f = [task |-> f.task, rule |-> f.rule, units |-> f.units]
       /\ g = [task |-> g.task, rule |-> g.rule, units |-> g.units]
  BY FindingOrigin
<1> QED  BY <1>6, <1>9, <1>10, Zenon

(* Over all rules and tasks a component ref is charged at most once.       *)
THEOREM RefsChargedOnce == Spec => []ChargedOnce
BY TypeCorrect, RefsUniqueAlways, ClaimsDisjoint, PTL

-----------------------------------------------------------------------------
(* Repeats. *)

(* What is charged as a duplicate satisfies the rule. *)
LEMMA ChargedDuplicate ==
  ASSUME NEW f \in Findings, f.rule = DuplicateCi, NEW c \in f.units
  PROVE  /\ c \in Recorded(tasks[f.task], "ci_run_recorded")
         /\ Comparable(tasks[f.task], c)
         /\ \E kept \in KeptPass(tasks[f.task], c) : StartsAfter(c, kept)
<1>1. Candidates(tasks[f.task], f.rule) = DuplicateCiCandidates(tasks[f.task])
  BY DEF Candidates, DuplicateCi, DeterministicRetry, ExecutionSuperseded, ExecutionAfterAbort
<1>2. PICK X \in DuplicateCiCandidates(tasks[f.task]) : c \in X
  BY <1>1, FindingOrigin
<1> QED  BY <1>2 DEF DuplicateCiCandidates

(* A charged retry is a model call after an earliest premise it reproduced. *)
LEMMA ChargedRetry ==
  ASSUME NEW f \in Findings, f.rule = DeterministicRetry, NEW c \in f.units
  PROVE  /\ c \in Recorded(tasks[f.task], "model_invocation_recorded")
         /\ \E premise \in Earliest(Premises(tasks[f.task], c)) :
              c.seq > premise.seq /\ Reproduced(tasks[f.task], c, premise)
<1>1. Candidates(tasks[f.task], f.rule) = RetryCandidates(tasks[f.task])
  BY DEF Candidates, DuplicateCi, DeterministicRetry, ExecutionSuperseded, ExecutionAfterAbort
<1>2. PICK X \in RetryCandidates(tasks[f.task]) : c \in X
  BY <1>1, FindingOrigin
<1> QED  BY <1>2 DEF RetryCandidates

(* The kept pass of a charged duplicate is not charged: it would have a    *)
(* kept pass before it, and so not be the first.                           *)
LEMMA KeptIsFree ==
  ASSUME TypeOK, NEW t \in Tasks, NEW c \in Recorded(tasks[t], "ci_run_recorded"),
         Comparable(tasks[t], c), NEW kept \in KeptPass(tasks[t], c), StartsAfter(c, kept)
  PROVE  /\ kept \in Recorded(tasks[t], "ci_run_recorded")
         /\ kept.ev.key = c.ev.key /\ kept.ev.rev = c.ev.rev
         /\ kept.seq < c.seq /\ kept.ev.status = "passed"
         /\ kept.ev.finish # None /\ kept.ev.finish <= c.ev.start
         /\ \A f \in Findings : f.task = t /\ f.rule = DuplicateCi => kept \notin f.units
<1>1. tasks[t].comps \subseteq Component
  BY DEF TypeOK, TaskState
<1>2. \A d \in tasks[t].comps : /\ d.seq \in Nat
                                /\ d.ev.start \in Optional(Nat) /\ d.ev.finish \in Optional(Nat)
  BY <1>1 DEF Component, Event
<1>3. /\ kept \in Partition(tasks[t], c) /\ kept.ev.finish # None /\ kept.seq < c.seq
      /\ \A d \in Partition(tasks[t], c) :
           d.ev.finish # None /\ d.seq < c.seq => kept.seq <= d.seq
  BY DEF KeptPass, Earliest
<1>4. /\ kept \in Recorded(tasks[t], "ci_run_recorded") /\ kept \in tasks[t].comps
      /\ kept.ev.key = c.ev.key /\ kept.ev.rev = c.ev.rev
  BY <1>3 DEF Partition, Recorded
<1>5. kept.ev.status = "passed"
  BY <1>3 DEF Comparable
<1>6. kept.ev.finish <= c.ev.start
  <2>1. c \in tasks[t].comps /\ c.ev.start # None /\ c.ev.start >= kept.ev.finish
    BY DEF StartsAfter, Recorded
  <2>2. c.ev.start \in Nat /\ kept.ev.finish \in Nat
    BY <1>2, <1>3, <1>4, <2>1 DEF Optional
  <2> QED  BY <2>1, <2>2
<1>7. ASSUME NEW f \in Findings, f.task = t, f.rule = DuplicateCi, kept \in f.units
      PROVE  FALSE
  <2>1. PICK first \in KeptPass(tasks[t], kept) : TRUE
    BY <1>7, ChargedDuplicate
  <2>2. /\ first \in Partition(tasks[t], kept)
        /\ first.ev.finish # None /\ first.seq < kept.seq
    BY <2>1 DEF KeptPass, Earliest
  <2>3. first \in Partition(tasks[t], c) /\ first \in tasks[t].comps /\ c \in tasks[t].comps
    BY <1>4, <2>2 DEF Partition, Recorded
  <2>4. first.seq < c.seq /\ ~(kept.seq <= first.seq)
    BY <1>2, <1>3, <1>4, <2>2, <2>3
  <2> QED  BY <1>3, <2>2, <2>3, <2>4
<1> QED  BY <1>3, <1>4, <1>5, <1>6, <1>7

(* Likewise the first failure of a charged retry. *)
LEMMA PremiseIsFree ==
  ASSUME TypeOK, NEW t \in Tasks, NEW c \in Recorded(tasks[t], "model_invocation_recorded"),
         NEW premise \in Earliest(Premises(tasks[t], c)), c.seq > premise.seq,
         Reproduced(tasks[t], c, premise)
  PROVE  /\ premise \in Recorded(tasks[t], "model_invocation_recorded")
         /\ premise.ev.key = c.ev.key /\ premise.ev.class = c.ev.class
         /\ premise.seq < c.seq /\ premise.ev.status = "error"
         /\ \A f \in Findings : f.task = t /\ f.rule = DeterministicRetry => premise \notin f.units
<1>1. \A d \in tasks[t].comps : d.seq \in Nat
  BY DEF TypeOK, TaskState, Component
<1>2. /\ premise \in Premises(tasks[t], c)
      /\ \A d \in Premises(tasks[t], c) : premise.seq <= d.seq
  BY DEF Earliest
<1>3. /\ premise \in Recorded(tasks[t], "model_invocation_recorded")
      /\ premise \in tasks[t].comps /\ c \in tasks[t].comps
      /\ premise.ev.key = c.ev.key /\ premise.ev.status = "error"
  BY <1>2 DEF Premises, Attempts, Recorded
<1>4. premise.ev.class = c.ev.class
  <2>1. c \in Attempts(tasks[t], c)
    BY DEF Attempts
  <2> QED  BY <2>1 DEF Reproduced
<1>5. premise.seq < c.seq
  BY <1>1, <1>3
<1>6. Premises(tasks[t], premise) = Premises(tasks[t], c)
  BY <1>3 DEF Premises, Attempts
<1>7. ASSUME NEW f \in Findings, f.task = t, f.rule = DeterministicRetry, premise \in f.units
      PROVE  FALSE
  <2>1. PICK first \in Earliest(Premises(tasks[t], premise)) : premise.seq > first.seq
    BY <1>7, ChargedRetry
  <2>2. first \in Premises(tasks[t], c) /\ first \in tasks[t].comps
    BY <1>6, <2>1 DEF Earliest, Premises, Attempts, Recorded
  <2> QED  BY <1>1, <1>2, <1>3, <2>1, <2>2
<1> QED  BY <1>3, <1>4, <1>5, <1>7

(* What was observed first is never charged as a repeat of something.      *)
THEOREM RepeatsRepeatFreeWork == Spec => []RepeatsHaveFreeOriginal
<1>1. TypeOK => RepeatsHaveFreeOriginal
  <2> SUFFICES ASSUME TypeOK, NEW t \in Tasks
               PROVE  LET charged(u, r) ==
                            UNION {f.units : f \in {g \in Findings : g.task = u /\ g.rule = r}}
                      IN /\ \A c \in charged(t, DuplicateCi) :
                              \E kept \in Recorded(tasks[t], "ci_run_recorded")
                                            \ charged(t, DuplicateCi) :
                                /\ kept.ev.key = c.ev.key /\ kept.ev.rev = c.ev.rev
                                /\ kept.seq < c.seq
                                /\ kept.ev.status = "passed"
                                /\ kept.ev.finish # None /\ kept.ev.finish <= c.ev.start
                                /\ \A d \in Recorded(tasks[t], "ci_run_recorded") :
                                     d.ev.key = c.ev.key /\ d.ev.rev = c.ev.rev
                                       => d.ev.status = "passed"
                         /\ \A c \in charged(t, DeterministicRetry) :
                              \E first \in Recorded(tasks[t], "model_invocation_recorded")
                                             \ charged(t, DeterministicRetry) :
                                /\ first.ev.key = c.ev.key /\ first.ev.class = c.ev.class
                                /\ first.seq < c.seq /\ first.ev.status = "error"
                                /\ \A d \in Recorded(tasks[t], "model_invocation_recorded") :
                                     d.ev.key = c.ev.key =>
                                       /\ d.ev.status # "ok"
                                       /\ d.seq > first.seq => d.ev.class = c.ev.class
    BY DEF RepeatsHaveFreeOriginal
  <2>1. ASSUME NEW f \in Findings, f.task = t, f.rule = DuplicateCi, NEW c \in f.units
        PROVE  \E kept \in Recorded(tasks[t], "ci_run_recorded") :
                 /\ kept.ev.key = c.ev.key /\ kept.ev.rev = c.ev.rev
                 /\ kept.seq < c.seq /\ kept.ev.status = "passed"
                 /\ kept.ev.finish # None /\ kept.ev.finish <= c.ev.start
                 /\ \A g \in Findings : g.task = t /\ g.rule = DuplicateCi => kept \notin g.units
                 /\ \A d \in Recorded(tasks[t], "ci_run_recorded") :
                      d.ev.key = c.ev.key /\ d.ev.rev = c.ev.rev => d.ev.status = "passed"
    <3>1. /\ c \in Recorded(tasks[t], "ci_run_recorded") /\ Comparable(tasks[t], c)
          /\ \E kept \in KeptPass(tasks[t], c) : StartsAfter(c, kept)
      BY <2>1, ChargedDuplicate
    <3>2. PICK kept \in KeptPass(tasks[t], c) : StartsAfter(c, kept)
      BY <3>1
    <3>3. \A d \in Recorded(tasks[t], "ci_run_recorded") :
            d.ev.key = c.ev.key /\ d.ev.rev = c.ev.rev => d.ev.status = "passed"
      BY <3>1 DEF Comparable, Partition
    <3> QED  BY <3>1, <3>2, <3>3, KeptIsFree
  <2>2. ASSUME NEW f \in Findings, f.task = t, f.rule = DeterministicRetry, NEW c \in f.units
        PROVE  \E first \in Recorded(tasks[t], "model_invocation_recorded") :
                 /\ first.ev.key = c.ev.key /\ first.ev.class = c.ev.class
                 /\ first.seq < c.seq /\ first.ev.status = "error"
                 /\ \A g \in Findings :
                      g.task = t /\ g.rule = DeterministicRetry => first \notin g.units
                 /\ \A d \in Recorded(tasks[t], "model_invocation_recorded") :
                      d.ev.key = c.ev.key =>
                        /\ d.ev.status # "ok"
                        /\ d.seq > first.seq => d.ev.class = c.ev.class
    <3>1. PICK first \in Earliest(Premises(tasks[t], c)) :
            c.seq > first.seq /\ Reproduced(tasks[t], c, first)
      BY <2>2, ChargedRetry
    <3>2. c \in Recorded(tasks[t], "model_invocation_recorded")
      BY <2>2, ChargedRetry
    <3>3. /\ first.ev.key = c.ev.key /\ first.ev.class = c.ev.class
          /\ first.seq < c.seq /\ first.ev.status = "error"
          /\ \A g \in Findings :
               g.task = t /\ g.rule = DeterministicRetry => first \notin g.units
      BY <3>1, <3>2, PremiseIsFree
    <3>4. first \in Recorded(tasks[t], "model_invocation_recorded")
      BY <3>1 DEF Earliest, Premises, Attempts
    <3>5. \A d \in Recorded(tasks[t], "model_invocation_recorded") :
            d.ev.key = c.ev.key =>
              d.ev.status # "ok" /\ (d.seq > first.seq => d.ev.class = c.ev.class)
      BY <3>1, <3>3 DEF Reproduced, Attempts
    <3> QED  BY <3>3, <3>4, <3>5
  <2> QED  BY <2>1, <2>2
<1> QED  BY <1>1, TypeCorrect, PTL

-----------------------------------------------------------------------------
(* Charges that stand. *)

(* A later component of the task leaves a duplicate a candidate, unless it *)
(* is a run of the same inputs with another result.                        *)
LEMMA DuplicateStands ==
  ASSUME NEW s, NEW s2, NEW c, NEW new,
         s2.comps = s.comps \/ s2.comps = s.comps \cup {new},
         \A d \in s.comps : d.seq \in Nat /\ d.seq < new.seq,
         new.seq \in Nat,
         {c} \in DuplicateCiCandidates(s),
         new.ev.type = c.ev.type /\ new.ev.key = c.ev.key /\ new.ev.rev = c.ev.rev
           => new.ev.status = c.ev.status
  PROVE  {c} \in DuplicateCiCandidates(s2)
<1>1. /\ c \in s.comps /\ c.ev.type = "ci_run_recorded"
      /\ Comparable(s, c)
      /\ \E kept \in KeptPass(s, c) : StartsAfter(c, kept)
  BY DEF DuplicateCiCandidates, Recorded
<1>2. c.ev.status = "passed" /\ c.seq \in Nat /\ c.seq < new.seq
  BY <1>1 DEF Comparable, Partition, Recorded
<1>3. Comparable(s2, c)
  BY <1>1, <1>2 DEF Comparable, Partition, Recorded
<1>4. PICK kept \in KeptPass(s, c) : StartsAfter(c, kept)
  BY <1>1
<1>5. /\ kept \in Partition(s, c) /\ kept.ev.finish # None /\ kept.seq < c.seq
      /\ \A d \in Partition(s, c) : d.ev.finish # None /\ d.seq < c.seq => kept.seq <= d.seq
  BY <1>4 DEF KeptPass, Earliest
<1>6. \A d \in Partition(s2, c) : d \in Partition(s, c) \/ d = new
  BY DEF Partition, Recorded
<1>7. kept \in Partition(s2, c)
  BY <1>5 DEF Partition, Recorded
<1>8. kept \in KeptPass(s2, c)
  <2>1. \A d \in Partition(s2, c) : d.ev.finish # None /\ d.seq < c.seq => kept.seq <= d.seq
    BY <1>2, <1>5, <1>6
  <2> QED  BY <1>5, <1>7, <2>1 DEF KeptPass, Earliest
<1>9. c \in Recorded(s2, "ci_run_recorded")
  BY <1>1 DEF Recorded
<1> QED  BY <1>3, <1>4, <1>8, <1>9 DEF DuplicateCiCandidates

(* Likewise a retry, unless it is an attempt that ended differently. *)
LEMMA RetryStands ==
  ASSUME NEW s, NEW s2, NEW c, NEW new,
         s2.comps = s.comps \/ s2.comps = s.comps \cup {new},
         \A d \in s.comps : d.seq \in Nat /\ d.seq < new.seq,
         new.seq \in Nat,
         {c} \in RetryCandidates(s),
         new.ev.type = c.ev.type /\ new.ev.key = c.ev.key
           => new.ev.status = c.ev.status /\ new.ev.class = c.ev.class
  PROVE  {c} \in RetryCandidates(s2)
<1>1. /\ c \in s.comps /\ c.ev.type = "model_invocation_recorded" /\ c.ev.key # None
      /\ \E premise \in Earliest(Premises(s, c)) :
           c.seq > premise.seq /\ Reproduced(s, c, premise)
  BY DEF RetryCandidates, Recorded
<1>2. PICK premise \in Earliest(Premises(s, c)) :
        c.seq > premise.seq /\ Reproduced(s, c, premise)
  BY <1>1
<1>3. /\ premise \in Premises(s, c) /\ premise \in s.comps
      /\ \A d \in Premises(s, c) : premise.seq <= d.seq
  BY <1>2 DEF Earliest, Premises, Attempts, Recorded
<1>4. \A d \in Attempts(s2, c) : d \in Attempts(s, c) \/ (d = new /\ new.ev.status = c.ev.status
                                                           /\ new.ev.class = c.ev.class)
  BY <1>1 DEF Attempts, Recorded
<1>5. c.ev.status # "ok" /\ c.ev.class = premise.ev.class
  BY <1>1, <1>2 DEF Reproduced, Attempts, Recorded
<1>6. Reproduced(s2, c, premise)
  BY <1>2, <1>4, <1>5 DEF Reproduced
<1>7. premise \in Earliest(Premises(s2, c))
  <2>1. premise \in Premises(s2, c)
    BY <1>3 DEF Premises, Attempts, Recorded
  <2>2. \A d \in Premises(s2, c) : d \in Premises(s, c) \/ d = new
    BY DEF Premises, Attempts, Recorded
  <2>3. premise.seq <= new.seq
    BY <1>3
  <2> QED  BY <1>3, <2>1, <2>2, <2>3 DEF Earliest
<1>8. c \in Recorded(s2, "model_invocation_recorded")
  BY <1>1 DEF Recorded
<1> QED  BY <1>1, <1>2, <1>6, <1>7, <1>8 DEF RetryCandidates

(* While tasks share no ref, a repeat that costs something is a finding:   *)
(* no earlier task and no earlier rule claims it.                          *)
RepeatsAreReported ==
  TasksShareNoRef =>
    \A t \in Tasks : \A r \in {DuplicateCi, DeterministicRetry} : \A c \in tasks[t].comps :
      /\ {c} \in Candidates(tasks[t], r)
      /\ CostOf({c}) > 0 \/ c.ev.cost = None
      => [task |-> t, rule |-> r, units |-> {c}] \in Findings

(* The type of what a repeat rule proposes. *)
LEMMA RepeatType ==
  ASSUME NEW t, NEW X
  PROVE  /\ X \in Candidates(t, DuplicateCi) =>
              \E c \in t.comps : X = {c} /\ c.ev.type = "ci_run_recorded"
         /\ X \in Candidates(t, DeterministicRetry) =>
              \E c \in t.comps : X = {c} /\ c.ev.type = "model_invocation_recorded"
<1>1. /\ Candidates(t, DuplicateCi) = DuplicateCiCandidates(t)
      /\ Candidates(t, DeterministicRetry) = RetryCandidates(t)
  BY DEF Candidates, DuplicateCi, DeterministicRetry, ExecutionSuperseded, ExecutionAfterAbort
<1> QED  BY <1>1 DEF DuplicateCiCandidates, RetryCandidates, Recorded

(* A repeat that costs something, or has no price, is reported: no earlier rule of the
   order and no other task can have claimed it. *)
LEMMA UnclaimedRepeats == RefsUnique => RepeatsAreReported
<1> SUFFICES ASSUME RefsUnique, TasksShareNoRef,
                    NEW t \in Tasks, NEW r \in {DuplicateCi, DeterministicRetry},
                    NEW c \in tasks[t].comps, {c} \in Candidates(tasks[t], r),
                    CostOf({c}) > 0 \/ c.ev.cost = None
             PROVE  [task |-> t, rule |-> r, units |-> {c}] \in Findings
  BY DEF RepeatsAreReported
<1>1. Tasks \subseteq Int /\ r \in Rules /\ Rules \subseteq Int
  BY DEF Rules, DuplicateCi, DeterministicRetry, ExecutionAfterAbort
<1>2. ASSUME NEW u \in Tasks, u # t, NEW q \in Rules, NEW X \in Candidates(tasks[u], q), NEW d \in X
      PROVE  d.ev.ref # c.ev.ref
  <2>1. d \in tasks[u].comps
    BY CandidatesDisjoint
  <2>2. RefsOf(tasks[t].comps) \cap RefsOf(tasks[u].comps) = {}
    BY <1>2 DEF TasksShareNoRef
  <2>3. c.ev.ref \in RefsOf(tasks[t].comps) /\ d.ev.ref \in RefsOf(tasks[u].comps)
    BY <2>1 DEF RefsOf
  <2> QED  BY <2>2, <2>3
<1>3. ASSUME NEW q \in Rules, q < r, NEW X \in Candidates(tasks[t], q), NEW d \in X
      PROVE  d.ev.ref # c.ev.ref
  <2>1. q = DuplicateCi /\ r = DeterministicRetry
    BY <1>3 DEF Rules, DuplicateCi, DeterministicRetry, ExecutionAfterAbort
  <2>2. d \in tasks[t].comps /\ d.ev.type = "ci_run_recorded"
    BY <1>3, <2>1, RepeatType
  <2>3. c.ev.type = "model_invocation_recorded"
    BY <2>1, RepeatType
  <2> QED  BY <2>2, <2>3 DEF RefsUnique
<1>4. c.ev.ref \notin Claimed(t, r)
  <2> SUFFICES ASSUME c.ev.ref \in Claimed(t, r) PROVE FALSE
    OBVIOUS
  <2>1. NamedBefore(t, r, c.ev.ref)
    <3>1. r \in Rules
      BY <1>1
    <3> QED  BY <3>1, ClaimedOrigin, Zenon
  <2>2. PICK u \in Tasks, q \in Rules : /\ u < t \/ (u = t /\ q < r)
                                      /\ \E X \in Candidates(tasks[u], q) :
                                           \E d \in X : d.ev.ref = c.ev.ref
    BY <2>1, Zenon DEF NamedBefore
  <2>3. CASE u = t /\ q < r
    BY <1>3, <2>2, <2>3
  <2>4. CASE u < t
    <3>1. u # t
      BY <2>4, <1>1
    <3> QED  BY <1>2, <2>2, <3>1
  <2> QED  BY <2>2, <2>3, <2>4
<1>5. {x \in {c} : x.ev.ref \notin Claimed(t, r)} = {c}
  BY <1>4
<1> DEFINE f == [task |-> t, rule |-> r, units |-> {c}]
<1>6. f \in FindingsOf(t, r)
  BY <1>5 DEF FindingsOf
<1> HIDE DEF f
<1>7. r \in Rules
  BY <1>1
<1>8. f \in Findings
  BY <1>6, <1>7 DEF Findings
<1> QED  BY <1>8 DEF f

(* A charge for a repeat is withdrawn only by an observation, in its task, *)
(* of the same inputs with another result.                                 *)
THEOREM ChargesStand == Spec => RepeatChargesStand
<1> DEFINE Stands(f, c) ==
      LET ev == events'[Len(events')] IN
        \/ \E g \in Findings' : g.task = f.task /\ c \in g.units
        \/ /\ ev.task = f.task /\ ev.type = c.ev.type
           /\ ev.key = c.ev.key
           /\ f.rule = DuplicateCi => ev.rev = c.ev.rev
           /\ ev.status # c.ev.status \/ ev.class # c.ev.class
<1>1. TypeOK /\ SeqBounded /\ RepeatsAreReported' /\ [Next]_vars =>
        [Auditable' /\ TasksShareNoRef' =>
           \A f \in {g \in Findings : g.rule \in {DuplicateCi, DeterministicRetry}} :
             \A c \in f.units : Stands(f, c)]_vars
  <2> SUFFICES ASSUME TypeOK, SeqBounded, RepeatsAreReported', Next, TasksShareNoRef',
                      NEW f \in Findings, f.rule \in {DuplicateCi, DeterministicRetry},
                      NEW c \in f.units
               PROVE  Stands(f, c)
    OBVIOUS
  <2>1. PICK ev \in Evidence : Observe(ev)
    BY DEF Next
  <2> DEFINE t == f.task
             r == f.rule
             new == [seq |-> Len(events) + 1, ev |-> ev]
  <2>2. events'[Len(events')] = ev
    BY <2>1, StepTasks
  <2>3. t \in Tasks /\ {c} \in Candidates(tasks[t], r) /\ c \in tasks[t].comps /\ f.units = {c}
    <3>1. PICK X \in Candidates(tasks[t], r) : f.units \subseteq X
      BY FindingOrigin
    <3>2. t \in Tasks
      BY FindingOrigin
    <3>3. PICK x \in tasks[t].comps : X = {x}
      BY RepeatType
    <3>4. x = c
      BY <3>1, <3>3
    <3> HIDE DEF t, r
    <3>5. f.units = {c}
      BY <3>1, <3>3, <3>4
    <3> QED  BY <3>1, <3>2, <3>3, <3>4, <3>5
  <2>4. CostOf({c}) > 0 \/ c.ev.cost = None
    BY <2>3, FindingOrigin
  <2>5. \/ tasks'[t].comps = tasks[t].comps
        \/ t = ev.task /\ tasks'[t].comps = tasks[t].comps \cup {new}
    BY <2>1, <2>3, StepComps, Zenon
  <2>6. /\ \A d \in tasks[t].comps : d.seq \in Nat /\ d.seq < new.seq
        /\ new.seq \in Nat /\ new.ev = ev
    <3>1. Len(events) \in Nat /\ tasks[t] \in TaskState
      BY <2>1, <2>3, StepTasks
    <3>2. tasks[t].comps \in SUBSET Component
      BY <3>1 DEF TaskState
    <3>3. \A d \in tasks[t].comps : d.seq \in Nat /\ d.seq <= Len(events)
      BY <2>3, <3>2 DEF SeqBounded, Component
    <3> QED  BY <3>1, <3>3
  <2>7. /\ Candidates(tasks[t], DuplicateCi) = DuplicateCiCandidates(tasks[t])
        /\ Candidates(tasks[t], DeterministicRetry) = RetryCandidates(tasks[t])
        /\ Candidates(tasks'[t], DuplicateCi) = DuplicateCiCandidates(tasks'[t])
        /\ Candidates(tasks'[t], DeterministicRetry) = RetryCandidates(tasks'[t])
    BY DEF Candidates, DuplicateCi, DeterministicRetry, ExecutionSuperseded, ExecutionAfterAbort
  <2> HIDE DEF new
  <2> DEFINE Contrary == /\ ev.task = t /\ ev.type = c.ev.type
                         /\ ev.key = c.ev.key
                         /\ r = DuplicateCi => ev.rev = c.ev.rev
                         /\ ev.status # c.ev.status \/ ev.class # c.ev.class
  <2>8. Contrary \/ {c} \in Candidates(tasks'[t], r)
    <3> SUFFICES ASSUME ~Contrary PROVE {c} \in Candidates(tasks'[t], r)
      OBVIOUS
    <3>1. ASSUME tasks'[t].comps = tasks[t].comps PROVE {c} \in Candidates(tasks'[t], r)
      <4>1. /\ DuplicateCiCandidates(tasks'[t]) = DuplicateCiCandidates(tasks[t])
            /\ RetryCandidates(tasks'[t]) = RetryCandidates(tasks[t])
        BY <3>1 DEF DuplicateCiCandidates, RetryCandidates, Comparable, KeptPass, Partition,
                    Premises, Attempts, Reproduced, Recorded
      <4> QED  BY <2>3, <2>7, <4>1
    <3>2. CASE r = DuplicateCi /\ t = ev.task /\ tasks'[t].comps = tasks[t].comps \cup {new}
      <4>1. {c} \in DuplicateCiCandidates(tasks[t])
        BY <2>3, <2>7, <3>2
      <4>2. new.ev.type = c.ev.type /\ new.ev.key = c.ev.key /\ new.ev.rev = c.ev.rev
              => new.ev.status = c.ev.status
        BY <2>6, <3>2
      <4>3. {c} \in DuplicateCiCandidates(tasks'[t])
        BY <2>6, <3>2, <4>1, <4>2, DuplicateStands
      <4> QED  BY <2>7, <3>2, <4>3
    <3>3. CASE r = DeterministicRetry /\ t = ev.task /\ tasks'[t].comps = tasks[t].comps \cup {new}
      <4>1. {c} \in RetryCandidates(tasks[t])
        BY <2>3, <2>7, <3>3
      <4>2. new.ev.type = c.ev.type /\ new.ev.key = c.ev.key
              => new.ev.status = c.ev.status /\ new.ev.class = c.ev.class
        BY <2>6, <3>3 DEF DuplicateCi, DeterministicRetry
      <4>3. {c} \in RetryCandidates(tasks'[t])
        BY <2>6, <3>3, <4>1, <4>2, RetryStands
      <4> QED  BY <2>7, <3>3, <4>3
    <3> QED  BY <2>5, <3>1, <3>2, <3>3
  <2>9. CASE Contrary
    BY <2>2, <2>9
  <2>10. CASE {c} \in Candidates(tasks'[t], r)
    <3>1. c \in tasks'[t].comps
      BY <2>3, <2>5
    <3>2. [task |-> t, rule |-> r, units |-> {c}] \in Findings'
      BY <2>3, <2>4, <2>10, <3>1 DEF RepeatsAreReported
    <3> QED  BY <3>2
  <2> QED  BY <2>8, <2>9, <2>10
<1>2. RefsUnique => RepeatsAreReported
  BY UnclaimedRepeats
<1>3. [Auditable' /\ TasksShareNoRef' =>
         \A f \in {g \in Findings : g.rule \in {DuplicateCi, DeterministicRetry}} :
           \A c \in f.units : Stands(f, c)]_vars
      <=> [Auditable' /\ TasksShareNoRef' =>
         \A f \in {g \in Findings : g.rule \in {DuplicateCi, DeterministicRetry}} :
         LET ev == events'[Len(events')] IN
         \A c \in f.units :
           \/ \E g \in Findings' : g.task = f.task /\ c \in g.units
           \/ /\ ev.task = f.task /\ ev.type = c.ev.type
              /\ ev.key = c.ev.key
              /\ f.rule = DuplicateCi => ev.rev = c.ev.rev
              /\ ev.status # c.ev.status \/ ev.class # c.ev.class]_vars
  OBVIOUS
<1> QED  BY <1>1, <1>2, <1>3, TypeCorrect, RefsUniqueAlways, PTL DEF Spec, RepeatChargesStand

-----------------------------------------------------------------------------
(* Aborts. *)

(* An execution in the build state was announced by a start or a finish;   *)
(* without this one could be after an abort that no event placed there.    *)
AnnouncedByEvent ==
  \A t \in Tasks : \A e \in Executions :
    LET x == tasks[t].execs[e] IN x.announced => x.explicit \/ x.status # "running"

(* An execution is announced only by a start or a finish that names it. *)
LEMMA AnnouncedAlways == Spec => []AnnouncedByEvent
<1>1. Init => AnnouncedByEvent
  BY DEF Init, AnnouncedByEvent, EmptyTask, NoExecution
<1>2. TypeOK /\ AnnouncedByEvent /\ [Next]_vars => AnnouncedByEvent'
  <2> SUFFICES ASSUME TypeOK, AnnouncedByEvent, [Next]_vars PROVE AnnouncedByEvent'
    OBVIOUS
  <2>1. CASE Next
    <3>1. PICK ev \in Evidence : Observe(ev)
      BY <2>1 DEF Next
    <3>2. ev \in Event /\ Conforms(ev) /\ Len(events) + 1 \in Nat
      BY <3>1, StepTasks
    <3> SUFFICES ASSUME NEW t \in Tasks, NEW e \in Executions
                 PROVE  tasks'[t].execs[e].announced =>
                          tasks'[t].execs[e].explicit \/ tasks'[t].execs[e].status # "running"
      BY DEF AnnouncedByEvent
    <3> DEFINE x == tasks[t].execs[e]
               y == tasks'[t].execs[e]
    <3>3. x.announced => x.explicit \/ x.status # "running"
      BY DEF AnnouncedByEvent
    <3>4. CASE t # ev.task
      BY <3>1, <3>3, <3>4, StepTasks
    <3>5. CASE t = ev.task
      <4>1. tasks'[t] = ApplyEvent(tasks[t], ev, Len(events) + 1) /\ tasks[t] \in TaskState
        BY <3>1, <3>5, StepTasks
      <4>2. Moved(x, ev, Len(events) + 1, e, y)
        BY <3>2, <4>1, MovedExecution
      <4>3. ev.type = "execution_finished" => ev.status # "running"
        BY <3>2 DEF Conforms, ExecutionStatuses
      <4> HIDE DEF x, y
      <4>4. y.announced => y.explicit \/ y.status # "running"
        BY <3>3, <4>2, <4>3 DEF Moved
      <4> QED  BY <4>4 DEF y
    <3> QED  BY <3>4, <3>5
  <2>2. CASE UNCHANGED vars
    BY <2>2 DEF vars, AnnouncedByEvent
  <2> QED  BY <2>1, <2>2
<1> QED  BY <1>1, <1>2, TypeCorrect, PTL DEF Spec

(* Every start and every finish in the ledger is reflected in its execution. *)
LEMMA AllPlacedAlways == Spec => []AllPlaced
<1>1. Init => AllPlaced
  BY DEF Init, AllPlaced, Placed, EmptyTask, NoExecution, Observed, ObservedOf
<1> QED  BY <1>1, PlacedStep, TypeCorrect, PTL DEF Spec

(* What is charged as done after an abort satisfies the rule. *)
LEMMA ChargedAfterAbort ==
  ASSUME NEW f \in Findings, f.rule = ExecutionAfterAbort
  PROVE  /\ Outcome(tasks[f.task]) = "aborted"
         /\ \A c \in f.units : \E e \in Executions :
              /\ tasks[f.task].execs[e].announced
              /\ tasks[f.task].execs[e].startedSeq > tasks[f.task].abortedSeq
              /\ c.ev.exec = e
<1>1. Candidates(tasks[f.task], f.rule) = AfterAbortCandidates(tasks[f.task])
  BY DEF Candidates, DuplicateCi, DeterministicRetry, ExecutionSuperseded, ExecutionAfterAbort
<1>2. PICK X \in AfterAbortCandidates(tasks[f.task]) : f.units \subseteq X
  BY <1>1, FindingOrigin
<1>3. Outcome(tasks[f.task]) = "aborted"
  BY <1>2 DEF AfterAbortCandidates
<1>4. X \in OfExecutions(tasks[f.task], StartedAfterAbort(tasks[f.task]))
  BY <1>2, <1>3 DEF AfterAbortCandidates
<1>5. PICK e \in StartedAfterAbort(tasks[f.task]) :
        tasks[f.task].execs[e].announced /\ X = Attached(tasks[f.task], e)
  BY <1>4 DEF OfExecutions
<1>6. /\ e \in Executions
      /\ tasks[f.task].execs[e].startedSeq > tasks[f.task].abortedSeq
  BY <1>5 DEF StartedAfterAbort
<1>7. \A c \in f.units : c.ev.exec = e
  BY <1>2, <1>5 DEF Attached
<1> QED  BY <1>3, <1>5, <1>6, <1>7

(* Of an auditable ledger, work is charged as done after an abort only if  *)
(* the task ended aborted and the last start of the execution that did the *)
(* work follows every abort.                                               *)
THEOREM AbortsJustifyCharges == Spec => []AbortChargesJustified
<1>1. TypeOK /\ OutcomeFromEvidence /\ AllPlaced /\ AnnouncedByEvent => AbortChargesJustified
  <2> SUFFICES ASSUME TypeOK, OutcomeFromEvidence, AllPlaced, AnnouncedByEvent, Auditable,
                      NEW f \in Findings, f.rule = ExecutionAfterAbort
               PROVE  LET aborts == Observed(f.task, {"task_aborted"}) IN
                      /\ Observed(f.task, {"pull_request_merged", "task_failed",
                                           "pull_request_closed"}) = {}
                      /\ aborts # {}
                      /\ \A c \in f.units :
                           LET starts == ObservedOf(f.task, c.ev.exec, "execution_started")
                           IN \E i \in starts : IsLast(i, starts) /\ \A a \in aborts : i > a
    BY DEF AbortChargesJustified
  <2> DEFINE t == f.task
             merges == Observed(t, {"pull_request_merged"})
             failures == Observed(t, {"task_failed", "pull_request_closed"})
             aborts == Observed(t, {"task_aborted"})
  <2>1. t \in Tasks /\ tasks[t] \in TaskState /\ AuditableTask(tasks[t])
    BY FindingOrigin DEF TypeOK, Auditable
  <2>2. merges = {} /\ failures = {} /\ aborts # {}
    <3>1. Outcome(tasks[t]) = "aborted"
      BY ChargedAfterAbort
    <3> QED  BY <2>1, <3>1 DEF OutcomeFromEvidence
  <2>3. Observed(t, {"pull_request_merged", "task_failed", "pull_request_closed"})
          = merges \cup failures
    BY DEF Observed
  <2>4. ASSUME NEW c \in f.units
        PROVE  LET starts == ObservedOf(t, c.ev.exec, "execution_started")
               IN \E i \in starts : IsLast(i, starts) /\ \A a \in aborts : i > a
    <3>1. PICK e \in Executions : /\ tasks[t].execs[e].announced
                                  /\ tasks[t].execs[e].startedSeq > tasks[t].abortedSeq
                                  /\ c.ev.exec = e
      BY ChargedAfterAbort
    <3> DEFINE x == tasks[t].execs[e]
               starts == ObservedOf(t, e, "execution_started")
    <3>2. x.explicit
      BY <2>1, <3>1 DEF AnnouncedByEvent, AuditableTask, LifecycleOK
    <3>3. IsLast(x.startedSeq, starts) /\ IsLast(tasks[t].abortedSeq, aborts)
      BY <2>1, <2>2, <3>2 DEF AllPlaced, Placed
    <3>4. x.startedSeq \in starts
      BY <3>3 DEF IsLast
    <3>5. \A a \in aborts : x.startedSeq > a
      <4>1. \A a \in aborts : a \in Int /\ a <= tasks[t].abortedSeq
        <5>1. DOMAIN events \subseteq Int
          BY DEF TypeOK
        <5> QED  BY <3>3, <5>1 DEF IsLast, Observed
      <4>2. x.startedSeq \in Int /\ tasks[t].abortedSeq \in Int
        BY <2>1 DEF TaskState, ExecutionState
      <4> QED  BY <3>1, <4>1, <4>2
    <3> QED  BY <3>1, <3>3, <3>4, <3>5
  <2> QED  BY <2>2, <2>3, <2>4
<1> QED  BY <1>1, TypeCorrect, OutcomeIsMeasured, AllPlacedAlways, AnnouncedAlways, PTL

-----------------------------------------------------------------------------
(* The audit export: what its numbers are sums of. *)

(* Only a task the ledger speaks of has components. *)
CompsSeen == \A t \in Tasks : tasks[t].comps # {} => tasks[t].seen

(* Applying any event of the vocabulary leaves the task seen. *)
LEMMA AppliedSeen ==
  ASSUME NEW t0 \in TaskState, NEW ev \in Event, NEW n \in Nat
  PROVE  ApplyEvent(t0, ev, n).seen
<1>1. CASE ev.type \in {"execution_started", "execution_finished"}
  BY <1>1 DEF ApplyEvent, StartExecution, FinishExecution, IsComponent, ComponentTypes, TaskState
<1>2. CASE IsComponent(ev)
  BY <1>2 DEF ApplyEvent, RegisterComponent, IsComponent, ComponentTypes, TaskState
<1>3. CASE ev.type \in {"pull_request_created", "pull_request_closed", "pull_request_merged"}
  BY <1>3 DEF ApplyEvent, PullRequestSignal, IsComponent, ComponentTypes, TaskState
<1>4. CASE ev.type \in {"revert_detected", "retry_recorded", "human_rework_recorded",
                        "task_failed", "task_aborted", "task_started"}
  BY <1>4 DEF ApplyEvent, IsComponent, ComponentTypes, TaskState
<1>5. ev.type \in EventTypes
  BY DEF Event
<1> QED
  BY <1>1, <1>2, <1>3, <1>4, <1>5 DEF EventTypes, IsComponent

(* Only tasks that were seen have components. *)
LEMMA CompsSeenAlways == Spec => []CompsSeen
<1>1. Init => CompsSeen
  BY DEF Init, CompsSeen, EmptyTask
<1>2. TypeOK /\ CompsSeen /\ [Next]_vars => CompsSeen'
  <2> SUFFICES ASSUME TypeOK, CompsSeen, [Next]_vars PROVE CompsSeen'
    OBVIOUS
  <2>1. CASE Next
    <3>1. PICK ev \in Evidence : Observe(ev)
      BY <2>1 DEF Next
    <3> SUFFICES ASSUME NEW t \in Tasks, tasks'[t].comps # {} PROVE tasks'[t].seen
      BY DEF CompsSeen
    <3>2. /\ ev \in Event /\ tasks[t] \in TaskState /\ Len(events) + 1 \in Nat
          /\ tasks'[t] = IF t = ev.task THEN ApplyEvent(tasks[t], ev, Len(events) + 1)
                         ELSE tasks[t]
      BY <3>1, StepTasks
    <3>3. ApplyEvent(tasks[t], ev, Len(events) + 1).seen
      BY <3>2, AppliedSeen
    <3> QED  BY <3>2, <3>3 DEF CompsSeen
  <2>2. CASE UNCHANGED vars
    BY <2>2 DEF vars, CompsSeen
  <2> QED  BY <2>1, <2>2
<1> QED  BY <1>1, <1>2, TypeCorrect, PTL DEF Spec

Seen == {u \in Tasks : tasks[u].seen}

(* What the proofs need of the build state of an auditable ledger. *)
SoundBooks ==
  /\ IsFiniteSet(Seen)
  /\ \A t \in Tasks :
       /\ tasks[t] \in TaskState
       /\ tasks[t].comps \in SUBSET Component /\ IsFiniteSet(tasks[t].comps)
       /\ tasks[t].comps # {} => t \in Seen
       /\ \A c \in tasks[t].comps : c.ev.type \in ComponentTypes

(* In every auditable state of the ledger the books are sound. *)
LEMMA BooksAreSound ==
  ASSUME TypeOK, CompsFromLedger, CompsSeen, Auditable
  PROVE  SoundBooks
<1>1. IsFiniteSet(Seen)
  <2>1. Seen \in SUBSET Tasks
    BY DEF Seen
  <2> QED  BY <2>1, FS_Subset
<1>2. ASSUME NEW t \in Tasks
      PROVE  /\ tasks[t] \in TaskState
             /\ tasks[t].comps \in SUBSET Component /\ IsFiniteSet(tasks[t].comps)
             /\ tasks[t].comps # {} => t \in Seen
             /\ \A c \in tasks[t].comps : c.ev.type \in ComponentTypes
  <2> DEFINE P == Observed(t, ComponentTypes)
             f == [i \in P |-> Filed(events, i)]
  <2>1. tasks[t] \in TaskState /\ ~tasks[t].duplicateRef
    BY DEF TypeOK, Auditable, AuditableTask
  <2>2. tasks[t].comps = {f[i] : i \in P}
    BY <2>1 DEF CompsFromLedger
  <2>3. P \subseteq 1..Len(events) /\ Len(events) \in Nat
    BY DEF Observed, TypeOK
  <2>4. IsFiniteSet(P)
    <3>1. IsFiniteSet(1..Len(events))
      BY <2>3, FS_Interval
    <3> HIDE DEF P
    <3> QED  BY <2>3, <3>1, FS_Subset
  <2>5. DOMAIN f = P
    OBVIOUS
  <2>6. IsFiniteSet({f[i] : i \in P})
    <3> HIDE DEF f, P
    <3> QED  BY <2>4, <2>5, FiniteImage
  <2>7. \A c \in tasks[t].comps : c.ev.type \in ComponentTypes
    <3>1. \A i \in P : f[i].ev.type \in ComponentTypes
      BY DEF Observed, Filed
    <3> HIDE DEF f, P
    <3> QED  BY <2>2, <3>1
  <2> HIDE DEF f, P
  <2>8. IsFiniteSet(tasks[t].comps)
    BY <2>2, <2>6
  <2> QED  BY <2>1, <2>7, <2>8 DEF TaskState, CompsSeen, Seen
<1> QED  BY <1>1, <1>2 DEF SoundBooks

-----------------------------------------------------------------------------
(* Prices and missing prices. *)

(* Whether a component has no price, as a number. *)
Missing(c) == IF c.ev.cost = None THEN 1 ELSE 0

(* The cost of part of a finite set of components is the sum of the prices over that part. *)
LEMMA CostOfSum ==
  ASSUME NEW X \in SUBSET Component, IsFiniteSet(X), NEW s \in SUBSET X
  PROVE  /\ [c \in X |-> Price(c)] \in [X -> Nat]
         /\ CostOf(s) = SumFunction(Part([c \in X |-> Price(c)], s))
         /\ CostOf(s) \in Nat
<1> DEFINE w == [c \in X |-> Price(c)]
<1>1. w \in [X -> Nat]
  BY PriceType
<1>2. Part(w, s) = [c \in s |-> Price(c)]
  BY DEF Part
<1> HIDE DEF w
<1>3. CostOf(s) = SumFunction(Part(w, s))
  BY <1>2 DEF CostOf
<1>4. SumFunction(Part(w, s)) \in Nat
  BY <1>1, SumsOfParts
<1> QED  BY <1>1, <1>3, <1>4 DEF w

(* The number of unpriced components in part of a finite set is a sum too: of a one for
   each component without a price. *)
LEMMA UnpricedSum ==
  ASSUME NEW X \in SUBSET Component, IsFiniteSet(X), NEW s \in SUBSET X
  PROVE  /\ [c \in X |-> Missing(c)] \in [X -> Nat]
         /\ Cardinality(Unpriced(s)) = SumFunction(Part([c \in X |-> Missing(c)], s))
         /\ Cardinality(Unpriced(s)) \in Nat
<1> DEFINE w == [c \in X |-> Missing(c)]
           v == Part(w, s)
           A == Unpriced(s)
<1>1. w \in [X -> Nat]
  BY DEF Missing
<1>2. A \in SUBSET s /\ IsFiniteSet(s) /\ IsFiniteSet(A)
  <2>1. A \in SUBSET s /\ IsFiniteSet(s)
    BY FS_Subset DEF Unpriced
  <2> HIDE DEF A
  <2> QED  BY <2>1, FS_Subset
<1>3. v \in [s -> Nat]
  <2> HIDE DEF w
  <2> QED  BY <1>1 DEF Part
<1>4. \A c \in s : v[c] = Missing(c)
  BY DEF Part
<1> HIDE DEF v, w
<1>5. SumFunction(v) = SumFunction(Part(v, A))
  <2>1. \A c \in s \ A : v[c] = 0
    BY <1>4 DEF Unpriced, Missing
  <2> HIDE DEF A
  <2> QED  BY <1>2, <1>3, <2>1, SumOfSupport
<1>6. Part(v, A) = [c \in A |-> 1]
  <2>1. \A c \in A : v[c] = 1
    BY <1>2, <1>4 DEF Unpriced, Missing
  <2> HIDE DEF A
  <2> QED  BY <2>1 DEF Part
<1> HIDE DEF A
<1>7. SumFunction(v) = Cardinality(A) /\ Cardinality(A) \in Nat
  BY <1>2, <1>5, <1>6, SumOfOnes, FS_CardinalityType
<1> QED  BY <1>1, <1>7 DEF v, w, A

-----------------------------------------------------------------------------
(* Aggregates and rows. *)

(* Iterating over the aggregate of a task visits each component. *)
LEMMA AggregateOfTask ==
  ASSUME SoundBooks, NEW t \in Tasks
  PROVE  /\ Aggregate(t).task = t /\ Aggregate(t).outcome = Outcome(tasks[t])
         /\ AllComponents(Aggregate(t)) = tasks[t].comps
<1> DEFINE x == tasks[t]
           A == UNION {Attached(x, e) : e \in Executions}
           B == UNION {Aggregate(t).attached[e] : e \in Executions}
<1>1. /\ Aggregate(t).task = t /\ Aggregate(t).outcome = Outcome(tasks[t])
      /\ AllComponents(Aggregate(t)) = B \cup Unassigned(x)
      /\ \A e \in Executions : Aggregate(t).attached[e] = Attached(x, e)
  <2>1. /\ Aggregate(t).task = t /\ Aggregate(t).outcome = Outcome(tasks[t])
        /\ Aggregate(t).unassigned = Unassigned(x)
        /\ \A e \in Executions : Aggregate(t).attached[e] = Attached(x, e)
    BY DEF Aggregate
  <2>2. AllComponents(Aggregate(t)) = B \cup Aggregate(t).unassigned
    BY DEF AllComponents
  <2> HIDE DEF B, x
  <2> QED  BY <2>1, <2>2
<1>2. B = A
  BY <1>1
<1>3. A \cup Unassigned(x) = x.comps
  <2>1. A \cup Unassigned(x) \subseteq x.comps
    BY DEF Attached, Unassigned
  <2>2. ASSUME NEW c \in x.comps PROVE c \in A \cup Unassigned(x)
    <3>1. c.ev.exec \in Executions \cup {None}
      BY DEF SoundBooks, Component, Event, Optional
    <3>2. CASE c.ev.exec \in Executions /\ x.execs[c.ev.exec].announced
      BY <3>2 DEF Attached
    <3>3. CASE c.ev.exec = None \/ ~x.execs[c.ev.exec].announced
      BY <3>3 DEF Unassigned
    <3> QED  BY <3>1, <3>2, <3>3
  <2> QED  BY <2>1, <2>2
<1>4. AllComponents(Aggregate(t)) = x.comps
  <2> HIDE DEF A, B, x
  <2> QED  BY <1>1, <1>2, <1>3, Zenon
<1> QED  BY <1>1, <1>4

(* The row of a task in the report shows its cost and its unpriced         *)
(* components, though the CLI sums them execution by execution.            *)
LEMMA RowOfTask ==
  ASSUME SoundBooks, NEW t \in Tasks, NEW F
  PROVE  LET row == CoreRow(Aggregate(t), F) IN
         /\ row.task = t
         /\ row.measured = CostOf(tasks[t].comps)
         /\ row.unavailable = Cardinality(Unpriced(tasks[t].comps))
         /\ row.waste = SumFunction([f \in {g \in F : g.task = t} |-> CostOf(f.units)])
<1> DEFINE x == tasks[t]
           row == CoreRow(Aggregate(t), F)
           X == x.comps
           w == [c \in X |-> Missing(c)]
<1>1. /\ x \in TaskState /\ X \in SUBSET Component /\ IsFiniteSet(X)
      /\ Unassigned(x) \in SUBSET X /\ \A e \in Executions : Attached(x, e) \in SUBSET X
  BY DEF SoundBooks, Unassigned, Attached
<1>2. /\ Aggregate(t).task = t /\ Aggregate(t).unassigned = Unassigned(x)
      /\ \A e \in Executions : Aggregate(t).attached[e] = Attached(x, e)
  BY DEF Aggregate
<1>3. /\ row.task = Aggregate(t).task
      /\ row.measured = SumFunction([e \in Executions |-> CostOf(Aggregate(t).attached[e])])
                          + CostOf(Aggregate(t).unassigned)
      /\ row.unavailable = SumFunction([e \in Executions |->
                                          Cardinality(Unpriced(Aggregate(t).attached[e]))])
                             + Cardinality(Unpriced(Aggregate(t).unassigned))
      /\ row.waste = SumFunction([f \in {g \in F : g.task = Aggregate(t).task} |-> CostOf(f.units)])
  BY DEF CoreRow
<1> HIDE DEF row
<1>4. row.task = t
      /\ row.waste = SumFunction([f \in {g \in F : g.task = t} |-> CostOf(f.units)])
  BY <1>2, <1>3
<1>5. row.measured = CostOf(X)
  <2>1. [e \in Executions |-> CostOf(Aggregate(t).attached[e])]
          = [e \in Executions |-> CostOf(Attached(x, e))]
    BY <1>2
  <2>2. row.measured = KnownCost(x)
    BY <1>2, <1>3, <2>1, Zenon DEF KnownCost
  <2> QED  BY <1>1, <2>2, KnownCostOfAll
<1>6. row.unavailable = Cardinality(Unpriced(X))
  <2>1. \A s \in SUBSET X : Cardinality(Unpriced(s)) = SumFunction(Part(w, s))
    BY <1>1, UnpricedSum
  <2>2. w \in [X -> Nat]
    BY DEF Missing
  <2>3. Part(w, X) = w
    BY DEF Part
  <2> HIDE DEF w
  <2>4. [e \in Executions |-> Cardinality(Unpriced(Aggregate(t).attached[e]))]
          = [e \in Executions |-> SumFunction(Part(w, Attached(x, e)))]
    BY <1>1, <1>2, <2>1
  <2>5. row.unavailable = SumFunction([e \in Executions |-> SumFunction(Part(w, Attached(x, e)))])
                            + SumFunction(Part(w, Unassigned(x)))
    BY <1>1, <1>2, <1>3, <2>1, <2>4
  <2>6. SumFunction(w) = SumFunction([e \in Executions |-> SumFunction(Part(w, Attached(x, e)))])
                           + SumFunction(Part(w, Unassigned(x)))
    BY <1>1, <2>2, SumOfFiled
  <2>7. Cardinality(Unpriced(X)) = SumFunction(w)
    BY <2>1, <2>3
  <2> QED  BY <2>5, <2>6, <2>7
<1> QED  BY <1>4, <1>5, <1>6 DEF row

Aggregates == {Aggregate(t) : t \in Seen}

(* A sum over aggregates is one over the tasks they are of. *)
LEMMA SumOverAggregates ==
  ASSUME SoundBooks, NEW w \in [Seen -> Nat], NEW v, DOMAIN v = Aggregates,
         v = [a \in Aggregates |-> v[a]], \A t \in Seen : v[Aggregate(t)] = w[t]
  PROVE  SumFunction(v) = SumFunction(w) /\ SumFunction(v) \in Nat
<1> DEFINE r == [t \in Seen |-> Aggregate(t)]
<1>1. IsFiniteSet(Seen)
  BY DEF SoundBooks
<1>2. /\ r \in [Seen -> Aggregates]
      /\ \A x, y \in Seen : r[x] = r[y] => x = y
      /\ \A y \in Aggregates : \E x \in Seen : r[x] = y
  BY DEF Aggregate, Aggregates
<1>3. \A x \in Seen : v[r[x]] = w[x]
  OBVIOUS
<1>4. v \in [Aggregates -> Nat]
  <2>1. \A a \in Aggregates : v[a] \in Nat
    BY <1>2, <1>3
  <2> QED  BY <2>1
<1> HIDE DEF r
<1>5. SumFunction(v) = SumFunction(w)
  <2>1. Renames(r, Seen, w, Aggregates, v)
    BY <1>2, <1>3, <1>4 DEF Renames
  <2> QED  BY <1>1, <2>1, SumReindexed
<1>6. SumFunction(w) \in Nat
  BY <1>1, SumType
<1> QED  BY <1>5, <1>6

-----------------------------------------------------------------------------
(* Findings. *)

(* There are finitely many findings, each of components of a seen task,    *)
(* with something to report.                                               *)
LEMMA FindingsOfSeen ==
  ASSUME SoundBooks
  PROVE  /\ IsFiniteSet(Findings)
         /\ \A f \in Findings :
              /\ f.task \in Seen /\ f.units # {}
              /\ f.units \in SUBSET tasks[f.task].comps
              /\ CostOf(f.units) \in Nat
<1>1. ASSUME NEW f \in Findings
      PROVE  /\ f.task \in Tasks /\ f.rule \in Rules
             /\ f.task \in Seen /\ f.units # {}
             /\ f.units \in SUBSET tasks[f.task].comps
             /\ CostOf(f.units) \in Nat
             /\ f = [task |-> f.task, rule |-> f.rule, units |-> f.units]
  <2>1. /\ f.task \in Tasks /\ f.rule \in Rules
        /\ f = [task |-> f.task, rule |-> f.rule, units |-> f.units]
        /\ CostOf(f.units) > 0 \/ \E c \in f.units : c.ev.cost = None
    BY FindingOrigin
  <2>2. f.units \in SUBSET tasks[f.task].comps
    <3>1. PICK X \in Candidates(tasks[f.task], f.rule) :
            f.units = {c \in X : c.ev.ref \notin Claimed(f.task, f.rule)}
      BY FindingOrigin
    <3>2. X \subseteq tasks[f.task].comps
      BY <2>1, CandidatesDisjoint
    <3> QED  BY <3>1, <3>2
  <2>3. f.units # {}
    <3>1. CostOf({}) = 0
      BY SumOfNone DEF CostOf
    <3> QED  BY <2>1, <3>1
  <2>4. /\ tasks[f.task].comps \in SUBSET Component /\ IsFiniteSet(tasks[f.task].comps)
        /\ tasks[f.task].comps # {} => f.task \in Seen
    BY <2>1 DEF SoundBooks
  <2>5. CostOf(f.units) \in Nat
    BY <2>2, <2>4, CostOfSum
  <2> QED  BY <2>1, <2>2, <2>3, <2>4, <2>5
<1>2. IsFiniteSet(Findings)
  <2> DEFINE S == {tasks[t].comps : t \in Seen}
             D == UNION S
             Z == (Seen \X Rules) \X SUBSET D
             g == [z \in Z |-> [task |-> z[1][1], rule |-> z[1][2], units |-> z[2]]]
             h == [t \in Seen |-> tasks[t].comps]
  <2>1. IsFiniteSet(Seen) /\ Seen \subseteq Tasks /\ \A t \in Seen : IsFiniteSet(tasks[t].comps)
    BY DEF SoundBooks, Seen
  <2>2. IsFiniteSet(S)
    <3>1. DOMAIN h = Seen /\ S = {h[t] : t \in Seen}
      OBVIOUS
    <3> HIDE DEF h, S
    <3>2. IsFiniteSet({h[t] : t \in Seen})
      BY <2>1, <3>1, FiniteImage
    <3> QED  BY <3>1, <3>2
  <2>3. \A T \in S : IsFiniteSet(T)
    BY <2>1
  <2>4. IsFiniteSet(SUBSET D)
    <3> HIDE DEF S
    <3>1. IsFiniteSet(D)
      BY <2>2, <2>3, FS_UNION
    <3> HIDE DEF D
    <3> QED  BY <3>1, FS_SUBSET
  <2>5. IsFiniteSet(Seen \X Rules)
    <3>1. IsFiniteSet(1..4)
      <4>1. \A a, b \in Int : IsFiniteSet(a..b)
        BY FS_Interval
      <4>2. 1 \in Int /\ 4 \in Int
        OBVIOUS
      <4> QED  BY <4>1, <4>2, Zenon
    <3>2. Rules = 1..4
      BY DEF Rules, DuplicateCi, ExecutionAfterAbort
    <3> QED  BY <2>1, <3>1, <3>2, FS_Product
  <2>6. IsFiniteSet(Z)
    <3> HIDE DEF D
    <3> QED  BY <2>4, <2>5, FS_Product
  <2>7. IsFiniteSet({g[z] : z \in Z})
    <3>1. DOMAIN g = Z
      OBVIOUS
    <3> HIDE DEF g, Z
    <3> QED  BY <2>6, <3>1, FiniteImage
  <2>8. Findings \in SUBSET {g[z] : z \in Z}
    <3> SUFFICES ASSUME NEW f \in Findings PROVE \E z \in Z : f = g[z]
      OBVIOUS
    <3> DEFINE z == <<<<f.task, f.rule>>, f.units>>
    <3>1. f.units \in SUBSET D
      <4>1. tasks[f.task].comps \in S
        BY <1>1
      <4> HIDE DEF S
      <4> QED  BY <1>1, <4>1
    <3>2. z \in Z
      <4> HIDE DEF D
      <4> QED  BY <1>1, <3>1
    <3>3. g[z] = [task |-> f.task, rule |-> f.rule, units |-> f.units]
      <4>1. z[1][1] = f.task /\ z[1][2] = f.rule /\ z[2] = f.units
        OBVIOUS
      <4> HIDE DEF z, Z
      <4> QED  BY <3>2, <4>1
    <3> HIDE DEF g, z, Z
    <3> QED  BY <1>1, <3>2, <3>3
  <2> DEFINE R == {g[z] : z \in Z}
  <2> HIDE DEF R
  <2>9. IsFiniteSet(R) /\ Findings \in SUBSET R
    BY <2>7, <2>8 DEF R
  <2> QED  BY <2>9, FS_Subset
<1> QED  BY <1>1, <1>2

FindingsOn(t) == {g \in Findings : g.task = t}
WasteOf(t) == SumFunction([f \in FindingsOn(t) |-> CostOf(f.units)])

(* A task is not charged more than it cost: its findings share no          *)
(* component.                                                              *)
LEMMA WasteWithinCost ==
  ASSUME SoundBooks, ChargedOnce, Auditable, NEW t \in Tasks
  PROVE  WasteOf(t) \in Nat /\ WasteOf(t) <= CostOf(tasks[t].comps)
<1> DEFINE X == tasks[t].comps
           F == FindingsOn(t)
           U == UNION {f.units : f \in F}
           w == [c \in X |-> Price(c)]
           v == Part(w, U)
           Of(c) == CHOOSE f \in F : c \in f.units
           key == [c \in U |-> Of(c)]
           Group(f) == {c \in U : key[c] = f}
<1>1. X \in SUBSET Component /\ IsFiniteSet(X)
  BY DEF SoundBooks
<1>2. /\ IsFiniteSet(F)
      /\ \A f \in F : f \in Findings /\ f.task = t /\ f.units \in SUBSET X /\ CostOf(f.units) \in Nat
  <2>1. F \in SUBSET Findings /\ \A f \in F : f.task = t
    BY DEF FindingsOn
  <2> HIDE DEF F
  <2> QED  BY <2>1, FindingsOfSeen, FS_Subset
<1>3. U \in SUBSET X /\ IsFiniteSet(U)
  <2>1. U \in SUBSET X
    BY <1>2
  <2> HIDE DEF U
  <2> QED  BY <1>1, <2>1, FS_Subset
<1>4. w \in [X -> Nat] /\ v \in [U -> Nat]
  <2>1. w \in [X -> Nat]
    BY <1>1, PriceType
  <2> HIDE DEF w, U
  <2> QED  BY <1>3, <2>1 DEF Part
<1>5. \A f \in F : \A c \in f.units : c \in U /\ Of(c) = f
  <2> SUFFICES ASSUME NEW f \in F, NEW c \in f.units PROVE c \in U /\ Of(c) = f
    OBVIOUS
  <2>1. Of(c) \in F /\ c \in Of(c).units
    OBVIOUS
  <2>2. ASSUME NEW g \in F, c \in g.units PROVE g = f
    <3>1. c.ev.ref \in RefsOf(f.units) \cap RefsOf(g.units)
      BY <2>2 DEF RefsOf
    <3> QED  BY <1>2, <3>1 DEF ChargedOnce
  <2> HIDE DEF Of
  <2> QED  BY <2>1, <2>2
<1>6. key \in [U -> F]
  BY <1>5
<1>7. \A f \in F : Group(f) = f.units
  <2> SUFFICES ASSUME NEW f \in F PROVE Group(f) = f.units
    OBVIOUS
  <2>1. ASSUME NEW c \in U, Of(c) = f PROVE c \in f.units
    <3>1. PICK g \in F : c \in g.units
      OBVIOUS
    <3>2. Of(c) = g
      BY <1>5, <3>1
    <3> QED  BY <2>1, <3>1, <3>2
  <2> HIDE DEF Of, U
  <2> QED  BY <1>5, <2>1
<1> HIDE DEF F
<1>8. /\ [f \in F |-> SumFunction(Part(v, Group(f)))] \in [F -> Nat]
      /\ SumFunction(v) = SumFunction([f \in F |-> SumFunction(Part(v, Group(f)))])
  <2>1. IsFiniteSet(F) /\ IsFiniteSet(U) /\ v \in [U -> Nat]
    BY <1>2, <1>3, <1>4
  <2> HIDE DEF U, v, key
  <2> QED  BY <1>6, <2>1, SumGrouped
<1>9. \A f \in F : SumFunction(Part(v, Group(f))) = CostOf(f.units)
  <2> SUFFICES ASSUME NEW f \in F PROVE SumFunction(Part(v, Group(f))) = CostOf(f.units)
    OBVIOUS
  <2>1. CostOf(f.units) = SumFunction(Part(w, f.units))
    BY <1>1, <1>2, CostOfSum
  <2>2. \A c \in f.units : v[c] = w[c]
    BY <1>5 DEF Part
  <2> HIDE DEF v, Group, w
  <2>3. Part(v, Group(f)) = Part(w, f.units)
    BY <1>7, <2>2 DEF Part
  <2> QED  BY <2>1, <2>3
<1>10. [f \in F |-> SumFunction(Part(v, Group(f)))] = [f \in F |-> CostOf(f.units)]
  <2> HIDE DEF v, Group
  <2> QED  BY <1>9
<1>11. SumFunction(v) = WasteOf(t)
  <2> HIDE DEF v, Group
  <2> QED  BY <1>8, <1>10 DEF WasteOf, F
<1>12. /\ SumFunction(w) = SumFunction(v) + SumFunction(Part(w, X \ U))
       /\ SumFunction(v) \in Nat /\ SumFunction(Part(w, X \ U)) \in Nat
  <2> HIDE DEF U, w, X
  <2> QED  BY <1>1, <1>3, <1>4, SumSplit, SumsOfParts
<1>13. CostOf(X) = SumFunction(w)
  BY DEF CostOf
<1> HIDE DEF v, w, X, U
<1> QED  BY <1>11, <1>12, <1>13 DEF X

(* Each finding is of one seen task. *)
LEMMA WasteOverTasks ==
  ASSUME SoundBooks
  PROVE  /\ [t \in Seen |-> WasteOf(t)] \in [Seen -> Nat]
         /\ SumFunction([f \in Findings |-> CostOf(f.units)])
              = SumFunction([t \in Seen |-> WasteOf(t)])
<1> DEFINE w == [f \in Findings |-> CostOf(f.units)]
           key == [f \in Findings |-> f.task]
           Group(t) == {f \in Findings : key[f] = t}
<1>1. /\ IsFiniteSet(Findings) /\ IsFiniteSet(Seen)
      /\ w \in [Findings -> Nat] /\ key \in [Findings -> Seen]
  BY FindingsOfSeen DEF SoundBooks
<1>2. ASSUME NEW t \in Seen PROVE SumFunction(Part(w, Group(t))) = WasteOf(t)
  <2>1. Part(w, Group(t)) = [f \in FindingsOn(t) |-> CostOf(f.units)]
    BY DEF Part, FindingsOn
  <2> HIDE DEF w, Group
  <2> QED  BY <2>1 DEF WasteOf
<1>3. /\ [t \in Seen |-> SumFunction(Part(w, Group(t)))] \in [Seen -> Nat]
      /\ SumFunction(w) = SumFunction([t \in Seen |-> SumFunction(Part(w, Group(t)))])
  <2> HIDE DEF w, key
  <2> QED  BY <1>1, SumGrouped
<1>4. [t \in Seen |-> SumFunction(Part(w, Group(t)))] = [t \in Seen |-> WasteOf(t)]
  <2> HIDE DEF w, Group
  <2> QED  BY <1>2, Zenon
<1> HIDE DEF Group
<1> QED  BY <1>3, <1>4

-----------------------------------------------------------------------------
(* The headline. *)

(* The headline has six rows, one per outcome class: a finite set. *)
LEMMA SixAreFinite ==
  ASSUME NEW a, NEW b, NEW c, NEW d, NEW e, NEW f
  PROVE  IsFiniteSet({a, b, c, d, e, f})
<1>1. IsFiniteSet({a})
  BY FS_Singleton
<1>2. IsFiniteSet({a} \cup {b})
  BY <1>1, FS_AddElement
<1>3. IsFiniteSet(({a} \cup {b}) \cup {c})
  BY <1>2, FS_AddElement
<1>4. IsFiniteSet((({a} \cup {b}) \cup {c}) \cup {d})
  BY <1>3, FS_AddElement
<1>5. IsFiniteSet(((({a} \cup {b}) \cup {c}) \cup {d}) \cup {e})
  BY <1>4, FS_AddElement
<1>6. IsFiniteSet((((({a} \cup {b}) \cup {c}) \cup {d}) \cup {e}) \cup {f})
  BY <1>5, FS_AddElement
<1>7. {a, b, c, d, e, f} = (((({a} \cup {b}) \cup {c}) \cup {d}) \cup {e}) \cup {f}
  OBVIOUS
<1> QED  BY <1>6, <1>7

(* By kind or by task, the components cost the same. *)
LEMMA KindsAddUp ==
  ASSUME SoundBooks
  PROVE  /\ [t \in Seen |-> CostOf(tasks[t].comps)] \in [Seen -> Nat]
         /\ SumFunction([type \in ComponentTypes |->
                           SumFunction([p \in OfKind(Aggregates, type) |-> Price(p[2])])])
              = SumFunction([t \in Seen |-> CostOf(tasks[t].comps)])
<1> DEFINE C == [t \in Seen |-> tasks[t].comps]
           S == {C[t] : t \in Seen}
           X == UNION S
           w == [c \in X |-> Price(c)]
           L == Labelled(Seen, X, C)
           u == [p \in L |-> w[p[2]]]
           key == [p \in L |-> p[2].ev.type]
           Group(type) == {p \in L : key[p] = type}
<1>1. /\ IsFiniteSet(Seen)
      /\ \A t \in Seen : /\ t \in Tasks /\ C[t] = tasks[t].comps
                         /\ C[t] \in SUBSET Component /\ IsFiniteSet(C[t])
                         /\ \A c \in C[t] : c.ev.type \in ComponentTypes
  BY DEF SoundBooks, Seen
<1>2. X \in SUBSET Component /\ IsFiniteSet(X) /\ C \in [Seen -> SUBSET X]
  <2>1. DOMAIN C = Seen
    OBVIOUS
  <2>2. IsFiniteSet(S)
    <3> HIDE DEF C
    <3> QED  BY <1>1, <2>1, FiniteImage
  <2>3. \A T \in S : IsFiniteSet(T) /\ T \in SUBSET Component
    <3> HIDE DEF C
    <3> QED  BY <1>1
  <2>4. \A t \in Seen : C[t] \in S
    OBVIOUS
  <2>5. IsFiniteSet(X)
    <3> HIDE DEF S
    <3> QED  BY <2>2, <2>3, FS_UNION
  <2>6. X \in SUBSET Component
    <3> HIDE DEF S
    <3> QED  BY <2>3
  <2>7. C \in [Seen -> SUBSET X]
    <3> HIDE DEF S
    <3> QED  BY <2>4
  <2> QED  BY <2>5, <2>6, <2>7
<1>3. w \in [X -> Nat]
  <2> HIDE DEF X
  <2> QED  BY <1>2, PriceType
<1>4. \A t \in Seen : SumFunction(Part(w, C[t])) = CostOf(tasks[t].comps)
  <2> SUFFICES ASSUME NEW t \in Seen PROVE SumFunction(Part(w, C[t])) = CostOf(C[t])
    BY <1>1
  <2>1. C[t] \in SUBSET X
    BY <1>2
  <2> HIDE DEF X, C
  <2> QED  BY <1>2, <2>1, CostOfSum
<1>5. /\ IsFiniteSet(L)
      /\ [t \in Seen |-> SumFunction(Part(w, C[t]))] \in [Seen -> Nat]
      /\ SumFunction(u) = SumFunction([t \in Seen |-> SumFunction(Part(w, C[t]))])
  <2>1. IsFiniteSet(Seen) /\ IsFiniteSet(X) /\ C \in [Seen -> SUBSET X]
    BY <1>1, <1>2
  <2> HIDE DEF X, C, w
  <2> QED  BY <1>3, <2>1, SumOfLabelled
<1>6. [t \in Seen |-> SumFunction(Part(w, C[t]))] = [t \in Seen |-> CostOf(tasks[t].comps)]
  <2> HIDE DEF X, C, w
  <2> QED  BY <1>4, Zenon
<1>7. \A p \in L : p[1] \in Seen /\ p[2] \in tasks[p[1]].comps /\ p[2] \in X /\ p = <<p[1], p[2]>>
  <2> HIDE DEF X, C
  <2> QED  BY <1>1 DEF Labelled
<1>8. u \in [L -> Nat] /\ key \in [L -> ComponentTypes]
  <2>1. \A p \in L : w[p[2]] \in Nat
    <3> HIDE DEF w, X, L
    <3> QED  BY <1>3, <1>7
  <2>2. \A p \in L : p[2].ev.type \in ComponentTypes
    <3> HIDE DEF X, L
    <3> QED  BY <1>1, <1>7
  <2> HIDE DEF L, w
  <2> QED  BY <2>1, <2>2
<1>9. IsFiniteSet(ComponentTypes)
  BY SixAreFinite DEF ComponentTypes
<1>10. SumFunction(u) = SumFunction([type \in ComponentTypes |-> SumFunction(Part(u, Group(type)))])
  <2>1. IsFiniteSet(L)
    BY <1>5
  <2> HIDE DEF L, u, key
  <2> QED  BY <1>8, <1>9, <2>1, SumGrouped
<1>11. ASSUME NEW type \in ComponentTypes
       PROVE  Part(u, Group(type)) = [p \in OfKind(Aggregates, type) |-> Price(p[2])]
  <2>1. Group(type) = OfKind(Aggregates, type)
    <3>1. ASSUME NEW p \in Group(type) PROVE p \in OfKind(Aggregates, type)
      <4>1. p \in L /\ p[2].ev.type = type
        OBVIOUS
      <4>2. p[1] \in Seen /\ p[1] \in Tasks /\ p[2] \in tasks[p[1]].comps /\ p = <<p[1], p[2]>>
        <5> HIDE DEF L
        <5> QED  BY <1>1, <1>7, <4>1
      <4>3. Aggregate(p[1]) \in Aggregates /\ Aggregate(p[1]).task = p[1]
            /\ p[2] \in AllComponents(Aggregate(p[1]))
        BY <4>2, AggregateOfTask DEF Aggregates
      <4> HIDE DEF L, Group
      <4> QED  BY <4>1, <4>2, <4>3 DEF OfKind
    <3>2. ASSUME NEW p \in OfKind(Aggregates, type) PROVE p \in Group(type)
      <4>1. PICK a \in Aggregates : \E c \in AllComponents(a) : c.ev.type = type /\ p = <<a.task, c>>
        BY DEF OfKind
      <4>2. PICK t \in Seen : a = Aggregate(t)
        BY DEF Aggregates
      <4>3. PICK c \in AllComponents(a) : c.ev.type = type /\ p = <<a.task, c>>
        BY <4>1
      <4>4. c \in C[t] /\ p = <<t, c>>
        BY <1>1, <4>2, <4>3, AggregateOfTask
      <4>5. c \in X
        <5> HIDE DEF X, C
        <5> QED  BY <1>2, <4>4
      <4>6. p \in L /\ p[2] = c
        <5> HIDE DEF X, C
        <5> QED  BY <4>4, <4>5 DEF Labelled
      <4> HIDE DEF L
      <4> QED  BY <4>3, <4>6
    <3> HIDE DEF Group
    <3> QED  BY <3>1, <3>2
  <2>2. \A p \in Group(type) : u[p] = Price(p[2])
    <3> HIDE DEF L
    <3>1. \A p \in Group(type) : p \in L /\ p[2] \in X
      BY <1>7
    <3>2. \A c \in X : w[c] = Price(c)
      OBVIOUS
    <3> HIDE DEF w, X, Group
    <3> QED  BY <3>1, <3>2
  <2> HIDE DEF u, Group
  <2> QED  BY <2>1, <2>2 DEF Part
<1>12. [type \in ComponentTypes |-> SumFunction(Part(u, Group(type)))]
         = [type \in ComponentTypes |->
              SumFunction([p \in OfKind(Aggregates, type) |-> Price(p[2])])]
  <2> HIDE DEF u, Group
  <2> QED  BY <1>11
<1> HIDE DEF u, Group, w, C
<1>13. [t \in Seen |-> CostOf(tasks[t].comps)] \in [Seen -> Nat]
  BY <1>5, <1>6
<1> QED  BY <1>5, <1>6, <1>10, <1>12, <1>13, Zenon

(* The known cost and the unpriced components of a task, of all tasks. *)
CostByTask == [t \in Seen |-> CostOf(tasks[t].comps)]
UnpricedByTask == [t \in Seen |-> Cardinality(Unpriced(tasks[t].comps))]

(* The accounting of the core is that by task; it is balanced; and it      *)
(* counts no more components without a price than components.              *)
LEMMA Accounting ==
  ASSUME SoundBooks
  PROVE  LET accounting == VerifyCostAccounting(Aggregates) IN
         /\ CostByTask \in [Seen -> Nat] /\ UnpricedByTask \in [Seen -> Nat]
         /\ accounting.known = SumFunction(CostByTask) /\ accounting.known \in Nat
         /\ accounting.unknown = SumFunction(UnpricedByTask) /\ accounting.unknown \in Nat
         /\ accounting.total \in Nat /\ accounting.unknown <= accounting.total
         /\ accounting.balanced
<1> DEFINE accounting == VerifyCostAccounting(Aggregates)
           known == [a \in Aggregates |-> CostOf(AllComponents(a))]
           total == [a \in Aggregates |-> Cardinality(AllComponents(a))]
           unknown == [a \in Aggregates |-> Cardinality(Unpriced(AllComponents(a)))]
           all == [t \in Seen |-> Cardinality(tasks[t].comps)]
           kinds == [type \in ComponentTypes |->
                       SumFunction([p \in OfKind(Aggregates, type) |-> Price(p[2])])]
<1>1. /\ accounting.known = SumFunction(known)
      /\ accounting.total = SumFunction(total)
      /\ accounting.unknown = SumFunction(unknown)
      /\ accounting.balanced <=> SumFunction(kinds) = SumFunction(known)
  BY DEF VerifyCostAccounting
<1> HIDE DEF accounting
<1>2. \A t \in Seen :
        /\ Aggregate(t) \in Aggregates /\ AllComponents(Aggregate(t)) = tasks[t].comps
        /\ tasks[t].comps \in SUBSET Component /\ IsFiniteSet(tasks[t].comps)
  BY AggregateOfTask DEF SoundBooks, Seen, Aggregates
<1>3. ASSUME NEW t \in Seen
      PROVE  /\ CostByTask[t] \in Nat /\ UnpricedByTask[t] \in Nat /\ all[t] \in Nat
             /\ UnpricedByTask[t] <= all[t]
             /\ known[Aggregate(t)] = CostByTask[t]
             /\ total[Aggregate(t)] = all[t]
             /\ unknown[Aggregate(t)] = UnpricedByTask[t]
  <2>1. CostOf(tasks[t].comps) \in Nat /\ Cardinality(tasks[t].comps) \in Nat
    BY <1>2, CostOfSum, FS_CardinalityType
  <2>2. /\ Cardinality(Unpriced(tasks[t].comps)) \in Nat
        /\ Cardinality(Unpriced(tasks[t].comps)) <= Cardinality(tasks[t].comps)
    <3>1. Unpriced(tasks[t].comps) \in SUBSET tasks[t].comps
      BY DEF Unpriced
    <3> QED  BY <1>2, <3>1, FS_Subset, FS_CardinalityType
  <2>3. /\ CostByTask[t] = CostOf(tasks[t].comps) /\ all[t] = Cardinality(tasks[t].comps)
        /\ UnpricedByTask[t] = Cardinality(Unpriced(tasks[t].comps))
    BY DEF CostByTask, UnpricedByTask
  <2>4. /\ known[Aggregate(t)] = CostOf(AllComponents(Aggregate(t)))
        /\ total[Aggregate(t)] = Cardinality(AllComponents(Aggregate(t)))
        /\ unknown[Aggregate(t)] = Cardinality(Unpriced(AllComponents(Aggregate(t))))
    BY <1>2
  <2> HIDE DEF known, total, unknown, all
  <2> QED  BY <1>2, <2>1, <2>2, <2>3, <2>4
<1>4. CostByTask \in [Seen -> Nat] /\ UnpricedByTask \in [Seen -> Nat] /\ all \in [Seen -> Nat]
  <2>1. DOMAIN all = Seen /\ all = [t \in Seen |-> all[t]]
    OBVIOUS
  <2>2. /\ CostByTask = [t \in Seen |-> CostByTask[t]]
        /\ UnpricedByTask = [t \in Seen |-> UnpricedByTask[t]]
    BY DEF CostByTask, UnpricedByTask
  <2> HIDE DEF all
  <2>3. \A t \in Seen : CostByTask[t] \in Nat /\ UnpricedByTask[t] \in Nat /\ all[t] \in Nat
    BY <1>3
  <2> QED  BY <2>1, <2>2, <2>3
<1>5. /\ DOMAIN known = Aggregates /\ known = [a \in Aggregates |-> known[a]]
      /\ DOMAIN total = Aggregates /\ total = [a \in Aggregates |-> total[a]]
      /\ DOMAIN unknown = Aggregates /\ unknown = [a \in Aggregates |-> unknown[a]]
  OBVIOUS
<1> HIDE DEF known, total, unknown, all
<1>6. SumFunction(known) = SumFunction(CostByTask) /\ SumFunction(known) \in Nat
  BY <1>3, <1>4, <1>5, SumOverAggregates
<1>7. SumFunction(unknown) = SumFunction(UnpricedByTask) /\ SumFunction(unknown) \in Nat
  BY <1>3, <1>4, <1>5, SumOverAggregates
<1>8. SumFunction(total) = SumFunction(all) /\ SumFunction(total) \in Nat
  BY <1>3, <1>4, <1>5, SumOverAggregates
<1>9. SumFunction(UnpricedByTask) <= SumFunction(all)
  <2>1. IsFiniteSet(Seen) /\ \A t \in Seen : UnpricedByTask[t] <= all[t]
    BY <1>3 DEF SoundBooks
  <2> QED  BY <1>4, <2>1, SumBounded
<1>10. SumFunction(kinds) = SumFunction(CostByTask)
  BY KindsAddUp DEF CostByTask
<1> HIDE DEF kinds
<1> QED  BY <1>1, <1>4, <1>6, <1>7, <1>8, <1>9, <1>10 DEF accounting

(* Each task has one outcome. *)
LEMMA TotalsAddUp ==
  ASSUME SoundBooks
  PROVE  /\ SumFunction([o \in Outcomes |-> Cardinality({a \in Aggregates : a.outcome = o})])
              = Cardinality(Aggregates)
         /\ \A o \in Outcomes : Cardinality({a \in Aggregates : a.outcome = o}) \in Nat
<1> DEFINE w == [a \in Aggregates |-> 1]
           key == [a \in Aggregates |-> a.outcome]
           Group(o) == {a \in Aggregates : key[a] = o}
           Ending(o) == {a \in Aggregates : a.outcome = o}
<1>1. IsFiniteSet(Aggregates)
  <2> DEFINE h == [t \in Seen |-> Aggregate(t)]
  <2>1. IsFiniteSet(Seen) /\ DOMAIN h = Seen /\ Aggregates = {h[t] : t \in Seen}
    BY DEF SoundBooks, Aggregates
  <2> HIDE DEF h
  <2>2. IsFiniteSet({h[t] : t \in Seen})
    BY <2>1, FiniteImage
  <2> QED  BY <2>1, <2>2
<1>2. w \in [Aggregates -> Nat] /\ key \in [Aggregates -> Outcomes]
  <2> SUFFICES ASSUME NEW a \in Aggregates PROVE a.outcome \in Outcomes
    OBVIOUS
  <2>1. PICK t \in Seen : a = Aggregate(t)
    BY DEF Aggregates
  <2>2. a.outcome = Outcome(tasks[t])
    BY <2>1 DEF Aggregate
  <2> QED  BY <2>2 DEF Outcome, Outcomes
<1>3. IsFiniteSet(Outcomes)
  <2>1. Outcomes = {"accepted", "failed", "aborted", "unresolved", "unresolved", "unresolved"}
    BY DEF Outcomes
  <2> QED  BY <2>1, SixAreFinite
<1>4. SumFunction(w) = SumFunction([o \in Outcomes |-> SumFunction(Part(w, Group(o)))])
  <2> HIDE DEF w, key
  <2> QED  BY <1>1, <1>2, <1>3, SumGrouped
<1>5. \A o \in Outcomes : /\ SumFunction(Part(w, Group(o))) = Cardinality(Ending(o))
                          /\ Cardinality(Ending(o)) \in Nat
  <2> SUFFICES ASSUME NEW o \in Outcomes
               PROVE  /\ SumFunction(Part(w, Group(o))) = Cardinality(Ending(o))
                      /\ Cardinality(Ending(o)) \in Nat
    OBVIOUS
  <2>1. Part(w, Group(o)) = [a \in Ending(o) |-> 1]
    BY DEF Part
  <2>2. Ending(o) \in SUBSET Aggregates
    OBVIOUS
  <2> HIDE DEF Group, Ending, w
  <2>3. IsFiniteSet(Ending(o))
    BY <1>1, <2>2, FS_Subset
  <2> QED  BY <2>1, <2>3, SumOfOnes, FS_CardinalityType
<1>6. [o \in Outcomes |-> SumFunction(Part(w, Group(o)))]
        = [o \in Outcomes |-> Cardinality(Ending(o))]
  <2> HIDE DEF Group, Ending, w
  <2> QED  BY <1>5
<1>7. SumFunction(w) = Cardinality(Aggregates)
  BY <1>1, SumOfOnes
<1>8. \A o \in Outcomes : Cardinality(Ending(o)) \in Nat
  BY <1>5
<1> HIDE DEF Group, w
<1> QED  BY <1>4, <1>6, <1>7, <1>8

-----------------------------------------------------------------------------
(* The report. *)

Rows == {CoreRow(a, Findings) : a \in Aggregates}

(* A column of the report adds up to the sum over the seen tasks. *)
LEMMA ColumnAddsUp ==
  ASSUME SoundBooks, NEW w \in [Seen -> Nat], NEW v, v = [row \in Rows |-> v[row]],
         \A t \in Seen : v[CoreRow(Aggregate(t), Findings)] = w[t]
  PROVE  SumFunction(v) = SumFunction(w)
<1> DEFINE r == [t \in Seen |-> CoreRow(Aggregate(t), Findings)]
<1>1. \A t \in Seen : CoreRow(Aggregate(t), Findings).task = t
  BY RowOfTask DEF Seen
<1>2. Rows = {r[t] : t \in Seen} /\ \A t \in Seen : v[r[t]] = w[t] /\ r[t] \in Rows
  BY DEF Rows, Aggregates
<1>3. \A x, y \in Seen : r[x] = r[y] => x = y
  BY <1>1
<1>4. r \in [Seen -> Rows]
  BY <1>2
<1> HIDE DEF r
<1>5. v \in [Rows -> Nat]
  <2>1. \A row \in Rows : v[row] \in Nat
    BY <1>2
  <2> QED  BY <2>1
<1>6. Renames(r, Seen, w, Rows, v)
  BY <1>2, <1>3, <1>4, <1>5 DEF Renames
<1> QED  BY <1>6, SumReindexed DEF SoundBooks

WasteByTask == [t \in Seen |-> WasteOf(t)]

(* The three columns, and that a row is not charged more than its cost.    *)
LEMMA Columns ==
  ASSUME SoundBooks, ChargedOnce, Auditable
  PROVE  /\ SumFunction([row \in Rows |-> row["measured"]]) = SumFunction(CostByTask)
         /\ SumFunction([row \in Rows |-> row["unavailable"]]) = SumFunction(UnpricedByTask)
         /\ SumFunction([row \in Rows |-> row["waste"]]) = SumFunction(WasteByTask)
         /\ \A row \in Rows : row.waste <= row.measured
<1>1. ASSUME NEW t \in Seen
      PROVE  LET row == CoreRow(Aggregate(t), Findings) IN
             /\ row \in Rows
             /\ row["measured"] = CostByTask[t]
             /\ row["unavailable"] = UnpricedByTask[t]
             /\ row["waste"] = WasteByTask[t]
             /\ row.waste <= row.measured
  <2> DEFINE row == CoreRow(Aggregate(t), Findings)
  <2>1. t \in Tasks /\ row \in Rows
    BY DEF Seen, Rows, Aggregates
  <2>2. /\ row.measured = CostOf(tasks[t].comps)
        /\ row.unavailable = Cardinality(Unpriced(tasks[t].comps))
        /\ row.waste = SumFunction([f \in {g \in Findings : g.task = t} |-> CostOf(f.units)])
    BY <2>1, RowOfTask
  <2>3. row.waste = WasteOf(t)
    BY <2>2 DEF WasteOf, FindingsOn
  <2>4. row.waste <= row.measured
    BY <2>1, <2>2, <2>3, WasteWithinCost
  <2>5. /\ row["measured"] = row.measured
        /\ row["unavailable"] = row.unavailable
        /\ row["waste"] = row.waste
    BY DEF CoreRow
  <2> HIDE DEF row
  <2>6. /\ CostByTask[t] = CostOf(tasks[t].comps) /\ WasteByTask[t] = WasteOf(t)
        /\ UnpricedByTask[t] = Cardinality(Unpriced(tasks[t].comps))
    BY DEF CostByTask, UnpricedByTask, WasteByTask
  <2> QED  BY <2>1, <2>2, <2>3, <2>4, <2>5, <2>6 DEF row
<1>2. /\ CostByTask \in [Seen -> Nat] /\ UnpricedByTask \in [Seen -> Nat]
      /\ WasteByTask \in [Seen -> Nat]
  BY Accounting, WasteOverTasks DEF WasteByTask
<1>3. SumFunction([row \in Rows |-> row["measured"]]) = SumFunction(CostByTask)
  <2> DEFINE v == [row \in Rows |-> row["measured"]]
  <2>1. v = [row \in Rows |-> v[row]]
        /\ \A t \in Seen : v[CoreRow(Aggregate(t), Findings)] = CostByTask[t]
    BY <1>1
  <2> HIDE DEF v
  <2>2. SumFunction(v) = SumFunction(CostByTask)
    BY <1>2, <2>1, ColumnAddsUp
  <2> QED  BY <2>2 DEF v
<1>4. SumFunction([row \in Rows |-> row["unavailable"]]) = SumFunction(UnpricedByTask)
  <2> DEFINE v == [row \in Rows |-> row["unavailable"]]
  <2>1. v = [row \in Rows |-> v[row]]
        /\ \A t \in Seen : v[CoreRow(Aggregate(t), Findings)] = UnpricedByTask[t]
    BY <1>1
  <2> HIDE DEF v
  <2>2. SumFunction(v) = SumFunction(UnpricedByTask)
    BY <1>2, <2>1, ColumnAddsUp
  <2> QED  BY <2>2 DEF v
<1>5. SumFunction([row \in Rows |-> row["waste"]]) = SumFunction(WasteByTask)
  <2> DEFINE v == [row \in Rows |-> row["waste"]]
  <2>1. v = [row \in Rows |-> v[row]]
        /\ \A t \in Seen : v[CoreRow(Aggregate(t), Findings)] = WasteByTask[t]
    BY <1>1
  <2> HIDE DEF v
  <2>2. SumFunction(v) = SumFunction(WasteByTask)
    BY <1>2, <2>1, ColumnAddsUp
  <2> QED  BY <2>2 DEF v
<1>6. \A row \in Rows : row.waste <= row.measured
  BY <1>1 DEF Rows, Aggregates
<1> QED  BY <1>3, <1>4, <1>5, <1>6

(* The fields of the exported audit. *)
LEMMA AuditFields ==
  LET audit == LedgerAudit
      s == audit.summary
      accounting == VerifyCostAccounting(Aggregates)
  IN /\ audit.tasks = Aggregates /\ audit.findings = Findings
     /\ audit.avoidable = SumFunction([f \in Findings |-> CostOf(f.units)])
     /\ s.totals = [o \in Outcomes |-> Cardinality({a \in Aggregates : a.outcome = o})]
     /\ s.known = accounting.known /\ s.unknown = accounting.unknown
     /\ s.state = CostEvidenceState(accounting) /\ s.balanced = accounting.balanced
     /\ s.perAccepted = IF s.totals.accepted = 0 THEN None
                        ELSE Rounded(s.known, s.totals.accepted)
     /\ s.findingsCount = Cardinality(Findings) /\ s.avoidable = audit.avoidable
     /\ s.ratio = IF s.known = 0 THEN None ELSE PartsPerMillion(audit.avoidable, s.known)
<1> DEFINE wasted == SumFunction([f \in Findings |-> CostOf(f.units)])
           s == ComputeSummary(Aggregates, Findings, wasted)
           accounting == VerifyCostAccounting(Aggregates)
<1>1. LedgerAudit = [tasks |-> Aggregates, findings |-> Findings, avoidable |-> wasted,
                     summary |-> s]
  BY Zenon DEF LedgerAudit, Aggregates, Seen
<1>2. s = [totals |-> [o \in Outcomes |-> Cardinality({a \in Aggregates : a.outcome = o})],
           known |-> accounting.known, unknown |-> accounting.unknown,
           state |-> CostEvidenceState(accounting), balanced |-> accounting.balanced,
           perAccepted |->
             IF [o \in Outcomes |-> Cardinality({a \in Aggregates : a.outcome = o})].accepted = 0
             THEN None
             ELSE Rounded(accounting.known,
                          [o \in Outcomes |->
                             Cardinality({a \in Aggregates : a.outcome = o})].accepted),
           findingsCount |-> Cardinality(Findings), avoidable |-> wasted,
           ratio |-> IF accounting.known = 0 THEN None
                     ELSE PartsPerMillion(wasted, accounting.known)]
  BY Zenon DEF ComputeSummary
<1> DEFINE totals == [o \in Outcomes |-> Cardinality({a \in Aggregates : a.outcome = o})]
<1>3. s = [totals |-> totals,
           known |-> accounting.known, unknown |-> accounting.unknown,
           state |-> CostEvidenceState(accounting), balanced |-> accounting.balanced,
           perAccepted |-> IF totals.accepted = 0 THEN None
                           ELSE Rounded(accounting.known, totals.accepted),
           findingsCount |-> Cardinality(Findings), avoidable |-> wasted,
           ratio |-> IF accounting.known = 0 THEN None
                     ELSE PartsPerMillion(wasted, accounting.known)]
  BY <1>2, Zenon
<1> HIDE DEF s, totals, accounting, wasted
<1>4. /\ LedgerAudit.tasks = Aggregates /\ LedgerAudit.findings = Findings
      /\ LedgerAudit.avoidable = wasted /\ LedgerAudit.summary = s
  BY <1>1
<1>5. /\ s.totals = totals
      /\ s.known = accounting.known /\ s.unknown = accounting.unknown
      /\ s.state = CostEvidenceState(accounting) /\ s.balanced = accounting.balanced
      /\ s.perAccepted = IF s.totals.accepted = 0 THEN None
                         ELSE Rounded(s.known, s.totals.accepted)
      /\ s.findingsCount = Cardinality(Findings) /\ s.avoidable = wasted
      /\ s.ratio = IF s.known = 0 THEN None ELSE PartsPerMillion(wasted, s.known)
  BY <1>3
<1> QED  BY <1>4, <1>5, Zenon DEF wasted, totals, accounting

(* The CLI calls a total of zero unmeasured exactly when the core does.    *)
LEMMA StatesAgree ==
  ASSUME NEW accounting, accounting.known \in Nat, accounting.unknown \in Nat,
         accounting.total \in Nat, accounting.unknown <= accounting.total
  PROVE  (accounting.known = 0 /\ accounting.unknown > 0)
           <=> CostEvidenceState(accounting) = "unmeasured"
BY DEF CostEvidenceState

(* From sound books and findings that share nothing, the exported report adds up. *)
LEMMA BooksAddUp ==
  ASSUME SoundBooks, ChargedOnce
  PROVE  ReportAddsUp
<1> SUFFICES ASSUME Auditable, \E t \in Tasks : tasks[t].seen
             PROVE  LET audit == LedgerAudit
                        report == BuildReportFromCoreAudit(audit)
                        SumOf(column) == SumFunction([row \in report.rows |-> row[column]])
                    IN /\ Exportable(audit) /\ ValidateCoreAuditExport(audit)
                       /\ SumOf("measured") = report.measured
                       /\ SumOf("unavailable") = report.unavailable
                       /\ SumOf("waste") = report.avoidable
                       /\ \A row \in report.rows : row.waste <= row.measured
                       /\ report.noEvidence <=> audit.summary.state = "unmeasured"
  BY Zenon DEF ReportAddsUp
<1> DEFINE audit == LedgerAudit
           s == audit.summary
           report == BuildReportFromCoreAudit(audit)
           accounting == VerifyCostAccounting(Aggregates)
           wasted == SumFunction([f \in Findings |-> CostOf(f.units)])
           SumOf(column) == SumFunction([row \in report.rows |-> row[column]])
<1>1. /\ audit.tasks = Aggregates /\ audit.findings = Findings /\ audit.avoidable = wasted
      /\ s.totals = [o \in Outcomes |-> Cardinality({a \in Aggregates : a.outcome = o})]
      /\ s.known = accounting.known /\ s.unknown = accounting.unknown
      /\ s.state = CostEvidenceState(accounting) /\ s.balanced = accounting.balanced
      /\ s.perAccepted = IF s.totals.accepted = 0 THEN None
                         ELSE Rounded(s.known, s.totals.accepted)
      /\ s.findingsCount = Cardinality(Findings) /\ s.avoidable = audit.avoidable
      /\ s.ratio = IF s.known = 0 THEN None ELSE PartsPerMillion(audit.avoidable, s.known)
  BY AuditFields, Zenon
<1>2. /\ accounting.known = SumFunction(CostByTask) /\ accounting.known \in Nat
      /\ accounting.unknown = SumFunction(UnpricedByTask) /\ accounting.unknown \in Nat
      /\ accounting.total \in Nat /\ accounting.unknown <= accounting.total
      /\ accounting.balanced
  BY Accounting, Zenon
<1>3. wasted \in Nat /\ wasted = SumFunction(WasteByTask)
  <2>1. IsFiniteSet(Findings) /\ [f \in Findings |-> CostOf(f.units)] \in [Findings -> Nat]
    BY FindingsOfSeen
  <2>2. wasted \in Nat
    BY <2>1, SumType
  <2> QED  BY <2>2, WasteOverTasks DEF WasteByTask
<1>4. report = [rows |-> Rows, measured |-> s.known, unavailable |-> s.unknown,
                avoidable |-> wasted, noEvidence |-> s.known = 0 /\ s.unknown > 0]
  BY <1>1, Zenon DEF BuildReportFromCoreAudit, Rows
<1> HIDE DEF audit, report, accounting, wasted
<1>5. /\ report.rows = Rows /\ report.measured = s.known /\ report.unavailable = s.unknown
      /\ report.avoidable = wasted
      /\ report.noEvidence <=> s.known = 0 /\ s.unknown > 0
  BY <1>4
<1>6. Exportable(audit)
  BY <1>1, <1>2, Zenon DEF Exportable
<1>7. ValidateCoreAuditExport(audit)
  <2>1. audit.tasks # {}
    BY <1>1 DEF Aggregates, Seen
  <2>2. SumFunction(s.totals) = Cardinality(audit.tasks)
    BY <1>1, TotalsAddUp, Zenon
  <2>3. IF s.totals.accepted > 0 THEN s.perAccepted = Rounded(s.known, s.totals.accepted)
        ELSE s.perAccepted = None
    <3>1. s.totals.accepted \in Nat
      <4> DEFINE Ending(o) == Cardinality({a \in Aggregates : a.outcome = o})
      <4>1. "accepted" \in Outcomes /\ s.totals = [o \in Outcomes |-> Ending(o)]
        BY <1>1, Zenon DEF Outcomes
      <4>2. \A o \in Outcomes : Ending(o) \in Nat
        BY TotalsAddUp
      <4> HIDE DEF Ending
      <4> QED  BY <4>1, <4>2
    <3> QED  BY <1>1, <3>1
  <2>4. \A f \in audit.findings : f.units # {}
    BY <1>1, FindingsOfSeen
  <2>5. audit.avoidable = SumFunction([f \in audit.findings |-> CostOf(f.units)])
    BY <1>1, Zenon DEF wasted
  <2>6. s.known > 0 => s.ratio - PartsPerMillion(audit.avoidable, s.known) \in -1..1
    <3> SUFFICES ASSUME s.known > 0
                 PROVE  s.ratio - PartsPerMillion(audit.avoidable, s.known) \in -1..1
      OBVIOUS
    <3> DEFINE x == PartsPerMillion(wasted, s.known)
    <3>1. s.known \in Nat /\ s.known > 0 /\ wasted \in Nat
      BY <1>1, <1>2, <1>3
    <3>2. x \in Int
      <4> DEFINE n == 2 * (1000000 * wasted) + s.known
                 d == 2 * s.known
      <4>1. n \in Int /\ d \in Int /\ d > 0
        BY <3>1
      <4>2. x = n \div d
        BY DEF PartsPerMillion, Rounded
      <4> HIDE DEF n, d, x
      <4> QED  BY <4>1, <4>2
    <3>3. s.ratio = x /\ PartsPerMillion(audit.avoidable, s.known) = x
      BY <1>1, <3>1
    <3> HIDE DEF x
    <3> QED  BY <3>2, <3>3
  <2> QED  BY <1>1, <1>2, <2>1, <2>2, <2>3, <2>4, <2>5, <2>6, Zenon
          DEF ValidateCoreAuditExport
<1>8. /\ SumOf("measured") = report.measured /\ SumOf("unavailable") = report.unavailable
      /\ SumOf("waste") = report.avoidable
      /\ \A row \in report.rows : row.waste <= row.measured
  BY <1>1, <1>2, <1>3, <1>5, Columns, Zenon
<1>9. report.noEvidence <=> s.state = "unmeasured"
  BY <1>1, <1>2, <1>5, StatesAgree
<1> QED  BY <1>6, <1>7, <1>8, <1>9, Zenon DEF audit, report

(* The two sides of the export agree although each computes for itself.    *)
THEOREM ReportAgrees == Spec => []ReportAddsUp
<1>1. TypeOK /\ CompsFromLedger /\ CompsSeen /\ ChargedOnce => ReportAddsUp
  <2> SUFFICES ASSUME TypeOK, CompsFromLedger, CompsSeen, ChargedOnce PROVE ReportAddsUp
    OBVIOUS
  <2>1. CASE Auditable
    BY <2>1, BooksAreSound, BooksAddUp
  <2>2. CASE ~Auditable
    BY <2>2, Zenon DEF ReportAddsUp
  <2> QED  BY <2>1, <2>2
<1> QED  BY <1>1, TypeCorrect, CompsAlways, CompsSeenAlways, RefsChargedOnce, PTL

=============================================================================
