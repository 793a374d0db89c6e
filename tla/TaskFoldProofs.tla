--------------------------- MODULE TaskFoldProofs ---------------------------
(***************************************************************************)
(* What the fold of a ledger into build states does, operator by operator: *)
(* applyEvent keeps the types, touches each field in few cases             *)
(* (AppliedFields, AppliedComps, MovedExecution), and reconstructTasks     *)
(* tells of a task what the events of the ledger tell (ReconstructTells).  *)
(***************************************************************************)
EXTENDS TaskFold, FiniteSums

USE VocabularyAssumption

-----------------------------------------------------------------------------
(* applyEvent. *)

(* Announcing an execution keeps its type. *)
LEMMA EnsureType ==
  ASSUME NEW e \in ExecutionState, NEW n \in Nat
  PROVE  Ensure(e, n) \in ExecutionState
BY DEF Ensure, ExecutionState

(* A start or finish of an execution keeps the type of the task state. *)
LEMMA ExecutionType ==
  ASSUME NEW t \in TaskState, NEW ev \in Event, NEW n \in Nat, ev.exec \in Executions
  PROVE  /\ StartExecution(t, ev, n) \in TaskState
         /\ ev.status \in ExecutionStatuses => FinishExecution(t, ev, n) \in TaskState
<1> DEFINE e == Ensure(t.execs[ev.exec], n)
<1>1. t.execs \in [Executions -> ExecutionState]
  BY DEF TaskState
<1>2. e \in ExecutionState
  BY <1>1, EnsureType
<1>3. [e EXCEPT !.explicit = TRUE, !.startedSeq = n] \in ExecutionState
  BY <1>2 DEF ExecutionState
<1>4. ev.by \in Optional(Executions)
  BY DEF Event
<1>5. ASSUME ev.status \in ExecutionStatuses
      PROVE  [e EXCEPT !.status = ev.status,
                       !.by = IF ev.status = "superseded" THEN ev.by ELSE @] \in ExecutionState
  BY <1>2, <1>4, <1>5 DEF ExecutionState
<1>6. ASSUME NEW x \in ExecutionState
      PROVE  [t EXCEPT !.execs[ev.exec] = x] \in TaskState
  BY <1>1 DEF TaskState
<1> HIDE DEF e
<1>7. StartExecution(t, ev, n) = [t EXCEPT !.execs[ev.exec] = [e EXCEPT !.explicit = TRUE, !.startedSeq = n]]
  BY <1>1 DEF StartExecution, e, TaskState
<1>8. FinishExecution(t, ev, n) =
        [t EXCEPT !.execs[ev.exec] = [e EXCEPT !.status = ev.status,
                       !.by = IF ev.status = "superseded" THEN ev.by ELSE @]]
  BY <1>1 DEF FinishExecution, e, TaskState
<1> QED
  BY <1>3, <1>5, <1>6, <1>7, <1>8

(* Applying an event a ledger stores keeps the type of the task state. *)
LEMMA ApplyType ==
  ASSUME NEW t0 \in TaskState, NEW ev \in Event, NEW n \in Nat, Conforms(ev)
  PROVE  ApplyEvent(t0, ev, n) \in TaskState
<1> DEFINE t == [t0 EXCEPT !.seen = TRUE]
<1>1. t \in TaskState
  BY DEF TaskState
<1> HIDE DEF t
<1>2. CASE ev.type = "execution_started"
  <2>1. ev.exec \in Executions
    BY <1>2 DEF Conforms, Event, Optional
  <2> QED  BY <1>1, <1>2, <2>1, ExecutionType DEF ApplyEvent, t, IsComponent, ComponentTypes
<1>3. CASE ev.type = "execution_finished"
  <2>1. ev.exec \in Executions /\ ev.status \in ExecutionStatuses
    BY <1>3 DEF Conforms, Event, Optional
  <2> QED  BY <1>1, <1>3, <2>1, ExecutionType DEF ApplyEvent, t, IsComponent, ComponentTypes
<1>4. CASE IsComponent(ev)
  <2>1. RegisterComponent(t, ev, n) \in TaskState
    <3>1. [t EXCEPT !.duplicateRef = TRUE] \in TaskState
      BY <1>1 DEF TaskState
    <3>2. [seq |-> n, ev |-> ev] \in Component
      BY DEF Component
    <3>3. [t EXCEPT !.comps = @ \cup {[seq |-> n, ev |-> ev]}] \in TaskState
      BY <1>1, <3>2 DEF TaskState
    <3> QED  BY <3>1, <3>3 DEF RegisterComponent
  <2>2. ApplyEvent(t0, ev, n) = RegisterComponent(t, ev, n)
    BY <1>4 DEF ApplyEvent, t, IsComponent, ComponentTypes
  <2> QED  BY <2>1, <2>2
<1>5. CASE ev.type \in {"pull_request_created", "pull_request_closed", "pull_request_merged",
                        "revert_detected"}
  <2>1. ev.ref \in Refs
    BY <1>5 DEF Conforms, Event, Optional
  <2>2. PullRequestSignal(t, ev) \in TaskState /\ [t EXCEPT !.reverts = @ \cup {ev.ref}] \in TaskState
    BY <1>1, <2>1 DEF PullRequestSignal, TaskState
  <2> QED  BY <1>5, <2>2 DEF ApplyEvent, t, IsComponent, ComponentTypes
<1>6. CASE ev.type \in {"retry_recorded", "human_rework_recorded", "task_failed",
                        "task_aborted", "task_started"}
  <2>1. /\ [t EXCEPT !.retries = @ + 1] \in TaskState
        /\ [t EXCEPT !.reworks = @ + 1] \in TaskState
        /\ [t EXCEPT !.failed = TRUE] \in TaskState
        /\ [t EXCEPT !.abortedSeq = n] \in TaskState
    <3>1. t.retries + 1 \in Nat /\ t.reworks + 1 \in Nat
      BY <1>1 DEF TaskState
    <3>2. /\ [t EXCEPT !.retries = @ + 1] \in TaskState
          /\ [t EXCEPT !.reworks = @ + 1] \in TaskState
      BY <1>1, <3>1 DEF TaskState
    <3>3. [t EXCEPT !.failed = TRUE] \in TaskState
      BY <1>1 DEF TaskState
    <3>4. [t EXCEPT !.abortedSeq = n] \in TaskState
      BY <1>1 DEF TaskState
    <3> QED  BY <3>2, <3>3, <3>4
  <2> QED  BY <1>1, <1>6, <2>1 DEF ApplyEvent, t, IsComponent, ComponentTypes
<1>7. ev.type \in EventTypes
  BY DEF Event
<1> QED
  BY <1>2, <1>3, <1>4, <1>5, <1>6, <1>7 DEF EventTypes, IsComponent

(* How an event changes the fields that outcomes are resolved from. *)
Applied(t0, ev, n, t) ==
  /\ t.merged = IF ev.type = "pull_request_merged" THEN t0.merged \cup {ev.ref} ELSE t0.merged
  /\ t.closed = IF ev.type = "pull_request_closed" THEN t0.closed \cup {ev.ref} ELSE t0.closed
  /\ t.reverts = IF ev.type = "revert_detected" THEN t0.reverts \cup {ev.ref} ELSE t0.reverts
  /\ t.failed <=> t0.failed \/ ev.type = "task_failed"
  /\ t.abortedSeq = IF ev.type = "task_aborted" THEN n ELSE t0.abortedSeq
  /\ ev.type \notin {"execution_started", "execution_finished"} => t.execs = t0.execs

(* What one event writes of a task: each field is touched only by the events that own it. *)
LEMMA AppliedFields ==
  ASSUME NEW t0 \in TaskState, NEW ev \in Event, NEW n \in Nat
  PROVE  Applied(t0, ev, n, ApplyEvent(t0, ev, n))
<1> USE DEF Applied
<1>1. CASE ev.type \in {"execution_started", "execution_finished"}
  BY <1>1 DEF ApplyEvent, StartExecution, FinishExecution, IsComponent, ComponentTypes, TaskState
<1>2. CASE IsComponent(ev)
  BY <1>2 DEF ApplyEvent, RegisterComponent, IsComponent, ComponentTypes, TaskState
<1>3. CASE ev.type \in {"pull_request_created", "pull_request_closed", "pull_request_merged"}
  BY <1>3 DEF ApplyEvent, PullRequestSignal, IsComponent, ComponentTypes, TaskState
<1>4. CASE ev.type \in {"revert_detected", "retry_recorded", "human_rework_recorded",
                        "task_failed", "task_aborted", "task_started"}
  BY <1>4 DEF ApplyEvent, IsComponent, ComponentTypes, TaskState
<1>5. ev.type \in EventTypes
  BY DEF Event
<1> QED
  BY <1>1, <1>2, <1>3, <1>4, <1>5 DEF EventTypes, IsComponent

(* How an event changes the record x0 of execution e. *)
Moved(x0, ev, n, e, x) ==
  /\ ev.type = "execution_started" /\ ev.exec = e =>
       x.explicit /\ x.announced /\ x.startedSeq = n /\ x.status = x0.status /\ x.by = x0.by
  /\ ev.type = "execution_finished" /\ ev.exec = e =>
       /\ x.explicit <=> x0.explicit
       /\ x.announced
       /\ x0.announced => x.startedSeq = x0.startedSeq
       /\ x.status = ev.status
       /\ ev.status = "superseded" => x.by = ev.by
  /\ ~(ev.type \in {"execution_started", "execution_finished"} /\ ev.exec = e) => x = x0

(* What one event does to one execution of its task. *)
LEMMA MovedExecution ==
  ASSUME NEW t0 \in TaskState, NEW ev \in Event, Conforms(ev), NEW n \in Nat, NEW e \in Executions
  PROVE  Moved(t0.execs[e], ev, n, e, ApplyEvent(t0, ev, n).execs[e])
<1> DEFINE t == [t0 EXCEPT !.seen = TRUE]
           y == t0.execs[ev.exec]
           z == Ensure(y, n)
<1>1. /\ t.execs = t0.execs /\ t \in TaskState
      /\ t0.execs \in [Executions -> ExecutionState]
  BY DEF TaskState
<1>2. ev.type \in {"execution_started", "execution_finished"} => ev.exec \in Executions
  BY DEF Conforms, Event, Optional
<1>3. ev.exec \in Executions =>
        /\ z \in ExecutionState /\ z.announced /\ z.status = y.status
        /\ z.explicit = y.explicit /\ z.by = y.by
        /\ y.announced => z.startedSeq = y.startedSeq
  BY <1>1 DEF Ensure, ExecutionState
<1>4. CASE ev.type = "execution_started"
  <2>1. ApplyEvent(t0, ev, n) = StartExecution(t, ev, n)
    BY <1>4 DEF ApplyEvent, IsComponent, ComponentTypes
  <2> DEFINE w == [z EXCEPT !.explicit = TRUE, !.startedSeq = n]
  <2>2. StartExecution(t, ev, n).execs = [t0.execs EXCEPT ![ev.exec] = w]
    BY <1>1, <1>2, <1>4 DEF StartExecution, TaskState
  <2>3. /\ w.explicit /\ w.startedSeq = n /\ w.announced = z.announced /\ w.status = z.status
        /\ w.by = z.by
    <3> HIDE DEF z
    <3> QED  BY <1>2, <1>3, <1>4 DEF ExecutionState
  <2> HIDE DEF w, z, y
  <2>4. CASE ev.exec = e
    <3>1. ApplyEvent(t0, ev, n).execs[e] = w
      BY <1>1, <2>1, <2>2, <2>4
    <3>2. y = t0.execs[e]
      BY <2>4 DEF y
    <3>3. /\ w.explicit /\ w.startedSeq = n /\ w.announced /\ w.status = t0.execs[e].status
          /\ w.by = t0.execs[e].by
      BY <1>2, <1>3, <1>4, <2>3, <3>2
    <3> HIDE DEF t
    <3> QED  BY <1>4, <2>4, <3>1, <3>3 DEF Moved
  <2>5. CASE ev.exec # e
    BY <1>1, <1>4, <2>1, <2>2, <2>5 DEF Moved
  <2> QED  BY <2>4, <2>5
<1>5. CASE ev.type = "execution_finished"
  <2> DEFINE w == [z EXCEPT !.status = ev.status,
                            !.by = IF ev.status = "superseded" THEN ev.by ELSE @]
  <2>1. ApplyEvent(t0, ev, n) = FinishExecution(t, ev, n)
    BY <1>5 DEF ApplyEvent, IsComponent, ComponentTypes
  <2>2. FinishExecution(t, ev, n).execs = [t0.execs EXCEPT ![ev.exec] = w]
    BY <1>1, <1>2, <1>5 DEF FinishExecution, TaskState
  <2>3. /\ w.explicit = z.explicit /\ w.startedSeq = z.startedSeq
        /\ w.announced = z.announced /\ w.status = ev.status
        /\ ev.status = "superseded" => w.by = ev.by
    <3> HIDE DEF z
    <3> QED  BY <1>2, <1>3, <1>5 DEF ExecutionState
  <2> HIDE DEF w, z, y
  <2> QED  BY <1>1, <1>2, <1>3, <1>5, <2>1, <2>2, <2>3 DEF Moved, y
<1>6. CASE ev.type \notin {"execution_started", "execution_finished"}
  BY <1>6, AppliedFields DEF Moved, Applied
<1> QED  BY <1>4, <1>5, <1>6

(* registerComponent files a component unless its ref is taken. *)
LEMMA AppliedComps ==
  ASSUME NEW t0 \in TaskState, NEW ev \in Event, NEW n \in Nat
  PROVE  ApplyEvent(t0, ev, n).comps =
           IF IsComponent(ev) /\ ~\E c \in t0.comps : c.ev.ref = ev.ref
           THEN t0.comps \cup {[seq |-> n, ev |-> ev]} ELSE t0.comps
<1>1. CASE ev.type \in {"execution_started", "execution_finished"}
  BY <1>1 DEF ApplyEvent, StartExecution, FinishExecution, IsComponent, ComponentTypes, TaskState
<1>2. CASE IsComponent(ev)
  BY <1>2 DEF ApplyEvent, RegisterComponent, IsComponent, ComponentTypes, TaskState
<1>3. CASE ev.type \in {"pull_request_created", "pull_request_closed", "pull_request_merged"}
  BY <1>3 DEF ApplyEvent, PullRequestSignal, IsComponent, ComponentTypes, TaskState
<1>4. CASE ev.type \in {"revert_detected", "retry_recorded", "human_rework_recorded",
                        "task_failed", "task_aborted", "task_started"}
  BY <1>4 DEF ApplyEvent, IsComponent, ComponentTypes, TaskState
<1>5. ev.type \in EventTypes
  BY DEF Event
<1> QED
  BY <1>1, <1>2, <1>3, <1>4, <1>5 DEF EventTypes, IsComponent

(* registerComponent makes the task bad when a ref is used again. *)
LEMMA AppliedDuplicate ==
  ASSUME NEW t0 \in TaskState, NEW ev \in Event, NEW n \in Nat
  PROVE  ApplyEvent(t0, ev, n).duplicateRef =
           IF IsComponent(ev) /\ (\E c \in t0.comps : c.ev.ref = ev.ref)
           THEN TRUE ELSE t0.duplicateRef
<1>1. CASE ev.type \in {"execution_started", "execution_finished"}
  BY <1>1 DEF ApplyEvent, StartExecution, FinishExecution, IsComponent, ComponentTypes, TaskState
<1>2. CASE IsComponent(ev)
  BY <1>2 DEF ApplyEvent, RegisterComponent, IsComponent, ComponentTypes, TaskState
<1>3. CASE ev.type \in {"pull_request_created", "pull_request_closed", "pull_request_merged"}
  BY <1>3 DEF ApplyEvent, PullRequestSignal, IsComponent, ComponentTypes, TaskState
<1>4. CASE ev.type \in {"revert_detected", "retry_recorded", "human_rework_recorded",
                        "task_failed", "task_aborted", "task_started"}
  BY <1>4 DEF ApplyEvent, IsComponent, ComponentTypes, TaskState
<1>5. ev.type \in EventTypes
  BY DEF Event
<1> QED
  BY <1>1, <1>2, <1>3, <1>4, <1>5 DEF EventTypes, IsComponent

-----------------------------------------------------------------------------
(* Components and their cost. *)

(* A component of the ledger as the build state files it. *)
Filed(evs, i) == [seq |-> i, ev |-> evs[i]]

(* The price of a component is a natural. *)
LEMMA PriceType ==
  ASSUME NEW comps \in SUBSET Component
  PROVE  [c \in comps |-> Price(c)] \in [comps -> Nat]
<1> SUFFICES ASSUME NEW c \in comps PROVE Price(c) \in Nat
  OBVIOUS
<1>1. c.ev.cost \in Nat \cup {None}
  BY DEF Component, Event, Optional
<1> QED  BY <1>1 DEF Price

(* What the components of a task add up to does not depend on how they are *)
(* filed: each is attached to one announced execution, or to the task.     *)
LEMMA SumOfFiled ==
  ASSUME NEW t \in TaskState, IsFiniteSet(t.comps), NEW w \in [t.comps -> Nat]
  PROVE  /\ \A e \in Executions : SumFunction(Part(w, Attached(t, e))) \in Nat
         /\ SumFunction(Part(w, Unassigned(t))) \in Nat
         /\ SumFunction(w) =
              SumFunction([e \in Executions |-> SumFunction(Part(w, Attached(t, e)))])
                + SumFunction(Part(w, Unassigned(t)))
<1> DEFINE S == t.comps
           U == Unassigned(t)
           A == S \ U
           v == Part(w, A)
           key == [c \in A |-> c.ev.exec]
           Group(e) == {c \in A : key[c] = e}
<1>1. U \in SUBSET S /\ A \in SUBSET S
  BY DEF Unassigned
<1>2. SumFunction(w) = SumFunction(Part(w, U)) + SumFunction(v)
  <2> HIDE DEF U
  <2> QED  BY <1>1, SumSplit
<1>3. v \in [A -> Nat] /\ IsFiniteSet(A)
  <2>1. IsFiniteSet(A)
    BY <1>1, FS_Subset
  <2> HIDE DEF U
  <2> QED  BY <1>1, <2>1 DEF Part
<1>4. key \in [A -> Executions]
  <2> SUFFICES ASSUME NEW c \in A PROVE c.ev.exec \in Executions
    OBVIOUS
  <2>1. c.ev.exec \in Executions \cup {None} /\ c.ev.exec # None
    BY DEF TaskState, Component, Event, Optional, Unassigned
  <2> QED  BY <2>1
<1>5. /\ [e \in Executions |-> SumFunction(Part(v, Group(e)))] \in [Executions -> Nat]
      /\ SumFunction(v) = SumFunction([e \in Executions |-> SumFunction(Part(v, Group(e)))])
  <2> HIDE DEF A, v, key
  <2> QED  BY <1>3, <1>4, SumGrouped
<1>6. ASSUME NEW e \in Executions
      PROVE  Part(v, Group(e)) = Part(w, Attached(t, e))
  <2>1. Group(e) = Attached(t, e)
    BY DEF Attached, Unassigned
  <2>2. \A c \in Group(e) : v[c] = w[c]
    BY DEF Part
  <2> HIDE DEF v, Group
  <2> QED  BY <2>1, <2>2 DEF Part
<1>7. [e \in Executions |-> SumFunction(Part(v, Group(e)))]
        = [e \in Executions |-> SumFunction(Part(w, Attached(t, e)))]
  BY <1>6, Zenon
<1>8. SumFunction(w) \in Nat /\ SumFunction(v) \in Nat /\ SumFunction(Part(w, U)) \in Nat
  <2>1. SumFunction(v) \in Nat
    <3> HIDE DEF v, A
    <3> QED  BY <1>3, SumType
  <2>2. SumFunction(w) \in Nat /\ SumFunction(Part(w, U)) \in Nat
    <3> HIDE DEF U
    <3> QED  BY <1>1, SumType, SumsOfParts
  <2> QED  BY <2>1, <2>2
<1> HIDE DEF v, Group
<1>9. \A e \in Executions : SumFunction(Part(w, Attached(t, e))) \in Nat
  BY <1>5, <1>7
<1>10. SumFunction(v) = SumFunction([e \in Executions |-> SumFunction(Part(w, Attached(t, e)))])
  BY <1>5, <1>7
<1> QED  BY <1>2, <1>8, <1>9, <1>10

(* So what a task costs is what its components cost. *)
LEMMA KnownCostOfAll ==
  ASSUME NEW t \in TaskState, IsFiniteSet(t.comps)
  PROVE  KnownCost(t) = CostOf(t.comps) /\ CostOf(t.comps) \in Nat
<1> DEFINE w == [c \in t.comps |-> Price(c)]
<1>1. w \in [t.comps -> Nat]
  BY PriceType DEF TaskState
<1>2. ASSUME NEW s \in SUBSET t.comps PROVE CostOf(s) = SumFunction(Part(w, s))
  <2>1. Part(w, s) = [c \in s |-> Price(c)]
    BY DEF Part
  <2> QED  BY <2>1 DEF CostOf
<1>3. Unassigned(t) \in SUBSET t.comps /\ \A e \in Executions : Attached(t, e) \in SUBSET t.comps
  BY DEF Unassigned, Attached
<1>4. CostOf(t.comps) = SumFunction(w)
  BY DEF CostOf
<1> HIDE DEF w
<1>5. [e \in Executions |-> CostOf(Attached(t, e))]
        = [e \in Executions |-> SumFunction(Part(w, Attached(t, e)))]
  BY <1>2, <1>3
<1>6. CostOf(Unassigned(t)) = SumFunction(Part(w, Unassigned(t)))
  BY <1>2, <1>3
<1>7. SumFunction(w) \in Nat
  BY <1>1, SumType
<1>8. SumFunction(w) =
        SumFunction([e \in Executions |-> SumFunction(Part(w, Attached(t, e)))])
          + SumFunction(Part(w, Unassigned(t)))
  BY <1>1, SumOfFiled
<1> QED  BY <1>4, <1>5, <1>6, <1>7, <1>8 DEF KnownCost

-----------------------------------------------------------------------------
(* reconstructTasks. *)

(* The events about task t, of one of some types, among the first n of a   *)
(* ledger.                                                                 *)
Upto(l, n, t, types) == {i \in 1..n : l[i].task = t /\ l[i].type \in types}

(* What the first n events of a ledger tell of task t, x its build state:  *)
(* nothing that the order of the events could change but for the places of *)
(* the components.                                                         *)
Told(l, n, t, x) ==
  /\ x \in TaskState
  /\ x.merged = {l[i].ref : i \in Upto(l, n, t, {"pull_request_merged"})}
  /\ x.closed = {l[i].ref : i \in Upto(l, n, t, {"pull_request_closed"})}
  /\ x.reverts = {l[i].ref : i \in Upto(l, n, t, {"revert_detected"})}
  /\ x.failed <=> Upto(l, n, t, {"task_failed"}) # {}
  /\ x.abortedSeq > 0 <=> Upto(l, n, t, {"task_aborted"}) # {}
  /\ \A ref : (\E c \in x.comps : c.ev.ref = ref)
                <=> (\E i \in Upto(l, n, t, ComponentTypes) : l[i].ref = ref)
  /\ x.duplicateRef <=> \E i, j \in Upto(l, n, t, ComponentTypes) : i # j /\ l[i].ref = l[j].ref
  /\ ~x.duplicateRef => x.comps = {Filed(l, i) : i \in Upto(l, n, t, ComponentTypes)}

(* One more event adds its position to those of its kind. *)
LEMMA UptoStep ==
  ASSUME NEW l, NEW n \in Nat, NEW t
  PROVE  \A types :
           /\ n + 1 \notin Upto(l, n, t, types)
           /\ \A i : i \in Upto(l, n + 1, t, types) <=>
                \/ i \in Upto(l, n, t, types)
                \/ i = n + 1 /\ l[n + 1].task = t /\ l[n + 1].type \in types
<1>1. 1..(n + 1) = 1..n \cup {n + 1} /\ n + 1 \notin 1..n
  OBVIOUS
<1> QED  BY <1>1 DEF Upto

(* The next event tells its own task what it is about, and no other task.  *)
LEMMA ToldStep ==
  ASSUME NEW l, NEW n \in Nat, NEW t \in Tasks, NEW x, Told(l, n, t, x),
         l[n + 1] \in Event, Conforms(l[n + 1])
  PROVE  Told(l, n + 1, t, IF l[n + 1].task = t THEN ApplyEvent(x, l[n + 1], n + 1) ELSE x)
<1>0. \A types :
        /\ n + 1 \notin Upto(l, n, t, types)
        /\ \A i : i \in Upto(l, n + 1, t, types) <=>
             \/ i \in Upto(l, n, t, types)
             \/ i = n + 1 /\ l[n + 1].task = t /\ l[n + 1].type \in types
  BY UptoStep, Zenon
<1> DEFINE ev == l[n + 1]
           m == n + 1
           y == ApplyEvent(x, ev, m)
           O == Upto(l, n, t, ComponentTypes)
           N == Upto(l, m, t, ComponentTypes)
<1>1. CASE ev.task # t
  <2>1. ASSUME NEW types PROVE Upto(l, m, t, types) = Upto(l, n, t, types)
    BY <1>0, <1>1
  <2> QED  BY <1>1, <2>1 DEF Told
<1>2. CASE ev.task = t
  <2>1. m \in Nat /\ m > 0 /\ x \in TaskState /\ ev \in Event
    BY DEF Told
  <2>2. ASSUME NEW types
        PROVE  Upto(l, m, t, types) = IF ev.type \in types THEN Upto(l, n, t, types) \cup {m}
                                      ELSE Upto(l, n, t, types)
    <3>1. CASE ev.type \in types
      <4>1. \A i : i \in Upto(l, m, t, types) <=> i \in Upto(l, n, t, types) \/ i = m
        BY <1>0, <1>2, <3>1
      <4> HIDE DEF m
      <4> QED  BY <3>1, <4>1
    <3>2. CASE ev.type \notin types
      <4>1. \A i : i \in Upto(l, m, t, types) <=> i \in Upto(l, n, t, types)
        BY <1>0, <1>2, <3>2
      <4> HIDE DEF m
      <4> QED  BY <3>2, <4>1
    <3> QED  BY <3>1, <3>2
  <2>3. y \in TaskState
    <3> HIDE DEF m
    <3> QED  BY <2>1, ApplyType
  <2>4. Applied(x, ev, m, y)
    <3> HIDE DEF m
    <3> QED  BY <2>1, AppliedFields
  <2>5. y.comps = IF IsComponent(ev) /\ ~\E c \in x.comps : c.ev.ref = ev.ref
                  THEN x.comps \cup {[seq |-> m, ev |-> ev]} ELSE x.comps
    <3> HIDE DEF m
    <3> QED  BY <2>1, AppliedComps, Zenon
  <2>6. y.duplicateRef = IF IsComponent(ev) /\ (\E c \in x.comps : c.ev.ref = ev.ref)
                         THEN TRUE ELSE x.duplicateRef
    <3> HIDE DEF m
    <3> QED  BY <2>1, AppliedDuplicate, Zenon
  <2>7. Filed(l, m) = [seq |-> m, ev |-> ev] /\ Filed(l, m).ev.ref = ev.ref
    BY DEF Filed
  <2>8. N = IF IsComponent(ev) THEN O \cup {m} ELSE O
    BY <2>2 DEF IsComponent
  <2>9. m \notin O
    BY <1>0
  <2>10. /\ \A ref : (\E c \in x.comps : c.ev.ref = ref) <=> (\E i \in O : l[i].ref = ref)
         /\ x.duplicateRef <=> \E i, j \in O : i # j /\ l[i].ref = l[j].ref
         /\ ~x.duplicateRef => x.comps = {Filed(l, i) : i \in O}
    BY DEF Told
  <2>11. x.duplicateRef \in BOOLEAN
    BY <2>1 DEF TaskState
  <2> HIDE DEF m, y, O, N, ev
  <2>12. \A ref : (\E c \in y.comps : c.ev.ref = ref) <=> (\E i \in N : l[i].ref = ref)
    <3>1. l[m] = ev
      BY DEF m, ev
    <3> QED  BY <2>5, <2>7, <2>8, <2>10, <3>1
  <2>13. y.duplicateRef <=> \E i, j \in N : i # j /\ l[i].ref = l[j].ref
    <3>1. l[m] = ev
      BY DEF m, ev
    <3>2. CASE ~IsComponent(ev)
      BY <2>6, <2>8, <2>10, <3>2
    <3>3. CASE IsComponent(ev)
      <4>1. N = O \cup {m} /\ y.duplicateRef = IF \E c \in x.comps : c.ev.ref = ev.ref THEN TRUE
                                               ELSE x.duplicateRef
        BY <2>6, <2>8, <3>3
      <4>2. (\E i, j \in N : i # j /\ l[i].ref = l[j].ref)
              <=> (\E i, j \in O : i # j /\ l[i].ref = l[j].ref) \/ \E i \in O : l[i].ref = ev.ref
        BY <2>9, <3>1, <4>1
      <4> QED  BY <2>10, <2>11, <4>1, <4>2
    <3> QED  BY <3>2, <3>3
  <2>14. ~y.duplicateRef => y.comps = {Filed(l, i) : i \in N}
    <3> SUFFICES ASSUME ~y.duplicateRef PROVE y.comps = {Filed(l, i) : i \in N}
      OBVIOUS
    <3>1. ~x.duplicateRef /\ (IsComponent(ev) => ~\E c \in x.comps : c.ev.ref = ev.ref)
      BY <2>6
    <3>2. x.comps = {Filed(l, i) : i \in O}
      BY <2>10, <3>1
    <3> QED  BY <2>5, <2>7, <2>8, <3>1, <3>2
  <2>15. /\ y.merged = {l[i].ref : i \in Upto(l, m, t, {"pull_request_merged"})}
         /\ y.closed = {l[i].ref : i \in Upto(l, m, t, {"pull_request_closed"})}
         /\ y.reverts = {l[i].ref : i \in Upto(l, m, t, {"revert_detected"})}
    <3>1. l[m] = ev
      BY DEF m, ev
    <3> QED  BY <2>2, <2>4, <3>1 DEF Told, Applied
  <2>16. /\ y.failed <=> Upto(l, m, t, {"task_failed"}) # {}
         /\ y.abortedSeq > 0 <=> Upto(l, m, t, {"task_aborted"}) # {}
    <3>1. /\ x.failed <=> Upto(l, n, t, {"task_failed"}) # {}
          /\ x.abortedSeq > 0 <=> Upto(l, n, t, {"task_aborted"}) # {}
      BY DEF Told
    <3>2. /\ y.failed <=> x.failed \/ ev.type = "task_failed"
          /\ y.abortedSeq = IF ev.type = "task_aborted" THEN m ELSE x.abortedSeq
      BY <2>4 DEF Applied
    <3>3. y.failed <=> Upto(l, m, t, {"task_failed"}) # {}
      BY <2>2, <3>1, <3>2
    <3>4. y.abortedSeq > 0 <=> Upto(l, m, t, {"task_aborted"}) # {}
      BY <2>1, <2>2, <3>1, <3>2
    <3> QED  BY <3>3, <3>4
  <2> QED  BY <1>2, <2>3, <2>12, <2>13, <2>14, <2>15, <2>16 DEF Told, O, N, m, y, ev
<1> QED  BY <1>1, <1>2

(* The events of task t of one type among the first n that name execution e. *)
Naming(l, n, t, e, type) == {i \in 1..n : l[i].task = t /\ l[i].type = type /\ l[i].exec = e}

Newest(i, S) == i \in S /\ \A j \in S : j <= i

(* What the first n events of a ledger tell of execution e of task t, x    *)
(* its record: the last start decides its place, the last finish its       *)
(* status and, if it is superseded, by which.                              *)
Narrated(l, n, t, e, x) ==
  /\ x.explicit <=> Naming(l, n, t, e, "execution_started") # {}
  /\ x.announced <=> \/ Naming(l, n, t, e, "execution_started") # {}
                     \/ Naming(l, n, t, e, "execution_finished") # {}
  /\ \A i : Newest(i, Naming(l, n, t, e, "execution_started")) => x.startedSeq = i
  /\ Naming(l, n, t, e, "execution_finished") = {} => x.status = "running"
  /\ \A i : Newest(i, Naming(l, n, t, e, "execution_finished")) =>
       x.status = l[i].status /\ (l[i].status = "superseded" => x.by = l[i].by)

(* One more event is the last of its kind. *)
LEMMA NamingStep ==
  ASSUME NEW l, NEW n \in Nat, NEW t, NEW e, NEW type
  PROVE  LET O == Naming(l, n, t, e, type)
             N == Naming(l, n + 1, t, e, type)
             v == l[n + 1]
         IN /\ v.task = t /\ v.type = type /\ v.exec = e =>
                 N # {} /\ \A i : Newest(i, N) => i = n + 1
            /\ ~(v.task = t /\ v.type = type /\ v.exec = e) => N = O
<1> DEFINE O == Naming(l, n, t, e, type)
           N == Naming(l, n + 1, t, e, type)
           v == l[n + 1]
           m == n + 1
<1>1. \A i : i \in 1..m <=> i \in 1..n \/ i = m
  OBVIOUS
<1>2. m \in Nat /\ \A i \in 1..m : m <= i => i = m
  OBVIOUS
<1> HIDE DEF m
<1>3. \A i : i \in Naming(l, m, t, e, type) <=>
             \/ i \in O
             \/ i = m /\ l[m].task = t /\ l[m].type = type /\ l[m].exec = e
  BY <1>1 DEF Naming
<1>4. Naming(l, m, t, e, type) \subseteq 1..m
  BY DEF Naming
<1>5. ASSUME l[m].task = t, l[m].type = type, l[m].exec = e
      PROVE  /\ Naming(l, m, t, e, type) # {}
             /\ \A i : Newest(i, Naming(l, m, t, e, type)) => i = m
  BY <1>2, <1>3, <1>4, <1>5 DEF Newest
<1>6. ASSUME ~(l[m].task = t /\ l[m].type = type /\ l[m].exec = e)
      PROVE  Naming(l, m, t, e, type) = O
  BY <1>3, <1>6
<1> QED  BY <1>5, <1>6, Zenon DEF m

(* The next event is told of the execution it names, and of no other.      *)
LEMMA NarratedStep ==
  ASSUME NEW l, NEW n \in Nat, NEW t, NEW e \in Executions,
         NEW x \in TaskState, Narrated(l, n, t, e, x.execs[e]),
         l[n + 1] \in Event, Conforms(l[n + 1])
  PROVE  Narrated(l, n + 1, t, e, (IF l[n + 1].task = t THEN ApplyEvent(x, l[n + 1], n + 1) ELSE x).execs[e])
<1> DEFINE v == l[n + 1]
           m == n + 1
           x0 == x.execs[e]
           y == ApplyEvent(x, v, m).execs[e]
           S == Naming(l, n, t, e, "execution_started")
           F == Naming(l, n, t, e, "execution_finished")
           S1 == Naming(l, m, t, e, "execution_started")
           F1 == Naming(l, m, t, e, "execution_finished")
<1>1. /\ v.task = t /\ v.type = "execution_started" /\ v.exec = e => S1 # {} /\ \A i : Newest(i, S1) => i = m
      /\ ~(v.task = t /\ v.type = "execution_started" /\ v.exec = e) => S1 = S
  BY NamingStep, Zenon
<1>2. /\ v.task = t /\ v.type = "execution_finished" /\ v.exec = e => F1 # {} /\ \A i : Newest(i, F1) => i = m
      /\ ~(v.task = t /\ v.type = "execution_finished" /\ v.exec = e) => F1 = F
  BY NamingStep, Zenon
<1>3. Moved(x0, v, m, e, y)
  <2>1. m \in Nat
    OBVIOUS
  <2>2. v \in Event /\ Conforms(v)
    OBVIOUS
  <2> HIDE DEF m, v
  <2> QED  BY <2>1, <2>2, MovedExecution
<1>4. /\ x0.explicit <=> S # {}
      /\ x0.announced <=> S # {} \/ F # {}
      /\ \A i : Newest(i, S) => x0.startedSeq = i
      /\ F = {} => x0.status = "running"
      /\ \A i : Newest(i, F) => x0.status = l[i].status /\ (l[i].status = "superseded" => x0.by = l[i].by)
  BY DEF Narrated
<1>5. ASSUME NEW z, z.explicit <=> S1 # {}, z.announced <=> S1 # {} \/ F1 # {},
             \A i : Newest(i, S1) => z.startedSeq = i, F1 = {} => z.status = "running",
             \A i : Newest(i, F1) => z.status = l[i].status /\ (l[i].status = "superseded" => z.by = l[i].by)
      PROVE  Narrated(l, m, t, e, z)
  BY <1>5 DEF Narrated
<1>6. l[m] = v
  OBVIOUS
<1>7. v.task = t => (IF v.task = t THEN ApplyEvent(x, v, m) ELSE x).execs[e] = y
  OBVIOUS
<1>8. v.task # t => (IF v.task = t THEN ApplyEvent(x, v, m) ELSE x).execs[e] = x0
  OBVIOUS
<1>9. Narrated(l, m, t, e, (IF v.task = t THEN ApplyEvent(x, v, m) ELSE x).execs[e])
  <2> HIDE DEF v, m, x0, y, S, F, S1, F1
  <2>1. CASE v.task = t /\ v.type = "execution_started" /\ v.exec = e
    <3>1. S1 # {} /\ (\A i : Newest(i, S1) => i = m) /\ F1 = F
      BY <1>1, <1>2, <2>1
    <3>2. y.explicit /\ y.announced /\ y.startedSeq = m /\ y.status = x0.status /\ y.by = x0.by
      BY <1>3, <2>1 DEF Moved
    <3>3. Narrated(l, m, t, e, y)
      <4>1. \A i : Newest(i, S1) => y.startedSeq = i
        BY <3>1, <3>2
      <4>2. F1 = {} => y.status = "running"
        BY <1>4, <3>1, <3>2
      <4>3. \A i : Newest(i, F1) => y.status = l[i].status /\ (l[i].status = "superseded" => y.by = l[i].by)
        BY <1>4, <3>1, <3>2
      <4> QED  BY <1>5, <3>1, <3>2, <4>1, <4>2, <4>3
    <3> QED  BY <1>7, <2>1, <3>3
  <2>2. CASE v.task = t /\ v.type = "execution_finished" /\ v.exec = e
    <3>1. F1 # {} /\ (\A i : Newest(i, F1) => i = m) /\ S1 = S
      BY <1>1, <1>2, <2>2
    <3>2. /\ y.explicit <=> x0.explicit
          /\ y.announced /\ y.status = v.status /\ (v.status = "superseded" => y.by = v.by)
          /\ x0.announced => y.startedSeq = x0.startedSeq
      BY <1>3, <2>2 DEF Moved
    <3>3. Narrated(l, m, t, e, y)
      <4>1. \A i : Newest(i, S1) => y.startedSeq = i
        <5>1. \A i : Newest(i, S) => S # {}
          BY DEF Newest
        <5> QED  BY <1>4, <3>1, <3>2, <5>1
      <4>2. \A i : Newest(i, F1) => y.status = l[i].status /\ (l[i].status = "superseded" => y.by = l[i].by)
        BY <1>6, <3>1, <3>2
      <4>3. y.explicit <=> S1 # {}
        BY <1>4, <3>1, <3>2
      <4> QED  BY <1>5, <3>1, <3>2, <4>1, <4>2, <4>3
    <3> QED  BY <1>7, <2>2, <3>3
  <2>3. CASE ~(v.task = t /\ v.type \in {"execution_started", "execution_finished"} /\ v.exec = e)
    <3>1. S1 = S /\ F1 = F
      BY <1>1, <1>2, <2>3
    <3>2. v.task = t => y = x0
      BY <1>3, <2>3 DEF Moved
    <3>3. Narrated(l, m, t, e, x0)
      BY <1>4, <1>5, <3>1
    <3> QED  BY <1>7, <1>8, <3>2, <3>3
  <2> QED  BY <2>1, <2>2, <2>3
<1> QED  BY <1>9

(* The recursion of Reconstruct: b[i] is what the first i events give. *)
IsBuilt(b, l, n) ==
  b = [i \in 0..n |->
         IF i = 0 THEN [t \in Tasks |-> EmptyTask]
         ELSE [b[i - 1] EXCEPT ![l[i].task] = ApplyEvent(@, l[i], i)]]

(* It has a solution, up to any event. *)
LEMMA BuiltExists ==
  ASSUME NEW l, NEW n \in Nat
  PROVE  \E b : IsBuilt(b, l, n)
<1> DEFINE good == {m \in Nat : \E b : IsBuilt(b, l, m)}
           Advance(g, i) == [g EXCEPT ![l[i].task] = ApplyEvent(@, l[i], i)]
           First == [t \in Tasks |-> EmptyTask]
<1>1. 0 \in good
  <2>1. IsBuilt([i \in 0..0 |-> First], l, 0)
    BY DEF IsBuilt
  <2> QED  BY <2>1
<1>2. ASSUME NEW m \in Nat, m \in good PROVE m + 1 \in good
  <2>1. PICK g : IsBuilt(g, l, m)
    BY <1>2
  <2> DEFINE h == [i \in 0..(m + 1) |-> IF i = m + 1 THEN Advance(g[m], m + 1) ELSE g[i]]
             T == [i \in 0..(m + 1) |-> IF i = 0 THEN First ELSE Advance(h[i - 1], i)]
  <2>2. \A i \in 0..m : g[i] = IF i = 0 THEN First ELSE Advance(g[i - 1], i)
    BY <2>1, Zenon DEF IsBuilt
  <2>3. ASSUME NEW i \in 0..(m + 1) PROVE h[i] = T[i]
    <3> HIDE DEF Advance, First
    <3>1. CASE i = m + 1
      BY <3>1
    <3>2. CASE i # m + 1 /\ i = 0
      BY <2>2, <3>2
    <3>3. CASE i # m + 1 /\ i # 0
      <4>1. i \in 0..m /\ i - 1 \in 0..(m + 1) /\ i - 1 # m + 1
        BY <3>3
      <4>2. h[i] = g[i] /\ h[i - 1] = g[i - 1]
        BY <4>1, <3>3
      <4>3. g[i] = Advance(g[i - 1], i)
        BY <2>2, <3>3, <4>1
      <4> QED  BY <3>3, <4>2, <4>3, Zenon
    <3> QED  BY <3>1, <3>2, <3>3
  <2>4. h = T
    <3> HIDE DEF Advance, First
    <3> QED  BY <2>3, Zenon
  <2>5. IsBuilt(h, l, m + 1)
    BY <2>4, Zenon DEF IsBuilt
  <2> HIDE DEF h, T
  <2> QED  BY <2>5
<1>3. Nat \subseteq good
  <2> HIDE DEF good
  <2> QED  BY <1>1, <1>2, NumberInduction
<1> QED  BY <1>3

(* What a whole ledger tells of a task is what Reconstruct makes of it. *)
LEMMA ReconstructTells ==
  ASSUME NEW l \in Seq(Event), \A i \in DOMAIN l : Conforms(l[i]), NEW t \in Tasks
  PROVE  /\ Told(l, Len(l), t, Reconstruct(l)[t])
         /\ \A e \in Executions : Narrated(l, Len(l), t, e, Reconstruct(l)[t].execs[e])
<1> DEFINE b == CHOOSE c : IsBuilt(c, l, Len(l))
           good == {n \in Nat : n <= Len(l) =>
                      /\ b[n] \in [Tasks -> TaskState]
                      /\ Told(l, n, t, b[n][t])
                      /\ \A e \in Executions : Narrated(l, n, t, e, b[n][t].execs[e])}
<1>1. IsBuilt(b, l, Len(l))
  <2>1. Len(l) \in Nat
    OBVIOUS
  <2> QED  BY <2>1, BuiltExists, Zenon
<1>2. Reconstruct(l) = b[Len(l)]
  BY Zenon DEF Reconstruct, IsBuilt
<1> HIDE DEF b
<1>3. \A i \in 0..Len(l) :
        b[i] = IF i = 0 THEN [u \in Tasks |-> EmptyTask]
               ELSE [b[i - 1] EXCEPT ![l[i].task] = ApplyEvent(@, l[i], i)]
  BY <1>1, Zenon DEF IsBuilt
<1>4. 0 \in good
  <2>0. 0 \in 0..Len(l)
    OBVIOUS
  <2>1. b[0] = [u \in Tasks |-> EmptyTask]
    BY <1>3, <2>0, Zenon
  <2>2. EmptyTask \in TaskState
    BY DEF EmptyTask, TaskState, NoExecution, ExecutionState, Optional
  <2>3. \A types : Upto(l, 0, t, types) = {}
    BY DEF Upto
  <2>4. Told(l, 0, t, EmptyTask)
    BY <2>2, <2>3 DEF Told, EmptyTask
  <2>5. ASSUME NEW e \in Executions PROVE Narrated(l, 0, t, e, EmptyTask.execs[e])
    <3>1. \A type : Naming(l, 0, t, e, type) = {}
      BY DEF Naming
    <3>2. EmptyTask.execs[e] = NoExecution
      BY DEF EmptyTask
    <3> QED  BY <3>1, <3>2 DEF Narrated, NoExecution, Newest
  <2> QED  BY <2>1, <2>2, <2>4, <2>5
<1>5. ASSUME NEW n \in Nat, n \in good PROVE n + 1 \in good
  <2> SUFFICES ASSUME n + 1 <= Len(l)
               PROVE  /\ b[n + 1] \in [Tasks -> TaskState] /\ Told(l, n + 1, t, b[n + 1][t])
                      /\ \A e \in Executions : Narrated(l, n + 1, t, e, b[n + 1][t].execs[e])
    OBVIOUS
  <2>1. /\ b[n] \in [Tasks -> TaskState] /\ Told(l, n, t, b[n][t])
        /\ \A e \in Executions : Narrated(l, n, t, e, b[n][t].execs[e])
    BY <1>5
  <2>2. /\ l[n + 1] \in Event /\ Conforms(l[n + 1]) /\ l[n + 1].task \in Tasks
        /\ n + 1 \in 0..Len(l) /\ n + 1 # 0 /\ (n + 1) - 1 = n
    <3>1. n + 1 \in DOMAIN l /\ n + 1 \in 0..Len(l) /\ n + 1 # 0 /\ (n + 1) - 1 = n
      OBVIOUS
    <3>2. l[n + 1] \in Event
      BY <3>1
    <3> QED  BY <3>1, <3>2 DEF Event
  <2>3. b[n + 1] = [b[n] EXCEPT ![l[n + 1].task] = ApplyEvent(@, l[n + 1], n + 1)]
    <3> DEFINE k == n + 1
    <3>1. k \in 0..Len(l) /\ k # 0 /\ k - 1 = n
      BY <2>2
    <3> HIDE DEF k
    <3>2. b[k] = [b[k - 1] EXCEPT ![l[k].task] = ApplyEvent(@, l[k], k)]
      BY <1>3, <3>1, Zenon
    <3>3. b[k] = [b[n] EXCEPT ![l[k].task] = ApplyEvent(@, l[k], k)]
      BY <3>1, <3>2, Zenon
    <3> QED  BY <3>3, Zenon DEF k
  <2>4. ApplyEvent(b[n][l[n + 1].task], l[n + 1], n + 1) \in TaskState
    <3> DEFINE z == b[n][l[n + 1].task]
               k == n + 1
    <3>1. z \in TaskState /\ k \in Nat
      <4>1. b[n] \in [Tasks -> TaskState] /\ l[n + 1].task \in Tasks
        BY <2>1, <2>2
      <4>2. z \in TaskState
        BY <4>1
      <4>3. k \in Nat
        OBVIOUS
      <4> QED  BY <4>2, <4>3
    <3> HIDE DEF z, k
    <3>2. l[k] \in Event /\ Conforms(l[k])
      BY <2>2 DEF k
    <3>3. ApplyEvent(z, l[k], k) \in TaskState
      BY <3>1, <3>2, ApplyType
    <3> QED  BY <3>3 DEF z, k
  <2>5. b[n + 1] \in [Tasks -> TaskState]
    BY <2>1, <2>3, <2>4
  <2>6. b[n + 1][t] = IF l[n + 1].task = t THEN ApplyEvent(b[n][t], l[n + 1], n + 1) ELSE b[n][t]
    BY <2>1, <2>3
  <2>7. Told(l, n + 1, t, IF l[n + 1].task = t THEN ApplyEvent(b[n][t], l[n + 1], n + 1) ELSE b[n][t])
    BY <2>1, <2>2, ToldStep, Zenon
  <2>8. ASSUME NEW e \in Executions PROVE Narrated(l, n + 1, t, e, b[n + 1][t].execs[e])
    <3>1. b[n][t] \in TaskState
      BY <2>1
    <3>2. Narrated(l, n + 1, t, e,
            (IF l[n + 1].task = t THEN ApplyEvent(b[n][t], l[n + 1], n + 1) ELSE b[n][t]).execs[e])
      BY <2>1, <2>2, <3>1, NarratedStep, Zenon
    <3> QED  BY <2>6, <3>2
  <2> QED  BY <2>5, <2>6, <2>7, <2>8
<1>6. Nat \subseteq good
  <2> HIDE DEF good
  <2> QED  BY <1>4, <1>5, NumberInduction
<1>7. Len(l) \in good
  BY <1>6
<1> QED  BY <1>2, <1>7

-----------------------------------------------------------------------------
(* Ledgers that hold the same events in another order. *)

(* p exchanges places of ledgers l and m of n events that hold the same.   *)
Rearranges(p, l, m, n) ==
  /\ p \in [1..n -> 1..n]
  /\ \A i \in 1..n : p[p[i]] = i /\ m[p[i]] = l[i] /\ l[p[i]] = m[i]

SameOfKind(p, l, m, L, M) ==
  /\ \A i \in L : p[i] \in M /\ m[p[i]] = l[i] /\ p[p[i]] = i
  /\ \A i \in M : p[i] \in L /\ l[p[i]] = m[i] /\ p[p[i]] = i

(* Ledgers that hold the same events hold the same of each kind. *)
LEMMA SameKinds ==
  ASSUME NEW n \in Nat, NEW l, NEW m, NEW p, Rearranges(p, l, m, n), NEW t, NEW types
  PROVE  SameOfKind(p, l, m, Upto(l, n, t, types), Upto(m, n, t, types))
<1>1. \A i \in Upto(l, n, t, types) :
        p[i] \in Upto(m, n, t, types) /\ m[p[i]] = l[i] /\ p[p[i]] = i
  BY DEF Upto, Rearranges
<1>2. \A i \in Upto(m, n, t, types) :
        p[i] \in Upto(l, n, t, types) /\ l[p[i]] = m[i] /\ p[p[i]] = i
  BY DEF Upto, Rearranges
<1> QED  BY <1>1, <1>2 DEF SameOfKind

(* The components filed from them cost the same. *)
LEMMA SameCosts ==
  ASSUME NEW n \in Nat, NEW l, NEW m, NEW p, Rearranges(p, l, m, n), NEW t \in Tasks,
         NEW x, Told(l, n, t, x), ~x.duplicateRef, NEW y, Told(m, n, t, y), ~y.duplicateRef
  PROVE  KnownCost(x) = KnownCost(y)
<1> DEFINE L == Upto(l, n, t, ComponentTypes)
           M == Upto(m, n, t, ComponentTypes)
           S == x.comps
           T == y.comps
           w == [c \in S |-> Price(c)]
           v == [c \in T |-> Price(c)]
           f == [c \in S |-> Filed(m, p[c.seq])]
<1>1. /\ x \in TaskState /\ y \in TaskState
      /\ S = {Filed(l, i) : i \in L} /\ T = {Filed(m, i) : i \in M}
  BY DEF Told
<1>2. S \in SUBSET Component /\ T \in SUBSET Component
  BY <1>1 DEF TaskState
<1>3. /\ \A i \in L : p[i] \in M /\ m[p[i]] = l[i] /\ p[p[i]] = i
      /\ \A i \in M : p[i] \in L /\ l[p[i]] = m[i] /\ p[p[i]] = i
  <2>1. SameOfKind(p, l, m, L, M)
    BY SameKinds
  <2> QED  BY <2>1, Zenon DEF SameOfKind
<1>4. IsFiniteSet(S) /\ IsFiniteSet(T)
  <2>1. IsFiniteSet(1..n)
    BY FS_Interval
  <2>2. L \in SUBSET (1..n) /\ M \in SUBSET (1..n)
    BY DEF Upto
  <2>3. IsFiniteSet(L) /\ IsFiniteSet(M)
    <3> HIDE DEF L, M
    <3> QED  BY <2>1, <2>2, FS_Subset
  <2> DEFINE g == [i \in L |-> Filed(l, i)]
             h == [i \in M |-> Filed(m, i)]
  <2>4. S = {g[i] : i \in L} /\ T = {h[i] : i \in M} /\ DOMAIN g = L /\ DOMAIN h = M
    BY <1>1
  <2>5. IsFiniteSet({g[i] : i \in L}) /\ IsFiniteSet({h[i] : i \in M})
    <3> HIDE DEF L, M, g, h
    <3> QED  BY <2>3, <2>4, FiniteImage
  <2> HIDE DEF S, T, L, M, g, h
  <2> QED  BY <2>4, <2>5
<1>5. w \in [S -> Nat] /\ v \in [T -> Nat]
  BY <1>2, PriceType
<1>6. \A i : /\ Filed(l, i).seq = i /\ Filed(l, i).ev = l[i]
             /\ Filed(m, i).seq = i /\ Filed(m, i).ev = m[i]
  BY DEF Filed
<1>7. ASSUME NEW c \in S
      PROVE  /\ c.seq \in L /\ c = Filed(l, c.seq)
             /\ f[c] = Filed(m, p[c.seq]) /\ f[c] \in T /\ Price(f[c]) = Price(c)
  <2>1. PICK i \in L : c = Filed(l, i)
    BY <1>1
  <2>2. c.seq = i /\ f[c] = Filed(m, p[i])
    BY <1>6, <2>1
  <2>3. p[i] \in M /\ m[p[i]] = l[i]
    BY <1>3
  <2>4. f[c] \in T /\ f[c].ev = c.ev
    BY <1>1, <1>6, <2>1, <2>2, <2>3
  <2> HIDE DEF f, L, M, S, T
  <2> QED  BY <2>1, <2>2, <2>4 DEF Price
<1>8. Renames(f, S, w, T, v)
  <2>1. f \in [S -> T]
    BY <1>7
  <2>2. ASSUME NEW c \in S, NEW d \in S, f[c] = f[d] PROVE c = d
    <3>1. p[c.seq] = p[d.seq]
      BY <1>6, <1>7, <2>2
    <3>2. p[p[c.seq]] = c.seq /\ p[p[d.seq]] = d.seq
      BY <1>3, <1>7
    <3>3. c.seq = d.seq
      BY <3>1, <3>2
    <3>4. c = Filed(l, c.seq) /\ d = Filed(l, d.seq)
      BY <1>7
    <3> QED  BY <3>3, <3>4, Zenon
  <2>3. ASSUME NEW d \in T PROVE \E c \in S : f[c] = d
    <3>1. PICK i \in M : d = Filed(m, i)
      BY <1>1
    <3>2. p[i] \in L /\ p[p[i]] = i
      BY <1>3
    <3>3. Filed(l, p[i]) \in S
      BY <1>1, <3>2
    <3>4. f[Filed(l, p[i])] = Filed(m, p[p[i]])
      BY <1>6, <3>3
    <3> QED  BY <3>1, <3>2, <3>3, <3>4
  <2>4. \A c \in S : v[f[c]] = w[c]
    BY <1>7
  <2> HIDE DEF f, S, T, w, v
  <2> QED  BY <1>5, <2>1, <2>2, <2>3, <2>4 DEF Renames
<1>9. SumFunction(w) = SumFunction(v)
  <2> HIDE DEF f, S, T, w, v
  <2> QED  BY <1>4, <1>8, SumReindexed, Zenon
<1>10. KnownCost(x) = SumFunction(w) /\ KnownCost(y) = SumFunction(v)
  BY <1>1, <1>4, KnownCostOfAll DEF CostOf
<1> HIDE DEF w, v
<1> QED  BY <1>9, <1>10

SameFacts(x, y) ==
  /\ Outcome(y) = Outcome(x) /\ Reverted(y) = Reverted(x)
  /\ ~y.duplicateRef => KnownCost(y) = KnownCost(x)

(* They tell of a task the same outcome, reversal and cost. *)
LEMMA SameTold ==
  ASSUME NEW n \in Nat, NEW l, NEW m, NEW p, Rearranges(p, l, m, n), NEW t \in Tasks,
         NEW x, Told(l, n, t, x), NEW y, Told(m, n, t, y)
  PROVE  SameFacts(x, y)
<1>1. ASSUME NEW types
      PROVE  /\ {l[i].ref : i \in Upto(l, n, t, types)} = {m[i].ref : i \in Upto(m, n, t, types)}
             /\ Upto(l, n, t, types) # {} <=> Upto(m, n, t, types) # {}
  <2> DEFINE L == Upto(l, n, t, types)
             M == Upto(m, n, t, types)
  <2>1. /\ \A i \in L : p[i] \in M /\ m[p[i]] = l[i] /\ p[p[i]] = i
        /\ \A i \in M : p[i] \in L /\ l[p[i]] = m[i] /\ p[p[i]] = i
    <3>1. SameOfKind(p, l, m, L, M)
      BY SameKinds
    <3> QED  BY <3>1, Zenon DEF SameOfKind
  <2> HIDE DEF L, M
  <2>2. {l[i].ref : i \in L} = {m[i].ref : i \in M}
    BY <2>1
  <2>3. L # {} <=> M # {}
    BY <2>1
  <2> QED  BY <2>2, <2>3 DEF L, M
<1>2. x.merged = y.merged /\ x.closed = y.closed /\ x.reverts = y.reverts
  BY <1>1 DEF Told
<1>3. /\ x.failed <=> y.failed
      /\ x.abortedSeq > 0 <=> y.abortedSeq > 0
  BY <1>1 DEF Told
<1>4. Outcome(y) = Outcome(x)
  BY <1>2, <1>3 DEF Outcome
<1>5. Reverted(y) = Reverted(x)
  BY <1>2, <1>4 DEF Reverted
<1>6. x.duplicateRef <=> y.duplicateRef
  <2> DEFINE L == Upto(l, n, t, ComponentTypes)
             M == Upto(m, n, t, ComponentTypes)
  <2>1. /\ \A i \in L : p[i] \in M /\ m[p[i]] = l[i] /\ p[p[i]] = i
        /\ \A i \in M : p[i] \in L /\ l[p[i]] = m[i] /\ p[p[i]] = i
    <3>1. SameOfKind(p, l, m, L, M)
      BY SameKinds
    <3> QED  BY <3>1, Zenon DEF SameOfKind
  <2>2. /\ x.duplicateRef <=> \E i, j \in L : i # j /\ l[i].ref = l[j].ref
        /\ y.duplicateRef <=> \E i, j \in M : i # j /\ m[i].ref = m[j].ref
    BY DEF Told
  <2> HIDE DEF L, M
  <2>3. (\E i, j \in L : i # j /\ l[i].ref = l[j].ref) => \E i, j \in M : i # j /\ m[i].ref = m[j].ref
    BY <2>1
  <2>4. (\E i, j \in M : i # j /\ m[i].ref = m[j].ref) => \E i, j \in L : i # j /\ l[i].ref = l[j].ref
    BY <2>1
  <2> QED  BY <2>2, <2>3, <2>4
<1>7. ~y.duplicateRef => KnownCost(y) = KnownCost(x)
  <2> SUFFICES ASSUME ~y.duplicateRef PROVE KnownCost(y) = KnownCost(x)
    OBVIOUS
  <2>1. ~x.duplicateRef
    BY <1>6
  <2>2. KnownCost(x) = KnownCost(y)
    BY <2>1, SameCosts
  <2> QED  BY <2>2
<1> QED  BY <1>4, <1>5, <1>7 DEF SameFacts

=============================================================================
