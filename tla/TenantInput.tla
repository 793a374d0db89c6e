----------------------------- MODULE TenantInput -----------------------------
(***************************************************************************)
(* A tenant's normalized input as its adapter exports it again and again,  *)
(* each time with more of what is known: tasks and executions appear,      *)
(* links, failures and outcomes are filled in.  buildNormalizedBundle of   *)
(* apps/cli lets only valid bundles out; the audit of NormalizedAudit is   *)
(* taken of each.                                                          *)
(***************************************************************************)
EXTENDS NormalizedAudit

CONSTANTS
  Times,       \* times of starts and aborts
  Components,  \* what the executions of a record cost, in turn
  Scopes       \* bounds: the record ids there may be, executions and exports

ASSUME InputAssumption ==
  /\ Times \subseteq Nat
  /\ Scopes \subseteq [tasks : SUBSET Nat, executions : 1..Len(Components), exports : Nat]

VARIABLES
  scope,    \* the bounds that apply
  records,  \* the records of the bundle
  exports   \* how often it was exported

vars == <<scope, records, exports>>

Init == scope \in Scopes /\ records = <<>> /\ exports = 0

(* buildNormalizedBundle: an invalid bundle is refused. *)
Export(bundle) ==
  /\ ValidateNormalizedBundle(bundle)
  /\ records' = bundle
  /\ exports < scope.exports /\ exports' = exports + 1
  /\ UNCHANGED scope

(* An execution as it is first seen.  All attempts do the same work. *)
NewExecution(id, start) ==
  [id |-> id, start |-> start, components |-> Components[id],
   total |-> RepresentableSum([components |-> Components[id]]),
   retryOf |-> Nil, by |-> Nil, failure |-> Nil, signature |-> "same"]

AddRecord(t, start) ==
  /\ Len(records) < Cardinality(scope.tasks)
  /\ Export(Append(records, [task |-> t, status |-> "unresolved", aborted |-> Nil,
                             execs |-> <<NewExecution(1, start)>>]))

AddExecution(k, start) ==
  /\ Len(records[k].execs) < scope.executions
  /\ Export([records EXCEPT ![k].execs =
                Append(@, NewExecution(Len(@) + 1, start))])

LinkRetry(k, i, id) ==
  /\ records[k].execs[i].retryOf = Nil
  /\ Export([records EXCEPT ![k].execs[i].retryOf = id])

Supersede(k, i, id) ==
  /\ records[k].execs[i].by = Nil
  /\ Export([records EXCEPT ![k].execs[i].by = id])

RecordFailure(k, i, category) ==
  /\ records[k].execs[i].failure = Nil
  /\ Export([records EXCEPT ![k].execs[i].failure = category])

(* An outcome may be corrected later: an aborted task is taken up again.   *)
Resolve(k, status, time) ==
  /\ records[k].status # status
  /\ Export([records EXCEPT ![k].status = status,
                            ![k].aborted = IF status = "aborted" THEN time ELSE @])

Next ==
  \/ \E t \in scope.tasks, start \in Times : AddRecord(t, start)
  \/ \E k \in DOMAIN records :
       \/ \E start \in Times : AddExecution(k, start)
       \/ \E status \in {"accepted", "aborted"}, time \in Times : Resolve(k, status, time)
       \/ \E i \in DOMAIN records[k].execs :
            \/ \E id \in Ids(records[k]) : LinkRetry(k, i, id) \/ Supersede(k, i, id)
            \/ \E category \in {"deterministic", "transient"} : RecordFailure(k, i, category)

Spec == Init /\ [][Next]_vars

-----------------------------------------------------------------------------
(* Every record has a task id of its own: what nothing in the validator    *)
(* asks for, and claims, rows and findings rely on.                        *)
TasksUnique == \A j, k \in DOMAIN records : records[j].task = records[k].task => j = k

(* The report is consistent: no row is charged more than its task cost,    *)
(* the rows charge together what the headline calls avoidable, and where   *)
(* nothing is estimated that is a share of the measured cost.  It holds if *)
(* task ids are unique; otherwise the row of each record has the findings  *)
(* of all of them.                                                         *)
RowsAddUp ==
  TasksUnique =>
    LET head == Headline(records)
        rows == TaskLedger(records)
    IN /\ \A k \in DOMAIN rows : rows[k].waste <= rows[k].measured + rows[k].estimated
       /\ SumFunction([k \in DOMAIN rows |-> rows[k].waste]) = head.avoidable
       /\ head.estimated = 0 => head.avoidable <= head.measured

(* What the audit of a bundle charges. *)
Charged(rs) == {<<f.task, f.exec>> : f \in DetectCertainWaste(rs)}

(* The executions of record k that the audit charges, by one rule or all.  *)
ChargedIn(k, rules) ==
  {e \in Range(records[k].execs) :
     \E f \in DetectCertainWaste(records) :
       f.task = records[k].task /\ f.exec = e.id /\ f.rule \in rules}

(* Some executions retry one another in a circle. *)
Circular(execs) ==
  \E S \in (SUBSET execs) \ {{}} : \A e \in S : \E d \in S : e.retryOf = d.id

(* The header of waste.js: a finding is emitted only when the customer's   *)
(* own evidence proves that the spend could not contribute.  Some work of  *)
(* a task survives the rules, unless it was aborted, its retries form a    *)
(* circle, or the attempt that a charged retry repeats was itself charged  *)
(* as superseded: by two rules that each rely on the other's execution.    *)
SomeWorkSurvives ==
  TasksUnique =>
    \A k \in DOMAIN records :
      LET superseded == ChargedIn(k, {"superseded"})
          retries == ChargedIn(k, {"identical_retry"})
      IN \/ records[k].status = "aborted"
         \/ Circular(Range(records[k].execs))
         \/ \E e \in retries : \E d \in superseded : e.retryOf = d.id
         \/ superseded \cup retries # Range(records[k].execs)

(* The report does not depend on the order in which an adapter lists       *)
(* records and executions.                                                 *)
OrderIndependent ==
  TasksUnique =>
    DetectCertainWaste(records) =
      DetectCertainWaste(Reverse([k \in DOMAIN records |->
                                    [records[k] EXCEPT !.execs = Reverse(@)]]))

(* The version notes of waste.js: a retry whose own failure mode disagrees *)
(* with the deterministic one disproves that identical inputs fail alike,  *)
(* and "the group abstains instead of charging".  No retry is charged of   *)
(* an attempt that another identical retry failed differently from.        *)
GroupAbstains ==
  TasksUnique =>
    \A k \in DOMAIN records :
      \A e \in ChargedIn(k, {"identical_retry"}), d \in Range(records[k].execs) :
        d.retryOf = e.retryOf /\ d.signature = e.signature
          => d.failure \in {"deterministic", Nil}

(* A charge reported once stands while evidence is only added, also when   *)
(* that evidence is of a retry that failed otherwise: it is withdrawn only *)
(* from a task that turns out not to have been aborted.                    *)
ChargesStand ==
  [][\A charge \in Charged(records) \ Charged(records') :
       \E k \in DOMAIN records :
         /\ records[k].task = charge[1]
         /\ records[k].status = "aborted" /\ records'[k].status # "aborted"]_vars
=============================================================================
