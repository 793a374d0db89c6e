-------------------------- MODULE TenantInputProofs --------------------------
(***************************************************************************)
(* What is proved of the audit of a normalized bundle, for every bundle a  *)
(* tenant can export: the rows of its report add up to the headline, some  *)
(* work of a task survives the rules, the order of listing does not        *)
(* matter, and a charge stands while evidence is only added.               *)
(*                                                                         *)
(* The four rest on what detectCertainWaste computes (Detected): sorting   *)
(* permutes the records (SortingPermutes), and the rules, applied to one   *)
(* record after another, charge each proposed execution once, by the first *)
(* rule that proposes it (RecordFindings).                                 *)
(***************************************************************************)
EXTENDS TenantInput, FiniteSums

Rules == {"superseded", "identical_retry", "after_abort"}

(* The shape of what a tenant exports. *)
Costs == {Components[n] : n \in Nat}
Totals == {RepresentableSum([components |-> Components[n]]) : n \in Nat}

Execution ==
  [id : Nat, start : Nat, components : Costs, total : Totals,
   retryOf : Nat \cup {Nil}, by : Nat \cup {Nil},
   failure : FailureCategories \cup {Nil}, signature : {"same"}]

Record ==
  [task : Nat, status : OutcomeStatuses, aborted : Nat \cup {Nil}, execs : Seq(Execution)]

(* A bundle is of that shape, and the validator let it out. *)
IsBundle(rs) == rs \in Seq(Record) /\ \A k \in DOMAIN rs : ValidRecord(rs[k])

BundleInv == scope \in Scopes /\ IsBundle(records)

(* Only valid bundles are exported. *)
LEMMA BundleAlways == Spec => []BundleInv
<1>1. Init => BundleInv
  BY DEF Init, BundleInv, IsBundle
<1>2. BundleInv /\ [Next]_vars => BundleInv'
  <2> SUFFICES ASSUME BundleInv, [Next]_vars PROVE BundleInv'
    OBVIOUS
  <2>1. scope \in Scopes /\ records \in Seq(Record)
    BY DEF BundleInv, IsBundle
  <2>2. /\ scope.tasks \in SUBSET Nat
        /\ Times \in SUBSET Nat
    BY <2>1, InputAssumption
  <2>3. ASSUME NEW bundle \in Seq(Record), Export(bundle) PROVE BundleInv'
    <3>1. records' = bundle /\ scope' = scope /\ \A k \in DOMAIN bundle : ValidRecord(bundle[k])
      BY <2>3 DEF Export, ValidateNormalizedBundle
    <3> QED  BY <2>1, <3>1 DEF BundleInv, IsBundle
  <2>4. ASSUME NEW n \in Nat, NEW start \in Times PROVE NewExecution(n, start) \in Execution
    <3> DEFINE c == Components[n]
               t == RepresentableSum([components |-> c])
    <3>1. c \in Costs /\ t \in Totals
      BY Zenon DEF Costs, Totals
    <3>2. NewExecution(n, start) =
            [id |-> n, start |-> start, components |-> c, total |-> t, retryOf |-> Nil,
             by |-> Nil, failure |-> Nil, signature |-> "same"]
      BY Zenon DEF NewExecution
    <3> HIDE DEF c, t
    <3> QED  BY <2>2, <3>1, <3>2 DEF Execution
  <2>5. ASSUME NEW k \in DOMAIN records
        PROVE  /\ records[k] \in Record /\ records[k].execs \in Seq(Execution)
               /\ \A r \in Record : [records EXCEPT ![k] = r] \in Seq(Record)
    <3>1. records[k] \in Record
      BY <2>1
    <3>2. records[k].execs \in Seq(Execution)
      BY <3>1 DEF Record
    <3>3. \A r \in Record : [records EXCEPT ![k] = r] \in Seq(Record)
      BY <2>1
    <3> QED  BY <3>1, <3>2, <3>3
  <2>6. ASSUME NEW t \in scope.tasks, NEW start \in Times, AddRecord(t, start) PROVE BundleInv'
    <3> DEFINE r == [task |-> t, status |-> "unresolved", aborted |-> Nil,
                     execs |-> <<NewExecution(1, start)>>]
    <3>1. <<NewExecution(1, start)>> \in Seq(Execution)
      BY <2>4
    <3>2. r \in Record
      BY <2>2, <3>1 DEF Record, OutcomeStatuses
    <3> HIDE DEF r
    <3>3. Append(records, r) \in Seq(Record)
      BY <2>1, <3>2
    <3> USE DEF r
    <3> QED  BY <2>3, <2>6, <3>3 DEF AddRecord
  <2>7. ASSUME NEW k \in DOMAIN records, NEW start \in Times, AddExecution(k, start)
        PROVE  BundleInv'
    <3> DEFINE e == NewExecution(Len(records[k].execs) + 1, start)
               es == Append(records[k].execs, e)
    <3>1. es \in Seq(Execution)
      <4>1. Len(records[k].execs) + 1 \in Nat
        BY <2>5
      <4>2. e \in Execution
        BY <2>4, <4>1
      <4> HIDE DEF e
      <4> QED  BY <2>5, <4>2
    <3>2. [records EXCEPT ![k].execs = Append(@, NewExecution(Len(@) + 1, start))]
            = [records EXCEPT ![k] = [records[k] EXCEPT !.execs = es]]
      BY <2>5, <2>1, Zenon
    <3> HIDE DEF es
    <3>3. [records[k] EXCEPT !.execs = es] \in Record
      BY <2>5, <3>1 DEF Record
    <3> QED  BY <2>3, <2>5, <2>7, <3>2, <3>3 DEF AddExecution
  <2>8. ASSUME NEW k \in DOMAIN records, NEW i \in DOMAIN records[k].execs, NEW e \in Execution
        PROVE  [records EXCEPT ![k] = [records[k] EXCEPT !.execs[i] = e]] \in Seq(Record)
    <3>1. [records[k].execs EXCEPT ![i] = e] \in Seq(Execution)
      BY <2>5
    <3>2. [records[k] EXCEPT !.execs[i] = e] \in Record
      BY <2>5, <3>1 DEF Record
    <3> QED  BY <2>5, <3>2
  <2>9. ASSUME NEW k \in DOMAIN records, NEW i \in DOMAIN records[k].execs
        PROVE  records[k].execs[i] \in Execution
    BY <2>5
  <2>10. ASSUME NEW k \in DOMAIN records, NEW i \in DOMAIN records[k].execs
         PROVE  Ids(records[k]) \in SUBSET Nat
    <3>1. \A j \in DOMAIN records[k].execs : records[k].execs[j] \in Execution
      BY <2>5
    <3>2. \A e \in Execution : e.id \in Nat
      BY DEF Execution
    <3> QED  BY <3>1, <3>2 DEF Ids
  <2>11. ASSUME NEW k \in DOMAIN records, NEW i \in DOMAIN records[k].execs,
                NEW n \in Ids(records[k]), LinkRetry(k, i, n)
         PROVE  BundleInv'
    <3>1. [records[k].execs[i] EXCEPT !.retryOf = n] \in Execution
      BY <2>9, <2>10 DEF Execution
    <3>2. [records EXCEPT ![k].execs[i].retryOf = n]
            = [records EXCEPT ![k] = [records[k] EXCEPT
                 !.execs[i] = [records[k].execs[i] EXCEPT !.retryOf = n]]]
      BY <2>5, <2>9
    <3> QED  BY <2>3, <2>8, <2>11, <3>1, <3>2 DEF LinkRetry
  <2>12. ASSUME NEW k \in DOMAIN records, NEW i \in DOMAIN records[k].execs,
                NEW n \in Ids(records[k]), Supersede(k, i, n)
         PROVE  BundleInv'
    <3>1. [records[k].execs[i] EXCEPT !.by = n] \in Execution
      BY <2>9, <2>10 DEF Execution
    <3>2. [records EXCEPT ![k].execs[i].by = n]
            = [records EXCEPT ![k] = [records[k] EXCEPT
                 !.execs[i] = [records[k].execs[i] EXCEPT !.by = n]]]
      BY <2>5, <2>9
    <3> QED  BY <2>3, <2>8, <2>12, <3>1, <3>2 DEF Supersede
  <2>13. ASSUME NEW k \in DOMAIN records, NEW i \in DOMAIN records[k].execs,
                NEW c \in {"deterministic", "transient"}, RecordFailure(k, i, c)
         PROVE  BundleInv'
    <3>1. [records[k].execs[i] EXCEPT !.failure = c] \in Execution
      BY <2>9 DEF Execution, FailureCategories
    <3>2. [records EXCEPT ![k].execs[i].failure = c]
            = [records EXCEPT ![k] = [records[k] EXCEPT
                 !.execs[i] = [records[k].execs[i] EXCEPT !.failure = c]]]
      BY <2>5, <2>9
    <3> QED  BY <2>3, <2>8, <2>13, <3>1, <3>2 DEF RecordFailure
  <2>14. ASSUME NEW k \in DOMAIN records, NEW status \in {"accepted", "aborted"},
                NEW time \in Times, Resolve(k, status, time)
         PROVE  BundleInv'
    <3> DEFINE r == [records[k] EXCEPT !.status = status,
                       !.aborted = IF status = "aborted" THEN time ELSE @]
    <3>1. r \in Record
      BY <2>2, <2>5 DEF Record, OutcomeStatuses
    <3>2. [records EXCEPT ![k].status = status,
                          ![k].aborted = IF status = "aborted" THEN time ELSE @]
            = [records EXCEPT ![k] = r]
      BY <2>5, <2>1 DEF Record
    <3> QED  BY <2>3, <2>5, <2>14, <3>1, <3>2 DEF Resolve
  <2>15. CASE UNCHANGED vars
    BY <2>15 DEF vars, BundleInv, IsBundle
  <2> QED  BY <2>6, <2>7, <2>11, <2>12, <2>13, <2>14, <2>15 DEF Next
<1> QED  BY <1>1, <1>2, PTL DEF Spec

-----------------------------------------------------------------------------
(* Sorting. *)

(* An id names one execution of a record. *)
UniqueIds(r) == \A d, e \in Range(r.execs) : d.id = e.id => d = e

(* What the rules need of a list of records. *)
IsList(rs) ==
  /\ Len(rs) \in Nat /\ DOMAIN rs = 1..Len(rs)
  /\ \A k \in DOMAIN rs : rs[k].task \in Nat /\ UniqueIds(rs[k])

(* pi[p] is the record that sorting moves to place p. *)
Permutes(pi, rs) ==
  /\ pi \in [DOMAIN rs -> DOMAIN rs]
  /\ \A p \in DOMAIN rs : SortedRecords(rs)[p] = rs[pi[p]]
  /\ \A p, q \in DOMAIN rs : pi[p] = pi[q] => p = q
  /\ \A k \in DOMAIN rs : \E p \in DOMAIN rs : pi[p] = k

(* A record's place is one more than the number of records before it, and  *)
(* being before is a total order: no two records have one place.           *)
LEMMA SortingPermutes ==
  ASSUME NEW rs, IsList(rs)
  PROVE  \E pi : Permutes(pi, rs)
<1> DEFINE D == DOMAIN rs
           Before(j, k) == \/ rs[j].task < rs[k].task
                           \/ rs[j].task = rs[k].task /\ j < k
           R == {e \in D \X D : Before(e[1], e[2])}
           pi == [p \in 1..Cardinality(D) |-> CHOOSE k \in D : Cardinality(Below(D, R, k)) + 1 = p]
<1>1. /\ D = 1..Len(rs) /\ Len(rs) \in Nat /\ IsFiniteSet(D) /\ Cardinality(D) = Len(rs)
      /\ \A k \in D : rs[k].task \in Nat
  BY FS_Interval DEF IsList
<1>2. /\ \A k \in D : ~ Before(k, k)
      /\ \A j, k \in D : j # k => Before(j, k) \/ Before(k, j)
      /\ \A i, j, k \in D : Before(i, j) /\ Before(j, k) => Before(i, k)
  BY <1>1
<1> HIDE DEF D, Before
<1>3. \A j, k \in D : <<j, k>> \in R <=> Before(j, k)
  OBVIOUS
<1>4. \A k \in D : {j \in D : Before(j, k)} = Below(D, R, k)
  BY <1>3 DEF Below
<1> HIDE DEF R
<1>5. Orders(R, D)
  BY <1>2, <1>3, Zenon DEF Orders
<1>6. Sorts(pi, D, R)
  BY <1>1, <1>5, RanksSort
<1>7. \A p \in D : SortedRecords(rs)[p] = rs[pi[p]]
  <2>1. SortedRecords(rs) =
          [p \in D |-> rs[CHOOSE k \in D : Cardinality({j \in D : Before(j, k)}) + 1 = p]]
    BY Zenon DEF SortedRecords, D, Before
  <2>2. ASSUME NEW p \in D
        PROVE  (CHOOSE k \in D : Cardinality({j \in D : Before(j, k)}) + 1 = p) = pi[p]
    <3>1. \A k : k \in D /\ Cardinality({j \in D : Before(j, k)}) + 1 = p
                  <=> k \in D /\ Cardinality(Below(D, R, k)) + 1 = p
      BY <1>4, Zenon
    <3>2. p \in 1..Cardinality(D)
      BY <1>1
    <3> QED  BY <3>1, <3>2
  <2> QED  BY <2>1, <2>2, Zenon
<1> HIDE DEF pi
<1>8. /\ pi \in [D -> D]
      /\ \A p, q \in D : pi[p] = pi[q] => p = q
      /\ \A k \in D : \E p \in D : pi[p] = k
  <2>1. D = 1..Cardinality(D)
    BY <1>1
  <2> QED  BY <1>6, <2>1, Zenon DEF Sorts
<1>9. Permutes(pi, rs)
  BY <1>7, <1>8, Zenon DEF Permutes, D
<1> QED  BY <1>9

-----------------------------------------------------------------------------
(* One record after another. *)

(* The findings of the first i of n sorted records, as detectCertainWaste  *)
(* builds them up. *)
IsFound(found, rs, n) ==
  found = [i \in 0..n |-> IF i = 0 THEN {} ELSE ApplyRules(found[i - 1], SortedRecords(rs)[i])]

(* The recursion over the sorted records has a solution, up to any of them. *)
LEMMA FoundExists ==
  ASSUME NEW rs, NEW n \in Nat
  PROVE  \E found : IsFound(found, rs, n)
<1> DEFINE good == {m \in Nat : \E found : IsFound(found, rs, m)}
<1>1. 0 \in good
  <2>1. IsFound([i \in 0..0 |-> {}], rs, 0)
    BY DEF IsFound
  <2> QED  BY <2>1
<1>2. ASSUME NEW m \in Nat, m \in good PROVE m + 1 \in good
  <2>1. PICK g : IsFound(g, rs, m)
    BY <1>2
  <2> DEFINE h == [i \in 0..(m + 1) |->
                     IF i = m + 1 THEN ApplyRules(g[m], SortedRecords(rs)[m + 1]) ELSE g[i]]
             T == [i \in 0..(m + 1) |->
                     IF i = 0 THEN {} ELSE ApplyRules(h[i - 1], SortedRecords(rs)[i])]
  <2>2. \A i \in 0..m : g[i] = IF i = 0 THEN {} ELSE ApplyRules(g[i - 1], SortedRecords(rs)[i])
    BY <2>1, Zenon DEF IsFound
  <2>3. ASSUME NEW i \in 0..(m + 1) PROVE h[i] = T[i]
    <3>1. CASE i = m + 1
      BY <3>1
    <3>2. CASE i # m + 1 /\ i = 0
      BY <2>2, <3>2
    <3>3. CASE i # m + 1 /\ i # 0
      <4>1. i \in 0..m /\ i - 1 \in 0..(m + 1) /\ i - 1 # m + 1
        BY <3>3
      <4>2. h[i] = g[i] /\ h[i - 1] = g[i - 1]
        BY <4>1, <3>3
      <4>3. g[i] = ApplyRules(g[i - 1], SortedRecords(rs)[i])
        BY <2>2, <3>3, <4>1
      <4> QED  BY <3>3, <4>2, <4>3, Zenon
    <3> QED  BY <3>1, <3>2, <3>3
  <2>4. h = T
    BY <2>3, Zenon
  <2>5. IsFound(h, rs, m + 1)
    BY <2>4, Zenon DEF IsFound
  <2> HIDE DEF h, T
  <2> QED  BY <2>5
<1>3. Nat \subseteq good
  <2> HIDE DEF good
  <2> QED  BY <1>1, <1>2, NumberInduction
<1> QED  BY <1>3

(* The findings of a bundle are those after its last record. *)
LEMMA FindingsAreFound ==
  ASSUME NEW rs, Len(rs) \in Nat
  PROVE  \E found : /\ found[0] = {} /\ DetectCertainWaste(rs) = found[Len(rs)]
                    /\ \A i \in 1..Len(rs) :
                         found[i] = ApplyRules(found[i - 1], SortedRecords(rs)[i])
<1> DEFINE found == CHOOSE f : IsFound(f, rs, Len(rs))
<1>1. IsFound(found, rs, Len(rs))
  BY FoundExists, Zenon
<1>2. DetectCertainWaste(rs) = found[Len(rs)]
  BY Zenon DEF DetectCertainWaste, IsFound
<1> HIDE DEF found
<1>3. \A i \in 0..Len(rs) :
        found[i] = IF i = 0 THEN {} ELSE ApplyRules(found[i - 1], SortedRecords(rs)[i])
  BY <1>1, Zenon DEF IsFound
<1>4. 0 \in 0..Len(rs) /\ \A i \in 1..Len(rs) : i \in 0..Len(rs) /\ i # 0
  OBVIOUS
<1>5. found[0] = {}
  BY <1>3, <1>4
<1>6. \A i \in 1..Len(rs) : found[i] = ApplyRules(found[i - 1], SortedRecords(rs)[i])
  BY <1>3, <1>4, Zenon
<1> QED  BY <1>2, <1>5, <1>6

-----------------------------------------------------------------------------
(* The rules on one record. *)

Proposed(r) == SupersededExecutions(r) \cup IdenticalRetries(r) \cup ExecutionsAfterAbort(r)

(* The first rule that proposes an execution. *)
RuleFor(r, e) ==
  IF e \in SupersededExecutions(r) THEN "superseded"
  ELSE IF e \in IdenticalRetries(r) THEN "identical_retry" ELSE "after_abort"

RecordFindings(r) == {Finding(r, RuleFor(r, e), e) : e \in Proposed(r)}

(* Each rule charges executions of the record it is given. *)
LEMMA ProposedOfRecord ==
  ASSUME NEW r
  PROVE  /\ ChargedBy("superseded", r) = SupersededExecutions(r)
         /\ ChargedBy("identical_retry", r) = IdenticalRetries(r)
         /\ ChargedBy("after_abort", r) = ExecutionsAfterAbort(r)
         /\ \A rule \in Rules : ChargedBy(rule, r) \subseteq Range(r.execs)
         /\ Proposed(r) \subseteq Range(r.execs)
<1>1. /\ ChargedBy("superseded", r) = SupersededExecutions(r)
      /\ ChargedBy("identical_retry", r) = IdenticalRetries(r)
      /\ ChargedBy("after_abort", r) = ExecutionsAfterAbort(r)
  BY DEF ChargedBy
<1>2. /\ SupersededExecutions(r) \subseteq Range(r.execs)
      /\ IdenticalRetries(r) \subseteq Range(r.execs)
      /\ ExecutionsAfterAbort(r) \subseteq Range(r.execs)
  BY Zenon DEF SupersededExecutions, IdenticalRetries, ExecutionsAfterAbort
<1> QED  BY <1>1, <1>2 DEF Rules, Proposed

(* done is the set of the executions of r that F has findings of. *)
Taken(F, r, done) ==
  \A e \in Range(r.execs) : e \in done <=> \E f \in F : f.task = r.task /\ f.exec = e.id

(* A rule claims what it proposes and no rule has claimed before. *)
LEMMA RuleClaims ==
  ASSUME NEW F, NEW r, UniqueIds(r), NEW rule, ChargedBy(rule, r) \subseteq Range(r.execs),
         NEW done, Taken(F, r, done)
  PROVE  /\ Claim(F, r, rule) = F \cup {Finding(r, rule, e) : e \in ChargedBy(rule, r) \ done}
         /\ Taken(Claim(F, r, rule), r, done \cup ChargedBy(rule, r))
<1> DEFINE X == ChargedBy(rule, r)
           New == {Finding(r, rule, e) : e \in X \ done}
<1>1. \A e : Finding(r, rule, e).task = r.task /\ Finding(r, rule, e).exec = e.id
  BY DEF Finding
<1>2. \A e \in Range(r.execs) : Unclaimed(F, Finding(r, rule, e)) <=> e \notin done
  <2> SUFFICES ASSUME NEW e \in Range(r.execs)
               PROVE  Unclaimed(F, Finding(r, rule, e)) <=> e \notin done
    OBVIOUS
  <2>1. Unclaimed(F, Finding(r, rule, e)) <=> \A f \in F : <<f.task, f.exec>> # <<r.task, e.id>>
    BY <1>1, Zenon DEF Unclaimed
  <2>2. Unclaimed(F, Finding(r, rule, e)) <=> ~ \E f \in F : f.task = r.task /\ f.exec = e.id
    BY <2>1
  <2> QED  BY <2>2 DEF Taken
<1>3. Claim(F, r, rule) = F \cup {f \in {Finding(r, rule, e) : e \in X} : Unclaimed(F, f)}
  BY Zenon DEF Claim
<1>4. X \subseteq Range(r.execs)
  OBVIOUS
<1> HIDE DEF X
<1>5. {f \in {Finding(r, rule, e) : e \in X} : Unclaimed(F, f)} = New
  <2>1. ASSUME NEW f, f \in {Finding(r, rule, e) : e \in X}, Unclaimed(F, f) PROVE f \in New
    BY <1>2, <1>4, <2>1
  <2>2. ASSUME NEW f, f \in New
        PROVE  f \in {Finding(r, rule, e) : e \in X} /\ Unclaimed(F, f)
    BY <1>2, <1>4, <2>2
  <2> QED  BY <2>1, <2>2
<1>6. Taken(F \cup New, r, done \cup X)
  <2> SUFFICES ASSUME NEW e \in Range(r.execs)
               PROVE  e \in done \cup X <=> \E f \in F \cup New : f.task = r.task /\ f.exec = e.id
    BY Zenon DEF Taken
  <2>1. e \in done <=> \E f \in F : f.task = r.task /\ f.exec = e.id
    BY DEF Taken
  <2>2. (e \in X \ done) <=> \E f \in New : f.task = r.task /\ f.exec = e.id
    <3>1. ASSUME e \in X \ done PROVE \E f \in New : f.task = r.task /\ f.exec = e.id
      BY <1>1, <3>1
    <3>2. ASSUME NEW f \in New, f.exec = e.id PROVE e \in X \ done
      <4>1. PICK d \in X \ done : f = Finding(r, rule, d)
        OBVIOUS
      <4>2. d.id = e.id /\ d \in Range(r.execs)
        BY <1>1, <1>4, <3>2, <4>1
      <4>3. d = e
        BY <4>2, Zenon DEF UniqueIds
      <4> QED  BY <4>1, <4>3
    <3> QED  BY <3>1, <3>2
  <2> HIDE DEF New
  <2> QED  BY <2>1, <2>2
<1> QED  BY <1>3, <1>5, <1>6 DEF X

(* The findings of a record, if none has its task id yet. *)
LEMMA RulesOnRecord ==
  ASSUME NEW F, NEW r, UniqueIds(r), \A f \in F : f.task # r.task
  PROVE  ApplyRules(F, r) = F \cup RecordFindings(r)
<1> DEFINE S == SupersededExecutions(r)
           I == IdenticalRetries(r)
           A == ExecutionsAfterAbort(r)
           F1 == Claim(F, r, "superseded")
           F2 == Claim(F1, r, "identical_retry")
           F3 == Claim(F2, r, "after_abort")
<1>1. /\ ChargedBy("superseded", r) = S /\ ChargedBy("identical_retry", r) = I
      /\ ChargedBy("after_abort", r) = A
      /\ S \subseteq Range(r.execs) /\ I \subseteq Range(r.execs) /\ A \subseteq Range(r.execs)
  BY ProposedOfRecord DEF Proposed
<1>2. Proposed(r) = S \cup I \cup A
  BY DEF Proposed
<1>3. \A e : RuleFor(r, e) = IF e \in S THEN "superseded"
                             ELSE IF e \in I THEN "identical_retry" ELSE "after_abort"
  BY Zenon DEF RuleFor
<1>4. ApplyRules(F, r) = F3
  BY Zenon DEF ApplyRules
<1> HIDE DEF S, I, A
<1> DEFINE CS == ChargedBy("superseded", r)
           CI == ChargedBy("identical_retry", r)
           CA == ChargedBy("after_abort", r)
<1>5. CS \subseteq Range(r.execs) /\ CI \subseteq Range(r.execs) /\ CA \subseteq Range(r.execs)
  BY <1>1
<1>6. Taken(F, r, {})
  BY DEF Taken
<1> DEFINE D0 == {}
           D1 == D0 \cup CS
           D2 == D1 \cup CI
<1> HIDE DEF D0, D1, D2, CS, CI, CA
<1>7. F1 = F \cup {Finding(r, "superseded", e) : e \in CS \ D0} /\ Taken(F1, r, D1)
  BY <1>5, <1>6, RuleClaims DEF D0, D1, CS
<1> HIDE DEF F1
<1>8. Taken(F1, r, D1)
  BY <1>7
<1>9. F2 = F1 \cup {Finding(r, "identical_retry", e) : e \in CI \ D1} /\ Taken(F2, r, D2)
  <2>1. CI \subseteq Range(r.execs)
    BY <1>5
  <2> QED  BY <1>8, <2>1, RuleClaims DEF D2, CI
<1> HIDE DEF F2
<1>10. Taken(F2, r, D2)
  BY <1>9
<1>11. F3 = F2 \cup {Finding(r, "after_abort", e) : e \in CA \ D2} /\ Taken(F3, r, D2 \cup CA)
  <2>1. CA \subseteq Range(r.execs)
    BY <1>5
  <2> QED  BY <1>10, <2>1, RuleClaims DEF CA
<1> HIDE DEF F3
<1>12. RecordFindings(r) =
        {Finding(r, "superseded", e) : e \in S \ {}}
          \cup {Finding(r, "identical_retry", e) : e \in I \ ({} \cup S)}
          \cup {Finding(r, "after_abort", e) : e \in A \ (({} \cup S) \cup I)}
  <2>1. ASSUME NEW f \in RecordFindings(r)
        PROVE  \/ f \in {Finding(r, "superseded", e) : e \in S \ {}}
               \/ f \in {Finding(r, "identical_retry", e) : e \in I \ ({} \cup S)}
               \/ f \in {Finding(r, "after_abort", e) : e \in A \ (({} \cup S) \cup I)}
    <3>1. PICK e \in S \cup I \cup A : f = Finding(r, RuleFor(r, e), e)
      BY <1>2 DEF RecordFindings
    <3>2. CASE e \in S
      BY <1>3, <3>1, <3>2
    <3>3. CASE e \notin S /\ e \in I
      BY <1>3, <3>1, <3>3
    <3>4. CASE e \notin S /\ e \notin I
      BY <1>3, <3>1, <3>4
    <3> QED  BY <3>2, <3>3, <3>4
  <2>2. \A e \in S \cup I \cup A : Finding(r, RuleFor(r, e), e) \in RecordFindings(r)
    BY <1>2 DEF RecordFindings
  <2>3. \A e \in S \ {} : Finding(r, "superseded", e) \in RecordFindings(r)
    BY <1>3, <2>2
  <2>4. \A e \in I \ ({} \cup S) : Finding(r, "identical_retry", e) \in RecordFindings(r)
    BY <1>3, <2>2
  <2>5. \A e \in A \ (({} \cup S) \cup I) : Finding(r, "after_abort", e) \in RecordFindings(r)
    BY <1>3, <2>2
  <2> QED  BY <2>1, <2>3, <2>4, <2>5
<1> QED  BY <1>1, <1>4, <1>7, <1>9, <1>11, <1>12 DEF D0, D1, D2, CS, CI, CA

(* A record's findings are of its task, one for each proposed execution.   *)
LEMMA FindingsOfRecord ==
  ASSUME NEW r
  PROVE  /\ \A f \in RecordFindings(r) : f.task = r.task
         /\ \A f \in RecordFindings(r) :
              \E e \in Proposed(r) : f.exec = e.id /\ f.avoided = e.total /\ f.rule = RuleFor(r, e)
         /\ \A e \in Proposed(r) :
              \E f \in RecordFindings(r) : f.exec = e.id /\ f.rule = RuleFor(r, e)
<1>1. \A rule, e : /\ Finding(r, rule, e).task = r.task /\ Finding(r, rule, e).exec = e.id
                   /\ Finding(r, rule, e).avoided = e.total /\ Finding(r, rule, e).rule = rule
  BY DEF Finding
<1> QED  BY <1>1 DEF RecordFindings

-----------------------------------------------------------------------------
(* The rules on a bundle. *)

TasksDiffer(rs) == \A j, k \in DOMAIN rs : rs[j].task = rs[k].task => j = k

(* What detectCertainWaste computes, if task ids are unique. *)
LEMMA Detected ==
  ASSUME NEW rs, IsList(rs), TasksDiffer(rs)
  PROVE  \A f : f \in DetectCertainWaste(rs) <=> \E k \in DOMAIN rs : f \in RecordFindings(rs[k])
<1> DEFINE N == Len(rs)
<1>1. N \in Nat /\ DOMAIN rs = 1..N /\ \A k \in DOMAIN rs : UniqueIds(rs[k])
  BY DEF IsList
<1>2. PICK pi : Permutes(pi, rs)
  BY SortingPermutes
<1>3. PICK found : /\ found[0] = {} /\ DetectCertainWaste(rs) = found[N]
                   /\ \A i \in 1..N : found[i] = ApplyRules(found[i - 1], SortedRecords(rs)[i])
  BY <1>1, FindingsAreFound
<1> HIDE DEF N
<1> DEFINE good == {i \in Nat : i <= N =>
                      \A f : f \in found[i] <=> \E p \in 1..i : f \in RecordFindings(rs[pi[p]])}
<1>4. 0 \in good
  BY <1>3
<1>5. ASSUME NEW m \in Nat, m \in good PROVE m + 1 \in good
  <2> SUFFICES ASSUME m + 1 <= N, NEW f
               PROVE  f \in found[m + 1] <=> \E p \in 1..(m + 1) : f \in RecordFindings(rs[pi[p]])
    OBVIOUS
  <2> DEFINE r == rs[pi[m + 1]]
  <2>1. m + 1 \in 1..N /\ m + 1 \in DOMAIN rs /\ (m + 1) - 1 = m /\ m <= N
    BY <1>1
  <2>2. found[m + 1] = ApplyRules(found[m], SortedRecords(rs)[m + 1])
    BY <1>3, <2>1
  <2>3. SortedRecords(rs)[m + 1] = r /\ pi[m + 1] \in DOMAIN rs
    BY <1>2, <2>1 DEF Permutes
  <2>4. \A g : g \in found[m] <=> \E p \in 1..m : g \in RecordFindings(rs[pi[p]])
    BY <1>5, <2>1
  <2>5. ASSUME NEW g \in found[m] PROVE g.task # r.task
    <3>1. PICK p \in 1..m : g \in RecordFindings(rs[pi[p]])
      BY <2>4
    <3>2. p \in DOMAIN rs /\ p # m + 1
      BY <1>1, <2>1
    <3>3. pi[p] \in DOMAIN rs /\ pi[p] # pi[m + 1]
      BY <1>2, <2>1, <3>2 DEF Permutes
    <3>4. rs[pi[p]].task # r.task
      BY <2>3, <3>3 DEF TasksDiffer
    <3>5. g.task = rs[pi[p]].task
      BY <3>1, FindingsOfRecord
    <3> QED  BY <3>4, <3>5
  <2>6. UniqueIds(r)
    BY <1>1, <2>3
  <2> HIDE DEF r
  <2>7. found[m + 1] = found[m] \cup RecordFindings(r)
    BY <2>2, <2>3, <2>5, <2>6, RulesOnRecord
  <2>8. \A p : p \in 1..(m + 1) <=> p \in 1..m \/ p = m + 1
    OBVIOUS
  <2> QED  BY <2>4, <2>7, <2>8 DEF r
<1>6. N \in good
  <2> HIDE DEF good
  <2> QED  BY <1>1, <1>4, <1>5, NumberInduction DEF N
<1>7. \A f : f \in found[N] <=> \E p \in 1..N : f \in RecordFindings(rs[pi[p]])
  BY <1>6, <1>1 DEF N
<1>8. /\ \A p \in 1..N : pi[p] \in DOMAIN rs
      /\ \A k \in DOMAIN rs : \E p \in 1..N : pi[p] = k
  BY <1>1, <1>2 DEF Permutes, N
<1>9. \A f : (\E p \in 1..N : f \in RecordFindings(rs[pi[p]]))
               <=> \E k \in DOMAIN rs : f \in RecordFindings(rs[k])
  BY <1>8, Zenon
<1> QED  BY <1>3, <1>7, <1>9 DEF N

(* x is charged by F. *)
Charges(F, x) == \E f \in F : <<f.task, f.exec>> = x

(* After a rule, an execution is charged if it was before or if the rule proposes it. *)
LEMMA RuleCharges ==
  ASSUME NEW F, NEW r, NEW rule, NEW x
  PROVE  Charges(Claim(F, r, rule), x) <=>
           Charges(F, x) \/ \E e \in ChargedBy(rule, r) : <<r.task, e.id>> = x
<1> DEFINE X == ChargedBy(rule, r)
           New == {f \in {Finding(r, rule, e) : e \in X} : Unclaimed(F, f)}
<1>1. Claim(F, r, rule) = F \cup New
  BY Zenon DEF Claim
<1>2. \A e : /\ Finding(r, rule, e).task = r.task /\ Finding(r, rule, e).exec = e.id
  BY DEF Finding
<1>3. \A e : Unclaimed(F, Finding(r, rule, e)) <=> ~ Charges(F, <<r.task, e.id>>)
  BY <1>2, Zenon DEF Unclaimed, Charges
<1> HIDE DEF X
<1>4. ASSUME NEW f \in New PROVE \E e \in X : <<f.task, f.exec>> = <<r.task, e.id>>
  BY <1>2
<1>5. ASSUME NEW e \in X, ~ Charges(F, <<r.task, e.id>>)
      PROVE  \E f \in New : <<f.task, f.exec>> = <<r.task, e.id>>
  <2>1. Finding(r, rule, e) \in New
    BY <1>3, <1>5
  <2> HIDE DEF New
  <2> QED  BY <1>2, <2>1
<1> HIDE DEF New
<1>6. Charges(Claim(F, r, rule), x) <=> Charges(F, x) \/ \E f \in New : <<f.task, f.exec>> = x
  BY <1>1 DEF Charges
<1>7. Charges(F, x) \/ (\E f \in New : <<f.task, f.exec>> = x) <=>
        Charges(F, x) \/ \E e \in X : <<r.task, e.id>> = x
  BY <1>4, <1>5, Zenon
<1> QED  BY <1>6, <1>7 DEF X

(* After the three rules, an execution is charged if it was before or if one of the
   rules proposes it. *)
LEMMA RecordCharges ==
  ASSUME NEW F, NEW r, NEW x
  PROVE  Charges(ApplyRules(F, r), x) <=>
           Charges(F, x) \/ \E e \in Proposed(r) : <<r.task, e.id>> = x
<1> DEFINE F1 == Claim(F, r, "superseded")
           F2 == Claim(F1, r, "identical_retry")
           F3 == Claim(F2, r, "after_abort")
           By(rule) == \E e \in ChargedBy(rule, r) : <<r.task, e.id>> = x
<1>1. ApplyRules(F, r) = F3
  BY Zenon DEF ApplyRules
<1>2. Charges(F1, x) <=> Charges(F, x) \/ By("superseded")
  BY RuleCharges
<1> HIDE DEF F1
<1>3. Charges(F2, x) <=> Charges(F1, x) \/ By("identical_retry")
  BY RuleCharges
<1> HIDE DEF F2
<1>4. Charges(F3, x) <=> Charges(F2, x) \/ By("after_abort")
  BY RuleCharges
<1>5. (\E e \in Proposed(r) : <<r.task, e.id>> = x)
        <=> By("superseded") \/ By("identical_retry") \/ By("after_abort")
  <2>1. Proposed(r) = ChargedBy("superseded", r) \cup ChargedBy("identical_retry", r)
                        \cup ChargedBy("after_abort", r)
    BY ProposedOfRecord DEF Proposed
  <2> QED  BY <2>1
<1> HIDE DEF F3, By
<1> QED  BY <1>1, <1>2, <1>3, <1>4, <1>5

(* What is charged, if task ids are unique or not. *)
LEMMA ChargedOfBundle ==
  ASSUME NEW rs, IsList(rs)
  PROVE  \A x : x \in Charged(rs) <=>
                  \E k \in DOMAIN rs : \E e \in Proposed(rs[k]) : <<rs[k].task, e.id>> = x
<1> SUFFICES ASSUME NEW x
             PROVE  x \in Charged(rs) <=>
                      \E k \in DOMAIN rs : \E e \in Proposed(rs[k]) : <<rs[k].task, e.id>> = x
  OBVIOUS
<1> DEFINE N == Len(rs)
           Of(r) == \E e \in Proposed(r) : <<r.task, e.id>> = x
<1>1. N \in Nat /\ DOMAIN rs = 1..N
  BY DEF IsList
<1>2. PICK pi : Permutes(pi, rs)
  BY SortingPermutes
<1>3. PICK found : /\ found[0] = {} /\ DetectCertainWaste(rs) = found[N]
                   /\ \A i \in 1..N : found[i] = ApplyRules(found[i - 1], SortedRecords(rs)[i])
  BY <1>1, FindingsAreFound
<1> HIDE DEF N
<1> DEFINE good == {i \in Nat : i <= N =>
                      (Charges(found[i], x) <=> \E p \in 1..i : Of(rs[pi[p]]))}
<1>4. 0 \in good
  BY <1>3 DEF Charges
<1>5. ASSUME NEW m \in Nat, m \in good PROVE m + 1 \in good
  <2> SUFFICES ASSUME m + 1 <= N
               PROVE  Charges(found[m + 1], x) <=> \E p \in 1..(m + 1) : Of(rs[pi[p]])
    OBVIOUS
  <2>1. m + 1 \in 1..N /\ m + 1 \in DOMAIN rs /\ (m + 1) - 1 = m /\ m <= N
    BY <1>1
  <2>2. found[m + 1] = ApplyRules(found[m], SortedRecords(rs)[m + 1])
    BY <1>3, <2>1
  <2>3. SortedRecords(rs)[m + 1] = rs[pi[m + 1]]
    BY <1>2, <2>1 DEF Permutes
  <2>4. Charges(found[m], x) <=> \E p \in 1..m : Of(rs[pi[p]])
    BY <1>5, <2>1
  <2>5. Charges(found[m + 1], x) <=> Charges(found[m], x) \/ Of(rs[pi[m + 1]])
    BY <2>2, <2>3, RecordCharges
  <2>6. \A p : p \in 1..(m + 1) <=> p \in 1..m \/ p = m + 1
    OBVIOUS
  <2> HIDE DEF Of
  <2> QED  BY <2>4, <2>5, <2>6
<1>6. N \in good
  <2> HIDE DEF good
  <2> QED  BY <1>1, <1>4, <1>5, NumberInduction DEF N
<1>7. Charges(found[N], x) <=> \E p \in 1..N : Of(rs[pi[p]])
  BY <1>6, <1>1 DEF N
<1>8. /\ \A p \in 1..N : pi[p] \in DOMAIN rs
      /\ \A k \in DOMAIN rs : \E p \in 1..N : pi[p] = k
  BY <1>1, <1>2 DEF Permutes, N
<1>9. (\E p \in 1..N : Of(rs[pi[p]])) <=> \E k \in DOMAIN rs : Of(rs[k])
  BY <1>8, Zenon
<1>10. x \in Charged(rs) <=> Charges(DetectCertainWaste(rs), x)
  BY Zenon DEF Charged, Charges
<1> QED  BY <1>3, <1>7, <1>9, <1>10 DEF N

-----------------------------------------------------------------------------
(* Bundles. *)

(* What the validator guarantees of a record. *)
LEMMA RecordIsValid ==
  ASSUME NEW r \in Record, ValidRecord(r)
  PROVE  /\ r.execs \in Seq(Execution) /\ Len(r.execs) \in Nat /\ Len(r.execs) # 0
         /\ DOMAIN r.execs = 1..Len(r.execs) /\ Range(r.execs) \subseteq Execution
         /\ \A i, j \in DOMAIN r.execs : r.execs[i].id = r.execs[j].id => i = j
         /\ UniqueIds(r)
         /\ \A e \in Range(r.execs) : ValidExecution(e, r)
         /\ \A e \in Range(r.execs) : \A ref \in {e.retryOf, e.by} \ {Nil} :
              \E d \in Range(r.execs) : d.id = ref /\ Named(r, ref) = d
<1> DEFINE n == Len(r.execs)
           D == DOMAIN r.execs
           id == [i \in D |-> r.execs[i].id]
<1>1. r.execs \in Seq(Execution)
  BY DEF Record
<1>2. n \in Nat /\ D = 1..n /\ \A i \in D : r.execs[i] \in Execution
  BY <1>1
<1>3. n # 0
  BY <1>1 DEF ValidRecord
<1>4. Range(r.execs) \subseteq Execution
  BY <1>2 DEF Range
<1>5. Cardinality(Ids(r)) = n /\ \A i \in D : ValidExecution(r.execs[i], r)
  BY DEF ValidRecord
<1>6. id \in Surjection(D, Ids(r))
  BY DEF Surjection, Ids
<1>7. IsFiniteSet(D) /\ Cardinality(D) = n
  BY <1>2, FS_Interval
<1>8. id \in Injection(D, Ids(r))
  <2> HIDE DEF id
  <2> QED  BY <1>5, <1>6, <1>7, FS_SurjSameCardinalityImpliesInj
<1>9. \A i, j \in D : r.execs[i].id = r.execs[j].id => i = j
  BY <1>8 DEF Injection, IsInjective
<1>10. UniqueIds(r)
  BY <1>9 DEF UniqueIds, Range
<1>11. \A e \in Range(r.execs) : ValidExecution(e, r)
  BY <1>5 DEF Range
<1>12. ASSUME NEW e \in Range(r.execs), NEW ref \in {e.retryOf, e.by} \ {Nil}
       PROVE  \E d \in Range(r.execs) : d.id = ref /\ Named(r, ref) = d
  <2>1. ref \in Ids(r)
    BY <1>11 DEF ValidExecution
  <2>2. \E d \in Range(r.execs) : d.id = ref
    BY <2>1 DEF Ids, Range
  <2>3. Named(r, ref) \in Range(r.execs) /\ Named(r, ref).id = ref
    BY <2>2, Zenon DEF Named
  <2> QED  BY <2>3
<1> QED  BY <1>1, <1>2, <1>3, <1>4, <1>9, <1>10, <1>11, <1>12

(* A bundle is a list of valid records whose tasks are numbers. *)
LEMMA BundleIsList ==
  ASSUME NEW rs, IsBundle(rs)
  PROVE  /\ IsList(rs)
         /\ \A k \in DOMAIN rs : rs[k] \in Record /\ ValidRecord(rs[k])
<1>1. rs \in Seq(Record) /\ \A k \in DOMAIN rs : ValidRecord(rs[k])
  BY DEF IsBundle
<1>2. Len(rs) \in Nat /\ DOMAIN rs = 1..Len(rs) /\ \A k \in DOMAIN rs : rs[k] \in Record
  BY <1>1
<1>3. \A k \in DOMAIN rs : rs[k].task \in Nat
  BY <1>2 DEF Record
<1>4. \A k \in DOMAIN rs : UniqueIds(rs[k])
  BY <1>1, <1>2, RecordIsValid
<1> QED  BY <1>1, <1>2, <1>3, <1>4 DEF IsList

-----------------------------------------------------------------------------
(* The order of listing. *)

(* The findings of a record follow from the set of its executions. *)
LEMMA SameExecutions ==
  ASSUME NEW r, NEW q, Range(q.execs) = Range(r.execs),
         q.task = r.task, q.status = r.status, q.aborted = r.aborted
  PROVE  RecordFindings(q) = RecordFindings(r) /\ (UniqueIds(r) => UniqueIds(q))
<1>1. \A id : Named(q, id) = Named(r, id)
  BY Zenon DEF Named
<1>2. /\ SupersededExecutions(q) = SupersededExecutions(r)
      /\ IdenticalRetries(q) = IdenticalRetries(r)
      /\ ExecutionsAfterAbort(q) = ExecutionsAfterAbort(r)
  BY <1>1 DEF SupersededExecutions, IdenticalRetries, ExecutionsAfterAbort
<1>3. Proposed(q) = Proposed(r) /\ \A e : RuleFor(q, e) = RuleFor(r, e)
  BY <1>2 DEF Proposed, RuleFor
<1>4. \A rule, e : Finding(q, rule, e) = Finding(r, rule, e)
  BY DEF Finding
<1>5. \A e : Finding(q, RuleFor(q, e), e) = Finding(r, RuleFor(r, e), e)
  BY <1>3, <1>4
<1>6. RecordFindings(q) = RecordFindings(r)
  BY <1>3, <1>5 DEF RecordFindings
<1>7. UniqueIds(r) => UniqueIds(q)
  BY DEF UniqueIds
<1> QED  BY <1>6, <1>7

(* What the reverse of a list holds, and where. *)
LEMMA Reversed ==
  ASSUME NEW s, Len(s) \in Nat, DOMAIN s = 1..Len(s)
  PROVE  /\ DOMAIN Reverse(s) = 1..Len(s) /\ Len(Reverse(s)) = Len(s)
         /\ \A i \in 1..Len(s) : (Len(s) - i) + 1 \in 1..Len(s)
                                 /\ Reverse(s)[i] = s[(Len(s) - i) + 1]
                                 /\ s[i] = Reverse(s)[(Len(s) - i) + 1]
         /\ Range(Reverse(s)) = Range(s)
<1> DEFINE n == Len(s)
           t == Reverse(s)
<1>1. t = [i \in 1..n |-> s[(n - i) + 1]]
  BY Zenon DEF Reverse
<1> HIDE DEF t
<1>2. DOMAIN t = 1..n /\ Len(t) = n
  BY <1>1
<1>3. \A i \in 1..n : (n - i) + 1 \in 1..n /\ (n - ((n - i) + 1)) + 1 = i
  OBVIOUS
<1>4. \A i \in 1..n : t[i] = s[(n - i) + 1] /\ s[i] = t[(n - i) + 1]
  BY <1>1, <1>3
<1>5. Range(t) = Range(s)
  BY <1>2, <1>3, <1>4 DEF Range
<1> QED  BY <1>2, <1>3, <1>4, <1>5 DEF t

(* The report of every exported bundle is that of the bundle listed the    *)
(* other way round.                                                        *)
THEOREM OrderNeverMatters == Spec => []OrderIndependent
<1>1. BundleInv => OrderIndependent
  <2> SUFFICES ASSUME BundleInv, TasksUnique PROVE OrderIndependent
    BY DEF OrderIndependent
  <2> DEFINE N == Len(records)
             flipped == [k \in DOMAIN records |-> [records[k] EXCEPT !.execs = Reverse(@)]]
             rev == Reverse(flipped)
  <2>1. /\ IsList(records)
        /\ \A k \in DOMAIN records : records[k] \in Record /\ ValidRecord(records[k])
    BY BundleIsList DEF BundleInv
  <2>2. N \in Nat /\ DOMAIN records = 1..N /\ \A k \in 1..N : records[k].task \in Nat
    BY <2>1 DEF IsList
  <2>3. TasksDiffer(records)
    BY DEF TasksUnique, TasksDiffer
  <2>4. ASSUME NEW k \in 1..N
        PROVE  /\ flipped[k].task = records[k].task
               /\ RecordFindings(flipped[k]) = RecordFindings(records[k])
               /\ UniqueIds(flipped[k])
    <3> DEFINE r == records[k]
               q == [r EXCEPT !.execs = Reverse(@)]
    <3>1. r \in Record /\ ValidRecord(r)
      BY <2>1, <2>2
    <3>2. Len(r.execs) \in Nat /\ DOMAIN r.execs = 1..Len(r.execs) /\ UniqueIds(r)
      BY <3>1, RecordIsValid
    <3>3. Range(Reverse(r.execs)) = Range(r.execs)
      BY <3>2, Reversed
    <3>4. /\ q.execs = Reverse(r.execs) /\ q.task = r.task
          /\ q.status = r.status /\ q.aborted = r.aborted
      BY <3>1 DEF Record
    <3>5. flipped[k] = q
      BY <2>2
    <3> HIDE DEF q, r, flipped
    <3>6. RecordFindings(q) = RecordFindings(r) /\ UniqueIds(q)
      BY <3>2, <3>3, <3>4, SameExecutions
    <3> QED  BY <3>4, <3>5, <3>6 DEF r
  <2>5. DOMAIN flipped = 1..N /\ Len(flipped) = N
    BY <2>2
  <2> HIDE DEF flipped, N
  <2>6. /\ DOMAIN rev = 1..N /\ Len(rev) = N
        /\ \A i \in 1..N : /\ (N - i) + 1 \in 1..N /\ rev[i] = flipped[(N - i) + 1]
                           /\ flipped[i] = rev[(N - i) + 1]
    BY <2>2, <2>5, Reversed
  <2> HIDE DEF rev
  <2>7. IsList(rev)
    BY <2>2, <2>4, <2>6 DEF IsList
  <2>8. TasksDiffer(rev)
    <3> SUFFICES ASSUME NEW i \in 1..N, NEW j \in 1..N, rev[i].task = rev[j].task PROVE i = j
      BY <2>6 DEF TasksDiffer
    <3>1. \A l \in 1..N : rev[l].task = records[(N - l) + 1].task
      <4> SUFFICES ASSUME NEW l \in 1..N PROVE rev[l].task = records[(N - l) + 1].task
        OBVIOUS
      <4>1. (N - l) + 1 \in 1..N /\ rev[l] = flipped[(N - l) + 1]
        BY <2>6
      <4> QED  BY <2>4, <4>1
    <3>2. (N - i) + 1 = (N - j) + 1
      <4> DEFINE a == (N - i) + 1
                 b == (N - j) + 1
      <4>1. a \in DOMAIN records /\ b \in DOMAIN records
        BY <2>2, <2>6
      <4>2. records[a].task = records[b].task
        BY <3>1
      <4> HIDE DEF a, b
      <4>3. a = b
        BY <2>3, <4>1, <4>2 DEF TasksDiffer
      <4> QED  BY <4>3 DEF a, b
    <3> QED  BY <2>2, <3>2
  <2>9. ASSUME NEW f
        PROVE  (\E k \in 1..N : f \in RecordFindings(rev[k]))
                 <=> \E k \in 1..N : f \in RecordFindings(records[k])
    <3>1. ASSUME NEW k \in 1..N, f \in RecordFindings(rev[k])
          PROVE  \E j \in 1..N : f \in RecordFindings(records[j])
      BY <2>4, <2>6, <3>1
    <3>2. ASSUME NEW k \in 1..N, f \in RecordFindings(records[k])
          PROVE  \E j \in 1..N : f \in RecordFindings(rev[j])
      BY <2>4, <2>6, <3>2
    <3> QED  BY <3>1, <3>2
  <2>10. DetectCertainWaste(rev) = DetectCertainWaste(records)
    <3>1. \A f : f \in DetectCertainWaste(rev) <=> \E k \in 1..N : f \in RecordFindings(rev[k])
      BY <2>6, <2>7, <2>8, Detected
    <3>2. \A f : f \in DetectCertainWaste(records)
                   <=> \E k \in 1..N : f \in RecordFindings(records[k])
      BY <2>1, <2>2, <2>3, Detected
    <3> QED  BY <2>9, <3>1, <3>2
  <2> QED  BY <2>10, Zenon DEF OrderIndependent, rev, flipped
<1> QED  BY <1>1, BundleAlways, PTL

-----------------------------------------------------------------------------
(* Some work survives. *)

(* Of finitely many executions one started last. *)
LEMMA LastStart ==
  ASSUME NEW execs, NEW n \in Nat, n # 0, \A i \in 1..n : execs[i].start \in Nat
  PROVE  \E i \in 1..n : \A j \in 1..n : execs[j].start <= execs[i].start
<1> DEFINE good == {m \in Nat : m # 0 /\ m <= n =>
                      \E i \in 1..m : \A j \in 1..m : execs[j].start <= execs[i].start}
<1>1. 0 \in good
  OBVIOUS
<1>2. ASSUME NEW m \in Nat, m \in good PROVE m + 1 \in good
  <2> SUFFICES ASSUME m + 1 <= n
               PROVE  \E i \in 1..(m + 1) : \A j \in 1..(m + 1) : execs[j].start <= execs[i].start
    OBVIOUS
  <2>1. \A j : j \in 1..(m + 1) <=> j \in 1..m \/ j = m + 1
    OBVIOUS
  <2>2. execs[m + 1].start \in Nat /\ \A j \in 1..m : execs[j].start \in Nat
    OBVIOUS
  <2>3. CASE m = 0
    BY <2>1, <2>2, <2>3
  <2>4. CASE m # 0
    <3>1. PICK i \in 1..m : \A j \in 1..m : execs[j].start <= execs[i].start
      BY <1>2, <2>4
    <3>2. CASE execs[m + 1].start <= execs[i].start
      BY <2>1, <3>1, <3>2
    <3>3. CASE execs[i].start <= execs[m + 1].start
      <4>1. \A j \in 1..m : execs[j].start <= execs[m + 1].start
        BY <2>2, <3>1, <3>3
      <4> QED  BY <2>1, <2>2, <4>1
    <3> QED  BY <2>2, <3>1, <3>2, <3>3
  <2> QED  BY <2>3, <2>4
<1>3. n \in good
  <2> HIDE DEF good
  <2> QED  BY <1>1, <1>2, NumberInduction
<1> QED  BY <1>3

(* In every exported bundle some work of a task is not charged, up to the  *)
(* cases the property names.                                               *)
THEOREM SomeWorkAlwaysSurvives == Spec => []SomeWorkSurvives
<1>1. BundleInv => SomeWorkSurvives
  <2> SUFFICES ASSUME BundleInv, TasksUnique, NEW k \in DOMAIN records
               PROVE  LET superseded == ChargedIn(k, {"superseded"})
                          retries == ChargedIn(k, {"identical_retry"})
                      IN \/ records[k].status = "aborted"
                         \/ Circular(Range(records[k].execs))
                         \/ \E e \in retries : \E d \in superseded : e.retryOf = d.id
                         \/ superseded \cup retries # Range(records[k].execs)
    BY Zenon DEF SomeWorkSurvives
  <2> DEFINE r == records[k]
             E == Range(r.execs)
             superseded == ChargedIn(k, {"superseded"})
             retries == ChargedIn(k, {"identical_retry"})
  <2>1. IsList(records) /\ r \in Record /\ ValidRecord(r) /\ TasksDiffer(records)
    BY BundleIsList DEF BundleInv, TasksUnique, TasksDiffer
  <2>2. /\ Len(r.execs) \in Nat /\ Len(r.execs) # 0 /\ DOMAIN r.execs = 1..Len(r.execs)
        /\ E \subseteq Execution /\ UniqueIds(r)
        /\ \A e \in E : \A ref \in {e.retryOf, e.by} \ {Nil} :
             \E d \in E : d.id = ref /\ Named(r, ref) = d
    BY <2>1, RecordIsValid
  <2>3. \A f : f \in DetectCertainWaste(records)
                 <=> \E j \in DOMAIN records : f \in RecordFindings(records[j])
    BY <2>1, Detected
  <2>4. \A j \in DOMAIN records : \A f \in RecordFindings(records[j]) :
          /\ f.task = records[j].task
          /\ \E e \in Proposed(records[j]) : f.exec = e.id /\ f.rule = RuleFor(records[j], e)
    BY FindingsOfRecord
  <2>5. ASSUME NEW rule, NEW e \in ChargedIn(k, {rule})
        PROVE  e \in E /\ e \in Proposed(r) /\ RuleFor(r, e) = rule
    <3>1. /\ e \in E
          /\ \E f \in DetectCertainWaste(records) :
               f.task = r.task /\ f.exec = e.id /\ f.rule \in {rule}
      BY DEF ChargedIn
    <3>2. PICK f \in DetectCertainWaste(records) : f.task = r.task /\ f.exec = e.id /\ f.rule = rule
      BY <3>1
    <3>3. PICK j \in DOMAIN records : f \in RecordFindings(records[j])
      BY <2>3
    <3>4. records[j].task = records[k].task
      BY <2>4, <3>2, <3>3
    <3>5. j = k
      BY <2>1, <3>4 DEF TasksDiffer
    <3>6. PICK d \in Proposed(r) : f.exec = d.id /\ f.rule = RuleFor(r, d)
      BY <2>4, <3>3, <3>5
    <3>7. d \in E
      BY <3>6, ProposedOfRecord
    <3>8. d = e
      BY <2>2, <3>1, <3>2, <3>6, <3>7 DEF UniqueIds
    <3> QED  BY <3>1, <3>2, <3>6, <3>8
  <2>6. superseded \subseteq SupersededExecutions(r)
    <3> SUFFICES ASSUME NEW e \in superseded PROVE e \in SupersededExecutions(r)
      OBVIOUS
    <3>1. RuleFor(r, e) = "superseded"
      BY <2>5
    <3> QED  BY <3>1 DEF RuleFor
  <2>7. retries \subseteq IdenticalRetries(r)
    <3> SUFFICES ASSUME NEW e \in retries PROVE e \in IdenticalRetries(r)
      OBVIOUS
    <3>1. RuleFor(r, e) = "identical_retry"
      BY <2>5
    <3> QED  BY <3>1 DEF RuleFor
  <2>8. superseded \subseteq E /\ retries \subseteq E
    BY <2>5
  <2> HIDE DEF superseded, retries, E, r
  <2>9. ASSUME superseded = E PROVE FALSE
    <3>1. \A i \in 1..Len(r.execs) : r.execs[i] \in E
      BY <2>2 DEF E, Range
    <3>2. \A e \in E : e.start \in Nat
      BY <2>2 DEF Execution
    <3>3. \A e \in E : \E i \in 1..Len(r.execs) : e = r.execs[i]
      BY <2>2 DEF E, Range
    <3>4. \A i \in 1..Len(r.execs) : r.execs[i].start \in Nat
      BY <3>1, <3>2
    <3>5. PICK i \in 1..Len(r.execs) :
            \A j \in 1..Len(r.execs) : r.execs[j].start <= r.execs[i].start
      BY <2>2, <3>4, LastStart
    <3> DEFINE e == r.execs[i]
    <3>6. e \in E /\ e \in SupersededExecutions(r)
      BY <2>6, <2>9, <3>1
    <3>7. e.by # Nil /\ Named(r, e.by).start > e.start
      BY <3>6, Zenon DEF SupersededExecutions
    <3>8. e.by \in {e.retryOf, e.by} \ {Nil}
      BY <3>7
    <3>9. Named(r, e.by) \in E
      BY <2>2, <3>6, <3>8
    <3>10. Named(r, e.by).start \in Nat /\ e.start \in Nat
      BY <3>2, <3>6, <3>9
    <3>11. Named(r, e.by).start <= e.start
      BY <3>3, <3>5, <3>9
    <3> HIDE DEF e
    <3> QED  BY <3>7, <3>10, <3>11
  <2>10. ASSUME retries # {}, superseded \cup retries = E,
                ~ \E e \in retries : \E d \in superseded : e.retryOf = d.id
         PROVE  Circular(Range(r.execs))
    <3>1. ASSUME NEW e \in retries PROVE \E d \in retries : e.retryOf = d.id
      <4>1. e \in E /\ e.retryOf # Nil
        BY <2>7, <2>8, Zenon DEF IdenticalRetries
      <4>2. e.retryOf \in {e.retryOf, e.by} \ {Nil}
        BY <4>1
      <4>3. PICK d \in E : d.id = e.retryOf
        BY <2>2, <4>1, <4>2
      <4>4. d \notin superseded
        BY <2>10, <4>3
      <4>5. d \in retries
        BY <2>10, <4>4
      <4> QED  BY <4>3, <4>5
    <3>2. retries \in (SUBSET E) \ {{}}
      BY <2>8, <2>10
    <3> QED  BY <3>1, <3>2 DEF Circular, E
  <2>11. \/ Circular(Range(r.execs)) \/ (\E e \in retries : \E d \in superseded : e.retryOf = d.id)
         \/ superseded \cup retries # E
    <3>1. retries = {} /\ superseded \cup retries = E => superseded = E
      OBVIOUS
    <3> QED  BY <2>9, <2>10, <3>1, Zenon
  <2> QED  BY <2>11 DEF superseded, retries, E, r
<1> QED  BY <1>1, BundleAlways, PTL

-----------------------------------------------------------------------------
(* Charges stand. *)

(* c is execution d, of which more may be known. *)
Grows(d, c) ==
  /\ c.id = d.id /\ c.start = d.start /\ c.signature = d.signature
  /\ d.retryOf \in {Nil, c.retryOf} /\ d.by \in {Nil, c.by} /\ d.failure \in {Nil, c.failure}

RecordGrows(r, q) ==
  /\ q.task = r.task
  /\ \A d \in Range(r.execs) : \E c \in Range(q.execs) : Grows(d, c)

AbortHeld(r) == r.status = "aborted"

(* More knowledge of the executions of a record withdraws no charge; only  *)
(* an abort can be withdrawn.                                              *)
LEMMA ProposalStands ==
  ASSUME NEW r \in Record, ValidRecord(r), NEW q \in Record, ValidRecord(q), RecordGrows(r, q),
         AbortHeld(r) => q.status = r.status /\ q.aborted = r.aborted,
         NEW e \in Proposed(r)
  PROVE  \E c \in Proposed(q) : c.id = e.id
<1>1. UniqueIds(r) /\ UniqueIds(q)
  BY RecordIsValid
<1>2. e \in Range(r.execs)
  BY ProposedOfRecord
<1>3. PICK c \in Range(q.execs) : Grows(e, c)
  BY <1>2 DEF RecordGrows
<1>4. c.id = e.id /\ c.start = e.start /\ c.signature = e.signature
  BY <1>3 DEF Grows
<1>5. ASSUME NEW ref \in {e.retryOf, e.by} \ {Nil}
      PROVE  Named(r, ref) \in Range(r.execs) /\ Grows(Named(r, ref), Named(q, ref))
  <2>1. PICK d \in Range(r.execs) : d.id = ref /\ Named(r, ref) = d
    BY <1>2, RecordIsValid
  <2>2. PICK b \in Range(q.execs) : Grows(d, b)
    BY <2>1 DEF RecordGrows
  <2>3. b.id = ref
    BY <2>1, <2>2 DEF Grows
  <2>4. Named(q, ref) \in Range(q.execs) /\ Named(q, ref).id = ref
    BY <2>3, Zenon DEF Named
  <2>5. Named(q, ref) = b
    BY <1>1, <2>3, <2>4 DEF UniqueIds
  <2> QED  BY <2>1, <2>2, <2>5
<1>6. Nil # "deterministic"
  BY NilAssumption DEF FailureCategories
<1>7. CASE e \in SupersededExecutions(r)
  <2>1. e.by # Nil /\ Named(r, e.by).start > e.start
    BY <1>7, Zenon DEF SupersededExecutions
  <2>2. c.by = e.by
    BY <1>3, <2>1 DEF Grows
  <2>3. e.by \in {e.retryOf, e.by} \ {Nil}
    BY <2>1
  <2>4. Named(q, c.by).start = Named(r, e.by).start
    BY <1>5, <2>2, <2>3 DEF Grows
  <2>5. c \in SupersededExecutions(q)
    BY <1>4, <2>1, <2>2, <2>4 DEF SupersededExecutions
  <2> QED  BY <1>4, <2>5 DEF Proposed
<1>8. CASE e \in IdenticalRetries(r)
  <2>1. /\ e.retryOf # Nil /\ Named(r, e.retryOf).failure = "deterministic" /\ e.signature # Nil
        /\ e.signature = Named(r, e.retryOf).signature /\ e.failure = "deterministic"
    BY <1>8, Zenon DEF IdenticalRetries
  <2>2. c.retryOf = e.retryOf /\ c.failure = e.failure
    BY <1>3, <1>6, <2>1 DEF Grows
  <2>3. e.retryOf \in {e.retryOf, e.by} \ {Nil}
    BY <2>1
  <2>4. Grows(Named(r, e.retryOf), Named(q, c.retryOf))
    BY <1>5, <2>2, <2>3
  <2>5. /\ Named(q, c.retryOf).failure = "deterministic"
        /\ Named(q, c.retryOf).signature = Named(r, e.retryOf).signature
    BY <1>6, <2>1, <2>4 DEF Grows
  <2>6. c \in IdenticalRetries(q)
    BY <1>4, <2>1, <2>2, <2>5, Zenon DEF IdenticalRetries
  <2> QED  BY <1>4, <2>6 DEF Proposed
<1>9. CASE e \in ExecutionsAfterAbort(r)
  <2>1. r.status = "aborted" /\ r.aborted # Nil /\ e.start > r.aborted
    BY <1>9, Zenon DEF ExecutionsAfterAbort
  <2>2. q.status = "aborted" /\ q.aborted = r.aborted
    BY <2>1 DEF AbortHeld
  <2>3. c \in ExecutionsAfterAbort(q)
    BY <1>4, <2>1, <2>2 DEF ExecutionsAfterAbort
  <2> QED  BY <1>4, <2>3 DEF Proposed
<1> QED  BY <1>7, <1>8, <1>9 DEF Proposed

(* ss knows of the records of rs, and perhaps more. *)
Continues(rs, ss) ==
  \A k \in DOMAIN rs :
    /\ k \in DOMAIN ss /\ RecordGrows(rs[k], ss[k])
    /\ AbortHeld(rs[k]) /\ AbortHeld(ss[k]) => ss[k].aborted = rs[k].aborted

(* When a bundle only learns, a charge is dropped only with the abort of its record. *)
LEMMA ChargesContinue ==
  ASSUME NEW rs, IsBundle(rs), NEW ss, IsBundle(ss), Continues(rs, ss),
         NEW x \in Charged(rs) \ Charged(ss)
  PROVE  \E k \in DOMAIN rs :
           rs[k].task = x[1] /\ rs[k].status = "aborted" /\ ss[k].status # "aborted"
<1>0. PICK k \in DOMAIN rs : \E e \in Proposed(rs[k]) : <<rs[k].task, e.id>> = x
  BY BundleIsList, ChargedOfBundle
<1>1. PICK e \in Proposed(rs[k]) : <<rs[k].task, e.id>> = x
  BY <1>0
<1>2. k \in DOMAIN ss /\ RecordGrows(rs[k], ss[k])
  BY DEF Continues
<1>3. /\ rs[k] \in Record /\ ValidRecord(rs[k])
      /\ ss[k] \in Record /\ ValidRecord(ss[k])
  BY <1>2, BundleIsList
<1>4. rs[k].task = x[1] /\ ss[k].task = rs[k].task
  BY <1>1, <1>2 DEF RecordGrows
<1>5. ASSUME ~ (rs[k].status = "aborted" /\ ss[k].status # "aborted") PROVE FALSE
  <2>1. AbortHeld(rs[k]) => ss[k].status = rs[k].status /\ ss[k].aborted = rs[k].aborted
    BY <1>5 DEF Continues, AbortHeld
  <2>2. PICK c \in Proposed(ss[k]) : c.id = e.id
    BY <1>2, <1>3, <2>1, ProposalStands
  <2>3. <<ss[k].task, c.id>> = x
    BY <1>1, <1>4, <2>2
  <2>4. x \in Charged(ss)
    BY <1>2, <2>3, BundleIsList, ChargedOfBundle
  <2> QED  BY <2>4
<1> QED  BY <1>4, <1>5

(* A bundle in which one record learned something continues the bundle before it. *)
LEMMA OneRecordGrows ==
  ASSUME NEW rs, IsBundle(rs), NEW k \in DOMAIN rs, NEW q, RecordGrows(rs[k], q),
         AbortHeld(rs[k]) /\ AbortHeld(q) => q.aborted = rs[k].aborted
  PROVE  Continues(rs, [rs EXCEPT ![k] = q])
<1>1. \A j \in DOMAIN rs : RecordGrows(rs[j], rs[j])
  BY DEF RecordGrows, Grows
<1> QED  BY <1>1 DEF Continues

(* So does a bundle in which one execution did. *)
LEMMA OneExecutionGrows ==
  ASSUME NEW rs, IsBundle(rs), NEW k \in DOMAIN rs, NEW i \in DOMAIN rs[k].execs,
         NEW c, Grows(rs[k].execs[i], c)
  PROVE  Continues(rs, [rs EXCEPT ![k] = [rs[k] EXCEPT !.execs[i] = c]])
<1> DEFINE r == rs[k]
           q == [r EXCEPT !.execs[i] = c]
           es == [r.execs EXCEPT ![i] = c]
<1>1. r \in Record
  BY BundleIsList
<1>2. /\ q.execs = es /\ q.task = r.task
      /\ q.status = r.status /\ q.aborted = r.aborted
  BY <1>1 DEF Record
<1>3. DOMAIN es = DOMAIN r.execs /\ es[i] = c /\ \A j \in DOMAIN r.execs : j # i => es[j] = r.execs[j]
  OBVIOUS
<1>4. \A d : Grows(d, d)
  BY DEF Grows
<1>5. Grows(r.execs[i], c)
  OBVIOUS
<1> HIDE DEF r, q, es
<1>6. RecordGrows(r, q)
  <2> SUFFICES ASSUME NEW d \in Range(r.execs) PROVE \E b \in Range(q.execs) : Grows(d, b)
    BY <1>2 DEF RecordGrows
  <2>1. PICK j \in DOMAIN r.execs : d = r.execs[j]
    BY DEF Range
  <2>2. es[j] \in Range(q.execs)
    BY <1>2, <1>3 DEF Range
  <2> QED  BY <1>3, <1>4, <1>5, <2>1, <2>2
<1>7. RecordGrows(rs[k], q) /\ (AbortHeld(rs[k]) /\ AbortHeld(q) => q.aborted = rs[k].aborted)
  BY <1>2, <1>6 DEF r
<1>8. Continues(rs, [rs EXCEPT ![k] = q])
  BY <1>7, OneRecordGrows
<1> QED  BY <1>8 DEF q, r

(* Every step adds to what is known, or corrects an outcome. *)
LEMMA StepContinues ==
  ASSUME BundleInv, Next
  PROVE  Continues(records, records')
<1>1. /\ records \in Seq(Record) /\ IsBundle(records)
      /\ \A k \in DOMAIN records : records[k] \in Record /\ records[k].execs \in Seq(Execution)
  BY BundleIsList, RecordIsValid DEF BundleInv, IsBundle
<1>2. \A bundle : Export(bundle) => records' = bundle
  BY DEF Export
<1>3. \A r : RecordGrows(r, r)
  BY DEF RecordGrows, Grows
<1>4. ASSUME NEW t \in scope.tasks, NEW start \in Times, AddRecord(t, start)
      PROVE  Continues(records, records')
  <2> DEFINE r == [task |-> t, status |-> "unresolved", aborted |-> Nil,
                   execs |-> <<NewExecution(1, start)>>]
  <2>1. records' = Append(records, r)
    BY <1>2, <1>4 DEF AddRecord
  <2> HIDE DEF r
  <2>2. \A k \in DOMAIN records : k \in DOMAIN records' /\ records'[k] = records[k]
    BY <1>1, <2>1
  <2> QED  BY <1>3, <2>2 DEF Continues
<1>5. ASSUME NEW k \in DOMAIN records, NEW start \in Times, AddExecution(k, start)
      PROVE  Continues(records, records')
  <2> DEFINE r == records[k]
             es == Append(r.execs, NewExecution(Len(r.execs) + 1, start))
             q == [r EXCEPT !.execs = es]
  <2>1. records' = [records EXCEPT ![k].execs = Append(@, NewExecution(Len(@) + 1, start))]
    BY <1>2, <1>5 DEF AddExecution
  <2>2. records' = [records EXCEPT ![k] = q]
    BY <1>1, <2>1, Zenon
  <2>3. \A i \in DOMAIN r.execs : i \in DOMAIN es /\ es[i] = r.execs[i]
    <3> DEFINE e == NewExecution(Len(r.execs) + 1, start)
    <3>1. r.execs \in Seq(Execution)
      BY <1>1
    <3> HIDE DEF e, r
    <3>2. \A i \in DOMAIN r.execs : i \in DOMAIN Append(r.execs, e) /\ Append(r.execs, e)[i] = r.execs[i]
      BY <3>1
    <3> QED  BY <3>2, Zenon DEF e
  <2> HIDE DEF es
  <2>4. /\ q.execs = es /\ q.task = r.task
        /\ q.status = r.status /\ q.aborted = r.aborted
    BY <1>1 DEF Record
  <2>5. RecordGrows(records[k], q)
    <3>1. \A d : Grows(d, d)
      BY DEF Grows
    <3>2. \A d \in Range(r.execs) : d \in Range(es)
      BY <2>3 DEF Range
    <3> HIDE DEF q
    <3> QED  BY <2>4, <3>1, <3>2 DEF RecordGrows
  <2>6. AbortHeld(records[k]) /\ AbortHeld(q) => q.aborted = records[k].aborted
    BY <2>4
  <2> HIDE DEF q
  <2> QED  BY <1>1, <2>2, <2>5, <2>6, OneRecordGrows
<1>6. ASSUME NEW k \in DOMAIN records, NEW i \in DOMAIN records[k].execs
      PROVE  records[k].execs[i] \in Execution
  BY <1>1
<1>7. ASSUME NEW k \in DOMAIN records, NEW i \in DOMAIN records[k].execs, NEW n,
             LinkRetry(k, i, n)
      PROVE  Continues(records, records')
  <2> DEFINE c == [records[k].execs[i] EXCEPT !.retryOf = n]
  <2>1. records' = [records EXCEPT ![k].execs[i].retryOf = n] /\ records[k].execs[i].retryOf = Nil
    BY <1>2, <1>7 DEF LinkRetry
  <2>2. records' = [records EXCEPT ![k] = [records[k] EXCEPT !.execs[i] = c]]
    BY <1>1, <1>6, <2>1
  <2>3. Grows(records[k].execs[i], c)
    BY <1>6, <2>1 DEF Grows, Execution
  <2> HIDE DEF c
  <2> QED  BY <1>1, <2>2, <2>3, OneExecutionGrows
<1>8. ASSUME NEW k \in DOMAIN records, NEW i \in DOMAIN records[k].execs, NEW n,
             Supersede(k, i, n)
      PROVE  Continues(records, records')
  <2> DEFINE c == [records[k].execs[i] EXCEPT !.by = n]
  <2>1. records' = [records EXCEPT ![k].execs[i].by = n] /\ records[k].execs[i].by = Nil
    BY <1>2, <1>8 DEF Supersede
  <2>2. records' = [records EXCEPT ![k] = [records[k] EXCEPT !.execs[i] = c]]
    BY <1>1, <1>6, <2>1
  <2>3. Grows(records[k].execs[i], c)
    BY <1>6, <2>1 DEF Grows, Execution
  <2> HIDE DEF c
  <2> QED  BY <1>1, <2>2, <2>3, OneExecutionGrows
<1>9. ASSUME NEW k \in DOMAIN records, NEW i \in DOMAIN records[k].execs, NEW n,
             RecordFailure(k, i, n)
      PROVE  Continues(records, records')
  <2> DEFINE c == [records[k].execs[i] EXCEPT !.failure = n]
  <2>1. records' = [records EXCEPT ![k].execs[i].failure = n] /\ records[k].execs[i].failure = Nil
    BY <1>2, <1>9 DEF RecordFailure
  <2>2. records' = [records EXCEPT ![k] = [records[k] EXCEPT !.execs[i] = c]]
    BY <1>1, <1>6, <2>1
  <2>3. Grows(records[k].execs[i], c)
    BY <1>6, <2>1 DEF Grows, Execution
  <2> HIDE DEF c
  <2> QED  BY <1>1, <2>2, <2>3, OneExecutionGrows
<1>10. ASSUME NEW k \in DOMAIN records, NEW status \in {"accepted", "aborted"}, NEW time \in Times,
              Resolve(k, status, time)
       PROVE  Continues(records, records')
  <2> DEFINE r == records[k]
             q == [r EXCEPT !.status = status, !.aborted = IF status = "aborted" THEN time ELSE @]
  <2>1. /\ records' = [records EXCEPT ![k].status = status,
                             ![k].aborted = IF status = "aborted" THEN time ELSE @]
        /\ r.status # status
    BY <1>2, <1>10 DEF Resolve
  <2>2. records' = [records EXCEPT ![k] = q]
    BY <1>1, <2>1 DEF Record
  <2>3. q.execs = r.execs /\ q.task = r.task /\ q.status = status
    BY <1>1 DEF Record
  <2> HIDE DEF q
  <2>4. RecordGrows(records[k], q)
    BY <2>3 DEF RecordGrows, Grows
  <2>5. ~ (AbortHeld(records[k]) /\ AbortHeld(q))
    BY <2>1, <2>3 DEF AbortHeld
  <2> QED  BY <1>1, <2>2, <2>4, <2>5, OneRecordGrows
<1> QED  BY <1>4, <1>5, <1>7, <1>8, <1>9, <1>10 DEF Next

(* Along every sequence of exports a charge is withdrawn only from a task  *)
(* that turns out not to have been aborted.                                *)
THEOREM ChargesAlwaysStand == Spec => ChargesStand
<1> DEFINE Stands == \A charge \in Charged(records) \ Charged(records') :
                       \E k \in DOMAIN records :
                         /\ records[k].task = charge[1]
                         /\ records[k].status = "aborted" /\ records'[k].status # "aborted"
<1>1. BundleInv /\ BundleInv' /\ [Next]_vars => [Stands]_vars
  <2> SUFFICES ASSUME BundleInv, BundleInv', Next PROVE Stands
    OBVIOUS
  <2>1. IsBundle(records) /\ IsBundle(records') /\ Continues(records, records')
    BY StepContinues DEF BundleInv
  <2> QED  BY <2>1, ChargesContinue
<1> QED  BY <1>1, BundleAlways, PTL DEF Spec, ChargesStand

-----------------------------------------------------------------------------
(* Money. *)

(* The total of an execution is what is measured and what is estimated.    *)
LEMMA MoneyOfExecution ==
  ASSUME NEW e, NEW r, ValidExecution(e, r)
  PROVE  /\ OfBasis(e, {"measured"}) \in Nat /\ OfBasis(e, {"estimated"}) \in Nat
         /\ e.total = OfBasis(e, {"measured"}) + OfBasis(e, {"estimated"})
<1> DEFINE D == DOMAIN e.components
           Of(bases) == {c \in D : e.components[c].basis \in bases}
           S == Of({"measured", "estimated"})
           A == Of({"measured"})
           B == Of({"estimated"})
           w == [k \in S |-> e.components[k].amount]
<1>1. /\ D \subseteq ComponentKeys /\ \A k \in D : ValidComponent(e.components[k])
      /\ e.total = OfBasis(e, {"measured", "estimated"})
  BY DEF ValidExecution, RepresentableSum
<1>2. IsFiniteSet(ComponentKeys)
  <2>1. IsFiniteSet({"inference", "tools", "ci"})
    <3>1. IsFiniteSet(((({} \cup {"inference"}) \cup {"tools"}) \cup {"ci"}))
      BY FS_EmptySet, FS_AddElement
    <3>2. ((({} \cup {"inference"}) \cup {"tools"}) \cup {"ci"}) = {"inference", "tools", "ci"}
      OBVIOUS
    <3> QED  BY <3>1, <3>2
  <2>2. ComponentKeys = {"inference", "tools", "ci"} \cup {"compute"}
    BY DEF ComponentKeys
  <2> QED  BY <2>1, <2>2, FS_AddElement
<1>3. S \in SUBSET ComponentKeys /\ A \in SUBSET S /\ S \ A = B
  BY <1>1
<1>4. \A k \in S : e.components[k].amount \in Nat
  BY <1>1 DEF ValidComponent
<1>5. IsFiniteSet(S)
  BY <1>2, <1>3, FS_Subset
<1>6. w \in [S -> Nat]
  BY <1>4
<1>7. /\ OfBasis(e, {"measured", "estimated"}) = SumFunction(w)
      /\ OfBasis(e, {"measured"}) = SumFunction(Part(w, A))
      /\ OfBasis(e, {"estimated"}) = SumFunction(Part(w, B))
  <2>1. Part(w, A) = [k \in A |-> e.components[k].amount]
    BY <1>3 DEF Part
  <2>2. Part(w, B) = [k \in B |-> e.components[k].amount]
    BY <1>3 DEF Part
  <2>3. \A bases : OfBasis(e, bases) = SumFunction([k \in Of(bases) |-> e.components[k].amount])
    BY Zenon DEF OfBasis
  <2> QED  BY <2>1, <2>2, <2>3, Zenon
<1> HIDE DEF S, A, B, w
<1>8. SumFunction(w) = SumFunction(Part(w, A)) + SumFunction(Part(w, S \ A))
  BY <1>3, <1>5, <1>6, SumSplit
<1>9. SumFunction(Part(w, A)) \in Nat /\ SumFunction(Part(w, S \ A)) \in Nat
  BY <1>3, <1>5, <1>6, SumsOfParts
<1> QED  BY <1>1, <1>3, <1>7, <1>8, <1>9

(* The cost of a record is the total of its executions. *)
LEMMA MoneyOfRecord ==
  ASSUME NEW r \in Record, ValidRecord(r)
  PROVE  /\ CostOfRecord(r, {"measured"}) \in Nat /\ CostOfRecord(r, {"estimated"}) \in Nat
         /\ [i \in DOMAIN r.execs |-> r.execs[i].total] \in [DOMAIN r.execs -> Nat]
         /\ SumFunction([i \in DOMAIN r.execs |-> r.execs[i].total])
              = CostOfRecord(r, {"measured"}) + CostOfRecord(r, {"estimated"})
<1> DEFINE D == DOMAIN r.execs
           m == [i \in D |-> OfBasis(r.execs[i], {"measured"})]
           x == [i \in D |-> OfBasis(r.execs[i], {"estimated"})]
           t == [i \in D |-> r.execs[i].total]
<1>1. D = 1..Len(r.execs) /\ Len(r.execs) \in Nat /\ \A i \in D : ValidExecution(r.execs[i], r)
  BY RecordIsValid DEF Range
<1>2. IsFiniteSet(D)
  BY <1>1, FS_Interval
<1>3. \A i \in D : m[i] \in Nat /\ x[i] \in Nat /\ t[i] = m[i] + x[i]
  BY <1>1, MoneyOfExecution
<1>4. m \in [D -> Nat] /\ x \in [D -> Nat]
  BY <1>3
<1>5. t \in [D -> Nat]
  <2>1. \A i \in D : t[i] \in Nat
    <3> HIDE DEF m, x, t
    <3> QED  BY <1>3
  <2> QED  BY <2>1
<1>6. /\ CostOfRecord(r, {"measured"}) = SumFunction(m)
      /\ CostOfRecord(r, {"estimated"}) = SumFunction(x)
  BY Zenon DEF CostOfRecord
<1> HIDE DEF m, x, t, D
<1>7. /\ IsFiniteSet(D) /\ m \in [D -> Nat] /\ x \in [D -> Nat] /\ t \in [D -> Nat]
      /\ \A i \in D : t[i] = m[i] + x[i]
  BY <1>2, <1>3, <1>4, <1>5
<1>8. SumFunction(t) = SumFunction(m) + SumFunction(x)
  BY <1>7, SumOfTwo
<1>9. SumFunction(m) \in Nat /\ SumFunction(x) \in Nat
  BY <1>7, SumType
<1> QED  BY <1>5, <1>6, <1>8, <1>9 DEF t, D

(* What is charged to a record is at most its cost. *)
LEMMA WasteOfRecord ==
  ASSUME NEW r \in Record, ValidRecord(r)
  PROVE  /\ IsFiniteSet(RecordFindings(r)) /\ \A f \in RecordFindings(r) : f.avoided \in Nat
         /\ AvoidedBy(RecordFindings(r)) \in Nat
         /\ AvoidedBy(RecordFindings(r))
              <= CostOfRecord(r, {"measured"}) + CostOfRecord(r, {"estimated"})
<1> DEFINE D == DOMAIN r.execs
           t == [i \in D |-> r.execs[i].total]
           I == {i \in D : r.execs[i] \in Proposed(r)}
           g == [i \in I |-> Finding(r, RuleFor(r, r.execs[i]), r.execs[i])]
           F == RecordFindings(r)
           v == [f \in F |-> f.avoided]
<1>1. /\ D = 1..Len(r.execs) /\ Len(r.execs) \in Nat
      /\ \A i, j \in D : r.execs[i].id = r.execs[j].id => i = j
  BY RecordIsValid
<1>2. IsFiniteSet(D) /\ I \in SUBSET D
  BY <1>1, FS_Interval
<1>3. IsFiniteSet(I)
  BY <1>2, FS_Subset
<1>4. t \in [D -> Nat]
  BY MoneyOfRecord
<1>5. \A e, rule : Finding(r, rule, e).exec = e.id /\ Finding(r, rule, e).avoided = e.total
  BY DEF Finding
<1>6. \A i \in I : r.execs[i] \in Proposed(r)
  OBVIOUS
<1>7. \A e \in Proposed(r) : \E i \in I : e = r.execs[i]
  <2>1. \A e \in Proposed(r) : \E i \in D : e = r.execs[i]
    BY ProposedOfRecord DEF Range
  <2> QED  BY <2>1
<1> HIDE DEF I, D
<1>8. F = {g[i] : i \in I}
  <2>1. ASSUME NEW f \in F PROVE \E i \in I : f = g[i]
    <3>1. PICK e \in Proposed(r) : f = Finding(r, RuleFor(r, e), e)
      BY DEF RecordFindings
    <3>2. PICK i \in I : e = r.execs[i]
      BY <1>7
    <3> QED  BY <3>1, <3>2
  <2>2. ASSUME NEW i \in I PROVE g[i] \in F
    BY <1>6 DEF RecordFindings
  <2> HIDE DEF g, F
  <2> QED  BY <2>1, <2>2
<1>9. \A i \in I : g[i].exec = r.execs[i].id /\ g[i].avoided = r.execs[i].total /\ i \in D
  BY <1>2, <1>5
<1>10. DOMAIN g = I
  OBVIOUS
<1> HIDE DEF g, F
<1>11. IsFiniteSet(F)
  BY <1>3, <1>8, <1>10, FiniteImage
<1>12. \A f \in F : f.avoided \in Nat
  <2>1. \A i \in I : t[i] = r.execs[i].total /\ t[i] \in Nat
    BY <1>4, <1>9
  <2> HIDE DEF t
  <2> QED  BY <1>8, <1>9, <2>1
<1>13. Renames(g, I, Part(t, I), F, v)
  <2>1. Part(t, I) = [i \in I |-> r.execs[i].total]
    BY <1>9 DEF Part
  <2>2. Part(t, I) \in [I -> Nat]
    <3> HIDE DEF t
    <3> QED  BY <1>2, <1>4 DEF Part
  <2>3. v \in [F -> Nat]
    BY <1>12
  <2>4. g \in [I -> F]
    <3>1. \A i \in I : g[i] \in F
      BY <1>8
    <3>2. g = [i \in I |-> g[i]]
      BY DEF g
    <3> QED  BY <3>1, <3>2
  <2>5. \A i, j \in I : g[i] = g[j] => i = j
    <3> SUFFICES ASSUME NEW i \in I, NEW j \in I, g[i] = g[j] PROVE i = j
      OBVIOUS
    <3>1. r.execs[i].id = r.execs[j].id
      BY <1>9
    <3> QED  BY <1>1, <1>9, <3>1
  <2>6. \A f \in F : \E i \in I : g[i] = f
    BY <1>8
  <2>7. \A i \in I : v[g[i]] = Part(t, I)[i]
    <3>1. \A i \in I : g[i] \in F /\ v[g[i]] = g[i].avoided
      BY <1>8
    <3> HIDE DEF v
    <3> QED  BY <1>9, <2>1, <3>1
  <2> HIDE DEF v, t
  <2> QED  BY <2>2, <2>3, <2>4, <2>5, <2>6, <2>7 DEF Renames
<1> HIDE DEF t, v
<1>14. SumFunction(Part(t, I)) = SumFunction(v)
  BY <1>3, <1>13, SumReindexed
<1>15. SumFunction(t) = SumFunction(Part(t, I)) + SumFunction(Part(t, D \ I))
  BY <1>2, <1>4, SumSplit
<1>16. SumFunction(Part(t, I)) \in Nat /\ SumFunction(Part(t, D \ I)) \in Nat
  <2>1. D \ I \in SUBSET D
    OBVIOUS
  <2> QED  BY <1>2, <1>4, <2>1, SumsOfParts
<1>17. SumFunction(t) = CostOfRecord(r, {"measured"}) + CostOfRecord(r, {"estimated"})
  BY MoneyOfRecord DEF t, D
<1>18. AvoidedBy(F) = SumFunction(v)
  BY Zenon DEF AvoidedBy, v
<1>19. AvoidedBy(F) \in Nat /\ AvoidedBy(F) <= SumFunction(t)
  BY <1>14, <1>15, <1>16, <1>18
<1> QED  BY <1>11, <1>12, <1>17, <1>19 DEF F

(* The findings of finitely many records, each with finitely many, are finitely many. *)
LEMMA DetectedFinite ==
  ASSUME NEW rs, IsList(rs), \A k \in DOMAIN rs : IsFiniteSet(RecordFindings(rs[k]))
  PROVE  IsFiniteSet(UNION {RecordFindings(rs[k]) : k \in DOMAIN rs})
<1> DEFINE N == Len(rs)
           Upto(m) == UNION {RecordFindings(rs[k]) : k \in 1..m}
           good == {m \in Nat : m <= N => IsFiniteSet(Upto(m))}
<1>1. N \in Nat /\ DOMAIN rs = 1..N
  BY DEF IsList
<1> HIDE DEF N
<1>2. 0 \in good
  <2>1. Upto(0) = {}
    OBVIOUS
  <2> QED  BY <2>1, FS_EmptySet
<1>3. ASSUME NEW m \in Nat, m \in good PROVE m + 1 \in good
  <2> SUFFICES ASSUME m + 1 <= N PROVE IsFiniteSet(Upto(m + 1))
    OBVIOUS
  <2>1. IsFiniteSet(Upto(m)) /\ IsFiniteSet(RecordFindings(rs[m + 1]))
    BY <1>1, <1>3
  <2>2. \A k : k \in 1..(m + 1) <=> k \in 1..m \/ k = m + 1
    OBVIOUS
  <2>3. Upto(m + 1) = Upto(m) \cup RecordFindings(rs[m + 1])
    BY <2>2
  <2> DEFINE old == Upto(m)
             new == RecordFindings(rs[m + 1])
  <2>4. IsFiniteSet(old \cup new)
    <3>1. IsFiniteSet(old) /\ IsFiniteSet(new)
      BY <2>1
    <3> HIDE DEF old, new
    <3> QED  BY <3>1, FS_Union
  <2> QED  BY <2>3, <2>4, Zenon
<1>4. N \in good
  <2> HIDE DEF good
  <2> QED  BY <1>1, <1>2, <1>3, NumberInduction
<1> QED  BY <1>1, <1>4

(* In the report of every exported bundle whose task ids are unique no row *)
(* is charged more than its cost, the rows charge together what the        *)
(* headline calls avoidable, and where nothing is estimated that is a      *)
(* share of the measured cost.                                             *)
THEOREM RowsAlwaysAddUp == Spec => []RowsAddUp
<1>1. BundleInv => RowsAddUp
  <2> SUFFICES ASSUME BundleInv, TasksUnique PROVE RowsAddUp
    BY DEF RowsAddUp
  <2> DEFINE K == DOMAIN records
             D == DetectCertainWaste(records)
             RF(k) == RecordFindings(records[k])
             w == [f \in D |-> f.avoided]
             key == [f \in D |-> CHOOSE k \in K : records[k].task = f.task]
             Group(k) == {f \in D : key[f] = k}
             m == [k \in K |-> CostOfRecord(records[k], {"measured"})]
             x == [k \in K |-> CostOfRecord(records[k], {"estimated"})]
             both == [k \in K |-> m[k] + x[k]]
             waste == [k \in K |-> AvoidedBy({f \in D : f.task = records[k].task})]
  <2>1. /\ IsList(records) /\ TasksDiffer(records)
        /\ \A k \in K : records[k] \in Record /\ ValidRecord(records[k])
    BY BundleIsList DEF BundleInv, TasksUnique, TasksDiffer
  <2>2. IsFiniteSet(K)
    BY <2>1, FS_Interval DEF IsList
  <2>3. \A f : f \in D <=> \E k \in K : f \in RF(k)
    BY <2>1, Detected
  <2>4. \A k \in K : /\ IsFiniteSet(RF(k)) /\ \A f \in RF(k) : f.avoided \in Nat
                     /\ AvoidedBy(RF(k)) \in Nat /\ AvoidedBy(RF(k)) <= m[k] + x[k]
    BY <2>1, WasteOfRecord
  <2>5. \A k \in K : \A f \in RF(k) : f.task = records[k].task
    BY FindingsOfRecord
  <2>6. \A k \in K : m[k] \in Nat /\ x[k] \in Nat
    BY <2>1, MoneyOfRecord
  <2>7. IsFiniteSet(D)
    <3>1. D = UNION {RF(k) : k \in K}
      BY <2>3
    <3>2. IsFiniteSet(UNION {RF(k) : k \in K})
      BY <2>1, <2>4, DetectedFinite
    <3> QED  BY <3>1, <3>2
  <2>8. \A j, k \in K : records[j].task = records[k].task => j = k
    BY <2>1 DEF TasksDiffer
  <2> HIDE DEF D, K, RF
  <2>9. \A f \in D : key[f] \in K /\ records[key[f]].task = f.task
    <3>1. \A f \in D : \E k \in K : records[k].task = f.task
      BY <2>3, <2>5
    <3> QED  BY <3>1
  <2>10. key \in [D -> K]
    BY <2>9
  <2>11. w \in [D -> Nat]
    BY <2>3, <2>4
  <2>12. ASSUME NEW k \in K
         PROVE  Group(k) = RF(k) /\ {f \in D : f.task = records[k].task} = RF(k)
    <3>1. \A f \in D : f.task = records[k].task <=> f \in RF(k)
      BY <2>3, <2>5, <2>8
    <3>2. \A f \in D : key[f] = k <=> f.task = records[k].task
      BY <2>8, <2>9
    <3>3. RF(k) \subseteq D
      BY <2>3
    <3> HIDE DEF key
    <3> QED  BY <3>1, <3>2, <3>3
  <2>13. ASSUME NEW k \in K
         PROVE  SumFunction(Part(w, Group(k))) = AvoidedBy(RF(k)) /\ waste[k] = AvoidedBy(RF(k))
    <3>1. RF(k) \subseteq D
      BY <2>3
    <3>2. Part(w, RF(k)) = [f \in RF(k) |-> f.avoided]
      BY <3>1 DEF Part
    <3>3. waste[k] = AvoidedBy({f \in D : f.task = records[k].task})
      BY Zenon
    <3> HIDE DEF w, waste, Group
    <3> QED  BY <2>12, <3>2, <3>3 DEF AvoidedBy
  <2>14. SumFunction(w) = SumFunction([k \in K |-> SumFunction(Part(w, Group(k)))])
    <3> HIDE DEF w, key
    <3> QED  BY <2>2, <2>7, <2>10, <2>11, SumGrouped
  <2>15. [k \in K |-> SumFunction(Part(w, Group(k)))] = waste
    <3>1. \A k \in K : SumFunction(Part(w, Group(k))) = waste[k]
      BY <2>13
    <3>2. waste = [k \in K |-> waste[k]]
      BY Zenon
    <3> HIDE DEF waste, w, Group
    <3> QED  BY <3>1, <3>2
  <2>16. AvoidedBy(D) = SumFunction(w)
    BY Zenon DEF AvoidedBy
  <2>17. \A k \in K : both[k] \in Nat /\ both[k] = m[k] + x[k] /\ waste[k] \in Nat /\ waste[k] <= both[k]
    <3>1. \A k \in K : both[k] = m[k] + x[k]
      BY Zenon
    <3>2. \A k \in K : waste[k] = AvoidedBy(RF(k))
      BY <2>13
    <3> HIDE DEF both, m, x, waste
    <3>3. ASSUME NEW k \in K
          PROVE  /\ both[k] = m[k] + x[k] /\ m[k] \in Nat /\ x[k] \in Nat
                 /\ waste[k] \in Nat /\ waste[k] <= m[k] + x[k]
      BY <2>4, <2>6, <3>1, <3>2
    <3> QED  BY <3>3
  <2>18. m \in [K -> Nat] /\ x \in [K -> Nat]
    BY <2>6
  <2>19. both \in [K -> Nat] /\ waste \in [K -> Nat]
    <3>1. both = [k \in K |-> both[k]] /\ waste = [k \in K |-> waste[k]]
      BY Zenon
    <3> HIDE DEF both, waste
    <3> QED  BY <2>17, <3>1
  <2>20. /\ CostOfBundle(records, {"measured"}) = SumFunction(m)
         /\ CostOfBundle(records, {"estimated"}) = SumFunction(x)
    BY Zenon DEF CostOfBundle, K
  <2>21. /\ Headline(records).measured = CostOfBundle(records, {"measured"})
         /\ Headline(records).estimated = CostOfBundle(records, {"estimated"})
         /\ Headline(records).avoidable = AvoidedBy(D)
    BY DEF Headline, D
  <2>22. /\ DOMAIN TaskLedger(records) = K
         /\ \A k \in K : /\ TaskLedger(records)[k].waste = waste[k]
                         /\ TaskLedger(records)[k].measured = m[k]
                         /\ TaskLedger(records)[k].estimated = x[k]
    <3>1. TaskLedger(records) = [k \in K |-> LedgerRow(records[k], D)]
      BY Zenon DEF TaskLedger, K, D
    <3>2. \A k : /\ LedgerRow(records[k], D).waste = AvoidedBy({f \in D : f.task = records[k].task})
                 /\ LedgerRow(records[k], D).measured = CostOfRecord(records[k], {"measured"})
                 /\ LedgerRow(records[k], D).estimated = CostOfRecord(records[k], {"estimated"})
      BY DEF LedgerRow
    <3> QED  BY <3>1, <3>2
  <2> HIDE DEF w, m, x, both, waste, key
  <2>23. SumFunction(waste) <= SumFunction(both)
    BY <2>2, <2>17, <2>19, SumBounded
  <2>24. SumFunction(both) = SumFunction(m) + SumFunction(x)
    <3>1. \A k \in K : both[k] = m[k] + x[k]
      BY <2>17
    <3> QED  BY <2>2, <2>18, <2>19, <3>1, SumOfTwo
  <2>25. SumFunction(waste) \in Nat /\ SumFunction(m) \in Nat /\ SumFunction(x) \in Nat
    BY <2>2, <2>18, <2>19, SumType
  <2>26. SumFunction(waste) = AvoidedBy(D)
    BY <2>14, <2>15, <2>16
  <2>27. [k \in DOMAIN TaskLedger(records) |-> TaskLedger(records)[k].waste] = waste
    <3>1. waste = [k \in K |-> waste[k]]
      BY Zenon DEF waste
    <3> QED  BY <2>22, <3>1
  <2>28. Headline(records).estimated = 0 => Headline(records).avoidable <= Headline(records).measured
    BY <2>20, <2>21, <2>23, <2>24, <2>25, <2>26
  <2>29. \A k \in DOMAIN TaskLedger(records) :
           TaskLedger(records)[k].waste <= TaskLedger(records)[k].measured + TaskLedger(records)[k].estimated
    BY <2>17, <2>22
  <2>30. SumFunction([k \in DOMAIN TaskLedger(records) |-> TaskLedger(records)[k].waste])
           = Headline(records).avoidable
    BY <2>21, <2>26, <2>27
  <2> QED  BY <2>28, <2>29, <2>30, Zenon DEF RowsAddUp
<1> QED  BY <1>1, BundleAlways, PTL

================================================================================
