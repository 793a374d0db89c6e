------------------------ MODULE GithubIngestionProofs ------------------------
(***************************************************************************)
(* Proofs about GithubIngestion, for every repository, every set of        *)
(* scenarios, and every order of deliveries and sweeps.  The records each  *)
(* handler emits are read one by one; sweeps and deliveries are batches of *)
(* them (Batch) and the filter makes the ledger grow by those of a batch   *)
(* that are new (Extends).  Core is the invariant of the repository and    *)
(* Books that of the ledger: it stores typed events of the tasks, each id  *)
(* once, and an id says which event it is.  What the tasks read from such  *)
(* a ledger say is told by TaskFoldProofs.                                 *)
(***************************************************************************)
EXTENDS GithubIngestion, TaskFoldProofs

USE VocabularyAssumption

-----------------------------------------------------------------------------
(* Sorting records, the way the adapter's comparisons do. *)

(* Records by time, type, order and id. *)
Keyed(r) ==
  /\ r.time \in Nat /\ TypeRank[r.ev.type] \in Nat /\ r.order \in Nat
  /\ r.id[2] \in Nat /\ r.id[3] \in Nat

Sooner(r, q) ==
  \/ r.time < q.time
  \/ /\ r.time = q.time
     /\ \/ TypeRank[r.ev.type] < TypeRank[q.ev.type]
        \/ /\ TypeRank[r.ev.type] = TypeRank[q.ev.type]
           /\ \/ r.order < q.order
              \/ /\ r.order = q.order
                 /\ \/ r.id[2] < q.id[2]
                    \/ r.id[2] = q.id[2] /\ r.id[3] < q.id[3]

(* The comparison of two tuples of five numbers, written out. *)
LEMMA FiveNumbers ==
  ASSUME NEW k, DOMAIN k = 1..5, NEW l, \A i \in 1..5 : k[i] \in Nat /\ l[i] \in Nat
  PROVE  (\E i \in DOMAIN k : k[i] < l[i] /\ \A j \in 1..(i - 1) : k[j] = l[j]) <=>
           \/ k[1] < l[1]
           \/ /\ k[1] = l[1]
              /\ \/ k[2] < l[2]
                 \/ /\ k[2] = l[2]
                    /\ \/ k[3] < l[3]
                       \/ /\ k[3] = l[3]
                          /\ \/ k[4] < l[4]
                             \/ k[4] = l[4] /\ k[5] < l[5]
<1> DEFINE P(i) == k[i] < l[i] /\ \A j \in 1..(i - 1) : k[j] = l[j]
<1>1. DOMAIN k = 1..5
  OBVIOUS
<1>2. \A i \in {1, 2, 3, 4, 5} : k[i] \in Nat /\ l[i] \in Nat
  OBVIOUS
<1>3. ASSUME NEW i \in 1..5, k[i] < l[i], \A j \in 1..(i - 1) : k[j] = l[j]
      PROVE  \/ i = 1 /\ k[1] < l[1]
             \/ i = 2 /\ k[1] = l[1] /\ k[2] < l[2]
             \/ i = 3 /\ k[1] = l[1] /\ k[2] = l[2] /\ k[3] < l[3]
             \/ i = 4 /\ k[1] = l[1] /\ k[2] = l[2] /\ k[3] = l[3] /\ k[4] < l[4]
             \/ i = 5 /\ k[1] = l[1] /\ k[2] = l[2] /\ k[3] = l[3] /\ k[4] = l[4] /\ k[5] < l[5]
  <2>1. i = 1 \/ i = 2 \/ i = 3 \/ i = 4 \/ i = 5
    OBVIOUS
  <2>2. /\ i > 1 => k[1] = l[1]
        /\ i > 2 => k[2] = l[2]
        /\ i > 3 => k[3] = l[3]
        /\ i > 4 => k[4] = l[4]
    BY <1>2, <1>3
  <2> QED  BY <1>2, <1>3, <2>1, <2>2
<1>4. /\ k[1] < l[1] => P(1)
      /\ k[1] = l[1] /\ k[2] < l[2] => P(2)
      /\ k[1] = l[1] /\ k[2] = l[2] /\ k[3] < l[3] => P(3)
      /\ k[1] = l[1] /\ k[2] = l[2] /\ k[3] = l[3] /\ k[4] < l[4] => P(4)
      /\ k[1] = l[1] /\ k[2] = l[2] /\ k[3] = l[3] /\ k[4] = l[4] /\ k[5] < l[5] => P(5)
  <2>1. /\ 1..(1 - 1) = {} /\ 1..(2 - 1) = {1} /\ 1..(3 - 1) = {1, 2}
        /\ 1..(4 - 1) = {1, 2, 3} /\ 1..(5 - 1) = {1, 2, 3, 4}
    OBVIOUS
  <2> QED  BY <1>2, <2>1
<1>5. (\E i \in DOMAIN k : k[i] < l[i] /\ \A j \in 1..(i - 1) : k[j] = l[j]) <=> \E i \in 1..5 : P(i)
  BY <1>1
<1> HIDE DEF P
<1>6. ASSUME NEW i \in 1..5, P(i)
      PROVE  \/ i = 1 /\ k[1] < l[1]
             \/ i = 2 /\ k[1] = l[1] /\ k[2] < l[2]
             \/ i = 3 /\ k[1] = l[1] /\ k[2] = l[2] /\ k[3] < l[3]
             \/ i = 4 /\ k[1] = l[1] /\ k[2] = l[2] /\ k[3] = l[3] /\ k[4] < l[4]
             \/ i = 5 /\ k[1] = l[1] /\ k[2] = l[2] /\ k[3] = l[3] /\ k[4] = l[4] /\ k[5] < l[5]
  BY <1>3, <1>6 DEF P
<1>7. 1 \in 1..5 /\ 2 \in 1..5 /\ 3 \in 1..5 /\ 4 \in 1..5 /\ 5 \in 1..5
  OBVIOUS
<1> QED  BY <1>4, <1>5, <1>6, <1>7, Zenon

(* What compareRecords compares. *)
LEMMA PrecedesIsSooner ==
  ASSUME NEW r, NEW q, Keyed(r), Keyed(q)
  PROVE  Precedes(r, q) <=> Sooner(r, q)
<1> DEFINE k == <<r.time, TypeRank[r.ev.type], r.order, r.id[2], r.id[3]>>
           l == <<q.time, TypeRank[q.ev.type], q.order, q.id[2], q.id[3]>>
<1>1. Precedes(r, q) <=> \E i \in DOMAIN k : k[i] < l[i] /\ \A j \in 1..(i - 1) : k[j] = l[j]
  BY Zenon DEF Precedes
<1>2. (\E i \in DOMAIN k : k[i] < l[i] /\ \A j \in 1..(i - 1) : k[j] = l[j]) <=>
        \/ r.time < q.time
        \/ /\ r.time = q.time
           /\ \/ TypeRank[r.ev.type] < TypeRank[q.ev.type]
              \/ /\ TypeRank[r.ev.type] = TypeRank[q.ev.type]
                 /\ \/ r.order < q.order
                    \/ /\ r.order = q.order
                       /\ \/ r.id[2] < q.id[2]
                          \/ r.id[2] = q.id[2] /\ r.id[3] < q.id[3]
  <2>1. /\ r.time \in Nat /\ TypeRank[r.ev.type] \in Nat /\ r.order \in Nat /\ r.id[2] \in Nat /\ r.id[3] \in Nat
        /\ q.time \in Nat /\ TypeRank[q.ev.type] \in Nat /\ q.order \in Nat /\ q.id[2] \in Nat /\ q.id[3] \in Nat
    BY Zenon DEF Keyed
  <2>2. /\ k[1] = r.time /\ k[2] = TypeRank[r.ev.type] /\ k[3] = r.order /\ k[4] = r.id[2] /\ k[5] = r.id[3]
        /\ l[1] = q.time /\ l[2] = TypeRank[q.ev.type] /\ l[3] = q.order /\ l[4] = q.id[2] /\ l[5] = q.id[3]
        /\ DOMAIN k = 1..5
    OBVIOUS
  <2> HIDE DEF k, l
  <2>3. \A i \in 1..5 : k[i] \in Nat /\ l[i] \in Nat
    <3>1. \A i \in 1..5 : i = 1 \/ i = 2 \/ i = 3 \/ i = 4 \/ i = 5
      OBVIOUS
    <3> QED  BY <2>1, <2>2, <3>1, Zenon
  <2>4. (\E i \in DOMAIN k : k[i] < l[i] /\ \A j \in 1..(i - 1) : k[j] = l[j]) <=>
          \/ k[1] < l[1]
          \/ /\ k[1] = l[1]
             /\ \/ k[2] < l[2]
                \/ /\ k[2] = l[2]
                   /\ \/ k[3] < l[3]
                      \/ /\ k[3] = l[3]
                         /\ \/ k[4] < l[4]
                            \/ k[4] = l[4] /\ k[5] < l[5]
    BY <2>2, <2>3, FiveNumbers, Zenon
  <2> QED  BY <2>2, <2>4, Zenon
<1> QED  BY <1>1, <1>2, Zenon DEF Sooner

(* A set of records that time, type, order and id tell apart.              *)
Sortable(records) ==
  /\ IsFiniteSet(records)
  /\ \A r \in records : Keyed(r)
  /\ \A r, q \in records :
       r.ev.type = q.ev.type /\ r.id[2] = q.id[2] /\ r.id[3] = q.id[3] => r = q

InOrder(records) == {e \in records \X records : Precedes(e[1], e[2])}

(* assembleAudit lists each of its records once, in their order, although  *)
(* types may share a rank: no two do.                                      *)
LEMMA OrderedSorts ==
  ASSUME NEW records, Sortable(records), \A r \in records : r.ev.type \in DOMAIN TypeRank
  PROVE  Sorts(Ordered(records), records, InOrder(records))
<1>1. \A s, t \in DOMAIN TypeRank : TypeRank[s] = TypeRank[t] => s = t
  BY DEF TypeRank
<1>2. \A r, q \in records : <<r, q>> \in InOrder(records) <=> Sooner(r, q)
  BY PrecedesIsSooner DEF InOrder, Sortable
<1>3. Orders(InOrder(records), records)
  <2>1. \A r \in records : ~Sooner(r, r)
    BY DEF Sooner, Sortable, Keyed
  <2>2. ASSUME NEW r \in records, NEW q \in records, r # q PROVE Sooner(r, q) \/ Sooner(q, r)
    <3>1. ~(r.ev.type = q.ev.type /\ r.id[2] = q.id[2] /\ r.id[3] = q.id[3])
      BY <2>2 DEF Sortable
    <3>2. ~(TypeRank[r.ev.type] = TypeRank[q.ev.type] /\ r.id[2] = q.id[2] /\ r.id[3] = q.id[3])
      BY <1>1, <3>1
    <3> HIDE DEF TypeRank
    <3> QED  BY <3>2 DEF Sooner, Sortable, Keyed
  <2>3. ASSUME NEW r \in records, NEW q \in records, NEW p \in records, Sooner(r, q), Sooner(q, p)
        PROVE  Sooner(r, p)
    BY <2>3 DEF Sooner, Sortable, Keyed
  <2> QED  BY <1>2, <2>1, <2>2, <2>3, Zenon DEF Orders
<1>4. ASSUME NEW r \in records
      PROVE  {q \in records : Precedes(q, r)} = Below(records, InOrder(records), r)
  BY DEF Below, InOrder
<1>5. Ordered(records) = [k \in 1..Cardinality(records) |->
                            CHOOSE r \in records : Cardinality(Below(records, InOrder(records), r)) + 1 = k]
  <2>1. Ordered(records) = [k \in 1..Cardinality(records) |->
                              CHOOSE r \in records : Cardinality({q \in records : Precedes(q, r)}) + 1 = k]
    BY Zenon DEF Ordered
  <2>2. ASSUME NEW k
        PROVE  (CHOOSE r \in records : Cardinality({q \in records : Precedes(q, r)}) + 1 = k)
                 = CHOOSE r \in records : Cardinality(Below(records, InOrder(records), r)) + 1 = k
    <3>1. \A r : r \in records /\ Cardinality({q \in records : Precedes(q, r)}) + 1 = k
                   <=> r \in records /\ Cardinality(Below(records, InOrder(records), r)) + 1 = k
      BY <1>4, Zenon
    <3> QED  BY <3>1
  <2> QED  BY <2>1, <2>2, Zenon
<1> QED  BY <1>3, <1>5, RanksSort DEF Sortable

(* A commit as the pull request lists it. *)
CommitRecord == [sha : Revisions, date : Nat]

(* The places of a list of commits by date, then by place.                 *)
Chrono(commits) ==
  {e \in (DOMAIN commits) \X (DOMAIN commits) :
     \/ commits[e[1]].date < commits[e[2]].date
     \/ commits[e[1]].date = commits[e[2]].date /\ e[1] < e[2]}

(* pr-tasks.js lists the commits of a pull request in that order.          *)
LEMMA CommitsSort ==
  ASSUME NEW commits \in Seq(CommitRecord)
  PROVE  \E pi : /\ Sorts(pi, DOMAIN commits, Chrono(commits))
                 /\ OrderCommits(commits) = [k \in DOMAIN commits |-> commits[pi[k]]]
<1> DEFINE D == DOMAIN commits
           Earlier(i, j) == \/ commits[i].date < commits[j].date
                            \/ commits[i].date = commits[j].date /\ i < j
           R == Chrono(commits)
           pi == [k \in 1..Cardinality(D) |-> CHOOSE i \in D : Cardinality(Below(D, R, i)) + 1 = k]
<1>1. /\ D = 1..Len(commits) /\ Len(commits) \in Nat
      /\ \A i \in D : commits[i].date \in Nat /\ i \in Nat
  <2>1. D = 1..Len(commits) /\ Len(commits) \in Nat /\ \A i \in D : commits[i] \in CommitRecord
    OBVIOUS
  <2>2. \A c \in CommitRecord : c.date \in Nat
    BY DEF CommitRecord
  <2> QED  BY <2>1, <2>2
<1>2. IsFiniteSet(D) /\ Cardinality(D) = Len(commits)
  <2> DEFINE n == Len(commits)
  <2>1. D = 1..n /\ n \in Nat
    BY <1>1
  <2> HIDE DEF D, n
  <2>2. IsFiniteSet(D) /\ Cardinality(D) = n
    BY <2>1, FS_Interval
  <2> QED  BY <2>2 DEF n
<1>3. \A i, j \in D : <<i, j>> \in R <=> Earlier(i, j)
  <2> SUFFICES ASSUME NEW i \in D, NEW j \in D PROVE <<i, j>> \in Chrono(commits) <=> Earlier(i, j)
    OBVIOUS
  <2>1. <<i, j>> \in (DOMAIN commits) \X (DOMAIN commits) /\ <<i, j>>[1] = i /\ <<i, j>>[2] = j
    OBVIOUS
  <2> QED  BY <2>1, Zenon DEF Chrono
<1> HIDE DEF D, R
<1>4. Orders(R, D)
  <2>1. \A i \in D : ~Earlier(i, i)
    BY <1>1
  <2>2. \A i, j \in D : i # j => Earlier(i, j) \/ Earlier(j, i)
    BY <1>1
  <2>3. \A i, j, k \in D : Earlier(i, j) /\ Earlier(j, k) => Earlier(i, k)
    BY <1>1
  <2> HIDE DEF Earlier
  <2> QED  BY <1>3, <2>1, <2>2, <2>3, Zenon DEF Orders
<1>5. Sorts(pi, D, R)
  BY <1>2, <1>4, RanksSort
<1>6. \A i \in D : {j \in D : Earlier(j, i)} = Below(D, R, i)
  BY <1>3 DEF Below
<1>7. OrderCommits(commits) = [k \in D |-> commits[CHOOSE i \in D : Cardinality({j \in D : Earlier(j, i)}) + 1 = k]]
  BY Zenon DEF OrderCommits, D
<1>8. ASSUME NEW k
      PROVE  (CHOOSE i \in D : Cardinality({j \in D : Earlier(j, i)}) + 1 = k)
               = CHOOSE i \in D : Cardinality(Below(D, R, i)) + 1 = k
  <2>1. \A i : i \in D /\ Cardinality({j \in D : Earlier(j, i)}) + 1 = k
                 <=> i \in D /\ Cardinality(Below(D, R, i)) + 1 = k
    BY <1>6, Zenon
  <2> HIDE DEF Earlier
  <2> QED  BY <2>1
<1>9. \A k \in D : pi[k] = CHOOSE i \in D : Cardinality({j \in D : Earlier(j, i)}) + 1 = k
  <2>1. D = 1..Cardinality(D)
    BY <1>1, <1>2
  <2> HIDE DEF Earlier
  <2> QED  BY <1>8, <2>1
<1> HIDE DEF pi, Earlier
<1>10. OrderCommits(commits) = [k \in D |-> commits[pi[k]]]
  BY <1>7, <1>9
<1> QED  BY <1>5, <1>10 DEF D, R

(* The places of the records the filter lets through, and their order.     *)
Fresh(records, stored) == {i \in DOMAIN records : records[i].id \notin stored}
Less(S) == {e \in S \X S : e[1] < e[2]}

Filters(pi, records, stored) ==
  LET F == Fresh(records, stored) IN
  /\ Sorts(pi, F, Less(F))
  /\ Unstored(records, stored) = [k \in 1..Cardinality(F) |-> records[pi[k]]]

(* The filter keeps the order of what it lets through.                     *)
LEMMA UnstoredSorts ==
  ASSUME NEW R, NEW records \in Seq(R), NEW stored
  PROVE  \E pi : Filters(pi, records, stored)
<1> DEFINE F == Fresh(records, stored)
           pi == [k \in 1..Cardinality(F) |-> CHOOSE i \in F : Cardinality(Below(F, Less(F), i)) + 1 = k]
<1>1. F \in SUBSET (1..Len(records)) /\ Len(records) \in Nat
  BY DEF Fresh
<1>2. IsFiniteSet(F)
  <2>1. IsFiniteSet(1..Len(records))
    BY <1>1, FS_Interval
  <2> HIDE DEF F
  <2> QED  BY <1>1, <2>1, FS_Subset
<1>3. \A i \in F : i \in Nat
  BY <1>1
<1>4. Orders(Less(F), F)
  <2> HIDE DEF F
  <2> QED  BY <1>3 DEF Less, Orders
<1>5. Sorts(pi, F, Less(F))
  BY <1>2, <1>4, RanksSort
<1>6. \A i \in F : Cardinality({j \in F : j <= i}) = Cardinality(Below(F, Less(F), i)) + 1
  <2> HIDE DEF F
  <2> TAKE i \in F
  <2>1. Below(F, Less(F), i) \in SUBSET F /\ i \notin Below(F, Less(F), i)
    BY <1>3 DEF Below, Less
  <2>2. IsFiniteSet(Below(F, Less(F), i))
    BY <1>2, <2>1, FS_Subset
  <2>3. {j \in F : j <= i} = Below(F, Less(F), i) \cup {i}
    BY <1>3 DEF Below, Less
  <2> QED  BY <2>1, <2>2, <2>3, FS_AddElement
<1>7. Unstored(records, stored) =
        [k \in 1..Cardinality(F) |-> records[CHOOSE i \in F : Cardinality({j \in F : j <= i}) = k]]
  BY Zenon DEF Unstored, Fresh
<1> HIDE DEF F
<1>8. ASSUME NEW k
      PROVE  (CHOOSE i \in F : Cardinality({j \in F : j <= i}) = k)
               = CHOOSE i \in F : Cardinality(Below(F, Less(F), i)) + 1 = k
  <2>1. \A i : i \in F /\ Cardinality({j \in F : j <= i}) = k
                 <=> i \in F /\ Cardinality(Below(F, Less(F), i)) + 1 = k
    BY <1>6, Zenon
  <2> QED  BY <2>1
<1>9. Unstored(records, stored) = [k \in 1..Cardinality(F) |-> records[pi[k]]]
  <2>1. \A k \in 1..Cardinality(F) : pi[k] = CHOOSE i \in F : Cardinality({j \in F : j <= i}) = k
    BY <1>8
  <2> HIDE DEF pi
  <2> QED  BY <1>7, <2>1
<1> HIDE DEF pi
<1>10. Filters(pi, records, stored)
  BY <1>5, <1>9, Zenon DEF F, Filters
<1> QED  BY <1>10, Zenon

-----------------------------------------------------------------------------
(* What the adapter emits. *)

Pull ==
  [number : Tasks, created : Nat, closed : Nat, merged : Nat, commits : Seq(CommitRecord)]
Attempt ==
  [run : Runs, start : Nat, jobEnd : Nat, end : Nat, status : {"passed", None}]
CheckRun == [check : Checks, end : Nat, status : {"passed", None}]
IndexEntry == [number : Agentic, branch : Branches, shas : SUBSET Revisions]

(* v is an event of task n the ledger accepts. *)
Says(v, n, type, exec, ref) ==
  v \in Event /\ Conforms(v) /\ v.task = n /\ v.type = type /\ v.exec = exec /\ v.ref = ref

(* The events of pull requests. *)
LEMMA OpenedEvent ==
  ASSUME NEW n \in Tasks
  PROVE  Says(Blank(n, "task_started"), n, "task_started", None, None)
BY DEF Says, Blank, Event, Optional, EventTypes, ComponentTypes, Conforms, IsComponent

(* The creation, merge and closing of a pull request are events of its task. *)
LEMMA SignalEvent ==
  ASSUME NEW n \in Tasks,
         NEW type \in {"pull_request_created", "pull_request_merged", "pull_request_closed"}
  PROVE  Says(Signal(n, type, PrRef(n)), n, type, None, PrRef(n))
<1> DEFINE ref == PrRef(n)
<1>1. ref \in Refs /\ ref # None
  BY IngestionAssumption
<1> HIDE DEF ref
<1>2. Says(Signal(n, type, ref), n, type, None, ref)
  BY <1>1 DEF Says, Signal, Blank, Event, Optional, EventTypes, ComponentTypes, Conforms, IsComponent
<1> QED  BY <1>2 DEF ref

(* The start of a revision is an event of its task and names its execution. *)
LEMMA StartedEvent ==
  ASSUME NEW n \in Tasks, NEW s \in Revisions
  PROVE  Says(Started(n, <<n, s>>), n, "execution_started", <<n, s>>, None)
<1> DEFINE e == <<n, s>>
<1>1. e \in Executions /\ e # None
  BY MappingAssumption
<1> HIDE DEF e
<1>2. Says(Started(n, e), n, "execution_started", e, None)
  BY <1>1 DEF Says, Started, Blank, Event, Optional, EventTypes, ComponentTypes, Conforms, IsComponent
<1> QED  BY <1>2 DEF e

(* So is its end, superseded by the revision that replaces it; *)
LEMMA SupersededEvent ==
  ASSUME NEW n \in Tasks, NEW s \in Revisions, NEW u \in Revisions
  PROVE  /\ Says(Superseded(n, <<n, s>>, <<n, u>>), n, "execution_finished", <<n, s>>, None)
         /\ Superseded(n, <<n, s>>, <<n, u>>).status = "superseded"
         /\ Superseded(n, <<n, s>>, <<n, u>>).by = <<n, u>>
<1> DEFINE e == <<n, s>>
           b == <<n, u>>
<1>1. e \in Executions /\ e # None /\ b \in Executions /\ b # None
  BY MappingAssumption
<1> HIDE DEF e, b
<1>2. /\ Says(Superseded(n, e, b), n, "execution_finished", e, None)
      /\ Superseded(n, e, b).status = "superseded" /\ Superseded(n, e, b).by = b
  BY <1>1 DEF Says, Superseded, Finished, Blank, Event, Optional, EventTypes, ComponentTypes,
              Conforms, IsComponent, ExecutionStatuses, Statuses
<1> QED  BY <1>2 DEF e, b

(* or with the end of the pull request. *)
LEMMA FinishedEvent ==
  ASSUME NEW n \in Tasks, NEW s \in Revisions, NEW status \in {"completed", "aborted"}
  PROVE  /\ Says(Finished(n, <<n, s>>, status), n, "execution_finished", <<n, s>>, None)
         /\ Finished(n, <<n, s>>, status).status = status
<1> DEFINE e == <<n, s>>
<1>1. e \in Executions /\ e # None
  BY MappingAssumption
<1> HIDE DEF e
<1>2. Says(Finished(n, e, status), n, "execution_finished", e, None) /\ Finished(n, e, status).status = status
  BY <1>1 DEF Says, Finished, Blank, Event, Optional, EventTypes, ComponentTypes,
              Conforms, IsComponent, ExecutionStatuses, Statuses
<1> QED  BY <1>2 DEF e

(* The events of CI. *)
RunEvent(n, exec, q, cost, start, finish) ==
  [Spent(n, "ci_run_recorded", exec, CiRef(q), cost)
     EXCEPT !.status = "passed", !.key = q.sha, !.rev = q.sha, !.start = start, !.finish = finish]

(* A completed run is an event of its task, with the cost it is given. *)
LEMMA CiRunEvent ==
  ASSUME NEW n \in Tasks, NEW exec \in Optional(Executions), NEW cost \in Optional(Nat),
         NEW q \in Runs, NEW start \in Nat, NEW finish \in Nat
  PROVE  /\ Says(RunEvent(n, exec, q, cost, start, finish), n, "ci_run_recorded", exec, CiRef(q))
         /\ RunEvent(n, exec, q, cost, start, finish).cost = cost
<1> DEFINE x == CiRef(q)
           l == q.sha
<1>1. x \in Refs /\ x # None /\ l \in Labels
  BY IngestionAssumption, MappingAssumption
<1> HIDE DEF x, l
<1>2. /\ Says([Spent(n, "ci_run_recorded", exec, x, cost)
                 EXCEPT !.status = "passed", !.key = l, !.rev = l, !.start = start, !.finish = finish],
              n, "ci_run_recorded", exec, x)
      /\ [Spent(n, "ci_run_recorded", exec, x, cost)
            EXCEPT !.status = "passed", !.key = l, !.rev = l, !.start = start, !.finish = finish].cost = cost
  BY <1>1 DEF Says, Spent, Signal, Blank, Event, Optional, EventTypes, ComponentTypes, Conforms, IsComponent,
              Statuses, CiRunStatuses
<1> QED  BY <1>2 DEF RunEvent, x, l

(* So is the usage of a job; *)
LEMMA ComputeEvent ==
  ASSUME NEW n \in Tasks, NEW exec \in Optional(Executions), NEW cost \in Optional(Nat), NEW q \in Runs
  PROVE  LET v == Spent(n, "compute_usage_recorded", exec, ComputeRef(q), cost)
         IN Says(v, n, "compute_usage_recorded", exec, ComputeRef(q)) /\ v.cost = cost
<1> DEFINE x == ComputeRef(q)
<1>1. x \in Refs /\ x # None
  BY IngestionAssumption
<1> HIDE DEF x
<1>2. /\ Says(Spent(n, "compute_usage_recorded", exec, x, cost), n, "compute_usage_recorded", exec, x)
      /\ Spent(n, "compute_usage_recorded", exec, x, cost).cost = cost
  BY <1>1 DEF Says, Spent, Signal, Blank, Event, Optional, EventTypes, ComponentTypes, Conforms, IsComponent
<1> QED  BY <1>2 DEF x

(* and a check run, of which no cost is known. *)
LEMMA CheckEvent ==
  ASSUME NEW n \in Tasks, NEW exec \in Optional(Executions), NEW c \in Checks
  PROVE  LET v == [Spent(n, "validation_recorded", exec, ValidationRef(c), None) EXCEPT !.status = "passed"]
         IN Says(v, n, "validation_recorded", exec, ValidationRef(c)) /\ v.cost = None
<1> DEFINE x == ValidationRef(c)
<1>1. x \in Refs /\ x # None
  BY IngestionAssumption
<1> HIDE DEF x
<1>2. LET v == [Spent(n, "validation_recorded", exec, x, None) EXCEPT !.status = "passed"]
      IN Says(v, n, "validation_recorded", exec, x) /\ v.cost = None
  BY <1>1 DEF Says, Spent, Signal, Blank, Event, Optional, EventTypes, ComponentTypes, Conforms, IsComponent,
              Statuses, ValidationStatuses
<1> QED  BY <1>2 DEF x

(* The first part of an event id and the type of the event. *)
Kinds ==
  {<<"task-started", "task_started">>, <<"pr-created", "pull_request_created">>,
   <<"pr-merged", "pull_request_merged">>, <<"pr-closed", "pull_request_closed">>,
   <<"exec-start", "execution_started">>, <<"exec-finish", "execution_finished">>,
   <<"wfrun", "ci_run_recorded">>, <<"wfjob", "compute_usage_recorded">>,
   <<"checkrun", "validation_recorded">>}

(* What an event id says of its event. *)
Honest(id, v) ==
  /\ v.type = "pull_request_merged" => id = <<"pr-merged", v.task, 0>> /\ v.ref = PrRef(v.task)
  /\ v.type = "pull_request_closed" => id = <<"pr-closed", v.task, 0>> /\ v.ref = PrRef(v.task)
  /\ v.type = "execution_started" =>
       \E i \in Nat, s \in Revisions : id = StartId(v.task, i, s) /\ v.exec = <<v.task, s>>
  /\ v.type = "execution_finished" =>
       \E i \in Nat, s \in Revisions : id = FinishId(v.task, i, s) /\ v.exec = <<v.task, s>>
  /\ v.type = "ci_run_recorded" =>
       \E q \in Runs : /\ id = RunId(q) /\ v.ref = CiRef(q)
                       /\ v.exec # None => v.exec = <<v.task, q.sha>>
  /\ v.type = "compute_usage_recorded" =>
       \E q \in Runs : /\ id = <<"wfjob", q.job, 0>> /\ v.ref = ComputeRef(q)
                       /\ v.exec # None => v.exec = <<v.task, q.sha>>
  /\ v.type = "validation_recorded" =>
       \E c \in Checks : /\ id = <<"checkrun", c.id, 0>> /\ v.ref = ValidationRef(c)
                         /\ v.exec # None => v.exec = <<v.task, c.sha>>

(* A record the adapter may emit. *)
Made(r) ==
  /\ r.time \in Nat /\ r.order \in Nat /\ r.id[2] \in Nat /\ r.id[3] \in Nat
  /\ <<r.id[1], r.ev.type>> \in Kinds
  /\ r.ev \in Event /\ Conforms(r.ev) /\ r.ev.task \in Agentic
  /\ Honest(r.id, r.ev)

(* The fields of a record. *)
LEMMA RecordFields ==
  ASSUME NEW id, NEW time, NEW order, NEW v
  PROVE  LET r == Record(id, time, order, v) IN
         r.id = id /\ r.time = time /\ r.order = order /\ r.ev = v
BY DEF Record

(* The sorted revisions of a pull request are those of its commits. *)
LEMMA RevisionsType ==
  ASSUME NEW commits \in Seq(CommitRecord)
  PROVE  /\ OrderCommits(commits) \in Seq(CommitRecord)
         /\ DOMAIN OrderCommits(commits) = 1..Len(commits)
         /\ Len(OrderCommits(commits)) = Len(commits) /\ Len(commits) \in Nat
<1> DEFINE N == Len(commits)
<1>1. PICK pi : /\ Sorts(pi, DOMAIN commits, Chrono(commits))
                /\ OrderCommits(commits) = [k \in DOMAIN commits |-> commits[pi[k]]]
  BY CommitsSort
<1>2. DOMAIN commits = 1..N /\ N \in Nat /\ \A i \in 1..N : commits[i] \in CommitRecord
  OBVIOUS
<1>3. Cardinality(1..N) = N
  <2>1. N \in Nat
    BY <1>2
  <2> HIDE DEF N
  <2> QED  BY <2>1, FS_Interval
<1>4. \A k \in 1..N : pi[k] \in 1..N
  <2> DEFINE D == DOMAIN commits
  <2>1. Sorts(pi, D, Chrono(commits)) /\ Cardinality(D) = N /\ D = 1..N
    BY <1>1, <1>2, <1>3
  <2>2. pi \in [1..Cardinality(D) -> D]
    BY <2>1, Zenon DEF Sorts
  <2> HIDE DEF D, N
  <2> QED  BY <2>1, <2>2
<1> HIDE DEF N
<1>5. OrderCommits(commits) \in [1..N -> CommitRecord]
  BY <1>1, <1>2, <1>4
<1>6. OrderCommits(commits) \in Seq(CommitRecord) /\ DOMAIN OrderCommits(commits) = 1..N
  BY <1>2, <1>5
<1>7. Len(OrderCommits(commits)) = N
  BY <1>2, <1>6
<1> QED  BY <1>2, <1>6, <1>7 DEF N

Sorted(p) == OrderCommits(p.commits)
Exec(p, i) == <<p.number, Sorted(p)[i].sha>>

(* The records of the revision at place i of pull request p. *)
StartOf(p, i) ==
  Record(StartId(p.number, i, Sorted(p)[i].sha), Sorted(p)[i].date, 2 * i, Started(p.number, Exec(p, i)))
ReplacedAt(p, i) ==
  Record(FinishId(p.number, i, Sorted(p)[i].sha), Sorted(p)[i + 1].date, 2 * i + 1,
         Superseded(p.number, Exec(p, i), Exec(p, i + 1)))
EndedAt(p, i) ==
  Record(FinishId(p.number, i, Sorted(p)[i].sha), IF p.merged # 0 THEN p.merged ELSE p.closed, 2 * i + 1,
         Finished(p.number, Exec(p, i), TerminalStatus(p)))

(* What a record of pull request p can be. *)
OfPull(r, p) ==
  \/ r = Record(<<"task-started", p.number, 0>>, p.created, 0, Blank(p.number, "task_started"))
  \/ r = Record(<<"pr-created", p.number, 0>>, p.created, 1,
                Signal(p.number, "pull_request_created", PrRef(p.number)))
  \/ \E i \in 1..Len(p.commits) : r = StartOf(p, i)
  \/ \E i \in 1..(Len(p.commits) - 1) : r = ReplacedAt(p, i)
  \/ Len(p.commits) > 0 /\ p.closed # 0 /\ r = EndedAt(p, Len(p.commits))
  \/ p.merged # 0 /\ r = MergedRecord(p, 2 * Len(p.commits) + 2)
  \/ p.merged = 0 /\ p.closed # 0 /\ r = ClosedRecord(p, 2 * Len(p.commits) + 2)

(* The mapping of a pull request emits these records. *)
LEMMA PullRecordsAre ==
  ASSUME NEW p \in Pull
  PROVE  \A r : r \in PullRecords(p) <=> OfPull(r, p)
<1> DEFINE revs == OrderCommits(p.commits)
           N == Len(p.commits)
<1>1. p.commits \in Seq(CommitRecord)
  BY DEF Pull
<1>2. DOMAIN revs = 1..N /\ Len(revs) = N /\ N \in Nat
  BY <1>1, RevisionsType
<1>3. StartRecords(p) = {StartOf(p, i) : i \in DOMAIN revs}
  BY Zenon DEF StartRecords, StartOf, Sorted, Exec
<1>4. FinishRecords(p) = {ReplacedAt(p, i) : i \in 1..(Len(revs) - 1)}
                           \cup IF Len(revs) > 0 /\ p.closed # 0 THEN {EndedAt(p, Len(revs))} ELSE {}
  BY Zenon DEF FinishRecords, ReplacedAt, EndedAt, Sorted, Exec
<1> HIDE DEF revs, N
<1>5. \A r : r \in StartRecords(p) <=> \E i \in 1..N : r = StartOf(p, i)
  BY <1>2, <1>3
<1>6. \A r : r \in FinishRecords(p) <=>
               \/ \E i \in 1..(N - 1) : r = ReplacedAt(p, i)
               \/ N > 0 /\ p.closed # 0 /\ r = EndedAt(p, N)
  BY <1>2, <1>4
<1>7. \A r : r \in TerminalSignals(p) <=>
               \/ p.merged # 0 /\ r = MergedRecord(p, 2 * N + 2)
               \/ p.merged = 0 /\ p.closed # 0 /\ r = ClosedRecord(p, 2 * N + 2)
  BY DEF TerminalSignals, N
<1>8. \A r : r \in TaskSignals(p) <=>
        \/ r = Record(<<"task-started", p.number, 0>>, p.created, 0, Blank(p.number, "task_started"))
        \/ r = Record(<<"pr-created", p.number, 0>>, p.created, 1,
                      Signal(p.number, "pull_request_created", PrRef(p.number)))
  BY DEF TaskSignals
<1> QED
  <2> SUFFICES ASSUME NEW r PROVE r \in PullRecords(p) <=> OfPull(r, p)
    OBVIOUS
  <2>1. r \in PullRecords(p) <=> r \in TaskSignals(p) \/ r \in StartRecords(p)
                                   \/ r \in FinishRecords(p) \/ r \in TerminalSignals(p)
    BY DEF PullRecords
  <2>2. OfPull(r, p) <=>
          \/ r = Record(<<"task-started", p.number, 0>>, p.created, 0, Blank(p.number, "task_started"))
          \/ r = Record(<<"pr-created", p.number, 0>>, p.created, 1,
                        Signal(p.number, "pull_request_created", PrRef(p.number)))
          \/ \E i \in 1..N : r = StartOf(p, i)
          \/ \E i \in 1..(N - 1) : r = ReplacedAt(p, i)
          \/ N > 0 /\ p.closed # 0 /\ r = EndedAt(p, N)
          \/ p.merged # 0 /\ r = MergedRecord(p, 2 * N + 2)
          \/ p.merged = 0 /\ p.closed # 0 /\ r = ClosedRecord(p, 2 * N + 2)
    BY Zenon DEF OfPull, N
  <2> QED  BY <1>5, <1>6, <1>7, <1>8, <2>1, <2>2, Zenon

(* The revisions at the places of a pull request. *)
LEMMA ExecOfPull ==
  ASSUME NEW p \in Pull, NEW i \in 1..Len(p.commits)
  PROVE  /\ Sorted(p)[i].sha \in Revisions /\ Sorted(p)[i].date \in Nat
         /\ Exec(p, i) = <<p.number, Sorted(p)[i].sha>> /\ p.number \in Tasks
         /\ i \in Nat /\ i > 0
<1>1. p.commits \in Seq(CommitRecord) /\ p.number \in Tasks
  BY DEF Pull
<1>2. Sorted(p) \in Seq(CommitRecord) /\ DOMAIN Sorted(p) = 1..Len(p.commits) /\ Len(p.commits) \in Nat
  BY <1>1, RevisionsType DEF Sorted
<1>3. Sorted(p)[i] \in CommitRecord
  BY <1>2
<1> QED  BY <1>1, <1>2, <1>3 DEF CommitRecord, Exec

(* What the records of a revision say. *)
LEMMA StartIs ==
  ASSUME NEW p \in Pull, p.number \in Agentic, NEW i \in 1..Len(p.commits)
  PROVE  /\ Made(StartOf(p, i))
         /\ StartOf(p, i).id = StartId(p.number, i, Sorted(p)[i].sha)
         /\ StartOf(p, i).time = Sorted(p)[i].date /\ StartOf(p, i).order = 2 * i
         /\ Says(StartOf(p, i).ev, p.number, "execution_started", Exec(p, i), None)
<1> DEFINE n == p.number
           s == Sorted(p)[i].sha
           r == StartOf(p, i)
           id == StartId(n, i, s)
<1>1. /\ s \in Revisions /\ Sorted(p)[i].date \in Nat /\ Exec(p, i) = <<n, s>> /\ n \in Tasks /\ i \in Nat
  BY ExecOfPull
<1>2. r.id = id /\ r.time = Sorted(p)[i].date /\ r.order = 2 * i /\ r.ev = Started(n, Exec(p, i))
  BY DEF StartOf, Record
<1>3. Says(r.ev, n, "execution_started", <<n, s>>, None)
  <2>1. r.ev = Started(n, <<n, s>>)
    BY <1>1, <1>2, Zenon
  <2> HIDE DEF n, s, r
  <2> QED  BY <1>1, <2>1, StartedEvent
<1> HIDE DEF r, n, s
<1>4. id[1] = "exec-start" /\ id[2] = n /\ id[3] = i
  BY DEF StartId
<1>5. <<id[1], r.ev.type>> \in Kinds
  BY <1>3, <1>4 DEF Kinds, Says
<1> HIDE DEF id
<1>6. Honest(id, r.ev)
  <2>1. r.ev.type = "execution_started" /\ id = StartId(r.ev.task, i, s) /\ r.ev.exec = <<r.ev.task, s>>
    BY <1>3, Zenon DEF id, Says
  <2> QED  BY <1>1, <2>1 DEF Honest
<1>7. n \in Nat /\ 2 * i \in Nat /\ n \in Agentic
  <2>1. n \in Agentic
    BY Zenon DEF n
  <2>2. n \in Nat
    BY <1>1, Zenon
  <2>3. i \in Nat
    BY <1>1, Zenon
  <2>4. 2 * i \in Nat
    BY <2>3
  <2> QED  BY <2>1, <2>2, <2>4, Zenon
<1>8. Made(r)
  BY <1>1, <1>2, <1>3, <1>4, <1>5, <1>6, <1>7 DEF Made, Says
<1> QED  BY <1>1, <1>2, <1>3, <1>8 DEF r, n, s, id

(* The end of a revision: its record, id and event. *)
LEMMA FinishIs ==
  ASSUME NEW p \in Pull, p.number \in Agentic, NEW i \in 1..Len(p.commits), NEW r,
         \/ i < Len(p.commits) /\ r = ReplacedAt(p, i)
         \/ p.closed # 0 /\ r = EndedAt(p, i)
  PROVE  /\ Made(r) /\ r.id = FinishId(p.number, i, Sorted(p)[i].sha)
         /\ Says(r.ev, p.number, "execution_finished", Exec(p, i), None)
         /\ r = ReplacedAt(p, i) /\ i < Len(p.commits) =>
              r.ev.status = "superseded" /\ r.ev.by = Exec(p, i + 1)
         /\ r = EndedAt(p, i) => r.ev.status = TerminalStatus(p)
         /\ i < Len(p.commits) /\ r = ReplacedAt(p, i) => r.time = Sorted(p)[i + 1].date
         /\ r.order = 2 * i + 1
<1> DEFINE n == p.number
           s == Sorted(p)[i].sha
           id == FinishId(n, i, s)
<1>1. /\ s \in Revisions /\ Exec(p, i) = <<n, s>> /\ n \in Tasks /\ i \in Nat
  BY ExecOfPull
<1>2. Len(p.commits) \in Nat /\ p.merged \in Nat /\ p.closed \in Nat
  BY DEF Pull
<1>3. r.id = id /\ r.order = 2 * i + 1
  BY DEF ReplacedAt, EndedAt, Record
<1>4. ASSUME i < Len(p.commits), r = ReplacedAt(p, i)
      PROVE  /\ r.time \in Nat /\ r.time = Sorted(p)[i + 1].date
             /\ r.ev.status = "superseded" /\ r.ev.by = Exec(p, i + 1)
             /\ Says(r.ev, n, "execution_finished", <<n, s>>, None)
  <2>1. i + 1 \in 1..Len(p.commits)
    BY <1>1, <1>2, <1>4
  <2> DEFINE k == i + 1
  <2>2. r.time = Sorted(p)[k].date /\ r.ev = Superseded(n, Exec(p, i), Exec(p, k))
    BY <1>4 DEF ReplacedAt, Record
  <2> HIDE DEF k
  <2>3. Sorted(p)[k].sha \in Revisions /\ Sorted(p)[k].date \in Nat /\ Exec(p, k) = <<n, Sorted(p)[k].sha>>
    BY <2>1, ExecOfPull DEF k
  <2>4. /\ Says(r.ev, n, "execution_finished", <<n, s>>, None)
        /\ r.ev.status = "superseded" /\ r.ev.by = Exec(p, k)
    <3> DEFINE u == Sorted(p)[k].sha
    <3>1. r.ev = Superseded(n, <<n, s>>, <<n, u>>) /\ u \in Revisions /\ Exec(p, k) = <<n, u>>
      BY <1>1, <2>2, <2>3
    <3> HIDE DEF u, n, s
    <3> QED  BY <1>1, <3>1, SupersededEvent
  <2> QED  BY <2>2, <2>3, <2>4 DEF k
<1>5. ASSUME p.closed # 0, r = EndedAt(p, i)
      PROVE  /\ r.time \in Nat /\ r.ev.status = TerminalStatus(p)
             /\ Says(r.ev, n, "execution_finished", <<n, s>>, None)
  <2>1. r.ev = Finished(n, Exec(p, i), TerminalStatus(p)) /\ TerminalStatus(p) \in {"completed", "aborted"}
    BY <1>5 DEF EndedAt, Record, TerminalStatus
  <2>2. r.time = IF p.merged # 0 THEN p.merged ELSE p.closed
    BY <1>5 DEF EndedAt, Record
  <2> HIDE DEF n, s
  <2>3. r.time \in Nat
    BY <1>2, <2>2
  <2>4. r.ev.status = TerminalStatus(p) /\ Says(r.ev, n, "execution_finished", <<n, s>>, None)
    <3> DEFINE t == TerminalStatus(p)
    <3>1. r.ev = Finished(n, <<n, s>>, t) /\ t \in {"completed", "aborted"}
      BY <1>1, <2>1, Zenon
    <3> HIDE DEF t
    <3>2. r.ev.status = t /\ Says(r.ev, n, "execution_finished", <<n, s>>, None)
      BY <1>1, <3>1, FinishedEvent
    <3> QED  BY <3>2 DEF t
  <2> QED  BY <2>3, <2>4
<1>6. Says(r.ev, n, "execution_finished", <<n, s>>, None) /\ r.time \in Nat
  BY <1>4, <1>5
<1>7. n \in Agentic
  OBVIOUS
<1>8. /\ r = ReplacedAt(p, i) /\ i < Len(p.commits) =>
           r.time = Sorted(p)[i + 1].date /\ r.ev.status = "superseded" /\ r.ev.by = Exec(p, i + 1)
      /\ r = EndedAt(p, i) => r.ev.status = TerminalStatus(p)
  <2>1. ASSUME r = EndedAt(p, i) PROVE r.ev.status = TerminalStatus(p)
    <3>1. r.ev = Finished(n, Exec(p, i), TerminalStatus(p)) /\ TerminalStatus(p) \in {"completed", "aborted"}
      BY <2>1 DEF EndedAt, Record, TerminalStatus
    <3> HIDE DEF n, s
    <3> QED  BY <1>1, <3>1, FinishedEvent
  <2> QED  BY <1>4, <2>1
<1> HIDE DEF n, s
<1>9. id[1] = "exec-finish" /\ id[2] = n /\ id[3] = i
  BY DEF FinishId
<1>10. <<id[1], r.ev.type>> \in Kinds
  BY <1>6, <1>9 DEF Kinds, Says
<1> HIDE DEF id
<1>11. Honest(id, r.ev)
  <2>1. r.ev.type = "execution_finished" /\ id = FinishId(r.ev.task, i, s) /\ r.ev.exec = <<r.ev.task, s>>
    BY <1>6, Zenon DEF id, Says
  <2> QED  BY <1>1, <2>1 DEF Honest
<1>12. n \in Nat /\ 2 * i + 1 \in Nat
  BY <1>1
<1>13. Made(r)
  BY <1>1, <1>3, <1>6, <1>7, <1>9, <1>10, <1>11, <1>12 DEF Made, Says
<1> QED  BY <1>1, <1>3, <1>6, <1>8, <1>13 DEF n, s, id

(* Every record of a pull request is made, and tells which it is. *)
PullRecord(r, p) ==
  /\ Made(r) /\ r.ev.task = p.number /\ r.id[2] = p.number /\ ~IsComponent(r.ev)
  /\ r.ev.type = "execution_started" =>
       \E i \in 1..Len(p.commits) : r = StartOf(p, i) /\ r.id[3] = i
  /\ r.ev.type = "execution_finished" =>
       \E i \in 1..Len(p.commits) :
         /\ r.id[3] = i
         /\ \/ i < Len(p.commits) /\ r = ReplacedAt(p, i)
            \/ i = Len(p.commits) /\ p.closed # 0 /\ r = EndedAt(p, i)
  /\ r.ev.type \notin {"execution_started", "execution_finished"} => r.id[3] = 0

(* The signals of a pull request. *)
LEMMA SignalIs ==
  ASSUME NEW p \in Pull, p.number \in Agentic, NEW order \in Nat, NEW r,
         \/ r = Record(<<"task-started", p.number, 0>>, p.created, 0, Blank(p.number, "task_started"))
         \/ r = Record(<<"pr-created", p.number, 0>>, p.created, 1,
                       Signal(p.number, "pull_request_created", PrRef(p.number)))
         \/ r = MergedRecord(p, order)
         \/ r = ClosedRecord(p, order)
  PROVE  /\ Made(r) /\ r.ev.task = p.number /\ r.id[2] = p.number /\ r.id[3] = 0
         /\ r.ev.type \in {"task_started", "pull_request_created", "pull_request_merged",
                           "pull_request_closed"}
<1> DEFINE n == p.number
           type(s) == IF s = 0 THEN "pull_request_created"
                      ELSE IF s = 1 THEN "pull_request_merged" ELSE "pull_request_closed"
<1>1. /\ n \in Tasks /\ n \in Nat /\ n \in Agentic
      /\ p.created \in Nat /\ p.merged \in Nat /\ p.closed \in Nat
  BY DEF Pull
<1> HIDE DEF n
<1>2. CASE r = Record(<<"task-started", n, 0>>, p.created, 0, Blank(n, "task_started"))
  <2>1. r.id = <<"task-started", n, 0>> /\ r.time = p.created /\ r.order = 0
    BY <1>2 DEF Record
  <2>2. Says(r.ev, n, "task_started", None, None)
    BY <1>1, <1>2, OpenedEvent DEF Record
  <2>3. r.id[1] = "task-started" /\ r.id[2] = n /\ r.id[3] = 0
    BY <2>1
  <2>4. <<r.id[1], r.ev.type>> \in Kinds /\ Honest(r.id, r.ev)
    BY <2>2, <2>3 DEF Says, Kinds, Honest
  <2>5. Made(r)
    BY <1>1, <2>1, <2>2, <2>3, <2>4 DEF Made, Says
  <2> QED  BY <2>2, <2>3, <2>5 DEF Says, n
<1>3. ASSUME NEW kind, NEW t, NEW time \in Nat, NEW o \in Nat,
             \/ kind = "pr-created" /\ t = "pull_request_created"
             \/ kind = "pr-merged" /\ t = "pull_request_merged"
             \/ kind = "pr-closed" /\ t = "pull_request_closed",
             r = Record(<<kind, n, 0>>, time, o, Signal(n, t, PrRef(n)))
      PROVE  Made(r) /\ r.ev.task = n /\ r.id[2] = n /\ r.id[3] = 0 /\ r.ev.type = t
  <2>1. r.id = <<kind, n, 0>> /\ r.time = time /\ r.order = o
    BY <1>3 DEF Record
  <2>2. Says(r.ev, n, t, None, PrRef(n))
    BY <1>1, <1>3, SignalEvent DEF Record
  <2>3. r.id[1] = kind /\ r.id[2] = n /\ r.id[3] = 0
    BY <2>1
  <2>4. <<r.id[1], r.ev.type>> \in Kinds
    BY <1>3, <2>2, <2>3 DEF Says, Kinds
  <2>5. Honest(r.id, r.ev)
    BY <1>3, <2>1, <2>2 DEF Says, Honest
  <2>6. Made(r)
    BY <1>1, <2>1, <2>2, <2>3, <2>4, <2>5 DEF Made, Says
  <2> QED  BY <2>2, <2>3, <2>6 DEF Says
<1>4. CASE r = Record(<<"pr-created", n, 0>>, p.created, 1, Signal(n, "pull_request_created", PrRef(n)))
  BY <1>1, <1>3, <1>4 DEF n
<1>5. CASE r = MergedRecord(p, order)
  BY <1>1, <1>3, <1>5 DEF MergedRecord, n
<1>6. CASE r = ClosedRecord(p, order)
  BY <1>1, <1>3, <1>6 DEF ClosedRecord, n
<1> QED  BY <1>2, <1>4, <1>5, <1>6 DEF n

(* The types that are not component types. *)
LEMMA Lifecycle ==
  ASSUME NEW v, v.type \in {"task_started", "pull_request_created", "pull_request_merged",
                            "pull_request_closed", "execution_started", "execution_finished"}
  PROVE  ~IsComponent(v)
BY DEF IsComponent, ComponentTypes

(* Every record of an agentic pull request is typed, and says which it is. *)
LEMMA PullRecordsMade ==
  ASSUME NEW p \in Pull, p.number \in Agentic, NEW r, OfPull(r, p)
  PROVE  PullRecord(r, p)
<1> DEFINE N == Len(p.commits)
<1>1. N \in Nat
  BY DEF Pull
<1>2. ASSUME NEW i \in 1..N, r = StartOf(p, i) PROVE PullRecord(r, p)
  <2>1. /\ Made(r) /\ r.id = StartId(p.number, i, Sorted(p)[i].sha)
        /\ Says(r.ev, p.number, "execution_started", Exec(p, i), None)
    BY <1>2, StartIs
  <2>2. r.id[2] = p.number /\ r.id[3] = i
    BY <2>1 DEF StartId
  <2> QED  BY <1>2, <2>1, <2>2, Lifecycle DEF PullRecord, Says
<1>3. ASSUME NEW i \in 1..N,
             \/ i < N /\ r = ReplacedAt(p, i)
             \/ i = N /\ p.closed # 0 /\ r = EndedAt(p, i)
      PROVE  PullRecord(r, p)
  <2>1. /\ Made(r) /\ r.id = FinishId(p.number, i, Sorted(p)[i].sha)
        /\ Says(r.ev, p.number, "execution_finished", Exec(p, i), None)
    BY <1>3, FinishIs
  <2>2. r.id[2] = p.number /\ r.id[3] = i
    BY <2>1 DEF FinishId
  <2> QED  BY <1>3, <2>1, <2>2, Lifecycle DEF PullRecord, Says
<1>4. ASSUME \/ r = Record(<<"task-started", p.number, 0>>, p.created, 0, Blank(p.number, "task_started"))
             \/ r = Record(<<"pr-created", p.number, 0>>, p.created, 1,
                           Signal(p.number, "pull_request_created", PrRef(p.number)))
             \/ r = MergedRecord(p, 2 * N + 2)
             \/ r = ClosedRecord(p, 2 * N + 2)
      PROVE  PullRecord(r, p)
  <2> DEFINE o == 2 * N + 2
  <2>1. o \in Nat
    BY <1>1
  <2> HIDE DEF o
  <2>2. /\ Made(r) /\ r.ev.task = p.number /\ r.id[2] = p.number /\ r.id[3] = 0
        /\ r.ev.type \in {"task_started", "pull_request_created", "pull_request_merged",
                          "pull_request_closed"}
    BY <1>4, <2>1, SignalIs DEF o
  <2> QED  BY <2>2, Lifecycle DEF PullRecord
<1>5. \A i \in 1..(N - 1) : i \in 1..N /\ i < N
  BY <1>1
<1>6. N > 0 => N \in 1..N
  BY <1>1
<1> QED  BY <1>2, <1>3, <1>4, <1>5, <1>6 DEF OfPull

(* Type and place tell the records of a pull request apart. *)
LEMMA PullRecordsDiffer ==
  ASSUME NEW p \in Pull, p.number \in Agentic, NEW r, OfPull(r, p), NEW q, OfPull(q, p),
         r.ev.type = q.ev.type, r.id[3] = q.id[3]
  PROVE  r = q
<1>1. PullRecord(r, p) /\ PullRecord(q, p)
  BY PullRecordsMade
<1>2. CASE r.ev.type = "execution_started"
  BY <1>1, <1>2, Zenon DEF PullRecord
<1>3. CASE r.ev.type = "execution_finished"
  <2>1. PICK i \in 1..Len(p.commits) :
          /\ r.id[3] = i
          /\ \/ i < Len(p.commits) /\ r = ReplacedAt(p, i)
             \/ i = Len(p.commits) /\ p.closed # 0 /\ r = EndedAt(p, i)
    BY <1>1, <1>3, Zenon DEF PullRecord
  <2>2. PICK j \in 1..Len(p.commits) :
          /\ q.id[3] = j
          /\ \/ j < Len(p.commits) /\ q = ReplacedAt(p, j)
             \/ j = Len(p.commits) /\ p.closed # 0 /\ q = EndedAt(p, j)
    BY <1>1, <1>3, Zenon DEF PullRecord
  <2>3. i = j /\ (i = Len(p.commits) => ~(i < Len(p.commits)))
    <3>1. Len(p.commits) \in Nat
      BY DEF Pull
    <3>2. i = j
      BY <2>1, <2>2, Zenon
    <3> QED  BY <3>1, <3>2
  <2> QED  BY <2>1, <2>2, <2>3, Zenon
<1>4. CASE r.ev.type \notin {"execution_started", "execution_finished"}
  <2> DEFINE n == p.number
             N == Len(p.commits)
  <2>1. n \in Tasks
    BY DEF Pull
  <2>2. ASSUME NEW i \in 1..N
        PROVE /\ r # StartOf(p, i) /\ q # StartOf(p, i)
              /\ i < N => r # ReplacedAt(p, i) /\ q # ReplacedAt(p, i)
              /\ p.closed # 0 => r # EndedAt(p, i) /\ q # EndedAt(p, i)
    <3>1. StartOf(p, i).ev.type = "execution_started"
      BY StartIs DEF Says
    <3>2. i < N => ReplacedAt(p, i).ev.type = "execution_finished"
      <4> SUFFICES ASSUME i < N PROVE ReplacedAt(p, i).ev.type = "execution_finished"
        OBVIOUS
      <4>1. i < Len(p.commits) /\ ReplacedAt(p, i) = ReplacedAt(p, i)
        OBVIOUS
      <4>2. Says(ReplacedAt(p, i).ev, p.number, "execution_finished", Exec(p, i), None)
        BY <4>1, FinishIs
      <4> QED  BY <4>2 DEF Says
    <3>3. p.closed # 0 => EndedAt(p, i).ev.type = "execution_finished"
      <4> SUFFICES ASSUME p.closed # 0 PROVE EndedAt(p, i).ev.type = "execution_finished"
        OBVIOUS
      <4>1. EndedAt(p, i) = EndedAt(p, i)
        OBVIOUS
      <4>2. Says(EndedAt(p, i).ev, p.number, "execution_finished", Exec(p, i), None)
        BY <4>1, FinishIs
      <4> QED  BY <4>2 DEF Says
    <3> QED  BY <1>4, <3>1, <3>2, <3>3
  <2>3. ASSUME NEW x, x = r \/ x = q
        PROVE  \/ x = Record(<<"task-started", n, 0>>, p.created, 0, Blank(n, "task_started"))
               \/ x = Record(<<"pr-created", n, 0>>, p.created, 1, Signal(n, "pull_request_created", PrRef(n)))
               \/ p.merged # 0 /\ x = MergedRecord(p, 2 * N + 2)
               \/ p.merged = 0 /\ p.closed # 0 /\ x = ClosedRecord(p, 2 * N + 2)
    <3>1. OfPull(x, p)
      BY <2>3
    <3>2. /\ \A i \in 1..(N - 1) : i \in 1..N /\ i < N
          /\ N > 0 => N \in 1..N
      BY DEF Pull
    <3> QED  BY <2>2, <2>3, <3>1, <3>2, Zenon DEF OfPull
  <2>4. /\ Blank(n, "task_started").type = "task_started"
        /\ Signal(n, "pull_request_created", PrRef(n)).type = "pull_request_created"
        /\ Signal(n, "pull_request_merged", PrRef(n)).type = "pull_request_merged"
        /\ Signal(n, "pull_request_closed", PrRef(n)).type = "pull_request_closed"
    BY <2>1 DEF Blank, Signal
  <2>5. /\ \A x : x = Record(<<"task-started", n, 0>>, p.created, 0, Blank(n, "task_started"))
                    => x.ev.type = "task_started"
        /\ \A x : x = Record(<<"pr-created", n, 0>>, p.created, 1, Signal(n, "pull_request_created", PrRef(n)))
                    => x.ev.type = "pull_request_created"
        /\ \A x : x = MergedRecord(p, 2 * N + 2) => x.ev.type = "pull_request_merged"
        /\ \A x : x = ClosedRecord(p, 2 * N + 2) => x.ev.type = "pull_request_closed"
    BY <2>4 DEF Record, MergedRecord, ClosedRecord
  <2> HIDE DEF n, N
  <2>6. ASSUME NEW x, x = r \/ x = q
        PROVE  /\ x.ev.type = "task_started" =>
                    x = Record(<<"task-started", n, 0>>, p.created, 0, Blank(n, "task_started"))
               /\ x.ev.type = "pull_request_created" =>
                    x = Record(<<"pr-created", n, 0>>, p.created, 1,
                               Signal(n, "pull_request_created", PrRef(n)))
               /\ x.ev.type = "pull_request_merged" => x = MergedRecord(p, 2 * N + 2)
               /\ x.ev.type = "pull_request_closed" => x = ClosedRecord(p, 2 * N + 2)
               /\ x.ev.type \in {"task_started", "pull_request_created", "pull_request_merged",
                                 "pull_request_closed"}
    BY <2>3, <2>5, <2>6
  <2> QED  BY <2>6
<1> QED  BY <1>2, <1>3, <1>4

(* A pull request has finitely many records. *)
LEMMA PullRecordsFinite ==
  ASSUME NEW p \in Pull
  PROVE  IsFiniteSet(PullRecords(p))
<1> DEFINE revs == OrderCommits(p.commits)
           N == Len(p.commits)
           starts == [i \in 1..N |-> StartOf(p, i)]
           ends == [i \in 1..N |-> ReplacedAt(p, i)]
           rest == {EndedAt(p, N), MergedRecord(p, 2 * N + 2), ClosedRecord(p, 2 * N + 2)}
           all == ({starts[i] : i \in 1..N} \cup {ends[i] : i \in 1..N}) \cup (TaskSignals(p) \cup rest)
<1>1. N \in Nat
  BY DEF Pull
<1>2. IsFiniteSet(1..N)
  BY <1>1, FS_Interval
<1>3. IsFiniteSet({starts[i] : i \in 1..N}) /\ IsFiniteSet({ends[i] : i \in 1..N})
  <2>1. DOMAIN starts = 1..N /\ DOMAIN ends = 1..N
    OBVIOUS
  <2> HIDE DEF starts, ends, N
  <2> QED  BY <1>2, <2>1, FiniteImage
<1>4. IsFiniteSet(TaskSignals(p) \cup rest)
  <2>1. \A a, b, c, d, e : IsFiniteSet({a, b} \cup {c, d, e})
    <3> TAKE a, b, c, d, e
    <3>1. {a, b} \cup {c, d, e} = (((({} \cup {a}) \cup {b}) \cup {c}) \cup {d}) \cup {e}
      OBVIOUS
    <3>2. IsFiniteSet({})
      BY FS_EmptySet
    <3>3. IsFiniteSet(((({} \cup {a}) \cup {b}) \cup {c}) \cup {d})
      <4>1. IsFiniteSet({} \cup {a})
        BY <3>2, FS_AddElement
      <4>2. IsFiniteSet(({} \cup {a}) \cup {b})
        BY <4>1, FS_AddElement
      <4>3. IsFiniteSet((({} \cup {a}) \cup {b}) \cup {c})
        BY <4>2, FS_AddElement
      <4> QED  BY <4>3, FS_AddElement
    <3> QED  BY <3>1, <3>3, FS_AddElement
  <2> QED  BY <2>1 DEF TaskSignals
<1>5. PullRecords(p) \in SUBSET all
  <2>1. ASSUME NEW r \in PullRecords(p) PROVE r \in all
    <3>1. OfPull(r, p)
      BY PullRecordsAre
    <3>2. \A i \in 1..N : StartOf(p, i) \in {starts[j] : j \in 1..N} /\ ReplacedAt(p, i) \in {ends[j] : j \in 1..N}
      OBVIOUS
    <3>3. 1..(N - 1) \subseteq 1..N
      BY <1>1
    <3> HIDE DEF starts, ends
    <3> QED  BY <3>1, <3>2, <3>3 DEF OfPull, TaskSignals
  <2> QED  BY <2>1
<1>6. IsFiniteSet(all)
  <2> DEFINE A == {starts[i] : i \in 1..N} 
             B == {ends[i] : i \in 1..N}
             C == TaskSignals(p) \cup rest
  <2> HIDE DEF A, B, C
  <2>1. IsFiniteSet(A \cup B)
    BY <1>3, FS_Union DEF A, B
  <2>2. IsFiniteSet((A \cup B) \cup C)
    BY <1>4, <2>1, FS_Union DEF C
  <2> QED  BY <2>2 DEF A, B, C
<1> HIDE DEF all
<1> QED  BY <1>5, <1>6, FS_Subset

-----------------------------------------------------------------------------
(* The records of CI. *)

RunRecord(s, e, u) ==
  Record(RunId(s.run), s.start, Unordered,
         [Spent(e.number, "ci_run_recorded", ExecutionBinding(e, s.run.sha), CiRef(s.run), RunCost(s.run, u))
            EXCEPT !.status = s.status, !.key = s.run.sha, !.rev = s.run.sha,
                   !.start = s.start, !.finish = s.end])
JobRecord(s, e, u) ==
  Record(<<"wfjob", s.run.job, 0>>, s.start, Unordered,
         Spent(e.number, "compute_usage_recorded", ExecutionBinding(e, s.run.sha),
               ComputeRef(s.run), JobCost(s.run, u)))
CheckRecord(c, e) ==
  Record(<<"checkrun", c.check.id, 0>>, c.end, Unordered,
         [Spent(e.number, "validation_recorded", ExecutionBinding(e, c.check.sha),
                ValidationRef(c.check), None) EXCEPT !.status = c.status])

(* A component bound to a revision is bound to one that index ix knows.    *)
Bound(v, ix) ==
  v.exec # None => \E e \in ix : \E s \in e.shas : v.task = e.number /\ v.exec = <<e.number, s>>

(* Runs and jobs cost what usage records u say. *)
Priced(v, u) ==
  /\ v.type = "ci_run_recorded" => \A q \in Runs : v.ref = CiRef(q) => v.cost = RunCost(q, u)
  /\ v.type = "compute_usage_recorded" => \A q \in Runs : v.ref = ComputeRef(q) => v.cost = JobCost(q, u)

Evidence(r, u, ix) ==
  Made(r) /\ IsComponent(r.ev) /\ Bound(r.ev, ix) /\ Priced(r.ev, u)

(* Refs identify run attempts. *)
LEMMA RefsOfRuns ==
  ASSUME NEW q \in Runs, NEW r \in Runs
  PROVE  /\ CiRef(q) = CiRef(r) => q = r
         /\ ComputeRef(q) = ComputeRef(r) => q = r
         /\ RunId(q) = RunId(r) => q = r
         /\ q.job = r.job => q = r
         /\ q.id \in Nat /\ q.attempt \in Nat /\ q.job \in Nat /\ q.sha \in Revisions
<1>1. /\ q.id = r.id /\ q.attempt = r.attempt => q = r
      /\ q.job = r.job => q = r
  BY IngestionAssumption
<1>2. /\ CiRef(q) = CiRef(r) => q.id = r.id /\ q.attempt = r.attempt
      /\ ComputeRef(q) = ComputeRef(r) => q.job = r.job
      /\ RunId(q) = RunId(r) => q.id = r.id /\ q.attempt = r.attempt
  BY DEF CiRef, ComputeRef, RunId
<1>3. q.id \in Nat /\ q.attempt \in Nat /\ q.job \in Nat /\ q.sha \in Revisions
  BY MappingAssumption
<1> QED  BY <1>1, <1>2, <1>3

(* What a binding is. *)
LEMMA BindingIs ==
  ASSUME NEW e \in IndexEntry, NEW s \in Revisions
  PROVE  /\ ExecutionBinding(e, s) \in Optional(Executions)
         /\ e.number \in Tasks /\ e.number \in Agentic
         /\ ExecutionBinding(e, s) # None => s \in e.shas /\ ExecutionBinding(e, s) = <<e.number, s>>
<1>1. e.number \in Tasks /\ e.number \in Agentic
  BY MappingAssumption DEF IndexEntry
<1>2. <<e.number, s>> \in Executions
  BY <1>1, MappingAssumption
<1> QED  BY <1>1, <1>2 DEF ExecutionBinding, Optional

(* What is said of a run that completed. *)
LEMMA RunRecordIs ==
  ASSUME NEW s \in Attempt, NEW ix \in SUBSET IndexEntry, NEW e \in ix, NEW u, Terminal(s)
  PROVE  /\ Evidence(RunRecord(s, e, u), u, ix)
         /\ RunRecord(s, e, u).ev.type = "ci_run_recorded" /\ RunRecord(s, e, u).id = RunId(s.run)
<1> DEFINE q == s.run
           n == e.number
           x == ExecutionBinding(e, q.sha)
           cost == RunCost(q, u)
           start == s.start
           end == s.end
           v == RunEvent(n, x, q, cost, start, end)
           r == RunRecord(s, e, u)
<1>1. /\ q \in Runs /\ start \in Nat /\ end \in Nat /\ s.status = "passed" /\ e \in IndexEntry
  BY DEF Attempt, Terminal
<1>2. r = Record(RunId(q), start, Unordered, v)
  BY <1>1 DEF RunRecord, RunEvent
<1>3. /\ q.sha \in Revisions /\ q.id \in Nat /\ q.attempt \in Nat
      /\ \A p \in Runs : (CiRef(p) = CiRef(q) => p = q) /\ (ComputeRef(p) = ComputeRef(q) => p = q)
  <2> HIDE DEF q
  <2> QED  BY <1>1, RefsOfRuns
<1>4. x \in Optional(Executions) /\ n \in Tasks /\ n \in Agentic /\ (x # None => q.sha \in e.shas /\ x = <<n, q.sha>>)
  BY <1>1, <1>3, BindingIs
<1>5. cost \in Optional(Nat)
  BY DEF RunCost, Optional
<1> HIDE DEF q, n, x, cost, start, end
<1>6. Says(v, n, "ci_run_recorded", x, CiRef(q)) /\ v.cost = cost
  <2>1. q \in Runs /\ n \in Tasks /\ x \in Optional(Executions) /\ cost \in Optional(Nat)
        /\ start \in Nat /\ end \in Nat
    BY <1>1, <1>4, <1>5, Zenon
  <2>2. /\ Says(RunEvent(n, x, q, cost, start, end), n, "ci_run_recorded", x, CiRef(q))
        /\ RunEvent(n, x, q, cost, start, end).cost = cost
    BY <2>1, CiRunEvent
  <2> QED  BY <2>2, Zenon DEF v
<1> HIDE DEF v, r
<1>7. r.id = RunId(q) /\ r.time = start /\ r.order = 1000 /\ r.ev = v
  BY <1>2 DEF Record, Unordered
<1>8. /\ v \in Event /\ Conforms(v) /\ v.task = n /\ v.type = "ci_run_recorded" /\ v.exec = x /\ v.ref = CiRef(q)
      /\ v.cost = cost
  BY <1>6, Zenon DEF Says
<1>9. r.id[1] = "wfrun" /\ r.id[2] = q.id /\ r.id[3] = q.attempt
  BY <1>7 DEF RunId
<1>10. Honest(r.id, v)
  BY <1>1, <1>4, <1>7, <1>8 DEF Honest
<1>11. <<r.id[1], v.type>> \in Kinds
  BY <1>8, <1>9 DEF Kinds
<1>12. Made(r)
  BY <1>1, <1>3, <1>4, <1>7, <1>8, <1>9, <1>10, <1>11 DEF Made
<1>13. IsComponent(v)
  BY <1>8 DEF IsComponent, ComponentTypes
<1>14. Bound(v, ix)
  BY <1>4, <1>8 DEF Bound, n
<1>15. Priced(v, u)
  BY <1>3, <1>8 DEF Priced, cost
<1> QED  BY <1>7, <1>8, <1>12, <1>13, <1>14, <1>15 DEF Evidence, r, q

(* What is said of a job that ended. *)
LEMMA JobRecordIs ==
  ASSUME NEW s \in Attempt, NEW ix \in SUBSET IndexEntry, NEW e \in ix, NEW u
  PROVE  /\ Evidence(JobRecord(s, e, u), u, ix)
         /\ JobRecord(s, e, u).ev.type = "compute_usage_recorded"
         /\ JobRecord(s, e, u).id = <<"wfjob", s.run.job, 0>>
<1> DEFINE q == s.run
           n == e.number
           x == ExecutionBinding(e, q.sha)
           cost == JobCost(q, u)
           start == s.start
           v == Spent(n, "compute_usage_recorded", x, ComputeRef(q), cost)
           r == JobRecord(s, e, u)
<1>1. q \in Runs /\ start \in Nat /\ e \in IndexEntry
  BY DEF Attempt
<1>2. r = Record(<<"wfjob", q.job, 0>>, start, Unordered, v)
  BY DEF JobRecord
<1>3. /\ q.sha \in Revisions /\ q.job \in Nat
      /\ \A p \in Runs : (ComputeRef(p) = ComputeRef(q) => p = q)
  <2> HIDE DEF q
  <2> QED  BY <1>1, RefsOfRuns
<1>4. x \in Optional(Executions) /\ n \in Tasks /\ n \in Agentic /\ (x # None => q.sha \in e.shas /\ x = <<n, q.sha>>)
  BY <1>1, <1>3, BindingIs
<1>5. cost \in Optional(Nat)
  BY DEF JobCost, Optional
<1> HIDE DEF q, n, x, cost, start
<1>6. Says(v, n, "compute_usage_recorded", x, ComputeRef(q)) /\ v.cost = cost
  BY <1>1, <1>4, <1>5, ComputeEvent
<1> HIDE DEF v, r
<1>7. r.id = <<"wfjob", q.job, 0>> /\ r.time = start /\ r.order = 1000 /\ r.ev = v
  BY <1>2 DEF Record, Unordered
<1>8. /\ v \in Event /\ Conforms(v) /\ v.task = n /\ v.type = "compute_usage_recorded" /\ v.exec = x
      /\ v.ref = ComputeRef(q) /\ v.cost = cost
  BY <1>6, Zenon DEF Says
<1>9. r.id[1] = "wfjob" /\ r.id[2] = q.job /\ r.id[3] = 0
  BY <1>7
<1>10. Honest(r.id, v)
  BY <1>1, <1>4, <1>7, <1>8 DEF Honest
<1>11. <<r.id[1], v.type>> \in Kinds
  BY <1>8, <1>9 DEF Kinds
<1>12. Made(r)
  BY <1>1, <1>3, <1>4, <1>7, <1>8, <1>9, <1>10, <1>11 DEF Made
<1>13. IsComponent(v)
  BY <1>8 DEF IsComponent, ComponentTypes
<1>14. Bound(v, ix)
  BY <1>4, <1>8 DEF Bound, n
<1>15. Priced(v, u)
  BY <1>3, <1>8 DEF Priced, cost
<1>16. r.id = <<"wfjob", s.run.job, 0>>
  BY <1>7 DEF q
<1> QED  BY <1>7, <1>8, <1>12, <1>13, <1>14, <1>15, <1>16 DEF Evidence, r

(* What is said of a check that completed. *)
LEMMA CheckRecordIs ==
  ASSUME NEW c \in CheckRun, NEW ix \in SUBSET IndexEntry, NEW e \in ix, NEW u, Terminal(c)
  PROVE  /\ Evidence(CheckRecord(c, e), u, ix)
         /\ CheckRecord(c, e).ev.type = "validation_recorded"
         /\ CheckRecord(c, e).id = <<"checkrun", c.check.id, 0>>
<1> DEFINE q == c.check
           n == e.number
           x == ExecutionBinding(e, q.sha)
           end == c.end
           v == [Spent(n, "validation_recorded", x, ValidationRef(q), None) EXCEPT !.status = "passed"]
           r == CheckRecord(c, e)
<1>1. q \in Checks /\ end \in Nat /\ c.status = "passed" /\ e \in IndexEntry
  BY DEF CheckRun, Terminal
<1>2. r = Record(<<"checkrun", q.id, 0>>, end, Unordered, v)
  BY <1>1 DEF CheckRecord
<1>3. q.sha \in Revisions /\ q.id \in Nat
  <2> HIDE DEF q
  <2> QED  BY <1>1, MappingAssumption
<1>4. x \in Optional(Executions) /\ n \in Tasks /\ n \in Agentic /\ (x # None => q.sha \in e.shas /\ x = <<n, q.sha>>)
  BY <1>1, <1>3, BindingIs
<1> HIDE DEF q, n, x, end
<1>6. Says(v, n, "validation_recorded", x, ValidationRef(q))
  BY <1>1, <1>4, CheckEvent
<1> HIDE DEF v, r
<1>7. r.id = <<"checkrun", q.id, 0>> /\ r.time = end /\ r.order = 1000 /\ r.ev = v
  BY <1>2 DEF Record, Unordered
<1>8. /\ v \in Event /\ Conforms(v) /\ v.task = n /\ v.type = "validation_recorded" /\ v.exec = x
      /\ v.ref = ValidationRef(q)
  BY <1>6, Zenon DEF Says
<1>9. r.id[1] = "checkrun" /\ r.id[2] = q.id /\ r.id[3] = 0
  BY <1>7
<1>10. Honest(r.id, v)
  BY <1>1, <1>4, <1>7, <1>8 DEF Honest
<1>11. <<r.id[1], v.type>> \in Kinds
  BY <1>8, <1>9 DEF Kinds
<1>12. Made(r)
  BY <1>1, <1>3, <1>4, <1>7, <1>8, <1>9, <1>10, <1>11 DEF Made
<1>13. IsComponent(v)
  BY <1>8 DEF IsComponent, ComponentTypes
<1>14. Bound(v, ix)
  BY <1>4, <1>8 DEF Bound, n
<1>15. Priced(v, u)
  BY <1>8 DEF Priced
<1>16. r.id = <<"checkrun", c.check.id, 0>>
  BY <1>7 DEF q
<1> QED  BY <1>7, <1>8, <1>12, <1>13, <1>14, <1>15, <1>16 DEF Evidence, r

(* Entries of which there is at most one, all of index ix. *)
AtMostOne(entries, ix) == entries \in SUBSET ix /\ \A e, f \in entries : e = f

(* The lowest entry is an entry. *)
LEMMA LowestIs ==
  ASSUME NEW entries \in SUBSET IndexEntry, entries # {}
  PROVE  Lowest(entries) \in entries
<1> DEFINE numbers == {e.number : e \in entries}
<1>1. numbers \in SUBSET Nat /\ numbers # {}
  <2>1. \A e \in entries : e.number \in Nat
    BY MappingAssumption DEF IndexEntry
  <2> QED  BY <2>1
<1>2. PICK m \in numbers : \A k \in numbers : m <= k
  <2> HIDE DEF numbers
  <2> QED  BY <1>1, LeastNatural
<1>3. PICK e \in entries : e.number = m
  BY <1>2
<1>4. \A f \in entries : e.number <= f.number
  BY <1>2, <1>3
<1>5. \E e0 \in entries : \A f \in entries : e0.number <= f.number
  BY <1>4
<1> QED  BY <1>5, Zenon DEF Lowest

(* A run is bound to at most one pull request, and so is a check. *)
LEMMA CorrelateIs ==
  ASSUME NEW ix \in SUBSET IndexEntry, IsFiniteSet(ix), NEW run
  PROVE  AtMostOne(CorrelateWorkflowRun(run, ix), ix)
<1> DEFINE explicit == {e \in ix : e.number \in run.links}
           onBranch == {e \in ix : e.branch = run.branch}
           withSha == {e \in onBranch : run.sha \in e.shas}
           bound == CorrelateWorkflowRun(run, ix)
<1>1. bound = CASE explicit # {} -> {Lowest(explicit)}
                [] explicit = {} /\ Cardinality(onBranch) = 1 -> onBranch
                [] explicit = {} /\ Cardinality(onBranch) > 1 /\ Cardinality(withSha) = 1 -> withSha
                [] OTHER -> {}
  BY Zenon DEF CorrelateWorkflowRun
<1>2. explicit \in SUBSET ix /\ onBranch \in SUBSET ix /\ withSha \in SUBSET ix
  OBVIOUS
<1> HIDE DEF explicit, onBranch, withSha, bound
<1>3. ASSUME NEW S \in SUBSET ix, Cardinality(S) = 1 PROVE AtMostOne(S, ix)
  <2>1. IsFiniteSet(S)
    BY FS_Subset
  <2>2. PICK x : S = {x}
    BY <1>3, <2>1, FS_Singleton
  <2> QED  BY <2>2 DEF AtMostOne
<1>4. explicit # {} => Lowest(explicit) \in ix
  BY <1>2, LowestIs
<1>5. explicit # {} => AtMostOne({Lowest(explicit)}, ix)
  BY <1>4 DEF AtMostOne
<1>6. AtMostOne({}, ix)
  BY DEF AtMostOne
<1>7. AtMostOne(bound, ix)
  <2>1. CASE explicit # {}
    <3>1. bound = {Lowest(explicit)}
      BY <1>1, <2>1
    <3> QED  BY <1>5, <2>1, <3>1
  <2>2. CASE explicit = {} /\ Cardinality(onBranch) = 1
    <3>1. bound = onBranch
      BY <1>1, <2>2
    <3> QED  BY <1>2, <1>3, <2>2, <3>1
  <2>3. CASE explicit = {} /\ Cardinality(onBranch) > 1 /\ Cardinality(withSha) = 1
    <3>1. Cardinality(onBranch) # 1
      BY <2>3
    <3>2. bound = withSha
      BY <1>1, <2>3, <3>1
    <3> QED  BY <1>2, <1>3, <2>3, <3>2
  <2>4. CASE /\ explicit = {} /\ Cardinality(onBranch) # 1
             /\ ~(Cardinality(onBranch) > 1 /\ Cardinality(withSha) = 1)
    <3>1. bound = {}
      BY <1>1, <2>4
    <3> QED  BY <1>6, <3>1
  <2> QED  BY <2>1, <2>2, <2>3, <2>4, Zenon
<1> QED  BY <1>7 DEF bound

(* A revision belongs to at most one pull request. *)
LEMMA OwnerIs ==
  ASSUME NEW ix \in SUBSET IndexEntry, NEW sha
  PROVE  AtMostOne(RevisionOwner(sha, ix), ix)
<1> DEFINE owners == Owners(sha, ix)
<1>1. owners \in SUBSET ix
  BY DEF Owners
<1>2. RevisionOwner(sha, ix) = IF owners = {} THEN {} ELSE {Lowest(owners)}
  BY Zenon DEF RevisionOwner
<1> HIDE DEF owners
<1>3. owners # {} => Lowest(owners) \in ix
  BY <1>1, LowestIs
<1> QED  BY <1>2, <1>3 DEF AtMostOne

(* The mapping of CI emits these records. *)
LEMMA RunRecordsAre ==
  ASSUME NEW s, NEW entries, NEW u
  PROVE  \A r : r \in RunRecords(s, entries, u) <=> Terminal(s) /\ \E e \in entries : r = RunRecord(s, e, u)
<1>1. RunRecords(s, entries, u) = {RunRecord(s, e, u) : e \in {f \in entries : Terminal(s)}}
  BY Zenon DEF RunRecords, RunRecord
<1> QED  BY <1>1

(* The records of a job: one for each entry of the index it is correlated with. *)
LEMMA JobRecordsAre ==
  ASSUME NEW s, NEW entries, NEW u
  PROVE  \A r : r \in JobRecords(s, entries, u) <=> s.jobEnd # 0 /\ \E e \in entries : r = JobRecord(s, e, u)
<1>1. JobRecords(s, entries, u) = {JobRecord(s, e, u) : e \in {f \in entries : s.jobEnd # 0}}
  BY Zenon DEF JobRecords, JobRecord
<1> QED  BY <1>1

(* The records of a check: one for the entry that lists its revision. *)
LEMMA CheckRecordsAre ==
  ASSUME NEW c, NEW ix
  PROVE  \A r : r \in CheckRecords(c, ix) <=>
                 Terminal(c) /\ \E e \in RevisionOwner(c.check.sha, ix) : r = CheckRecord(c, e)
<1>1. CheckRecords(c, ix) = {CheckRecord(c, e) : e \in {f \in RevisionOwner(c.check.sha, ix) : Terminal(c)}}
  BY Zenon DEF CheckRecords, CheckRecord
<1> QED  BY <1>1

-----------------------------------------------------------------------------
(* What a sweep and a delivery emit. *)

(* Records that can be sorted, whose components are bound and priced.      *)
Batch(S, u, ix) ==
  /\ IsFiniteSet(S)
  /\ \A r \in S : Made(r) /\ (IsComponent(r.ev) => Bound(r.ev, ix) /\ Priced(r.ev, u))
  /\ \A r, q \in S : r.ev.type = q.ev.type /\ r.id[2] = q.id[2] /\ r.id[3] = q.id[3] => r = q

(* The type of a made record has a rank, and its id tells the type. *)
LEMMA MadeKind ==
  ASSUME NEW r, Made(r)
  PROVE  /\ r.ev.type \in DOMAIN TypeRank /\ TypeRank[r.ev.type] \in Nat
         /\ \A q : Made(q) /\ r.id[1] = q.id[1] => r.ev.type = q.ev.type
<1>1. <<r.id[1], r.ev.type>> \in Kinds
  BY DEF Made
<1>2. r.ev.type \in DOMAIN TypeRank /\ TypeRank[r.ev.type] \in Nat
  BY <1>1 DEF Kinds, TypeRank
<1>3. ASSUME NEW q, Made(q), r.id[1] = q.id[1] PROVE r.ev.type = q.ev.type
  <2>1. <<q.id[1], q.ev.type>> \in Kinds
    BY <1>3 DEF Made
  <2> QED  BY <1>1, <1>3, <2>1 DEF Kinds
<1> QED  BY <1>2, <1>3

(* A batch is sorted, and ids identify its records. *)
LEMMA BatchSorts ==
  ASSUME NEW S, NEW u, NEW ix, Batch(S, u, ix)
  PROVE  /\ Sorts(Ordered(S), S, InOrder(S))
         /\ \A r, q \in S : r.id = q.id => r = q
<1>1. \A r \in S : Made(r)
  BY DEF Batch
<1>2. \A r \in S : Keyed(r) /\ r.ev.type \in DOMAIN TypeRank
  <2> SUFFICES ASSUME NEW r \in S PROVE Keyed(r) /\ r.ev.type \in DOMAIN TypeRank
    OBVIOUS
  <2>1. Made(r)
    BY <1>1
  <2>2. r.ev.type \in DOMAIN TypeRank /\ TypeRank[r.ev.type] \in Nat
    BY <2>1, MadeKind
  <2> QED  BY <2>1, <2>2 DEF Keyed, Made
<1>3. Sortable(S)
  BY <1>2 DEF Sortable, Batch
<1>4. Sorts(Ordered(S), S, InOrder(S))
  BY <1>2, <1>3, OrderedSorts
<1>5. ASSUME NEW r \in S, NEW q \in S, r.id = q.id PROVE r = q
  <2>1. r.ev.type = q.ev.type
    BY <1>1, <1>5, MadeKind
  <2> QED  BY <1>5, <2>1 DEF Batch
<1> QED  BY <1>4, <1>5

(* The repository, as far as it is mapped. *)
Repository ==
  /\ pulls \in [Tasks -> Pull] /\ \A n \in Tasks : pulls[n].number = n
  /\ ci \in [Runs -> Attempt] /\ \A q \in Runs : ci[q].run = q
  /\ checks \in [Checks -> CheckRun] /\ \A c \in Checks : checks[c].check = c
  /\ usage \in SUBSET Runs

SweepIndex == PrIndex(OpenedPulls)

(* What a sweep collects of the runs and the checks. *)
CiSet ==
  UNION {JobRecords(ci[q], CorrelateWorkflowRun(q, SweepIndex), usage)
           \cup RunRecords(ci[q], CorrelateWorkflowRun(q, SweepIndex), usage) : q \in ListedRuns}
CheckSet == UNION {CheckRecords(checks[c], SweepIndex) : c \in ProbedChecks}
PullSet == UNION {PullRecords(pulls[n]) : n \in Opened \cap Agentic}
AuditSet == PullSet \cup CiSet \cup CheckSet

(* A sweep sorts these records. *)
LEMMA AuditIs ==
  ASSUME Repository
  PROVE  Audit = Ordered(AuditSet)
<1> DEFINE Ci(s) == JobRecords(s, CorrelateWorkflowRun(s.run, SweepIndex), usage)
                      \cup RunRecords(s, CorrelateWorkflowRun(s.run, SweepIndex), usage)
           A == UNION {PullRecords(p) : p \in {q \in OpenedPulls : q.number \in Agentic}}
           B == UNION {Ci(s) : s \in {ci[r] : r \in ListedRuns}}
           C == UNION {CheckRecords(c, SweepIndex) : c \in {checks[c] : c \in ProbedChecks}}
<1>1. Audit = Ordered(A \cup B \cup C)
  BY Zenon DEF Audit, AssembleAudit, SweepIndex
<1>2. A = PullSet
  <2>1. {q \in OpenedPulls : q.number \in Agentic} = {pulls[n] : n \in Opened \cap Agentic}
    BY DEF OpenedPulls, Opened, Repository
  <2> QED  BY <2>1 DEF PullSet
<1>3. B = CiSet
  <2>1. \A r \in ListedRuns : ci[r].run = r
    BY DEF ListedRuns, Repository
  <2>2. {Ci(s) : s \in {ci[r] : r \in ListedRuns}} = {Ci(ci[r]) : r \in ListedRuns}
    <3> HIDE DEF Ci
    <3> QED  OBVIOUS
  <2>3. \A r \in ListedRuns :
          Ci(ci[r]) = JobRecords(ci[r], CorrelateWorkflowRun(r, SweepIndex), usage)
                        \cup RunRecords(ci[r], CorrelateWorkflowRun(r, SweepIndex), usage)
    BY <2>1
  <2> HIDE DEF Ci
  <2> QED  BY <2>2, <2>3 DEF CiSet
<1>4. C = CheckSet
  BY DEF CheckSet
<1> HIDE DEF A, B, C
<1> QED  BY <1>1, <1>2, <1>3, <1>4 DEF AuditSet

(* The index of a sweep. *)
LEMMA SweepIndexIs ==
  ASSUME Repository
  PROVE  /\ SweepIndex \in SUBSET IndexEntry /\ IsFiniteSet(SweepIndex)
         /\ \A e \in SweepIndex : /\ e.number \in Opened \cap Agentic
                                  /\ e.shas = Shas(e.number)
<1> DEFINE f == [n \in Opened \cap Agentic |-> Entry(pulls[n])]
<1>1. SweepIndex = {f[n] : n \in Opened \cap Agentic}
  <2>1. {q \in OpenedPulls : q.number \in Agentic} = {pulls[n] : n \in Opened \cap Agentic}
    BY DEF OpenedPulls, Opened, Repository
  <2> QED  BY <2>1 DEF SweepIndex, PrIndex
<1>2. ASSUME NEW n \in Opened \cap Agentic
      PROVE  f[n] \in IndexEntry /\ f[n].number = n /\ f[n].shas = Shas(n)
  <2>1. pulls[n] \in Pull /\ pulls[n].number = n /\ n \in Tasks
    BY DEF Opened, Repository
  <2>2. f[n] = [number |-> n, branch |-> HeadBranch[n], shas |-> Shas(n)]
    BY <2>1 DEF Entry, Shas
  <2>3. HeadBranch[n] \in Branches
    BY <2>1, MappingAssumption
  <2>4. Shas(n) \in SUBSET Revisions
    <3>1. pulls[n].commits \in Seq(CommitRecord)
      BY <2>1 DEF Pull
    <3>2. \A i \in DOMAIN pulls[n].commits : pulls[n].commits[i] \in CommitRecord
      BY <3>1
    <3> QED  BY <3>2 DEF Shas, CommitRecord
  <2> QED  BY <2>2, <2>3, <2>4 DEF IndexEntry
<1>3. IsFiniteSet(Opened \cap Agentic)
  <2>1. Opened \cap Agentic \in SUBSET Tasks
    BY DEF Opened
  <2> QED  BY <2>1, FS_Subset
<1>4. IsFiniteSet({f[n] : n \in Opened \cap Agentic})
  <2>1. DOMAIN f = Opened \cap Agentic
    OBVIOUS
  <2> HIDE DEF f
  <2> QED  BY <1>3, <2>1, FiniteImage
<1> HIDE DEF f
<1>5. ASSUME NEW e \in SweepIndex PROVE e \in IndexEntry /\ e.number \in Opened \cap Agentic /\ e.shas = Shas(e.number)
  <2>1. PICK n \in Opened \cap Agentic : e = f[n]
    BY <1>1
  <2> QED  BY <1>2, <2>1
<1> QED  BY <1>1, <1>4, <1>5

(* A set of at most one element is finite. *)
LEMMA AtMostOneFinite ==
  ASSUME NEW S, \A r, q \in S : r = q
  PROVE  IsFiniteSet(S)
<1>1. CASE S = {}
  BY <1>1, FS_EmptySet
<1>2. CASE S # {}
  <2>1. PICK x : x \in S
    BY <1>2
  <2>2. S = {x}
    BY <2>1
  <2>3. IsFiniteSet({x})
    BY FS_Singleton, Zenon
  <2> QED  BY <2>2, <2>3
<1> QED  BY <1>1, <1>2

(* The records of a run attempt that has its entries. *)
LEMMA RunBatch ==
  ASSUME NEW s \in Attempt, NEW ix \in SUBSET IndexEntry, NEW entries, AtMostOne(entries, ix), NEW u
  PROVE  /\ Batch(RunRecords(s, entries, u), u, ix)
         /\ \A r \in RunRecords(s, entries, u) : r.ev.type = "ci_run_recorded" /\ r.id = RunId(s.run)
         /\ Batch(JobRecords(s, entries, u), u, ix)
         /\ \A r \in JobRecords(s, entries, u) :
              r.ev.type = "compute_usage_recorded" /\ r.id = <<"wfjob", s.run.job, 0>>
<1>1. ASSUME NEW S, \A r, q \in S : r = q, \A r \in S : Evidence(r, u, ix)
      PROVE  Batch(S, u, ix)
  <2>1. IsFiniteSet(S)
    BY <1>1, AtMostOneFinite
  <2> QED  BY <1>1, <2>1 DEF Batch, Evidence
<1>2. \A e \in entries : e \in ix
  BY DEF AtMostOne
<1>3. \A e, f \in entries : e = f
  BY DEF AtMostOne
<1>4. /\ Batch(RunRecords(s, entries, u), u, ix)
      /\ \A r \in RunRecords(s, entries, u) : r.ev.type = "ci_run_recorded" /\ r.id = RunId(s.run)
  <2> DEFINE S == RunRecords(s, entries, u)
  <2>1. \A r : r \in S <=> Terminal(s) /\ \E e \in entries : r = RunRecord(s, e, u)
    BY RunRecordsAre
  <2> HIDE DEF S
  <2>2. ASSUME NEW r \in S PROVE Evidence(r, u, ix) /\ r.ev.type = "ci_run_recorded" /\ r.id = RunId(s.run)
    <3>1. PICK e \in entries : r = RunRecord(s, e, u)
      BY <2>1
    <3>2. e \in ix /\ Terminal(s)
      BY <1>2, <2>1
    <3> QED  BY <3>1, <3>2, RunRecordIs
  <2>3. \A r, q \in S : r = q
    BY <1>3, <2>1
  <2> QED  BY <1>1, <2>2, <2>3 DEF S
<1>5. /\ Batch(JobRecords(s, entries, u), u, ix)
      /\ \A r \in JobRecords(s, entries, u) :
           r.ev.type = "compute_usage_recorded" /\ r.id = <<"wfjob", s.run.job, 0>>
  <2> DEFINE S == JobRecords(s, entries, u)
  <2>1. \A r : r \in S <=> s.jobEnd # 0 /\ \E e \in entries : r = JobRecord(s, e, u)
    BY JobRecordsAre
  <2> HIDE DEF S
  <2>2. ASSUME NEW r \in S
        PROVE Evidence(r, u, ix) /\ r.ev.type = "compute_usage_recorded" /\ r.id = <<"wfjob", s.run.job, 0>>
    <3>1. PICK e \in entries : r = JobRecord(s, e, u)
      BY <2>1
    <3>2. e \in ix
      BY <1>2
    <3> QED  BY <3>1, <3>2, JobRecordIs
  <2>3. \A r, q \in S : r = q
    BY <1>3, <2>1
  <2> QED  BY <1>1, <2>2, <2>3 DEF S
<1> QED  BY <1>4, <1>5

(* The records of a check. *)
LEMMA CheckBatch ==
  ASSUME NEW c \in CheckRun, NEW ix \in SUBSET IndexEntry, NEW u
  PROVE  /\ Batch(CheckRecords(c, ix), u, ix)
         /\ \A r \in CheckRecords(c, ix) :
              r.ev.type = "validation_recorded" /\ r.id = <<"checkrun", c.check.id, 0>>
<1> DEFINE S == CheckRecords(c, ix)
           entries == RevisionOwner(c.check.sha, ix)
<1>1. AtMostOne(entries, ix)
  BY OwnerIs
<1>2. \A r : r \in S <=> Terminal(c) /\ \E e \in entries : r = CheckRecord(c, e)
  BY CheckRecordsAre
<1> HIDE DEF S, entries
<1>3. ASSUME NEW r \in S
      PROVE Evidence(r, u, ix) /\ r.ev.type = "validation_recorded" /\ r.id = <<"checkrun", c.check.id, 0>>
  <2>1. PICK e \in entries : r = CheckRecord(c, e)
    BY <1>2
  <2>2. e \in ix /\ Terminal(c)
    BY <1>1, <1>2 DEF AtMostOne
  <2> QED  BY <2>1, <2>2, CheckRecordIs
<1>4. \A r, q \in S : r = q
  BY <1>1, <1>2 DEF AtMostOne
<1>5. IsFiniteSet(S)
  BY <1>4, AtMostOneFinite
<1>6. Batch(S, u, ix)
  BY <1>3, <1>4, <1>5 DEF Batch, Evidence
<1> QED  BY <1>3, <1>6 DEF S

(* Batches of other types add up to a batch. *)
LEMMA BatchUnion ==
  ASSUME NEW A, NEW B, NEW u, NEW ix, Batch(A, u, ix), Batch(B, u, ix),
         \A r \in A, q \in B : r.ev.type # q.ev.type
  PROVE  Batch(A \cup B, u, ix)
<1>1. IsFiniteSet(A \cup B)
  BY FS_Union DEF Batch
<1>2. \A r \in A \cup B : Made(r) /\ (IsComponent(r.ev) => Bound(r.ev, ix) /\ Priced(r.ev, u))
  BY DEF Batch
<1>3. ASSUME NEW r \in A \cup B, NEW q \in A \cup B,
             r.ev.type = q.ev.type, r.id[2] = q.id[2], r.id[3] = q.id[3]
      PROVE  r = q
  BY <1>3 DEF Batch
<1> QED  BY <1>1, <1>2, <1>3 DEF Batch

(* Batches whose ids differ add up to a batch. *)
LEMMA BatchesUnion ==
  ASSUME NEW X, IsFiniteSet(X), NEW f, DOMAIN f = X, NEW u, NEW ix, \A x \in X : Batch(f[x], u, ix),
         \A x, y \in X : x # y =>
           \A r \in f[x], q \in f[y] : ~(r.ev.type = q.ev.type /\ r.id[2] = q.id[2] /\ r.id[3] = q.id[3])
  PROVE  Batch(UNION {f[x] : x \in X}, u, ix)
<1> DEFINE S == UNION {f[x] : x \in X}
<1>1. IsFiniteSet(S)
  <2>1. IsFiniteSet({f[x] : x \in X})
    BY FiniteImage
  <2>2. \A T \in {f[x] : x \in X} : IsFiniteSet(T)
    BY DEF Batch
  <2> QED  BY <2>1, <2>2, FS_UNION
<1>2. \A r \in S : \E x \in X : r \in f[x]
  OBVIOUS
<1> HIDE DEF S
<1>3. \A r \in S : Made(r) /\ (IsComponent(r.ev) => Bound(r.ev, ix) /\ Priced(r.ev, u))
  BY <1>2 DEF Batch
<1>4. ASSUME NEW r \in S, NEW q \in S, r.ev.type = q.ev.type, r.id[2] = q.id[2], r.id[3] = q.id[3]
      PROVE  r = q
  <2>1. PICK x \in X : r \in f[x]
    BY <1>2
  <2>2. PICK y \in X : q \in f[y]
    BY <1>2
  <2>3. x = y
    BY <1>4, <2>1, <2>2
  <2> QED  BY <1>4, <2>1, <2>2, <2>3 DEF Batch
<1>5. Batch(S, u, ix)
  BY <1>1, <1>3, <1>4 DEF Batch
<1> QED  BY <1>5 DEF S

(* A sweep emits a batch. *)
LEMMA AuditBatch ==
  ASSUME Repository
  PROVE  /\ Batch(AuditSet, usage, SweepIndex)
         /\ \A r : r \in PullSet <=> \E n \in Opened \cap Agentic : OfPull(r, pulls[n])
         /\ \A r \in AuditSet : ~IsComponent(r.ev) => r \in PullSet
<1> DEFINE ix == SweepIndex
           pullsOf == [n \in Opened \cap Agentic |-> PullRecords(pulls[n])]
           jobsOf == [q \in ListedRuns |-> JobRecords(ci[q], CorrelateWorkflowRun(q, ix), usage)]
           runsOf == [q \in ListedRuns |-> RunRecords(ci[q], CorrelateWorkflowRun(q, ix), usage)]
           checksOf == [c \in ProbedChecks |-> CheckRecords(checks[c], ix)]
           P == UNION {pullsOf[n] : n \in Opened \cap Agentic}
           J == UNION {jobsOf[q] : q \in ListedRuns}
           R == UNION {runsOf[q] : q \in ListedRuns}
           C == UNION {checksOf[c] : c \in ProbedChecks}
<1>1. AuditSet = (P \cup (J \cup R)) \cup C /\ P = PullSet
  <2>1. P = PullSet /\ C = CheckSet
    BY DEF PullSet, CheckSet
  <2>2. CiSet = J \cup R
    BY DEF CiSet
  <2> HIDE DEF P, J, R, C
  <2> QED  BY <2>1, <2>2 DEF AuditSet
<1>2. ix \in SUBSET IndexEntry /\ IsFiniteSet(ix)
  BY SweepIndexIs
<1>3. /\ Opened \cap Agentic \in SUBSET Tasks /\ IsFiniteSet(Opened \cap Agentic)
      /\ ListedRuns \in SUBSET Runs /\ IsFiniteSet(ListedRuns)
      /\ ProbedChecks \in SUBSET Checks /\ IsFiniteSet(ProbedChecks)
  <2>1. Opened \cap Agentic \in SUBSET Tasks /\ ListedRuns \in SUBSET Runs /\ ProbedChecks \in SUBSET Checks
    BY DEF Opened, ListedRuns, ProbedChecks
  <2>2. IsFiniteSet(Runs) /\ IsFiniteSet(Checks) /\ IsFiniteSet(Tasks)
    BY IngestionAssumption
  <2> QED  BY <2>1, <2>2, FS_Subset
<1>4. ASSUME NEW n \in Opened \cap Agentic
      PROVE  /\ pulls[n] \in Pull /\ pulls[n].number = n /\ n \in Agentic
             /\ \A r : r \in pullsOf[n] <=> OfPull(r, pulls[n])
             /\ IsFiniteSet(pullsOf[n])
  <2>1. pulls[n] \in Pull /\ pulls[n].number = n
    BY <1>3 DEF Repository
  <2> QED  BY <2>1, PullRecordsAre, PullRecordsFinite
<1>5. \A r : r \in P <=> \E n \in Opened \cap Agentic : OfPull(r, pulls[n])
  <2> HIDE DEF pullsOf
  <2> QED  BY <1>4
<1>6. ASSUME NEW n \in Opened \cap Agentic, NEW r \in pullsOf[n]
      PROVE  PullRecord(r, pulls[n]) /\ r.id[2] = n /\ ~IsComponent(r.ev)
  <2>1. PullRecord(r, pulls[n])
    BY <1>4, <1>6, PullRecordsMade
  <2> QED  BY <1>4, <2>1 DEF PullRecord
<1>7. ASSUME NEW n \in Opened \cap Agentic PROVE Batch(pullsOf[n], usage, ix)
  <2>1. \A r \in pullsOf[n] : Made(r) /\ ~IsComponent(r.ev)
    BY <1>6 DEF PullRecord
  <2>2. ASSUME NEW r \in pullsOf[n], NEW q \in pullsOf[n], r.ev.type = q.ev.type, r.id[3] = q.id[3]
        PROVE  r = q
    <3>1. OfPull(r, pulls[n]) /\ OfPull(q, pulls[n]) /\ pulls[n] \in Pull /\ pulls[n].number \in Agentic
      BY <1>4
    <3> HIDE DEF pullsOf
    <3> QED  BY <2>2, <3>1, PullRecordsDiffer
  <2> HIDE DEF pullsOf, ix
  <2> QED  BY <1>4, <2>1, <2>2 DEF Batch
<1>8. Batch(P, usage, ix)
  <2>1. \A n, m \in Opened \cap Agentic : n # m =>
          \A r \in pullsOf[n], q \in pullsOf[m] :
            ~(r.ev.type = q.ev.type /\ r.id[2] = q.id[2] /\ r.id[3] = q.id[3])
    <3> HIDE DEF pullsOf
    <3> QED  BY <1>6
  <2>2. DOMAIN pullsOf = Opened \cap Agentic
    OBVIOUS
  <2> HIDE DEF pullsOf, ix
  <2> QED  BY <1>3, <1>7, <2>1, <2>2, BatchesUnion
<1>9. ASSUME NEW q \in ListedRuns
      PROVE  /\ q \in Runs /\ Batch(jobsOf[q], usage, ix) /\ Batch(runsOf[q], usage, ix)
             /\ \A r \in jobsOf[q] : r.ev.type = "compute_usage_recorded" /\ r.id[2] = q.job
             /\ \A r \in runsOf[q] : r.ev.type = "ci_run_recorded" /\ r.id[2] = q.id /\ r.id[3] = q.attempt
  <2>1. ci[q] \in Attempt /\ ci[q].run = q /\ q \in Runs
    BY <1>3 DEF Repository
  <2> DEFINE entries == CorrelateWorkflowRun(q, ix)
  <2>2. AtMostOne(entries, ix)
    BY <1>2, CorrelateIs
  <2>3. jobsOf[q] = JobRecords(ci[q], entries, usage) /\ runsOf[q] = RunRecords(ci[q], entries, usage)
    OBVIOUS
  <2> HIDE DEF ix, entries, jobsOf, runsOf
  <2>4. /\ Batch(jobsOf[q], usage, ix) /\ Batch(runsOf[q], usage, ix)
        /\ \A r \in jobsOf[q] : r.ev.type = "compute_usage_recorded" /\ r.id = <<"wfjob", q.job, 0>>
        /\ \A r \in runsOf[q] : r.ev.type = "ci_run_recorded" /\ r.id = RunId(q)
    <3> DEFINE s == ci[q]
    <3>1. s \in Attempt /\ s.run = q /\ jobsOf[q] = JobRecords(s, entries, usage)
          /\ runsOf[q] = RunRecords(s, entries, usage)
      BY <2>1, <2>3
    <3> HIDE DEF s
    <3>2. /\ Batch(RunRecords(s, entries, usage), usage, ix)
          /\ \A r \in RunRecords(s, entries, usage) : r.ev.type = "ci_run_recorded" /\ r.id = RunId(s.run)
          /\ Batch(JobRecords(s, entries, usage), usage, ix)
          /\ \A r \in JobRecords(s, entries, usage) :
               r.ev.type = "compute_usage_recorded" /\ r.id = <<"wfjob", s.run.job, 0>>
      BY <1>2, <2>2, <3>1, RunBatch
    <3> QED  BY <3>1, <3>2, Zenon
  <2>5. <<"wfjob", q.job, 0>>[2] = q.job /\ RunId(q)[2] = q.id /\ RunId(q)[3] = q.attempt
    BY DEF RunId
  <2> QED  BY <2>1, <2>4, <2>5
<1>10. Batch(J, usage, ix) /\ Batch(R, usage, ix)
  <2>1. \A q, r \in ListedRuns : q # r => q.job # r.job /\ ~(q.id = r.id /\ q.attempt = r.attempt)
    BY <1>3, IngestionAssumption
  <2>2. \A q, p \in ListedRuns : q # p =>
          /\ \A r \in jobsOf[q], s \in jobsOf[p] :
               ~(r.ev.type = s.ev.type /\ r.id[2] = s.id[2] /\ r.id[3] = s.id[3])
          /\ \A r \in runsOf[q], s \in runsOf[p] :
               ~(r.ev.type = s.ev.type /\ r.id[2] = s.id[2] /\ r.id[3] = s.id[3])
    <3> HIDE DEF jobsOf, runsOf
    <3> QED  BY <1>9, <2>1
  <2>3. DOMAIN jobsOf = ListedRuns /\ DOMAIN runsOf = ListedRuns
    OBVIOUS
  <2> HIDE DEF jobsOf, runsOf, ix
  <2> QED  BY <1>3, <1>9, <2>2, <2>3, BatchesUnion
<1>11. ASSUME NEW c \in ProbedChecks
       PROVE  /\ c \in Checks /\ Batch(checksOf[c], usage, ix)
              /\ \A r \in checksOf[c] : r.ev.type = "validation_recorded" /\ r.id[2] = c.id
  <2>1. checks[c] \in CheckRun /\ checks[c].check = c /\ c \in Checks
    BY <1>3 DEF Repository
  <2>2. checksOf[c] = CheckRecords(checks[c], ix)
    OBVIOUS
  <2> HIDE DEF ix, checksOf
  <2>3. /\ Batch(checksOf[c], usage, ix)
        /\ \A r \in checksOf[c] : r.ev.type = "validation_recorded" /\ r.id = <<"checkrun", c.id, 0>>
    BY <1>2, <2>1, <2>2, CheckBatch
  <2>4. <<"checkrun", c.id, 0>>[2] = c.id
    OBVIOUS
  <2> QED  BY <2>1, <2>3, <2>4
<1>12. Batch(C, usage, ix)
  <2>1. \A c, d \in ProbedChecks : c # d => c.id # d.id
    BY <1>3, IngestionAssumption
  <2>2. \A c, d \in ProbedChecks : c # d =>
          \A r \in checksOf[c], s \in checksOf[d] :
               ~(r.ev.type = s.ev.type /\ r.id[2] = s.id[2] /\ r.id[3] = s.id[3])
    <3> HIDE DEF checksOf
    <3> QED  BY <1>11, <2>1
  <2>3. DOMAIN checksOf = ProbedChecks
    OBVIOUS
  <2> HIDE DEF checksOf, ix
  <2> QED  BY <1>3, <1>11, <2>2, <2>3, BatchesUnion
<1>13. /\ \A r \in P : ~IsComponent(r.ev)
       /\ \A r \in J : r.ev.type = "compute_usage_recorded"
       /\ \A r \in R : r.ev.type = "ci_run_recorded"
       /\ \A r \in C : r.ev.type = "validation_recorded"
  <2> HIDE DEF pullsOf, jobsOf, runsOf, checksOf
  <2> QED  BY <1>6, <1>9, <1>11
<1>14. \A r \in J \cup R \cup C : IsComponent(r.ev)
  <2>1. \A v : v.type \in {"compute_usage_recorded", "ci_run_recorded", "validation_recorded"} => IsComponent(v)
    BY DEF IsComponent, ComponentTypes
  <2> HIDE DEF J, R, C
  <2> QED  BY <1>13, <2>1
<1> HIDE DEF P, J, R, C, ix
<1>15. Batch(J \cup R, usage, ix)
  BY <1>10, <1>13, BatchUnion
<1>16. Batch(P \cup (J \cup R), usage, ix)
  <2>1. \A r \in P, q \in J \cup R : r.ev.type # q.ev.type
    BY <1>13, <1>14 DEF IsComponent
  <2> QED  BY <1>8, <1>15, <2>1, BatchUnion
<1>17. Batch((P \cup (J \cup R)) \cup C, usage, ix)
  <2>1. \A r \in P \cup (J \cup R), q \in C : r.ev.type # q.ev.type
    <3>1. "validation_recorded" \in ComponentTypes
      BY DEF ComponentTypes
    <3> QED  BY <1>13, <3>1 DEF IsComponent
  <2> QED  BY <1>12, <1>16, <2>1, BatchUnion
<1>18. \A r \in AuditSet : ~IsComponent(r.ev) => r \in PullSet
  BY <1>1, <1>14
<1> QED  BY <1>1, <1>5, <1>17, <1>18 DEF ix

(* A delivery: what was sent about a pull request, a run, a job or a check. *)
Delivery(d) ==
  \/ /\ d.event = "pull_request" /\ d.about \in Pull
     /\ d.action \in {"opened", "reopened", "closed"}
     /\ d.action = "closed" => d.about.closed # 0
  \/ d.event \in {"workflow_run", "workflow_job"} /\ d.about \in Attempt
  \/ d.event = "check_run" /\ d.about \in CheckRun

DeliverySet(d, ix, u) ==
  CASE d.event = "pull_request" -> HandlePullRequest(d.action, d.about)
    [] d.event = "workflow_run" -> HandleWorkflowRun(d.about, ix, u)
    [] d.event = "check_run" -> CheckRecords(d.about, ix)
    [] d.event = "workflow_job" -> HandleWorkflowJob(d.about, ix, u)

(* The delivery of a pull request says merged, or closed, if it is. *)
Signals(S, d) ==
  /\ \A r \in S : r.ev.type \notin {"execution_started", "execution_finished"}
  /\ \A r \in S : r.ev.type \in {"pull_request_merged", "pull_request_closed"} =>
       /\ d.event = "pull_request" /\ r.ev.task = d.about.number /\ d.about.closed # 0
       /\ r.ev.type = "pull_request_merged" <=> d.about.merged # 0

(* The delivery of a pull request is mapped to one or two signals. *)
LEMMA PullDelivery ==
  ASSUME NEW p \in Pull, NEW action \in {"opened", "reopened", "closed"}, NEW u, NEW ix
  PROVE  /\ Batch(HandlePullRequest(action, p), u, ix)
         /\ \A r \in HandlePullRequest(action, p) :
              /\ r.ev.type \notin {"execution_started", "execution_finished"}
              /\ r.ev.type \in {"pull_request_merged", "pull_request_closed"} =>
                   /\ action = "closed" /\ r.ev.task = p.number
                   /\ r.ev.type = "pull_request_merged" <=> p.merged # 0
<1> DEFINE S == HandlePullRequest(action, p)
           n == p.number
           a == Record(<<"task-started", n, 0>>, p.created, 0, Blank(n, "task_started"))
           b == Record(<<"pr-created", n, 0>>, p.created, 1, Signal(n, "pull_request_created", PrRef(n)))
           c == MergedRecord(p, 0)
           e == ClosedRecord(p, 0)
<1>1. /\ a.ev.type = "task_started" /\ b.ev.type = "pull_request_created"
      /\ c.ev.type = "pull_request_merged" /\ e.ev.type = "pull_request_closed"
      /\ a.ev.task = n /\ b.ev.task = n /\ c.ev.task = n /\ e.ev.task = n
  BY DEF Record, MergedRecord, ClosedRecord, Signal, Blank
<1>2. n \in Agentic => \A r \in {a, b, c, e} :
        Made(r) /\ r.ev.type \in {"task_started", "pull_request_created", "pull_request_merged",
                                  "pull_request_closed"}
  <2> SUFFICES ASSUME n \in Agentic, NEW r \in {a, b, c, e}
               PROVE  Made(r) /\ r.ev.type \in {"task_started", "pull_request_created",
                                                "pull_request_merged", "pull_request_closed"}
    OBVIOUS
  <2> DEFINE order == 0
  <2>1. order \in Nat
    OBVIOUS
  <2>2. \/ r = a \/ r = b \/ r = MergedRecord(p, order) \/ r = ClosedRecord(p, order)
    OBVIOUS
  <2> HIDE DEF order
  <2> QED  BY <2>1, <2>2, SignalIs
<1>3. S = IF n \notin Agentic THEN {}
          ELSE IF action = "closed" THEN {IF p.merged # 0 THEN c ELSE e} ELSE {a, b}
  BY DEF HandlePullRequest, TaskSignals
<1> HIDE DEF S, n, a, b, c, e
<1>4. /\ \A r \in S : Made(r) /\ ~IsComponent(r.ev)
      /\ \A r, q \in S : r.ev.type = q.ev.type => r = q
  <2>1. \A r \in S : Made(r) /\ r.ev.type \in {"task_started", "pull_request_created", "pull_request_merged",
                                               "pull_request_closed"}
    BY <1>2, <1>3
  <2>2. \A r \in S : ~IsComponent(r.ev)
    BY <2>1, Lifecycle
  <2>3. \A r, q \in S : r.ev.type = q.ev.type => r = q
    BY <1>1, <1>3
  <2> QED  BY <2>1, <2>2, <2>3
<1>5. IsFiniteSet(S)
  <2>1. S \in SUBSET (({} \cup {a}) \cup {b}) \/ \A r, q \in S : r = q
    BY <1>3
  <2>2. IsFiniteSet(({} \cup {a}) \cup {b})
    BY FS_EmptySet, FS_AddElement
  <2> QED  BY <2>1, <2>2, FS_Subset, AtMostOneFinite
<1>6. Batch(S, u, ix)
  BY <1>4, <1>5 DEF Batch
<1>7. ASSUME NEW r \in S
      PROVE  /\ r.ev.type \notin {"execution_started", "execution_finished"}
             /\ r.ev.type \in {"pull_request_merged", "pull_request_closed"} =>
                  /\ action = "closed" /\ r.ev.task = n
                  /\ r.ev.type = "pull_request_merged" <=> p.merged # 0
  BY <1>1, <1>3
<1> QED  BY <1>6, <1>7 DEF S, n

(* A delivery emits a batch. *)
LEMMA DeliveryBatch ==
  ASSUME NEW d, Delivery(d), NEW ix \in SUBSET IndexEntry, IsFiniteSet(ix), NEW u
  PROVE  /\ NormalizeWebhookDelivery(d, ix, u) = Ordered(DeliverySet(d, ix, u))
         /\ Batch(DeliverySet(d, ix, u), u, ix)
         /\ Signals(DeliverySet(d, ix, u), d)
<1> DEFINE S == DeliverySet(d, ix, u)
<1>1. NormalizeWebhookDelivery(d, ix, u) = Ordered(S)
  BY Zenon DEF NormalizeWebhookDelivery, DeliverySet
<1>2. ASSUME d.event = "pull_request", d.about \in Pull, d.action \in {"opened", "reopened", "closed"},
             d.action = "closed" => d.about.closed # 0
      PROVE  Batch(S, u, ix) /\ Signals(S, d)
  <2>1. S = HandlePullRequest(d.action, d.about)
    BY <1>2 DEF DeliverySet
  <2> DEFINE p == d.about
             action == d.action
  <2>2. p \in Pull /\ action \in {"opened", "reopened", "closed"} /\ S = HandlePullRequest(action, p)
    BY <1>2, <2>1
  <2> HIDE DEF p, action, S
  <2>3. /\ Batch(S, u, ix)
        /\ \A r \in S :
              /\ r.ev.type \notin {"execution_started", "execution_finished"}
              /\ r.ev.type \in {"pull_request_merged", "pull_request_closed"} =>
                   /\ action = "closed" /\ r.ev.task = p.number
                   /\ r.ev.type = "pull_request_merged" <=> p.merged # 0
    BY <2>2, PullDelivery
  <2> QED  BY <1>2, <2>3 DEF Signals, p, action
<1>3. ASSUME NEW X, Batch(X, u, ix),
             \A r \in X : r.ev.type \in {"ci_run_recorded", "compute_usage_recorded", "validation_recorded"}
      PROVE  Batch(X, u, ix) /\ Signals(X, d)
  BY <1>3 DEF Signals
<1>4. ASSUME d.event = "workflow_run", d.about \in Attempt PROVE Batch(S, u, ix) /\ Signals(S, d)
  <2> DEFINE s == d.about
             entries == CorrelateWorkflowRun(s.run, ix)
  <2>1. S = RunRecords(s, entries, u)
    BY <1>4 DEF DeliverySet, HandleWorkflowRun
  <2>2. AtMostOne(entries, ix) /\ s \in Attempt
    BY <1>4, CorrelateIs
  <2> HIDE DEF S, s, entries
  <2> QED  BY <1>3, <2>1, <2>2, RunBatch
<1>5. ASSUME d.event = "workflow_job", d.about \in Attempt PROVE Batch(S, u, ix) /\ Signals(S, d)
  <2> DEFINE s == d.about
             entries == RevisionOwner(s.run.sha, ix)
  <2>1. S = JobRecords(s, entries, u)
    BY <1>5 DEF DeliverySet, HandleWorkflowJob
  <2>2. AtMostOne(entries, ix) /\ s \in Attempt
    BY <1>5, OwnerIs
  <2> HIDE DEF S, s, entries
  <2> QED  BY <1>3, <2>1, <2>2, RunBatch
<1>6. ASSUME d.event = "check_run", d.about \in CheckRun PROVE Batch(S, u, ix) /\ Signals(S, d)
  <2> DEFINE c == d.about
  <2>1. S = CheckRecords(c, ix) /\ c \in CheckRun
    BY <1>6 DEF DeliverySet
  <2> HIDE DEF S, c
  <2> QED  BY <1>3, <2>1, CheckBatch
<1> HIDE DEF S
<1>7. Batch(S, u, ix) /\ Signals(S, d)
  BY <1>2, <1>4, <1>5, <1>6 DEF Delivery
<1> QED  BY <1>1, <1>7 DEF S

-----------------------------------------------------------------------------
(* What ingesting a batch adds to the ledger. *)

IsLog(l) == \E A : l \in Seq(A)
Added(l, m) == (Len(l) + 1)..Len(m)

(* m is l and, behind it, the records of S that l does not store, in their *)
(* order.                                                                  *)
Extends(l, m, S) ==
  /\ Len(l) \in Nat /\ Len(m) \in Nat /\ Len(l) <= Len(m)
  /\ DOMAIN l = 1..Len(l) /\ DOMAIN m = 1..Len(m)
  /\ \A i \in 1..Len(l) : m[i] = l[i]
  /\ \A i \in Added(l, m) : m[i] \in S /\ m[i].id \notin Ids(l)
  /\ \A r \in S : r.id \notin Ids(l) => \E i \in Added(l, m) : m[i] = r
  /\ \A i, j \in Added(l, m) : i < j <=> <<m[i], m[j]>> \in InOrder(S)

(* The filter and the append do that. *)
LEMMA IngestExtends ==
  ASSUME NEW l, IsLog(l), NEW S, NEW records, Sorts(records, S, InOrder(S)), NEW m,
         m = l \o Unstored(records, Ids(l))
  PROVE  IsLog(m) /\ Extends(l, m, S)
<1> DEFINE stored == Ids(l)
           u == Unstored(records, stored)
           F == Fresh(records, stored)
           K == Cardinality(F)
           L == Len(l)
<1>1. PICK A : l \in Seq(A)
  BY DEF IsLog
<1>2. /\ Cardinality(S) \in Nat /\ records \in [1..Cardinality(S) -> S]
      /\ \A x \in S : \E k \in 1..Cardinality(S) : records[k] = x
      /\ \A j, k \in 1..Cardinality(S) : j < k <=> <<records[j], records[k]>> \in InOrder(S)
  BY Zenon DEF Sorts
<1>3. records \in Seq(S) /\ DOMAIN records = 1..Cardinality(S)
  BY <1>2
<1> HIDE DEF stored
<1>4. PICK pi : Sorts(pi, F, Less(F)) /\ u = [k \in 1..K |-> records[pi[k]]]
  <2>1. PICK pi : Filters(pi, records, stored)
    BY <1>3, UnstoredSorts
  <2> QED  BY <2>1, Zenon DEF Filters
<1>5. /\ K \in Nat /\ pi \in [1..K -> F]
      /\ \A x \in F : \E k \in 1..K : pi[k] = x
      /\ \A j, k \in 1..K : j < k <=> <<pi[j], pi[k]>> \in Less(F)
  BY <1>4, Zenon DEF Sorts
<1>6. \A i : i \in F <=> i \in 1..Cardinality(S) /\ records[i].id \notin stored
  BY <1>3 DEF Fresh
<1> HIDE DEF u, F, K
<1>7. u \in Seq(S) /\ Len(u) = K /\ \A k \in 1..K : u[k] = records[pi[k]] /\ pi[k] \in F
  <2>1. \A k \in 1..K : pi[k] \in F /\ records[pi[k]] \in S
    BY <1>2, <1>5, <1>6
  <2>2. u \in [1..K -> S]
    BY <1>4, <2>1
  <2> QED  BY <1>4, <1>5, <2>1, <2>2
<1>8. L \in Nat /\ DOMAIN l = 1..L
  BY <1>1
<1>9. /\ m = l \o u /\ m \in Seq(A \cup S) /\ Len(m) = L + K /\ DOMAIN m = 1..(L + K)
      /\ \A i \in 1..L : m[i] = l[i]
      /\ \A k \in 1..K : m[L + k] = u[k]
  <2>1. l \in Seq(A \cup S) /\ u \in Seq(A \cup S)
    BY <1>1, <1>7
  <2>2. m = l \o u
    BY DEF u, stored
  <2>3. m \in Seq(A \cup S) /\ Len(m) = L + K /\ DOMAIN m = 1..(L + K)
    <3> DEFINE W == A \cup S
    <3>1. l \in Seq(W) /\ u \in Seq(W)
      BY <2>1
    <3> HIDE DEF W
    <3>2. m \in Seq(W) /\ Len(m) = L + K
      <4>1. l \o u \in Seq(W)
        BY <3>1
      <4>2. Len(l \o u) = Len(l) + Len(u)
        BY <3>1
      <4> QED  BY <1>7, <2>2, <4>1, <4>2
    <3>3. DOMAIN m = 1..(L + K)
      BY <3>2
    <3> QED  BY <3>2, <3>3 DEF W
  <2>4. \A i \in 1..L : m[i] = l[i]
    BY <1>5, <1>7, <1>8, <2>1, <2>2
  <2>5. \A k \in 1..K : m[L + k] = u[k]
    BY <1>5, <1>7, <1>8, <2>1, <2>2
  <2> QED  BY <2>2, <2>3, <2>4, <2>5
<1>10. Added(l, m) = (L + 1)..(L + K)
  BY <1>9 DEF Added
<1> HIDE DEF L
<1>11. \A i \in Added(l, m) : i - L \in 1..K /\ L + (i - L) = i
  BY <1>5, <1>8, <1>10
<1>12. \A k \in 1..K : L + k \in Added(l, m)
  BY <1>5, <1>8, <1>10
<1>13. \A i \in Added(l, m) : m[i] = records[pi[i - L]] /\ pi[i - L] \in F
  <2> TAKE i \in Added(l, m)
  <2> DEFINE k == i - L
  <2>1. k \in 1..K /\ L + k = i
    BY <1>11
  <2> HIDE DEF k
  <2>2. m[L + k] = records[pi[k]] /\ pi[k] \in F
    BY <1>7, <1>9, <2>1
  <2> QED  BY <2>1, <2>2 DEF k
<1>14. \A i \in Added(l, m) : m[i] \in S /\ m[i].id \notin stored
  <2> TAKE i \in Added(l, m)
  <2>1. PICK j \in F : m[i] = records[j]
    BY <1>13
  <2> QED  BY <1>2, <1>6, <2>1
<1>15. ASSUME NEW r \in S, r.id \notin stored PROVE \E i \in Added(l, m) : m[i] = r
  <2>1. PICK j \in 1..Cardinality(S) : records[j] = r
    BY <1>2
  <2>2. j \in F
    BY <1>6, <1>15, <2>1
  <2>3. PICK k \in 1..K : pi[k] = j
    BY <1>5, <2>2
  <2>4. m[L + k] = r
    BY <1>7, <1>9, <2>1, <2>3
  <2> QED  BY <1>12, <2>4
<1>16. ASSUME NEW i \in Added(l, m), NEW j \in Added(l, m)
       PROVE  i < j <=> <<m[i], m[j]>> \in InOrder(S)
  <2> DEFINE a == i - L
             b == j - L
             x == pi[a]
             y == pi[b]
  <2>1. a \in 1..K /\ b \in 1..K /\ (i < j <=> a < b)
    BY <1>5, <1>8, <1>10
  <2>2. m[i] = records[x] /\ m[j] = records[y] /\ x \in F /\ y \in F
    BY <1>13
  <2>3. a < b <=> <<x, y>> \in Less(F)
    BY <1>5, <2>1
  <2> HIDE DEF x, y, a, b
  <2>4. <<x, y>> \in Less(F) <=> x < y
    BY <2>2 DEF Less
  <2>5. x < y <=> <<records[x], records[y]>> \in InOrder(S)
    BY <1>2, <1>6, <2>2
  <2> QED  BY <2>1, <2>2, <2>3, <2>4, <2>5
<1>17. IsLog(m)
  BY <1>9 DEF IsLog
<1>18. Len(l) \in Nat /\ Len(m) \in Nat /\ Len(l) <= Len(m)
  BY <1>5, <1>8, <1>9 DEF L
<1>19. DOMAIN l = 1..Len(l) /\ DOMAIN m = 1..Len(m) /\ \A i \in 1..Len(l) : m[i] = l[i]
  BY <1>8, <1>9 DEF L
<1> QED  BY <1>14, <1>15, <1>16, <1>17, <1>18, <1>19, Zenon DEF Extends, stored

-----------------------------------------------------------------------------
(* What holds of the repository, and how it moves. *)

(* Commits of pull request n as they are listed: their dates are those of  *)
(* their revisions, and each revision is there once and has been seen.     *)
Listed(n) ==
  /\ listed[n] \in SUBSET Revisions
  /\ \A i \in DOMAIN pulls[n].commits : LET c == pulls[n].commits[i] IN
       c.date = date[c.sha] /\ c.sha \in listed[n]
  /\ \A i, j \in DOMAIN pulls[n].commits : pulls[n].commits[i].sha = pulls[n].commits[j].sha => i = j
  /\ pulls[n].created = 0 =>
       /\ Len(pulls[n].commits) = 0 /\ listed[n] = {}
       /\ pulls[n].closed = 0 /\ pulls[n].merged = 0
  /\ pulls[n].created # 0 => Len(pulls[n].commits) > 0
  /\ pulls[n].merged # 0 => pulls[n].closed # 0

Core ==
  /\ scenario \in Scenarios /\ now \in 0..scenario.steps
  /\ date \in [Revisions -> scenario.dates]
  /\ Repository
  /\ DOMAIN listed = Tasks /\ \A n \in Tasks : Listed(n)
  /\ \A d \in net : Delivery(d)

(* q has the first k commits of p and revision s. *)
Pushed(p, q, k, s) ==
  /\ k \in 0..Len(p.commits) /\ s \in Revisions
  /\ Len(q.commits) = k + 1 /\ q.commits[k + 1] = Commit(s)
  /\ \A i \in 1..k : q.commits[i] = p.commits[i]

(* q has all commits of p but the first. *)
Trimmed(p, q) ==
  /\ Len(p.commits) > 1 /\ Len(q.commits) = Len(p.commits) - 1
  /\ \A i \in 1..Len(q.commits) : q.commits[i] = p.commits[i + 1]

(* q has the first commits of p. *)
Cut(p, q) ==
  /\ Len(q.commits) \in 1..(Len(p.commits) - 1)
  /\ \A i \in 1..Len(q.commits) : q.commits[i] = p.commits[i]

(* How pull request n moves in a step of the repository. *)
Kept(n) == pulls'[n] = pulls[n] /\ listed'[n] = listed[n]
SameState(n) ==
  /\ pulls'[n].closed = pulls[n].closed /\ pulls'[n].merged = pulls[n].merged
  /\ pulls[n].created = 0 \/ Open(n)
  /\ pulls'[n].created # 0
Declared(n) ==
  /\ pulls'[n].commits = pulls[n].commits /\ listed'[n] = listed[n]
  /\ pulls'[n].created = pulls[n].created /\ pulls[n].created # 0
  /\ \/ Open(n) /\ pulls'[n].closed # 0 /\ pulls'[n].merged \in Nat
     \/ Happens("reopen") /\ pulls'[n].closed = 0 /\ pulls'[n].merged = 0
Rewritten(n) ==
  /\ SameState(n)
  /\ \/ \E k, s : /\ Pushed(pulls[n], pulls'[n], k, s) /\ s \notin listed[n]
                  /\ listed'[n] = listed[n] \cup {s}
                  /\ k < Len(pulls[n].commits) => Happens("force_push")
     \/ Trimmed(pulls[n], pulls'[n]) /\ Happens("absorb") /\ listed'[n] = listed[n]
     \/ Cut(pulls[n], pulls'[n]) /\ Happens("reset") /\ listed'[n] = listed[n]
PullMove(n) == Kept(n) \/ Declared(n) \/ Rewritten(n)

(* What a step of the repository leaves alone, and what it sends. *)
Moves ==
  /\ scenario' = scenario /\ date' = date /\ index' = index /\ log' = log /\ swept' = FALSE
  /\ pulls' \in [Tasks -> Pull] /\ DOMAIN listed' = Tasks /\ \A n \in Tasks : PullMove(n)
  /\ \A n \in Tasks : pulls'[n] \in Pull /\ pulls'[n].number = n
  /\ \A d \in net' : \/ d \in net
                     \/ Delivery(d) /\ (d.event = "pull_request" => \E n \in Tasks : d.about = pulls'[n])
  /\ usage \subseteq usage' /\ (usage' # usage => Happens("export"))

(* The steps of the repository. *)
PullStep ==
  \/ \E n \in Tasks, s \in Revisions : OpenPull(n, s) \/ Push(n, s) \/ ForcePush(n, s)
  \/ \E n \in Tasks : Reset(n) \/ Absorb(n) \/ Close(n) \/ Merge(n) \/ Reopen(n)
CiStep ==
  \/ \E r \in Runs : RunJob(r) \/ CompleteRun(r) \/ ExportUsage(r)
  \/ \E c \in Checks : CompleteCheck(c)

(* What the first state gives. *)
LEMMA CoreInit ==
  ASSUME Init
  PROVE  Core /\ index = {} /\ log = <<>> /\ ~swept /\ usage = Usage /\ net = {}
<1>1. scenario \in Scenarios /\ now = 0 /\ date \in [Revisions -> scenario.dates]
  BY DEF Init
<1>2. scenario.steps \in Nat
  BY <1>1, IngestionAssumption
<1>3. Repository
  <2>1. <<>> \in Seq(CommitRecord)
    OBVIOUS
  <2>2. pulls \in [Tasks -> Pull] /\ \A n \in Tasks : pulls[n].number = n
    BY <2>1 DEF Init, Pull
  <2>3. ci \in [Runs -> Attempt] /\ \A q \in Runs : ci[q].run = q
    BY DEF Init, Attempt
  <2>4. checks \in [Checks -> CheckRun] /\ \A c \in Checks : checks[c].check = c
    BY DEF Init, CheckRun
  <2>5. usage \in SUBSET Runs
    BY IngestionAssumption DEF Init
  <2> QED  BY <2>2, <2>3, <2>4, <2>5 DEF Repository
<1>4. \A n \in Tasks : Listed(n)
  BY DEF Init, Listed
<1>5. DOMAIN listed = Tasks /\ net = {}
  BY DEF Init
<1>6. now \in 0..scenario.steps
  BY <1>1, <1>2
<1>7. Core
  BY <1>1, <1>3, <1>4, <1>5, <1>6 DEF Core
<1> QED  BY <1>7 DEF Init

(* Commit lists as users rewrite them. *)
LEMMA PushList ==
  ASSUME NEW c \in Seq(CommitRecord), NEW k \in 0..Len(c), NEW x \in CommitRecord
  PROVE  LET d == Append(SubSeq(c, 1, k), x) IN
         /\ d \in Seq(CommitRecord) /\ Len(d) = k + 1 /\ d[k + 1] = x
         /\ \A i \in 1..k : d[i] = c[i]
<1> DEFINE a == SubSeq(c, 1, k)
<1>1. a \in Seq(CommitRecord) /\ Len(a) = k /\ \A i \in 1..k : a[i] = c[i]
  <2>1. k \in Int /\ 1 \in 1..Len(c) + 1 /\ k \in 0..Len(c)
    OBVIOUS
  <2>2. a = [i \in 1..k |-> c[i]]
    BY DEF a
  <2>3. \A i \in 1..k : c[i] \in CommitRecord
    OBVIOUS
  <2> HIDE DEF a
  <2> QED  BY <2>1, <2>2, <2>3
<1> HIDE DEF a
<1>2. Append(a, x) \in Seq(CommitRecord) /\ Len(Append(a, x)) = k + 1
  BY <1>1
<1>3. Append(a, x)[k + 1] = x /\ \A i \in 1..k : Append(a, x)[i] = a[i]
  BY <1>1
<1> QED  BY <1>1, <1>2, <1>3 DEF a

(* Cutting a list keeps its first elements. *)
LEMMA CutList ==
  ASSUME NEW c \in Seq(CommitRecord), NEW k \in 1..(Len(c) - 1)
  PROVE  LET d == SubSeq(c, 1, k) IN
         /\ d \in Seq(CommitRecord) /\ Len(d) = k
         /\ \A i \in 1..k : d[i] = c[i]
<1> DEFINE a == SubSeq(c, 1, k)
<1>1. a = [i \in 1..k |-> c[i]] /\ k \in Nat
  BY DEF a
<1>2. \A i \in 1..k : c[i] \in CommitRecord
  OBVIOUS
<1> HIDE DEF a
<1>3. a \in Seq(CommitRecord) /\ Len(a) = k /\ \A i \in 1..k : a[i] = c[i]
  BY <1>1, <1>2
<1> QED  BY <1>3 DEF a

(* Dropping the first element shifts the others. *)
LEMMA TrimList ==
  ASSUME NEW c \in Seq(CommitRecord), Len(c) > 1
  PROVE  /\ Tail(c) \in Seq(CommitRecord) /\ Len(Tail(c)) = Len(c) - 1
         /\ \A i \in 1..Len(Tail(c)) : Tail(c)[i] = c[i + 1]
<1>1. Tail(c) \in Seq(CommitRecord) /\ Len(Tail(c)) = Len(c) - 1
  OBVIOUS
<1>2. \A i \in 1..(Len(c) - 1) : Tail(c)[i] = c[i + 1]
  OBVIOUS
<1> QED  BY <1>1, <1>2

(* A rewritten list. *)
LEMMA Relisted ==
  ASSUME Core, NEW n \in Tasks, Open(n), NEW c \in Seq(CommitRecord), Relist(n, c)
  PROVE  /\ pulls'[n] \in Pull /\ pulls'[n].number = n /\ pulls'[n].commits = c /\ SameState(n)
         /\ pulls[n].commits \in Seq(CommitRecord)
         /\ listed'[n] = listed[n] \cup {c[i].sha : i \in DOMAIN c}
         /\ \A m \in Tasks : m # n => Kept(m) /\ pulls'[m] \in Pull /\ pulls'[m].number = m
         /\ pulls' \in [Tasks -> Pull] /\ DOMAIN listed' = Tasks
<1>1. /\ pulls \in [Tasks -> Pull] /\ \A m \in Tasks : pulls[m].number = m
      /\ DOMAIN listed = Tasks
  BY DEF Core, Repository
<1>2. pulls' = [pulls EXCEPT ![n].commits = c]
  BY DEF Relist
<1>3. listed' = [listed EXCEPT ![n] = @ \cup {c[i].sha : i \in DOMAIN c}]
  BY DEF Relist
<1>4. pulls'[n] = [pulls[n] EXCEPT !.commits = c] /\ \A m \in Tasks : m # n => pulls'[m] = pulls[m]
  BY <1>1, <1>2
<1>5. /\ pulls'[n] \in Pull /\ pulls'[n].commits = c /\ pulls'[n].number = pulls[n].number
      /\ pulls'[n].closed = pulls[n].closed /\ pulls'[n].merged = pulls[n].merged
      /\ pulls'[n].created = pulls[n].created
  <2> DEFINE p == pulls[n]
             q == pulls'[n]
  <2>1. p \in Pull /\ q = [p EXCEPT !.commits = c]
    BY <1>1, <1>4
  <2> HIDE DEF p, q
  <2>2. /\ q \in Pull /\ q.commits = c /\ q.number = p.number
        /\ q.closed = p.closed /\ q.merged = p.merged /\ q.created = p.created
    BY <2>1 DEF Pull
  <2> QED  BY <2>2 DEF p, q
<1>6. pulls[n].created # 0
  BY DEF Open, Opened
<1>7. SameState(n)
  BY <1>5, <1>6 DEF SameState
<1>8. \A m \in Tasks : m # n => listed'[m] = listed[m]
  BY <1>1, <1>3
<1>9. pulls[n].commits \in Seq(CommitRecord)
  BY <1>1 DEF Pull
<1>10. pulls' \in [Tasks -> Pull] /\ DOMAIN listed' = Tasks
  BY <1>1, <1>2, <1>3, <1>5
<1> QED  BY <1>1, <1>3, <1>4, <1>5, <1>7, <1>8, <1>9, <1>10 DEF Kept

(* A declaration of a pull request. *)
LEMMA Redeclared ==
  ASSUME Core, NEW n \in Tasks, NEW action \in {"closed", "reopened"}, NEW closed \in Nat, NEW merged \in Nat,
         action = "closed" => closed # 0, Redeclare(n, action, closed, merged)
  PROVE  /\ pulls'[n] \in Pull /\ pulls'[n].number = n /\ pulls'[n].commits = pulls[n].commits
         /\ pulls'[n].created = pulls[n].created /\ listed' = listed
         /\ pulls'[n].closed = closed /\ pulls'[n].merged = merged
         /\ \A m \in Tasks : m # n => Kept(m) /\ pulls'[m] \in Pull /\ pulls'[m].number = m
         /\ pulls' \in [Tasks -> Pull]
         /\ \A d \in net' : d \in net \/ (Delivery(d) /\ d.about = pulls'[n])
<1>1. pulls \in [Tasks -> Pull] /\ \A m \in Tasks : pulls[m].number = m
  BY DEF Core, Repository
<1>2. /\ pulls' = [pulls EXCEPT ![n].closed = closed, ![n].merged = merged] /\ listed' = listed
      /\ net' = net \cup {[event |-> "pull_request", action |-> action, about |-> pulls'[n]]}
  BY DEF Redeclare, Send
<1> DEFINE p == pulls[n]
           q == pulls'[n]
           sent == [event |-> "pull_request", action |-> action, about |-> q]
<1>3. p \in Pull /\ q = [p EXCEPT !.closed = closed, !.merged = merged]
      /\ \A m \in Tasks : m # n => pulls'[m] = pulls[m]
  BY <1>1, <1>2
<1>4. p.number = n
  BY <1>1
<1> HIDE DEF p, q
<1>5. /\ q \in Pull /\ q.commits = p.commits /\ q.number = n
      /\ q.closed = closed /\ q.merged = merged /\ q.created = p.created
  BY <1>3, <1>4 DEF Pull
<1>6. Delivery(sent) /\ sent.about = q
  BY <1>5 DEF Delivery
<1>6a. net' = net \cup {sent}
  BY <1>2 DEF q
<1> HIDE DEF sent
<1>7. \A d \in net' : d \in net \/ (Delivery(d) /\ d.about = q)
  BY <1>6, <1>6a
<1>8. pulls' \in [Tasks -> Pull]
  BY <1>1, <1>2, <1>5 DEF q
<1> QED  BY <1>1, <1>2, <1>3, <1>5, <1>7, <1>8 DEF p, q, Kept

(* A first commit. *)
LEMMA PullOpened ==
  ASSUME Core, NEW n \in Tasks, NEW s \in Revisions, OpenPull(n, s)
  PROVE  /\ pulls'[n] \in Pull /\ pulls'[n].number = n /\ SameState(n)
         /\ Pushed(pulls[n], pulls'[n], 0, s) /\ s \notin listed[n] /\ listed'[n] = listed[n] \cup {s}
         /\ \A m \in Tasks : m # n => Kept(m) /\ pulls'[m] \in Pull /\ pulls'[m].number = m
         /\ pulls' \in [Tasks -> Pull] /\ DOMAIN listed' = Tasks /\ Len(pulls[n].commits) = 0
         /\ \A d \in net' : d \in net \/ (Delivery(d) /\ d.about = pulls'[n])
<1>1. /\ pulls \in [Tasks -> Pull] /\ \A m \in Tasks : pulls[m].number = m
      /\ DOMAIN listed = Tasks /\ Listed(n) /\ now \in Nat /\ date[s] \in Nat /\ now' = now + 1
  <2>1. now \in Nat
    BY DEF Core
  <2>2. date[s] \in Nat
    <3>1. scenario \in Scenarios /\ date \in [Revisions -> scenario.dates]
      BY DEF Core
    <3>2. scenario.dates \in SUBSET Nat
      BY <3>1, IngestionAssumption
    <3> QED  BY <3>1, <3>2
  <2> QED  BY <2>1, <2>2 DEF Core, Repository, OpenPull, Tick
<1>2. /\ pulls' = [pulls EXCEPT ![n].created = now', ![n].commits = <<Commit(s)>>]
      /\ listed' = [listed EXCEPT ![n] = {s}]
      /\ net' = net \cup {[event |-> "pull_request", action |-> "opened", about |-> pulls'[n]]}
      /\ pulls[n].created = 0
  BY DEF OpenPull, Send
<1> DEFINE p == pulls[n]
           q == pulls'[n]
           t == now'
           c == Commit(s)
           cs == <<c>>
           sent == [event |-> "pull_request", action |-> "opened", about |-> q]
<1>3. p \in Pull /\ q = [p EXCEPT !.created = t, !.commits = cs]
      /\ \A m \in Tasks : m # n => pulls'[m] = pulls[m]
  BY <1>1, <1>2
<1>4. p.number = n /\ t \in Nat /\ t # 0 /\ c \in CommitRecord
  BY <1>1 DEF Commit, CommitRecord
<1> HIDE DEF p, q, t, c
<1>4a. cs \in Seq(CommitRecord) /\ Len(cs) = 1 /\ cs[1] = c
  BY <1>4
<1> HIDE DEF cs
<1>5. /\ q \in Pull /\ q.commits = cs /\ q.number = n
      /\ q.closed = p.closed /\ q.merged = p.merged /\ q.created = t
  BY <1>3, <1>4, <1>4a DEF Pull
<1>6. Delivery(sent) /\ sent.about = q
  BY <1>5 DEF Delivery
<1>6a. net' = net \cup {sent}
  BY <1>2 DEF q
<1> HIDE DEF sent
<1>7. \A d \in net' : d \in net \/ (Delivery(d) /\ d.about = q)
  BY <1>6, <1>6a
<1>8. SameState(n)
  BY <1>2, <1>4, <1>5 DEF SameState, p, q
<1>9. Len(p.commits) = 0 /\ listed[n] = {}
  BY <1>1, <1>2 DEF Listed, p
<1>10. Pushed(p, q, 0, s)
  BY <1>4a, <1>5, <1>9 DEF Pushed, c
<1>11. listed'[n] = listed[n] \cup {s} /\ \A m \in Tasks : m # n => listed'[m] = listed[m]
  BY <1>1, <1>2, <1>9
<1>12. pulls' \in [Tasks -> Pull] /\ DOMAIN listed' = Tasks
  BY <1>1, <1>2, <1>5 DEF q
<1> QED  BY <1>1, <1>3, <1>5, <1>7, <1>8, <1>9, <1>10, <1>11, <1>12 DEF p, q, Kept

(* The rewriting actions. *)
LEMMA PullRewritten ==
  ASSUME Core, NEW n \in Tasks,
         \/ \E s \in Revisions : Push(n, s) \/ ForcePush(n, s)
         \/ Reset(n) \/ Absorb(n)
  PROVE  /\ pulls'[n] \in Pull /\ pulls'[n].number = n /\ Rewritten(n)
         /\ \A m \in Tasks : m # n => Kept(m) /\ pulls'[m] \in Pull /\ pulls'[m].number = m
         /\ pulls' \in [Tasks -> Pull] /\ DOMAIN listed' = Tasks /\ net' = net
<1> DEFINE p == pulls[n]
           old == p.commits
           N == Len(old)
<1>1. /\ old \in Seq(CommitRecord) /\ N \in Nat
      /\ \A i \in 1..N : old[i].sha \in listed[n]
      /\ \A s \in Revisions : Commit(s) \in CommitRecord /\ Commit(s).sha = s
  <2>1. old \in Seq(CommitRecord) /\ N \in Nat
    BY DEF Core, Repository, Pull
  <2>2. \A i \in 1..N : old[i].sha \in listed[n]
    BY <2>1 DEF Core, Listed
  <2>3. \A s \in Revisions : date[s] \in Nat
    <3>1. scenario \in Scenarios /\ date \in [Revisions -> scenario.dates]
      BY DEF Core
    <3>2. scenario.dates \in SUBSET Nat
      BY <3>1, IngestionAssumption
    <3> QED  BY <3>1, <3>2
  <2> QED  BY <2>1, <2>2, <2>3 DEF Commit, CommitRecord
<1>2. Open(n) /\ \E c : Relist(n, c)
  BY DEF Push, ForcePush, Reset, Absorb
<1>3. net' = net
  BY <1>2 DEF Relist
<1> HIDE DEF N
<1>4. ASSUME NEW k \in 0..N, NEW s \in Revisions, NEW c \in Seq(CommitRecord), Relist(n, c),
             Len(c) = k + 1, c[k + 1] = Commit(s), \A i \in 1..k : c[i] = old[i],
             s \notin listed[n], k < N => Happens("force_push")
      PROVE  Rewritten(n)
  <2>1. pulls'[n].commits = c /\ SameState(n) /\ listed'[n] = listed[n] \cup {c[i].sha : i \in DOMAIN c}
    BY <1>2, <1>4, Relisted
  <2>2. {c[i].sha : i \in DOMAIN c} \subseteq listed[n] \cup {s} /\ s \in {c[i].sha : i \in DOMAIN c}
    <3>1. DOMAIN c = 1..(k + 1)
      BY <1>4
    <3>2. \A i \in 1..(k + 1) : c[i].sha \in listed[n] \cup {s}
      <4> TAKE i \in 1..(k + 1)
      <4>1. i \in 1..k \/ i = k + 1
        BY <1>4
      <4>2. i \in 1..k => i \in 1..N
        BY <1>1
      <4> QED  BY <1>1, <1>4, <4>1, <4>2
    <3>3. k + 1 \in 1..(k + 1)
      BY <1>4
    <3> QED  BY <1>1, <1>4, <3>1, <3>2, <3>3
  <2>3. Pushed(pulls[n], pulls'[n], k, s)
    BY <1>4, <2>1 DEF Pushed, N
  <2>4. listed'[n] = listed[n] \cup {s}
    BY <2>1, <2>2
  <2> QED  BY <1>4, <2>1, <2>3, <2>4 DEF Rewritten, N
<1>5. CASE \E s \in Revisions : Push(n, s)
  <2>1. PICK s \in Revisions : Push(n, s)
    BY <1>5
  <2> DEFINE c == Append(old, Commit(s))
  <2>2. Relist(n, c) /\ s \notin listed[n]
    BY <2>1 DEF Push
  <2>3. Commit(s) \in CommitRecord
    BY <1>1
  <2>4. /\ c \in Seq(CommitRecord) /\ Len(c) = N + 1 /\ c[N + 1] = Commit(s)
        /\ \A i \in 1..N : c[i] = old[i]
    BY <1>1, <2>3 DEF N
  <2>5. N \in 0..N /\ ~(N < N)
    BY <1>1
  <2> HIDE DEF c
  <2>6. Rewritten(n)
    BY <1>4, <2>2, <2>4, <2>5
  <2> QED  BY <1>2, <1>3, <2>2, <2>4, <2>6, Relisted
<1>6. CASE \E s \in Revisions : ForcePush(n, s)
  <2>1. PICK s \in Revisions : ForcePush(n, s)
    BY <1>6
  <2>2. PICK k \in 0..(N - 1) : Relist(n, Append(SubSeq(old, 1, k), Commit(s)))
    BY <2>1 DEF ForcePush, N
  <2> DEFINE c == Append(SubSeq(old, 1, k), Commit(s))
  <2>3. Commit(s) \in CommitRecord /\ k \in 0..N /\ s \notin listed[n] /\ Happens("force_push") /\ Relist(n, c)
    BY <1>1, <2>1, <2>2 DEF ForcePush
  <2>4. /\ c \in Seq(CommitRecord) /\ Len(c) = k + 1 /\ c[k + 1] = Commit(s)
        /\ \A i \in 1..k : c[i] = old[i]
    <3> DEFINE x == Commit(s)
               o == old
    <3>1. x \in CommitRecord /\ o \in Seq(CommitRecord) /\ k \in 0..Len(o)
      BY <1>1, <2>3 DEF N
    <3> HIDE DEF x, o
    <3> QED  BY <3>1, PushList DEF x, o
  <2> HIDE DEF c
  <2>6. Rewritten(n)
    BY <1>4, <2>3, <2>4
  <2> QED  BY <1>2, <1>3, <2>3, <2>4, <2>6, Relisted
<1>7. CASE Reset(n)
  <2>1. PICK k \in 1..(N - 1) : Relist(n, SubSeq(old, 1, k))
    BY <1>7 DEF Reset, N
  <2> DEFINE c == SubSeq(old, 1, k)
  <2>2. c \in Seq(CommitRecord) /\ Len(c) = k /\ \A i \in 1..k : c[i] = old[i]
    <3> DEFINE o == old
    <3>1. o \in Seq(CommitRecord) /\ k \in 1..(Len(o) - 1)
      BY <1>1 DEF N
    <3> HIDE DEF o
    <3> QED  BY <3>1, CutList DEF o
  <2>3. Relist(n, c)
    BY <2>1
  <2> HIDE DEF c
  <2>4. pulls'[n].commits = c /\ SameState(n) /\ listed'[n] = listed[n] \cup {c[i].sha : i \in DOMAIN c}
    BY <1>2, <2>2, <2>3, Relisted
  <2>5. \A i \in DOMAIN c : c[i].sha \in listed[n]
    <3>1. DOMAIN c = 1..k /\ k \in Nat /\ \A i \in 1..k : i \in 1..N
      BY <1>1, <2>2
    <3> QED  BY <1>1, <2>2, <3>1
  <2>6. Cut(pulls[n], pulls'[n]) /\ Happens("reset")
    BY <1>7, <2>2, <2>4 DEF Cut, Reset, N
  <2>7. Rewritten(n)
    BY <2>4, <2>5, <2>6 DEF Rewritten
  <2> QED  BY <1>2, <1>3, <2>2, <2>3, <2>7, Relisted
<1>8. CASE Absorb(n)
  <2> DEFINE c == Tail(old)
  <2>1. Len(old) > 1 /\ Relist(n, c)
    BY <1>8 DEF Absorb
  <2>2. c \in Seq(CommitRecord) /\ Len(c) = N - 1 /\ \A i \in 1..Len(c) : c[i] = old[i + 1]
    <3> DEFINE o == old
    <3>1. o \in Seq(CommitRecord) /\ Len(o) > 1
      BY <1>1, <2>1
    <3> HIDE DEF o
    <3> QED  BY <3>1, TrimList DEF o, N
  <2> HIDE DEF c
  <2>4. pulls'[n].commits = c /\ SameState(n) /\ listed'[n] = listed[n] \cup {c[i].sha : i \in DOMAIN c}
    BY <1>2, <2>1, <2>2, Relisted
  <2>5. \A i \in DOMAIN c : c[i].sha \in listed[n]
    <3>1. DOMAIN c = 1..(N - 1) /\ \A i \in 1..(N - 1) : i + 1 \in 1..N
      BY <1>1, <2>2
    <3> QED  BY <1>1, <2>2, <3>1
  <2>6. Trimmed(pulls[n], pulls'[n]) /\ Happens("absorb")
    BY <1>8, <2>1, <2>2, <2>4 DEF Trimmed, Absorb, N
  <2>7. Rewritten(n)
    BY <2>4, <2>5, <2>6 DEF Rewritten
  <2> QED  BY <1>2, <1>3, <2>1, <2>2, <2>7, Relisted
<1> QED  BY <1>5, <1>6, <1>7, <1>8

(* What is listed stays so in every move of a pull request. *)
LEMMA ListedKept ==
  ASSUME Core, date' = date, NEW n \in Tasks, PullMove(n), pulls'[n] \in Pull
  PROVE  Listed(n)'
<1> DEFINE p == pulls[n]
           q == pulls'[n]
           l == listed[n]
           m == listed'[n]
<1>1. /\ p.commits \in Seq(CommitRecord) /\ q.commits \in Seq(CommitRecord)
      /\ Len(p.commits) \in Nat /\ Len(q.commits) \in Nat
  <2>1. p \in Pull /\ q \in Pull
    BY DEF Core, Repository
  <2> HIDE DEF p, q
  <2>2. p.commits \in Seq(CommitRecord) /\ q.commits \in Seq(CommitRecord)
    BY <2>1 DEF Pull
  <2> QED  BY <2>2
<1>2. /\ l \in SUBSET Revisions
      /\ \A i \in 1..Len(p.commits) : p.commits[i].date = date[p.commits[i].sha] /\ p.commits[i].sha \in l
      /\ \A i, j \in 1..Len(p.commits) : p.commits[i].sha = p.commits[j].sha => i = j
      /\ p.created = 0 => Len(p.commits) = 0 /\ l = {} /\ p.closed = 0 /\ p.merged = 0
      /\ p.created # 0 => Len(p.commits) > 0
      /\ p.merged # 0 => p.closed # 0
  BY <1>1 DEF Core, Listed
<1>dom. DOMAIN q.commits = 1..Len(q.commits)
  BY <1>1
<1>3. SUFFICES
      /\ m \in SUBSET Revisions
      /\ \A i \in 1..Len(q.commits) : q.commits[i].date = date[q.commits[i].sha] /\ q.commits[i].sha \in m
      /\ \A i, j \in 1..Len(q.commits) : q.commits[i].sha = q.commits[j].sha => i = j
      /\ q.created = 0 => Len(q.commits) = 0 /\ m = {} /\ q.closed = 0 /\ q.merged = 0
      /\ q.created # 0 => Len(q.commits) > 0
      /\ q.merged # 0 => q.closed # 0
  BY <1>dom, Zenon DEF Listed
<1>4. CASE Kept(n)
  <2>1. q = p /\ m = l
    BY <1>4 DEF Kept
  <2> HIDE DEF p, q, l, m
  <2> QED  BY <1>2, <2>1
<1>5. CASE Declared(n)
  <2>1. /\ q.commits = p.commits /\ m = l /\ q.created = p.created /\ p.created # 0
        /\ q.closed # 0 \/ (q.closed = 0 /\ q.merged = 0)
    BY <1>5 DEF Declared
  <2> HIDE DEF p, q, l, m
  <2> QED  BY <1>2, <2>1
<1>6. CASE Rewritten(n)
  <2>1. /\ q.closed = p.closed /\ q.merged = p.merged /\ q.created # 0
    BY <1>6 DEF Rewritten, SameState
  <2>2. CASE Trimmed(p, q) /\ m = l
    <3> HIDE DEF p, q, l, m
    <3>1. \A i \in 1..Len(q.commits) : i + 1 \in 1..Len(p.commits) /\ q.commits[i] = p.commits[i + 1]
      BY <1>1, <2>2 DEF Trimmed
    <3>2. Len(q.commits) > 0
      BY <1>1, <2>2 DEF Trimmed
    <3>3. \A i \in 1..Len(q.commits) : q.commits[i].date = date[q.commits[i].sha] /\ q.commits[i].sha \in m
      BY <1>2, <2>2, <3>1
    <3>4. \A i, j \in 1..Len(q.commits) : q.commits[i].sha = q.commits[j].sha => i = j
      <4>1. SUFFICES ASSUME NEW i \in 1..Len(q.commits), NEW j \in 1..Len(q.commits),
                            q.commits[i].sha = q.commits[j].sha PROVE i = j
        OBVIOUS
      <4> DEFINE a == i + 1
                 b == j + 1
      <4>2. /\ a \in 1..Len(p.commits) /\ q.commits[i] = p.commits[a]
            /\ b \in 1..Len(p.commits) /\ q.commits[j] = p.commits[b]
        BY <3>1
      <4>3. a = b => i = j
        OBVIOUS
      <4> HIDE DEF a, b
      <4>4. a = b
        BY <1>2, <4>1, <4>2
      <4> QED  BY <4>3, <4>4
    <3> QED  BY <1>2, <2>1, <2>2, <3>2, <3>3, <3>4
  <2>3. CASE Cut(p, q) /\ m = l
    <3> HIDE DEF p, q, l, m
    <3>1. \A i \in 1..Len(q.commits) : i \in 1..Len(p.commits) /\ q.commits[i] = p.commits[i]
      BY <1>1, <2>3 DEF Cut
    <3>2. Len(q.commits) > 0
      BY <1>1, <2>3 DEF Cut
    <3> QED  BY <1>2, <2>1, <2>3, <3>1, <3>2
  <2>4. CASE \E k, s : Pushed(p, q, k, s) /\ s \notin l /\ m = l \cup {s}
    <3>1. PICK k, s : Pushed(p, q, k, s) /\ s \notin l /\ m = l \cup {s}
      BY <2>4
    <3>2. s \in Revisions /\ q.commits[k + 1].sha = s /\ q.commits[k + 1].date = date[s]
      BY <3>1 DEF Pushed, Commit
    <3> HIDE DEF p, q, l, m
    <3>3. /\ k \in Nat /\ Len(q.commits) = k + 1
          /\ \A i \in 1..k : i \in 1..Len(p.commits) /\ q.commits[i] = p.commits[i]
      BY <1>1, <3>1 DEF Pushed
    <3>4. \A i \in 1..Len(q.commits) : i = k + 1 \/ i \in 1..k
      BY <3>3
    <3>5. \A i \in 1..k : q.commits[i].date = date[q.commits[i].sha] /\ q.commits[i].sha \in l
      BY <1>2, <3>3
    <3>6. \A i \in 1..Len(q.commits) : q.commits[i].date = date[q.commits[i].sha] /\ q.commits[i].sha \in m
      BY <3>1, <3>2, <3>4, <3>5
    <3>7. \A i, j \in 1..Len(q.commits) : q.commits[i].sha = q.commits[j].sha => i = j
      <4>1. SUFFICES ASSUME NEW i \in 1..Len(q.commits), NEW j \in 1..Len(q.commits),
                            q.commits[i].sha = q.commits[j].sha PROVE i = j
        OBVIOUS
      <4>2. CASE i \in 1..k /\ j \in 1..k
        <5>1. p.commits[i].sha = p.commits[j].sha /\ i \in 1..Len(p.commits) /\ j \in 1..Len(p.commits)
          BY <3>3, <4>1, <4>2
        <5> QED  BY <1>2, <5>1
      <4>3. CASE i = k + 1 /\ j \in 1..k
        BY <3>1, <3>2, <3>5, <4>1, <4>3
      <4>4. CASE j = k + 1 /\ i \in 1..k
        BY <3>1, <3>2, <3>5, <4>1, <4>4
      <4> QED  BY <3>4, <4>2, <4>3, <4>4
    <3>8. m \in SUBSET Revisions
      BY <1>2, <3>1, <3>2
    <3>9. Len(q.commits) > 0
      BY <3>3
    <3> QED  BY <1>2, <2>1, <3>6, <3>7, <3>8, <3>9
  <2> QED  BY <1>6, <2>2, <2>3, <2>4 DEF Rewritten
<1> QED  BY <1>4, <1>5, <1>6 DEF PullMove

(* Every step on a pull request is a move of it, and sends what it made of *)
(* it or nothing.                                                          *)
LEMMA PullMoves ==
  ASSUME Core, PullStep
  PROVE  Moves /\ ci' = ci /\ checks' = checks /\ usage' = usage
         /\ scenario' = scenario /\ now' = now + 1 /\ now < scenario.steps
<1>1. /\ scenario' = scenario /\ now' = now + 1 /\ now < scenario.steps /\ swept' = FALSE
      /\ date' = date /\ ci' = ci /\ checks' = checks /\ usage' = usage /\ index' = index /\ log' = log
  BY DEF PullStep, OpenPull, Push, ForcePush, Reset, Absorb, Close, Merge, Reopen, Relist, Redeclare, Tick
<1>2. /\ pulls' \in [Tasks -> Pull] /\ DOMAIN listed' = Tasks
      /\ \A m \in Tasks : PullMove(m) /\ pulls'[m] \in Pull /\ pulls'[m].number = m
      /\ \A d \in net' : \/ d \in net
                         \/ Delivery(d) /\ \E m \in Tasks : d.about = pulls'[m]
  <2>1. CASE \E n \in Tasks, s \in Revisions : OpenPull(n, s)
    <3>1. PICK n \in Tasks, s \in Revisions : OpenPull(n, s)
      BY <2>1
    <3>2. /\ pulls'[n] \in Pull /\ pulls'[n].number = n /\ SameState(n)
          /\ Pushed(pulls[n], pulls'[n], 0, s) /\ s \notin listed[n] /\ listed'[n] = listed[n] \cup {s}
          /\ \A m \in Tasks : m # n => Kept(m) /\ pulls'[m] \in Pull /\ pulls'[m].number = m
          /\ pulls' \in [Tasks -> Pull] /\ DOMAIN listed' = Tasks /\ Len(pulls[n].commits) = 0
          /\ \A d \in net' : d \in net \/ (Delivery(d) /\ d.about = pulls'[n])
      BY <3>1, PullOpened
    <3>3. Rewritten(n)
      <4>1. ~(0 < Len(pulls[n].commits))
        BY <3>2
      <4> QED  BY <3>2, <4>1 DEF Rewritten
    <3> QED  BY <3>2, <3>3 DEF PullMove
  <2>2. CASE \E n \in Tasks : (\E s \in Revisions : Push(n, s) \/ ForcePush(n, s)) \/ Reset(n) \/ Absorb(n)
    <3>1. PICK n \in Tasks : (\E s \in Revisions : Push(n, s) \/ ForcePush(n, s)) \/ Reset(n) \/ Absorb(n)
      BY <2>2
    <3>2. /\ pulls'[n] \in Pull /\ pulls'[n].number = n /\ Rewritten(n)
          /\ \A m \in Tasks : m # n => Kept(m) /\ pulls'[m] \in Pull /\ pulls'[m].number = m
          /\ pulls' \in [Tasks -> Pull] /\ DOMAIN listed' = Tasks /\ net' = net
      BY <3>1, PullRewritten
    <3> QED  BY <3>2 DEF PullMove
  <2>3. CASE \E n \in Tasks : Close(n) \/ Merge(n) \/ Reopen(n)
    <3>1. PICK n \in Tasks : Close(n) \/ Merge(n) \/ Reopen(n)
      BY <2>3
    <3>2. now + 1 \in Nat /\ now + 1 # 0 /\ 0 \in Nat
      BY DEF Core
    <3>3. PICK action \in {"closed", "reopened"}, closed \in Nat, merged \in Nat :
            /\ action = "closed" => closed # 0
            /\ Redeclare(n, action, closed, merged)
            /\ \/ Open(n) /\ closed # 0
               \/ /\ Happens("reopen") /\ closed = 0 /\ merged = 0 /\ pulls[n].closed # 0
      <4>1. CASE Close(n)
        BY <3>2, <4>1 DEF Close
      <4>2. CASE Merge(n)
        BY <3>2, <4>2 DEF Merge
      <4>3. CASE Reopen(n)
        BY <3>2, <4>3 DEF Reopen
      <4> QED  BY <3>1, <4>1, <4>2, <4>3
    <3>4. /\ pulls'[n] \in Pull /\ pulls'[n].number = n /\ pulls'[n].commits = pulls[n].commits
          /\ pulls'[n].created = pulls[n].created /\ listed' = listed
          /\ pulls'[n].closed = closed /\ pulls'[n].merged = merged
          /\ \A m \in Tasks : m # n => Kept(m) /\ pulls'[m] \in Pull /\ pulls'[m].number = m
          /\ pulls' \in [Tasks -> Pull]
          /\ \A d \in net' : d \in net \/ (Delivery(d) /\ d.about = pulls'[n])
      BY <3>3, Redeclared
    <3>5. Declared(n)
      <4>1. pulls[n].created # 0
        <5>1. pulls[n].created = 0 => pulls[n].closed = 0
          BY DEF Core, Listed
        <5> QED  BY <3>3, <5>1 DEF Open, Opened
      <4> QED  BY <3>3, <3>4, <4>1 DEF Declared
    <3>6. DOMAIN listed' = Tasks
      BY <3>4 DEF Core
    <3> QED  BY <3>4, <3>5, <3>6 DEF PullMove
  <2> QED  BY <2>1, <2>2, <2>3 DEF PullStep
<1>3. usage \subseteq usage' /\ (usage' # usage => Happens("export"))
  BY <1>1
<1>4. Moves
  BY <1>1, <1>2, <1>3 DEF Moves
<1> QED  BY <1>1, <1>4

(* Every step of CI, or of the operator, leaves pull requests alone, and   *)
(* sends what CI made.                                                     *)
LEMMA CiMoves ==
  ASSUME Core, CiStep
  PROVE  /\ Moves
         /\ ci' \in [Runs -> Attempt] /\ \A q \in Runs : ci'[q].run = q
         /\ checks' \in [Checks -> CheckRun] /\ \A c \in Checks : checks'[c].check = c
         /\ usage' \in SUBSET Runs
         /\ scenario' = scenario /\ now' = now + 1 /\ now < scenario.steps
<1>1. /\ scenario' = scenario /\ now' = now + 1 /\ now < scenario.steps /\ swept' = FALSE
      /\ date' = date /\ pulls' = pulls /\ listed' = listed /\ index' = index /\ log' = log
  BY DEF CiStep, RunJob, CompleteRun, CompleteCheck, ExportUsage, Tick
<1>2. /\ ci \in [Runs -> Attempt] /\ \A q \in Runs : ci[q].run = q
      /\ checks \in [Checks -> CheckRun] /\ \A c \in Checks : checks[c].check = c
      /\ usage \in SUBSET Runs /\ now' \in Nat
      /\ pulls \in [Tasks -> Pull] /\ \A n \in Tasks : pulls[n].number = n
  BY <1>1 DEF Core, Repository
<1> DEFINE Typed ==
      /\ ci' \in [Runs -> Attempt] /\ \A q \in Runs : ci'[q].run = q
      /\ checks' \in [Checks -> CheckRun] /\ \A c \in Checks : checks'[c].check = c
      /\ usage' \in SUBSET Runs
      /\ usage \subseteq usage' /\ (usage' # usage => Happens("export"))
      /\ \A d \in net' : d \in net \/ (Delivery(d) /\ d.event # "pull_request")
<1>3. ASSUME NEW r \in Runs, NEW f, NEW event \in {"workflow_run", "workflow_job"}, NEW action,
             f \in Attempt, f.run = r, ci' = [ci EXCEPT ![r] = f],
             net' = net \cup {[event |-> event, action |-> action, about |-> ci'[r]]},
             checks' = checks, usage' = usage
      PROVE  Typed
  <2> DEFINE sent == [event |-> event, action |-> action, about |-> f]
  <2>1. ci' \in [Runs -> Attempt] /\ \A q \in Runs : ci'[q].run = q
    BY <1>2, <1>3
  <2>2. Delivery(sent) /\ sent.event # "pull_request"
    BY <1>3 DEF Delivery
  <2>3. net' = net \cup {sent}
    BY <1>2, <1>3
  <2> HIDE DEF sent
  <2>4. \A d \in net' : d \in net \/ (Delivery(d) /\ d.event # "pull_request")
    BY <2>2, <2>3
  <2> QED  BY <1>2, <1>3, <2>1, <2>4
<1>3a. checks' = checks /\ ci' = ci /\ net' = net => (usage' \in SUBSET Runs /\ usage \subseteq usage' /\ (usage' # usage => Happens("export")) => Typed)
  BY <1>2
<1> HIDE DEF Typed
<1>4. ASSUME \E r \in Runs : RunJob(r) PROVE Typed
  <2>1. PICK r \in Runs : RunJob(r)
    BY <1>4
  <2> DEFINE e == ci[r]
             f == [e EXCEPT !.start = now', !.jobEnd = now']
  <2>2. /\ ci' = [ci EXCEPT ![r] = f] /\ checks' = checks /\ usage' = usage
        /\ net' = net \cup {[event |-> "workflow_job", action |-> "completed", about |-> ci'[r]]}
    BY <1>2, <2>1 DEF RunJob, Send
  <2>3. e \in Attempt /\ e.run = r
    BY <1>2
  <2>4. f \in Attempt /\ f.run = r
    <3> HIDE DEF e
    <3> QED  BY <1>2, <2>3 DEF Attempt
  <2> HIDE DEF f
  <2> QED  BY <1>3, <2>2, <2>4
<1>5. ASSUME \E r \in Runs : CompleteRun(r) PROVE Typed
  <2>1. PICK r \in Runs : CompleteRun(r)
    BY <1>5
  <2>1a. PICK status \in {"passed", None} : ci' = [ci EXCEPT ![r].end = now', ![r].status = status]
    BY <2>1 DEF CompleteRun
  <2> DEFINE e == ci[r]
             f == [e EXCEPT !.end = now', !.status = status]
  <2>2. /\ ci' = [ci EXCEPT ![r] = f] /\ checks' = checks /\ usage' = usage
        /\ net' = net \cup {[event |-> "workflow_run", action |-> "completed", about |-> ci'[r]]}
    BY <1>2, <2>1, <2>1a DEF CompleteRun, Send
  <2>3. e \in Attempt /\ e.run = r
    BY <1>2
  <2>4. f \in Attempt /\ f.run = r
    <3> HIDE DEF e
    <3> QED  BY <1>2, <2>3 DEF Attempt
  <2> HIDE DEF f
  <2> QED  BY <1>3, <2>2, <2>4
<1>6. ASSUME \E r \in Runs : ExportUsage(r) PROVE Typed
  <2>1. PICK r \in Runs : ExportUsage(r)
    BY <1>6
  <2>2. usage' \in SUBSET Runs /\ usage \subseteq usage' /\ Happens("export")
    BY <1>2, <2>1 DEF ExportUsage
  <2>3. checks' = checks /\ ci' = ci /\ net' = net
    BY <2>1 DEF ExportUsage
  <2> QED  BY <1>3a, <2>2, <2>3
<1>7. ASSUME \E c \in Checks : CompleteCheck(c) PROVE Typed
  <2>1. PICK c \in Checks : CompleteCheck(c)
    BY <1>7
  <2>1a. PICK status \in {"passed", None} :
           checks' = [checks EXCEPT ![c].end = now', ![c].status = status]
    BY <2>1 DEF CompleteCheck
  <2> DEFINE e == checks[c]
             f == [e EXCEPT !.end = now', !.status = status]
             sent == [event |-> "check_run", action |-> "completed", about |-> f]
  <2>2. checks' = [checks EXCEPT ![c] = f] /\ ci' = ci /\ usage' = usage
    BY <1>2, <2>1, <2>1a DEF CompleteCheck
  <2>3. e \in CheckRun /\ e.check = c
    BY <1>2
  <2>4. f \in CheckRun /\ f.check = c
    <3> HIDE DEF e
    <3> QED  BY <1>2, <2>3 DEF CheckRun
  <2>5. net' = net \cup {sent}
    <3>1. checks'[c] = f
      BY <1>2, <2>2
    <3> HIDE DEF f
    <3> QED  BY <2>1, <3>1 DEF CompleteCheck, Send
  <2> HIDE DEF f
  <2>6. Delivery(sent) /\ sent.event # "pull_request"
    BY <2>4 DEF Delivery
  <2> HIDE DEF sent
  <2>7. \A d \in net' : d \in net \/ (Delivery(d) /\ d.event # "pull_request")
    BY <2>5, <2>6
  <2>8. checks' \in [Checks -> CheckRun] /\ \A x \in Checks : checks'[x].check = x
    BY <1>2, <2>2, <2>4
  <2>9. ci' = ci /\ usage' = usage
    BY <2>2
  <2> QED  BY <1>2, <2>7, <2>8, <2>9 DEF Typed
<1>8. Typed
  BY <1>4, <1>5, <1>6, <1>7, Zenon DEF CiStep
<1>9. Moves
  <2>1. pulls' \in [Tasks -> Pull] /\ DOMAIN listed' = Tasks
    BY <1>1, <1>2 DEF Core
  <2>2. \A n \in Tasks : PullMove(n) /\ pulls'[n] \in Pull /\ pulls'[n].number = n
    BY <1>1, <1>2 DEF PullMove, Kept
  <2>3. \A d \in net' : d \in net \/ (Delivery(d) /\ d.event # "pull_request")
    BY <1>8 DEF Typed
  <2>4. usage \subseteq usage' /\ (usage' # usage => Happens("export"))
    BY <1>8 DEF Typed
  <2> QED  BY <1>1, <2>1, <2>2, <2>3, <2>4 DEF Moves
<1> QED  BY <1>1, <1>8, <1>9 DEF Typed

(* No step of the repository breaks what holds of it. *)
LEMMA RepositoryStep ==
  ASSUME Core, PullStep \/ CiStep
  PROVE  Moves /\ Core'
<1>1. /\ Moves
      /\ ci' \in [Runs -> Attempt] /\ \A q \in Runs : ci'[q].run = q
      /\ checks' \in [Checks -> CheckRun] /\ \A c \in Checks : checks'[c].check = c
      /\ usage' \in SUBSET Runs
      /\ scenario' = scenario /\ now' = now + 1 /\ now < scenario.steps
  <2>1. CASE PullStep
    BY <2>1, PullMoves DEF Core, Repository
  <2>2. CASE CiStep
    BY <2>2, CiMoves
  <2> QED  BY <2>1, <2>2
<1>2. pulls' \in [Tasks -> Pull] /\ \A n \in Tasks : pulls'[n].number = n
  BY <1>1 DEF Moves
<1>3. (\A n \in Tasks : Listed(n)')
  BY <1>1, ListedKept DEF Moves
<1>4. \A d \in net' : Delivery(d)
  BY <1>1 DEF Moves, Core
<1>5. /\ scenario' \in Scenarios /\ now' \in 0..scenario'.steps /\ date' \in [Revisions -> scenario'.dates]
      /\ DOMAIN listed' = Tasks
  <2>1. scenario \in Scenarios /\ now \in 0..scenario.steps /\ scenario.steps \in Nat
        /\ date \in [Revisions -> scenario.dates]
    BY IngestionAssumption DEF Core
  <2> QED  BY <1>1, <2>1 DEF Moves
<1>6. Repository'
  BY <1>1, <1>2 DEF Repository
<1> QED  BY <1>1, <1>3, <1>4, <1>5, <1>6 DEF Core

-----------------------------------------------------------------------------
(* The ledger. *)

(* The ledger holds what the adapter may emit, each event once. *)
Ledger(l) ==
  /\ IsLog(l) /\ Len(l) \in Nat /\ DOMAIN l = 1..Len(l)
  /\ \A i \in 1..Len(l) : Made(l[i])
  /\ \A i, j \in 1..Len(l) : l[i].id = l[j].id => i = j

(* m is l with records S ingested. *)
Ingested(l, S, m) == m = l \o Unstored(Ordered(S), Ids(l))

Grown(l, S, m) ==
  /\ Extends(l, m, S) /\ Ledger(m)
  /\ Ids(l) \subseteq Ids(m) /\ \A r \in S : r.id \in Ids(m)

(* It still does with a batch ingested, and stores the ids of the batch.   *)
LEMMA LedgerGrows ==
  ASSUME NEW l, Ledger(l), NEW S, \E u, ix : Batch(S, u, ix), NEW m, Ingested(l, S, m)
  PROVE  Grown(l, S, m)
<1>0. PICK u, ix : Batch(S, u, ix)
  OBVIOUS
<1>1. /\ Sorts(Ordered(S), S, InOrder(S)) /\ \A r, q \in S : r.id = q.id => r = q
  BY <1>0, BatchSorts
<1>2. IsLog(l)
  BY DEF Ledger
<1>3. IsLog(m) /\ Extends(l, m, S)
  <2> DEFINE records == Ordered(S)
  <2>1. Sorts(records, S, InOrder(S)) /\ m = l \o Unstored(records, Ids(l))
    BY <1>1 DEF Ingested
  <2> HIDE DEF records
  <2> QED  BY <1>2, <2>1, IngestExtends
<1> DEFINE L == Len(l)
           M == Len(m)
<1>4. /\ L \in Nat /\ M \in Nat /\ L <= M /\ DOMAIN l = 1..L /\ DOMAIN m = 1..M
      /\ \A i \in 1..L : m[i] = l[i]
      /\ \A i \in (L + 1)..M : m[i] \in S /\ m[i].id \notin Ids(l)
      /\ \A r \in S : r.id \notin Ids(l) => \E i \in (L + 1)..M : m[i] = r
      /\ \A i, j \in (L + 1)..M : i < j <=> <<m[i], m[j]>> \in InOrder(S)
  BY <1>3 DEF Extends, Added
<1>5. \A r \in S : Made(r)
  BY <1>0 DEF Batch
<1>6. /\ \A i \in 1..L : Made(l[i]) /\ l[i].id \in Ids(l)
      /\ \A i, j \in 1..L : l[i].id = l[j].id => i = j
  BY <1>4 DEF Ledger, Ids
<1>7. Ids(l) \subseteq Ids(m)
  <2>1. 1..L \subseteq 1..M
    BY <1>4
  <2> HIDE DEF L, M
  <2> QED  BY <1>4, <2>1 DEF Ids
<1>8. \A r \in S : r.id \in Ids(m)
  <2> SUFFICES ASSUME NEW r \in S, r.id \notin Ids(l) PROVE r.id \in Ids(m)
    BY <1>7
  <2>1. PICK i \in (L + 1)..M : m[i] = r
    BY <1>4
  <2>2. i \in DOMAIN m
    BY <1>4
  <2> QED  BY <2>1, <2>2 DEF Ids
<1> HIDE DEF L, M
<1>9. \A i \in 1..M : i \in 1..L \/ i \in (L + 1)..M
  BY <1>4
<1>10. \A i \in 1..M : Made(m[i])
  BY <1>4, <1>5, <1>6, <1>9
<1>11. \A i, j \in 1..M : m[i].id = m[j].id => i = j
  <2> SUFFICES ASSUME NEW i \in 1..M, NEW j \in 1..M, m[i].id = m[j].id PROVE i = j
    OBVIOUS
  <2>1. CASE i \in 1..L /\ j \in 1..L
    BY <1>4, <1>6, <2>1
  <2>2. CASE i \in 1..L /\ j \in (L + 1)..M
    BY <1>4, <1>6, <2>2
  <2>3. CASE i \in (L + 1)..M /\ j \in 1..L
    BY <1>4, <1>6, <2>3
  <2>4. CASE i \in (L + 1)..M /\ j \in (L + 1)..M
    <3>1. m[i] = m[j]
      BY <1>1, <1>4, <2>4
    <3> DEFINE same == <<m[i], m[i]>> \in InOrder(S)
    <3>2. /\ i < j <=> same
          /\ j < i <=> same
          /\ i < i <=> same
      BY <1>4, <2>4, <3>1
    <3> HIDE DEF same
    <3> QED  BY <1>4, <2>4, <3>2
  <2> QED  BY <1>9, <2>1, <2>2, <2>3, <2>4
<1>12. Ledger(m)
  BY <1>3, <1>4, <1>10, <1>11 DEF Ledger, M
<1> QED  BY <1>3, <1>7, <1>8, <1>12 DEF Grown

(* What the steps preserve: the repository and the ledger as they are      *)
(* typed, and the index of some sweep.                                     *)
Books ==
  /\ Core
  /\ index \in SUBSET IndexEntry /\ IsFiniteSet(index)
  /\ Ledger(log)

(* A delivery is ingested. *)
LEMMA DeliverStep ==
  ASSUME Books, NEW d \in net, Deliver(d)
  PROVE  /\ Batch(DeliverySet(d, index, usage), usage, index)
         /\ Signals(DeliverySet(d, index, usage), d) /\ Delivery(d)
         /\ Extends(log, log', DeliverySet(d, index, usage)) /\ Ledger(log')
         /\ Ids(log) \subseteq Ids(log')
         /\ UNCHANGED <<repository, index, swept>>
<1> DEFINE S == DeliverySet(d, index, usage)
<1>1. Delivery(d) /\ index \in SUBSET IndexEntry /\ IsFiniteSet(index) /\ Ledger(log)
  BY DEF Books, Core
<1>2. /\ NormalizeWebhookDelivery(d, index, usage) = Ordered(S)
      /\ Batch(S, usage, index) /\ Signals(S, d)
  BY <1>1, DeliveryBatch, Zenon
<1>3. log' = log \o Unstored(Ordered(S), Ids(log)) /\ UNCHANGED <<repository, index, swept>>
  BY <1>2, Zenon DEF Deliver, Ingest
<1>4. Ledger(log) /\ Ingested(log, S, log')
  BY <1>1, <1>3 DEF Ingested
<1> HIDE DEF S
<1>5. Grown(log, S, log')
  BY <1>2, <1>4, LedgerGrows
<1> QED  BY <1>1, <1>2, <1>3, <1>5 DEF S, Grown

(* A sweep is ingested. *)
LEMMA SweepStep ==
  ASSUME Books, Sweep
  PROVE  /\ Batch(AuditSet, usage, SweepIndex)
         /\ Extends(log, log', AuditSet) /\ Ledger(log')
         /\ Ids(log) \subseteq Ids(log') /\ \A r \in AuditSet : r.id \in Ids(log')
         /\ index' = SweepIndex /\ swept' /\ UNCHANGED repository
<1> DEFINE S == AuditSet
<1>1. Repository /\ Ledger(log)
  BY DEF Books, Core
<1>2. Batch(S, usage, SweepIndex) /\ Audit = Ordered(S)
  BY <1>1, AuditBatch, AuditIs
<1>3. log' = log \o Unstored(Ordered(S), Ids(log)) /\ index' = SweepIndex /\ swept' /\ UNCHANGED repository
  BY <1>2, Zenon DEF Sweep, Ingest, SweepIndex
<1>4. Ledger(log) /\ Ingested(log, S, log')
  BY <1>1, <1>3 DEF Ingested
<1> HIDE DEF S
<1>5. Grown(log, S, log')
  BY <1>2, <1>4, LedgerGrows
<1> QED  BY <1>2, <1>3, <1>5 DEF S, Grown

(* The steps. *)
LEMMA BooksInit ==
  ASSUME Init
  PROVE  Books
<1>1. Core /\ index = {} /\ log = <<>>
  BY CoreInit
<1>2. IsFiniteSet({})
  BY FS_EmptySet
<1>3. <<>> \in Seq({}) /\ Len(<<>>) = 0 /\ DOMAIN <<>> = 1..0
  OBVIOUS
<1>4. Ledger(<<>>)
  BY <1>3 DEF Ledger, IsLog
<1> QED  BY <1>1, <1>2, <1>4 DEF Books

(* A step is one of the repository, a delivery, a sweep, or none. *)
LEMMA Steps ==
  ASSUME [Next]_vars
  PROVE  \/ PullStep \/ CiStep
         \/ \E d \in net : Deliver(d)
         \/ Sweep
         \/ UNCHANGED vars
BY DEF Next, PullStep, CiStep

(* Books is inductive: every action of the model preserves it. *)
LEMMA BooksStep ==
  ASSUME Books, [Next]_vars
  PROVE  Books'
<1>1. CASE PullStep \/ CiStep
  <2>1. Moves /\ Core'
    BY <1>1, RepositoryStep DEF Books
  <2>2. index' = index /\ log' = log
    BY <2>1 DEF Moves
  <2> QED  BY <2>1, <2>2 DEF Books
<1>2. CASE \E d \in net : Deliver(d)
  <2>1. PICK d \in net : Deliver(d)
    BY <1>2
  <2>2. Ledger(log') /\ UNCHANGED <<repository, index, swept>>
    BY <2>1, DeliverStep
  <2>3. Core'
    BY <2>2 DEF Books, Core, Repository, Listed, repository
  <2> QED  BY <2>2, <2>3 DEF Books
<1>3. CASE Sweep
  <2>1. Ledger(log') /\ index' = SweepIndex /\ UNCHANGED repository
    BY <1>3, SweepStep
  <2>2. Core'
    BY <2>1 DEF Books, Core, Repository, Listed, repository
  <2>3. SweepIndex \in SUBSET IndexEntry /\ IsFiniteSet(SweepIndex)
    BY SweepIndexIs DEF Books, Core
  <2> QED  BY <2>1, <2>2, <2>3 DEF Books
<1>4. CASE UNCHANGED vars
  BY <1>4 DEF vars, repository, Books, Core, Repository, Listed
<1> QED  BY <1>1, <1>2, <1>3, <1>4, Steps

(* The adapter emits, over every history of the repository, of deliveries  *)
(* and of sweeps, only events with the ledger's types that its validator   *)
(* accepts.                                                                *)
THEOREM Typed == Spec => []TypeOK
<1>1. Init => Books
  BY BooksInit
<1>2. Books /\ [Next]_vars => Books'
  BY BooksStep
<1>3. Books => TypeOK
  BY DEF Books, Core, Repository, Ledger, Made, TypeOK, IndexEntry
<1> QED  BY <1>1, <1>2, <1>3, PTL DEF Spec

-----------------------------------------------------------------------------
(* What the ledger tells of its tasks. *)

(* A ref is one of a run, a job or a check, which its event id names too.  *)
LEMMA RefsTellIds ==
  ASSUME NEW r, Made(r), IsComponent(r.ev), NEW q, Made(q), IsComponent(q.ev), r.ev.ref = q.ev.ref
  PROVE  r.id = q.id
<1> DEFINE Names(id, ref) ==
      \/ \E c \in Runs : id = RunId(c) /\ ref = CiRef(c)
      \/ \E c \in Runs : id = <<"wfjob", c.job, 0>> /\ ref = ComputeRef(c)
      \/ \E c \in Checks : id = <<"checkrun", c.id, 0>> /\ ref = ValidationRef(c)
<1>1. ASSUME NEW x, Made(x), IsComponent(x.ev) PROVE Names(x.id, x.ev.ref)
  <2>1. <<x.id[1], x.ev.type>> \in Kinds /\ x.ev.type \in ComponentTypes /\ Honest(x.id, x.ev)
    BY <1>1 DEF Made, IsComponent
  <2>2. x.ev.type \in {"ci_run_recorded", "compute_usage_recorded", "validation_recorded"}
    BY <2>1 DEF Kinds, ComponentTypes
  <2> QED  BY <2>1, <2>2 DEF Honest
<1>2. Names(r.id, r.ev.ref) /\ Names(q.id, q.ev.ref)
  BY <1>1
<1> QED  BY <1>2 DEF RunId, CiRef, ComputeRef, ValidationRef

(* The events of a ledger. *)
LEMMA LedgerEvents ==
  ASSUME NEW l, Ledger(l)
  PROVE  /\ EventsOf(l) \in Seq(Event) /\ Len(EventsOf(l)) = Len(l)
         /\ \A i \in 1..Len(l) : EventsOf(l)[i] = l[i].ev
         /\ \A i \in DOMAIN EventsOf(l) : Conforms(EventsOf(l)[i])
<1> DEFINE e == EventsOf(l)
           N == Len(l)
<1>1. N \in Nat /\ e = [i \in 1..N |-> l[i].ev] /\ \A i \in 1..N : Made(l[i])
  BY DEF Ledger, EventsOf
<1>2. \A i \in 1..N : l[i].ev \in Event /\ Conforms(l[i].ev)
  BY <1>1 DEF Made
<1> HIDE DEF e, N
<1>3. e \in Seq(Event) /\ Len(e) = N /\ DOMAIN e = 1..N
  BY <1>1, <1>2
<1> QED  BY <1>1, <1>2, <1>3 DEF e, N

(* Task n with build state x is what ledger l tells of it. *)
TellsOf(l, n, x) ==
  /\ Told(EventsOf(l), Len(l), n, x) /\ ~x.duplicateRef
  /\ x.comps = {Filed(EventsOf(l), i) : i \in Upto(EventsOf(l), Len(l), n, ComponentTypes)}
  /\ \A e \in Executions : Narrated(EventsOf(l), Len(l), n, e, x.execs[e])

(* No two events of the adapter's ledger have the same ref. *)
LEMMA LedgerTells ==
  ASSUME NEW l, Ledger(l), NEW n \in Tasks
  PROVE  TellsOf(l, n, Reconstruct(EventsOf(l))[n])
<1> DEFINE v == EventsOf(l)
           x == Reconstruct(v)[n]
<1>1. /\ v \in Seq(Event) /\ Len(v) = Len(l) /\ \A i \in 1..Len(l) : v[i] = l[i].ev
      /\ \A i \in DOMAIN v : Conforms(v[i])
  BY LedgerEvents
<1>2. Told(v, Len(l), n, x) /\ \A e \in Executions : Narrated(v, Len(l), n, e, x.execs[e])
  <2> HIDE DEF v
  <2>1. Told(v, Len(v), n, x) /\ \A e \in Executions : Narrated(v, Len(v), n, e, x.execs[e])
    BY <1>1, ReconstructTells
  <2> QED  BY <1>1, <2>1
<1>3. ASSUME NEW i \in Upto(v, Len(l), n, ComponentTypes), NEW j \in Upto(v, Len(l), n, ComponentTypes),
             v[i].ref = v[j].ref
      PROVE  i = j
  <2>1. /\ i \in 1..Len(l) /\ j \in 1..Len(l) /\ v[i] = l[i].ev /\ v[j] = l[j].ev
        /\ IsComponent(l[i].ev) /\ IsComponent(l[j].ev)
    BY <1>1 DEF Upto, IsComponent
  <2>2. Made(l[i]) /\ Made(l[j])
    BY <2>1 DEF Ledger
  <2>3. l[i].id = l[j].id
    BY <1>3, <2>1, <2>2, RefsTellIds
  <2> QED  BY <2>1, <2>3 DEF Ledger
<1> HIDE DEF v, x
<1>4. ~x.duplicateRef
  BY <1>2, <1>3 DEF Told
<1>5. x.comps = {Filed(v, i) : i \in Upto(v, Len(l), n, ComponentTypes)}
  BY <1>2, <1>4 DEF Told
<1> QED  BY <1>2, <1>4, <1>5 DEF TellsOf, v, x

(* Position i of l holds a start of execution e of task n. *)
StartedAt(l, n, e, i) ==
  i \in 1..Len(l) /\ l[i].ev.type = "execution_started" /\ l[i].ev.task = n /\ l[i].ev.exec = e
FinishedAt(l, n, e, i) ==
  i \in 1..Len(l) /\ l[i].ev.type = "execution_finished" /\ l[i].ev.task = n /\ l[i].ev.exec = e

(* How execution record x of e of task n reads in ledger l. *)
ReadsAs(l, n, e, x) ==
  /\ x.explicit <=> \E i : StartedAt(l, n, e, i)
  /\ x.announced <=> (\E i : StartedAt(l, n, e, i)) \/ (\E i : FinishedAt(l, n, e, i))
  /\ \A i : StartedAt(l, n, e, i) /\ (\A j : StartedAt(l, n, e, j) => j <= i) => x.startedSeq = i
  /\ (\A i : ~FinishedAt(l, n, e, i)) => x.status = "running"
  /\ \A i : FinishedAt(l, n, e, i) /\ (\A j : FinishedAt(l, n, e, j) => j <= i) =>
       x.status = l[i].ev.status /\ (l[i].ev.status = "superseded" => x.by = l[i].ev.by)

(* What a ledger says of an execution, the task read from it says too. *)
LEMMA LedgerNarrates ==
  ASSUME NEW l, Ledger(l), NEW n \in Tasks, NEW x, TellsOf(l, n, x), NEW e \in Executions
  PROVE  ReadsAs(l, n, e, x.execs[e])
<1> DEFINE v == EventsOf(l)
           y == x.execs[e]
           S == Naming(v, Len(l), n, e, "execution_started")
           F == Naming(v, Len(l), n, e, "execution_finished")
<1>1. \A i \in 1..Len(l) : v[i] = l[i].ev
  BY LedgerEvents
<1>2. \A i : i \in S <=> StartedAt(l, n, e, i)
  BY <1>1 DEF Naming, StartedAt
<1>3. \A i : i \in F <=> FinishedAt(l, n, e, i)
  BY <1>1 DEF Naming, FinishedAt
<1>4. /\ y.explicit <=> S # {}
      /\ y.announced <=> S # {} \/ F # {}
      /\ \A i : Newest(i, S) => y.startedSeq = i
      /\ F = {} => y.status = "running"
      /\ \A i : Newest(i, F) => y.status = v[i].status /\ (v[i].status = "superseded" => y.by = v[i].by)
  BY DEF TellsOf, Narrated
<1>5. \A i : FinishedAt(l, n, e, i) => v[i] = l[i].ev
  BY <1>1 DEF FinishedAt
<1> HIDE DEF v, y, S, F
<1>6. \A i : Newest(i, S) <=> StartedAt(l, n, e, i) /\ \A j : StartedAt(l, n, e, j) => j <= i
  BY <1>2 DEF Newest
<1>7. \A i : Newest(i, F) <=> FinishedAt(l, n, e, i) /\ \A j : FinishedAt(l, n, e, j) => j <= i
  BY <1>3 DEF Newest
<1> QED  BY <1>2, <1>3, <1>4, <1>5, <1>6, <1>7 DEF ReadsAs, y

(* pi lists the commits of p by date, then by place. *)
Places(p, pi) ==
  LET N == Len(p.commits) IN
  /\ pi \in [1..N -> 1..N]
  /\ \A i \in 1..N : \E k \in 1..N : pi[k] = i
  /\ \A j, k \in 1..N : pi[j] = pi[k] => j = k
  /\ \A k \in 1..N : Sorted(p)[k] = p.commits[pi[k]]
  /\ \A j, k \in 1..N : j < k <=>
       \/ Sorted(p)[j].date < Sorted(p)[k].date
       \/ Sorted(p)[j].date = Sorted(p)[k].date /\ pi[j] < pi[k]

(* The sorted commits are the listed ones. *)
LEMMA PlacesExist ==
  ASSUME NEW p \in Pull
  PROVE  \E pi : Places(p, pi)
<1> DEFINE c == p.commits
           N == Len(c)
           D == DOMAIN c
<1>1. c \in Seq(CommitRecord)
  BY DEF Pull
<1>2. PICK pi : Sorts(pi, D, Chrono(c)) /\ OrderCommits(c) = [k \in D |-> c[pi[k]]]
  BY <1>1, CommitsSort
<1>3. D = 1..N /\ N \in Nat
  BY <1>1
<1>4. Cardinality(D) = N
  BY <1>3, FS_Interval
<1>5. /\ pi \in [1..N -> 1..N]
      /\ \A i \in 1..N : \E k \in 1..N : pi[k] = i
      /\ \A j, k \in 1..N : pi[j] = pi[k] => j = k
      /\ \A j, k \in 1..N : j < k <=> <<pi[j], pi[k]>> \in Chrono(c)
  BY <1>2, <1>3, <1>4, Zenon DEF Sorts
<1>6. \A k \in 1..N : Sorted(p)[k] = c[pi[k]]
  BY <1>2, <1>3, Zenon DEF Sorted
<1>7. \A i, j \in 1..N : <<i, j>> \in Chrono(c) <=>
        c[i].date < c[j].date \/ (c[i].date = c[j].date /\ i < j)
  BY <1>3 DEF Chrono
<1> HIDE DEF N
<1>8. \A j, k \in 1..N : j < k <=>
        \/ Sorted(p)[j].date < Sorted(p)[k].date
        \/ Sorted(p)[j].date = Sorted(p)[k].date /\ pi[j] < pi[k]
  <2> SUFFICES ASSUME NEW j \in 1..N, NEW k \in 1..N
               PROVE  j < k <=> \/ c[pi[j]].date < c[pi[k]].date
                                \/ c[pi[j]].date = c[pi[k]].date /\ pi[j] < pi[k]
    BY <1>6
  <2>1. pi[j] \in 1..N /\ pi[k] \in 1..N
    BY <1>5
  <2> QED  BY <1>5, <1>7, <2>1
<1>9. Places(p, pi)
  BY <1>5, <1>6, <1>8 DEF Places, N
<1> QED  BY <1>9

(* A revision that is listed is sorted somewhere. *)
LEMMA SortedHas ==
  ASSUME NEW p \in Pull, NEW i \in DOMAIN p.commits
  PROVE  \E k \in 1..Len(p.commits) : Sorted(p)[k] = p.commits[i]
<1>1. PICK pi : Places(p, pi)
  BY PlacesExist
<1>2. i \in 1..Len(p.commits)
  BY DEF Pull
<1> DEFINE N == Len(p.commits)
<1>3. PICK k \in 1..N : pi[k] = i
  BY <1>1, <1>2, Zenon DEF Places
<1>4. Sorted(p)[k] = p.commits[pi[k]]
  BY <1>1, Zenon DEF Places
<1> QED  BY <1>3, <1>4

(* An id of a start or finish tells what it is the id of. *)
LEMMA StoredEvents ==
  ASSUME NEW l, Ledger(l), NEW n, NEW k, NEW s
  PROVE  /\ \A i \in 1..Len(l) : l[i].id = StartId(n, k, s) => StartedAt(l, n, <<n, s>>, i)
         /\ \A i \in 1..Len(l) : l[i].id = FinishId(n, k, s) => FinishedAt(l, n, <<n, s>>, i)
<1> SUFFICES ASSUME NEW i \in 1..Len(l)
             PROVE  /\ l[i].id = StartId(n, k, s) => StartedAt(l, n, <<n, s>>, i)
                    /\ l[i].id = FinishId(n, k, s) => FinishedAt(l, n, <<n, s>>, i)
  OBVIOUS
<1> DEFINE r == l[i]
<1>1. <<r.id[1], r.ev.type>> \in Kinds /\ Honest(r.id, r.ev)
  BY DEF Ledger, Made
<1> HIDE DEF r
<1>2. ASSUME r.id = StartId(n, k, s) PROVE r.ev.type = "execution_started" /\ r.ev.task = n /\ r.ev.exec = <<n, s>>
  <2>1. r.ev.type = "execution_started"
    BY <1>1, <1>2 DEF Kinds, StartId
  <2>2. PICK j \in Nat, z \in Revisions : r.id = StartId(r.ev.task, j, z) /\ r.ev.exec = <<r.ev.task, z>>
    BY <1>1, <2>1 DEF Honest
  <2>3. r.ev.task = n /\ z = s
    BY <1>2, <2>2 DEF StartId
  <2> QED  BY <2>1, <2>2, <2>3
<1>3. ASSUME r.id = FinishId(n, k, s) PROVE r.ev.type = "execution_finished" /\ r.ev.task = n /\ r.ev.exec = <<n, s>>
  <2>1. r.ev.type = "execution_finished"
    BY <1>1, <1>3 DEF Kinds, FinishId
  <2>2. PICK j \in Nat, z \in Revisions : r.id = FinishId(r.ev.task, j, z) /\ r.ev.exec = <<r.ev.task, z>>
    BY <1>1, <2>1 DEF Honest
  <2>3. r.ev.task = n /\ z = s
    BY <1>3, <2>2 DEF FinishId
  <2> QED  BY <2>1, <2>2, <2>3
<1> QED  BY <1>2, <1>3 DEF StartedAt, FinishedAt, r

(* The ids of the terminal signals of a pull request. *)
MergedId(n) == <<"pr-merged", n, 0>>
ClosedId(n) == <<"pr-closed", n, 0>>

(* An id of a signal tells which one it is of. *)
LEMMA StoredSignals ==
  ASSUME NEW l, Ledger(l), NEW n, NEW i \in 1..Len(l)
  PROVE  /\ l[i].id = MergedId(n) => l[i].ev.type = "pull_request_merged" /\ l[i].ev.task = n
         /\ l[i].id = ClosedId(n) => l[i].ev.type = "pull_request_closed" /\ l[i].ev.task = n
<1> DEFINE r == l[i]
<1>1. <<r.id[1], r.ev.type>> \in Kinds /\ Honest(r.id, r.ev)
  BY DEF Ledger, Made
<1> HIDE DEF r
<1>2. ASSUME r.id = <<"pr-merged", n, 0>>
      PROVE  r.ev.type = "pull_request_merged" /\ r.ev.task = n
  <2>1. r.ev.type = "pull_request_merged"
    BY <1>1, <1>2 DEF Kinds
  <2>2. r.id = <<"pr-merged", r.ev.task, 0>>
    BY <1>1, <2>1 DEF Honest
  <2>3. r.ev.task = n
    BY <1>2, <2>2
  <2> QED  BY <2>1, <2>2, <2>3
<1>3. ASSUME r.id = <<"pr-closed", n, 0>>
      PROVE  r.ev.type = "pull_request_closed" /\ r.ev.task = n
  <2>1. r.ev.type = "pull_request_closed"
    BY <1>1, <1>3 DEF Kinds
  <2>2. r.id = <<"pr-closed", r.ev.task, 0>>
    BY <1>1, <2>1 DEF Honest
  <2>3. r.ev.task = n
    BY <1>3, <2>2
  <2> QED  BY <2>1, <2>2, <2>3
<1> QED  BY <1>2, <1>3 DEF r, MergedId, ClosedId

-----------------------------------------------------------------------------
(* Revision bindings. *)

Starts(l, n, s) == \E i : StartedAt(l, n, <<n, s>>, i)

(* Every revision the index knows has been started in ledger l. *)
IndexStarted(ix, l) == \A e \in ix : \A s \in e.shas : Starts(l, e.number, s)

(* So has every execution a component of ledger l is bound to. *)
BindingsStarted(l) ==
  \A i \in 1..Len(l) : IsComponent(l[i].ev) /\ l[i].ev.exec # None =>
    \E s : l[i].ev.exec = <<l[i].ev.task, s>> /\ Starts(l, l[i].ev.task, s)

(* A start stays started. *)
LEMMA StartsKept ==
  ASSUME NEW l, NEW m, NEW S, Extends(l, m, S), NEW n, NEW s, Starts(l, n, s)
  PROVE  Starts(m, n, s)
<1>1. PICK i : StartedAt(l, n, <<n, s>>, i)
  BY DEF Starts
<1>2. i \in 1..Len(l) /\ i \in 1..Len(m) /\ m[i] = l[i]
  BY <1>1 DEF Extends, StartedAt
<1>3. StartedAt(m, n, <<n, s>>, i)
  BY <1>1, <1>2 DEF StartedAt
<1> QED  BY <1>3 DEF Starts

(* What is ingested is bound to started executions, if the index is. *)
LEMMA BindingsGrow ==
  ASSUME NEW l, NEW m, NEW S, Extends(l, m, S), NEW ix,
         \A r \in S : IsComponent(r.ev) => Bound(r.ev, ix),
         BindingsStarted(l), IndexStarted(ix, m)
  PROVE  BindingsStarted(m)
<1> SUFFICES ASSUME NEW i \in 1..Len(m), IsComponent(m[i].ev), m[i].ev.exec # None
             PROVE  \E s : m[i].ev.exec = <<m[i].ev.task, s>> /\ Starts(m, m[i].ev.task, s)
  BY DEF BindingsStarted
<1>1. /\ i \in 1..Len(l) \/ i \in (Len(l) + 1)..Len(m)
      /\ \A j \in 1..Len(l) : m[j] = l[j]
      /\ \A j \in (Len(l) + 1)..Len(m) : m[j] \in S
  BY DEF Extends, Added
<1>2. CASE i \in 1..Len(l)
  <2>1. m[i] = l[i]
    BY <1>1, <1>2
  <2>2. PICK s : l[i].ev.exec = <<l[i].ev.task, s>> /\ Starts(l, l[i].ev.task, s)
    BY <1>2, <2>1 DEF BindingsStarted
  <2>3. Starts(m, l[i].ev.task, s)
    BY <2>2, StartsKept
  <2> QED  BY <2>1, <2>2, <2>3
<1>3. CASE i \in (Len(l) + 1)..Len(m)
  <2>1. Bound(m[i].ev, ix)
    BY <1>1, <1>3
  <2>2. PICK e \in ix : \E s \in e.shas : m[i].ev.task = e.number /\ m[i].ev.exec = <<e.number, s>>
    BY <2>1 DEF Bound
  <2> QED  BY <2>2 DEF IndexStarted
<1> QED  BY <1>1, <1>2, <1>3

(* A sweep starts what its index knows. *)
LEMMA SweepStarts ==
  ASSUME Books, NEW l, Ledger(l), \A r \in AuditSet : r.id \in Ids(l)
  PROVE  IndexStarted(SweepIndex, l)
<1> SUFFICES ASSUME NEW e \in SweepIndex, NEW s \in e.shas PROVE Starts(l, e.number, s)
  BY DEF IndexStarted
<1> DEFINE n == e.number
           p == pulls[n]
<1>1. Repository
  BY DEF Books, Core
<1>2. n \in Opened \cap Agentic /\ e.shas = Shas(n) /\ n \in Tasks
  BY <1>1, SweepIndexIs DEF Opened
<1>3. p \in Pull /\ p.number = n
  BY <1>1, <1>2 DEF Repository
<1>4. PICK i \in DOMAIN p.commits : s = p.commits[i].sha
  BY <1>2 DEF Shas
<1>5. PICK k \in 1..Len(p.commits) : Sorted(p)[k] = p.commits[i]
  BY <1>3, SortedHas
<1>6. StartOf(p, k) \in AuditSet
  <2>1. OfPull(StartOf(p, k), p)
    BY <1>5 DEF OfPull
  <2> QED  BY <1>1, <1>2, <2>1, AuditBatch DEF AuditSet
<1>7. StartOf(p, k).id = StartId(n, k, s)
  BY <1>2, <1>3, <1>4, <1>5, StartIs
<1>8. PICK j \in DOMAIN l : l[j].id = StartId(n, k, s)
  BY <1>6, <1>7 DEF Ids
<1>9. j \in 1..Len(l)
  BY DEF Ledger
<1>10. StartedAt(l, n, <<n, s>>, j)
  BY <1>8, <1>9, StoredEvents
<1> QED  BY <1>10 DEF Starts

Bindings == IndexStarted(index, log) /\ BindingsStarted(log)

(* Bindings is inductive. *)
LEMMA BindingsStep ==
  ASSUME Books, Bindings, [Next]_vars
  PROVE  Bindings'
<1>1. CASE PullStep \/ CiStep
  BY <1>1, RepositoryStep DEF Books, Moves, Bindings
<1>2. CASE \E d \in net : Deliver(d)
  <2>1. PICK d \in net : Deliver(d)
    BY <1>2
  <2> DEFINE S == DeliverySet(d, index, usage)
  <2>2. Batch(S, usage, index) /\ Extends(log, log', S) /\ index' = index
    BY <2>1, DeliverStep
  <2> HIDE DEF S
  <2>3. IndexStarted(index, log')
    BY <2>2, StartsKept DEF Bindings, IndexStarted
  <2>4. \A r \in S : IsComponent(r.ev) => Bound(r.ev, index)
    BY <2>2 DEF Batch
  <2>5. BindingsStarted(log')
    BY <2>2, <2>3, <2>4, BindingsGrow DEF Bindings
  <2> QED  BY <2>2, <2>3, <2>5 DEF Bindings
<1>3. CASE Sweep
  <2> DEFINE S == AuditSet
             ix == SweepIndex
  <2>1. /\ Batch(S, usage, ix) /\ Extends(log, log', S) /\ Ledger(log') /\ index' = ix
        /\ \A r \in S : r.id \in Ids(log')
    BY <1>3, SweepStep
  <2>2. IndexStarted(ix, log')
    BY <2>1, SweepStarts
  <2> HIDE DEF S, ix
  <2>4. \A r \in S : IsComponent(r.ev) => Bound(r.ev, ix)
    BY <2>1 DEF Batch
  <2>5. BindingsStarted(log')
    BY <2>1, <2>2, <2>4, BindingsGrow DEF Bindings
  <2> QED  BY <2>1, <2>2, <2>5 DEF Bindings
<1>4. CASE UNCHANGED vars
  BY <1>4 DEF vars, Bindings
<1> QED  BY <1>1, <1>2, <1>3, <1>4, Steps

(* A component bound to a revision belongs to an execution that its task   *)
(* has explicitly started, whatever index it was correlated with.          *)
THEOREM NoBindingInvented == Spec => []BindingsNeverInvented
<1>1. Init => Books /\ Bindings
  <2>1. ASSUME Init PROVE Books /\ Bindings
    <3>1. index = {} /\ log = <<>>
      BY <2>1, CoreInit
    <3>2. Len(<<>>) = 0
      OBVIOUS
    <3> QED  BY <2>1, <3>1, <3>2, BooksInit DEF Bindings, IndexStarted, BindingsStarted
  <2> QED  BY <2>1
<1>2. Books /\ Bindings /\ [Next]_vars => Books' /\ Bindings'
  BY BooksStep, BindingsStep
<1>3. Books /\ Bindings => BindingsNeverInvented
  <2> SUFFICES ASSUME Books, Bindings, NEW n \in Tasks, NEW c \in Incremental[n].comps, c.ev.exec # None
               PROVE  Incremental[n].execs[c.ev.exec].explicit
    BY DEF BindingsNeverInvented
  <2> DEFINE x == Incremental[n]
  <2>1. Ledger(log)
    BY DEF Books
  <2>2. TellsOf(log, n, x)
    BY <2>1, LedgerTells DEF Incremental
  <2> HIDE DEF x
  <2>3. PICK i \in Upto(EventsOf(log), Len(log), n, ComponentTypes) : c = Filed(EventsOf(log), i)
    <3>1. c \in x.comps
      BY DEF x
    <3> QED  BY <2>2, <3>1 DEF TellsOf
  <2>4. i \in 1..Len(log) /\ c.ev = log[i].ev /\ IsComponent(c.ev) /\ c.ev.task = n
    <3>1. \A j \in 1..Len(log) : EventsOf(log)[j] = log[j].ev
      BY <2>1, LedgerEvents
    <3> QED  BY <2>3, <3>1 DEF Upto, Filed, IsComponent
  <2>5. PICK s : c.ev.exec = <<n, s>> /\ Starts(log, n, s)
    BY <2>4 DEF Bindings, BindingsStarted
  <2>6. c.ev.exec \in Executions
    <3>1. Made(log[i]) /\ c.ev \in Event
      BY <2>1, <2>4 DEF Ledger, Made
    <3> QED  BY <3>1 DEF Event, Optional
  <2>7. ReadsAs(log, n, c.ev.exec, x.execs[c.ev.exec])
    BY <2>1, <2>2, <2>6, LedgerNarrates
  <2>8. x.execs[c.ev.exec].explicit
    BY <2>5, <2>7 DEF ReadsAs, Starts
  <2> QED  BY <2>8 DEF x
<1> QED  BY <1>1, <1>2, <1>3, PTL DEF Spec

-----------------------------------------------------------------------------
(* Evidence and what it costs. *)

(* A component's id tells its type and its ref. *)
LEMMA IdsTellRefs ==
  ASSUME NEW r, Made(r), IsComponent(r.ev), NEW q, Made(q), r.id = q.id
  PROVE  IsComponent(q.ev) /\ q.ev.ref = r.ev.ref
<1>1. r.ev.type = q.ev.type
  BY MadeKind
<1>2. r.ev.type \in {"ci_run_recorded", "compute_usage_recorded", "validation_recorded"}
  <2>1. <<r.id[1], r.ev.type>> \in Kinds /\ r.ev.type \in ComponentTypes
    BY DEF Made, IsComponent
  <2> QED  BY <2>1 DEF Kinds, ComponentTypes
<1>3. Honest(r.id, r.ev) /\ Honest(q.id, q.ev)
  BY DEF Made
<1>4. CASE r.ev.type = "ci_run_recorded"
  <2>1. PICK c \in Runs : r.id = RunId(c) /\ r.ev.ref = CiRef(c)
    BY <1>3, <1>4 DEF Honest
  <2>2. PICK d \in Runs : q.id = RunId(d) /\ q.ev.ref = CiRef(d)
    BY <1>1, <1>3, <1>4 DEF Honest
  <2>3. c = d
    BY <2>1, <2>2, RefsOfRuns
  <2> QED  BY <1>1, <2>1, <2>2, <2>3 DEF IsComponent
<1>5. CASE r.ev.type = "compute_usage_recorded"
  <2>1. PICK c \in Runs : r.id = <<"wfjob", c.job, 0>> /\ r.ev.ref = ComputeRef(c)
    BY <1>3, <1>5 DEF Honest
  <2>2. PICK d \in Runs : q.id = <<"wfjob", d.job, 0>> /\ q.ev.ref = ComputeRef(d)
    BY <1>1, <1>3, <1>5 DEF Honest
  <2>3. c = d
    <3>1. <<"wfjob", c.job, 0>>[2] = <<"wfjob", d.job, 0>>[2]
      BY <2>1, <2>2
    <3>2. c.job = d.job
      BY <3>1
    <3> QED  BY <3>2, IngestionAssumption
  <2> QED  BY <1>1, <2>1, <2>2, <2>3 DEF IsComponent
<1>6. CASE r.ev.type = "validation_recorded"
  <2>1. PICK c \in Checks : r.id = <<"checkrun", c.id, 0>> /\ r.ev.ref = ValidationRef(c)
    BY <1>3, <1>6 DEF Honest
  <2>2. PICK d \in Checks : q.id = <<"checkrun", d.id, 0>> /\ q.ev.ref = ValidationRef(d)
    BY <1>1, <1>3, <1>6 DEF Honest
  <2>3. c = d
    <3>1. <<"checkrun", c.id, 0>>[2] = <<"checkrun", d.id, 0>>[2]
      BY <2>1, <2>2
    <3>2. c.id = d.id
      BY <3>1
    <3> QED  BY <3>2, IngestionAssumption
  <2> QED  BY <1>1, <2>1, <2>2, <2>3 DEF IsComponent
<1> QED  BY <1>2, <1>4, <1>5, <1>6

(* Component c is filed for task n from some position of ledger l.         *)
FiledFrom(l, c, i, n) == i \in 1..Len(l) /\ c.ev = l[i].ev /\ IsComponent(l[i].ev) /\ l[i].ev.task = n

(* The components of a task are those of the ledger that are about it.     *)
LEMMA ComponentsOf ==
  ASSUME NEW l, Ledger(l), NEW n \in Tasks
  PROVE  /\ \A c \in Reconstruct(EventsOf(l))[n].comps : \E i : FiledFrom(l, c, i, n)
         /\ \A i \in 1..Len(l) : IsComponent(l[i].ev) /\ l[i].ev.task = n =>
              \E c \in Reconstruct(EventsOf(l))[n].comps : c.ev = l[i].ev
<1> DEFINE x == Reconstruct(EventsOf(l))[n]
           v == EventsOf(l)
           U == Upto(v, Len(l), n, ComponentTypes)
<1>1. x.comps = {Filed(v, i) : i \in U}
  BY LedgerTells, Zenon DEF TellsOf
<1>2. \A i \in 1..Len(l) : v[i] = l[i].ev
  BY LedgerEvents
<1>3. \A i : i \in U <=> i \in 1..Len(l) /\ l[i].ev.task = n /\ IsComponent(l[i].ev)
  BY <1>2 DEF Upto, IsComponent
<1> HIDE DEF x, v, U
<1>4. \A i \in U : Filed(v, i).ev = l[i].ev
  BY <1>2, <1>3 DEF Filed
<1>5. \A c \in x.comps : \E i : FiledFrom(l, c, i, n)
  BY <1>1, <1>3, <1>4 DEF FiledFrom
<1>6. \A i \in 1..Len(l) : IsComponent(l[i].ev) /\ l[i].ev.task = n => \E c \in x.comps : c.ev = l[i].ev
  BY <1>1, <1>3, <1>4
<1> QED  BY <1>5, <1>6 DEF x

(* The refs of all tasks, and those whose cost is known. *)
LEMMA RefsOf ==
  ASSUME NEW l, Ledger(l), NEW ref
  PROVE  /\ ref \in RefsIn(Reconstruct(EventsOf(l))) <=>
              \E i \in 1..Len(l) : IsComponent(l[i].ev) /\ l[i].ev.ref = ref
         /\ ref \in PaidIn(Reconstruct(EventsOf(l))) <=>
              \E i \in 1..Len(l) : IsComponent(l[i].ev) /\ l[i].ev.ref = ref /\ l[i].ev.cost # None
<1> DEFINE ts == Reconstruct(EventsOf(l))
<1>1. ref \in RefsIn(ts) <=> \E n \in Tasks : \E c \in ts[n].comps : c.ev.ref = ref
  BY DEF RefsIn
<1>2. ref \in PaidIn(ts) <=> \E n \in Tasks : \E c \in ts[n].comps : c.ev.ref = ref /\ c.ev.cost # None
  BY DEF PaidIn
<1>3. \A n \in Tasks :
        /\ \A c \in ts[n].comps : \E i : FiledFrom(l, c, i, n)
        /\ \A i \in 1..Len(l) : IsComponent(l[i].ev) /\ l[i].ev.task = n =>
             \E c \in ts[n].comps : c.ev = l[i].ev
  BY ComponentsOf
<1>4. \A i \in 1..Len(l) : l[i].ev.task \in Tasks
  BY DEF Ledger, Made, Event
<1> HIDE DEF ts
<1>5. ASSUME NEW i \in 1..Len(l), IsComponent(l[i].ev) PROVE \E n \in Tasks : \E c \in ts[n].comps : c.ev = l[i].ev
  BY <1>3, <1>4, <1>5
<1>6. ASSUME NEW n \in Tasks, NEW c \in ts[n].comps PROVE \E i \in 1..Len(l) : IsComponent(l[i].ev) /\ c.ev = l[i].ev
  BY <1>3 DEF FiledFrom
<1>7. ref \in RefsIn(ts) <=> \E i \in 1..Len(l) : IsComponent(l[i].ev) /\ l[i].ev.ref = ref
  <2>1. ASSUME ref \in RefsIn(ts) PROVE \E i \in 1..Len(l) : IsComponent(l[i].ev) /\ l[i].ev.ref = ref
    BY <1>1, <1>6, <2>1
  <2>2. ASSUME NEW i \in 1..Len(l), IsComponent(l[i].ev), l[i].ev.ref = ref PROVE ref \in RefsIn(ts)
    BY <1>1, <1>5, <2>2
  <2> QED  BY <2>1, <2>2
<1>8. ref \in PaidIn(ts) <=>
        \E i \in 1..Len(l) : IsComponent(l[i].ev) /\ l[i].ev.ref = ref /\ l[i].ev.cost # None
  <2>1. ASSUME ref \in PaidIn(ts)
        PROVE  \E i \in 1..Len(l) : IsComponent(l[i].ev) /\ l[i].ev.ref = ref /\ l[i].ev.cost # None
    BY <1>2, <1>6, <2>1
  <2>2. ASSUME NEW i \in 1..Len(l), IsComponent(l[i].ev), l[i].ev.ref = ref, l[i].ev.cost # None
        PROVE  ref \in PaidIn(ts)
    BY <1>2, <1>5, <2>2
  <2> QED  BY <2>1, <2>2
<1> QED  BY <1>7, <1>8, Zenon DEF ts

(* What a sweep emits is a ledger of its own. *)
LEMMA AuditLedger ==
  ASSUME Repository
  PROVE  /\ Ledger(Audit) /\ Sorts(Audit, AuditSet, InOrder(AuditSet))
         /\ \A i \in 1..Len(Audit) : Audit[i] \in AuditSet
         /\ \A r \in AuditSet : \E i \in 1..Len(Audit) : Audit[i] = r
         /\ \A i, j \in 1..Len(Audit) : i < j <=> <<Audit[i], Audit[j]>> \in InOrder(AuditSet)
<1> DEFINE S == AuditSet
           a == Audit
           N == Cardinality(S)
<1>0. PICK u, ix : Batch(S, u, ix)
  BY AuditBatch
<1>1. Sorts(a, S, InOrder(S)) /\ \A r, q \in S : r.id = q.id => r = q
  <2>1. a = Ordered(S)
    BY AuditIs
  <2> HIDE DEF S, a
  <2> QED  BY <1>0, <2>1, BatchSorts
<1>2. \A r \in S : Made(r)
  BY <1>0 DEF Batch
<1> HIDE DEF S, a
<1>3. /\ N \in Nat /\ a \in [1..N -> S]
      /\ \A x \in S : \E k \in 1..N : a[k] = x
      /\ \A j, k \in 1..N : a[j] = a[k] => j = k
      /\ \A j, k \in 1..N : j < k <=> <<a[j], a[k]>> \in InOrder(S)
  BY <1>1, Zenon DEF Sorts
<1> HIDE DEF N
<1>4. a \in Seq(S) /\ Len(a) = N /\ DOMAIN a = 1..N
  BY <1>3
<1>5. \A i, j \in 1..N : a[i].id = a[j].id => i = j
  BY <1>1, <1>3
<1>6. \A i \in 1..N : a[i] \in S
  BY <1>3
<1>7. Ledger(a)
  BY <1>2, <1>3, <1>4, <1>5, <1>6 DEF Ledger, IsLog
<1> QED  BY <1>1, <1>3, <1>4, <1>6, <1>7 DEF S, a

(* After a sweep the ledger stores all that the next one would emit. *)
SweptStored == swept => \A r \in AuditSet : r.id \in Ids(log)

(* SweptStored is inductive. *)
LEMMA SweptStep ==
  ASSUME Books, SweptStored, [Next]_vars
  PROVE  SweptStored'
<1>1. CASE PullStep \/ CiStep
  BY <1>1, RepositoryStep DEF Books, Moves, SweptStored
<1>2. CASE \E d \in net : Deliver(d)
  <2>1. Ids(log) \subseteq Ids(log') /\ UNCHANGED <<repository, swept>>
    BY <1>2, DeliverStep
  <2>2. AuditSet' = AuditSet
    BY <2>1 DEF repository, AuditSet, PullSet, CiSet, CheckSet, SweepIndex, OpenedPulls, Opened, ListedRuns,
                ProbedChecks, Shas
  <2> QED  BY <2>1, <2>2 DEF SweptStored
<1>3. CASE Sweep
  <2>1. UNCHANGED repository /\ \A r \in AuditSet : r.id \in Ids(log')
    BY <1>3, SweepStep
  <2>2. AuditSet' = AuditSet
    BY <2>1 DEF repository, AuditSet, PullSet, CiSet, CheckSet, SweepIndex, OpenedPulls, Opened, ListedRuns,
                ProbedChecks, Shas
  <2> QED  BY <2>1, <2>2 DEF SweptStored
<1>4. CASE UNCHANGED vars
  <2>1. AuditSet' = AuditSet /\ log' = log /\ swept' = swept
    BY <1>4 DEF vars, repository, AuditSet, PullSet, CiSet, CheckSet, SweepIndex, OpenedPulls, Opened, ListedRuns,
                ProbedChecks, Shas
  <2> QED  BY <2>1 DEF SweptStored
<1> QED  BY <1>1, <1>2, <1>3, <1>4, Steps

(* After a sweep every cost component that GitHub shows is in the books.   *)
LEMMA SweptIsComplete == Spec => []SweptComplete
<1>1. Init => Books /\ SweptStored
  BY BooksInit, CoreInit DEF SweptStored
<1>2. Books /\ SweptStored /\ [Next]_vars => Books' /\ SweptStored'
  BY BooksStep, SweptStep
<1>3. Books /\ SweptStored => SweptComplete
  <2> SUFFICES ASSUME Books, SweptStored, swept, NEW ref \in RefsIn(Historical) PROVE ref \in RefsIn(Incremental)
    BY DEF SweptComplete
  <2>1. Ledger(log) /\ Repository
    BY DEF Books, Core
  <2>2. Ledger(Audit) /\ \A i \in 1..Len(Audit) : Audit[i] \in AuditSet
    BY <2>1, AuditLedger
  <2>3. PICK i \in 1..Len(Audit) : IsComponent(Audit[i].ev) /\ Audit[i].ev.ref = ref
    <3> DEFINE a == Audit
    <3>1. Ledger(a) /\ ref \in RefsIn(Reconstruct(EventsOf(a)))
      BY <2>2 DEF Historical
    <3> HIDE DEF a
    <3>2. \E i \in 1..Len(a) : IsComponent(a[i].ev) /\ a[i].ev.ref = ref
      BY <3>1, RefsOf
    <3> QED  BY <3>2 DEF a
  <2> DEFINE r == Audit[i]
  <2>4. Made(r) /\ r \in AuditSet /\ IsComponent(r.ev) /\ r.ev.ref = ref
    BY <2>2, <2>3 DEF Ledger
  <2> HIDE DEF r
  <2>5. PICK j \in 1..Len(log) : log[j].id = r.id
    BY <2>1, <2>4 DEF SweptStored, Ids, Ledger
  <2>6. Made(log[j])
    BY <2>1 DEF Ledger
  <2>7. IsComponent(log[j].ev) /\ log[j].ev.ref = ref
    BY <2>4, <2>5, <2>6, IdsTellRefs
  <2> QED  BY <2>1, <2>7, RefsOf DEF Incremental
<1> QED  BY <1>1, <1>2, <1>3, PTL DEF Spec

(* What the filter drops of a delivery, the ledger has: the id of a        *)
(* component tells its ref.                                                *)
LEMMA DroppedIsStored == Spec => []DropsOnlyStored
<1>1. Init => Books
  BY BooksInit
<1>2. Books /\ [Next]_vars => Books'
  BY BooksStep
<1>3. Books => DropsOnlyStored
  <2> SUFFICES ASSUME Books, NEW d \in net,
                      NEW r \in Range(NormalizeWebhookDelivery(d, index, usage)),
                      IsComponent(r.ev), r.id \in Ids(log)
               PROVE  \E i \in DOMAIN log : IsComponent(log[i].ev) /\ log[i].ev.ref = r.ev.ref
    BY DEF DropsOnlyStored
  <2>1. Ledger(log) /\ Delivery(d) /\ index \in SUBSET IndexEntry /\ IsFiniteSet(index)
    BY DEF Books, Core
  <2> DEFINE S == DeliverySet(d, index, usage)
             a == Ordered(S)
  <2>2. NormalizeWebhookDelivery(d, index, usage) = a /\ Batch(S, usage, index)
    BY <2>1, DeliveryBatch, Zenon
  <2>3. r \in Range(a)
    BY <2>2
  <2> HIDE DEF S
  <2>4. Sorts(a, S, InOrder(S))
    BY <2>2, BatchSorts
  <2> HIDE DEF a
  <2>5. r \in S
    BY <2>3, <2>4 DEF Sorts, Range
  <2>6. Made(r)
    BY <2>2, <2>5 DEF Batch
  <2>7. PICK i \in DOMAIN log : log[i].id = r.id
    BY DEF Ids
  <2>8. Made(log[i])
    BY <2>1, <2>7 DEF Ledger
  <2> QED  BY <2>6, <2>7, <2>8, IdsTellRefs
<1> QED  BY <1>1, <1>2, <1>3, PTL DEF Spec

(* After a sweep every cost component that GitHub shows is in the books,   *)
(* whatever deliveries were lost, late or repeated before it, and what the *)
(* filter of event ids drops of a delivery is there already.               *)
THEOREM NoEvidenceLost == Spec => []EvidenceComplete
BY SweptIsComplete, DroppedIsStored, PTL DEF EvidenceComplete

(* While no usage is supplied later, everything is priced alike. *)
PricedAlike == ~Happens("export") => \A i \in 1..Len(log) : IsComponent(log[i].ev) => Priced(log[i].ev, usage)

(* A ledger that grows by records priced alike stays priced alike. *)
LEMMA PricesGrow ==
  ASSUME NEW l, NEW m, NEW S, Extends(l, m, S), NEW u,
         \A i \in 1..Len(l) : IsComponent(l[i].ev) => Priced(l[i].ev, u),
         \A r \in S : IsComponent(r.ev) => Priced(r.ev, u)
  PROVE  \A i \in 1..Len(m) : IsComponent(m[i].ev) => Priced(m[i].ev, u)
<1>1. /\ \A i \in 1..Len(m) : i \in 1..Len(l) \/ i \in (Len(l) + 1)..Len(m)
      /\ \A j \in 1..Len(l) : m[j] = l[j]
      /\ \A j \in (Len(l) + 1)..Len(m) : m[j] \in S
  BY DEF Extends, Added
<1> QED  BY <1>1

(* PricedAlike is inductive. *)
LEMMA PricedStep ==
  ASSUME Books, PricedAlike, [Next]_vars
  PROVE  PricedAlike'
<1>1. CASE PullStep \/ CiStep
  <2>1. scenario' = scenario /\ log' = log /\ (usage' # usage => Happens("export"))
    BY <1>1, RepositoryStep DEF Books, Moves
  <2> QED  BY <2>1 DEF PricedAlike, Happens
<1>2. CASE \E d \in net : Deliver(d)
  <2>1. PICK d \in net : Deliver(d)
    BY <1>2
  <2> DEFINE S == DeliverySet(d, index, usage)
  <2>2. Batch(S, usage, index) /\ Extends(log, log', S) /\ UNCHANGED repository
    BY <2>1, DeliverStep
  <2> HIDE DEF S
  <2>3. \A r \in S : IsComponent(r.ev) => Priced(r.ev, usage)
    BY <2>2 DEF Batch
  <2>4. (\A i \in 1..Len(log) : IsComponent(log[i].ev) => Priced(log[i].ev, usage))
          => \A i \in 1..Len(log') : IsComponent(log'[i].ev) => Priced(log'[i].ev, usage)
    BY <2>2, <2>3, PricesGrow
  <2>5. usage' = usage /\ scenario' = scenario
    BY <2>2 DEF repository
  <2> QED  BY <2>4, <2>5 DEF PricedAlike, Happens
<1>3. CASE Sweep
  <2> DEFINE S == AuditSet
             ix == SweepIndex
  <2>2. Batch(S, usage, ix) /\ Extends(log, log', S) /\ UNCHANGED repository
    BY <1>3, SweepStep
  <2> HIDE DEF S, ix
  <2>3. \A r \in S : IsComponent(r.ev) => Priced(r.ev, usage)
    BY <2>2 DEF Batch
  <2>4. (\A i \in 1..Len(log) : IsComponent(log[i].ev) => Priced(log[i].ev, usage))
          => \A i \in 1..Len(log') : IsComponent(log'[i].ev) => Priced(log'[i].ev, usage)
    BY <2>2, <2>3, PricesGrow
  <2>5. usage' = usage /\ scenario' = scenario
    BY <2>2 DEF repository
  <2> QED  BY <2>4, <2>5 DEF PricedAlike, Happens
<1>4. CASE UNCHANGED vars
  BY <1>4 DEF vars, repository, PricedAlike, Happens
<1> QED  BY <1>1, <1>2, <1>3, <1>4, Steps

(* A paid ref of a run or a job was priced by the usage records. *)
LEMMA PaidAs ==
  ASSUME Books, NEW q \in Runs, NEW i \in 1..Len(log), IsComponent(log[i].ev), log[i].ev.cost # None,
         Priced(log[i].ev, usage)
  PROVE  /\ log[i].ev.ref = CiRef(q) => q \in usage
         /\ log[i].ev.ref = ComputeRef(q) => q \notin usage
<1> DEFINE r == log[i]
<1>1. <<r.id[1], r.ev.type>> \in Kinds /\ r.ev.type \in ComponentTypes /\ Honest(r.id, r.ev)
  BY DEF Books, Ledger, Made, IsComponent
<1> HIDE DEF r
<1>2. r.ev.type \in {"ci_run_recorded", "compute_usage_recorded", "validation_recorded"}
  BY <1>1 DEF Kinds, ComponentTypes
<1>3. r.ev.ref = CiRef(q) => r.ev.type = "ci_run_recorded"
  BY <1>1, <1>2 DEF Honest, CiRef, ComputeRef, ValidationRef
<1>4. r.ev.ref = ComputeRef(q) => r.ev.type = "compute_usage_recorded"
  BY <1>1, <1>2 DEF Honest, CiRef, ComputeRef, ValidationRef
<1>5. r.ev.cost # None /\ Priced(r.ev, usage)
  BY DEF r
<1>6. r.ev.ref = CiRef(q) => RunCost(q, usage) # None
  BY <1>3, <1>5 DEF Priced
<1>7. r.ev.ref = ComputeRef(q) => JobCost(q, usage) # None
  BY <1>4, <1>5 DEF Priced
<1> QED  BY <1>6, <1>7 DEF RunCost, JobCost, r

(* No attempt is paid for by its run and by its job, if its usage is       *)
(* supplied before it runs.                                                *)
THEOREM PaidOnce == Spec => []PaidOnceIfUsageKnown
<1>1. Init => Books /\ PricedAlike
  <2>1. ASSUME Init PROVE Books /\ PricedAlike
    <3>1. log = <<>> /\ Len(<<>>) = 0
      BY <2>1, CoreInit
    <3> QED  BY <2>1, <3>1, BooksInit DEF PricedAlike
  <2> QED  BY <2>1
<1>2. Books /\ PricedAlike /\ [Next]_vars => Books' /\ PricedAlike'
  BY BooksStep, PricedStep
<1>3. Books /\ PricedAlike => PaidOnceIfUsageKnown
  <2> SUFFICES ASSUME Books, PricedAlike, ~Happens("export"), NEW q \in Runs,
                      CiRef(q) \in PaidIn(Incremental), ComputeRef(q) \in PaidIn(Incremental)
               PROVE  FALSE
    BY DEF PaidOnceIfUsageKnown, MinutesPaidOnce
  <2>1. Ledger(log)
    BY DEF Books
  <2>2. PICK i \in 1..Len(log) : IsComponent(log[i].ev) /\ log[i].ev.ref = CiRef(q) /\ log[i].ev.cost # None
    BY <2>1, RefsOf DEF Incremental
  <2>3. PICK j \in 1..Len(log) : IsComponent(log[j].ev) /\ log[j].ev.ref = ComputeRef(q) /\ log[j].ev.cost # None
    BY <2>1, RefsOf DEF Incremental
  <2>4. Priced(log[i].ev, usage) /\ Priced(log[j].ev, usage)
    BY <2>2, <2>3 DEF PricedAlike
  <2>5. q \in usage
    BY <2>2, <2>4, PaidAs
  <2>6. q \notin usage
    BY <2>3, <2>4, PaidAs
  <2> QED  BY <2>5, <2>6
<1> QED  BY <1>1, <1>2, <1>3, PTL DEF Spec

-----------------------------------------------------------------------------
(* How the sorted revisions of a pull request move. *)

(* What grows strictly from one is at least the identity. *)
LEMMA GrowsAtLeast ==
  ASSUME NEW N \in Nat, NEW f \in [1..N -> Nat], \A k \in 1..N : f[k] >= 1,
         \A j, k \in 1..N : j < k => f[j] < f[k]
  PROVE  \A k \in 1..N : f[k] >= k
<1> DEFINE good == {k \in Nat : k \in 1..N => f[k] >= k}
<1>1. 0 \in good
  OBVIOUS
<1>2. ASSUME NEW k \in Nat, k \in good PROVE k + 1 \in good
  <2> SUFFICES ASSUME k + 1 \in 1..N PROVE f[k + 1] >= k + 1
    OBVIOUS
  <2> DEFINE m == k + 1
  <2>1. m \in 1..N /\ (k = 0 \/ k \in 1..N) /\ k < m
    OBVIOUS
  <2>2. f[m] \in Nat /\ f[m] >= 1
    BY <2>1
  <2>3. CASE k = 0
    BY <2>2, <2>3
  <2>4. CASE k \in 1..N
    <3>1. f[k] >= k /\ f[k] < f[m] /\ f[k] \in Nat
      BY <1>2, <2>1, <2>4
    <3> HIDE DEF m
    <3>2. f[m] >= k + 1
      BY <2>2, <3>1
    <3> QED  BY <3>2 DEF m
  <2> QED  BY <2>1, <2>3, <2>4
<1>3. Nat \subseteq good
  <2> HIDE DEF good
  <2> QED  BY <1>1, <1>2, NumberInduction
<1> QED  BY <1>3

(* What grows strictly and stays in an interval is the identity on it. *)
LEMMA GrowsWithin ==
  ASSUME NEW N \in Nat, NEW f \in [1..N -> 1..N],
         \A j, k \in 1..N : j < k => f[j] < f[k]
  PROVE  \A k \in 1..N : f[k] = k
<1>0. f \in [1..N -> Nat] /\ \A k \in 1..N : f[k] >= 1
  OBVIOUS
<1>1. \A k \in 1..N : f[k] >= k
  BY <1>0, GrowsAtLeast
<1> DEFINE g == [k \in 1..N |-> N + 1 - f[N + 1 - k]]
<1>2. \A k \in 1..N : N + 1 - k \in 1..N
  OBVIOUS
<1>3. \A k \in 1..N : f[N + 1 - k] \in 1..N
  BY <1>2
<1>4. g \in [1..N -> Nat] /\ \A k \in 1..N : g[k] >= 1
  BY <1>3
<1>5. ASSUME NEW j \in 1..N, NEW k \in 1..N, j < k PROVE g[j] < g[k]
  <2> DEFINE a == N + 1 - k
             b == N + 1 - j
  <2>1. a \in 1..N /\ b \in 1..N /\ a < b
    BY <1>5
  <2>2. g[j] = N + 1 - f[b] /\ g[k] = N + 1 - f[a]
    OBVIOUS
  <2> HIDE DEF a, b, g
  <2> DEFINE x == f[a]
             y == f[b]
  <2>3. x < y /\ x \in Nat /\ y \in Nat
    BY <2>1
  <2>4. g[j] = N + 1 - y /\ g[k] = N + 1 - x
    BY <2>2
  <2> HIDE DEF x, y
  <2>5. N + 1 - y < N + 1 - x
    BY <2>3
  <2> QED  BY <2>4, <2>5
<1> HIDE DEF g
<1>6. \A k \in 1..N : g[k] >= k
  BY <1>4, <1>5, GrowsAtLeast
<1>7. ASSUME NEW k \in 1..N PROVE f[k] <= k
  <2> DEFINE m == N + 1 - k
  <2>1. m \in 1..N /\ N + 1 - m = k
    OBVIOUS
  <2>2. g[m] = N + 1 - f[N + 1 - m]
    BY <2>1 DEF g
  <2>3. g[m] = N + 1 - f[k] /\ g[m] >= m
    BY <1>6, <2>1, <2>2
  <2>4. f[k] \in Nat
    OBVIOUS
  <2> QED  BY <2>3, <2>4
<1>8. \A k \in 1..N : f[k] \in Nat
  OBVIOUS
<1> QED  BY <1>1, <1>7, <1>8

Size(n) == Len(pulls[n].commits)
Rev(n, k) == Sorted(pulls[n])[k].sha

(* The sorted revisions of pull request n: each is listed, once, with its  *)
(* date, and the dates never decrease.                                     *)
Chronology(n) ==
  /\ Size(n) \in Nat
  /\ \A k \in 1..Size(n) : Rev(n, k) \in listed[n] /\ Sorted(pulls[n])[k].date = date[Rev(n, k)]
                           /\ date[Rev(n, k)] \in Nat /\ Rev(n, k) \in Revisions
  /\ \A j, k \in 1..Size(n) : Rev(n, j) = Rev(n, k) => j = k
  /\ \A j, k \in 1..Size(n) : j < k => date[Rev(n, j)] <= date[Rev(n, k)]
  /\ \A s : s \in Shas(n) <=> \E k \in 1..Size(n) : Rev(n, k) = s

(* The commits of a pull request, sorted by date, are its chronology. *)
LEMMA ChronologyHolds ==
  ASSUME Core, NEW n \in Tasks
  PROVE  Chronology(n)
<1> DEFINE p == pulls[n]
           c == p.commits
           N == Len(c)
<1>1. p \in Pull /\ c \in Seq(CommitRecord) /\ N \in Nat /\ DOMAIN c = 1..N
  <2>1. p \in Pull
    BY DEF Core, Repository
  <2>2. c \in Seq(CommitRecord)
    BY <2>1 DEF Pull
  <2> QED  BY <2>1, <2>2
<1>2. /\ \A i \in 1..N : c[i].date = date[c[i].sha] /\ c[i].sha \in listed[n]
      /\ \A i, j \in 1..N : c[i].sha = c[j].sha => i = j
      /\ listed[n] \in SUBSET Revisions
  BY <1>1 DEF Core, Listed
<1>3. PICK pi : Places(p, pi)
  BY <1>1, PlacesExist
<1>4. /\ pi \in [1..N -> 1..N]
      /\ \A i \in 1..N : \E k \in 1..N : pi[k] = i
      /\ \A j, k \in 1..N : pi[j] = pi[k] => j = k
      /\ \A k \in 1..N : Sorted(p)[k] = c[pi[k]]
      /\ \A j, k \in 1..N : j < k <=>
           \/ Sorted(p)[j].date < Sorted(p)[k].date
           \/ Sorted(p)[j].date = Sorted(p)[k].date /\ pi[j] < pi[k]
  BY <1>3, Zenon DEF Places
<1>5. \A s : s \in Shas(n) <=> \E i \in 1..N : c[i].sha = s
  BY <1>1 DEF Shas
<1>6. \A s \in Revisions : date[s] \in Nat
  <2>1. scenario \in Scenarios /\ date \in [Revisions -> scenario.dates]
    BY DEF Core
  <2>2. scenario.dates \in SUBSET Nat
    BY <2>1, IngestionAssumption
  <2> QED  BY <2>1, <2>2
<1>7. \A k \in 1..N : Rev(n, k) = Sorted(p)[k].sha /\ Size(n) = N
  BY DEF Rev, Size
<1>8. Size(n) = N
  BY DEF Size
<1> DEFINE R == [k \in 1..N |-> Sorted(p)[k].sha]
           T == [k \in 1..N |-> Sorted(p)[k].date]
<1>9. \A k \in 1..N : R[k] = c[pi[k]].sha /\ T[k] = c[pi[k]].date /\ R[k] = Rev(n, k)
  BY <1>4, <1>7
<1>10. \A k \in 1..N : T[k] = Sorted(pulls[n])[k].date
  OBVIOUS
<1>11. \A j, k \in 1..N : j < k => T[j] < T[k] \/ T[j] = T[k]
  BY <1>4
<1> HIDE DEF R, T, c, N, p
<1>12. \A k \in 1..N : R[k] \in listed[n] /\ T[k] = date[R[k]] /\ R[k] \in Revisions /\ date[R[k]] \in Nat
  <2> SUFFICES ASSUME NEW k \in 1..N
               PROVE  R[k] \in listed[n] /\ T[k] = date[R[k]] /\ R[k] \in Revisions /\ date[R[k]] \in Nat
    OBVIOUS
  <2> DEFINE i == pi[k]
  <2>1. i \in 1..N /\ R[k] = c[i].sha /\ T[k] = c[i].date
    BY <1>4, <1>9
  <2> HIDE DEF i
  <2>2. c[i].date = date[c[i].sha] /\ c[i].sha \in listed[n]
    BY <1>2, <2>1
  <2> QED  BY <1>2, <1>6, <2>1, <2>2
<1>13. \A j, k \in 1..N : R[j] = R[k] => j = k
  <2>0. \A j, k \in 1..N : pi[j] = pi[k] => j = k
    BY <1>4
  <2> SUFFICES ASSUME NEW j \in 1..N, NEW k \in 1..N, R[j] = R[k] PROVE pi[j] = pi[k]
    BY <2>0, Zenon
  <2> DEFINE i == pi[j]
             h == pi[k]
  <2>1. i \in 1..N /\ h \in 1..N /\ c[i].sha = c[h].sha
    BY <1>4, <1>9
  <2> HIDE DEF i, h
  <2>2. i = h
    BY <1>2, <2>1
  <2> QED  BY <2>2 DEF i, h
<1>14. \A s : s \in Shas(n) <=> \E k \in 1..N : R[k] = s
  <2>1. \A k \in 1..N : pi[k] \in 1..N
    BY <1>4
  <2>2. ASSUME NEW s, NEW i \in 1..N, c[i].sha = s PROVE \E k \in 1..N : R[k] = s
    BY <1>4, <1>9, <2>2
  <2> QED  BY <1>5, <1>9, <2>1, <2>2
<1>15. \A j, k \in 1..N : j < k => date[R[j]] <= date[R[k]]
  BY <1>11, <1>12
<1>16. \A k \in 1..N : R[k] = Rev(n, k)
  BY <1>9
<1> QED  BY <1>1, <1>8, <1>10, <1>12, <1>13, <1>14, <1>15, <1>16 DEF Chronology

(* With tied dates the revisions are sorted as they are listed. *)
LEMMA TieKeepsOrder ==
  ASSUME Core, NEW n \in Tasks, DatesTie
  PROVE  \A k \in 1..Size(n) : Rev(n, k) = pulls[n].commits[k].sha
<1> DEFINE p == pulls[n]
           N == Size(n)
           T == [k \in 1..N |-> Sorted(p)[k].date]
<1>1. p \in Pull
  BY DEF Core, Repository
<1>2. PICK pi : Places(p, pi)
  BY <1>1, PlacesExist
<1>3. \A j, k \in 1..N : T[j] = T[k]
  <2>1. PICK d : scenario.dates = {d}
    <3>1. scenario \in Scenarios
      BY DEF Core
    <3>2. IsFiniteSet(scenario.dates)
      BY <3>1, IngestionAssumption
    <3> DEFINE D == scenario.dates
    <3>3. IsFiniteSet(D) /\ Cardinality(D) = 1
      BY <3>2 DEF DatesTie
    <3> HIDE DEF D
    <3>4. \E d : D = {d}
      BY <3>3, FS_Singleton
    <3> QED  BY <3>4 DEF D
  <2>2. \A s \in Revisions : date[s] = d
    BY <2>1 DEF Core
  <2>3. \A k \in 1..N : T[k] = d
    BY <2>2, ChronologyHolds DEF Chronology
  <2> HIDE DEF T
  <2> QED  BY <2>3
<1>4. /\ pi \in [1..N -> 1..N]
      /\ \A k \in 1..N : Sorted(p)[k] = p.commits[pi[k]]
      /\ \A j, k \in 1..N : j < k <=>
           \/ Sorted(p)[j].date < Sorted(p)[k].date
           \/ Sorted(p)[j].date = Sorted(p)[k].date /\ pi[j] < pi[k]
  BY <1>2, Zenon DEF Places, Size
<1>5. \A j, k \in 1..N : j < k <=> T[j] < T[k] \/ (T[j] = T[k] /\ pi[j] < pi[k])
  BY <1>4
<1>6. \A k \in 1..N : T[k] \in Nat
  BY ChronologyHolds DEF Chronology
<1>7. N \in Nat
  BY ChronologyHolds DEF Chronology
<1>8. \A k \in 1..N : Rev(n, k) = p.commits[pi[k]].sha
  BY <1>4 DEF Rev
<1> HIDE DEF N, T, p
<1>9. \A j, k \in 1..N : j < k => pi[j] < pi[k]
  BY <1>3, <1>5, <1>6
<1>10. \A k \in 1..N : pi[k] = k
  BY <1>4, <1>7, <1>9, GrowsWithin
<1> QED  BY <1>8, <1>10 DEF N, p

(* q has the commits of p and one more: g tells where the sorted commits   *)
(* of p went.                                                              *)
Inserted(p, q, g) ==
  LET M == Len(p.commits)
      N == Len(q.commits)
  IN /\ g \in [1..M -> 1..N]
     /\ \A j, k \in 1..M : j < k => g[j] < g[k]
     /\ \A k \in 1..M : Sorted(q)[g[k]] = Sorted(p)[k]
     /\ \A i \in 1..N : Sorted(q)[i] = q.commits[N] \/ \E k \in 1..M : g[k] = i

(* A commit that is pushed is inserted somewhere into the chronology. *)
LEMMA InsertedExists ==
  ASSUME NEW p \in Pull, NEW q \in Pull, Len(q.commits) = Len(p.commits) + 1,
         \A i \in 1..Len(p.commits) : q.commits[i] = p.commits[i]
  PROVE  \E g : Inserted(p, q, g)
<1> DEFINE M == Len(p.commits)
           N == Len(q.commits)
<1>1. M \in Nat /\ N = M + 1
  BY DEF Pull
<1>2. PICK pi : Places(p, pi)
  BY PlacesExist
<1>3. PICK rho : Places(q, rho)
  BY PlacesExist
<1>4. /\ pi \in [1..M -> 1..M]
      /\ \A i \in 1..M : \E k \in 1..M : pi[k] = i
      /\ \A k \in 1..M : Sorted(p)[k] = p.commits[pi[k]]
      /\ \A j, k \in 1..M : j < k <=>
           \/ Sorted(p)[j].date < Sorted(p)[k].date
           \/ Sorted(p)[j].date = Sorted(p)[k].date /\ pi[j] < pi[k]
  BY <1>2, Zenon DEF Places
<1>5. /\ rho \in [1..N -> 1..N]
      /\ \A i \in 1..N : \E k \in 1..N : rho[k] = i
      /\ \A j, k \in 1..N : rho[j] = rho[k] => j = k
      /\ \A k \in 1..N : Sorted(q)[k] = q.commits[rho[k]]
      /\ \A j, k \in 1..N : j < k <=>
           \/ Sorted(q)[j].date < Sorted(q)[k].date
           \/ Sorted(q)[j].date = Sorted(q)[k].date /\ rho[j] < rho[k]
  BY <1>3, Zenon DEF Places
<1> DEFINE g == [k \in 1..M |-> CHOOSE i \in 1..N : rho[i] = pi[k]]
<1>6. \A i \in 1..M : i \in 1..N
  BY <1>1
<1> HIDE DEF M, N
<1>7. \A k \in 1..M : g[k] \in 1..N /\ rho[g[k]] = pi[k]
  <2> SUFFICES ASSUME NEW k \in 1..M PROVE g[k] \in 1..N /\ rho[g[k]] = pi[k]
    OBVIOUS
  <2>1. pi[k] \in 1..N
    BY <1>4, <1>6
  <2>2. \E i \in 1..N : rho[i] = pi[k]
    BY <1>5, <2>1
  <2>3. g[k] = CHOOSE i \in 1..N : rho[i] = pi[k]
    OBVIOUS
  <2> HIDE DEF g
  <2> QED  BY <2>2, <2>3
<1>8. g \in [1..M -> 1..N]
  BY <1>7
<1> HIDE DEF g
<1>9. \A k \in 1..M : Sorted(q)[g[k]] = Sorted(p)[k]
  <2> SUFFICES ASSUME NEW k \in 1..M PROVE Sorted(q)[g[k]] = Sorted(p)[k]
    OBVIOUS
  <2> DEFINE i == pi[k]
             h == g[k]
  <2>1. i \in 1..M /\ h \in 1..N /\ rho[h] = i
    BY <1>4, <1>7
  <2>2. Sorted(p)[k] = p.commits[i]
    BY <1>4
  <2> HIDE DEF i, h
  <2>3. Sorted(q)[h] = q.commits[i]
    BY <1>5, <2>1
  <2>4. q.commits[i] = p.commits[i]
    BY <2>1 DEF M
  <2> QED  BY <2>2, <2>3, <2>4 DEF h
<1>10. \A j, k \in 1..M : j < k => g[j] < g[k]
  <2> SUFFICES ASSUME NEW j \in 1..M, NEW k \in 1..M, j < k PROVE g[j] < g[k]
    OBVIOUS
  <2> DEFINE a == g[j]
             b == g[k]
  <2>1. a \in 1..N /\ b \in 1..N /\ rho[a] = pi[j] /\ rho[b] = pi[k]
        /\ Sorted(q)[a] = Sorted(p)[j] /\ Sorted(q)[b] = Sorted(p)[k]
    BY <1>7, <1>9
  <2>2. \/ Sorted(p)[j].date < Sorted(p)[k].date
        \/ Sorted(p)[j].date = Sorted(p)[k].date /\ pi[j] < pi[k]
    BY <1>4
  <2> HIDE DEF a, b
  <2>3. \/ Sorted(q)[a].date < Sorted(q)[b].date
        \/ Sorted(q)[a].date = Sorted(q)[b].date /\ rho[a] < rho[b]
    BY <2>1, <2>2
  <2>4. a < b
    BY <1>5, <2>1, <2>3
  <2> QED  BY <2>4 DEF a, b
<1>11. ASSUME NEW i \in 1..N PROVE Sorted(q)[i] = q.commits[N] \/ \E k \in 1..M : g[k] = i
  <2>1. rho[i] \in 1..N
    BY <1>5
  <2>2. rho[i] = N \/ rho[i] \in 1..M
    BY <1>1, <2>1
  <2>3. CASE rho[i] = N
    BY <1>5, <2>3
  <2>4. CASE rho[i] \in 1..M
    <3>1. PICK k \in 1..M : pi[k] = rho[i]
      BY <1>4, <2>4
    <3>2. g[k] \in 1..N /\ rho[g[k]] = rho[i]
      BY <1>7, <3>1
    <3>3. g[k] = i
      BY <1>5, <3>2
    <3> QED  BY <3>3
  <2> QED  BY <2>2, <2>3, <2>4
<1>12. Inserted(p, q, g)
  BY <1>8, <1>9, <1>10, <1>11, Zenon DEF Inserted, M, N
<1> QED  BY <1>12

(* The sorted revisions at new place i and old place k of pull request n   *)
(* are the same: the last one was the last, ranks have grown or shrunk,    *)
(* and what keeps its rank keeps all before it.                            *)
Shifted(n, i, k) ==
  /\ Rev(n, i)' = Rev(n, k)
  /\ i = Size(n)' => k = Size(n)
  /\ OnlyGrowing => k <= i
  /\ ~OnlyGrowing => k >= i
  /\ k = i => \A j \in 1..k : Rev(n, j)' = Rev(n, j)

Shifts(n) ==
  /\ listed[n] \subseteq listed'[n]
  /\ \A i \in 1..Size(n)' : Rev(n, i)' \notin listed[n] \/ \E k \in 1..Size(n) : Shifted(n, i, k)

(* What orders a history: pull requests only grow, or their dates tie and  *)
(* nothing that was dropped comes back.                                    *)
Orderly == OnlyGrowing \/ (DatesTie /\ ~Happens("reset"))

(* A pull request that only grows. *)
LEMMA GrowingShifts ==
  ASSUME Core, NEW n \in Tasks, OnlyGrowing, pulls'[n] \in Pull, NEW s,
         Pushed(pulls[n], pulls'[n], Size(n), s), s \notin listed[n], listed'[n] = listed[n] \cup {s}
  PROVE  Shifts(n)
<1> DEFINE p == pulls[n]
           q == pulls'[n]
           M == Size(n)
           N == Size(n)'
<1>1. p \in Pull /\ q \in Pull /\ M \in Nat
  BY ChronologyHolds DEF Core, Repository, Chronology
<1>2. N = M + 1 /\ q.commits[N].sha = s /\ \A i \in 1..M : q.commits[i] = p.commits[i]
  BY DEF Pushed, Size, Commit
<1>3. PICK g : Inserted(p, q, g)
  <2>1. Len(q.commits) = Len(p.commits) + 1 /\ \A i \in 1..Len(p.commits) : q.commits[i] = p.commits[i]
    BY <1>2 DEF Size
  <2> HIDE DEF p, q
  <2> QED  BY <1>1, <2>1, InsertedExists
<1>4. /\ g \in [1..M -> 1..N]
      /\ \A j, k \in 1..M : j < k => g[j] < g[k]
      /\ \A k \in 1..M : Sorted(q)[g[k]] = Sorted(p)[k]
      /\ \A i \in 1..N : Sorted(q)[i] = q.commits[N] \/ \E k \in 1..M : g[k] = i
  BY <1>3, Zenon DEF Inserted, Size
<1>5. \A k \in 1..M : Rev(n, k) = Sorted(p)[k].sha
  BY DEF Rev
<1>6. \A i : Rev(n, i)' = Sorted(q)[i].sha
  BY DEF Rev
<1> HIDE DEF p, q, M, N
<1>7. \A k \in 1..M : g[k] >= k
  <2>1. g \in [1..M -> Nat] /\ \A k \in 1..M : g[k] >= 1
    BY <1>1, <1>2, <1>4
  <2> QED  BY <1>1, <1>4, <2>1, GrowsAtLeast
<1>8. ASSUME NEW k \in 1..M, g[k] = k PROVE \A j \in 1..k : g[j] = j
  <2> DEFINE f == [j \in 1..k |-> g[j]]
  <2>1. \A j \in 1..k : j \in 1..M /\ (j < k \/ j = k) /\ g[j] \in Nat /\ g[j] >= 1
    BY <1>1, <1>2, <1>4
  <2>2. \A j \in 1..k : g[j] <= k
    BY <1>4, <1>8, <2>1
  <2>3. k \in Nat /\ f \in [1..k -> 1..k]
    BY <1>1, <2>1, <2>2
  <2>4. \A i, j \in 1..k : i < j => f[i] < f[j]
    BY <1>4, <2>1
  <2> HIDE DEF f
  <2>5. \A j \in 1..k : f[j] = j
    BY <2>3, <2>4, GrowsWithin
  <2> QED  BY <2>5 DEF f
<1>9. ASSUME NEW i \in 1..N, Rev(n, i)' \in listed[n] PROVE \E k \in 1..M : Shifted(n, i, k)
  <2>1. Sorted(q)[i] # q.commits[N]
    BY <1>2, <1>6, <1>9
  <2>2. PICK k \in 1..M : g[k] = i
    BY <1>4, <2>1
  <2>3. Rev(n, i)' = Rev(n, k)
    BY <1>4, <1>5, <1>6, <2>2
  <2>4. i = N => k = M
    <3> SUFFICES ASSUME i = N, k # M PROVE FALSE
      OBVIOUS
    <3>1. M \in 1..M /\ k < M
      BY <1>1
    <3>2. g[k] < g[M] /\ g[M] \in 1..N
      BY <1>4, <3>1
    <3> QED  BY <1>1, <1>2, <2>2, <3>2
  <2>5. k <= i
    BY <1>7, <2>2
  <2>6. k = i => \A j \in 1..k : Rev(n, j)' = Rev(n, j)
    <3> SUFFICES ASSUME k = i, NEW j \in 1..k PROVE Rev(n, j)' = Rev(n, j)
      OBVIOUS
    <3>1. j \in 1..M /\ g[j] = j
      BY <1>1, <1>8, <2>2
    <3> QED  BY <1>4, <1>5, <1>6, <3>1
  <2> QED  BY <2>3, <2>4, <2>5, <2>6 DEF Shifted, M, N
<1> QED  BY <1>9 DEF Shifts, M, N

(* Every move of an orderly history. *)
LEMMA MovesShift ==
  ASSUME Core, Core', Orderly, Moves, NEW n \in Tasks
  PROVE  Shifts(n)
<1>1. PullMove(n) /\ pulls'[n] \in Pull /\ Orderly' /\ DatesTie' = DatesTie /\ OnlyGrowing' = OnlyGrowing
  BY DEF Moves, Orderly, DatesTie, OnlyGrowing, Happens
<1>2. Size(n) \in Nat
  BY ChronologyHolds DEF Chronology
<1>3. CASE Kept(n) \/ Declared(n)
  <2>1. pulls'[n].commits = pulls[n].commits /\ listed'[n] = listed[n]
    BY <1>3 DEF Kept, Declared
  <2>2. Size(n)' = Size(n) /\ \A k : Rev(n, k)' = Rev(n, k)
    BY <2>1, Zenon DEF Size, Rev, Sorted
  <2>3. \A i \in 1..Size(n) : Shifted(n, i, i)
    BY <1>2, <2>2 DEF Shifted
  <2> QED  BY <2>1, <2>2, <2>3 DEF Shifts
<1>4. CASE Rewritten(n) /\ OnlyGrowing
  <2>1. ~Happens("force_push") /\ ~Happens("reset") /\ ~Happens("absorb")
    BY <1>4 DEF OnlyGrowing, Happens
  <2>2. PICK k, s : /\ Pushed(pulls[n], pulls'[n], k, s) /\ s \notin listed[n]
                    /\ listed'[n] = listed[n] \cup {s} /\ ~(k < Len(pulls[n].commits))
    BY <1>4, <2>1 DEF Rewritten
  <2>3. k = Size(n)
    BY <1>2, <2>2 DEF Pushed, Size
  <2> QED  BY <1>1, <1>4, <2>2, <2>3, GrowingShifts
<1>5. CASE Rewritten(n) /\ ~OnlyGrowing
  <2>1. DatesTie /\ ~Happens("reset")
    BY <1>5 DEF Orderly
  <2>2. /\ \A k \in 1..Size(n) : Rev(n, k) = pulls[n].commits[k].sha
        /\ \A k \in 1..Size(n)' : Rev(n, k)' = pulls'[n].commits[k].sha
    <3>1. \A k \in 1..Size(n) : Rev(n, k) = pulls[n].commits[k].sha
      BY <2>1, TieKeepsOrder
    <3>2. DatesTie' /\ Core'
      BY <1>1, <2>1
    <3>3. (\A k \in 1..Size(n) : Rev(n, k) = pulls[n].commits[k].sha)'
      BY <3>2, TieKeepsOrder, PTL
    <3> QED  BY <3>1, <3>3
  <2>3. CASE \E k, s : /\ Pushed(pulls[n], pulls'[n], k, s) /\ s \notin listed[n]
                       /\ listed'[n] = listed[n] \cup {s}
    <3>1. PICK k, s : /\ Pushed(pulls[n], pulls'[n], k, s) /\ s \notin listed[n]
                      /\ listed'[n] = listed[n] \cup {s}
      BY <2>3
    <3>2. /\ k \in Nat /\ Size(n)' = k + 1 /\ pulls'[n].commits[k + 1].sha = s
          /\ \A i \in 1..k : i \in 1..Size(n) /\ pulls'[n].commits[i] = pulls[n].commits[i]
      BY <1>2, <3>1 DEF Pushed, Size, Commit
    <3>3. \A i \in 1..Size(n)' : i = k + 1 \/ (i \in 1..k /\ i # Size(n)')
      BY <3>2
    <3>4. \A i \in 1..k : i \in 1..Size(n)' /\ Rev(n, i)' = Rev(n, i)
      BY <2>2, <3>2
    <3>5. ASSUME NEW i \in 1..Size(n)', Rev(n, i)' \in listed[n] PROVE Shifted(n, i, i) /\ i \in 1..Size(n)
      <4>1. i # k + 1
        BY <2>2, <3>1, <3>2, <3>5
      <4>2. i \in 1..k /\ i # Size(n)' /\ \A j \in 1..i : j \in 1..k
        BY <3>2, <3>3, <4>1
      <4> QED  BY <3>2, <3>4, <4>2 DEF Shifted
    <3> QED  BY <3>1, <3>5 DEF Shifts
  <2>4. CASE Trimmed(pulls[n], pulls'[n]) /\ listed'[n] = listed[n]
    <3>1. /\ Size(n)' = Size(n) - 1
          /\ \A i \in 1..Size(n)' : pulls'[n].commits[i] = pulls[n].commits[i + 1]
      BY <2>4 DEF Trimmed, Size
    <3>2. ASSUME NEW i \in 1..Size(n)' PROVE \E k \in 1..Size(n) : Shifted(n, i, k)
      <4> DEFINE k == i + 1
      <4>1. k \in 1..Size(n) /\ k # i /\ k >= i /\ (i = Size(n)' => k = Size(n))
        BY <1>2, <3>1
      <4>2. pulls'[n].commits[i] = pulls[n].commits[k]
        BY <3>1
      <4> HIDE DEF k
      <4>3. Rev(n, i)' = Rev(n, k)
        BY <2>2, <4>1, <4>2
      <4>4. Shifted(n, i, k)
        BY <1>5, <4>1, <4>3 DEF Shifted
      <4> QED  BY <4>1, <4>4
    <3> QED  BY <2>4, <3>2 DEF Shifts
  <2> QED  BY <1>5, <2>1, <2>3, <2>4 DEF Rewritten
<1> QED  BY <1>1, <1>3, <1>4, <1>5 DEF PullMove

-----------------------------------------------------------------------------
(* What a sweep tells of a pull request. *)

(* r starts, or ends, the revision at place k of pull request n. *)
StartRecord(r, n, k) ==
  /\ r.id = StartId(n, k, Rev(n, k)) /\ r.time = date[Rev(n, k)] /\ r.order = 2 * k
  /\ r.ev.type = "execution_started" /\ r.ev.task = n /\ r.ev.exec = <<n, Rev(n, k)>>
FinishRecord(r, n, k) ==
  /\ r.id = FinishId(n, k, Rev(n, k))
  /\ r.ev.type = "execution_finished" /\ r.ev.task = n /\ r.ev.exec = <<n, Rev(n, k)>>
  /\ k < Size(n) => r.ev.status = "superseded" /\ r.ev.by = <<n, Rev(n, k + 1)>>
  /\ k = Size(n) => pulls[n].closed # 0 /\ r.ev.status = TerminalStatus(pulls[n])

(* The records of the revisions of a pull request are these. *)
LEMMA RevisionRecords ==
  ASSUME Core, NEW n \in Tasks, n \in Agentic, NEW k \in 1..Size(n)
  PROVE  /\ StartRecord(StartOf(pulls[n], k), n, k)
         /\ k < Size(n) => FinishRecord(ReplacedAt(pulls[n], k), n, k)
         /\ k = Size(n) /\ pulls[n].closed # 0 => FinishRecord(EndedAt(pulls[n], k), n, k)
<1> DEFINE p == pulls[n]
           N == Len(p.commits)
<1>1. p \in Pull /\ p.number = n /\ N = Size(n) /\ k \in 1..N
  BY DEF Core, Repository, Size
<1>2. Chronology(n)
  BY ChronologyHolds
<1>3. \A j : Rev(n, j) = Sorted(p)[j].sha
  BY DEF Rev
<1>4. Sorted(p)[k].date = date[Rev(n, k)] /\ N \in Nat
  BY <1>1, <1>2 DEF Chronology
<1>5. \A j : Exec(p, j) = <<n, Rev(n, j)>>
  BY <1>1, <1>3 DEF Exec
<1> HIDE DEF p, N
<1>6. StartRecord(StartOf(p, k), n, k)
  <2> DEFINE r == StartOf(p, k)
  <2>1. /\ r.id = StartId(p.number, k, Sorted(p)[k].sha) /\ r.time = Sorted(p)[k].date /\ r.order = 2 * k
        /\ Says(r.ev, p.number, "execution_started", Exec(p, k), None)
    BY <1>1, StartIs DEF N
  <2> HIDE DEF r
  <2>2. StartRecord(r, n, k)
    BY <1>1, <1>3, <1>4, <1>5, <2>1 DEF StartRecord, Says
  <2> QED  BY <2>2 DEF r
<1>7. ASSUME k < N PROVE FinishRecord(ReplacedAt(p, k), n, k)
  <2> DEFINE r == ReplacedAt(p, k)
  <2>1. k \in 1..Len(p.commits) /\ k < Len(p.commits) /\ r = ReplacedAt(p, k)
    BY <1>1, <1>7 DEF N
  <2> HIDE DEF r
  <2>2. /\ r.id = FinishId(p.number, k, Sorted(p)[k].sha)
        /\ Says(r.ev, p.number, "execution_finished", Exec(p, k), None)
        /\ r.ev.status = "superseded" /\ r.ev.by = Exec(p, k + 1)
    BY <1>1, <2>1, FinishIs
  <2>3. ~(k = Size(n))
    BY <1>1, <1>4, <1>7
  <2>4. FinishRecord(r, n, k)
    BY <1>1, <1>3, <1>5, <2>2, <2>3 DEF FinishRecord, Says
  <2> QED  BY <2>4 DEF r
<1>8. ASSUME k = N, p.closed # 0 PROVE FinishRecord(EndedAt(p, k), n, k)
  <2> DEFINE r == EndedAt(p, k)
  <2>1. k \in 1..Len(p.commits) /\ r = EndedAt(p, k)
    BY <1>1 DEF N
  <2> HIDE DEF r
  <2>2. /\ r.id = FinishId(p.number, k, Sorted(p)[k].sha)
        /\ Says(r.ev, p.number, "execution_finished", Exec(p, k), None)
        /\ r.ev.status = TerminalStatus(p)
    BY <1>1, <1>8, <2>1, FinishIs
  <2>3. ~(k < Size(n))
    BY <1>1, <1>4, <1>8
  <2>4. FinishRecord(r, n, k)
    BY <1>1, <1>3, <1>5, <1>8, <2>2, <2>3 DEF FinishRecord, Says, p
  <2> QED  BY <2>4 DEF r
<1> QED  BY <1>1, <1>6, <1>7, <1>8 DEF p

(* What the records of a sweep about task n can be. *)
LEMMA AuditOnlyTells ==
  ASSUME Core, NEW n \in Tasks, NEW r \in AuditSet, r.ev.task = n
  PROVE  /\ r.ev.type = "execution_started" =>
              n \in Opened \cap Agentic /\ \E k \in 1..Size(n) : StartRecord(r, n, k)
         /\ r.ev.type = "execution_finished" =>
              n \in Opened \cap Agentic /\ \E k \in 1..Size(n) : FinishRecord(r, n, k)
         /\ r.ev.type = "pull_request_merged" =>
              n \in Opened \cap Agentic /\ pulls[n].merged # 0
         /\ r.ev.type = "pull_request_closed" =>
              n \in Opened \cap Agentic /\ pulls[n].merged = 0 /\ pulls[n].closed # 0
<1> DEFINE types == {"execution_started", "execution_finished", "pull_request_merged", "pull_request_closed"}
<1> SUFFICES ASSUME r.ev.type \in types
             PROVE  /\ n \in Opened \cap Agentic
                    /\ r.ev.type = "execution_started" => \E k \in 1..Size(n) : StartRecord(r, n, k)
                    /\ r.ev.type = "execution_finished" => \E k \in 1..Size(n) : FinishRecord(r, n, k)
                    /\ r.ev.type = "pull_request_merged" => pulls[n].merged # 0
                    /\ r.ev.type = "pull_request_closed" => pulls[n].merged = 0 /\ pulls[n].closed # 0
  OBVIOUS
<1>1. Repository
  BY DEF Core
<1>2. r \in PullSet
  BY <1>1, AuditBatch, Lifecycle
<1>3. PICK m \in Opened \cap Agentic : OfPull(r, pulls[m])
  BY <1>1, <1>2, AuditBatch
<1>4. pulls[m] \in Pull /\ pulls[m].number = m /\ m \in Tasks /\ m \in Agentic
  BY <1>1, <1>3 DEF Repository, Opened
<1>5. PullRecord(r, pulls[m])
  BY <1>3, <1>4, PullRecordsMade
<1>6. m = n
  BY <1>4, <1>5 DEF PullRecord
<1> DEFINE p == pulls[n]
<1>7. p \in Pull /\ p.number = n /\ n \in Opened \cap Agentic /\ OfPull(r, p) /\ PullRecord(r, p)
      /\ Size(n) = Len(p.commits) /\ Size(n) \in Nat
  <2>1. Size(n) \in Nat
    BY ChronologyHolds DEF Chronology
  <2> QED  BY <1>3, <1>4, <1>5, <1>6, <2>1 DEF Size
<1>8. ASSUME r.ev.type = "execution_started" PROVE \E k \in 1..Size(n) : StartRecord(r, n, k)
  <2>1. PICK k \in 1..Size(n) : r = StartOf(p, k)
    BY <1>7, <1>8 DEF PullRecord
  <2> QED  BY <1>7, <2>1, RevisionRecords
<1>9. ASSUME r.ev.type = "execution_finished" PROVE \E k \in 1..Size(n) : FinishRecord(r, n, k)
  <2>1. PICK k \in 1..Size(n) : \/ k < Size(n) /\ r = ReplacedAt(p, k)
                                \/ k = Size(n) /\ p.closed # 0 /\ r = EndedAt(p, k)
    BY <1>7, <1>9 DEF PullRecord
  <2> QED  BY <1>7, <2>1, RevisionRecords
<1>10. /\ r.ev.type = "pull_request_merged" => p.merged # 0
       /\ r.ev.type = "pull_request_closed" => p.merged = 0 /\ p.closed # 0
  <2>1. \A k \in 1..Size(n) : StartOf(p, k).ev.type = "execution_started"
    BY <1>7, RevisionRecords DEF StartRecord
  <2>2. ASSUME NEW k \in 1..(Size(n) - 1) PROVE ReplacedAt(p, k).ev.type = "execution_finished"
    <3>1. k \in 1..Size(n) /\ k < Size(n)
      BY <1>7
    <3>2. FinishRecord(ReplacedAt(p, k), n, k)
      BY <1>7, <3>1, RevisionRecords
    <3> QED  BY <3>2 DEF FinishRecord
  <2>3. Size(n) > 0 /\ p.closed # 0 => EndedAt(p, Size(n)).ev.type = "execution_finished"
    <3>1. Size(n) > 0 => Size(n) \in 1..Size(n)
      BY <1>7
    <3>2. ASSUME Size(n) > 0, p.closed # 0 PROVE FinishRecord(EndedAt(p, Size(n)), n, Size(n))
      BY <1>7, <3>1, <3>2, RevisionRecords
    <3> QED  BY <3>2 DEF FinishRecord
  <2>4. \A o : /\ MergedRecord(p, o).ev.type = "pull_request_merged"
               /\ ClosedRecord(p, o).ev.type = "pull_request_closed"
    BY DEF MergedRecord, ClosedRecord, Record, Signal, Blank
  <2>5. /\ Record(<<"task-started", p.number, 0>>, p.created, 0, Blank(p.number, "task_started")).ev.type = "task_started"
        /\ Record(<<"pr-created", p.number, 0>>, p.created, 1,
                  Signal(p.number, "pull_request_created", PrRef(p.number))).ev.type = "pull_request_created"
    BY DEF Record, Signal, Blank
  <2> HIDE DEF p
  <2>6. \/ r.ev.type \in {"task_started", "pull_request_created", "execution_started", "execution_finished"}
        \/ p.merged # 0 /\ r.ev.type = "pull_request_merged"
        \/ p.merged = 0 /\ p.closed # 0 /\ r.ev.type = "pull_request_closed"
    BY <1>7, <2>1, <2>2, <2>3, <2>4, <2>5, Zenon DEF OfPull
  <2> QED  BY <2>6
<1> QED  BY <1>7, <1>8, <1>9, <1>10 DEF p

(* What a sweep does tell of an opened pull request. *)
LEMMA AuditTells ==
  ASSUME Core, NEW n \in Opened \cap Agentic
  PROVE  /\ \A k \in 1..Size(n) : \E r \in AuditSet : StartRecord(r, n, k)
         /\ \A k \in 1..Size(n) : k < Size(n) \/ pulls[n].closed # 0 => \E r \in AuditSet : FinishRecord(r, n, k)
         /\ pulls[n].merged # 0 => \E r \in AuditSet : r.id = MergedId(n)
         /\ pulls[n].merged = 0 /\ pulls[n].closed # 0 => \E r \in AuditSet : r.id = ClosedId(n)
<1> DEFINE p == pulls[n]
<1>1. Repository /\ n \in Tasks /\ n \in Agentic
  BY DEF Core, Opened
<1>2. \A r : OfPull(r, p) => r \in AuditSet
  BY <1>1, AuditBatch DEF AuditSet
<1>3. p.number = n /\ Size(n) = Len(p.commits) /\ Size(n) \in Nat
  <2>1. Size(n) \in Nat
    BY <1>1, ChronologyHolds DEF Chronology
  <2> QED  BY <1>1, <2>1 DEF Repository, Size
<1>4. ASSUME NEW k \in 1..Size(n) PROVE \E r \in AuditSet : StartRecord(r, n, k)
  <2>1. OfPull(StartOf(p, k), p)
    BY <1>3 DEF OfPull
  <2> QED  BY <1>1, <1>2, <2>1, RevisionRecords
<1>5. ASSUME NEW k \in 1..Size(n), k < Size(n) PROVE \E r \in AuditSet : FinishRecord(r, n, k)
  <2>1. k \in 1..(Size(n) - 1)
    BY <1>3, <1>5
  <2>2. OfPull(ReplacedAt(p, k), p)
    BY <1>3, <2>1 DEF OfPull
  <2> QED  BY <1>1, <1>2, <1>5, <2>2, RevisionRecords
<1>6. ASSUME NEW k \in 1..Size(n), ~(k < Size(n)), p.closed # 0 PROVE \E r \in AuditSet : FinishRecord(r, n, k)
  <2>1. k = Size(n) /\ Size(n) > 0
    BY <1>3, <1>6
  <2>2. OfPull(EndedAt(p, k), p)
    BY <1>3, <1>6, <2>1 DEF OfPull
  <2> QED  BY <1>1, <1>2, <1>6, <2>1, <2>2, RevisionRecords
<1> DEFINE o == 2 * Len(p.commits) + 2
<1>7. /\ p.merged # 0 => OfPull(MergedRecord(p, o), p)
      /\ p.merged = 0 /\ p.closed # 0 => OfPull(ClosedRecord(p, o), p)
  BY Zenon DEF OfPull
<1>8. MergedRecord(p, o).id = MergedId(n) /\ ClosedRecord(p, o).id = ClosedId(n)
  BY <1>3 DEF MergedRecord, ClosedRecord, Record, MergedId, ClosedId
<1> HIDE DEF o, p
<1> QED  BY <1>2, <1>4, <1>5, <1>6, <1>7, <1>8 DEF p

(* The starts of a pull request are in the order of its revisions. *)
LEMMA StartsInOrder ==
  ASSUME Core, NEW n \in Tasks, NEW j \in 1..Size(n), NEW k \in 1..Size(n), j < k,
         NEW r \in AuditSet, StartRecord(r, n, j), NEW q \in AuditSet, StartRecord(q, n, k)
  PROVE  <<r, q>> \in InOrder(AuditSet)
<1>1. PICK u, ix : Batch(AuditSet, u, ix)
  BY AuditBatch DEF Core
<1>2. Made(r) /\ Made(q)
  BY <1>1 DEF Batch
<1>3. Keyed(r) /\ Keyed(q)
  BY <1>2, MadeKind DEF Keyed, Made
<1>4. date[Rev(n, j)] <= date[Rev(n, k)] /\ date[Rev(n, j)] \in Nat /\ date[Rev(n, k)] \in Nat /\ Size(n) \in Nat
  BY ChronologyHolds DEF Chronology
<1>5. 2 * j < 2 * k /\ r.ev.type = q.ev.type
  BY <1>4 DEF StartRecord
<1>6. Sooner(r, q)
  BY <1>4, <1>5 DEF Sooner, StartRecord
<1>7. Precedes(r, q)
  BY <1>3, <1>6, PrecedesIsSooner
<1> QED  BY <1>7 DEF InOrder

(* Only place i holds a start, or a finish, of e. *)
OnlyStart(l, n, e, i) == StartedAt(l, n, e, i) /\ \A j : StartedAt(l, n, e, j) => j = i
OnlyFinish(l, n, e, i) == FinishedAt(l, n, e, i) /\ \A j : FinishedAt(l, n, e, j) => j = i

(* The starts and finishes of a sweep are of revisions of the pull request. *)
LEMMA AuditPlaces ==
  ASSUME Core, NEW n \in Opened \cap Agentic, NEW e, NEW i
  PROVE  /\ StartedAt(Audit, n, e, i) => \E k \in 1..Size(n) : e = <<n, Rev(n, k)>> /\ StartRecord(Audit[i], n, k)
         /\ FinishedAt(Audit, n, e, i) => \E k \in 1..Size(n) : e = <<n, Rev(n, k)>> /\ FinishRecord(Audit[i], n, k)
<1> DEFINE r == Audit[i]
<1>1. \A j \in 1..Len(Audit) : Audit[j] \in AuditSet
  BY AuditLedger DEF Core
<1>2. n \in Tasks
  BY DEF Opened
<1>3. ASSUME StartedAt(Audit, n, e, i) PROVE \E k \in 1..Size(n) : e = <<n, Rev(n, k)>> /\ StartRecord(r, n, k)
  <2>1. r \in AuditSet /\ r.ev.type = "execution_started" /\ r.ev.task = n /\ r.ev.exec = e
    BY <1>1, <1>3 DEF StartedAt
  <2> HIDE DEF r
  <2>2. \E k \in 1..Size(n) : StartRecord(r, n, k)
    BY <1>2, <2>1, AuditOnlyTells
  <2> QED  BY <2>1, <2>2 DEF StartRecord
<1>4. ASSUME FinishedAt(Audit, n, e, i) PROVE \E k \in 1..Size(n) : e = <<n, Rev(n, k)>> /\ FinishRecord(r, n, k)
  <2>1. r \in AuditSet /\ r.ev.type = "execution_finished" /\ r.ev.task = n /\ r.ev.exec = e
    BY <1>1, <1>4 DEF FinishedAt
  <2> HIDE DEF r
  <2>2. \E k \in 1..Size(n) : FinishRecord(r, n, k)
    BY <1>2, <2>1, AuditOnlyTells
  <2> QED  BY <2>1, <2>2 DEF FinishRecord
<1> QED  BY <1>3, <1>4

(* Every revision is started once, in the order of the revisions; all but  *)
(* the last finish once, and that one once the pull request is closed.     *)
LEMMA AuditStory ==
  ASSUME Core, NEW n \in Opened \cap Agentic, NEW k \in 1..Size(n)
  PROVE  /\ \E a : OnlyStart(Audit, n, <<n, Rev(n, k)>>, a) /\ StartRecord(Audit[a], n, k)
         /\ k < Size(n) \/ pulls[n].closed # 0 =>
              \E a : OnlyFinish(Audit, n, <<n, Rev(n, k)>>, a) /\ FinishRecord(Audit[a], n, k)
         /\ k = Size(n) /\ pulls[n].closed = 0 => \A a : ~FinishedAt(Audit, n, <<n, Rev(n, k)>>, a)
<1> DEFINE e == <<n, Rev(n, k)>>
           l == Audit
<1>1. n \in Tasks /\ Repository
  BY DEF Opened, Core
<1>2. Chronology(n)
  BY <1>1, ChronologyHolds
<1>3. \A j \in 1..Size(n) : e = <<n, Rev(n, j)>> => j = k
  BY <1>2 DEF Chronology
<1>4. Ledger(l) /\ \A r \in AuditSet : \E i \in 1..Len(l) : l[i] = r
  BY <1>1, AuditLedger
<1>5. \A i : StartedAt(l, n, e, i) => StartRecord(l[i], n, k)
  BY <1>3, AuditPlaces
<1>6. \A i : FinishedAt(l, n, e, i) => FinishRecord(l[i], n, k)
  BY <1>3, AuditPlaces
<1> HIDE DEF l
<1>7. \A i, j \in 1..Len(l) : l[i].id = l[j].id => i = j
  BY <1>4 DEF Ledger
<1>8. \E a : OnlyStart(l, n, e, a)
  <2>1. PICK r \in AuditSet : StartRecord(r, n, k)
    BY AuditTells
  <2>2. PICK a \in 1..Len(l) : l[a] = r
    BY <1>4
  <2>3. StartedAt(l, n, e, a)
    BY <2>1, <2>2 DEF StartRecord, StartedAt
  <2>4. ASSUME NEW b, StartedAt(l, n, e, b) PROVE b = a
    <3>1. b \in 1..Len(l) /\ StartRecord(l[b], n, k) /\ StartRecord(l[a], n, k)
      BY <1>5, <2>3, <2>4 DEF StartedAt
    <3> QED  BY <1>7, <3>1 DEF StartRecord
  <2> QED  BY <2>3, <2>4 DEF OnlyStart
<1>9. ASSUME k < Size(n) \/ pulls[n].closed # 0 PROVE \E a : OnlyFinish(l, n, e, a)
  <2>1. PICK r \in AuditSet : FinishRecord(r, n, k)
    BY <1>9, AuditTells
  <2>2. PICK a \in 1..Len(l) : l[a] = r
    BY <1>4
  <2>3. FinishedAt(l, n, e, a)
    BY <2>1, <2>2 DEF FinishRecord, FinishedAt
  <2>4. ASSUME NEW b, FinishedAt(l, n, e, b) PROVE b = a
    <3>1. b \in 1..Len(l) /\ FinishRecord(l[b], n, k) /\ FinishRecord(l[a], n, k)
      BY <1>6, <2>3, <2>4 DEF FinishedAt
    <3> QED  BY <1>7, <3>1 DEF FinishRecord
  <2> QED  BY <2>3, <2>4 DEF OnlyFinish
<1>10. ASSUME k = Size(n), pulls[n].closed = 0 PROVE \A a : ~FinishedAt(l, n, e, a)
  BY <1>6, <1>10 DEF FinishRecord
<1> HIDE DEF e
<1>11. \A a : OnlyStart(l, n, e, a) => StartRecord(l[a], n, k)
  BY <1>5 DEF OnlyStart
<1>12. \A a : OnlyFinish(l, n, e, a) => FinishRecord(l[a], n, k)
  BY <1>6 DEF OnlyFinish
<1> QED  BY <1>8, <1>9, <1>10, <1>11, <1>12 DEF l, e

(* Place i holds a signal of that type of task n. *)
SignalledAt(l, n, type, i) == i \in 1..Len(l) /\ l[i].ev.type = type /\ l[i].ev.task = n
Signalled(l, n, type) == \E i : SignalledAt(l, n, type, i)

(* The outcome of a task is that of its signals: the adapter emits no      *)
(* failure and no abort.                                                   *)
LEMMA OutcomeIs ==
  ASSUME NEW l, Ledger(l), NEW n \in Tasks, NEW x, TellsOf(l, n, x)
  PROVE  /\ Signalled(l, n, "pull_request_merged") => Outcome(x) = "accepted"
         /\ ~Signalled(l, n, "pull_request_merged") /\ Signalled(l, n, "pull_request_closed") =>
              Outcome(x) = "failed"
         /\ ~Signalled(l, n, "pull_request_merged") /\ ~Signalled(l, n, "pull_request_closed") =>
              Outcome(x) = "unresolved"
<1> DEFINE v == EventsOf(l)
           N == Len(l)
<1>1. \A i \in 1..N : v[i] = l[i].ev /\ l[i].ev.type \notin {"task_failed", "task_aborted"}
  <2>1. \A i \in 1..N : v[i] = l[i].ev /\ Made(l[i])
    BY LedgerEvents DEF Ledger
  <2>2. \A i \in 1..N : <<l[i].id[1], l[i].ev.type>> \in Kinds
    BY <2>1 DEF Made
  <2> HIDE DEF v, N
  <2> QED  BY <2>1, <2>2 DEF Kinds
<1>2. /\ x.merged = {v[i].ref : i \in Upto(v, N, n, {"pull_request_merged"})}
      /\ x.closed = {v[i].ref : i \in Upto(v, N, n, {"pull_request_closed"})}
      /\ x.failed <=> Upto(v, N, n, {"task_failed"}) # {}
      /\ x.abortedSeq > 0 <=> Upto(v, N, n, {"task_aborted"}) # {}
  BY DEF TellsOf, Told
<1> HIDE DEF v
<1> DEFINE A == Upto(v, N, n, {"pull_request_merged"})
           B == Upto(v, N, n, {"pull_request_closed"})
<1>3. (A # {} <=> Signalled(l, n, "pull_request_merged")) /\ (B # {} <=> Signalled(l, n, "pull_request_closed"))
  BY <1>1 DEF Upto, Signalled, SignalledAt
<1> HIDE DEF A, B
<1>4. (x.merged # {} <=> A # {}) /\ (x.closed # {} <=> B # {})
  <2>1. x.merged = {v[i].ref : i \in A} /\ x.closed = {v[i].ref : i \in B}
    BY <1>2 DEF A, B
  <2> QED  BY <2>1
<1>5. ~x.failed /\ ~(x.abortedSeq > 0)
  BY <1>1, <1>2 DEF Upto
<1> QED  BY <1>3, <1>4, <1>5 DEF Outcome

(* What task t of a sweep says of the revision at place k. *)
TellsRevision(t, n, k) ==
  LET x == t.execs[<<n, Rev(n, k)>>] IN
  /\ x.announced /\ x.explicit
  /\ k < Size(n) => x.status = "superseded" /\ x.by = <<n, Rev(n, k + 1)>>
  /\ k = Size(n) /\ pulls[n].closed # 0 => x.status = TerminalStatus(pulls[n])
  /\ k = Size(n) /\ pulls[n].closed = 0 => x.status = "running"

(* The task of a sweep is that of its records. *)
LEMMA HistoryTells ==
  ASSUME Core, NEW n \in Opened \cap Agentic
  PROVE  LET t == Historical[n] IN
         /\ ~t.duplicateRef
         /\ \A k \in 1..Size(n) : TellsRevision(t, n, k)
         /\ \A j, k \in 1..Size(n) : j < k =>
              t.execs[<<n, Rev(n, j)>>].startedSeq < t.execs[<<n, Rev(n, k)>>].startedSeq
         /\ \A e \in Executions : t.execs[e].announced => \E k \in 1..Size(n) : e = <<n, Rev(n, k)>>
         /\ pulls[n].merged # 0 => Outcome(t) = "accepted"
         /\ pulls[n].merged = 0 /\ pulls[n].closed # 0 => Outcome(t) = "failed"
         /\ pulls[n].merged = 0 /\ pulls[n].closed = 0 => Outcome(t) = "unresolved"
<1> DEFINE l == Audit
           t == Historical[n]
           E(k) == <<n, Rev(n, k)>>
<1>1. n \in Tasks /\ Repository /\ n \in Agentic
  BY DEF Opened, Core
<1>2. Chronology(n)
  BY <1>1, ChronologyHolds
<1>3. /\ Ledger(l) /\ \A r \in AuditSet : \E i \in 1..Len(l) : l[i] = r
      /\ \A i \in 1..Len(l) : l[i] \in AuditSet
      /\ \A i, j \in 1..Len(l) : i < j <=> <<l[i], l[j]>> \in InOrder(AuditSet)
  BY <1>1, AuditLedger
<1>4. TellsOf(l, n, t)
  BY <1>1, <1>3, LedgerTells DEF Historical
<1>5. \A e \in Executions : ReadsAs(l, n, e, t.execs[e])
  <2> HIDE DEF l, t
  <2> QED  BY <1>1, <1>3, <1>4, LedgerNarrates
<1>6. \A k \in 1..Size(n) : E(k) \in Executions
  BY <1>1, <1>2, MappingAssumption DEF Chronology
<1>7. \A k \in 1..Size(n) :
        /\ \E a : OnlyStart(l, n, E(k), a) /\ StartRecord(l[a], n, k)
        /\ k < Size(n) \/ pulls[n].closed # 0 =>
             \E a : OnlyFinish(l, n, E(k), a) /\ FinishRecord(l[a], n, k)
        /\ k = Size(n) /\ pulls[n].closed = 0 => \A a : ~FinishedAt(l, n, E(k), a)
  BY AuditStory
<1>8. \A e, i : StartedAt(l, n, e, i) \/ FinishedAt(l, n, e, i) => \E k \in 1..Size(n) : e = <<n, Rev(n, k)>>
  BY AuditPlaces
<1> HIDE DEF l
<1>9. ASSUME NEW k \in 1..Size(n) PROVE TellsRevision(t, n, k)
  <2> DEFINE e == E(k)
             x == t.execs[e]
  <2>1. ReadsAs(l, n, e, x)
    BY <1>5, <1>6
  <2>2. PICK a : OnlyStart(l, n, e, a)
    BY <1>7
  <2>3. /\ k < Size(n) \/ pulls[n].closed # 0 => \E b : OnlyFinish(l, n, e, b) /\ FinishRecord(l[b], n, k)
        /\ k = Size(n) /\ pulls[n].closed = 0 => \A b : ~FinishedAt(l, n, e, b)
    BY <1>7
  <2> HIDE DEF e, x, t
  <2>4. x.announced /\ x.explicit
    BY <2>1, <2>2 DEF ReadsAs, OnlyStart
  <2>5. ASSUME k < Size(n) \/ pulls[n].closed # 0
        PROVE  \E b : /\ FinishRecord(l[b], n, k) /\ x.status = l[b].ev.status
                      /\ l[b].ev.status = "superseded" => x.by = l[b].ev.by
    <3>1. PICK b : OnlyFinish(l, n, e, b) /\ FinishRecord(l[b], n, k)
      BY <2>3, <2>5
    <3>2. FinishedAt(l, n, e, b) /\ \A j : FinishedAt(l, n, e, j) => j <= b
      <4>1. FinishedAt(l, n, e, b) /\ \A j : FinishedAt(l, n, e, j) => j = b
        BY <3>1 DEF OnlyFinish
      <4>2. b <= b
        BY <4>1 DEF FinishedAt
      <4> QED  BY <4>1, <4>2, Zenon
    <3> QED  BY <2>1, <3>1, <3>2 DEF ReadsAs
  <2>6. k < Size(n) => x.status = "superseded" /\ x.by = <<n, Rev(n, k + 1)>>
    BY <2>5 DEF FinishRecord
  <2>7. k = Size(n) /\ pulls[n].closed # 0 => x.status = TerminalStatus(pulls[n])
    BY <2>5 DEF FinishRecord
  <2>8. k = Size(n) /\ pulls[n].closed = 0 => x.status = "running"
    BY <2>1, <2>3 DEF ReadsAs
  <2> QED  BY <2>4, <2>6, <2>7, <2>8 DEF TellsRevision, x, e
<1>10. ASSUME NEW j \in 1..Size(n), NEW k \in 1..Size(n), j < k
       PROVE  t.execs[E(j)].startedSeq < t.execs[E(k)].startedSeq
  <2>1. ASSUME NEW h \in 1..Size(n), NEW a, OnlyStart(l, n, E(h), a)
        PROVE  a \in 1..Len(l) /\ t.execs[E(h)].startedSeq = a
    <3> DEFINE e == E(h)
               x == t.execs[e]
    <3>1. ReadsAs(l, n, e, x)
      BY <1>5, <1>6
    <3>2. StartedAt(l, n, e, a) /\ \A i : StartedAt(l, n, e, i) => i = a
      BY <2>1 DEF OnlyStart
    <3> HIDE DEF e, x
    <3>3. a \in 1..Len(l) /\ a <= a
      BY <3>2 DEF StartedAt
    <3>4. x.startedSeq = a
      BY <3>1, <3>2, <3>3 DEF ReadsAs
    <3> QED  BY <3>3, <3>4 DEF x, e
  <2>2. PICK a : OnlyStart(l, n, E(j), a) /\ StartRecord(l[a], n, j)
    BY <1>7
  <2>3. PICK b : OnlyStart(l, n, E(k), b) /\ StartRecord(l[b], n, k)
    BY <1>7
  <2>4. a \in 1..Len(l) /\ t.execs[E(j)].startedSeq = a /\ b \in 1..Len(l) /\ t.execs[E(k)].startedSeq = b
    BY <2>1, <2>2, <2>3
  <2>5. <<l[a], l[b]>> \in InOrder(AuditSet)
    <3>1. l[a] \in AuditSet /\ l[b] \in AuditSet
      BY <1>3, <2>4
    <3> QED  BY <1>1, <1>10, <2>2, <2>3, <3>1, StartsInOrder
  <2>6. a < b
    BY <1>3, <2>4, <2>5
  <2> QED  BY <2>4, <2>6
<1>11. ASSUME NEW e \in Executions, t.execs[e].announced PROVE \E k \in 1..Size(n) : e = <<n, Rev(n, k)>>
  <2>1. (\E i : StartedAt(l, n, e, i)) \/ (\E i : FinishedAt(l, n, e, i))
    BY <1>5, <1>11 DEF ReadsAs
  <2> QED  BY <1>8, <2>1
<1>12. /\ Signalled(l, n, "pull_request_merged") <=> pulls[n].merged # 0
       /\ Signalled(l, n, "pull_request_closed") <=> pulls[n].merged = 0 /\ pulls[n].closed # 0
  <2>1. /\ Signalled(l, n, "pull_request_merged") => pulls[n].merged # 0
        /\ Signalled(l, n, "pull_request_closed") => pulls[n].merged = 0 /\ pulls[n].closed # 0
    <3>1. ASSUME NEW i, SignalledAt(l, n, "pull_request_merged", i) PROVE pulls[n].merged # 0
      BY <1>1, <1>3, <3>1, AuditOnlyTells DEF SignalledAt
    <3>2. ASSUME NEW i, SignalledAt(l, n, "pull_request_closed", i) PROVE pulls[n].merged = 0 /\ pulls[n].closed # 0
      BY <1>1, <1>3, <3>2, AuditOnlyTells DEF SignalledAt
    <3> QED  BY <3>1, <3>2 DEF Signalled
  <2>2. pulls[n].merged # 0 => Signalled(l, n, "pull_request_merged")
    <3> SUFFICES ASSUME pulls[n].merged # 0 PROVE Signalled(l, n, "pull_request_merged")
      OBVIOUS
    <3>1. PICK r \in AuditSet : r.id = MergedId(n)
      BY AuditTells
    <3>2. PICK i \in 1..Len(l) : l[i] = r
      BY <1>3
    <3>3. SignalledAt(l, n, "pull_request_merged", i)
      <4>1. l[i].id = MergedId(n) /\ Ledger(l)
        BY <1>3, <3>1, <3>2
      <4>2. l[i].ev.type = "pull_request_merged" /\ l[i].ev.task = n
        BY <4>1, StoredSignals
      <4> QED  BY <3>2, <4>2 DEF SignalledAt
    <3> QED  BY <3>3 DEF Signalled
  <2>3. pulls[n].merged = 0 /\ pulls[n].closed # 0 => Signalled(l, n, "pull_request_closed")
    <3> SUFFICES ASSUME pulls[n].merged = 0, pulls[n].closed # 0 PROVE Signalled(l, n, "pull_request_closed")
      OBVIOUS
    <3>1. PICK r \in AuditSet : r.id = ClosedId(n)
      BY AuditTells
    <3>2. PICK i \in 1..Len(l) : l[i] = r
      BY <1>3
    <3>3. SignalledAt(l, n, "pull_request_closed", i)
      <4>1. l[i].id = ClosedId(n) /\ Ledger(l)
        BY <1>3, <3>1, <3>2
      <4>2. l[i].ev.type = "pull_request_closed" /\ l[i].ev.task = n
        BY <4>1, StoredSignals
      <4> QED  BY <3>2, <4>2 DEF SignalledAt
    <3> QED  BY <3>3 DEF Signalled
  <2> QED  BY <2>1, <2>2, <2>3
<1>13. /\ pulls[n].merged # 0 => Outcome(t) = "accepted"
       /\ pulls[n].merged = 0 /\ pulls[n].closed # 0 => Outcome(t) = "failed"
       /\ pulls[n].merged = 0 /\ pulls[n].closed = 0 => Outcome(t) = "unresolved"
  <2> HIDE DEF t
  <2> QED  BY <1>1, <1>3, <1>4, <1>12, OutcomeIs
<1>14. ~t.duplicateRef
  BY <1>4 DEF TellsOf
<1> QED  BY <1>9, <1>10, <1>11, <1>13, <1>14

(* A sweep tells the story of a pull request as it is, however its commits *)
(* are dated: every revision is an execution, all but the last are         *)
(* superseded by one not dated before them, and the last and the task end  *)
(* as the pull request did.                                                *)
THEOREM SweepsTellHistory == Spec => []SweepTellsHistory
<1>1. Init => Books
  BY BooksInit
<1>2. Books /\ [Next]_vars => Books'
  BY BooksStep
<1>3. Books => SweepTellsHistory
  <2> SUFFICES ASSUME Books, NEW n \in Opened \cap Agentic
               PROVE  LET t == Historical[n]
                          p == pulls[n]
                          execs == {n} \X Shas(n)
                          last == {e \in execs : t.execs[e].status # "superseded"}
                      IN /\ AuditableTask(t)
                         /\ execs = {e \in Executions : t.execs[e].announced}
                         /\ Cardinality(last) = 1
                         /\ \A e \in execs \ last : date[Sha(e)] <= date[Sha(t.execs[e].by)]
                         /\ \A e \in last :
                              t.execs[e].status = CASE p.merged # 0 -> "completed"
                                                    [] p.merged = 0 /\ p.closed # 0 -> "aborted"
                                                    [] OTHER -> "running"
                         /\ Outcome(t) = CASE p.merged # 0 -> "accepted"
                                           [] p.merged = 0 /\ p.closed # 0 -> "failed"
                                           [] OTHER -> "unresolved"
    BY DEF SweepTellsHistory
  <2> DEFINE t == Historical[n]
             p == pulls[n]
             execs == {n} \X Shas(n)
             last == {e \in execs : t.execs[e].status # "superseded"}
             N == Size(n)
             R == [k \in 1..N |-> Rev(n, k)]
             e0 == <<n, R[N]>>
  <2>1. Core /\ n \in Tasks /\ n \in Agentic
    BY DEF Books, Opened
  <2>2. N \in Nat /\ N > 0 /\ (p.merged # 0 => p.closed # 0)
    <3>1. Listed(n) /\ Chronology(n)
      BY <2>1, ChronologyHolds DEF Core
    <3> QED  BY <2>1, <3>1 DEF Listed, Chronology, Opened, Size
  <2>3. /\ \A j, k \in 1..N : R[j] = R[k] => j = k
        /\ \A j, k \in 1..N : j < k => date[R[j]] <= date[R[k]]
        /\ \A s : s \in Shas(n) <=> \E k \in 1..N : R[k] = s
        /\ \A k \in 1..N : R[k] \in Revisions
    <3>1. Chronology(n)
      BY <2>1, ChronologyHolds
    <3> QED  BY <3>1 DEF Chronology
  <2>4. /\ ~t.duplicateRef
        /\ \A k \in 1..N : TellsRevision(t, n, k)
        /\ \A j, k \in 1..N : j < k => t.execs[<<n, R[j]>>].startedSeq < t.execs[<<n, R[k]>>].startedSeq
        /\ \A e \in Executions : t.execs[e].announced => \E k \in 1..N : e = <<n, R[k]>>
        /\ p.merged # 0 => Outcome(t) = "accepted"
        /\ p.merged = 0 /\ p.closed # 0 => Outcome(t) = "failed"
        /\ p.merged = 0 /\ p.closed = 0 => Outcome(t) = "unresolved"
    BY <2>1, HistoryTells
  <2>5. \A k \in 1..N : LET x == t.execs[<<n, R[k]>>] IN
          /\ x.announced /\ x.explicit
          /\ k < N => x.status = "superseded" /\ x.by = <<n, R[k + 1]>>
          /\ k = N /\ p.closed # 0 => x.status = TerminalStatus(p)
          /\ k = N /\ p.closed = 0 => x.status = "running"
    <3> SUFFICES ASSUME NEW k \in 1..N
                 PROVE  LET x == t.execs[<<n, R[k]>>] IN
                        /\ x.announced /\ x.explicit
                        /\ k < N => x.status = "superseded" /\ x.by = <<n, R[k + 1]>>
                        /\ k = N /\ p.closed # 0 => x.status = TerminalStatus(p)
                        /\ k = N /\ p.closed = 0 => x.status = "running"
      OBVIOUS
    <3>1. k < N => k + 1 \in 1..N
      BY <2>2
    <3>2. R[k] = Rev(n, k) /\ (k < N => R[k + 1] = Rev(n, k + 1))
      BY <3>1
    <3>3. TellsRevision(t, n, k)
      BY <2>4
    <3> HIDE DEF t, R, N
    <3> QED  BY <3>2, <3>3 DEF TellsRevision, N
  <2>6. \A e : e \in execs <=> \E k \in 1..N : e = <<n, R[k]>>
    BY <2>3
  <2>7. N \in 1..N /\ \A k \in 1..N : k < N \/ k = N
    BY <2>2
  <2>8. \A k \in 1..N : <<n, R[k]>> \in Executions
    BY <2>1, <2>3, MappingAssumption
  <2> HIDE DEF t, execs, N, R, p
  <2>9. TerminalStatus(p) # "superseded" /\ (p.merged # 0 => TerminalStatus(p) = "completed")
        /\ (p.merged = 0 => TerminalStatus(p) = "aborted")
    BY DEF TerminalStatus
  <2>10. \A e : e \in last <=> e = e0
    BY <2>5, <2>6, <2>7, <2>9
  <2>11. Cardinality(last) = 1
    <3>1. last = {e0}
      BY <2>10
    <3> HIDE DEF last
    <3> QED  BY <3>1, FS_Singleton
  <2>12. AuditableTask(t)
    <3>1. ASSUME NEW e \in Executions, t.execs[e].announced, t.execs[e].status # "running"
          PROVE  /\ t.execs[e].explicit
                 /\ t.execs[e].status = "superseded" =>
                      /\ t.execs[t.execs[e].by].announced
                      /\ t.execs[t.execs[e].by].startedSeq > t.execs[e].startedSeq
      <4>1. PICK k \in 1..N : e = <<n, R[k]>>
        BY <2>4, <3>1
      <4>2. t.execs[e].explicit
        BY <2>5, <4>1
      <4>3. ASSUME t.execs[e].status = "superseded"
            PROVE  /\ t.execs[t.execs[e].by].announced
                   /\ t.execs[t.execs[e].by].startedSeq > t.execs[e].startedSeq
        <5>1. k < N
          BY <2>5, <2>7, <2>9, <4>1, <4>3
        <5> DEFINE j == k + 1
        <5>2. j \in 1..N /\ k < j
          BY <2>2, <5>1
        <5>3. t.execs[e].by = <<n, R[j]>>
          BY <2>5, <4>1, <5>1
        <5> HIDE DEF j
        <5>4. t.execs[<<n, R[j]>>].announced /\ t.execs[<<n, R[k]>>].startedSeq < t.execs[<<n, R[j]>>].startedSeq
          BY <2>4, <2>5, <5>2
        <5>5. t.execs[e].startedSeq < t.execs[t.execs[e].by].startedSeq /\ t.execs[t.execs[e].by].announced
          BY <4>1, <5>3, <5>4
        <5> QED  BY <5>5
      <4> QED  BY <4>2, <4>3
    <3>2. LifecycleOK(t)
      BY <3>1 DEF LifecycleOK
    <3> QED  BY <2>4, <3>2 DEF AuditableTask
  <2>13. execs = {e \in Executions : t.execs[e].announced}
    BY <2>4, <2>5, <2>6, <2>8
  <2>14. ASSUME NEW e \in execs \ last PROVE date[Sha(e)] <= date[Sha(t.execs[e].by)]
    <3>1. PICK k \in 1..N : e = <<n, R[k]>>
      BY <2>6
    <3>2. k < N
      BY <2>7, <2>10, <3>1
    <3> DEFINE j == k + 1
    <3>3. j \in 1..N /\ k < j
      BY <2>2, <3>2
    <3>4. t.execs[e].by = <<n, R[j]>>
      BY <2>5, <3>1, <3>2
    <3> HIDE DEF j
    <3>5. date[R[k]] <= date[R[j]]
      BY <2>3, <3>3
    <3>6. Sha(e) = R[k] /\ Sha(t.execs[e].by) = R[j]
      BY <3>1, <3>4 DEF Sha
    <3> QED  BY <3>5, <3>6
  <2>15. ASSUME NEW e \in last
         PROVE  t.execs[e].status = CASE p.merged # 0 -> "completed"
                                      [] p.merged = 0 /\ p.closed # 0 -> "aborted"
                                      [] OTHER -> "running"
    <3>1. e = <<n, R[N]>>
      BY <2>10
    <3>2. /\ p.closed # 0 => t.execs[e].status = TerminalStatus(p)
          /\ p.closed = 0 => t.execs[e].status = "running"
      BY <2>5, <2>7, <3>1
    <3> QED  BY <2>2, <2>9, <3>2
  <2>16. Outcome(t) = CASE p.merged # 0 -> "accepted"
                        [] p.merged = 0 /\ p.closed # 0 -> "failed"
                        [] OTHER -> "unresolved"
    BY <2>4
  <2> HIDE DEF last
  <2> QED  BY <2>11, <2>12, <2>13, <2>14, <2>15, <2>16 DEF t, p, execs, last
<1> QED  BY <1>1, <1>2, <1>3, PTL DEF Spec

-----------------------------------------------------------------------------
(* How the ledger tells the history of a pull request, sweep by sweep. *)

(* An execution that starts, or finishes, is a revision of an agentic pull *)
(* request, and the id of its event says at which place it was.            *)
LEMMA PlaceNamed ==
  ASSUME NEW l, Ledger(l), NEW n, NEW e, NEW i
  PROVE  /\ StartedAt(l, n, e, i) => \E j \in Nat, s \in Revisions :
              n \in Agentic /\ e = <<n, s>> /\ l[i].id = StartId(n, j, s) /\ StartId(n, j, s) \in Ids(l)
         /\ FinishedAt(l, n, e, i) => \E j \in Nat, s \in Revisions :
              n \in Agentic /\ e = <<n, s>> /\ l[i].id = FinishId(n, j, s) /\ FinishId(n, j, s) \in Ids(l)
<1>1. ASSUME i \in 1..Len(l) PROVE Made(l[i]) /\ l[i].id \in Ids(l)
  BY <1>1 DEF Ledger, Ids
<1>2. ASSUME StartedAt(l, n, e, i) PROVE \E j \in Nat, s \in Revisions :
              n \in Agentic /\ e = <<n, s>> /\ l[i].id = StartId(n, j, s) /\ StartId(n, j, s) \in Ids(l)
  <2> DEFINE r == l[i]
  <2>1. Made(r) /\ r.id \in Ids(l) /\ r.ev.type = "execution_started" /\ r.ev.task = n /\ r.ev.exec = e
    BY <1>1, <1>2 DEF StartedAt
  <2> HIDE DEF r
  <2>2. PICK j \in Nat, s \in Revisions : r.id = StartId(r.ev.task, j, s) /\ r.ev.exec = <<r.ev.task, s>>
    BY <2>1 DEF Made, Honest
  <2>3. n \in Agentic /\ e = <<n, s>> /\ r.id = StartId(n, j, s) /\ StartId(n, j, s) \in Ids(l)
    BY <2>1, <2>2 DEF Made
  <2> QED  BY <2>3 DEF r
<1>3. ASSUME FinishedAt(l, n, e, i) PROVE \E j \in Nat, s \in Revisions :
              n \in Agentic /\ e = <<n, s>> /\ l[i].id = FinishId(n, j, s) /\ FinishId(n, j, s) \in Ids(l)
  <2> DEFINE r == l[i]
  <2>1. Made(r) /\ r.id \in Ids(l) /\ r.ev.type = "execution_finished" /\ r.ev.task = n /\ r.ev.exec = e
    BY <1>1, <1>3 DEF FinishedAt
  <2> HIDE DEF r
  <2>2. PICK j \in Nat, s \in Revisions : r.id = FinishId(r.ev.task, j, s) /\ r.ev.exec = <<r.ev.task, s>>
    BY <2>1 DEF Made, Honest
  <2>3. n \in Agentic /\ e = <<n, s>> /\ r.id = FinishId(n, j, s) /\ FinishId(n, j, s) \in Ids(l)
    BY <2>1, <2>2 DEF Made
  <2> QED  BY <2>3 DEF r
<1> QED  BY <1>2, <1>3

(* Place i of m holds a start, or a finish, that the ledger did not store. *)
NewStart(m, n, e, i) ==
  /\ i \in Added(log, m) /\ n \in Opened \cap Agentic
  /\ \E k \in 1..Size(n) : /\ e = <<n, Rev(n, k)>> /\ StartRecord(m[i], n, k) /\ m[i] \in AuditSet
                           /\ StartId(n, k, Rev(n, k)) \notin Ids(log)
NewFinish(m, n, e, i) ==
  /\ i \in Added(log, m) /\ n \in Opened \cap Agentic
  /\ \E k \in 1..Size(n) : /\ e = <<n, Rev(n, k)>> /\ FinishRecord(m[i], n, k) /\ m[i] \in AuditSet
                           /\ FinishId(n, k, Rev(n, k)) \notin Ids(log)

(* A sweep adds starts and finishes of the revisions there are. *)
LEMMA SweepAdds ==
  ASSUME Core, NEW m, Extends(log, m, AuditSet), NEW n \in Tasks, NEW e, NEW i
  PROVE  /\ StartedAt(m, n, e, i) <=> StartedAt(log, n, e, i) \/ (StartedAt(m, n, e, i) /\ NewStart(m, n, e, i))
         /\ FinishedAt(m, n, e, i) <=> FinishedAt(log, n, e, i) \/ (FinishedAt(m, n, e, i) /\ NewFinish(m, n, e, i))
         /\ StartedAt(log, n, e, i) \/ FinishedAt(log, n, e, i) => m[i] = log[i]
<1>1. /\ i \in 1..Len(m) => i \in 1..Len(log) \/ i \in Added(log, m)
      /\ i \in 1..Len(log) => i \in 1..Len(m) /\ m[i] = log[i]
      /\ i \in Added(log, m) => m[i] \in AuditSet /\ m[i].id \notin Ids(log)
  BY DEF Extends, Added
<1>2. ASSUME StartedAt(m, n, e, i), i \in Added(log, m) PROVE NewStart(m, n, e, i)
  <2> DEFINE r == m[i]
  <2>1. r \in AuditSet /\ r.ev.type = "execution_started" /\ r.ev.task = n /\ r.ev.exec = e /\ r.id \notin Ids(log)
    BY <1>1, <1>2 DEF StartedAt
  <2> HIDE DEF r
  <2>2. n \in Opened \cap Agentic /\ \E k \in 1..Size(n) : StartRecord(r, n, k)
    BY <2>1, AuditOnlyTells
  <2> QED  BY <1>2, <2>1, <2>2 DEF NewStart, StartRecord, r
<1>3. ASSUME FinishedAt(m, n, e, i), i \in Added(log, m) PROVE NewFinish(m, n, e, i)
  <2> DEFINE r == m[i]
  <2>1. r \in AuditSet /\ r.ev.type = "execution_finished" /\ r.ev.task = n /\ r.ev.exec = e /\ r.id \notin Ids(log)
    BY <1>1, <1>3 DEF FinishedAt
  <2> HIDE DEF r
  <2>2. n \in Opened \cap Agentic /\ \E k \in 1..Size(n) : FinishRecord(r, n, k)
    BY <2>1, AuditOnlyTells
  <2> QED  BY <1>3, <2>1, <2>2 DEF NewFinish, FinishRecord, r
<1>4. ASSUME i \in 1..Len(log)
      PROVE  /\ StartedAt(m, n, e, i) <=> StartedAt(log, n, e, i)
             /\ FinishedAt(m, n, e, i) <=> FinishedAt(log, n, e, i)
  BY <1>1, <1>4 DEF StartedAt, FinishedAt
<1>5. /\ StartedAt(log, n, e, i) \/ FinishedAt(log, n, e, i) => i \in 1..Len(log)
      /\ StartedAt(m, n, e, i) \/ FinishedAt(m, n, e, i) => i \in 1..Len(m)
  BY DEF StartedAt, FinishedAt
<1> QED  BY <1>1, <1>2, <1>3, <1>4, <1>5, Zenon

(* Some start of g is after every start of s. *)
Before(l, n, s, g) ==
  \E b : StartedAt(l, n, <<n, g>>, b) /\ \A a : StartedAt(l, n, <<n, s>>, a) => a < b

(* What is stored of a revision has been listed. *)
OnlyListed(l, n) ==
  \A i, s : StartId(n, i, s) \in Ids(l) \/ FinishId(n, i, s) \in Ids(l) => s \in listed[n]

(* A finish is stored with the start of the same place. *)
StartedFirst(l, n) ==
  \A i, s : FinishId(n, i, s) \in Ids(l) => StartId(n, i, s) \in Ids(l)

(* The last revision has never been replaced. *)
HeadStands(l, n) ==
  \A k \in 1..Size(n) : \A i :
    FinishedAt(l, n, <<n, Rev(n, k)>>, i) /\ l[i].ev.status = "superseded" => k # Size(n)

(* A revision has only ever gained places, or only lost them. *)
KeepsSide(l, n) ==
  \A k \in 1..Size(n), i \in Nat : StartId(n, i, Rev(n, k)) \in Ids(l) =>
    (OnlyGrowing => i <= k) /\ (~OnlyGrowing => i >= k)

(* What is stored at its present place was started behind all before it.   *)
InLine(l, n) ==
  \A j, k \in 1..Size(n) : j < k /\ StartId(n, k, Rev(n, k)) \in Ids(l) =>
    StartId(n, j, Rev(n, j)) \in Ids(l) /\ Before(l, n, Rev(n, j), Rev(n, k))

(* The last finish of a revision, if it replaces it, does so by one that   *)
(* was started behind it.                                                  *)
LastFinish(l, n, e, i) == FinishedAt(l, n, e, i) /\ \A j : FinishedAt(l, n, e, j) => j <= i
Overtaken(l, n) ==
  \A s, i : LastFinish(l, n, <<n, s>>, i) /\ l[i].ev.status = "superseded" =>
    \E g : l[i].ev.by = <<n, g>> /\ Before(l, n, s, g)

Storied(l, n) ==
  /\ OnlyListed(l, n) /\ StartedFirst(l, n) /\ HeadStands(l, n)
  /\ KeepsSide(l, n) /\ InLine(l, n) /\ Overtaken(l, n)

(* The moves of the repository keep that. *)
LEMMA StoryMoves ==
  ASSUME Core, Ledger(log), log' = log, scenario' = scenario, NEW n \in Tasks, Shifts(n), Storied(log, n)
  PROVE  Storied(log, n)'
<1>1. OnlyGrowing' = OnlyGrowing
  BY DEF OnlyGrowing
<1>2. OnlyListed(log, n)'
  BY DEF Storied, OnlyListed, Shifts
<1>3. StartedFirst(log, n)' /\ Overtaken(log, n)'
  <2>1. StartedFirst(log, n)'
    BY DEF Storied, StartedFirst, Ids, StartId, FinishId
  <2>2. ASSUME NEW s, NEW g PROVE Before(log, n, s, g)' <=> Before(log, n, s, g)
    BY DEF Before, StartedAt
  <2>3. ASSUME NEW s, NEW i PROVE LastFinish(log, n, <<n, s>>, i)' <=> LastFinish(log, n, <<n, s>>, i)
    BY DEF LastFinish, FinishedAt
  <2>4. ASSUME NEW s, NEW i, LastFinish(log, n, <<n, s>>, i)', (log[i].ev.status = "superseded")'
        PROVE  \E g : (log[i].ev.by = <<n, g>>)' /\ Before(log, n, s, g)'
    <3>1. LastFinish(log, n, <<n, s>>, i) /\ log[i].ev.status = "superseded"
      BY <2>3, <2>4
    <3>2. PICK g : log[i].ev.by = <<n, g>> /\ Before(log, n, s, g)
      BY <3>1, Zenon DEF Storied, Overtaken
    <3>3. Before(log, n, s, g)'
      BY <2>2, <3>2
    <3> QED  BY <3>2, <3>3
  <2>5. Overtaken(log, n)'
    BY <2>4, Zenon DEF Overtaken
  <2> QED  BY <2>1, <2>5
<1>4. ASSUME NEW k \in 1..Size(n)', NEW i, FinishedAt(log, n, <<n, Rev(n, k)'>>, i), log[i].ev.status = "superseded"
      PROVE  k # Size(n)'
  <2> DEFINE s == Rev(n, k)'
  <2>1. PICK j, z : <<n, s>> = <<n, z>> /\ FinishId(n, j, z) \in Ids(log)
    BY <1>4, PlaceNamed
  <2>2. s \in listed[n]
    BY <2>1 DEF Storied, OnlyListed
  <2>3. PICK h \in 1..Size(n) : Shifted(n, k, h)
    BY <2>2 DEF Shifts
  <2>4. h # Size(n)
    BY <1>4, <2>3 DEF Storied, HeadStands, Shifted
  <2> QED  BY <2>3, <2>4 DEF Shifted
<1>5. HeadStands(log, n)'
  BY <1>4 DEF HeadStands, FinishedAt
<1>6. ASSUME NEW k \in 1..Size(n)', NEW i \in Nat, StartId(n, i, Rev(n, k)') \in Ids(log)
      PROVE  \E h \in 1..Size(n) : Shifted(n, k, h) /\ StartId(n, i, Rev(n, h)) \in Ids(log)
  <2>1. Rev(n, k)' \in listed[n]
    BY <1>6 DEF Storied, OnlyListed
  <2>2. PICK h \in 1..Size(n) : Shifted(n, k, h)
    BY <2>1 DEF Shifts
  <2> QED  BY <1>6, <2>2 DEF Shifted
<1>7. Size(n) \in Nat
  BY ChronologyHolds DEF Chronology
<1>8. ASSUME NEW k \in 1..Size(n)', NEW i \in Nat, StartId(n, i, Rev(n, k)') \in Ids(log)
      PROVE  (OnlyGrowing => i <= k) /\ (~OnlyGrowing => i >= k)
  <2>1. PICK h \in 1..Size(n) : Shifted(n, k, h) /\ StartId(n, i, Rev(n, h)) \in Ids(log)
    BY <1>6, <1>8
  <2>2. (OnlyGrowing => i <= h) /\ (~OnlyGrowing => i >= h)
    BY <2>1 DEF Storied, KeepsSide
  <2>3. (OnlyGrowing => h <= k) /\ (~OnlyGrowing => h >= k)
    BY <2>1 DEF Shifted
  <2>4. k \in Nat /\ h \in Nat
    BY <1>7
  <2> QED  BY <2>2, <2>3, <2>4
<1>9. KeepsSide(log, n)'
  BY <1>1, <1>8 DEF KeepsSide, Ids, StartId
<1>10. ASSUME NEW j \in 1..Size(n)', NEW k \in 1..Size(n)', j < k, StartId(n, k, Rev(n, k)') \in Ids(log)
       PROVE  StartId(n, j, Rev(n, j)') \in Ids(log) /\ Before(log, n, Rev(n, j)', Rev(n, k)')
  <2>0. k \in Nat /\ j \in Nat /\ j > 0
    OBVIOUS
  <2>1. PICK h \in 1..Size(n) : Shifted(n, k, h) /\ StartId(n, k, Rev(n, h)) \in Ids(log)
    BY <1>6, <1>10, <2>0
  <2>2. (OnlyGrowing => k <= h) /\ (~OnlyGrowing => k >= h)
    BY <2>0, <2>1 DEF Storied, KeepsSide
  <2>3. (OnlyGrowing => h <= k) /\ (~OnlyGrowing => h >= k)
    BY <2>1 DEF Shifted
  <2>4. h = k
    BY <1>7, <2>0, <2>2, <2>3
  <2>5. j \in 1..Size(n) /\ k \in 1..Size(n) /\ j \in 1..k
    BY <1>7, <1>10, <2>0, <2>4
  <2>6. Rev(n, j)' = Rev(n, j) /\ Rev(n, k)' = Rev(n, k)
    BY <2>1, <2>4, <2>5 DEF Shifted
  <2>7. StartId(n, j, Rev(n, j)) \in Ids(log) /\ Before(log, n, Rev(n, j), Rev(n, k))
    BY <1>10, <2>1, <2>4, <2>5 DEF Storied, InLine
  <2> QED  BY <2>6, <2>7
<1>11. InLine(log, n)'
  <2>1. ASSUME NEW j \in 1..Size(n)', NEW k \in 1..Size(n)', j < k, (StartId(n, k, Rev(n, k)) \in Ids(log))'
        PROVE  (StartId(n, j, Rev(n, j)) \in Ids(log))' /\ Before(log, n, Rev(n, j), Rev(n, k))'
    <3>1. StartId(n, k, Rev(n, k)') \in Ids(log)
      BY <2>1 DEF StartId, Ids
    <3>2. StartId(n, j, Rev(n, j)') \in Ids(log) /\ Before(log, n, Rev(n, j)', Rev(n, k)')
      BY <1>10, <2>1, <3>1
    <3>3. (StartId(n, j, Rev(n, j)) \in Ids(log))'
      BY <3>2 DEF StartId, Ids
    <3>4. Before(log, n, Rev(n, j), Rev(n, k))'
      BY <3>2 DEF Before, StartedAt
    <3> QED  BY <3>3, <3>4
  <2> QED  BY <2>1 DEF InLine
<1> QED  BY <1>2, <1>3, <1>5, <1>9, <1>11 DEF Storied

(* Revision s of pull request n is shown at place i. *)
Shown(n, i, s) == n \in Opened \cap Agentic /\ i \in 1..Size(n) /\ s = Rev(n, i)

(* After a sweep into m: ids that are stored now were, or are of what is   *)
(* shown; and what is shown is stored.                                     *)
SweptIds(m, n) ==
  /\ Ids(log) \subseteq Ids(m)
  /\ \A i, s : StartId(n, i, s) \in Ids(m) => StartId(n, i, s) \in Ids(log) \/ Shown(n, i, s)
  /\ \A i, s : FinishId(n, i, s) \in Ids(m) => FinishId(n, i, s) \in Ids(log) \/ Shown(n, i, s)
  /\ \A i, s : Shown(n, i, s) => StartId(n, i, s) \in Ids(m)
  /\ \A i, s : Shown(n, i, s) /\ i < Size(n) => FinishId(n, i, s) \in Ids(m)

Sweeps(m) ==
  Core /\ Ledger(log) /\ Ledger(m) /\ Extends(log, m, AuditSet) /\ \A r \in AuditSet : r.id \in Ids(m)

(* A sweep stores the ids of what it shows, and no others. *)
LEMMA SweepStores ==
  ASSUME NEW m, Sweeps(m), NEW n \in Tasks
  PROVE  SweptIds(m, n)
<1>1. Core /\ Ledger(log) /\ Ledger(m) /\ Extends(log, m, AuditSet) /\ \A r \in AuditSet : r.id \in Ids(m)
  BY DEF Sweeps
<1>2. /\ DOMAIN m = 1..Len(m) /\ DOMAIN log = 1..Len(log) /\ Len(log) <= Len(m)
      /\ Len(m) \in Nat /\ Len(log) \in Nat /\ \A x \in 1..Len(log) : m[x] = log[x]
  BY <1>1 DEF Extends
<1>3. Ids(log) \subseteq Ids(m)
  BY <1>2 DEF Ids
<1>4. ASSUME NEW i, NEW s, StartId(n, i, s) \in Ids(m) PROVE StartId(n, i, s) \in Ids(log) \/ Shown(n, i, s)
  <2>1. PICK x \in 1..Len(m) : m[x].id = StartId(n, i, s)
    BY <1>2, <1>4 DEF Ids
  <2> DEFINE e == <<n, s>>
  <2>2. StartedAt(m, n, e, x)
    BY <1>1, <2>1, StoredEvents
  <2>3. CASE StartedAt(log, n, e, x)
    <3>1. m[x] = log[x] /\ x \in 1..Len(log)
      BY <1>2, <2>3 DEF StartedAt
    <3> QED  BY <1>2, <2>1, <3>1 DEF Ids
  <2>4. CASE NewStart(m, n, e, x)
    <3>1. PICK k \in 1..Size(n) : e = <<n, Rev(n, k)>> /\ m[x].id = StartId(n, k, Rev(n, k))
      BY <2>4 DEF NewStart, StartRecord
    <3>2. k = i /\ s = Rev(n, k)
      BY <2>1, <3>1 DEF StartId
    <3> QED  BY <2>4, <3>2 DEF NewStart, Shown
  <2>5. StartedAt(log, n, e, x) \/ NewStart(m, n, e, x)
    <3> HIDE DEF e
    <3> QED  BY <1>1, <2>2, SweepAdds
  <2> QED  BY <2>3, <2>4, <2>5
<1>5. ASSUME NEW i, NEW s, FinishId(n, i, s) \in Ids(m) PROVE FinishId(n, i, s) \in Ids(log) \/ Shown(n, i, s)
  <2>1. PICK x \in 1..Len(m) : m[x].id = FinishId(n, i, s)
    BY <1>2, <1>5 DEF Ids
  <2> DEFINE e == <<n, s>>
  <2>2. FinishedAt(m, n, e, x)
    BY <1>1, <2>1, StoredEvents
  <2>3. CASE FinishedAt(log, n, e, x)
    <3>1. m[x] = log[x] /\ x \in 1..Len(log)
      BY <1>2, <2>3 DEF FinishedAt
    <3> QED  BY <1>2, <2>1, <3>1 DEF Ids
  <2>4. CASE NewFinish(m, n, e, x)
    <3>1. PICK k \in 1..Size(n) : e = <<n, Rev(n, k)>> /\ m[x].id = FinishId(n, k, Rev(n, k))
      BY <2>4 DEF NewFinish, FinishRecord
    <3>2. k = i /\ s = Rev(n, k)
      BY <2>1, <3>1 DEF FinishId
    <3> QED  BY <2>4, <3>2 DEF NewFinish, Shown
  <2>5. FinishedAt(log, n, e, x) \/ NewFinish(m, n, e, x)
    <3> HIDE DEF e
    <3> QED  BY <1>1, <2>2, SweepAdds
  <2> QED  BY <2>3, <2>4, <2>5
<1>6. ASSUME NEW i, NEW s, Shown(n, i, s)
      PROVE  StartId(n, i, s) \in Ids(m) /\ (i < Size(n) => FinishId(n, i, s) \in Ids(m))
  <2>1. n \in Opened \cap Agentic /\ i \in 1..Size(n) /\ s = Rev(n, i)
    BY <1>6 DEF Shown
  <2>2. PICK r \in AuditSet : StartRecord(r, n, i)
    BY <1>1, <2>1, AuditTells
  <2>3. i < Size(n) => \E q \in AuditSet : FinishRecord(q, n, i)
    BY <1>1, <2>1, AuditTells
  <2> QED  BY <1>1, <2>1, <2>2, <2>3 DEF StartRecord, FinishRecord
<1> QED  BY <1>3, <1>4, <1>5, <1>6 DEF SweptIds

(* A start, or finish, at a place behind the ledger is a new one of what   *)
(* is shown; one within it was there.                                      *)
LEMMA SweptPlaces ==
  ASSUME NEW m, Sweeps(m), NEW n \in Tasks, NEW k \in 1..Size(n), NEW i
  PROVE  /\ StartedAt(m, n, <<n, Rev(n, k)>>, i) =>
              \/ StartedAt(log, n, <<n, Rev(n, k)>>, i) /\ i <= Len(log)
              \/ /\ i > Len(log) /\ i \in Added(log, m) /\ n \in Opened \cap Agentic
                 /\ m[i] \in AuditSet /\ StartRecord(m[i], n, k)
                 /\ StartId(n, k, Rev(n, k)) \notin Ids(log)
         /\ FinishedAt(m, n, <<n, Rev(n, k)>>, i) =>
              \/ FinishedAt(log, n, <<n, Rev(n, k)>>, i) /\ m[i] = log[i]
              \/ /\ i > Len(log) /\ n \in Opened \cap Agentic
                 /\ FinishRecord(m[i], n, k)
<1>1. Core /\ Extends(log, m, AuditSet)
  BY DEF Sweeps
<1>2. \A h \in 1..Size(n) : Rev(n, h) = Rev(n, k) => h = k
  BY <1>1, ChronologyHolds DEF Chronology
<1>3. Len(log) \in Nat /\ Len(m) \in Nat
  BY <1>1 DEF Extends
<1> DEFINE e == <<n, Rev(n, k)>>
<1>4. /\ StartedAt(m, n, e, i) => StartedAt(log, n, e, i) \/ NewStart(m, n, e, i)
      /\ FinishedAt(m, n, e, i) => FinishedAt(log, n, e, i) \/ NewFinish(m, n, e, i)
      /\ FinishedAt(log, n, e, i) => m[i] = log[i]
  <2> HIDE DEF e
  <2> QED  BY <1>1, SweepAdds
<1>5. i \in Added(log, m) => i > Len(log)
  BY <1>3 DEF Added
<1>6. StartedAt(log, n, e, i) => i <= Len(log)
  BY <1>3 DEF StartedAt
<1>7. ASSUME NewStart(m, n, e, i)
      PROVE  /\ i \in Added(log, m) /\ n \in Opened \cap Agentic
             /\ m[i] \in AuditSet /\ StartRecord(m[i], n, k)
             /\ StartId(n, k, Rev(n, k)) \notin Ids(log)
  BY <1>2, <1>7 DEF NewStart
<1>8. ASSUME NewFinish(m, n, e, i)
      PROVE  i \in Added(log, m) /\ n \in Opened \cap Agentic /\ FinishRecord(m[i], n, k)
  BY <1>2, <1>8 DEF NewFinish
<1> QED  BY <1>4, <1>5, <1>6, <1>7, <1>8

(* A sweep keeps the starts in line. *)
LEMMA LineSwept ==
  ASSUME NEW m, Sweeps(m), NEW n \in Tasks, InLine(log, n)
  PROVE  InLine(m, n)
<1>1. SweptIds(m, n) /\ Core /\ Ledger(m) /\ Extends(log, m, AuditSet)
  BY SweepStores DEF Sweeps
<1>2. /\ DOMAIN m = 1..Len(m) /\ Len(log) <= Len(m) /\ Len(m) \in Nat /\ Len(log) \in Nat
      /\ \A x \in 1..Len(log) : m[x] = log[x]
      /\ DOMAIN log = 1..Len(log)
      /\ \A i, j \in Added(log, m) : i < j <=> <<m[i], m[j]>> \in InOrder(AuditSet)
  BY <1>1 DEF Extends
<1> SUFFICES ASSUME NEW j \in 1..Size(n), NEW k \in 1..Size(n), j < k, StartId(n, k, Rev(n, k)) \in Ids(m)
             PROVE  StartId(n, j, Rev(n, j)) \in Ids(m) /\ Before(m, n, Rev(n, j), Rev(n, k))
  BY DEF InLine
<1> DEFINE e == <<n, Rev(n, k)>>
           d == <<n, Rev(n, j)>>
<1>3. CASE StartId(n, k, Rev(n, k)) \in Ids(log)
  <2>1. StartId(n, j, Rev(n, j)) \in Ids(log) /\ Before(log, n, Rev(n, j), Rev(n, k))
    BY <1>3 DEF InLine
  <2>2. PICK b : StartedAt(log, n, e, b) /\ \A a : StartedAt(log, n, d, a) => a < b
    BY <2>1, Zenon DEF Before
  <2>3. StartedAt(m, n, e, b)
    <3>1. b \in 1..Len(m) /\ m[b] = log[b]
      BY <1>2, <2>2 DEF StartedAt
    <3> QED  BY <2>2, <3>1 DEF StartedAt
  <2>4. ASSUME NEW a, StartedAt(m, n, d, a) PROVE a < b
    <3>1. StartedAt(log, n, d, a)
      BY <2>1, <2>4, SweptPlaces
    <3> QED  BY <2>2, <3>1
  <2>5. Before(m, n, Rev(n, j), Rev(n, k))
    BY <2>3, <2>4, Zenon DEF Before
  <2> QED  BY <1>1, <2>1, <2>5 DEF SweptIds
<1>4. CASE StartId(n, k, Rev(n, k)) \notin Ids(log)
  <2>1. Shown(n, k, Rev(n, k))
    BY <1>1, <1>4 DEF SweptIds
  <2>2. Shown(n, j, Rev(n, j))
    BY <2>1 DEF Shown
  <2>3. StartId(n, j, Rev(n, j)) \in Ids(m)
    BY <1>1, <2>2 DEF SweptIds
  <2>4. PICK b \in 1..Len(m) : m[b].id = StartId(n, k, Rev(n, k))
    BY <1>2 DEF Ids
  <2>5. StartedAt(m, n, e, b)
    BY <1>1, <2>4, StoredEvents
  <2>6. ~StartedAt(log, n, e, b)
    <3>1. SUFFICES ASSUME StartedAt(log, n, e, b) PROVE FALSE
      OBVIOUS
    <3>2. b \in DOMAIN log /\ log[b].id = StartId(n, k, Rev(n, k))
      BY <1>2, <2>4, <3>1 DEF StartedAt
    <3> QED  BY <1>4, <3>2 DEF Ids
  <2>7. b > Len(log) /\ b \in Added(log, m) /\ m[b] \in AuditSet /\ StartRecord(m[b], n, k)
    BY <2>5, <2>6, SweptPlaces
  <2>8. ASSUME NEW a, StartedAt(m, n, d, a) PROVE a < b
    <3>1. CASE StartedAt(log, n, d, a)
      <4>1. a \in 1..Len(log) /\ b \in 1..Len(m)
        BY <3>1 DEF StartedAt
      <4> QED  BY <1>2, <2>7, <4>1
    <3>2. CASE ~StartedAt(log, n, d, a)
      <4>1. a \in Added(log, m) /\ m[a] \in AuditSet /\ StartRecord(m[a], n, j)
        BY <2>8, <3>2, SweptPlaces
      <4>2. <<m[a], m[b]>> \in InOrder(AuditSet)
        BY <1>1, <2>7, <4>1, StartsInOrder
      <4> QED  BY <1>2, <2>7, <4>1, <4>2
    <3> QED  BY <3>1, <3>2
  <2>9. Before(m, n, Rev(n, j), Rev(n, k))
    BY <2>5, <2>8, Zenon DEF Before
  <2> QED  BY <2>3, <2>9
<1> QED  BY <1>3, <1>4

(* A sweep keeps what is replaced for good overtaken: it starts no such    *)
(* revision again.                                                         *)
LEMMA OvertakenSwept ==
  ASSUME NEW m, Sweeps(m), NEW n \in Tasks, Storied(log, n)
  PROVE  Overtaken(m, n)
<1>1. SweptIds(m, n) /\ Core /\ Ledger(log) /\ Ledger(m) /\ Extends(log, m, AuditSet) /\ InLine(m, n)
  BY SweepStores, LineSwept DEF Sweeps, Storied
<1>2. /\ DOMAIN m = 1..Len(m) /\ Len(log) <= Len(m) /\ Len(m) \in Nat /\ Len(log) \in Nat
      /\ DOMAIN log = 1..Len(log)
      /\ \A x \in 1..Len(log) : m[x] = log[x]
  BY <1>1 DEF Extends
<1>3. Size(n) \in Nat
  BY <1>1, ChronologyHolds DEF Chronology
<1>4. TerminalStatus(pulls[n]) # "superseded"
  BY DEF TerminalStatus
<1> SUFFICES ASSUME NEW s, NEW i, LastFinish(m, n, <<n, s>>, i), m[i].ev.status = "superseded"
             PROVE  \E g : m[i].ev.by = <<n, g>> /\ Before(m, n, s, g)
  BY Zenon DEF Overtaken
<1> DEFINE e == <<n, s>>
<1>5. FinishedAt(m, n, e, i) /\ \A j : FinishedAt(m, n, e, j) => j <= i
  BY Zenon DEF LastFinish
<1>6. FinishedAt(log, n, e, i) \/ NewFinish(m, n, e, i)
  <2> HIDE DEF e
  <2> QED  BY <1>1, <1>5, SweepAdds
<1>7. CASE NewFinish(m, n, e, i)
  <2>1. PICK k \in 1..Size(n) : s = Rev(n, k) /\ FinishRecord(m[i], n, k) /\ n \in Opened \cap Agentic
    BY <1>7 DEF NewFinish
  <2>2. k < Size(n)
    BY <1>3, <1>4, <2>1 DEF FinishRecord
  <2> DEFINE h == k + 1
  <2>3. h \in 1..Size(n) /\ k < h
    BY <1>3, <2>2
  <2>4. m[i].ev.by = <<n, Rev(n, h)>>
    BY <2>1, <2>2 DEF FinishRecord
  <2> HIDE DEF h
  <2>5. StartId(n, h, Rev(n, h)) \in Ids(m)
    BY <1>1, <2>1, <2>3 DEF SweptIds, Shown
  <2>6. Before(m, n, Rev(n, k), Rev(n, h))
    BY <1>1, <2>3, <2>5 DEF InLine
  <2> QED  BY <2>1, <2>4, <2>6
<1>8. CASE FinishedAt(log, n, e, i)
  <2>1. i \in 1..Len(log) /\ m[i] = log[i]
    BY <1>2, <1>8 DEF FinishedAt
  <2>2. ASSUME NEW j, FinishedAt(log, n, e, j) PROVE j <= i
    <3>1. FinishedAt(m, n, e, j)
      <4>1. j \in 1..Len(m) /\ m[j] = log[j]
        BY <1>2, <2>2 DEF FinishedAt
      <4> QED  BY <2>2, <4>1 DEF FinishedAt
    <3> QED  BY <1>5, <3>1
  <2>3. LastFinish(log, n, e, i)
    BY <1>8, <2>2, Zenon DEF LastFinish
  <2>4. PICK g : log[i].ev.by = <<n, g>> /\ Before(log, n, s, g)
    BY <2>1, <2>3, Zenon DEF Storied, Overtaken
  <2>5. PICK b : StartedAt(log, n, <<n, g>>, b) /\ \A a : StartedAt(log, n, e, a) => a < b
    BY <2>4, Zenon DEF Before
  <2>6. StartedAt(m, n, <<n, g>>, b)
    <3>1. b \in 1..Len(m) /\ m[b] = log[b]
      BY <1>2, <2>5 DEF StartedAt
    <3> QED  BY <2>5, <3>1 DEF StartedAt
  <2>7. ASSUME NEW a, NewStart(m, n, e, a) PROVE FALSE
    <3>1. PICK k \in 1..Size(n) : s = Rev(n, k) /\ StartId(n, k, s) \notin Ids(log) /\ n \in Opened \cap Agentic
      BY <2>7 DEF NewStart
    <3>2. k < Size(n)
      <4>1. log[i].ev.status = "superseded"
        BY <2>1
      <4>2. k # Size(n)
        BY <1>8, <3>1, <4>1 DEF Storied, HeadStands
      <4> QED  BY <1>3, <4>2
    <3>3. FinishId(n, k, s) \in Ids(m)
      BY <1>1, <3>1, <3>2 DEF SweptIds, Shown
    <3>4. FinishId(n, k, s) \notin Ids(log)
      BY <3>1 DEF Storied, StartedFirst
    <3>5. PICK c \in 1..Len(m) : m[c].id = FinishId(n, k, s)
      BY <1>2, <3>3 DEF Ids
    <3>6. FinishedAt(m, n, e, c)
      BY <1>1, <3>5, StoredEvents
    <3>7. c \notin 1..Len(log)
      BY <1>2, <3>4, <3>5 DEF Ids
    <3>8. c <= i
      BY <1>5, <3>6
    <3> QED  BY <1>2, <2>1, <3>5, <3>7, <3>8
  <2>8. ASSUME NEW a, StartedAt(m, n, e, a) PROVE a < b
    <3>1. StartedAt(log, n, e, a)
      <4>1. StartedAt(log, n, e, a) \/ NewStart(m, n, e, a)
        <5> HIDE DEF e
        <5> QED  BY <1>1, <2>8, SweepAdds
      <4> QED  BY <2>7, <4>1
    <3> QED  BY <2>5, <3>1
  <2>9. Before(m, n, s, g)
    BY <2>6, <2>8, Zenon DEF Before
  <2> QED  BY <2>1, <2>4, <2>9
<1> QED  BY <1>6, <1>7, <1>8

(* A sweep keeps the story of a pull request. *)
LEMMA StorySwept ==
  ASSUME NEW m, Sweeps(m), NEW n \in Tasks, Storied(log, n)
  PROVE  Storied(m, n)
<1>1. SweptIds(m, n) /\ Core /\ Chronology(n)
  BY SweepStores, ChronologyHolds DEF Sweeps
<1>2. OnlyListed(m, n)
  BY <1>1 DEF OnlyListed, SweptIds, Shown, Chronology, Storied
<1>3. StartedFirst(m, n)
  BY <1>1 DEF StartedFirst, SweptIds, Storied
<1>4. ASSUME NEW k \in 1..Size(n), NEW i, FinishedAt(m, n, <<n, Rev(n, k)>>, i), m[i].ev.status = "superseded"
      PROVE  k # Size(n)
  <2>1. CASE FinishedAt(log, n, <<n, Rev(n, k)>>, i) /\ m[i] = log[i]
    BY <1>4, <2>1 DEF Storied, HeadStands
  <2>2. CASE FinishRecord(m[i], n, k)
    BY <1>4, <2>2 DEF FinishRecord, TerminalStatus
  <2> QED  BY <1>4, <2>1, <2>2, SweptPlaces
<1>5. HeadStands(m, n)
  BY <1>4 DEF HeadStands
<1>6. ASSUME NEW k \in 1..Size(n), NEW i \in Nat, StartId(n, i, Rev(n, k)) \in Ids(m)
      PROVE  (OnlyGrowing => i <= k) /\ (~OnlyGrowing => i >= k)
  <2>1. CASE StartId(n, i, Rev(n, k)) \in Ids(log)
    BY <2>1 DEF Storied, KeepsSide
  <2>2. CASE Shown(n, i, Rev(n, k))
    <3>1. i = k
      BY <1>1, <2>2 DEF Shown, Chronology
    <3> QED  BY <3>1
  <2> QED  BY <1>1, <1>6, <2>1, <2>2 DEF SweptIds
<1>7. KeepsSide(m, n)
  BY <1>6 DEF KeepsSide
<1>8. InLine(m, n) /\ Overtaken(m, n)
  BY LineSwept, OvertakenSwept DEF Storied
<1> QED  BY <1>2, <1>3, <1>5, <1>7, <1>8 DEF Storied

(* A delivery starts and finishes nothing. *)
LEMMA StoryDelivered ==
  ASSUME NEW m, Ledger(m), NEW S, Extends(log, m, S),
         \A r \in S : r.ev.type \notin {"execution_started", "execution_finished"},
         NEW n \in Tasks, Storied(log, n)
  PROVE  Storied(m, n)
<1>1. /\ DOMAIN m = 1..Len(m) /\ Len(log) <= Len(m) /\ Len(m) \in Nat /\ Len(log) \in Nat
      /\ DOMAIN log = 1..Len(log)
      /\ \A x \in 1..Len(log) : m[x] = log[x]
      /\ \A x \in 1..Len(m) : x \in 1..Len(log) \/ x \in Added(log, m)
      /\ \A x \in Added(log, m) : m[x] \in S
  BY DEF Extends, Added
<1>2. \A x \in 1..Len(m) : m[x].ev.type \in {"execution_started", "execution_finished"} => x \in 1..Len(log)
  BY <1>1
<1>3. /\ \A e, i : StartedAt(m, n, e, i) <=> StartedAt(log, n, e, i)
      /\ \A e, i : FinishedAt(m, n, e, i) <=> FinishedAt(log, n, e, i)
      /\ \A e, i : FinishedAt(log, n, e, i) => m[i] = log[i]
  BY <1>1, <1>2 DEF StartedAt, FinishedAt
<1>4. ASSUME NEW i, NEW s
      PROVE  /\ StartId(n, i, s) \in Ids(m) <=> StartId(n, i, s) \in Ids(log)
             /\ FinishId(n, i, s) \in Ids(m) <=> FinishId(n, i, s) \in Ids(log)
  <2>1. Ids(log) \subseteq Ids(m)
    BY <1>1 DEF Ids
  <2>2. ASSUME StartId(n, i, s) \in Ids(m) PROVE StartId(n, i, s) \in Ids(log)
    <3>1. PICK x \in 1..Len(m) : m[x].id = StartId(n, i, s)
      BY <1>1, <2>2 DEF Ids
    <3>2. StartedAt(m, n, <<n, s>>, x)
      BY <3>1, StoredEvents
    <3>3. x \in 1..Len(log)
      BY <1>2, <3>2 DEF StartedAt
    <3> QED  BY <1>1, <3>1, <3>3 DEF Ids
  <2>3. ASSUME FinishId(n, i, s) \in Ids(m) PROVE FinishId(n, i, s) \in Ids(log)
    <3>1. PICK x \in 1..Len(m) : m[x].id = FinishId(n, i, s)
      BY <1>1, <2>3 DEF Ids
    <3>2. FinishedAt(m, n, <<n, s>>, x)
      BY <3>1, StoredEvents
    <3>3. x \in 1..Len(log)
      BY <1>2, <3>2 DEF FinishedAt
    <3> QED  BY <1>1, <3>1, <3>3 DEF Ids
  <2> QED  BY <2>1, <2>2, <2>3
<1>5. \A s, g : Before(m, n, s, g) <=> Before(log, n, s, g)
  BY <1>3, Zenon DEF Before
<1>6. \A e, i : LastFinish(m, n, e, i) <=> LastFinish(log, n, e, i)
  BY <1>3, Zenon DEF LastFinish
<1>7. OnlyListed(m, n) /\ StartedFirst(m, n)
  BY <1>4 DEF OnlyListed, StartedFirst, Storied
<1>8. HeadStands(m, n)
  BY <1>3 DEF HeadStands, Storied
<1>9. KeepsSide(m, n)
  BY <1>4 DEF KeepsSide, Storied
<1>10. InLine(m, n)
  BY <1>4, <1>5 DEF InLine, Storied
<1>11. ASSUME NEW s, NEW i, LastFinish(m, n, <<n, s>>, i), m[i].ev.status = "superseded"
       PROVE  \E g : m[i].ev.by = <<n, g>> /\ Before(m, n, s, g)
  <2>1. LastFinish(log, n, <<n, s>>, i)
    BY <1>6, <1>11
  <2>2. m[i] = log[i]
    BY <1>3, <2>1 DEF LastFinish
  <2>3. PICK g : log[i].ev.by = <<n, g>> /\ Before(log, n, s, g)
    BY <1>11, <2>1, <2>2, Zenon DEF Storied, Overtaken
  <2> QED  BY <1>5, <2>2, <2>3
<1>12. Overtaken(m, n)
  BY <1>11, Zenon DEF Overtaken
<1> QED  BY <1>7, <1>8, <1>9, <1>10, <1>12 DEF Storied

(* A step that only adds to the ledger leaves the rest of the story. *)
LEMMA StoryKept ==
  ASSUME NEW m, log' = m, scenario' = scenario, pulls' = pulls, listed' = listed, NEW n \in Tasks, Storied(m, n)
  PROVE  Storied(log, n)'
<1>1. /\ Size(n)' = Size(n) /\ OnlyGrowing' = OnlyGrowing /\ Ids(log)' = Ids(m)
      /\ \A k : Rev(n, k)' = Rev(n, k)
  BY DEF Size, Rev, Sorted, OnlyGrowing, Ids
<1>2. OnlyListed(log, n)' /\ StartedFirst(log, n)'
  <2>1. OnlyListed(m, n) /\ StartedFirst(m, n)
    BY DEF Storied
  <2> QED  BY <1>1, <2>1 DEF OnlyListed, StartedFirst, StartId, FinishId
<1>3. ASSUME NEW e, NEW i
      PROVE  /\ StartedAt(log, n, e, i)' <=> StartedAt(m, n, e, i)
             /\ FinishedAt(log, n, e, i)' <=> FinishedAt(m, n, e, i)
             /\ LastFinish(log, n, e, i)' <=> LastFinish(m, n, e, i)
  BY DEF LastFinish, StartedAt, FinishedAt
<1>4. ASSUME NEW s, NEW g PROVE Before(log, n, s, g)' <=> Before(m, n, s, g)
  BY DEF Before, StartedAt
<1>5. HeadStands(log, n)'
  <2>1. HeadStands(m, n)
    BY DEF Storied
  <2> QED  BY <1>1, <2>1 DEF HeadStands, FinishedAt
<1>6. KeepsSide(log, n)'
  <2>1. KeepsSide(m, n)
    BY DEF Storied
  <2> QED  BY <1>1, <2>1 DEF KeepsSide, StartId
<1>7. InLine(log, n)'
  <2>1. ASSUME NEW j \in 1..Size(n)', NEW k \in 1..Size(n)', j < k, (StartId(n, k, Rev(n, k)) \in Ids(log))'
        PROVE  (StartId(n, j, Rev(n, j)) \in Ids(log))' /\ Before(log, n, Rev(n, j), Rev(n, k))'
    <3>1. StartId(n, k, Rev(n, k)) \in Ids(m)
      BY <1>1, <2>1 DEF StartId
    <3>2. StartId(n, j, Rev(n, j)) \in Ids(m) /\ Before(m, n, Rev(n, j), Rev(n, k))
      BY <1>1, <2>1, <3>1 DEF Storied, InLine
    <3>3. (StartId(n, j, Rev(n, j)) \in Ids(log))'
      BY <1>1, <3>2 DEF StartId
    <3>4. Before(log, n, Rev(n, j), Rev(n, k))'
      BY <1>1, <3>2 DEF Before, StartedAt
    <3> QED  BY <3>3, <3>4
  <2> QED  BY <2>1 DEF InLine
<1>8. ASSUME NEW s, NEW i, LastFinish(log, n, <<n, s>>, i)', (log[i].ev.status = "superseded")'
      PROVE  \E g : (log[i].ev.by = <<n, g>>)' /\ Before(log, n, s, g)'
  <2>1. LastFinish(m, n, <<n, s>>, i) /\ m[i].ev.status = "superseded"
    BY <1>3, <1>8
  <2>2. PICK g : m[i].ev.by = <<n, g>> /\ Before(m, n, s, g)
    BY <2>1, Zenon DEF Storied, Overtaken
  <2>3. Before(log, n, s, g)'
    BY <1>4, <2>2
  <2> QED  BY <2>2, <2>3
<1>9. Overtaken(log, n)'
  BY <1>8, Zenon DEF Overtaken
<1> QED  BY <1>2, <1>5, <1>6, <1>7, <1>9 DEF Storied

(* In an orderly history the ledger tells the story of every pull request. *)
Stories == Orderly => \A n \in Tasks : Storied(log, n)

(* Stories holds of the empty ledger. *)
LEMMA StoriesInit ==
  ASSUME Init
  PROVE  Stories
<1>1. log = <<>> /\ Ids(log) = {} /\ 1..Len(log) = {}
  BY DEF Init, Ids
<1> SUFFICES ASSUME NEW n \in Tasks PROVE Storied(log, n)
  BY DEF Stories
<1>2. \A e, i : ~StartedAt(log, n, e, i) /\ ~FinishedAt(log, n, e, i)
  BY <1>1 DEF StartedAt, FinishedAt
<1>3. OnlyListed(log, n) /\ StartedFirst(log, n) /\ KeepsSide(log, n) /\ InLine(log, n)
  BY <1>1 DEF OnlyListed, StartedFirst, KeepsSide, InLine
<1>4. HeadStands(log, n) /\ Overtaken(log, n)
  BY <1>2 DEF HeadStands, Overtaken, LastFinish
<1> QED  BY <1>3, <1>4 DEF Storied

(* Stories is inductive. *)
LEMMA StoriesStep ==
  ASSUME Books, Stories, [Next]_vars
  PROVE  Stories'
<1> SUFFICES ASSUME Orderly', NEW n \in Tasks PROVE Storied(log, n)'
  BY DEF Stories
<1>1. Core /\ Ledger(log)
  BY DEF Books
<1>2. CASE PullStep \/ CiStep
  <2>1. Moves /\ Core'
    BY <1>1, <1>2, RepositoryStep
  <2>2. log' = log /\ scenario' = scenario
    BY <2>1 DEF Moves
  <2>3. Orderly
    BY <2>2 DEF Orderly, OnlyGrowing, DatesTie, Happens
  <2>4. Shifts(n)
    BY <1>1, <2>1, <2>3, MovesShift
  <2>5. Storied(log, n)
    BY <2>3 DEF Stories
  <2> QED  BY <1>1, <2>2, <2>4, <2>5, StoryMoves
<1>3. CASE \E d \in net : Deliver(d)
  <2>1. PICK d \in net : Deliver(d)
    BY <1>3
  <2> DEFINE S == DeliverySet(d, index, usage)
             m == log'
  <2>2. Signals(S, d) /\ Extends(log, m, S) /\ Ledger(m) /\ UNCHANGED <<repository, index, swept>>
    BY <2>1, DeliverStep
  <2>3. scenario' = scenario /\ pulls' = pulls /\ listed' = listed
    BY <2>2 DEF repository
  <2>4. Orderly
    BY <2>3 DEF Orderly, OnlyGrowing, DatesTie, Happens
  <2>5. Storied(log, n)
    BY <2>4 DEF Stories
  <2>6. \A r \in S : r.ev.type \notin {"execution_started", "execution_finished"}
    BY <2>2 DEF Signals
  <2>7. log' = m
    OBVIOUS
  <2> HIDE DEF S, m
  <2>8. Storied(m, n)
    BY <2>2, <2>5, <2>6, StoryDelivered
  <2> QED  BY <2>3, <2>7, <2>8, StoryKept
<1>4. CASE Sweep
  <2> DEFINE m == log'
  <2>1. Extends(log, m, AuditSet) /\ Ledger(m) /\ (\A r \in AuditSet : r.id \in Ids(m)) /\ UNCHANGED repository
    BY <1>4, SweepStep
  <2>2. scenario' = scenario /\ pulls' = pulls /\ listed' = listed
    BY <2>1 DEF repository
  <2>3. Orderly
    BY <2>2 DEF Orderly, OnlyGrowing, DatesTie, Happens
  <2>4. Storied(log, n)
    BY <2>3 DEF Stories
  <2>5. log' = m
    OBVIOUS
  <2> HIDE DEF m
  <2>6. Storied(m, n)
    BY <1>1, <2>1, <2>4, StorySwept DEF Sweeps
  <2> QED  BY <2>2, <2>5, <2>6, StoryKept
<1>5. CASE UNCHANGED vars
  <2>1. log' = log /\ scenario' = scenario /\ pulls' = pulls /\ listed' = listed
    BY <1>5 DEF vars, repository
  <2>2. Orderly
    BY <2>1 DEF Orderly, OnlyGrowing, DatesTie, Happens
  <2>3. Storied(log, n)
    BY <2>2 DEF Stories
  <2> QED  BY <2>1, <2>3, StoryKept
<1> QED  BY <1>2, <1>3, <1>4, <1>5, Steps

(* Places of a ledger have a last one. *)
LEMMA LastExists ==
  ASSUME NEW N \in Nat, NEW S \in SUBSET (1..N), S # {}
  PROVE  \E m \in S : \A k \in S : k <= m
<1> DEFINE T == {N - k : k \in S}
<1>1. T \in SUBSET Nat /\ T # {}
  <2>1. \A k \in S : N - k \in Nat
    OBVIOUS
  <2>2. PICK k : k \in S
    OBVIOUS
  <2>3. N - k \in T
    BY <2>2
  <2> QED  BY <2>1, <2>3
<1>2. PICK d \in T : \A x \in T : d <= x
  <2> HIDE DEF T
  <2> QED  BY <1>1, LeastNatural
<1>3. PICK m \in S : d = N - m
  BY <1>2
<1>4. ASSUME NEW k \in S PROVE k <= m
  <2>1. N - m <= N - k
    BY <1>2, <1>3
  <2>2. k \in 1..N /\ m \in 1..N
    OBVIOUS
  <2> QED  BY <2>1, <2>2
<1> QED  BY <1>4

(* What starts, or finishes, does so for the last time. *)
LEMMA LastTime ==
  ASSUME NEW l, Ledger(l), NEW n, NEW e
  PROVE  /\ \A i : StartedAt(l, n, e, i) =>
              \E b : StartedAt(l, n, e, b) /\ \A j : StartedAt(l, n, e, j) => j <= b
         /\ \A i : FinishedAt(l, n, e, i) => \E b : LastFinish(l, n, e, b)
<1> DEFINE N == Len(l)
           S == {i \in 1..N : StartedAt(l, n, e, i)}
           F == {i \in 1..N : FinishedAt(l, n, e, i)}
<1>1. N \in Nat /\ S \in SUBSET (1..N) /\ F \in SUBSET (1..N)
  BY DEF Ledger
<1>2. /\ \A i : i \in S <=> StartedAt(l, n, e, i)
      /\ \A i : i \in F <=> FinishedAt(l, n, e, i)
  BY DEF StartedAt, FinishedAt
<1> HIDE DEF N, S, F
<1>3. S # {} => \E b \in S : \A j \in S : j <= b
  BY <1>1, LastExists
<1>4. F # {} => \E b \in F : \A j \in F : j <= b
  BY <1>1, LastExists
<1> QED  BY <1>2, <1>3, <1>4 DEF LastFinish

(* A task whose story the ledger tells is reconstructed. *)
LEMMA StoriedAuditable ==
  ASSUME NEW l, Ledger(l), NEW n \in Tasks, StartedFirst(l, n), Overtaken(l, n), NEW t, TellsOf(l, n, t)
  PROVE  AuditableTask(t)
<1>1. \A e \in Executions : ReadsAs(l, n, e, t.execs[e])
  BY LedgerNarrates
<1>2. DOMAIN l = 1..Len(l) /\ Len(l) \in Nat
  BY DEF Ledger
<1>3. ASSUME NEW e \in Executions, t.execs[e].announced, t.execs[e].status # "running"
      PROVE  /\ t.execs[e].explicit
             /\ t.execs[e].status = "superseded" =>
                  /\ t.execs[t.execs[e].by].announced
                  /\ t.execs[t.execs[e].by].startedSeq > t.execs[e].startedSeq
  <2> DEFINE x == t.execs[e]
  <2>1. ReadsAs(l, n, e, x) /\ x.status # "running"
    BY <1>1, <1>3
  <2> HIDE DEF x
  <2>2. PICK i : FinishedAt(l, n, e, i)
    BY <2>1 DEF ReadsAs
  <2>3. PICK k \in Nat, s \in Revisions : n \in Agentic /\ e = <<n, s>> /\ FinishId(n, k, s) \in Ids(l)
    BY <2>2, PlaceNamed
  <2>4. PICK a : StartedAt(l, n, e, a)
    <3>1. StartId(n, k, s) \in Ids(l)
      BY <2>3 DEF StartedFirst
    <3>2. PICK a \in 1..Len(l) : l[a].id = StartId(n, k, s)
      BY <1>2, <3>1 DEF Ids
    <3>3. StartedAt(l, n, <<n, s>>, a)
      BY <3>2, StoredEvents
    <3> QED  BY <2>3, <3>3
  <2>5. x.explicit
    BY <2>1, <2>4 DEF ReadsAs
  <2>6. ASSUME x.status = "superseded"
        PROVE  t.execs[x.by].announced /\ t.execs[x.by].startedSeq > x.startedSeq
    <3>1. PICK c : LastFinish(l, n, e, c)
      BY <2>2, LastTime
    <3>2. l[c].ev.status = "superseded" /\ x.by = l[c].ev.by
      BY <2>1, <2>6, <3>1 DEF ReadsAs, LastFinish
    <3>3. PICK g : l[c].ev.by = <<n, g>> /\ Before(l, n, s, g)
      BY <2>3, <3>1, <3>2, Zenon DEF Overtaken
    <3> DEFINE f == <<n, g>>
               y == t.execs[f]
    <3>4. PICK b : StartedAt(l, n, f, b) /\ \A j : StartedAt(l, n, e, j) => j < b
      BY <2>3, <3>3, Zenon DEF Before
    <3>5. f \in Executions
      <4>1. \E j \in Nat, z \in Revisions : n \in Agentic /\ f = <<n, z>>
        <5> HIDE DEF f
        <5> QED  BY <3>4, PlaceNamed
      <4> QED  BY <4>1, MappingAssumption
    <3>6. ReadsAs(l, n, f, y)
      BY <1>1, <3>5
    <3>7. x.by = f
      BY <3>2, <3>3
    <3> HIDE DEF f, y
    <3>8. PICK d : StartedAt(l, n, f, d) /\ \A j : StartedAt(l, n, f, j) => j <= d
      BY <3>4, LastTime
    <3>9. PICK h : StartedAt(l, n, e, h) /\ \A j : StartedAt(l, n, e, j) => j <= h
      BY <2>4, LastTime
    <3>10. y.announced /\ y.startedSeq = d /\ x.startedSeq = h
      BY <2>1, <3>6, <3>8, <3>9 DEF ReadsAs
    <3>11. h < b /\ b <= d
      BY <3>4, <3>8, <3>9
    <3>12. h < d
      <4>1. h \in 1..Len(l) /\ b \in 1..Len(l) /\ d \in 1..Len(l)
        BY <3>4, <3>8, <3>9 DEF StartedAt
      <4> QED  BY <1>2, <3>11, <4>1
    <3>13. y.announced /\ y.startedSeq > x.startedSeq
      <4>1. h \in Nat /\ d \in Nat
        BY <1>2, <3>8, <3>9 DEF StartedAt
      <4> QED  BY <3>10, <3>12, <4>1
    <3> QED  BY <3>7, <3>13 DEF y
  <2> QED  BY <2>5, <2>6 DEF x
<1>4. LifecycleOK(t)
  BY <1>3 DEF LifecycleOK
<1> QED  BY <1>4 DEF AuditableTask, TellsOf

(* The ledger stays auditable, whatever is lost, late or repeated and      *)
(* whenever sweeps are run, while pull requests only gain commits, and     *)
(* through force pushes and absorbed commits while their dates tie and     *)
(* none of them comes back.                                                *)
THEOREM LedgerStaysAuditable == Spec => []AuditableIfOrdered
<1>1. Init => Books /\ Stories
  BY BooksInit, StoriesInit
<1>2. Books /\ Stories /\ [Next]_vars => Books' /\ Stories'
  BY BooksStep, StoriesStep
<1>3. Books /\ Stories => AuditableIfOrdered
  <2> SUFFICES ASSUME Books, Stories, Orderly, NEW n \in Tasks PROVE AuditableTask(Incremental[n])
    BY DEF AuditableIfOrdered, LedgerAuditable, Orderly
  <2> DEFINE t == Incremental[n]
  <2>1. Ledger(log) /\ StartedFirst(log, n) /\ Overtaken(log, n)
    BY DEF Books, Stories, Storied
  <2>2. TellsOf(log, n, t)
    BY <2>1, LedgerTells DEF Incremental
  <2> HIDE DEF t
  <2>3. AuditableTask(t)
    BY <2>1, <2>2, StoriedAuditable
  <2> QED  BY <2>3 DEF t
<1> QED  BY <1>1, <1>2, <1>3, PTL DEF Spec

(* With the dates tied, the head of a merged pull request is the last of   *)
(* its revisions, and never replaced: no history of force pushes, absorbed *)
(* commits and reopenings charges it.                                      *)
THEOREM MergedHeadStands == Spec => []MergedNeverReplacedIfTied
<1>1. Init => Books /\ Stories
  BY BooksInit, StoriesInit
<1>2. Books /\ Stories /\ [Next]_vars => Books' /\ Stories'
  BY BooksStep, StoriesStep
<1>3. Books /\ Stories => MergedNeverReplacedIfTied
  <2> SUFFICES ASSUME Books, Stories, DatesTie, ~Happens("reset"), NEW n \in Opened \cap Agentic
               PROVE  Incremental[n].execs[<<n, Last(pulls[n].commits).sha>>].status # "superseded"
    BY DEF MergedNeverReplacedIfTied, ReplacedNeverMerged
  <2> DEFINE t == Incremental[n]
             N == Size(n)
             e == <<n, Rev(n, N)>>
             x == t.execs[e]
  <2>1. Core /\ Ledger(log) /\ n \in Tasks /\ n \in Agentic
    BY DEF Books, Opened
  <2>2. HeadStands(log, n)
    BY <2>1 DEF Stories, Storied, Orderly
  <2>3. N \in Nat /\ N > 0 /\ N \in 1..N
    <3>1. Listed(n) /\ Chronology(n)
      BY <2>1, ChronologyHolds DEF Core
    <3> QED  BY <2>1, <3>1 DEF Listed, Chronology, Opened, Size
  <2>4. Rev(n, N) = Last(pulls[n].commits).sha
    <3>1. Rev(n, N) = pulls[n].commits[N].sha
      BY <2>1, <2>3, TieKeepsOrder
    <3> QED  BY <3>1 DEF Last, Size
  <2>5. e \in Executions
    <3>1. Chronology(n)
      BY <2>1, ChronologyHolds
    <3> QED  BY <2>1, <2>3, <3>1, MappingAssumption DEF Chronology
  <2>6. TellsOf(log, n, t)
    BY <2>1, LedgerTells DEF Incremental
  <2>7. ReadsAs(log, n, e, x)
    <3> HIDE DEF t, e
    <3> QED  BY <2>1, <2>5, <2>6, LedgerNarrates
  <2>8. \A i : FinishedAt(log, n, e, i) => log[i].ev.status # "superseded"
    BY <2>2, <2>3 DEF HeadStands
  <2> HIDE DEF e, x
  <2>9. ASSUME \A i : ~FinishedAt(log, n, e, i) PROVE x.status # "superseded"
    BY <2>7, <2>9 DEF ReadsAs
  <2>10. ASSUME NEW i, FinishedAt(log, n, e, i) PROVE x.status # "superseded"
    <3>1. PICK c : LastFinish(log, n, e, c)
      BY <2>1, <2>10, LastTime
    <3> QED  BY <2>7, <2>8, <3>1 DEF LastFinish, ReadsAs
  <2>11. x.status # "superseded"
    BY <2>9, <2>10
  <2> QED  BY <2>4, <2>11 DEF e, x
<1> QED  BY <1>1, <1>2, <1>3, PTL DEF Spec

-----------------------------------------------------------------------------
(* What is declared over stays over, unless something is reopened. *)

(* What record r says of the end of pull request n is how it ended. *)
EndsWith(r, n) ==
  r.ev.task = n =>
    /\ r.ev.type = "execution_finished" /\ r.ev.status # "superseded" =>
         /\ pulls[n].closed # 0 /\ r.ev.exec = <<n, Rev(n, Size(n))>>
         /\ r.ev.status = TerminalStatus(pulls[n])
    /\ r.ev.type = "pull_request_merged" => pulls[n].merged # 0
    /\ r.ev.type = "pull_request_closed" => pulls[n].merged = 0 /\ pulls[n].closed # 0

(* So is what a delivery says of it. *)
Declares(d) ==
  d.event = "pull_request" /\ d.about.closed # 0 =>
    LET p == pulls[d.about.number] IN
    p.closed # 0 /\ (d.about.merged # 0 <=> p.merged # 0)

Endings ==
  ~Happens("reopen") =>
    /\ \A i \in 1..Len(log), n \in Tasks : EndsWith(log[i], n)
    /\ \A d \in net : Declares(d)

(* A pull request that is closed does not move. *)
LEMMA ClosedKept ==
  ASSUME Core, Moves, ~Happens("reopen"), NEW n \in Tasks, pulls[n].closed # 0
  PROVE  pulls'[n] = pulls[n] /\ Rev(n, Size(n))' = Rev(n, Size(n))
<1>1. pulls[n].created # 0
  BY DEF Core, Listed
<1>2. ~Open(n)
  BY DEF Open
<1>3. Kept(n)
  BY <1>1, <1>2 DEF Moves, PullMove, Declared, Rewritten, SameState
<1>4. pulls'[n] = pulls[n]
  BY <1>3 DEF Kept
<1> QED  BY <1>4 DEF Rev, Size, Sorted

(* A sweep tells how a pull request ended. *)
LEMMA AuditEnds ==
  ASSUME Core, NEW r \in AuditSet, NEW n \in Tasks
  PROVE  EndsWith(r, n)
<1> SUFFICES ASSUME r.ev.task = n
             PROVE  /\ r.ev.type = "execution_finished" /\ r.ev.status # "superseded" =>
                         /\ pulls[n].closed # 0 /\ r.ev.exec = <<n, Rev(n, Size(n))>>
                         /\ r.ev.status = TerminalStatus(pulls[n])
                    /\ r.ev.type = "pull_request_merged" => pulls[n].merged # 0
                    /\ r.ev.type = "pull_request_closed" => pulls[n].merged = 0 /\ pulls[n].closed # 0
  BY DEF EndsWith
<1>1. Size(n) \in Nat
  BY ChronologyHolds DEF Chronology
<1>2. ASSUME r.ev.type = "execution_finished", r.ev.status # "superseded"
      PROVE  /\ pulls[n].closed # 0 /\ r.ev.exec = <<n, Rev(n, Size(n))>>
             /\ r.ev.status = TerminalStatus(pulls[n])
  <2>1. PICK k \in 1..Size(n) : FinishRecord(r, n, k)
    BY <1>2, AuditOnlyTells
  <2>2. k = Size(n)
    BY <1>1, <1>2, <2>1 DEF FinishRecord
  <2> QED  BY <2>1, <2>2 DEF FinishRecord
<1>3. /\ r.ev.type = "pull_request_merged" => pulls[n].merged # 0
      /\ r.ev.type = "pull_request_closed" => pulls[n].merged = 0 /\ pulls[n].closed # 0
  BY AuditOnlyTells
<1> QED  BY <1>2, <1>3

(* Endings holds of the empty ledger. *)
LEMMA EndingsInit ==
  ASSUME Init
  PROVE  Endings
<1>1. log = <<>> /\ net = {} /\ 1..Len(log) = {}
  BY DEF Init
<1> QED  BY <1>1 DEF Endings

(* Endings is inductive. *)
LEMMA EndingsStep ==
  ASSUME Books, Endings, [Next]_vars
  PROVE  Endings'
<1>1. Core /\ Ledger(log)
  BY DEF Books
<1>2. ASSUME PullStep \/ CiStep PROVE Endings'
  <2>1. Moves
    BY <1>1, <1>2, RepositoryStep
  <2>2. log' = log /\ scenario' = scenario
    BY <2>1 DEF Moves
  <2> SUFFICES ASSUME ~Happens("reopen")
               PROVE  /\ \A i \in 1..Len(log), n \in Tasks : EndsWith(log[i], n)'
                      /\ \A d \in net' : Declares(d)'
    BY <2>2 DEF Endings, Happens
  <2>3. \A n \in Tasks : pulls[n].closed # 0 => pulls'[n] = pulls[n] /\ Rev(n, Size(n))' = Rev(n, Size(n))
    BY <1>1, <2>1, ClosedKept
  <2>4. \A n \in Tasks : pulls[n].merged # 0 => pulls[n].closed # 0
    BY <1>1 DEF Core, Listed
  <2>5. ASSUME NEW i \in 1..Len(log), NEW n \in Tasks PROVE EndsWith(log[i], n)'
    <3>1. EndsWith(log[i], n)
      BY DEF Endings
    <3>2. CASE pulls[n].closed # 0
      <4>1. pulls'[n] = pulls[n] /\ Rev(n, Size(n))' = Rev(n, Size(n))
        BY <2>3, <3>2
      <4> QED  BY <2>2, <3>1, <4>1 DEF EndsWith, TerminalStatus
    <3>3. CASE pulls[n].closed = 0
      <4>1. pulls[n].merged = 0
        BY <2>4, <3>3
      <4> QED  BY <2>2, <3>1, <3>3, <4>1 DEF EndsWith
    <3> QED  BY <3>2, <3>3
  <2>6. ASSUME NEW d \in net' PROVE Declares(d)'
    <3> SUFFICES ASSUME d.event = "pull_request", d.about.closed # 0
                 PROVE  pulls'[d.about.number].closed # 0
                        /\ (d.about.merged # 0 <=> pulls'[d.about.number].merged # 0)
      BY DEF Declares
    <3>1. CASE d \in net
      <4> DEFINE n == d.about.number
      <4>1. n \in Tasks
        BY <1>1, <3>1 DEF Core, Delivery, Pull
      <4>2. pulls[n].closed # 0 /\ (d.about.merged # 0 <=> pulls[n].merged # 0)
        BY <3>1 DEF Endings, Declares
      <4> HIDE DEF n
      <4>3. pulls'[n] = pulls[n]
        BY <2>3, <4>1, <4>2
      <4> QED  BY <4>2, <4>3 DEF n
    <3>2. CASE \E n \in Tasks : d.about = pulls'[n]
      <4>1. PICK n \in Tasks : d.about = pulls'[n]
        BY <3>2
      <4>2. pulls'[n].number = n
        BY <2>1 DEF Moves
      <4> QED  BY <4>1, <4>2
    <3> QED  BY <2>1, <3>1, <3>2 DEF Moves
  <2> QED  BY <2>5, <2>6
<1>3. ASSUME NEW S, Extends(log, log', S), UNCHANGED repository,
             ~Happens("reopen") => \A r \in S, n \in Tasks : EndsWith(r, n)
      PROVE  Endings'
  <2>1. scenario' = scenario /\ pulls' = pulls /\ net' = net
    BY <1>3 DEF repository
  <2> DEFINE m == log'
  <2> SUFFICES ASSUME ~Happens("reopen")
               PROVE  /\ \A i \in 1..Len(m), n \in Tasks : EndsWith(log[i], n)'
                      /\ \A d \in net' : Declares(d)'
    BY <2>1 DEF Endings, Happens
  <2>2. log' = m
    OBVIOUS
  <2>3. Extends(log, m, S)
    BY <1>3
  <2> HIDE DEF m
  <2>4. \A i \in 1..Len(m) : (i \in 1..Len(log) /\ m[i] = log[i]) \/ m[i] \in S
    BY <2>3 DEF Extends, Added
  <2>5. \A i \in 1..Len(m), n \in Tasks : EndsWith(m[i], n)
    BY <1>3, <2>4 DEF Endings
  <2>6. ASSUME NEW i \in 1..Len(m), NEW n \in Tasks PROVE EndsWith(log[i], n)'
    <3>1. EndsWith(m[i], n)
      BY <2>5
    <3>2. Rev(n, Size(n))' = Rev(n, Size(n)) /\ pulls'[n] = pulls[n]
      BY <2>1 DEF Rev, Size, Sorted
    <3> QED  BY <2>2, <3>1, <3>2 DEF EndsWith, TerminalStatus
  <2>7. ASSUME NEW d \in net' PROVE Declares(d)'
    <3>1. Declares(d)
      BY <2>1 DEF Endings
    <3> QED  BY <2>1, <3>1 DEF Declares
  <2> QED  BY <2>6, <2>7
<1>4. ASSUME NEW d \in net, Deliver(d) PROVE Endings'
  <2> DEFINE S == DeliverySet(d, index, usage)
  <2>1. Signals(S, d) /\ Delivery(d) /\ Extends(log, log', S) /\ UNCHANGED repository
    BY <1>4, DeliverStep
  <2> HIDE DEF S
  <2>2. ASSUME ~Happens("reopen"), NEW r \in S, NEW n \in Tasks PROVE EndsWith(r, n)
    <3> SUFFICES ASSUME r.ev.task = n
                 PROVE  /\ r.ev.type # "execution_finished"
                        /\ r.ev.type = "pull_request_merged" => pulls[n].merged # 0
                        /\ r.ev.type = "pull_request_closed" => pulls[n].merged = 0 /\ pulls[n].closed # 0
      BY DEF EndsWith
    <3>1. Declares(d)
      BY <2>2 DEF Endings
    <3>2. r.ev.type # "execution_finished"
      BY <2>1 DEF Signals
    <3>3. ASSUME r.ev.type \in {"pull_request_merged", "pull_request_closed"}
          PROVE  /\ pulls[n].closed # 0
                 /\ r.ev.type = "pull_request_merged" <=> pulls[n].merged # 0
      <4>1. /\ d.event = "pull_request" /\ n = d.about.number /\ d.about.closed # 0
            /\ r.ev.type = "pull_request_merged" <=> d.about.merged # 0
        BY <2>1, <3>3 DEF Signals
      <4> QED  BY <3>1, <4>1 DEF Declares
    <3> QED  BY <3>2, <3>3
  <2> QED  BY <1>3, <2>1, <2>2
<1>5. ASSUME Sweep PROVE Endings'
  <2>1. Extends(log, log', AuditSet) /\ UNCHANGED repository
    BY <1>5, SweepStep
  <2>2. \A r \in AuditSet, n \in Tasks : EndsWith(r, n)
    BY <1>1, AuditEnds
  <2> QED  BY <1>3, <2>1, <2>2
<1>6. ASSUME UNCHANGED vars PROVE Endings'
  <2>1. scenario' = scenario /\ pulls' = pulls /\ net' = net /\ log' = log
    BY <1>6 DEF vars, repository
  <2> QED  BY <2>1 DEF Endings, Happens, EndsWith, Declares, TerminalStatus, Rev, Size, Sorted
<1> QED  BY <1>2, <1>4, <1>5, <1>6, Steps

(* What a ledger says of the status of an execution. *)
LEMMA StatusReads ==
  ASSUME NEW l, Ledger(l), NEW n \in Tasks, NEW t, TellsOf(l, n, t), NEW e \in Executions
  PROVE  /\ (\A i : ~FinishedAt(l, n, e, i)) => t.execs[e].status = "running"
         /\ (\E i : FinishedAt(l, n, e, i)) =>
              \E i : FinishedAt(l, n, e, i) /\ t.execs[e].status = l[i].ev.status
<1> DEFINE x == t.execs[e]
<1>1. ReadsAs(l, n, e, x)
  BY LedgerNarrates
<1> HIDE DEF x
<1>2. ASSUME NEW i, FinishedAt(l, n, e, i)
      PROVE  \E j : FinishedAt(l, n, e, j) /\ x.status = l[j].ev.status
  <2>1. PICK j : LastFinish(l, n, e, j)
    BY <1>2, LastTime
  <2> QED  BY <1>1, <2>1 DEF ReadsAs, LastFinish
<1> QED  BY <1>1, <1>2 DEF ReadsAs, x

(* A task that is not mapped, or a pull request not opened, has no events  *)
(* in a sweep; a ledger has none of a task that is not mapped.             *)
LEMMA NothingTold ==
  ASSUME NEW l, Ledger(l), NEW n \in Tasks, n \notin Agentic
  PROVE  /\ ~Signalled(l, n, "pull_request_merged") /\ ~Signalled(l, n, "pull_request_closed")
         /\ \A e, i : ~FinishedAt(l, n, e, i)
<1>1. \A i \in 1..Len(l) : l[i].ev.task # n
  BY DEF Ledger, Made
<1> QED  BY <1>1 DEF Signalled, SignalledAt, FinishedAt

(* What a swept ledger holds of the end of a pull request. *)
LEMMA SweptEnds ==
  ASSUME Books, SweptStored, swept, Endings, ~Happens("reopen"), NEW n \in Opened \cap Agentic
  PROVE  /\ Signalled(log, n, "pull_request_merged") <=> pulls[n].merged # 0
         /\ Signalled(log, n, "pull_request_closed") <=> pulls[n].merged = 0 /\ pulls[n].closed # 0
         /\ \A k \in 1..Size(n) : k < Size(n) \/ pulls[n].closed # 0 =>
              \E i : FinishedAt(log, n, <<n, Rev(n, k)>>, i)
<1>1. Core /\ Ledger(log) /\ n \in Tasks /\ DOMAIN log = 1..Len(log)
  BY DEF Books, Opened, Ledger
<1>2. \A r \in AuditSet : \E i \in 1..Len(log) : log[i].id = r.id
  BY <1>1 DEF SweptStored, Ids
<1>3. /\ Signalled(log, n, "pull_request_merged") => pulls[n].merged # 0
      /\ Signalled(log, n, "pull_request_closed") => pulls[n].merged = 0 /\ pulls[n].closed # 0
  <2>1. \A i \in 1..Len(log) : EndsWith(log[i], n)
    BY <1>1 DEF Endings
  <2> QED  BY <2>1 DEF EndsWith, Signalled, SignalledAt
<1>4. ASSUME pulls[n].merged # 0 PROVE Signalled(log, n, "pull_request_merged")
  <2>1. PICK r \in AuditSet : r.id = MergedId(n)
    BY <1>1, <1>4, AuditTells
  <2>2. PICK i \in 1..Len(log) : log[i].id = MergedId(n)
    BY <1>2, <2>1
  <2>3. log[i].ev.type = "pull_request_merged" /\ log[i].ev.task = n
    BY <1>1, <2>2, StoredSignals
  <2> QED  BY <2>3 DEF Signalled, SignalledAt
<1>5. ASSUME pulls[n].merged = 0, pulls[n].closed # 0 PROVE Signalled(log, n, "pull_request_closed")
  <2>1. PICK r \in AuditSet : r.id = ClosedId(n)
    BY <1>1, <1>5, AuditTells
  <2>2. PICK i \in 1..Len(log) : log[i].id = ClosedId(n)
    BY <1>2, <2>1
  <2>3. log[i].ev.type = "pull_request_closed" /\ log[i].ev.task = n
    BY <1>1, <2>2, StoredSignals
  <2> QED  BY <2>3 DEF Signalled, SignalledAt
<1>6. ASSUME NEW k \in 1..Size(n), k < Size(n) \/ pulls[n].closed # 0
      PROVE  \E i : FinishedAt(log, n, <<n, Rev(n, k)>>, i)
  <2>1. PICK r \in AuditSet : FinishRecord(r, n, k)
    BY <1>1, <1>6, AuditTells
  <2>2. PICK i \in 1..Len(log) : log[i].id = r.id
    BY <1>2
  <2> DEFINE s == Rev(n, k)
  <2>3. log[i].id = FinishId(n, k, s)
    BY <2>1, <2>2 DEF FinishRecord
  <2> HIDE DEF s
  <2>4. FinishedAt(log, n, <<n, s>>, i)
    BY <1>1, <2>3, StoredEvents
  <2> QED  BY <2>4 DEF s
<1> QED  BY <1>3, <1>4, <1>5, <1>6

(* Once the repository has been swept, the ledger and a sweep into an      *)
(* empty one agree on the outcome of every task and the status of every    *)
(* revision, whatever was lost, late or repeated before, if nothing that   *)
(* was declared over came back.                                            *)
THEOREM SweepsMakeUp == Spec => []AgreesUnlessRevived
<1>1. Init => Books /\ Stories /\ SweptStored /\ Endings
  BY BooksInit, StoriesInit, CoreInit, EndingsInit DEF SweptStored
<1>2. Books /\ Stories /\ SweptStored /\ Endings /\ [Next]_vars
      => Books' /\ Stories' /\ SweptStored' /\ Endings'
  BY BooksStep, StoriesStep, SweptStep, EndingsStep
<1>3. Books /\ Stories /\ SweptStored /\ Endings => AgreesUnlessRevived
  <2> SUFFICES ASSUME Books, Stories, SweptStored, Endings, {"reopen", "reset"} \cap scenario.moves = {},
                      OnlyGrowing \/ DatesTie, swept, NEW n \in Tasks
               PROVE  /\ Outcome(Incremental[n]) = Outcome(Historical[n])
                      /\ \A e \in {n} \X Shas(n) :
                           Incremental[n].execs[e].status = Historical[n].execs[e].status
    BY DEF AgreesUnlessRevived, Agrees
  <2> DEFINE t == Incremental[n]
             u == Historical[n]
  <2>1. Core /\ Ledger(log) /\ Repository /\ Ledger(Audit)
    BY AuditLedger DEF Books, Core
  <2>2. TellsOf(log, n, t) /\ TellsOf(Audit, n, u)
    BY <2>1, LedgerTells DEF Incremental, Historical
  <2>3. ~Happens("reopen") /\ ~Happens("reset") /\ Orderly
    BY DEF Happens, Orderly
  <2>4. Storied(log, n)
    BY <2>3 DEF Stories
  <2>5. \A s : s \in Shas(n) <=> \E k \in 1..Size(n) : Rev(n, k) = s
    BY <2>1, ChronologyHolds DEF Chronology
  <2>6. \A k \in 1..Size(n) : <<n, Rev(n, k)>> \in Executions
    BY <2>1, ChronologyHolds, MappingAssumption DEF Chronology
  <2> HIDE DEF t, u
  <2>7. ASSUME n \notin Agentic
        PROVE  /\ Outcome(t) = Outcome(u)
               /\ \A k \in 1..Size(n) : t.execs[<<n, Rev(n, k)>>].status = u.execs[<<n, Rev(n, k)>>].status
    <3>1. Outcome(t) = "unresolved" /\ Outcome(u) = "unresolved"
      BY <2>1, <2>2, <2>7, NothingTold, OutcomeIs
    <3>2. \A e \in Executions : t.execs[e].status = "running" /\ u.execs[e].status = "running"
      BY <2>1, <2>2, <2>7, NothingTold, StatusReads
    <3> QED  BY <2>6, <3>1, <3>2
  <2>8. ASSUME n \in Agentic, n \notin Opened
        PROVE  /\ Outcome(t) = Outcome(u)
               /\ \A k \in 1..Size(n) : t.execs[<<n, Rev(n, k)>>].status = u.execs[<<n, Rev(n, k)>>].status
    <3>1. pulls[n].merged = 0 /\ pulls[n].closed = 0 /\ Size(n) = 0
      BY <2>1, <2>8 DEF Core, Listed, Opened, Size
    <3>2. \A i \in 1..Len(log) : EndsWith(log[i], n)
      BY <2>3 DEF Endings
    <3>3. ~Signalled(log, n, "pull_request_merged") /\ ~Signalled(log, n, "pull_request_closed")
      BY <3>1, <3>2 DEF EndsWith, Signalled, SignalledAt
    <3>4. \A i \in 1..Len(Audit) : EndsWith(Audit[i], n)
      BY <2>1, AuditLedger, AuditEnds
    <3>5. ~Signalled(Audit, n, "pull_request_merged") /\ ~Signalled(Audit, n, "pull_request_closed")
      BY <3>1, <3>4 DEF EndsWith, Signalled, SignalledAt
    <3>6. Outcome(t) = "unresolved" /\ Outcome(u) = "unresolved"
      BY <2>1, <2>2, <3>3, <3>5, OutcomeIs
    <3> QED  BY <3>1, <3>6
  <2>9. ASSUME n \in Agentic, n \in Opened
        PROVE  /\ Outcome(t) = Outcome(u)
               /\ \A k \in 1..Size(n) : t.execs[<<n, Rev(n, k)>>].status = u.execs[<<n, Rev(n, k)>>].status
    <3> DEFINE p == pulls[n]
               N == Size(n)
    <3>1. /\ \A k \in 1..N : TellsRevision(u, n, k)
          /\ p.merged # 0 => Outcome(u) = "accepted"
          /\ p.merged = 0 /\ p.closed # 0 => Outcome(u) = "failed"
          /\ p.merged = 0 /\ p.closed = 0 => Outcome(u) = "unresolved"
      BY <2>1, <2>9, HistoryTells DEF u
    <3>2. /\ Signalled(log, n, "pull_request_merged") <=> p.merged # 0
          /\ Signalled(log, n, "pull_request_closed") <=> p.merged = 0 /\ p.closed # 0
          /\ \A k \in 1..N : k < N \/ p.closed # 0 => \E i : FinishedAt(log, n, <<n, Rev(n, k)>>, i)
      BY <2>3, <2>9, SweptEnds
    <3>3. Outcome(t) = Outcome(u)
      BY <2>1, <2>2, <3>1, <3>2, OutcomeIs
    <3>4. N \in Nat /\ \A j, k \in 1..N : Rev(n, j) = Rev(n, k) => j = k
      BY <2>1, ChronologyHolds DEF Chronology
    <3>5. ASSUME NEW k \in 1..N, NEW i, FinishedAt(log, n, <<n, Rev(n, k)>>, i)
          PROVE  /\ k < N => log[i].ev.status = "superseded"
                 /\ k = N => p.closed # 0 /\ log[i].ev.status = TerminalStatus(p)
      <4>1. /\ i \in 1..Len(log) /\ log[i].ev.type = "execution_finished"
            /\ log[i].ev.task = n /\ log[i].ev.exec = <<n, Rev(n, k)>>
        BY <3>5 DEF FinishedAt
      <4>2. EndsWith(log[i], n)
        BY <2>3, <4>1 DEF Endings
      <4>3. ASSUME log[i].ev.status # "superseded"
            PROVE  p.closed # 0 /\ k = N /\ log[i].ev.status = TerminalStatus(p)
        <5>1. p.closed # 0 /\ Rev(n, k) = Rev(n, N) /\ log[i].ev.status = TerminalStatus(p)
          BY <4>1, <4>2, <4>3 DEF EndsWith
        <5>2. N \in 1..N
          BY <3>4
        <5> QED  BY <3>4, <5>1, <5>2
      <4>4. k = N => log[i].ev.status # "superseded"
        BY <2>4, <3>5 DEF Storied, HeadStands
      <4>5. k < N => k # N
        BY <3>4
      <4> QED  BY <4>3, <4>4, <4>5
    <3>6. ASSUME NEW k \in 1..N PROVE t.execs[<<n, Rev(n, k)>>].status = u.execs[<<n, Rev(n, k)>>].status
      <4> DEFINE e == <<n, Rev(n, k)>>
      <4>1. /\ (\A i : ~FinishedAt(log, n, e, i)) => t.execs[e].status = "running"
            /\ (\E i : FinishedAt(log, n, e, i)) =>
                 \E i : FinishedAt(log, n, e, i) /\ t.execs[e].status = log[i].ev.status
        <5>1. e \in Executions
          BY <2>6
        <5> HIDE DEF e
        <5> QED  BY <2>1, <2>2, <5>1, StatusReads
      <4>2. /\ k < N => u.execs[e].status = "superseded"
            /\ k = N /\ p.closed # 0 => u.execs[e].status = TerminalStatus(p)
            /\ k = N /\ p.closed = 0 => u.execs[e].status = "running"
        BY <3>1 DEF TellsRevision
      <4>3. /\ \A i : FinishedAt(log, n, e, i) =>
                 /\ k < N => log[i].ev.status = "superseded"
                 /\ k = N => p.closed # 0 /\ log[i].ev.status = TerminalStatus(p)
            /\ k < N \/ p.closed # 0 => \E i : FinishedAt(log, n, e, i)
        BY <3>2, <3>5
      <4>4. k < N \/ k = N
        BY <3>4
      <4> HIDE DEF e, p, N
      <4>5. ASSUME NEW i, FinishedAt(log, n, e, i), t.execs[e].status = log[i].ev.status
            PROVE  t.execs[e].status = u.execs[e].status
        <5>1. /\ k < N => log[i].ev.status = "superseded"
              /\ k = N => p.closed # 0 /\ log[i].ev.status = TerminalStatus(p)
          BY <4>3, <4>5
        <5> QED  BY <4>2, <4>4, <4>5, <5>1
      <4>6. ASSUME \A i : ~FinishedAt(log, n, e, i)
            PROVE  t.execs[e].status = u.execs[e].status
        <5>1. k = N /\ p.closed = 0
          BY <4>3, <4>4, <4>6
        <5> QED  BY <4>1, <4>2, <4>6, <5>1
      <4>7. t.execs[e].status = u.execs[e].status
        BY <4>1, <4>5, <4>6
      <4> QED  BY <4>7 DEF e
    <3> QED  BY <3>3, <3>6
  <2>10. /\ Outcome(t) = Outcome(u)
         /\ \A k \in 1..Size(n) : t.execs[<<n, Rev(n, k)>>].status = u.execs[<<n, Rev(n, k)>>].status
    BY <2>7, <2>8, <2>9, Zenon
  <2>11. ASSUME NEW e \in {n} \X Shas(n) PROVE t.execs[e].status = u.execs[e].status
    <3>1. PICK s \in Shas(n) : e = <<n, s>>
      OBVIOUS
    <3>2. PICK k \in 1..Size(n) : Rev(n, k) = s
      BY <2>5
    <3> QED  BY <2>10, <3>1, <3>2
  <2> QED  BY <2>10, <2>11 DEF t, u
<1> QED  BY <1>1, <1>2, <1>3, PTL DEF Spec

=============================================================================
