-------------------------- MODULE SafeInsightProofs --------------------------
(***************************************************************************)
(* What the privacy gate promises for every policy, every request, every   *)
(* ledger and every batch: a caller can only tighten a policy, one record  *)
(* moves one count, every record is accounted for, and what the bridge     *)
(* tells of a task is what its ledger knows, in words the gate accepts.    *)
(***************************************************************************)
EXTENDS SafeInsight, TaskFoldProofs

USE VocabularyAssumption, PolicyAssumption, RequestAssumption

-----------------------------------------------------------------------------
(* The threshold and the cap of a request are monotonic in what it asks    *)
(* for and bounded by the policy of its purpose.                           *)
LEMMA EffectiveBounds ==
  ASSUME NEW r \in Requests, r.purpose \in DOMAIN Policies
  PROVE  /\ EffectiveCohortThreshold(r) \in Nat /\ EffectiveMaxRows(r) \in Int
         /\ EffectiveCohortThreshold(r) >= Policies[r.purpose].minimumCohort
         /\ EffectiveMaxRows(r) <= Policies[r.purpose].maximumRowsPerCombination
BY DEF EffectiveCohortThreshold, EffectiveMaxRows, Greater, Lesser, Optional

(* A request that asks for less gets no lower threshold and no more rows. *)
LEMMA EffectiveMonotonic ==
  ASSUME NEW r \in Requests, NEW q \in Requests, r.purpose \in DOMAIN Policies, AsksLess(r, q)
  PROVE  /\ EffectiveCohortThreshold(q) <= EffectiveCohortThreshold(r)
         /\ EffectiveMaxRows(r) <= EffectiveMaxRows(q)
BY DEF EffectiveCohortThreshold, EffectiveMaxRows, Greater, Lesser, Optional, AsksLess

-----------------------------------------------------------------------------
(* Cohorts of a batch are finite. *)
IsSequence(records) == \E S : records \in Seq(S)

(* Appending to a sequence gives a sequence. *)
LEMMA AppendIsSequence ==
  ASSUME NEW records, IsSequence(records), NEW x
  PROVE  IsSequence(Append(records, x))
<1>1. PICK S : records \in Seq(S)
  BY DEF IsSequence
<1>2. records \in Seq(S \cup {x})
  BY <1>1
<1>3. Append(records, x) \in Seq(S \cup {x})
  BY <1>2
<1> QED  BY <1>3 DEF IsSequence

(* A step leaves the batch alone or appends an input. *)
LEMMA BatchStep ==
  ASSUME [Next]_vars
  PROVE  batch' = batch \/ \E input : batch' = Append(batch, input)
BY DEF Next, Ingest, Observe, Contribute, vars

(* The records of a batch are a sequence in every reachable state. *)
LEMMA BatchAlwaysSequence == Spec => []IsSequence(batch)
<1>1. Init => IsSequence(batch)
  BY DEF Init, IsSequence
<1>2. IsSequence(batch) /\ [Next]_vars => IsSequence(batch)'
  BY BatchStep, AppendIsSequence
<1> QED  BY <1>1, <1>2, PTL DEF Spec

(* A cohort is a finite set of candidates, its size a natural number, and a cohort of
   positive size has a member. *)
LEMMA CohortSizeType ==
  ASSUME NEW records, IsSequence(records), NEW c
  PROVE  LET candidates == Gate(records).candidates
             cohort == {i \in DOMAIN candidates : candidates[i] = c}
         IN /\ IsFiniteSet(cohort)
            /\ CohortSize(candidates, c) \in Nat
            /\ CohortSize(candidates, c) > 0 => c \in Range(candidates)
<1> DEFINE candidates == Gate(records).candidates
           cohort == {i \in DOMAIN candidates : candidates[i] = c}
<1>1. DOMAIN candidates \subseteq DOMAIN records
  BY DEF Gate
<1>2. IsFiniteSet(DOMAIN records)
  <2>1. Len(records) \in Nat /\ DOMAIN records = 1..Len(records)
    BY DEF IsSequence
  <2> QED  BY <2>1, FS_Interval
<1> HIDE DEF candidates
<1>3. IsFiniteSet(cohort)
  BY <1>1, <1>2, FS_Subset
<1>4. CohortSize(candidates, c) = Cardinality(cohort)
  BY DEF CohortSize
<1>5. CohortSize(candidates, c) \in Nat
  BY <1>3, <1>4, FS_CardinalityType
<1>6. ASSUME CohortSize(candidates, c) > 0 PROVE c \in Range(candidates)
  <2>1. cohort # {}
    BY <1>4, <1>6, FS_EmptySet
  <2> QED  BY <2>1 DEF Range
<1> QED  BY <1>3, <1>5, <1>6 DEF candidates

-----------------------------------------------------------------------------
(* What a request publishes of a combination that n records have. *)
Count(n, c, r) ==
  IF ~r.aggregate THEN Lesser(n, EffectiveMaxRows(r))
  ELSE IF ~r.private THEN n
  ELSE Greater(0, n + Noise(r.seed, {c}, EffectiveEpsilon(r)))

(* Exactly the combinations at the threshold are published. *)
LEMMA Published ==
  ASSUME NEW records, IsSequence(records), NEW r \in Allowed
  PROVE  LET candidates == Gate(records).candidates
             published == ExportGlobalLearningRecords(Gate(records), r).published
         IN \A c :
              /\ c \in DOMAIN published
                   <=> CohortSize(candidates, c) >= EffectiveCohortThreshold(r)
              /\ c \in DOMAIN published => published[c] = Count(CohortSize(candidates, c), c, r)
<1> DEFINE candidates == Gate(records).candidates
           published == ExportGlobalLearningRecords(Gate(records), r).published
           k == EffectiveCohortThreshold(r)
           cap == EffectiveMaxRows(r)
           size(c) == CohortSize(candidates, c)
           admitted(c) == IF size(c) >= k THEN Lesser(size(c), cap) ELSE 0
           exact == [c \in {d \in Range(candidates) : size(d) >= k} |-> size(c)]
<1>1. \A c : size(c) \in Nat /\ (size(c) > 0 => c \in Range(candidates))
  BY CohortSizeType
<1>2. k \in Nat /\ k > 0 /\ cap \in Int /\ (~r.aggregate => cap > 0)
  <2>1. /\ r \in Requests /\ r.purpose \in DOMAIN Policies
        /\ ~r.aggregate /\ r.cap # None => r.cap >= 1
    BY DEF Allowed, WellFormed
  <2>2. /\ Policies[r.purpose].minimumCohort \in Nat /\ Policies[r.purpose].minimumCohort >= 2
        /\ Policies[r.purpose].maximumRowsPerCombination \in Nat
        /\ Policies[r.purpose].maximumRowsPerCombination >= 2
    BY <2>1 DEF ABSOLUTE_MINIMUM_COHORT
  <2>3. k \in Nat /\ k > 0 /\ cap \in Int
    BY <2>1, <2>2, EffectiveBounds
  <2>4. ~r.aggregate => cap > 0
    BY <2>1, <2>2 DEF EffectiveMaxRows, Lesser, Optional
  <2> QED  BY <2>3, <2>4
<1>3. \A c : c \in DOMAIN exact <=> size(c) >= k
  <2> HIDE DEF size, k, candidates
  <2> QED  BY <1>1, <1>2
<1>4. CASE ~r.aggregate
  <2>1. published = [c \in {d \in Range(candidates) : admitted(d) > 0} |-> admitted(c)]
    BY <1>4 DEF ExportGlobalLearningRecords, SuppressRareCombinations
  <2> HIDE DEF published, candidates, k, cap, size
  <2>2. \A c : /\ admitted(c) > 0 <=> size(c) >= k
               /\ size(c) >= k => admitted(c) = Count(size(c), c, r)
    BY <1>1, <1>2, <1>4 DEF Count, Lesser, cap
  <2>3. \A c : size(c) >= k => c \in Range(candidates)
    BY <1>1, <1>2
  <2> HIDE DEF admitted
  <2> QED  BY <2>1, <2>2, <2>3 DEF published, size, k, candidates
<1>5. CASE r.aggregate /\ ~r.private
  <2>1. published = exact
    BY <1>5 DEF ExportGlobalLearningRecords, AggregateCohorts
  <2>2. \A c \in DOMAIN exact : exact[c] = Count(size(c), c, r)
    BY <1>5 DEF Count
  <2> HIDE DEF published, exact
  <2> QED  BY <1>3, <2>1, <2>2 DEF published
<1>6. CASE r.aggregate /\ r.private
  <2>1. published = [c \in DOMAIN exact |->
                       Greater(0, exact[c] + Noise(r.seed, {c}, EffectiveEpsilon(r)))]
    BY <1>6 DEF ExportGlobalLearningRecords, AggregateCohorts, AddPrivateNoiseToCohorts
  <2>2. \A c \in DOMAIN exact : exact[c] = size(c)
    OBVIOUS
  <2>3. \A c : Count(size(c), c, r) = Greater(0, size(c) + Noise(r.seed, {c}, EffectiveEpsilon(r)))
    BY <1>6 DEF Count
  <2> HIDE DEF published, exact
  <2> QED  BY <1>3, <2>1, <2>2, <2>3 DEF published
<1> QED  BY <1>4, <1>5, <1>6

-----------------------------------------------------------------------------
(* Tightening. *)

(* No request publishes more than a less strict one, or than its policy.   *)
LEMMA Tightened ==
  ASSUME IsSequence(batch), NEW r \in Allowed, ~r.private
  PROVE  LET x == ExportGlobalLearningRecords(Gate(batch), r).published IN
         /\ \A q \in Allowed : ~q.private /\ AsksLess(r, q) =>
              LET y == ExportGlobalLearningRecords(Gate(batch), q).published
              IN \A c \in DOMAIN x : c \in DOMAIN y /\ x[c] <= y[c]
         /\ ~r.aggregate => \A c \in DOMAIN x :
              x[c] <= Policies[r.purpose].maximumRowsPerCombination
<1> DEFINE size(c) == CohortSize(Gate(batch).candidates, c)
           out(q) == ExportGlobalLearningRecords(Gate(batch), q).published
<1>1. \A q \in Allowed : \A c :
        /\ c \in DOMAIN out(q) <=> size(c) >= EffectiveCohortThreshold(q)
        /\ c \in DOMAIN out(q) => out(q)[c] = Count(size(c), c, q)
  BY Published
<1>2. \A c : size(c) \in Nat
  BY CohortSizeType
<1>3. \A q \in Allowed : /\ q \in Requests /\ q.purpose \in DOMAIN Policies
                         /\ EffectiveCohortThreshold(q) \in Nat /\ EffectiveMaxRows(q) \in Int
                         /\ EffectiveMaxRows(q) <= Policies[q.purpose].maximumRowsPerCombination
                         /\ Policies[q.purpose].maximumRowsPerCombination \in Nat
  BY EffectiveBounds DEF Allowed, WellFormed
<1> HIDE DEF size, out
<1>4. ASSUME NEW q \in Allowed, ~q.private, AsksLess(r, q), NEW c \in DOMAIN out(r)
      PROVE  c \in DOMAIN out(q) /\ out(r)[c] <= out(q)[c]
  <2>1. /\ EffectiveCohortThreshold(q) <= EffectiveCohortThreshold(r)
        /\ EffectiveMaxRows(r) <= EffectiveMaxRows(q)
        /\ r.aggregate = q.aggregate
    BY <1>3, <1>4, EffectiveMonotonic DEF AsksLess
  <2>2. c \in DOMAIN out(q)
    BY <1>1, <1>2, <1>3, <1>4, <2>1
  <2>3. Count(size(c), c, r) <= Count(size(c), c, q)
    BY <1>2, <1>3, <1>4, <2>1 DEF Count, Lesser
  <2> QED  BY <1>1, <1>4, <2>2, <2>3
<1>5. ASSUME ~r.aggregate, NEW c \in DOMAIN out(r)
      PROVE  out(r)[c] <= Policies[r.purpose].maximumRowsPerCombination
  <2>1. out(r)[c] = Lesser(size(c), EffectiveMaxRows(r))
    BY <1>1, <1>5 DEF Count
  <2> QED  BY <1>2, <1>3, <2>1 DEF Lesser
<1> QED  BY <1>4, <1>5 DEF out

(* Asking for more epsilon than the policy has is asking for none.         *)
LEMMA EpsilonCeiling ==
  ASSUME NEW gate, NEW r \in Allowed, NEW q \in Allowed, r.private, q.private, AsksTooMuch(r, q)
  PROVE  ExportGlobalLearningRecords(gate, r).published
           = ExportGlobalLearningRecords(gate, q).published
<1> DEFINE exact(p) == AggregateCohorts(gate.candidates, EffectiveCohortThreshold(p))
<1>1. /\ r \in Requests /\ r.purpose \in DOMAIN Policies
      /\ r.purpose = q.purpose /\ r.threshold = q.threshold /\ r.seed = q.seed
      /\ q.epsilon = None /\ r.epsilon # None /\ r.epsilon > Policies[r.purpose].maximumEpsilon
      /\ r.aggregate /\ q.aggregate
  BY DEF Allowed, WellFormed, AsksTooMuch
<1>2. r.epsilon \in Int /\ Policies[r.purpose].maximumEpsilon \in Int
  BY <1>1 DEF Optional
<1>3. EffectiveEpsilon(r) = Policies[r.purpose].maximumEpsilon
  BY <1>1, <1>2 DEF EffectiveEpsilon, Lesser
<1>4. EffectiveEpsilon(q) = Policies[r.purpose].maximumEpsilon
  BY <1>1 DEF EffectiveEpsilon
<1>5. exact(r) = exact(q)
  BY <1>1 DEF EffectiveCohortThreshold
<1>6. ASSUME NEW p \in {r, q}
      PROVE  ExportGlobalLearningRecords(gate, p).published
               = AddPrivateNoiseToCohorts(exact(p), EffectiveEpsilon(p), p.seed)
  BY <1>1 DEF ExportGlobalLearningRecords
<1> HIDE DEF exact
<1> QED  BY <1>1, <1>3, <1>4, <1>5, <1>6

(* Whatever a caller asks for, the policy of a purpose is a floor: nobody  *)
(* is published more than to a caller who asks for less strictness, and    *)
(* nobody gets less noise than the policy has.                             *)
THEOREM PolicyIsAFloor == Spec => []RequestsOnlyTighten
<1>1. IsSequence(batch) => RequestsOnlyTighten
  <2> SUFFICES ASSUME IsSequence(batch) PROVE RequestsOnlyTighten
    OBVIOUS
  <2> DEFINE out(r) == ExportGlobalLearningRecords(Gate(batch), r).published
             exports == {<<r, out(r)>> : r \in Allowed}
             exact == {x \in exports : ~x[1].private}
  <2>1. \A x \in exports : x[1] \in Allowed /\ x[2] = out(x[1])
    OBVIOUS
  <2> HIDE DEF exports, out
  <2>2. ASSUME NEW x \in exact
        PROVE  /\ \A y \in exact : AsksLess(x[1], y[1]) =>
                    \A c \in DOMAIN x[2] : c \in DOMAIN y[2] /\ x[2][c] <= y[2][c]
               /\ ~x[1].aggregate => \A c \in DOMAIN x[2] :
                    x[2][c] <= Policies[x[1].purpose].maximumRowsPerCombination
    <3>1. /\ x[1] \in Allowed /\ ~x[1].private /\ x[2] = out(x[1])
          /\ \A y \in exact : y[1] \in Allowed /\ ~y[1].private /\ y[2] = out(y[1])
      BY <2>1
    <3> HIDE DEF exact
    <3> QED  BY <3>1, Tightened DEF out
  <2>3. ASSUME NEW x \in exports \ exact, NEW y \in exports \ exact, AsksTooMuch(x[1], y[1])
        PROVE  x[2] = y[2]
    <3>1. /\ x[1] \in Allowed /\ x[1].private /\ x[2] = out(x[1])
          /\ y[1] \in Allowed /\ y[1].private /\ y[2] = out(y[1])
      BY <2>1
    <3> QED  BY <2>3, <3>1, EpsilonCeiling DEF out
  <2> QED  BY <2>2, <2>3, Zenon DEF RequestsOnlyTighten, exports, out
<1> QED  BY <1>1, BatchAlwaysSequence, PTL

-----------------------------------------------------------------------------
(* Sensitivity. *)

(* An input more adds one to the cohort of its record, if it has one.      *)
LEMMA AppendedCohort ==
  ASSUME NEW records, IsSequence(records), NEW x, NEW c
  PROVE  CohortSize(Gate(Append(records, x)).candidates, c) =
           CohortSize(Gate(records).candidates, c)
             + IF Rejection(x) = None /\ c = NormalizeTenantRecord(x) THEN 1 ELSE 0
<1> DEFINE n == Len(records) + 1
           longer == Append(records, x)
           old == Gate(records).candidates
           new == Gate(longer).candidates
           P == {i \in DOMAIN old : old[i] = c}
           Q == {i \in DOMAIN new : new[i] = c}
<1>1. /\ DOMAIN longer = DOMAIN records \cup {n} /\ n \notin DOMAIN records
      /\ longer[n] = x /\ \A i \in DOMAIN records : longer[i] = records[i]
  <2>1. PICK S : records \in Seq(S)
    BY DEF IsSequence
  <2>2. records \in Seq(S \cup {x})
    BY <2>1
  <2>3. /\ Len(records) \in Nat /\ DOMAIN records = 1..Len(records)
        /\ DOMAIN longer = 1..n
        /\ longer[n] = x /\ \A i \in 1..Len(records) : longer[i] = records[i]
    BY <2>2
  <2>4. 1..n = 1..Len(records) \cup {n} /\ n \notin 1..Len(records)
    BY <2>3
  <2> QED  BY <2>3, <2>4
<1>2. IsFiniteSet(P)
  BY CohortSizeType
<1>3. n \notin P
  BY <1>1 DEF Gate
<1> HIDE DEF n, longer
<1>4. Q = IF Rejection(x) = None /\ c = NormalizeTenantRecord(x) THEN P \cup {n} ELSE P
  BY <1>1 DEF Gate
<1>5. CohortSize(old, c) = Cardinality(P) /\ CohortSize(new, c) = Cardinality(Q)
  BY DEF CohortSize
<1>6. Cardinality(P) \in Nat /\ Cardinality(P \cup {n}) = Cardinality(P) + 1
  BY <1>2, <1>3, FS_AddElement, FS_CardinalityType
<1> HIDE DEF P, Q, old, new
<1> QED  BY <1>4, <1>5, <1>6 DEF old, new, longer

(* A count moves by the record that was added, or not at all. *)
LEMMA CountStep ==
  ASSUME \A seed, cohorts, epsilon : Noise(seed, cohorts, epsilon) \in Int,
         NEW r \in Allowed, NEW c, NEW n \in Nat
  PROVE  Count(n + 1, c, r) \in {Count(n, c, r), Count(n, c, r) + 1}
<1>1. EffectiveMaxRows(r) \in Int
  BY EffectiveBounds DEF Allowed, WellFormed
<1>2. Noise(r.seed, {c}, EffectiveEpsilon(r)) \in Int
  OBVIOUS
<1> QED  BY <1>1, <1>2 DEF Count, Lesser, Greater

(* However a batch is published, an input more leaves every published      *)
(* count as it was or raises it by one, raises one at most, or lets one    *)
(* cohort appear with all its records; noise, if it is a whole number,     *)
(* does not change that.                                                   *)
THEOREM OneRecordMovesOneCount ==
  ASSUME \A seed, cohorts, epsilon : Noise(seed, cohorts, epsilon) \in Int
  PROVE  Spec => OneRecordCountsOnce
<1>1. ASSUME IsSequence(batch), [Next]_vars, NEW r \in Allowed
      PROVE  LET before == ExportGlobalLearningRecords(Gate(batch), r).published
                 after == ExportGlobalLearningRecords(Gate(batch'), r).published
                 raised == {c \in DOMAIN before : after[c] # before[c]}
             IN /\ DOMAIN before \subseteq DOMAIN after
                /\ \A c \in raised : after[c] = before[c] + 1
                /\ Cardinality(raised) + Cardinality(DOMAIN after \ DOMAIN before) <= 1
  <2> DEFINE before == ExportGlobalLearningRecords(Gate(batch), r).published
             after == ExportGlobalLearningRecords(Gate(batch'), r).published
             raised == {c \in DOMAIN before : after[c] # before[c]}
             appeared == DOMAIN after \ DOMAIN before
             old(c) == CohortSize(Gate(batch).candidates, c)
             new(c) == CohortSize(Gate(batch').candidates, c)
             k == EffectiveCohortThreshold(r)
  <2>1. IsSequence(batch')
    BY <1>1, BatchStep, AppendIsSequence
  <2>2. \A c : /\ c \in DOMAIN before <=> old(c) >= k
               /\ c \in DOMAIN before => before[c] = Count(old(c), c, r)
    BY <1>1, Published
  <2>3. \A c : /\ c \in DOMAIN after <=> new(c) >= k
               /\ c \in DOMAIN after => after[c] = Count(new(c), c, r)
    BY <2>1, Published
  <2>4. \A c : old(c) \in Nat
    BY <1>1, CohortSizeType
  <2>5. \E x : \A c : new(c) = old(c) \/ (c = x /\ new(c) = old(c) + 1)
    <3>1. CASE batch' = batch
      BY <3>1
    <3>2. CASE \E input : batch' = Append(batch, input)
      <4>1. PICK input : batch' = Append(batch, input)
        BY <3>2
      <4>2. \A c : new(c) = old(c) + IF Rejection(input) = None /\ c = NormalizeTenantRecord(input)
                                     THEN 1 ELSE 0
        BY <1>1, <4>1, AppendedCohort
      <4> HIDE DEF old, new
      <4>3. \A c : new(c) = old(c) \/ (c = NormalizeTenantRecord(input) /\ new(c) = old(c) + 1)
        BY <2>4, <4>2
      <4> QED  BY <4>3
    <3> QED  BY <1>1, <3>1, <3>2, BatchStep
  <2>6. k \in Int
    BY EffectiveBounds DEF Allowed, WellFormed
  <2> HIDE DEF before, after, old, new, k
  <2>7. PICK x : \A c : new(c) = old(c) \/ (c = x /\ new(c) = old(c) + 1)
    BY <2>5
  <2>8. DOMAIN before \subseteq DOMAIN after
    BY <2>2, <2>3, <2>4, <2>6, <2>7
  <2>9. raised \subseteq {x}
    BY <2>2, <2>3, <2>7, <2>8
  <2>10. \A c \in raised : after[c] = before[c] + 1
    <3> SUFFICES ASSUME NEW c \in raised PROVE after[c] = before[c] + 1
      OBVIOUS
    <3>1. before[c] = Count(old(c), c, r) /\ after[c] = Count(new(c), c, r) /\ after[c] # before[c]
      BY <2>2, <2>3, <2>8
    <3>2. new(c) = old(c) + 1
      BY <2>7, <3>1
    <3>3. Count(old(c) + 1, c, r) \in {Count(old(c), c, r), Count(old(c), c, r) + 1}
      BY <2>4, CountStep
    <3> QED  BY <3>1, <3>2, <3>3
  <2>11. appeared \subseteq {x}
    BY <2>2, <2>3, <2>7
  <2>12. raised = {} \/ appeared = {}
    BY <2>9, <2>11
  <2>13. Cardinality(raised) + Cardinality(appeared) <= 1
    <3>1. /\ raised = {} \/ raised = {x}
          /\ appeared = {} \/ appeared = {x}
      BY <2>9, <2>11
    <3>2. Cardinality({}) = 0 /\ Cardinality({x}) = 1
      BY FS_EmptySet, FS_Singleton
    <3> HIDE DEF raised, appeared
    <3>3. CASE raised = {}
      <4>1. Cardinality(appeared) \in {0, 1}
        BY <3>1, <3>2
      <4> QED  BY <3>2, <3>3, <4>1
    <3>4. CASE appeared = {}
      <4>1. Cardinality(raised) \in {0, 1}
        BY <3>1, <3>2
      <4> QED  BY <3>2, <3>4, <4>1
    <3> QED  BY <2>12, <3>3, <3>4
  <2> QED  BY <2>8, <2>10, <2>13 DEF before, after
<1>2. IsSequence(batch) /\ [Next]_vars =>
        [LET old == Gate(batch)
             new == Gate(batch')
         IN
         \A r \in Allowed :
           LET before == ExportGlobalLearningRecords(old, r).published
               after == ExportGlobalLearningRecords(new, r).published
               raised == {c \in DOMAIN before : after[c] # before[c]}
           IN /\ DOMAIN before \subseteq DOMAIN after
              /\ \A c \in raised : after[c] = before[c] + 1
              /\ Cardinality(raised) + Cardinality(DOMAIN after \ DOMAIN before) <= 1]_vars
  BY <1>1
<1> QED  BY <1>2, BatchAlwaysSequence, PTL DEF Spec, OneRecordCountsOnce

-----------------------------------------------------------------------------
(* The books. *)

(* The cohorts of a batch add up to its accepted records.                  *)
LEMMA CohortsAddUp ==
  ASSUME NEW records, IsSequence(records)
  PROVE  LET candidates == Gate(records).candidates IN
         /\ IsFiniteSet(Range(candidates))
         /\ Cardinality(DOMAIN candidates) \in Nat
         /\ [c \in Range(candidates) |-> CohortSize(candidates, c)] \in [Range(candidates) -> Nat]
         /\ SumFunction([c \in Range(candidates) |-> CohortSize(candidates, c)])
              = Cardinality(DOMAIN candidates)
         /\ Len(records) \in Nat
         /\ \A c : CohortSize(candidates, c) <= Len(records)
         /\ Gate(records).reasons = {} => Cardinality(DOMAIN candidates) = Len(records)
<1> DEFINE candidates == Gate(records).candidates
           P == DOMAIN candidates
           R == Range(candidates)
           Cohort(c) == {i \in P : candidates[i] = c}
           w == [i \in P |-> 1]
<1>1. /\ P = {j \in DOMAIN records : Rejection(records[j]) = None}
      /\ candidates = [i \in P |-> candidates[i]]
  BY DEF Gate
<1>2. /\ IsFiniteSet(DOMAIN records) /\ Cardinality(DOMAIN records) = Len(records)
      /\ Len(records) \in Nat
  <2>1. Len(records) \in Nat /\ DOMAIN records = 1..Len(records)
    BY DEF IsSequence
  <2>2. /\ IsFiniteSet(1..Len(records))
        /\ Cardinality(1..Len(records)) = IF 1 > Len(records) THEN 0 ELSE Len(records) - 1 + 1
    BY <2>1, FS_Interval
  <2> QED  BY <2>1, <2>2
<1>3. Gate(records).reasons = {} => P = DOMAIN records
  <2> SUFFICES ASSUME Gate(records).reasons = {}, NEW j \in DOMAIN records
               PROVE  Rejection(records[j]) = None
    BY <1>1
  <2>1. Rejection(records[j]) \in {Rejection(x) : x \in Range(records)}
    BY DEF Range
  <2> QED  BY <2>1 DEF Gate
<1> HIDE DEF candidates
<1>4. IsFiniteSet(P) /\ Cardinality(P) \in Nat
  <2>1. P \in SUBSET DOMAIN records
    BY <1>1
  <2> HIDE DEF P
  <2> QED  BY <1>2, <2>1, FS_Subset, FS_CardinalityType
<1>5. R = {candidates[i] : i \in P} /\ IsFiniteSet(R)
  <2>1. R = {candidates[i] : i \in P}
    BY DEF Range
  <2>2. IsFiniteSet({candidates[i] : i \in P})
    BY <1>4, FiniteImage
  <2> HIDE DEF R
  <2> QED  BY <2>1, <2>2
<1>6. w \in [P -> Nat] /\ candidates \in [P -> R]
  BY <1>1, <1>5
<1>7. SumFunction(w) = SumFunction([c \in R |-> SumFunction(Part(w, Cohort(c)))])
  <2> HIDE DEF w, P, R
  <2> QED  BY <1>4, <1>5, <1>6, SumGrouped
<1>8. \A c : /\ SumFunction(Part(w, Cohort(c))) = CohortSize(candidates, c)
             /\ CohortSize(candidates, c) \in Nat /\ CohortSize(candidates, c) <= Len(records)
  <2> SUFFICES ASSUME NEW c
               PROVE  /\ SumFunction(Part(w, Cohort(c))) = CohortSize(candidates, c)
                      /\ CohortSize(candidates, c) \in Nat
                      /\ CohortSize(candidates, c) <= Len(records)
    OBVIOUS
  <2>1. Part(w, Cohort(c)) = [i \in Cohort(c) |-> 1]
    BY DEF Part
  <2>2. Cohort(c) \in SUBSET DOMAIN records /\ CohortSize(candidates, c) = Cardinality(Cohort(c))
    BY <1>1 DEF CohortSize
  <2> HIDE DEF Cohort, w
  <2>3. IsFiniteSet(Cohort(c)) /\ Cardinality(Cohort(c)) <= Len(records)
    BY <1>2, <2>2, FS_Subset
  <2> QED  BY <2>1, <2>2, <2>3, SumOfOnes, FS_CardinalityType
<1>9. [c \in R |-> SumFunction(Part(w, Cohort(c)))] = [c \in R |-> CohortSize(candidates, c)]
  <2> HIDE DEF w, Cohort, R
  <2> QED  BY <1>8
<1>10. SumFunction(w) = Cardinality(P)
  BY <1>4, SumOfOnes
<1>11. [c \in R |-> CohortSize(candidates, c)] \in [R -> Nat]
  BY <1>8
<1> HIDE DEF w, Cohort, R, P
<1>12. SumFunction([c \in R |-> CohortSize(candidates, c)]) = Cardinality(P)
  BY <1>7, <1>9, <1>10
<1>13. Gate(records).reasons = {} => Cardinality(P) = Len(records)
  BY <1>2, <1>3
<1> QED  BY <1>2, <1>4, <1>5, <1>8, <1>11, <1>12, <1>13 DEF R, P, candidates

(* Without noise, of each cohort something is published and the rest is    *)
(* suppressed.                                                             *)
LEMMA CohortsArePublishedOrSuppressed ==
  ASSUME NEW records, IsSequence(records), NEW r \in Allowed, ~r.private
  PROVE  LET e == ExportGlobalLearningRecords(Gate(records), r) IN
         /\ SumFunction(e.published) \in Nat /\ e.suppressed \in Nat
         /\ SumFunction(e.published) + e.suppressed = Cardinality(DOMAIN Gate(records).candidates)
<1> DEFINE gate == Gate(records)
           candidates == gate.candidates
           e == ExportGlobalLearningRecords(gate, r)
           R == Range(candidates)
           k == EffectiveCohortThreshold(r)
           cap == IF r.aggregate THEN gate.provided ELSE EffectiveMaxRows(r)
           size(c) == CohortSize(candidates, c)
           admitted(c) == IF size(c) >= k THEN Lesser(size(c), cap) ELSE 0
           sizes == [c \in R |-> size(c)]
           shown == [c \in R |-> admitted(c)]
           hidden == [c \in R |-> size(c) - admitted(c)]
           D == DOMAIN e.published
<1>1. /\ IsFiniteSet(R) /\ sizes \in [R -> Nat]
      /\ SumFunction(sizes) = Cardinality(DOMAIN candidates)
      /\ Len(records) \in Nat /\ \A c : size(c) \in Nat /\ size(c) <= Len(records)
      /\ \A c : size(c) > 0 => c \in R
  <2>1. \A c : size(c) \in Nat /\ (size(c) > 0 => c \in R)
    BY CohortSizeType
  <2> QED  BY <2>1, CohortsAddUp
<1>2. k \in Nat /\ k > 0 /\ EffectiveMaxRows(r) \in Int /\ (~r.aggregate => EffectiveMaxRows(r) > 0)
  <2>1. /\ r \in Requests /\ r.purpose \in DOMAIN Policies
        /\ ~r.aggregate /\ r.cap # None => r.cap >= 1
    BY DEF Allowed, WellFormed
  <2>2. /\ Policies[r.purpose].minimumCohort \in Nat /\ Policies[r.purpose].minimumCohort >= 2
        /\ Policies[r.purpose].maximumRowsPerCombination \in Nat
        /\ Policies[r.purpose].maximumRowsPerCombination >= 2
    BY <2>1 DEF ABSOLUTE_MINIMUM_COHORT
  <2>3. k \in Nat /\ k > 0 /\ EffectiveMaxRows(r) \in Int
    BY <2>1, <2>2, EffectiveBounds
  <2>4. ~r.aggregate => EffectiveMaxRows(r) > 0
    BY <2>1, <2>2 DEF EffectiveMaxRows, Lesser, Optional
  <2> QED  BY <2>3, <2>4
<1>3. gate.provided = Len(records)
  BY DEF Gate
<1>4. \A c : /\ c \in D <=> size(c) >= k
             /\ c \in D => e.published[c] = Count(size(c), c, r)
  BY Published
<1>5. e.suppressed = SumFunction(hidden)
  BY DEF ExportGlobalLearningRecords, SuppressRareCombinations
<1> HIDE DEF gate, candidates, e, k, R, size
<1>6. \A c : /\ admitted(c) \in Nat /\ size(c) - admitted(c) \in Nat
             /\ size(c) = admitted(c) + (size(c) - admitted(c))
             /\ c \in D => e.published[c] = admitted(c) /\ c \in R
             /\ c \notin D => admitted(c) = 0
  <2> SUFFICES ASSUME NEW c
               PROVE  /\ admitted(c) \in Nat /\ size(c) - admitted(c) \in Nat
                      /\ size(c) = admitted(c) + (size(c) - admitted(c))
                      /\ c \in D => e.published[c] = admitted(c) /\ c \in R
                      /\ c \notin D => admitted(c) = 0
    OBVIOUS
  <2> DEFINE n == size(c)
             in == c \in D
             out == e.published[c]
             inR == c \in R
  <2>1. /\ n \in Nat /\ n <= Len(records) /\ (n > 0 => inR) /\ Len(records) \in Nat
        /\ in <=> n >= k
        /\ in => out = Count(n, c, r)
    BY <1>1, <1>4
  <2> HIDE DEF n, in, out, inR, D
  <2>2. CASE r.aggregate
    <3>1. cap = Len(records) /\ Count(n, c, r) = n
      BY <1>3, <2>2 DEF Count
    <3>2. admitted(c) = IF n >= k THEN n ELSE 0
      BY <2>1, <3>1 DEF Lesser, n
    <3> HIDE DEF admitted
    <3>3. /\ admitted(c) \in Nat /\ n - admitted(c) \in Nat /\ n = admitted(c) + (n - admitted(c))
          /\ n >= k => admitted(c) = n /\ n > 0
          /\ ~(n >= k) => admitted(c) = 0
      BY <1>2, <2>1, <3>2
    <3> QED  BY <2>1, <3>1, <3>3, Zenon DEF n, in, out, inR
  <2>3. CASE ~r.aggregate
    <3>1. cap = EffectiveMaxRows(r) /\ Count(n, c, r) = Lesser(n, EffectiveMaxRows(r))
      BY <2>3 DEF Count
    <3>2. admitted(c) = IF n >= k THEN Lesser(n, EffectiveMaxRows(r)) ELSE 0
      BY <3>1 DEF n
    <3>3. /\ Lesser(n, EffectiveMaxRows(r)) \in Nat /\ Lesser(n, EffectiveMaxRows(r)) <= n
      BY <1>2, <2>1, <2>3 DEF Lesser
    <3> HIDE DEF admitted
    <3> QED  BY <1>2, <2>1, <3>1, <3>2, <3>3 DEF n, in, out, inR
  <2> QED  BY <2>2, <2>3
<1> HIDE DEF admitted
<1>7. shown \in [R -> Nat] /\ hidden \in [R -> Nat] /\ \A c \in R : sizes[c] = shown[c] + hidden[c]
  BY <1>6
<1>8. SumFunction(sizes) = SumFunction(shown) + SumFunction(hidden)
  <2>1. /\ IsFiniteSet(R) /\ sizes \in [R -> Nat] /\ shown \in [R -> Nat]
        /\ hidden \in [R -> Nat] /\ \A c \in R : sizes[c] = shown[c] + hidden[c]
    BY <1>1, <1>7, Zenon
  <2> HIDE DEF sizes, shown, hidden
  <2> QED  BY <2>1, SumOfTwo
<1>9. D \in SUBSET R /\ \A c \in R \ D : shown[c] = 0
  <2> HIDE DEF D
  <2> QED  BY <1>6
<1>10. e.published = Part(shown, D)
  <2>1. e.published = [c \in D |-> e.published[c]]
    <3>1. CASE r.aggregate
      BY <3>1 DEF e, ExportGlobalLearningRecords, AggregateCohorts
    <3>2. CASE ~r.aggregate
      BY <3>2 DEF e, ExportGlobalLearningRecords
    <3> QED  BY <3>1, <3>2
  <2>2. \A c \in D : e.published[c] = shown[c]
    <3> HIDE DEF D
    <3> QED  BY <1>6
  <2> HIDE DEF shown, D
  <2> QED  BY <2>1, <2>2 DEF Part
<1>11. SumFunction(shown) = SumFunction(e.published)
  <2>1. IsFiniteSet(R) /\ shown \in [R -> Nat]
    BY <1>1, <1>7, Zenon
  <2> HIDE DEF shown, D
  <2>2. SumFunction(shown) = SumFunction(Part(shown, D))
    BY <1>9, <2>1, SumOfSupport
  <2> QED  BY <1>10, <2>2
<1>12. SumFunction(shown) \in Nat /\ SumFunction(hidden) \in Nat
  <2> HIDE DEF shown, hidden
  <2> QED  BY <1>1, <1>7, SumType
<1> HIDE DEF shown, hidden, sizes
<1> QED  BY <1>1, <1>5, <1>8, <1>11, <1>12 DEF e, gate, candidates

(* What is published, suppressed and rejected is what was provided, and    *)
(* the level is low only if everything is published.                       *)
THEOREM BooksAlwaysBalance == Spec => []BooksBalance
<1>1. IsSequence(batch) => BooksBalance
  <2> DEFINE gate == Gate(batch)
             E(r) == ExportGlobalLearningRecords(gate, r)
             n == Cardinality(DOMAIN gate.candidates)
  <2> SUFFICES ASSUME IsSequence(batch), NEW r \in Allowed, ~r.private
               PROVE  /\ SumFunction(E(r).published) + E(r).suppressed + E(r).rejected = E(r).provided
                      /\ E(r).level = "low" => SumFunction(E(r).published) = E(r).provided
    BY Zenon DEF BooksBalance
  <2>1. /\ SumFunction(E(r).published) \in Nat /\ E(r).suppressed \in Nat
        /\ SumFunction(E(r).published) + E(r).suppressed = n
    BY CohortsArePublishedOrSuppressed
  <2>2. n \in Nat /\ Len(batch) \in Nat /\ (gate.reasons = {} => n = Len(batch))
    BY CohortsAddUp
  <2>3. /\ E(r).provided = Len(batch) /\ E(r).rejected = Len(batch) - n
        /\ E(r).level = RiskLevel(gate.reasons, E(r).suppressed)
    BY DEF ExportGlobalLearningRecords, Gate
  <2>4. E(r).level = "low" => gate.reasons = {} /\ ~(E(r).suppressed > 0)
    <3> DEFINE s == E(r).suppressed
               R == gate.reasons
    <3>1. RiskLevel(R, s) = "low" => R = {} /\ ~(s > 0)
      <4> HIDE DEF s, R
      <4> QED  BY DEF RiskLevel
    <3> QED  BY <2>3, <3>1
  <2> HIDE DEF E, n, gate
  <2> QED  BY <2>1, <2>2, <2>3, <2>4
<1> QED  BY <1>1, BatchAlwaysSequence, PTL

-----------------------------------------------------------------------------
(* The bridge from the audit. *)

(* The keys an input may have, by their place in INPUT_SPECS. *)
LEMMA SpecsAre ==
  /\ DOMAIN INPUT_SPECS = 1..13
  /\ INPUT_SPECS[1] = InputSpec("task_class", "enum", "task_class")
  /\ INPUT_SPECS[2] = InputSpec("language_family", "enum", "language_family")
  /\ INPUT_SPECS[3] = InputSpec("ci_result", "enum", "ci_result")
  /\ INPUT_SPECS[4] = InputSpec("outcome", "enum", "outcome")
  /\ INPUT_SPECS[5] = InputSpec("cost_bucket", "enum", "cost_bucket")
  /\ INPUT_SPECS[6] = InputSpec("cost_usd", "number", "cost_bucket")
  /\ INPUT_SPECS[7] = InputSpec("tool_call_bucket", "enum", "tool_call_bucket")
  /\ INPUT_SPECS[8] = InputSpec("tool_calls", "number", "tool_call_bucket")
  /\ INPUT_SPECS[9] = InputSpec("retry_bucket", "enum", "retry_bucket")
  /\ INPUT_SPECS[10] = InputSpec("retry_count", "number", "retry_bucket")
  /\ INPUT_SPECS[11] = InputSpec("human_intervention", "boolean", "human_intervention")
  /\ INPUT_SPECS[12] = InputSpec("agent_family", "enum", "agent_family")
  /\ INPUT_SPECS[13] = InputSpec("agent_name", "text", "agent_family")
BY DEF INPUT_SPECS

(* The places among INPUT_SPECS of the keys a field is derived from. *)
LEMMA SpecsOfFields ==
  /\ SpecsOf["task_class"] = {1} /\ SpecsOf["language_family"] = {2}
  /\ SpecsOf["ci_result"] = {3} /\ SpecsOf["outcome"] = {4}
  /\ SpecsOf["cost_bucket"] = {5, 6} /\ SpecsOf["tool_call_bucket"] = {7, 8}
  /\ SpecsOf["retry_bucket"] = {9, 10} /\ SpecsOf["human_intervention"] = {11}
  /\ SpecsOf["agent_family"] = {12, 13}
  /\ Fields = {"task_class", "language_family",
               "ci_result", "outcome", "cost_bucket", "tool_call_bucket", "retry_bucket",
               "human_intervention", "agent_family"}
<1>1. Fields = {"task_class", "language_family",
                "ci_result", "outcome", "cost_bucket", "tool_call_bucket", "retry_bucket",
                "human_intervention", "agent_family"}
  BY DEF Fields, Vocabulary
<1>2. \A f \in Fields : SpecsOf[f] = {i \in 1..13 : INPUT_SPECS[i].to = f}
  BY SpecsAre DEF SpecsOf
<1>3. \A i \in 1..13 : i = 1 \/ i = 2 \/ i = 3 \/ i = 4 \/ i = 5 \/ i = 6 \/ i = 7 \/ i = 8 \/ i = 9
                         \/ i = 10 \/ i = 11 \/ i = 12 \/ i = 13
  OBVIOUS
<1>4. /\ INPUT_SPECS[1].to = "task_class" /\ INPUT_SPECS[2].to = "language_family"
      /\ INPUT_SPECS[3].to = "ci_result" /\ INPUT_SPECS[4].to = "outcome"
      /\ INPUT_SPECS[5].to = "cost_bucket" /\ INPUT_SPECS[6].to = "cost_bucket"
      /\ INPUT_SPECS[7].to = "tool_call_bucket" /\ INPUT_SPECS[8].to = "tool_call_bucket"
      /\ INPUT_SPECS[9].to = "retry_bucket" /\ INPUT_SPECS[10].to = "retry_bucket"
      /\ INPUT_SPECS[11].to = "human_intervention"
      /\ INPUT_SPECS[12].to = "agent_family" /\ INPUT_SPECS[13].to = "agent_family"
  BY SpecsAre DEF InputSpec
<1>5. \A f \in Fields : \A i : i \in SpecsOf[f] <=> i \in 1..13 /\ INPUT_SPECS[i].to = f
  BY <1>2
<1> QED  BY <1>1, <1>3, <1>4, <1>5

(* The components an audited task has are all those of its build state. *)
LEMMA AllCollected ==
  ASSUME NEW t \in TaskState
  PROVE  CollectComponents(t) = t.comps
<1>1. \A c \in t.comps : c.ev.exec = None \/ c.ev.exec \in Executions
  BY DEF TaskState, Component, Event, Optional
<1> QED  BY <1>1 DEF CollectComponents, Attached, Unassigned

(* A task is contributed as it is audited. *)
AuditedState(t) == t \in TaskState /\ IsFiniteSet(t.comps)

(* The ledger holds what the scenario ingests. *)
LedgerTyped ==
  /\ scenario \in Scenarios
  /\ ledger \in Seq(Event) /\ \A i \in DOMAIN ledger : Conforms(ledger[i])

(* Every event of the ledger has been validated. *)
LEMMA LedgerAlwaysTyped == Spec => []LedgerTyped
<1>1. Init => LedgerTyped
  BY DEF Init, LedgerTyped
<1>2. LedgerTyped /\ [Next]_vars => LedgerTyped'
  <2> SUFFICES ASSUME LedgerTyped, [Next]_vars PROVE LedgerTyped'
    OBVIOUS
  <2>1. \/ scenario' = scenario /\ ledger' = ledger
        \/ scenario' = scenario /\ \E ev \in scenario.evidence : ledger' = Append(ledger, ev)
    BY DEF Next, Ingest, Observe, Contribute, vars
  <2>2. CASE ledger' = ledger /\ scenario' = scenario
    BY <2>2 DEF LedgerTyped
  <2>3. ASSUME NEW ev \in scenario.evidence, ledger' = Append(ledger, ev), scenario' = scenario
        PROVE  LedgerTyped'
    <3>1. ev \in Event /\ Conforms(ev)
      BY ScenarioAssumption DEF LedgerTyped
    <3>2. ledger \in Seq(Event) /\ Len(ledger) \in Nat
      BY DEF LedgerTyped
    <3>3. /\ ledger' \in Seq(Event) /\ DOMAIN ledger' = 1..(Len(ledger) + 1)
          /\ ledger'[Len(ledger) + 1] = ev
          /\ \A i \in 1..Len(ledger) : ledger'[i] = ledger[i] /\ i \in DOMAIN ledger
      BY <2>3, <3>1, <3>2
    <3>4. \A i \in 1..(Len(ledger) + 1) : i = Len(ledger) + 1 \/ i \in 1..Len(ledger)
      BY <3>2
    <3>5. \A i \in DOMAIN ledger' : Conforms(ledger'[i])
      BY <3>1, <3>3, <3>4 DEF LedgerTyped
    <3> QED  BY <2>3, <3>3, <3>5 DEF LedgerTyped
  <2> QED  BY <2>1, <2>2, <2>3
<1> QED  BY <1>1, <1>2, PTL DEF Spec

(* A task with an audit has finitely many components, all of them typed. *)
LEMMA AuditedStates ==
  ASSUME LedgerTyped, NEW t \in Audited
  PROVE  AuditedState(t)
<1> DEFINE tasks == Reconstruct(ledger)
<1>1. PICK u \in Tasks : t = tasks[u] /\ AuditableTask(tasks[u])
  BY DEF Audited
<1>2. Told(ledger, Len(ledger), u, t)
  BY <1>1, ReconstructTells DEF LedgerTyped
<1>3. t \in TaskState /\ ~t.duplicateRef
  BY <1>1, <1>2 DEF Told, AuditableTask
<1> DEFINE U == Upto(ledger, Len(ledger), u, ComponentTypes)
           f == [i \in U |-> Filed(ledger, i)]
<1>4. IsFiniteSet(U)
  <2>1. Len(ledger) \in Nat /\ U \in SUBSET (1..Len(ledger))
    BY DEF LedgerTyped, Upto
  <2>2. IsFiniteSet(1..Len(ledger))
    BY <2>1, FS_Interval
  <2> HIDE DEF U
  <2> QED  BY <2>1, <2>2, FS_Subset
<1>5. t.comps = {Filed(ledger, i) : i \in U}
  BY <1>2, <1>3, Zenon DEF Told
<1> HIDE DEF U
<1>6. t.comps = {f[i] : i \in U} /\ DOMAIN f = U
  BY <1>5
<1> HIDE DEF f
<1>7. IsFiniteSet(t.comps)
  BY <1>4, <1>6, FiniteImage
<1> QED  BY <1>3, <1>7 DEF AuditedState

(* What the bridge says of a task: the keys that are present, and their    *)
(* values; beside them are the hints.                                      *)
CiRuns(t) == {c \in t.comps : c.ev.type = "ci_run_recorded"}

Bridged(input, t, hints) ==
  /\ DOMAIN input =
       {"tool_calls", "retry_count", "human_intervention", "outcome"}
         \cup (IF KnownCost(t) > 0 THEN {"cost_usd"} ELSE {})
         \cup (IF CiRuns(t) # {} THEN {"ci_result"} ELSE {})
         \cup DOMAIN hints
  /\ \A k \in DOMAIN hints : input[k] = hints[k]
  /\ KnownCost(t) \in Nat /\ (KnownCost(t) > 0 => input["cost_usd"] = Number(KnownCost(t)))
  /\ CiRuns(t) # {} => input["ci_result"] = Enum(DeriveCiResult(CiRuns(t)))
  /\ \E n \in Nat : input["tool_calls"] = Number(n)
  /\ \E n \in Nat : input["retry_count"] = Number(n)
  /\ \E b \in BOOLEAN : input["human_intervention"] = Flag(b)
  /\ input["outcome"] = Enum(MapOutcome(t))

(* Such hints have no key of a field the bridge derives. *)
LEMMA HintKeys ==
  ASSUME NEW hints, Supplements(hints)
  PROVE  /\ "ci_result" \notin DOMAIN hints /\ "outcome" \notin DOMAIN hints
         /\ "cost_bucket" \notin DOMAIN hints /\ "cost_usd" \notin DOMAIN hints
         /\ "tool_call_bucket" \notin DOMAIN hints /\ "tool_calls" \notin DOMAIN hints
         /\ "retry_bucket" \notin DOMAIN hints /\ "retry_count" \notin DOMAIN hints
         /\ "human_intervention" \notin DOMAIN hints
<1>1. \A key, is, to : InputSpec(key, is, to).key = key /\ InputSpec(key, is, to).to = to
  BY DEF InputSpec
<1>2. \A i \in 3..11 : INPUT_SPECS[i].to \in Derived
  <2>1. \A i \in 3..11 : i = 3 \/ i = 4 \/ i = 5 \/ i = 6 \/ i = 7 \/ i = 8 \/ i = 9 \/ i = 10 \/ i = 11
    OBVIOUS
  <2> QED  BY <1>1, <2>1, SpecsAre DEF Derived
<1>3. \A i \in 3..11 : INPUT_SPECS[i].key \notin DOMAIN hints
  BY <1>2, SpecsAre DEF Supplements
<1>4. 3 \in 3..11 /\ 4 \in 3..11 /\ 5 \in 3..11 /\ 6 \in 3..11 /\ 7 \in 3..11 /\ 8 \in 3..11
      /\ 9 \in 3..11 /\ 10 \in 3..11 /\ 11 \in 3..11
  OBVIOUS
<1> QED  BY <1>1, <1>3, <1>4, SpecsAre

(* The bridge says of a task with an audit exactly what is bridged.       *)
LEMMA BridgeSays ==
  ASSUME NEW t, AuditedState(t), NEW hints, Supplements(hints)
  PROVE  Bridged(MapAuditTaskToPrivacyInput(t, hints), t, hints)
<1> DEFINE comps == CollectComponents(t)
           Kind(type) == {c \in comps : c.ev.type = type}
           runs == Kind("ci_run_recorded")
           known == CostOf(comps)
           tools == Cardinality(Kind("tool_invocation_recorded"))
           human == t.reworks > 0 \/ Kind("human_intervention_recorded") # {}
           derived == [cost_usd |-> Number(known), ci_result |-> Enum(DeriveCiResult(runs)),
                       tool_calls |-> Number(tools),
                       retry_count |-> Number(t.retries),
                       human_intervention |-> Flag(human), outcome |-> Enum(MapOutcome(t))]
           told == {k \in DOMAIN derived : /\ k = "cost_usd" => known > 0
                                           /\ k = "ci_result" => runs # {}}
           input == MapAuditTaskToPrivacyInput(t, hints)
<1>1. t \in TaskState /\ IsFiniteSet(t.comps) /\ comps = t.comps
  BY AllCollected DEF AuditedState
<1>2. runs = CiRuns(t) /\ known = KnownCost(t) /\ KnownCost(t) \in Nat
  BY <1>1, KnownCostOfAll DEF CiRuns
<1>3. tools \in Nat
  <2> DEFINE T == Kind("tool_invocation_recorded")
  <2>1. T \in SUBSET t.comps
    BY <1>1
  <2> HIDE DEF T
  <2>2. Cardinality(T) \in Nat
    BY <1>1, <2>1, FS_Subset, FS_CardinalityType
  <2> QED  BY <2>2 DEF T
<1>4. t.retries \in Nat /\ human \in BOOLEAN
  BY <1>1 DEF TaskState
<1>5. input = [k \in told \cup DOMAIN hints |-> IF k \in DOMAIN hints THEN hints[k] ELSE derived[k]]
  BY Zenon DEF MapAuditTaskToPrivacyInput
<1> HIDE DEF comps, known, runs, tools, human, input
<1>6. /\ DOMAIN derived = {"cost_usd", "ci_result", "tool_calls", "retry_count", "human_intervention", "outcome"}
      /\ derived["cost_usd"] = Number(known) /\ derived["ci_result"] = Enum(DeriveCiResult(runs))
      /\ derived["tool_calls"] = Number(tools) /\ derived["retry_count"] = Number(t.retries)
      /\ derived["human_intervention"] = Flag(human) /\ derived["outcome"] = Enum(MapOutcome(t))
  OBVIOUS
<1> HIDE DEF derived
<1>7. \A k \in DOMAIN derived : k \notin DOMAIN hints
  BY <1>6, HintKeys
<1>8. /\ DOMAIN input = told \cup DOMAIN hints
      /\ \A k \in told : input[k] = derived[k]
      /\ \A k \in DOMAIN hints : input[k] = hints[k]
  BY <1>5, <1>7
<1>9. told = {"tool_calls", "retry_count", "human_intervention", "outcome"}
               \cup (IF known > 0 THEN {"cost_usd"} ELSE {})
               \cup (IF runs # {} THEN {"ci_result"} ELSE {})
  BY <1>6
<1> HIDE DEF told
<1>10. DOMAIN input = {"tool_calls", "retry_count", "human_intervention", "outcome"}
                        \cup (IF KnownCost(t) > 0 THEN {"cost_usd"} ELSE {})
                        \cup (IF CiRuns(t) # {} THEN {"ci_result"} ELSE {})
                        \cup DOMAIN hints
  BY <1>2, <1>8, <1>9
<1>11. /\ KnownCost(t) > 0 => input["cost_usd"] = Number(KnownCost(t))
       /\ CiRuns(t) # {} => input["ci_result"] = Enum(DeriveCiResult(CiRuns(t)))
  BY <1>2, <1>6, <1>8, <1>9
<1>12. /\ input["tool_calls"] = Number(tools) /\ input["retry_count"] = Number(t.retries)
       /\ input["human_intervention"] = Flag(human) /\ input["outcome"] = Enum(MapOutcome(t))
  BY <1>6, <1>8, <1>9
<1> QED  BY <1>2, <1>3, <1>4, <1>8, <1>10, <1>11, <1>12 DEF Bridged, input

(* Records that hold the same keys of a field take it from the same place.  *)
LEMMA SameSource ==
  ASSUME NEW x, NEW y, NEW f,
         \A i \in SpecsOf[f] : INPUT_SPECS[i].key \in DOMAIN x <=> INPUT_SPECS[i].key \in DOMAIN y
  PROVE  Source(x, f) = Source(y, f)
<1> DEFINE X == {i \in SpecsOf[f] : INPUT_SPECS[i].key \in DOMAIN x}
           Y == {i \in SpecsOf[f] : INPUT_SPECS[i].key \in DOMAIN y}
<1>1. X = Y
  OBVIOUS
<1>2. Source(x, f) = {i \in X : \A j \in X : i <= j}
      /\ Source(y, f) = {i \in Y : \A j \in Y : i <= j}
  BY DEF Source
<1> HIDE DEF X, Y
<1> QED  BY <1>1, <1>2

(* Where the fields of such an input come from. *)
LEMMA BridgeSources ==
  ASSUME NEW t, NEW input, NEW hints, Supplements(hints), Bridged(input, t, hints)
  PROVE  /\ Source(input, "outcome") = {4} /\ Source(input, "tool_call_bucket") = {8}
         /\ Source(input, "retry_bucket") = {10} /\ Source(input, "human_intervention") = {11}
         /\ \A f \in {"task_class", "language_family", "agent_family"} :
              Source(input, f) = Source(HintsAlone(hints), f)
         /\ Source(input, "cost_bucket") = IF KnownCost(t) > 0 THEN {6} ELSE {}
         /\ Source(input, "ci_result") = IF CiRuns(t) # {} THEN {3} ELSE {}
<1> DEFINE PresentIn(x, f) == {i \in SpecsOf[f] : INPUT_SPECS[i].key \in DOMAIN x}
           Present(f) == PresentIn(input, f)
<1>1. /\ INPUT_SPECS[1].key = "task_class" /\ INPUT_SPECS[2].key = "language_family"
      /\ INPUT_SPECS[3].key = "ci_result" /\ INPUT_SPECS[4].key = "outcome"
      /\ INPUT_SPECS[5].key = "cost_bucket" /\ INPUT_SPECS[6].key = "cost_usd"
      /\ INPUT_SPECS[7].key = "tool_call_bucket" /\ INPUT_SPECS[8].key = "tool_calls"
      /\ INPUT_SPECS[9].key = "retry_bucket" /\ INPUT_SPECS[10].key = "retry_count"
      /\ INPUT_SPECS[11].key = "human_intervention"
      /\ INPUT_SPECS[12].key = "agent_family" /\ INPUT_SPECS[13].key = "agent_name"
  BY SpecsAre DEF InputSpec
<1>2. /\ {"tool_calls", "retry_count", "human_intervention", "outcome"} \subseteq DOMAIN input
      /\ "cost_bucket" \notin DOMAIN input /\ "tool_call_bucket" \notin DOMAIN input
      /\ "retry_bucket" \notin DOMAIN input
      /\ "cost_usd" \in DOMAIN input <=> KnownCost(t) > 0
      /\ "ci_result" \in DOMAIN input <=> CiRuns(t) # {}
  BY HintKeys DEF Bridged
<1>3. /\ Present("outcome") = {4} /\ Present("tool_call_bucket") = {8}
      /\ Present("retry_bucket") = {10} /\ Present("human_intervention") = {11}
      /\ Present("cost_bucket") = IF KnownCost(t) > 0 THEN {6} ELSE {}
      /\ Present("ci_result") = IF CiRuns(t) # {} THEN {3} ELSE {}
  BY <1>1, <1>2, SpecsOfFields
<1>4. \A x, f : Source(x, f) = {i \in PresentIn(x, f) : \A j \in PresentIn(x, f) : i <= j}
  BY DEF Source
<1>5. \A k \in {"task_class", "language_family", "agent_family", "agent_name"} :
        k \in DOMAIN input <=> k \in DOMAIN HintsAlone(hints)
  BY DEF Bridged, HintsAlone
<1>6. \A f \in {"task_class", "language_family", "agent_family"} : \A i \in SpecsOf[f] :
        INPUT_SPECS[i].key \in {"task_class", "language_family", "agent_family", "agent_name"}
  BY <1>1, SpecsOfFields
<1>7. \A f \in {"task_class", "language_family", "agent_family"} :
        Source(input, f) = Source(HintsAlone(hints), f)
  BY <1>5, <1>6, SameSource
<1> HIDE DEF PresentIn
<1> QED  BY <1>3, <1>4, <1>7

(* The outcome and the CI result of a task are in the vocabulary. *)
LEMMA DerivedValues ==
  ASSUME NEW t
  PROVE  /\ MapOutcome(t) \in {"pr_merged", "revert", "task_failed", "task_aborted", "task_started"}
         /\ MapOutcome(t) = "pr_merged" => t.merged # {} /\ t.merged \cap t.reverts = {}
         /\ DeriveCiResult(CiRuns(t)) \in {"passed", "mixed", "failed"}
         /\ DeriveCiResult(CiRuns(t)) = "passed" =>
              CiRuns(t) # {} /\ \A c \in CiRuns(t) : c.ev.status = "passed"
<1>1. Outcome(t) \in {"accepted", "failed", "aborted", "unresolved"}
      /\ (Outcome(t) = "accepted" => t.merged # {})
  BY DEF Outcome
<1>2. MapOutcome(t) \in {"pr_merged", "revert", "task_failed", "task_aborted", "task_started"}
      /\ (MapOutcome(t) = "pr_merged" => Outcome(t) = "accepted" /\ ~Reverted(t))
  BY <1>1 DEF MapOutcome
<1>3. MapOutcome(t) = "pr_merged" => t.merged # {} /\ t.merged \cap t.reverts = {}
  BY <1>1, <1>2 DEF Reverted
<1> DEFINE statuses == {c.ev.status : c \in CiRuns(t)}
<1>4. /\ DeriveCiResult(CiRuns(t)) \in {"passed", "mixed", "failed"}
      /\ DeriveCiResult(CiRuns(t)) = "passed" => statuses = {"passed"}
  BY DEF DeriveCiResult
<1>5. statuses = {"passed"} => CiRuns(t) # {} /\ \A c \in CiRuns(t) : c.ev.status = "passed"
  OBVIOUS
<1> QED  BY <1>2, <1>3, <1>4, <1>5

(* Where the fields come from of the hints with no more than an outcome.   *)
LEMMA AloneSources ==
  ASSUME NEW hints, Supplements(hints)
  PROVE  /\ Source(HintsAlone(hints), "outcome") = {4}
         /\ \A f \in Derived \ {"outcome"} : Source(HintsAlone(hints), f) = {}
         /\ \A f \in {"task_class", "language_family", "agent_family"} :
              \A i \in Source(HintsAlone(hints), f) :
                i \in {1, 2, 12, 13} /\ INPUT_SPECS[i].key \in DOMAIN hints
<1> DEFINE a == HintsAlone(hints)
           Present(f) == {i \in SpecsOf[f] : INPUT_SPECS[i].key \in DOMAIN a}
<1>1. /\ INPUT_SPECS[1].key = "task_class" /\ INPUT_SPECS[2].key = "language_family"
      /\ INPUT_SPECS[3].key = "ci_result" /\ INPUT_SPECS[4].key = "outcome"
      /\ INPUT_SPECS[5].key = "cost_bucket" /\ INPUT_SPECS[6].key = "cost_usd"
      /\ INPUT_SPECS[7].key = "tool_call_bucket" /\ INPUT_SPECS[8].key = "tool_calls"
      /\ INPUT_SPECS[9].key = "retry_bucket" /\ INPUT_SPECS[10].key = "retry_count"
      /\ INPUT_SPECS[11].key = "human_intervention"
      /\ INPUT_SPECS[12].key = "agent_family" /\ INPUT_SPECS[13].key = "agent_name"
  BY SpecsAre DEF InputSpec
<1>2. \A k : k \in DOMAIN a <=> k \in DOMAIN hints \/ k = "outcome"
  BY DEF HintsAlone
<1>3. Present("outcome") = {4}
  BY <1>1, <1>2, SpecsOfFields
<1>4. \A f \in Derived \ {"outcome"} : Present(f) = {}
  BY <1>1, <1>2, HintKeys, SpecsOfFields DEF Derived
<1>5. \A f \in {"task_class", "language_family", "agent_family"} :
        \A i \in Present(f) : i \in {1, 2, 12, 13} /\ INPUT_SPECS[i].key \in DOMAIN hints
  BY <1>1, <1>2, SpecsOfFields
<1>6. \A f : Source(a, f) = {i \in Present(f) : \A j \in Present(f) : i <= j}
  BY DEF Source
<1> HIDE DEF Present
<1> QED  BY <1>3, <1>4, <1>5, <1>6

(* The gate has nothing against what the bridge derives. *)
LEMMA BridgeUnobjectionable ==
  ASSUME NEW t, NEW input, NEW hints, Supplements(hints), Bridged(input, t, hints)
  PROVE  \A i : \/ i \in {4, 8, 10, 11}
                \/ i = 6 /\ KnownCost(t) > 0
                \/ i = 3 /\ CiRuns(t) # {}
              => Problem(INPUT_SPECS[i], input[INPUT_SPECS[i].key]) = None
<1> DEFINE Reason(i) == Problem(INPUT_SPECS[i], input[INPUT_SPECS[i].key])
<1>2. ASSUME NEW key, NEW to, NEW v, v \in Vocabulary[to]
      PROVE  Problem(InputSpec(key, "enum", to), Enum(v)) = None
  BY <1>2 DEF Problem, InputSpec, Enum
<1>3. ASSUME NEW key, NEW to, NEW n \in Nat
      PROVE  Problem(InputSpec(key, "number", to), Number(n)) = None
  BY DEF Problem, InputSpec, Number
<1>4. ASSUME NEW key, NEW to, NEW b
      PROVE  Problem(InputSpec(key, "boolean", to), Flag(b)) = None
  BY DEF Problem, InputSpec, Flag
<1>5. MapOutcome(t) \in Vocabulary["outcome"] /\ DeriveCiResult(CiRuns(t)) \in Vocabulary["ci_result"]
  BY DerivedValues DEF Vocabulary
<1>6. \A key, is, to : InputSpec(key, is, to).key = key
  BY DEF InputSpec
<1>7. Reason(4) = None
  <2>1. Reason(4) = Problem(InputSpec("outcome", "enum", "outcome"), Enum(MapOutcome(t)))
    BY <1>6, SpecsAre DEF Bridged
  <2> QED  BY <1>2, <1>5, <2>1
<1>8. Reason(8) = None
  <2>1. PICK n \in Nat : input["tool_calls"] = Number(n)
    BY DEF Bridged
  <2>2. Reason(8) = Problem(InputSpec("tool_calls", "number", "tool_call_bucket"), Number(n))
    BY <1>6, <2>1, SpecsAre
  <2> QED  BY <1>3, <2>2
<1>9. Reason(10) = None
  <2>1. PICK n \in Nat : input["retry_count"] = Number(n)
    BY DEF Bridged
  <2>2. Reason(10) = Problem(InputSpec("retry_count", "number", "retry_bucket"), Number(n))
    BY <1>6, <2>1, SpecsAre
  <2> QED  BY <1>3, <2>2
<1>10. Reason(11) = None
  <2>1. PICK b \in BOOLEAN : input["human_intervention"] = Flag(b)
    BY DEF Bridged
  <2>2. Reason(11) = Problem(InputSpec("human_intervention", "boolean", "human_intervention"), Flag(b))
    BY <1>6, <2>1, SpecsAre
  <2> QED  BY <1>4, <2>2
<1>11. KnownCost(t) > 0 => Reason(6) = None
  <2> SUFFICES ASSUME KnownCost(t) > 0 PROVE Reason(6) = None
    OBVIOUS
  <2>1. KnownCost(t) \in Nat /\ input["cost_usd"] = Number(KnownCost(t))
    BY DEF Bridged
  <2>2. Reason(6) = Problem(InputSpec("cost_usd", "number", "cost_bucket"), Number(KnownCost(t)))
    BY <1>6, <2>1, SpecsAre
  <2> QED  BY <1>3, <2>1, <2>2
<1>12. CiRuns(t) # {} => Reason(3) = None
  <2> SUFFICES ASSUME CiRuns(t) # {} PROVE Reason(3) = None
    OBVIOUS
  <2>1. input["ci_result"] = Enum(DeriveCiResult(CiRuns(t)))
    BY DEF Bridged
  <2>2. Reason(3) = Problem(InputSpec("ci_result", "enum", "ci_result"), Enum(DeriveCiResult(CiRuns(t))))
    BY <1>6, <2>1, SpecsAre
  <2> QED  BY <1>2, <1>5, <2>2
<1> HIDE DEF Reason
<1>13. \A i : i \in {4, 8, 10, 11} \/ (i = 6 /\ KnownCost(t) > 0) \/ (i = 3 /\ CiRuns(t) # {})
              => Reason(i) = None
  BY <1>7, <1>8, <1>9, <1>10, <1>11, <1>12
<1> QED  BY <1>13 DEF Reason

(* So it rejects what the bridge says for the hints alone.                 *)
LEMMA RejectedForHints ==
  ASSUME NEW t, NEW input, NEW hints, Supplements(hints), Bridged(input, t, hints)
  PROVE  Rejection(input) = Rejection(HintsAlone(hints))
<1> DEFINE a == HintsAlone(hints)
           given == {"task_class", "language_family", "agent_family"}
           Reason(x, i) == Problem(INPUT_SPECS[i], x[INPUT_SPECS[i].key])
           bad(x) == {i \in UNION {Source(x, f) : f \in Fields} : Reason(x, i) # None}
           Given == UNION {Source(a, f) : f \in given}
           First(x) == CHOOSE i \in bad(x) : \A j \in bad(x) : i <= j
<1>1. Fields = given \cup Derived
  BY SpecsOfFields DEF Derived
<1>2. \A f \in given : Source(input, f) = Source(a, f)
  BY BridgeSources
<1>3. \A f \in Derived : \A i \in Source(input, f) :
        i \in {4, 8, 10, 11} \/ (i = 6 /\ KnownCost(t) > 0) \/ (i = 3 /\ CiRuns(t) # {})
  BY BridgeSources DEF Derived
<1>4. \A f \in Derived : \A i \in Source(input, f) : Reason(input, i) = None
  BY <1>3, BridgeUnobjectionable
<1>5. \A f \in Derived : \A i \in Source(a, f) : Reason(a, i) = None
  <2>1. \A f \in Derived : \A i \in Source(a, f) : i = 4
    BY AloneSources
  <2>2. INPUT_SPECS[4].key = "outcome" /\ a["outcome"] = Enum("task_started")
    BY HintKeys, SpecsAre DEF InputSpec, HintsAlone
  <2>3. Reason(a, 4) = Problem(InputSpec("outcome", "enum", "outcome"), Enum("task_started"))
    BY <2>2, SpecsAre
  <2>4. Problem(InputSpec("outcome", "enum", "outcome"), Enum("task_started")) = None
    BY DEF Problem, InputSpec, Enum, Vocabulary
  <2> QED  BY <2>1, <2>3, <2>4
<1>6. \A i \in Given : i \in {1, 2, 12, 13} /\ Reason(input, i) = Reason(a, i)
  <2>1. \A i \in Given : i \in {1, 2, 12, 13} /\ INPUT_SPECS[i].key \in DOMAIN hints
    BY AloneSources
  <2>2. \A k \in DOMAIN hints : input[k] = a[k]
    BY DEF Bridged, HintsAlone
  <2> HIDE DEF Given, a
  <2> QED  BY <2>1, <2>2
<1>7. bad(input) = {i \in Given : Reason(a, i) # None} /\ bad(a) = {i \in Given : Reason(a, i) # None}
  <2> HIDE DEF Reason, a
  <2>1. \A i : i \in bad(input) <=> i \in Given /\ Reason(a, i) # None
    BY <1>1, <1>2, <1>4, <1>6
  <2>2. \A i : i \in bad(a) <=> i \in Given /\ Reason(a, i) # None
    BY <1>1, <1>5
  <2> HIDE DEF bad, Given
  <2>3. bad(input) = bad(a)
    <3>1. \A i : i \in bad(input) <=> i \in bad(a)
      BY <2>1, <2>2
    <3> QED  BY <3>1 DEF bad
  <2>4. bad(a) = {i \in Given : Reason(a, i) # None}
    BY <2>2 DEF bad, Given
  <2> QED  BY <2>3, <2>4
<1>8. DOMAIN input \ Keys = DOMAIN a \ Keys /\ (Required \subseteq DOMAIN input <=> Required \subseteq DOMAIN a)
  <2>1. {"tool_calls", "retry_count", "human_intervention", "outcome", "cost_usd", "ci_result"} \subseteq Keys
    <3>1. {INPUT_SPECS[i].key : i \in {3, 4, 6, 8, 10, 11}} \subseteq Keys
      BY SpecsAre DEF Keys
    <3>2. /\ INPUT_SPECS[3].key = "ci_result" /\ INPUT_SPECS[4].key = "outcome"
          /\ INPUT_SPECS[6].key = "cost_usd" /\ INPUT_SPECS[8].key = "tool_calls"
          /\ INPUT_SPECS[10].key = "retry_count" /\ INPUT_SPECS[11].key = "human_intervention"
      BY SpecsAre DEF InputSpec
    <3> QED  BY <3>1, <3>2
  <2>2. \A k : k \in DOMAIN a <=> k \in DOMAIN hints \/ k = "outcome"
    BY DEF HintsAlone
  <2>3. \A k : k \in DOMAIN input \ Keys <=> k \in DOMAIN a \ Keys
    BY <2>1, <2>2 DEF Bridged
  <2>4. \A k \in Required : k \in DOMAIN input <=> k \in DOMAIN a
    BY <2>2 DEF Bridged, Required
  <2> QED  BY <2>3, <2>4
<1>9. bad(a) # {} => First(a) \in Given
  <2> DEFINE B == bad(a)
  <2>1. \A i \in B : i \in Given /\ (i = 1 \/ i = 2 \/ i = 12 \/ i = 13)
    BY <1>6, <1>7
  <2> HIDE DEF B, Given
  <2>2. B # {} => \E i \in B : \A j \in B : i <= j
    BY <2>1
  <2>3. B # {} => (CHOOSE i \in B : \A j \in B : i <= j) \in B
    BY <2>2
  <2> QED  BY <2>1, <2>3 DEF B
<1>10. \A x : Rejection(x) =
         CASE DOMAIN x \ Keys # {} ->
                IF (DOMAIN x \ Keys) \cap Forbidden # {} THEN "forbidden_field" ELSE "unknown_input_field"
           [] DOMAIN x \ Keys = {} /\ ~(Required \subseteq DOMAIN x) -> "missing_required_field"
           [] DOMAIN x \ Keys = {} /\ Required \subseteq DOMAIN x /\ bad(x) # {} -> Reason(x, First(x))
           [] OTHER -> None
  BY Zenon DEF Rejection
<1>11. bad(input) = bad(a) /\ First(input) = First(a)
  <2>1. bad(input) = bad(a)
    BY <1>7
  <2> HIDE DEF bad
  <2> QED  BY <2>1
<1>12. bad(a) # {} => Reason(input, First(a)) = Reason(a, First(a))
  BY <1>6, <1>9
<1> HIDE DEF bad, Reason, First, a
<1> QED  BY <1>8, <1>10, <1>11, <1>12 DEF a

(* The bridge from the audit (audit-mapping.js), for every ledger and all  *)
(* hints on what the bridge does not derive: an audited task is rejected   *)
(* only for its hints or for want of them, and the record of one that is   *)
(* accepted has the known cost, passed CI and an accepted merge only if    *)
(* the ledger has.                                                         *)
THEOREM BridgeLearnsTheLedger == Spec => []LearnsWhatLedgerKnows
<1>1. LedgerTyped => LearnsWhatLedgerKnows
  <2> SUFFICES ASSUME LedgerTyped, NEW t \in Audited, NEW hints \in {h \in Hints : Supplements(h)}
               PROVE  LET input == MapAuditTaskToPrivacyInput(t, hints)
                          record == NormalizeTenantRecord(input)
                          Runs == {c \in t.comps : c.ev.type = "ci_run_recorded"}
                      IN /\ Rejection(input) = Rejection(HintsAlone(hints))
                         /\ ~({"task_class", "language_family"} \subseteq DOMAIN hints) =>
                              Rejection(input) \in {"forbidden_field", "unknown_input_field",
                                                    "missing_required_field"}
                         /\ Rejection(input) = None =>
                              /\ record.cost_bucket =
                                   IF KnownCost(t) = 0 THEN "unknown"
                                   ELSE Bucket("cost_bucket", KnownCost(t))
                              /\ record.ci_result = "passed" =>
                                   Runs # {} /\ \A c \in Runs : c.ev.status = "passed"
                              /\ record.outcome = "pr_merged" =>
                                   t.merged # {} /\ t.merged \cap t.reverts = {}
    BY Zenon DEF LearnsWhatLedgerKnows
  <2> DEFINE input == MapAuditTaskToPrivacyInput(t, hints)
             record == NormalizeTenantRecord(input)
             Of(i) == Resolve(INPUT_SPECS[i], input[INPUT_SPECS[i].key])
             Value(f) == IF Source(input, f) = {} THEN Defaults[f]
                         ELSE Of(CHOOSE i \in Source(input, f) : TRUE)
  <2>1. Bridged(input, t, hints) /\ Supplements(hints)
    BY AuditedStates, BridgeSays
  <2>2. /\ record.cost_bucket = Value("cost_bucket") /\ record.ci_result = Value("ci_result")
        /\ record.outcome = Value("outcome")
    BY DEF NormalizeTenantRecord
  <2> HIDE DEF input, record
  <2>3. Rejection(input) = Rejection(HintsAlone(hints))
    BY <2>1, RejectedForHints
  <2>4. /\ Source(input, "outcome") = {4}
        /\ Source(input, "cost_bucket") = IF KnownCost(t) > 0 THEN {6} ELSE {}
        /\ Source(input, "ci_result") = IF CiRuns(t) # {} THEN {3} ELSE {}
    BY <2>1, BridgeSources
  <2>5. \A i : (CHOOSE j \in {i} : TRUE) = i
    OBVIOUS
  <2>6. \A key, to, v : /\ Resolve(InputSpec(key, "enum", to), Enum(v)) = v
                        /\ Resolve(InputSpec(key, "number", to), Number(v)) = Bucket(to, v)
                        /\ InputSpec(key, "enum", to).key = key /\ InputSpec(key, "number", to).key = key
    BY DEF Resolve, InputSpec, Enum, Number
  <2>7. Of(4) = MapOutcome(t)
    BY <2>1, <2>6, SpecsAre DEF Bridged
  <2>8. KnownCost(t) > 0 => Of(6) = Bucket("cost_bucket", KnownCost(t))
    BY <2>1, <2>6, SpecsAre DEF Bridged
  <2>9. CiRuns(t) # {} => Of(3) = DeriveCiResult(CiRuns(t))
    BY <2>1, <2>6, SpecsAre DEF Bridged
  <2>10. Defaults["cost_bucket"] = "unknown" /\ Defaults["ci_result"] = "none"
    BY DEF Defaults
  <2> HIDE DEF Of
  <2>11. /\ Value("outcome") = MapOutcome(t)
         /\ Value("cost_bucket") =
              IF KnownCost(t) > 0 THEN Bucket("cost_bucket", KnownCost(t)) ELSE "unknown"
         /\ Value("ci_result") = IF CiRuns(t) # {} THEN DeriveCiResult(CiRuns(t)) ELSE "none"
    BY <2>4, <2>5, <2>7, <2>8, <2>9, <2>10
  <2> HIDE DEF Value
  <2>12. record.cost_bucket =
           IF KnownCost(t) = 0 THEN "unknown" ELSE Bucket("cost_bucket", KnownCost(t))
    <3>1. KnownCost(t) \in Nat
      BY <2>1 DEF Bridged
    <3> QED  BY <2>2, <2>11, <3>1
  <2>13. record.ci_result = "passed" => CiRuns(t) # {} /\ \A c \in CiRuns(t) : c.ev.status = "passed"
    BY <2>2, <2>11, DerivedValues
  <2>14. record.outcome = "pr_merged" => t.merged # {} /\ t.merged \cap t.reverts = {}
    BY <2>2, <2>11, DerivedValues
  <2>15. ~({"task_class", "language_family"} \subseteq DOMAIN hints) =>
           Rejection(input) \in {"forbidden_field", "unknown_input_field", "missing_required_field"}
    <3>1. Required \subseteq DOMAIN input => {"task_class", "language_family"} \subseteq DOMAIN hints
      BY <2>1 DEF Bridged, Required
    <3>2. ~(Required \subseteq DOMAIN input) =>
            Rejection(input) \in {"forbidden_field", "unknown_input_field", "missing_required_field"}
      BY DEF Rejection
    <3> QED  BY <3>1, <3>2
  <2> QED  BY <2>3, <2>12, <2>13, <2>14, <2>15 DEF CiRuns, input, record
<1> QED  BY <1>1, LedgerAlwaysTyped, PTL

=============================================================================
