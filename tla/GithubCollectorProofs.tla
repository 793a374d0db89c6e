------------------------ MODULE GithubCollectorProofs ------------------------
(***************************************************************************)
(* What is proved of the sweep of a repository that moves while it is      *)
(* read: of the answers that can be read nothing is silently missed, jobs  *)
(* are filed where they belong, and only a run that starts while runs are  *)
(* listed makes the ledger refuse the sweep; and the bundle of a sweep     *)
(* charges nothing but work dated after a close.                           *)
(*                                                                         *)
(* Pages miss nothing because of where entries stand.  Pull requests keep  *)
(* their places (PlaceOf), and a run only moves away from the head of its  *)
(* listing (Rank), so that what is not listed yet stands beyond the pages  *)
(* asked for.  Those are PullsInv and RunsInv; CommitsInv, ChecksInv,      *)
(* JobsInv and PlacedInv say the like of the later phases.  Where an       *)
(* answer was unreadable they promise nothing but that no entry comes      *)
(* twice.  DatesInv says that what was read was opened before it was       *)
(* closed.                                                                 *)
(***************************************************************************)
EXTENDS GithubCollector, FiniteSums, SequenceTheorems, FunctionTheorems

-----------------------------------------------------------------------------
(* Lists in ascending order.                                               *)

(* f lists the numbers of S in ascending order. *)
Rises(f, S) ==
  /\ f \in [1..Cardinality(S) -> S]
  /\ \A i, j \in 1..Cardinality(S) : i < j => f[i] < f[j]

(* Every finite set of naturals can be listed so. *)
LEMMA RisingExists ==
  ASSUME NEW S \in SUBSET Nat, IsFiniteSet(S)
  PROVE  \E f : Rises(f, S)
<1> DEFINE good == {s \in SUBSET S : \E f : Rises(f, s)}
<1>1. ASSUME NEW s \in SUBSET S, \A r \in SUBSET s : r # s => r \in good
      PROVE  s \in good
  <2>1. CASE s = {}
    <3>1. Cardinality({}) = 0
      BY FS_EmptySet
    <3>2. Rises([i \in 1..0 |-> 0], {})
      BY <3>1 DEF Rises
    <3> QED  BY <2>1, <3>2
  <2>2. CASE s # {}
    <3>1. PICK m \in s : \A n \in s : m <= n
      BY <2>2, LeastNatural
    <3>2. PICK f : Rises(f, s \ {m})
      BY <1>1
    <3>3. /\ Cardinality(s) \in Nat /\ IsFiniteSet(s)
          /\ Cardinality(s \ {m}) = Cardinality(s) - 1 /\ Cardinality(s) >= 1
      <4>1. IsFiniteSet(s) /\ IsFiniteSet(s \ {m})
        BY FS_Subset
      <4> QED  BY <4>1, FS_RemoveElement, FS_CardinalityType
    <3> DEFINE N == Cardinality(s)
               g == [i \in 1..N |-> IF i = 1 THEN m ELSE f[i - 1]]
    <3>4. /\ f \in [1..(N - 1) -> s \ {m}]
          /\ \A i, j \in 1..(N - 1) : i < j => f[i] < f[j]
      BY <3>2, <3>3 DEF Rises
    <3> HIDE DEF N
    <3>5. N \in Nat /\ N >= 1
      BY <3>3 DEF N
    <3>6. \A i \in 1..N : i # 1 => i - 1 \in 1..(N - 1) /\ f[i - 1] \in s /\ m < f[i - 1]
      <4>1. \A n \in s : n \in Nat
        OBVIOUS
      <4>2. ASSUME NEW i \in 1..N, i # 1 PROVE i - 1 \in 1..(N - 1)
        BY <3>5, <4>2
      <4>3. \A k \in 1..(N - 1) : f[k] \in s \ {m}
        BY <3>4
      <4>4. \A k \in 1..(N - 1) : f[k] \in s /\ m < f[k]
        <5>1. \A x \in s \ {m} : x \in s /\ m < x
          BY <3>1, <4>1
        <5> QED  BY <4>3, <5>1
      <4> QED  BY <4>2, <4>4
    <3>7. g \in [1..N -> s]
      BY <3>6
    <3>8. ASSUME NEW i \in 1..N, NEW j \in 1..N, i < j PROVE g[i] < g[j]
      <4>1. j # 1 /\ g[j] = f[j - 1]
        BY <3>8
      <4>2. CASE i = 1
        BY <3>6, <4>1, <4>2
      <4>3. CASE i # 1
        <5>1. g[i] = f[i - 1] /\ i - 1 \in 1..(N - 1) /\ j - 1 \in 1..(N - 1) /\ i - 1 < j - 1
          BY <3>6, <3>8, <4>1, <4>3
        <5> QED  BY <3>4, <4>1, <5>1
      <4> QED  BY <4>2, <4>3
    <3>9. Rises(g, s)
      BY <3>7, <3>8 DEF Rises, N
    <3> QED  BY <3>9
  <2> QED  BY <2>1, <2>2
<1>2. SUBSET S \subseteq good
  <2> HIDE DEF good
  <2> QED  BY <1>1, SubsetInduction
<1> QED  BY <1>2

(* Ascending(S) has every number of S, and no other, in its place. *)
LEMMA AscendingLists ==
  ASSUME NEW S \in SUBSET Nat, IsFiniteSet(S)
  PROVE  /\ Cardinality(S) \in Nat
         /\ Ascending(S) \in [1..Cardinality(S) -> S]
         /\ Ascending(S) \in Seq(S) /\ Len(Ascending(S)) = Cardinality(S)
         /\ \A i, j \in 1..Cardinality(S) : i < j => Ascending(S)[i] < Ascending(S)[j]
         /\ \A n \in S : \E i \in 1..Cardinality(S) : Ascending(S)[i] = n
<1> DEFINE f == Ascending(S)
           N == Cardinality(S)
<1>1. N \in Nat
  BY FS_CardinalityType
<1>2. Rises(f, S)
  <2>1. PICK h : Rises(h, S)
    BY RisingExists
  <2>2. /\ h \in [1..N -> S]
        /\ \A i, j \in DOMAIN h : i < j => h[i] < h[j]
    BY <2>1 DEF Rises
  <2>3. /\ f \in [1..N -> S]
        /\ \A i, j \in DOMAIN f : i < j => f[i] < f[j]
    BY <2>2, Zenon DEF Ascending
  <2>4. DOMAIN f = 1..N
    BY <2>3
  <2> QED  BY <2>3, <2>4 DEF Rises
<1> HIDE DEF f
<1>3. f \in [1..N -> S] /\ \A i, j \in 1..N : i < j => f[i] < f[j]
  BY <1>2 DEF Rises
<1>4. \A n \in S : \E i \in 1..N : f[i] = n
  <2>1. \A i, j \in 1..N : f[i] = f[j] => i = j
    <3>1. \A i \in 1..N : f[i] \in Nat
      BY <1>3
    <3> QED  BY <1>1, <1>3, <3>1
  <2>2. f \in Injection(1..N, S)
    BY <1>3, <2>1, Fun_IsInj
  <2>3. Cardinality(1..N) = N
    BY <1>1, FS_Interval
  <2>4. f \in Surjection(1..N, S)
    BY <2>2, <2>3, FS_Injection
  <2> QED  BY <2>4 DEF Surjection
<1>5. f \in Seq(S) /\ Len(f) = N
  BY <1>1, <1>3
<1> QED  BY <1>1, <1>3, <1>4, <1>5 DEF f

(* A number stands after those below it and before those above it. *)
LEMMA AscendingRanks ==
  ASSUME NEW S \in SUBSET Nat, IsFiniteSet(S), NEW i \in 1..Cardinality(S)
  PROVE  /\ Cardinality({m \in S : m <= Ascending(S)[i]}) = i
         /\ Cardinality({m \in S : m >= Ascending(S)[i]}) = Cardinality(S) - i + 1
<1> DEFINE f == Ascending(S)
           N == Cardinality(S)
           Low == {m \in S : m <= f[i]}
           High == {m \in S : m >= f[i]}
           low == [j \in 1..i |-> f[j]]
           high == [j \in 1..(N - i + 1) |-> f[i + j - 1]]
<1>1. /\ N \in Nat /\ f \in [1..N -> S]
      /\ \A j, k \in 1..N : j < k => f[j] < f[k]
      /\ \A n \in S : \E j \in 1..N : f[j] = n
  BY AscendingLists
<1> HIDE DEF f, N
<1>2. i \in 1..N /\ \A j \in 1..N : f[j] \in S /\ f[j] \in Nat
  BY <1>1 DEF N
<1>3. \A j, k \in 1..N : f[j] <= f[k] <=> j <= k
  <2>1. ASSUME NEW j \in 1..N, NEW k \in 1..N PROVE f[j] <= f[k] <=> j <= k
    <3>1. j < k => f[j] < f[k]
      BY <1>1
    <3>2. k < j => f[k] < f[j]
      BY <1>1
    <3>3. j \in Nat /\ k \in Nat /\ f[j] \in Nat /\ f[k] \in Nat
      BY <1>1, <1>2
    <3> QED  BY <3>1, <3>2, <3>3
  <2> QED  BY <2>1
<1>4. \A j, k \in 1..N : f[j] = f[k] => j = k
  <2>1. ASSUME NEW j \in 1..N, NEW k \in 1..N, f[j] = f[k] PROVE j = k
    <3>1. j <= k /\ k <= j
      BY <1>2, <1>3, <2>1
    <3> QED  BY <1>1, <3>1
  <2> QED  BY <2>1
<1>5. Cardinality(Low) = i
  <2>1. \A j \in 1..i : j \in 1..N /\ j <= i
    BY <1>1, <1>2
  <2>2. low \in [1..i -> Low]
    <3>1. \A j \in 1..i : f[j] \in Low
      BY <1>2, <1>3, <2>1
    <3> HIDE DEF Low
    <3> QED  BY <3>1
  <2>3. \A j, k \in 1..i : low[j] = low[k] => j = k
    BY <1>4, <2>1
  <2>4. \A n \in Low : \E j \in 1..i : low[j] = n
    <3>1. ASSUME NEW n \in Low PROVE \E j \in 1..i : low[j] = n
      <4>1. PICK j \in 1..N : f[j] = n
        BY <1>1
      <4>2. j \in 1..i
        BY <1>1, <1>2, <1>3, <4>1
      <4> QED  BY <4>1, <4>2
    <3> QED  BY <3>1
  <2> HIDE DEF low, Low
  <2>5. low \in Bijection(1..i, Low)
    BY <2>2, <2>3, <2>4, Fun_IsBij
  <2>6. ExistsBijection(1..i, Low) /\ i \in Nat
    BY <1>1, <1>2, <2>5 DEF ExistsBijection
  <2> QED  BY <2>6, FS_CountingElements
<1>6. Cardinality(High) = N - i + 1
  <2> DEFINE n == N - i + 1
  <2>1. n \in Nat /\ \A j \in 1..n : i + j - 1 \in 1..N /\ i <= i + j - 1
    BY <1>1, <1>2
  <2>2. high \in [1..n -> High]
    <3>1. \A j \in 1..n : f[i + j - 1] \in High
      BY <1>2, <1>3, <2>1
    <3> HIDE DEF High
    <3> QED  BY <3>1
  <2>3. \A j, k \in 1..n : high[j] = high[k] => j = k
    <3>1. ASSUME NEW j \in 1..n, NEW k \in 1..n, high[j] = high[k] PROVE j = k
      <4>1. i + j - 1 = i + k - 1
        BY <1>4, <2>1, <3>1
      <4> QED  BY <1>1, <1>2, <2>1, <4>1
    <3> QED  BY <3>1
  <2>4. \A x \in High : \E j \in 1..n : high[j] = x
    <3>1. ASSUME NEW x \in High PROVE \E j \in 1..n : high[j] = x
      <4>1. PICK k \in 1..N : f[k] = x
        BY <1>1
      <4>2. i <= k
        <5>1. f[i] <= f[k]
          BY <1>2, <4>1
        <5> QED  BY <1>2, <1>3, <5>1
      <4>3. k - i + 1 \in 1..n /\ i + (k - i + 1) - 1 = k
        BY <1>1, <1>2, <4>2
      <4>4. high[k - i + 1] = x
        BY <4>1, <4>3
      <4> QED  BY <4>3, <4>4
    <3> QED  BY <3>1
  <2>5. n \in Nat
    BY <2>1
  <2>6. high \in [1..n -> High]
    BY <2>2
  <2> HIDE DEF high, High, n
  <2>7. high \in Bijection(1..n, High)
    BY <2>6, <2>3, <2>4, Fun_IsBij
  <2>8. ExistsBijection(1..n, High)
    BY <2>7 DEF ExistsBijection
  <2> QED  BY <2>5, <2>8, FS_CountingElements DEF n
<1> QED  BY <1>5, <1>6 DEF f, N

(* What page p of a listing holds. *)
LEMMA PageHolds ==
  ASSUME NEW S, NEW L \in Seq(S), NEW p \in Nat \ {0}
  PROVE  LET b == (p - 1) * PageSize
             n == Len(Page(L, p))
         IN /\ b \in Nat /\ p * PageSize = b + PageSize
            /\ Page(L, p) \in Seq(S)
            /\ \A i \in 1..n : b + i \in 1..Len(L) /\ Page(L, p)[i] = L[b + i]
            /\ \A k \in 1..Len(L) : k > b /\ k - b \notin 1..n => k > b + PageSize /\ HasNext(L, p)
            /\ HasNext(L, p) => n = PageSize
<1> DEFINE b == (p - 1) * PageSize
           e == p * PageSize
           stop == IF e < Len(L) THEN e ELSE Len(L)
<1>1. PageSize \in Nat /\ PageSize > 0 /\ p - 1 \in Nat
  BY CollectorAssumption
<1>2. b \in Nat /\ e \in Nat /\ e = b + PageSize
  BY <1>1
<1> HIDE DEF b
<1> HIDE DEF e
<1>3. Page(L, p) = SubSeq(L, b + 1, stop) /\ (HasNext(L, p) <=> e < Len(L))
  BY DEF Page, HasNext, b, e
<1>4. Len(L) \in Nat /\ stop \in Nat /\ stop <= Len(L) /\ \A i \in 1..Len(L) : L[i] \in S
  BY <1>2
<1>5. \A i \in (b + 1)..stop : L[i] \in S
  BY <1>2, <1>4
<1>6. /\ Page(L, p) \in Seq(S)
      /\ Len(Page(L, p)) = IF b + 1 <= stop THEN stop - (b + 1) + 1 ELSE 0
      /\ \A i \in 1..(stop - (b + 1) + 1) : Page(L, p)[i] = L[(b + 1) + i - 1]
  <2>1. b + 1 \in Int /\ stop \in Int
    BY <1>2, <1>4
  <2> HIDE DEF stop
  <2> QED  BY <1>3, <1>5, <2>1, SubSeqProperties
<1> DEFINE n == Len(Page(L, p))
<1>7. n = (IF b < stop THEN stop - b ELSE 0) /\ n \in Nat
  BY <1>2, <1>4, <1>6
<1>8. \A i \in 1..n : b + i \in 1..Len(L) /\ Page(L, p)[i] = L[b + i]
  <2>1. ASSUME NEW i \in 1..n PROVE b + i \in 1..Len(L) /\ Page(L, p)[i] = L[b + i]
    <3>1. i \in 1..(stop - (b + 1) + 1) /\ (b + 1) + i - 1 = b + i /\ b + i \in 1..Len(L)
      BY <1>2, <1>4, <1>7
    <3> QED  BY <1>6, <3>1
  <2> QED  BY <2>1
<1> HIDE DEF n
<1>9. \A k \in 1..Len(L) : k > b /\ k - b \notin 1..n => k > b + PageSize /\ HasNext(L, p)
  BY <1>1, <1>2, <1>3, <1>4, <1>7
<1>10. HasNext(L, p) => n = PageSize
  BY <1>1, <1>2, <1>3, <1>4, <1>7
<1> QED  BY <1>2, <1>6, <1>8, <1>9, <1>10 DEF b, e, n

-----------------------------------------------------------------------------
(* The invariant, part by part, and what a step of the repository may do.  *)

Commits == Seq([sha : Revisions, date : Nat])
Pull == [number : Tasks, created : Nat, closed : Nat, merged : Nat, commits : Commits]
RunState == [run : Runs, start : Nat, jobEnd : Nat, end : Nat, status : {"passed", None}]

(* The repository: pull requests are opened in their order, and what has   *)
(* happened has happened before the present.                               *)
RepositoryOK ==
  /\ scenario \in Scenarios /\ now \in Nat
  /\ pulls \in [Tasks -> Pull]
  /\ \A n \in Tasks :
       /\ pulls[n].number = n /\ pulls[n].created <= now
       /\ pulls[n].merged # 0 => pulls[n].closed # 0 /\ pulls[n].created # 0
       /\ n \in Opened => \A m \in Tasks : m < n => m \in Opened
  /\ ci \in [Runs -> RunState]
  /\ \A r \in Runs : ci[r].run = r /\ ci[r].start <= now

(* The work left is what its phase reads. *)
SweepOK ==
  /\ phase \in Phases \cup Ends
  /\ page \in Nat \ {0} /\ pages \in [pulls : Nat, runs : Nat]
  /\ entered \in [Phases -> Nat] /\ \A p \in Phases : entered[p] <= now
  /\ prs \in Seq(Pull) /\ \A i \in DOMAIN prs : prs[i].number \in Opened
  /\ runs \in Seq(RunState) /\ \A i \in DOMAIN runs : runs[i].run \in StartedRuns
  /\ phase = "commits" => todo \in Seq(Tasks)
  /\ phase = "jobs" => todo \in Seq(DOMAIN runs)
  /\ phase = "checks" => todo \in Seq(Revisions)
  /\ probed \subseteq Revisions
  /\ cut \subseteq {"pulls", "commits", "runs", "shas"}

(* Where a sweep that goes on has come to. *)
Listed == {"commits", "runs", "jobs", "checks", "assemble", "rejected", "refused", "reported"}
RunsListed == Listed \ {"commits", "runs"}

Before == (page - 1) * PageSize

(* A pull request keeps its place in the listing; in the listing of runs   *)
(* new ones come first.                                                    *)
PlaceOf(n) == Cardinality({m \in Tasks : m <= n})

PullsInv ==
  /\ \A i, j \in DOMAIN prs : prs[i].number = prs[j].number => i = j
  /\ phase = "pulls" =>
       /\ pages.pulls = page - 1 /\ page <= Limit("pulls")
       /\ \A i \in DOMAIN prs : PlaceOf(prs[i].number) <= Before
       /\ "pulls" \in unread \/
            \A n \in Opened : pulls[n].created <= entered["pulls"] =>
              PlaceOf(n) > Before \/ \E p \in Range(prs) : p.number = n
  /\ phase \in Listed =>
       \/ prs # <<>> /\ pages.pulls >= Limit("pulls")
       \/ "pulls" \in unread
       \/ \A n \in Opened : pulls[n].created <= entered["pulls"] =>
            \E p \in Range(prs) : p.number = n

CommitsComplete(p) ==
  p.number \in Agentic /\ p.merged # 0 /\ Len(p.commits) < Limit("commits") * PageSize =>
    p.commits = pulls[p.number].commits

CommitsSoFar(p) ==
  IF p.number \notin Range(todo) THEN CommitsComplete(p)
  ELSE IF p.number # Head(todo) THEN p.commits = <<>>
  ELSE p.merged # 0 => /\ Before <= Len(pulls[p.number].commits)
                       /\ p.commits = SubSeq(pulls[p.number].commits, 1, Before)
CommitsInv ==
  /\ \A p \in Range(prs) : p.merged # 0 => pulls[p.number].merged # 0
  /\ phase = "pulls" => \A p \in Range(prs) : p.commits = <<>>
  /\ phase = "commits" =>
       /\ page <= Limit("commits")
       /\ \A i, j \in DOMAIN todo : todo[i] = todo[j] => i = j
       /\ "commits" \in unread \/ \A p \in Range(prs) : CommitsSoFar(p)
  /\ phase \in Listed \ {"commits"} =>
       "commits" \in unread \/ \A p \in Range(prs) : CommitsComplete(p)

StartedIds == {r.id : r \in StartedRuns}
Rank(id) == Cardinality({k \in StartedIds : k >= id})
IsListed(r) == \E s \in Range(runs) : s.run.id = r.id

RunsInv ==
  /\ phase \in {"pulls", "commits"} => runs = <<>> /\ pages.runs = 0
  /\ phase = "runs" =>
       /\ Len(runs) <= Before /\ pages.runs = page - 1 /\ page <= Limit("runs")
       /\ "runs" \in unread \/
            \A r \in StartedRuns : ci[r].start <= entered["runs"] =>
              IsListed(r) \/ Rank(r.id) > Before
  /\ phase \in RunsListed =>
       \/ runs # <<>> /\ pages.runs >= Limit("runs")
       \/ "runs" \in unread
       \/ \A r \in StartedRuns : ci[r].start <= entered["runs"] => IsListed(r)

ReadShas == UNION {{c.sha : c \in Range(p.commits)} : p \in Range(prs)}

ChecksInv ==
  /\ phase \in {"pulls", "commits", "runs", "jobs"} => probed = {} /\ checked = {}
  /\ phase = "checks" => Range(todo) \subseteq ReadShas
  /\ phase \in {"checks", "assemble", "rejected", "refused", "reported"} =>
       /\ probed \subseteq ReadShas
       /\ "checks" \in unread \/ checked = probed

(* What one step of the repository may do, as the sweep sees it. *)
PullsMove ==
  /\ Opened \subseteq Opened'
  /\ \A n \in Opened' : pulls'[n].created <= now => n \in Opened /\ pulls[n].created = pulls'[n].created
  /\ \A n \in Tasks : pulls[n].merged # 0 => pulls'[n].merged # 0 /\ pulls'[n].commits = pulls[n].commits

RunsMove ==
  /\ StartedRuns \subseteq StartedRuns'
  /\ \A r \in StartedRuns' :
       \/ r \in StartedRuns /\ ci'[r].start = ci[r].start
       \/ /\ r \notin StartedRuns /\ ci'[r].start = now'
          /\ \/ r.attempt > 1 /\ r.id \in StartedIds
             \/ r.attempt = 1 /\ \A k \in StartedIds : k < r.id

(* Pull request n becomes p, or run attempt r becomes s. *)
PullSet(n, p) ==
  /\ p \in Pull /\ p.number = n /\ p.created <= now + 1
  /\ p.merged # 0 => p.closed # 0 /\ p.created # 0
  /\ \/ p.created = pulls[n].created
     \/ n \notin Opened /\ p.created = now + 1 /\ \A m \in Tasks : m < n => m \in Opened
  /\ pulls[n].merged # 0 => p.merged # 0 /\ p.commits = pulls[n].commits
  /\ Tick /\ pulls' = [pulls EXCEPT ![n] = p] /\ UNCHANGED ci

RunSet(r, s) ==
  /\ s \in RunState /\ s.run = r /\ s.start <= now + 1
  /\ \/ s.start = ci[r].start
     \/ /\ r \notin StartedRuns /\ s.start = now + 1
        /\ \/ r.attempt > 1 /\ r.id \in StartedIds
           \/ r.attempt = 1 /\ \A k \in StartedIds : k < r.id
  /\ Tick /\ ci' = [ci EXCEPT ![r] = s] /\ UNCHANGED pulls

(* A step on one pull request keeps the invariant of the repository. *)
LEMMA PullSteps ==
  ASSUME RepositoryOK, NEW n \in Tasks, NEW p, PullSet(n, p)
  PROVE  RepositoryOK' /\ PullsMove /\ RunsMove
<1> USE DEF PullSet
<1> USE DEF RepositoryOK
<1>1. /\ now \in Nat /\ now' = now + 1 /\ scenario' = scenario /\ ci' = ci
      /\ pulls \in [Tasks -> Pull]
  BY DEF Tick
<1>2. \A m \in Tasks : pulls'[m] = IF m = n THEN p ELSE pulls[m]
  OBVIOUS
<1>3. pulls' \in [Tasks -> Pull]
  OBVIOUS
<1>4. \A m \in Tasks : pulls[m].created \in Nat /\ pulls[m].created <= now
  BY <1>1 DEF Pull
<1>5. \A m \in Tasks :
        /\ pulls'[m].number = m /\ pulls'[m].created <= now'
        /\ pulls'[m].merged # 0 => pulls'[m].closed # 0 /\ pulls'[m].created # 0
        /\ m \in Opened => m \in Opened'
        /\ m \in Opened' => m \in Opened \/ m = n
        /\ m \in Opened' /\ m \notin Opened => p.created = now + 1 /\ \A q \in Tasks : q < m => q \in Opened
        /\ m \in Opened' /\ m \in Opened => pulls'[m].created = pulls[m].created
  <2>1. p.created \in Nat
    BY DEF Pull
  <2> QED  BY <1>1, <1>2, <1>4, <2>1 DEF Opened
<1>6. \A m \in Tasks : m \in Opened' => \A q \in Tasks : q < m => q \in Opened'
  BY <1>5
<1>7. \A r \in Runs : ci'[r].run = r /\ ci'[r].start <= now'
  <2>1. \A r \in Runs : ci[r].start \in Nat
    BY DEF RunState
  <2> QED  BY <1>1, <2>1
<1>8. RepositoryOK'
  BY <1>1, <1>3, <1>5, <1>6, <1>7
<1>9. PullsMove
  <2>1. Opened' \subseteq Tasks /\ Opened \subseteq Tasks
    BY DEF Opened
  <2>2. \A m \in Opened' : pulls'[m].created <= now => m \in Opened /\ pulls[m].created = pulls'[m].created
    <3>1. ASSUME NEW m \in Opened', pulls'[m].created <= now
          PROVE  m \in Opened /\ pulls[m].created = pulls'[m].created
      <4>1. m \notin Opened => pulls'[m].created = now + 1
        BY <1>2, <1>5, <2>1
      <4> QED  BY <1>1, <1>5, <2>1, <3>1, <4>1
    <3> QED  BY <3>1
  <2>3. \A m \in Tasks : pulls[m].merged # 0 => pulls'[m].merged # 0 /\ pulls'[m].commits = pulls[m].commits
    BY <1>2
  <2> QED  BY <1>5, <2>1, <2>2, <2>3 DEF PullsMove
<1>10. RunsMove
  BY <1>1 DEF RunsMove, StartedRuns
<1> QED  BY <1>8, <1>9, <1>10

(* So does a step on one run attempt. *)
LEMMA RunSteps ==
  ASSUME RepositoryOK, NEW r \in Runs, NEW s, RunSet(r, s)
  PROVE  RepositoryOK' /\ PullsMove /\ RunsMove
<1> USE DEF RunSet
<1> USE DEF RepositoryOK
<1>1. /\ now \in Nat /\ now' = now + 1 /\ scenario' = scenario /\ pulls' = pulls
      /\ ci \in [Runs -> RunState]
  BY DEF Tick
<1>2. \A q \in Runs : ci'[q] = IF q = r THEN s ELSE ci[q]
  OBVIOUS
<1>3. ci' \in [Runs -> RunState]
  OBVIOUS
<1>4. \A q \in Runs : ci[q].start \in Nat /\ ci'[q].run = q /\ ci'[q].start <= now'
  <2>1. \A q \in Runs : ci[q].start \in Nat
    BY DEF RunState
  <2> QED  BY <1>1, <1>2, <2>1
<1>5. \A n \in Tasks : pulls[n].created \in Nat /\ pulls[n].created <= now'
  <2>1. \A n \in Tasks : pulls[n].created \in Nat
    BY DEF Pull
  <2> QED  BY <1>1, <2>1
<1>6. Opened' = Opened
  BY <1>1 DEF Opened
<1>7. RepositoryOK'
  BY <1>1, <1>3, <1>4, <1>5, <1>6
<1>8. PullsMove
  BY <1>1, <1>6 DEF PullsMove, Opened
<1>9. RunsMove
  <2>1. StartedRuns \subseteq Runs /\ StartedRuns' \subseteq Runs
    BY DEF StartedRuns
  <2>2. \A q \in StartedRuns : q \in StartedRuns'
    BY <1>1, <1>2, <2>1 DEF StartedRuns
  <2>3. ASSUME NEW q \in StartedRuns', q \in StartedRuns
        PROVE  ci'[q].start = ci[q].start
    BY <1>2, <2>1, <2>3
  <2>4. ASSUME NEW q \in StartedRuns', q \notin StartedRuns
        PROVE  /\ ci'[q].start = now'
               /\ \/ q.attempt > 1 /\ q.id \in StartedIds
                  \/ q.attempt = 1 /\ \A k \in StartedIds : k < q.id
    <3>1. q = r
      BY <1>2, <2>1, <2>4 DEF StartedRuns
    <3>2. s.start # ci[r].start
      BY <1>2, <2>4, <3>1 DEF StartedRuns
    <3> QED  BY <1>1, <1>2, <3>1, <3>2
  <2> QED  BY <2>2, <2>3, <2>4 DEF RunsMove
<1> QED  BY <1>7, <1>8, <1>9

-----------------------------------------------------------------------------
(* The repository keeps its own invariant.                                 *)

(* What any step of the repository keeps, and what it may change. *)
LEMMA RepositorySteps ==
  ASSUME RepositoryOK, Repository
  PROVE  RepositoryOK' /\ PullsMove /\ RunsMove /\ now' = now + 1 /\ UNCHANGED <<scenario, sweep>>
<1>1. /\ now \in Nat /\ pulls \in [Tasks -> Pull] /\ ci \in [Runs -> RunState]
      /\ \A n \in Tasks : /\ pulls[n] \in Pull /\ pulls[n].created \in Nat
                          /\ pulls[n].number = n /\ pulls[n].created <= now
                          /\ pulls[n].merged # 0 => pulls[n].closed # 0 /\ pulls[n].created # 0
      /\ \A r \in Runs : /\ ci[r] \in RunState /\ ci[r].start \in Nat
                         /\ ci[r].run = r /\ ci[r].start <= now
  BY DEF RepositoryOK, Pull, RunState
<1>2. \A n : FirstCommit(n) \in [sha : Revisions, date : Nat]
  <2>1. PICK s \in Revisions : TRUE
    BY CollectorAssumption
  <2> QED  BY <2>1 DEF FirstCommit
<1>3. Tick => now' = now + 1 /\ UNCHANGED <<scenario, sweep>>
  BY DEF Tick
<1>4. ASSUME NEW n \in Tasks, OpenPull(n)
      PROVE  RepositoryOK' /\ PullsMove /\ RunsMove /\ Tick
  <2> DEFINE p == [pulls[n] EXCEPT !.created = now + 1, !.commits = <<FirstCommit(n)>>]
  <2>1. /\ Tick /\ UNCHANGED ci /\ n \notin Opened /\ \A m \in Tasks : m < n => m \in Opened
        /\ pulls' = [pulls EXCEPT ![n].created = now', ![n].commits = <<FirstCommit(n)>>]
    BY <1>4 DEF OpenPull
  <2>2. pulls' = [pulls EXCEPT ![n] = p]
    BY <1>1, <1>3, <2>1
  <2>3. pulls[n].created = 0 /\ pulls[n].merged = 0
    BY <1>1, <2>1 DEF Opened
  <2>4. /\ p \in Pull /\ p.number = n /\ p.created = now + 1
        /\ p.merged = pulls[n].merged
    <3>1. <<FirstCommit(n)>> \in Commits
      BY <1>2 DEF Commits
    <3>2. now + 1 \in Nat /\ pulls[n] \in Pull /\ pulls[n].number = n
      BY <1>1
    <3> QED  BY <3>1, <3>2 DEF Pull
  <2> HIDE DEF p
  <2>9. PullSet(n, p)
    <3>1. p.created <= now + 1
      BY <1>1, <2>4
    <3> QED  BY <2>1, <2>2, <2>3, <2>4, <3>1, Zenon DEF PullSet
  <2> QED  BY <2>1, <2>9, PullSteps
<1>5. ASSUME NEW n \in Tasks, NEW s \in Revisions, Push(n, s)
      PROVE  RepositoryOK' /\ PullsMove /\ RunsMove /\ Tick
  <2>1. PICK date \in Nat : pulls' = [pulls EXCEPT ![n].commits = Append(@, [sha |-> s, date |-> date])]
    <3>1. PICK kind \in scenario.dates :
            LET date == CASE kind = "now" -> now' [] kind = "none" -> 0 [] kind = "late" -> now' + 2
            IN pulls' = [pulls EXCEPT ![n].commits = Append(@, [sha |-> s, date |-> date])]
      BY <1>5 DEF Push
    <3>2. kind \in {"now", "none", "late"}
      BY CollectorAssumption DEF RepositoryOK
    <3>3. now' \in Nat
      BY <1>1, <1>3, <1>5 DEF Push
    <3> DEFINE date == CASE kind = "now" -> now' [] kind = "none" -> 0 [] kind = "late" -> now' + 2
    <3>4. date \in Nat
      BY <3>2, <3>3
    <3>5. pulls' = [pulls EXCEPT ![n].commits = Append(@, [sha |-> s, date |-> date])]
      BY <3>1
    <3> HIDE DEF date
    <3> QED  BY <3>4, <3>5
  <2> DEFINE p == [pulls[n] EXCEPT !.commits = Append(@, [sha |-> s, date |-> date])]
  <2>2. Tick /\ UNCHANGED ci /\ n \in Opened /\ pulls[n].closed = 0
    BY <1>5 DEF Push, Open
  <2>3. pulls' = [pulls EXCEPT ![n] = p]
    BY <1>1, <2>1
  <2>4. pulls[n].merged = 0
    BY <1>1, <2>2
  <2>5. /\ p \in Pull /\ p.number = n /\ p.created = pulls[n].created
        /\ p.merged = pulls[n].merged
    <3>1. pulls[n] \in Pull /\ pulls[n].number = n
      BY <1>1
    <3>2. Append(pulls[n].commits, [sha |-> s, date |-> date]) \in Commits
      BY <3>1 DEF Pull, Commits
    <3> QED  BY <3>1, <3>2 DEF Pull
  <2> HIDE DEF p
  <2>9. PullSet(n, p)
    BY <1>1, <2>2, <2>3, <2>4, <2>5 DEF PullSet
  <2> QED  BY <2>2, <2>9, PullSteps
<1>6. ASSUME NEW n \in Tasks, NEW closed \in Nat, NEW merged \in Nat,
             Redeclare(n, closed, merged), pulls[n].merged = 0,
             merged # 0 => closed # 0 /\ pulls[n].created # 0
      PROVE  RepositoryOK' /\ PullsMove /\ RunsMove /\ Tick
  <2> DEFINE p == [pulls[n] EXCEPT !.closed = closed, !.merged = merged]
  <2>1. Tick /\ UNCHANGED ci
    BY <1>6 DEF Redeclare
  <2>2. pulls' = [pulls EXCEPT ![n] = p]
    BY <1>1, <1>6 DEF Redeclare
  <2>3. /\ p \in Pull /\ p.number = n /\ p.created = pulls[n].created
        /\ p.merged = merged /\ p.closed = closed
    <3>1. pulls[n] \in Pull /\ pulls[n].number = n
      BY <1>1
    <3> QED  BY <3>1 DEF Pull
  <2> HIDE DEF p
  <2>9. PullSet(n, p)
    BY <1>1, <1>6, <2>1, <2>2, <2>3 DEF PullSet
  <2> QED  BY <2>1, <2>9, PullSteps
<1>7. ASSUME NEW n \in Tasks, Close(n) \/ Merge(n) \/ Reopen(n)
      PROVE  RepositoryOK' /\ PullsMove /\ RunsMove /\ Tick
  <2>1. now + 1 \in Nat /\ now + 1 # 0 /\ 0 \in Nat
    BY <1>1
  <2>2. CASE Close(n)
    <3>1. Redeclare(n, now + 1, 0) /\ pulls[n].closed = 0
      BY <2>2 DEF Close, Open
    <3> QED  BY <1>1, <1>6, <2>1, <3>1
  <2>3. CASE Merge(n)
    <3>1. Redeclare(n, now + 1, now + 1) /\ pulls[n].closed = 0 /\ pulls[n].created # 0
      BY <2>3 DEF Merge, Open, Opened
    <3> QED  BY <1>1, <1>6, <2>1, <3>1
  <2>4. CASE Reopen(n)
    <3>1. Redeclare(n, 0, 0) /\ pulls[n].merged = 0
      BY <2>4 DEF Reopen
    <3> QED  BY <1>6, <2>1, <3>1
  <2> QED  BY <1>7, <2>2, <2>3, <2>4
<1>8. ASSUME NEW r \in Runs, StartRun(r)
      PROVE  RepositoryOK' /\ PullsMove /\ RunsMove /\ Tick
  <2> DEFINE s == [ci[r] EXCEPT !.start = now + 1]
  <2>1. /\ Tick /\ UNCHANGED pulls /\ r \notin StartedRuns
        /\ r.attempt = 1 => \A q \in StartedRuns : q.id < r.id
        /\ r.attempt > 1 => \E q \in StartedRuns : q.id = r.id
        /\ ci' = [ci EXCEPT ![r].start = now']
    BY <1>8 DEF StartRun
  <2>2. ci' = [ci EXCEPT ![r] = s]
    BY <1>1, <1>3, <2>1
  <2>3. s \in RunState /\ s.run = r /\ s.start = now + 1
    <3>1. ci[r] \in RunState /\ ci[r].run = r /\ now + 1 \in Nat
      BY <1>1
    <3> QED  BY <3>1 DEF RunState
  <2>4. \/ r.attempt > 1 /\ r.id \in StartedIds
        \/ r.attempt = 1 /\ \A k \in StartedIds : k < r.id
    <3>1. r.attempt \in Nat /\ r.attempt > 0
      BY CollectorAssumption, MappingAssumption
    <3>2. r.attempt = 1 \/ r.attempt > 1
      BY <3>1
    <3> QED  BY <2>1, <3>2 DEF StartedIds
  <2> HIDE DEF s
  <2>9. RunSet(r, s)
    <3>1. s.start <= now + 1
      BY <1>1, <2>3
    <3> QED  BY <2>1, <2>2, <2>3, <2>4, <3>1, Zenon DEF RunSet
  <2> QED  BY <2>1, <2>9, RunSteps
<1>9. ASSUME NEW r \in Runs, EndRun(r)
      PROVE  RepositoryOK' /\ PullsMove /\ RunsMove /\ Tick
  <2>1. PICK status \in {"passed", None} :
          ci' = [ci EXCEPT ![r].jobEnd = now', ![r].end = now', ![r].status = status]
    BY <1>9 DEF EndRun
  <2> DEFINE s == [ci[r] EXCEPT !.jobEnd = now + 1, !.end = now + 1, !.status = status]
  <2>2. Tick /\ UNCHANGED pulls
    BY <1>9 DEF EndRun
  <2>3. ci' = [ci EXCEPT ![r] = s]
    BY <1>1, <1>3, <2>1, <2>2
  <2>4. s \in RunState /\ s.run = r /\ s.start = ci[r].start
    <3>1. ci[r] \in RunState /\ ci[r].run = r /\ now + 1 \in Nat
      BY <1>1
    <3> QED  BY <3>1 DEF RunState
  <2> HIDE DEF s
  <2>9. RunSet(r, s)
    BY <1>1, <2>2, <2>3, <2>4 DEF RunSet
  <2> QED  BY <2>2, <2>9, RunSteps
<1>10. RepositoryOK' /\ PullsMove /\ RunsMove /\ Tick
  <2>1. CASE \E n \in Tasks : OpenPull(n) \/ Close(n) \/ Merge(n) \/ Reopen(n)
    BY <1>4, <1>7, <2>1
  <2>2. CASE \E n \in Tasks, s \in Revisions : Push(n, s)
    BY <1>5, <2>2
  <2>3. CASE \E r \in Runs : StartRun(r) \/ EndRun(r)
    BY <1>8, <1>9, <2>3
  <2> QED  BY <2>1, <2>2, <2>3 DEF Repository
<1> QED  BY <1>3, <1>10

-----------------------------------------------------------------------------
(* Listings.                                                               *)

(* Tasks, runs and what there is of them are finite sets of numbers. *)
LEMMA SetsOfTheRepository ==
  /\ IsFiniteSet(Tasks) /\ Tasks \in SUBSET Nat
  /\ Opened \in SUBSET Nat /\ IsFiniteSet(Opened) /\ Opened \subseteq Tasks
  /\ StartedRuns \subseteq Runs /\ IsFiniteSet(StartedRuns)
  /\ StartedIds \in SUBSET Nat /\ IsFiniteSet(StartedIds)
  /\ \A r \in Runs : r.id \in Nat /\ r.attempt \in Nat
<1>1. IsFiniteSet(Tasks) /\ Tasks \in SUBSET Nat
  BY VocabularyAssumption
<1>2. Opened \subseteq Tasks /\ StartedRuns \subseteq Runs
  BY DEF Opened, StartedRuns
<1>3. IsFiniteSet(Opened) /\ IsFiniteSet(StartedRuns)
  BY <1>1, <1>2, CollectorAssumption, FS_Subset
<1>4. \A r \in Runs : r.id \in Nat /\ r.attempt \in Nat
  BY MappingAssumption
<1>5. IsFiniteSet(StartedIds)
  <2> DEFINE f == [r \in StartedRuns |-> r.id]
  <2>1. IsFiniteSet({f[r] : r \in StartedRuns})
    BY <1>3, FiniteImage
  <2>2. StartedIds = {f[r] : r \in StartedRuns}
    BY DEF StartedIds
  <2> QED  BY <2>1, <2>2
<1>6. StartedIds \in SUBSET Nat
  BY <1>2, <1>4 DEF StartedIds
<1> QED  BY <1>1, <1>2, <1>3, <1>4, <1>5, <1>6

(* No two pull requests have the same place. *)
LEMMA PlacesDiffer ==
  ASSUME NEW m \in Tasks, NEW n \in Tasks, PlaceOf(m) = PlaceOf(n)
  PROVE  m = n
<1> DEFINE Upto(k) == {q \in Tasks : q <= k}
<1>1. \A j, k \in Tasks : j < k => PlaceOf(j) # PlaceOf(k)
  <2>1. ASSUME NEW j \in Tasks, NEW k \in Tasks, j < k, PlaceOf(j) = PlaceOf(k)
        PROVE  FALSE
    <3>1. j \in Nat /\ k \in Nat /\ \A q \in Tasks : q \in Nat
      BY SetsOfTheRepository
    <3>2. Upto(j) \in SUBSET Upto(k) /\ IsFiniteSet(Upto(k))
      <4>1. Upto(k) \in SUBSET Tasks /\ IsFiniteSet(Tasks)
        BY SetsOfTheRepository
      <4>2. IsFiniteSet(Upto(k))
        <5> HIDE DEF Upto
        <5> QED  BY <4>1, FS_Subset
      <4>3. \A q \in Tasks : q <= j => q <= k
        BY <2>1, <3>1
      <4> QED  BY <4>2, <4>3
    <3>3. Upto(j) = Upto(k)
      <4>1. Cardinality(Upto(j)) = Cardinality(Upto(k))
        BY <2>1 DEF PlaceOf
      <4> HIDE DEF Upto
      <4> QED  BY <3>2, <4>1, FS_Subset
    <3>4. k \in Upto(k) /\ k \notin Upto(j)
      BY <2>1, <3>1
    <3> QED  BY <3>3, <3>4
  <2> QED  BY <2>1
<1>2. m \in Nat /\ n \in Nat
  BY SetsOfTheRepository
<1>3. m < n \/ n < m \/ m = n
  BY <1>2
<1> QED  BY <1>1, <1>3

(* Pull requests are listed in the order in which they were opened. *)
LEMMA PullListingHolds ==
  ASSUME RepositoryOK
  PROVE  /\ PullListing \in Seq(Pull)
         /\ \A i \in 1..Len(PullListing) :
              LET p == PullListing[i] IN
              /\ p.number \in Opened /\ PlaceOf(p.number) = i
              /\ p.commits = <<>> /\ p.merged = pulls[p.number].merged
         /\ \A n \in Opened : PlaceOf(n) \in 1..Len(PullListing) /\ PullListing[PlaceOf(n)].number = n
<1> DEFINE f == Ascending(Opened)
           N == Cardinality(Opened)
<1>1. Opened \in SUBSET Nat /\ IsFiniteSet(Opened) /\ Opened \subseteq Tasks /\ \A n \in Tasks : n \in Nat
  BY SetsOfTheRepository
<1>2. /\ N \in Nat /\ f \in [1..N -> Opened] /\ DOMAIN f = 1..N
      /\ \A n \in Opened : \E i \in 1..N : f[i] = n
  BY <1>1, AscendingLists
<1> HIDE DEF f, N
<1>3. \A i \in 1..N : f[i] \in Opened /\ PlaceOf(f[i]) = i
  <2>1. ASSUME NEW i \in 1..N PROVE f[i] \in Opened /\ PlaceOf(f[i]) = i
    <3>1. f[i] \in Opened
      BY <1>2
    <3>2. {m \in Opened : m <= f[i]} = {m \in Tasks : m <= f[i]}
      <4>1. \A m \in Tasks : m <= f[i] => m \in Opened
        <5>1. \A m \in Tasks : m < f[i] => m \in Opened
          BY <1>1, <3>1 DEF RepositoryOK
        <5>2. \A m \in Tasks : m <= f[i] => m < f[i] \/ m = f[i]
          <6>1. f[i] \in Nat /\ \A m \in Tasks : m \in Nat
            BY <1>1, <3>1
          <6> QED  BY <6>1
        <5> QED  BY <3>1, <5>1, <5>2
      <4> QED  BY <1>1, <4>1
    <3>3. Cardinality({m \in Opened : m <= f[i]}) = i
      BY <1>1, AscendingRanks DEF f, N
    <3> QED  BY <3>1, <3>2, <3>3 DEF PlaceOf
  <2> QED  BY <2>1
<1>4. PullListing = [i \in 1..N |-> [pulls[f[i]] EXCEPT !.commits = <<>>]]
  <2>1. PullListing = [i \in DOMAIN f |-> [pulls[f[i]] EXCEPT !.commits = <<>>]]
    BY Zenon DEF PullListing, f
  <2> QED  BY <1>2, <2>1
<1>5. \A n \in Tasks :
        LET p == [pulls[n] EXCEPT !.commits = <<>>] IN
        p \in Pull /\ p.number = n /\ p.commits = <<>> /\ p.merged = pulls[n].merged
  <2>1. ASSUME NEW n \in Tasks
        PROVE  LET p == [pulls[n] EXCEPT !.commits = <<>>] IN
               p \in Pull /\ p.number = n /\ p.commits = <<>> /\ p.merged = pulls[n].merged
    <3>1. pulls[n] \in Pull /\ pulls[n].number = n
      BY DEF RepositoryOK
    <3>2. <<>> \in Commits
      BY DEF Commits
    <3> QED  BY <3>1, <3>2 DEF Pull
  <2> QED  BY <2>1
<1>6. PullListing \in Seq(Pull) /\ Len(PullListing) = N
  <2>1. \A i \in 1..N : [pulls[f[i]] EXCEPT !.commits = <<>>] \in Pull
    BY <1>1, <1>3, <1>5
  <2> DEFINE L == [i \in 1..N |-> [pulls[f[i]] EXCEPT !.commits = <<>>]]
  <2>2. L \in [1..N -> Pull]
    BY <2>1
  <2> HIDE DEF L
  <2>3. L \in Seq(Pull) /\ Len(L) = N
    BY <1>2, <2>2
  <2> QED  BY <1>4, <2>3 DEF L
<1>7. \A i \in 1..N :
        LET p == PullListing[i] IN
        /\ p.number = f[i] /\ p.number \in Opened /\ PlaceOf(p.number) = i
        /\ p.commits = <<>> /\ p.merged = pulls[p.number].merged
  <2>1. ASSUME NEW i \in 1..N
        PROVE  LET p == PullListing[i] IN
               /\ p.number = f[i] /\ p.number \in Opened /\ PlaceOf(p.number) = i
               /\ p.commits = <<>> /\ p.merged = pulls[p.number].merged
    <3>1. PullListing[i] = [pulls[f[i]] EXCEPT !.commits = <<>>]
      BY <1>4
    <3>2. f[i] \in Tasks /\ f[i] \in Opened /\ PlaceOf(f[i]) = i
      BY <1>1, <1>3
    <3> DEFINE q == [pulls[f[i]] EXCEPT !.commits = <<>>]
    <3>3. q.number = f[i] /\ q.commits = <<>> /\ q.merged = pulls[f[i]].merged
      BY <1>5, <3>2
    <3> HIDE DEF q
    <3>4. PullListing[i] = q
      BY <3>1 DEF q
    <3> QED  BY <3>2, <3>3, <3>4
  <2> QED  BY <2>1
<1>8. \A n \in Opened : PlaceOf(n) \in 1..N /\ PullListing[PlaceOf(n)].number = n
  BY <1>2, <1>3, <1>7
<1> QED  BY <1>6, <1>7, <1>8

(* Every run that was started has a latest attempt. *)
LEMMA LatestExists ==
  ASSUME NEW k \in StartedIds
  PROVE  LatestOf(k) \in Latest /\ LatestOf(k).id = k
<1> DEFINE S == {r \in StartedRuns : r.id = k}
           f == [r \in S |-> r.attempt]
           A == {f[r] : r \in S}
<1>1. StartedRuns \subseteq Runs /\ IsFiniteSet(StartedRuns) /\ \A r \in Runs : r.attempt \in Nat
  BY SetsOfTheRepository
<1>2. IsFiniteSet(S)
  BY <1>1, FS_Subset
<1>3. IsFiniteSet(A)
  <2> HIDE DEF S
  <2> QED  BY <1>2, FiniteImage
<1>4. A \in SUBSET Nat /\ A # {}
  BY <1>1 DEF StartedIds
<1>5. PICK m \in A : \A a \in A : a <= m
  <2> HIDE DEF A
  <2> DEFINE g == Ascending(A)
             N == Cardinality(A)
  <2>1. /\ N \in Nat /\ g \in [1..N -> A] /\ \A i, j \in 1..N : i < j => g[i] < g[j]
        /\ \A a \in A : \E i \in 1..N : g[i] = a
    BY <1>3, <1>4, AscendingLists
  <2> HIDE DEF g, N
  <2>2. N \in 1..N
    <3>1. PICK a \in A : TRUE
      BY <1>4
    <3>2. PICK i \in 1..N : g[i] = a
      BY <2>1
    <3> QED  BY <2>1, <3>2
  <2>3. ASSUME NEW a \in A PROVE a <= g[N]
    <3>1. PICK i \in 1..N : g[i] = a
      BY <2>1
    <3>2. i < N \/ i = N
      BY <2>1
    <3>3. a \in Nat /\ g[N] \in Nat
      BY <1>4, <2>1, <2>2
    <3>4. i < N => a < g[N]
      BY <2>1, <2>2, <3>1
    <3> QED  BY <3>1, <3>2, <3>3, <3>4
  <2> QED  BY <2>1, <2>2, <2>3
<1>6. PICK r \in S : r.attempt = m
  OBVIOUS
<1>7. r \in Latest /\ r.id = k
  <2>1. \A q \in StartedRuns : q.id = r.id => q.attempt \in A
    OBVIOUS
  <2> HIDE DEF A
  <2> QED  BY <1>5, <1>6, <2>1 DEF Latest
<1> QED  BY <1>7 DEF LatestOf

(* Runs are listed by the number of runs there are from theirs on. *)
LEMMA RunListingHolds ==
  ASSUME RepositoryOK
  PROVE  /\ RunListing \in Seq(RunState)
         /\ \A i \in 1..Len(RunListing) :
              LET s == RunListing[i] IN
              s.run \in Latest /\ s = ci[s.run] /\ Rank(s.run.id) = i
         /\ \A k \in StartedIds : Rank(k) \in 1..Len(RunListing) /\ RunListing[Rank(k)].run.id = k
<1> DEFINE f == Ascending(StartedIds)
           N == Cardinality(StartedIds)
           g == Reverse(f)
<1>1. /\ StartedIds \in SUBSET Nat /\ IsFiniteSet(StartedIds)
      /\ StartedRuns \subseteq Runs
  BY SetsOfTheRepository
<1>2. /\ N \in Nat /\ f \in [1..N -> StartedIds] /\ Len(f) = N
      /\ \A k \in StartedIds : \E i \in 1..N : f[i] = k
  BY <1>1, AscendingLists
<1>3. \A i \in 1..N : Rank(f[i]) = N - i + 1
  BY <1>1, AscendingRanks DEF Rank
<1>4. {r.id : r \in Latest} = StartedIds
  <2>1. \A k \in StartedIds : k \in {r.id : r \in Latest}
    BY LatestExists
  <2>2. \A r \in Latest : r.id \in StartedIds
    BY DEF Latest, StartedIds
  <2> QED  BY <2>1, <2>2
<1> HIDE DEF f, N
<1>5. /\ g \in [1..N -> StartedIds] /\ DOMAIN g = 1..N
      /\ \A i \in 1..N : g[i] \in StartedIds /\ Rank(g[i]) = i
      /\ \A k \in StartedIds : \E i \in 1..N : g[i] = k
  <2>1. g = [i \in 1..N |-> f[N - i + 1]]
    BY <1>2 DEF Reverse
  <2>2. \A i \in 1..N : N - i + 1 \in 1..N /\ N - (N - i + 1) + 1 = i
    BY <1>2
  <2>3. \A i \in 1..N : g[i] = f[N - i + 1]
    BY <2>1
  <2>4. \A i \in 1..N : f[N - i + 1] \in StartedIds /\ Rank(f[N - i + 1]) = i
    BY <1>2, <1>3, <2>2
  <2>5. \A k \in StartedIds : \E i \in 1..N : f[N - i + 1] = k
    <3>1. ASSUME NEW k \in StartedIds PROVE \E i \in 1..N : f[N - i + 1] = k
      <4>1. PICK i \in 1..N : f[i] = k
        BY <1>2
      <4>2. N - i + 1 \in 1..N /\ N - (N - i + 1) + 1 = i
        BY <2>2
      <4> QED  BY <4>1, <4>2
    <3> QED  BY <3>1
  <2> HIDE DEF g
  <2> QED  BY <2>1, <2>3, <2>4, <2>5
<1>6. RunListing = [i \in 1..N |-> ci[LatestOf(g[i])]]
  <2>1. g = Reverse(Ascending({r.id : r \in Latest}))
    BY <1>4 DEF f
  <2> HIDE DEF g
  <2> QED  BY <1>5, <2>1 DEF RunListing
<1> HIDE DEF g
<1>7. \A i \in 1..N :
        LET s == RunListing[i] IN
        s \in RunState /\ s.run \in Latest /\ s.run.id = g[i] /\ s = ci[s.run] /\ Rank(s.run.id) = i
  <2>1. ASSUME NEW i \in 1..N
        PROVE  LET s == RunListing[i] IN
               s \in RunState /\ s.run \in Latest /\ s.run.id = g[i] /\ s = ci[s.run] /\ Rank(s.run.id) = i
    <3> DEFINE r == LatestOf(g[i])
    <3>1. r \in Latest /\ r.id = g[i] /\ Rank(g[i]) = i
      BY <1>5, LatestExists
    <3>2. r \in Runs
      BY <1>1, <3>1 DEF Latest
    <3>3. ci[r] \in RunState /\ ci[r].run = r
      BY <3>2 DEF RepositoryOK
    <3>4. RunListing[i] = ci[r]
      BY <1>6
    <3> HIDE DEF r
    <3> QED  BY <3>1, <3>3, <3>4
  <2> QED  BY <2>1
<1>8. RunListing \in Seq(RunState) /\ Len(RunListing) = N
  <2>1. DOMAIN RunListing = 1..N
    BY <1>6
  <2>2. RunListing \in [1..N -> RunState]
    BY <1>6, <1>7
  <2> QED  BY <1>2, <2>2
<1>9. \A k \in StartedIds : Rank(k) \in 1..N /\ RunListing[Rank(k)].run.id = k
  BY <1>5, <1>7
<1> QED  BY <1>7, <1>8, <1>9

-----------------------------------------------------------------------------
(* Sequences put together from others.                                     *)

(* g[i] is the concatenation of the first i of the sequences ss.           *)
Joins(g, ss, n) == g = [i \in 1..n |-> IF i = 1 THEN ss[i] ELSE g[i - 1] \o ss[i]]

(* Finitely many sequences can be joined one after the other. *)
LEMMA JoinsExist ==
  ASSUME NEW ss, NEW N \in Nat
  PROVE  \E g : Joins(g, ss, N)
<1> DEFINE good == {n \in Nat : \E g : Joins(g, ss, n)}
<1>1. 0 \in good
  <2>1. Joins([i \in 1..0 |-> 0], ss, 0)
    BY DEF Joins
  <2> QED  BY <2>1
<1>2. ASSUME NEW n \in Nat, n \in good PROVE n + 1 \in good
  <2>1. PICK g : Joins(g, ss, n)
    BY <1>2
  <2> DEFINE h == [i \in 1..(n + 1) |-> IF i <= n THEN g[i]
                                        ELSE IF i = 1 THEN ss[i] ELSE g[i - 1] \o ss[i]]
             k == [i \in 1..(n + 1) |-> IF i = 1 THEN ss[i] ELSE h[i - 1] \o ss[i]]
  <2>2. \A i \in 1..n : g[i] = IF i = 1 THEN ss[i] ELSE g[i - 1] \o ss[i]
    BY <2>1, Zenon DEF Joins
  <2>3. ASSUME NEW i \in 1..(n + 1) PROVE h[i] = IF i = 1 THEN ss[i] ELSE h[i - 1] \o ss[i]
    <3>1. i # 1 => i - 1 \in 1..(n + 1) /\ i - 1 <= n
      OBVIOUS
    <3>2. i # 1 => h[i - 1] = g[i - 1]
      BY <3>1
    <3>3. i <= n => i \in 1..n
      OBVIOUS
    <3>4. h[i] = IF i = 1 THEN ss[i] ELSE g[i - 1] \o ss[i]
      BY <2>2, <3>3
    <3> HIDE DEF h
    <3> QED  BY <3>2, <3>4
  <2>4. h = [i \in 1..(n + 1) |-> h[i]]
    OBVIOUS
  <2>5. Joins(h, ss, n + 1)
    <3> HIDE DEF h
    <3> QED  BY <2>3, <2>4, Zenon DEF Joins
  <2> QED  BY <2>5
<1>3. Nat \subseteq good
  <2> HIDE DEF good
  <2> QED  BY <1>1, <1>2, NumberInduction
<1> QED  BY <1>3

(* FlattenSeq keeps everything that is in the sequences, and nothing else. *)
LEMMA FlattenHolds ==
  ASSUME NEW S, NEW ss \in Seq(Seq(S))
  PROVE  /\ FlattenSeq(ss) \in Seq(S)
         /\ \A x : x \in Range(FlattenSeq(ss)) <=> \E i \in 1..Len(ss) : x \in Range(ss[i])
<1> DEFINE N == Len(ss)
           g == CHOOSE f : Joins(f, ss, N)
<1>1. N \in Nat /\ \A i \in 1..N : ss[i] \in Seq(S)
  OBVIOUS
<1>2. Joins(g, ss, N)
  BY <1>1, JoinsExist
<1>3. FlattenSeq(ss) = IF N = 0 THEN ss ELSE g[N]
  BY Zenon DEF FlattenSeq, Joins
<1> HIDE DEF g, N
<1>4. \A i \in 1..N : g[i] = IF i = 1 THEN ss[i] ELSE g[i - 1] \o ss[i]
  BY <1>2, Zenon DEF Joins
<1> DEFINE Holds(n) == /\ g[n] \in Seq(S)
                       /\ \A x : x \in Range(g[n]) <=> \E i \in 1..n : x \in Range(ss[i])
           good == {n \in Nat : n \in 1..N => Holds(n)}
<1>5. ASSUME NEW n \in Nat, n \in good PROVE n + 1 \in good
  <2>1. CASE n + 1 \notin 1..N
    BY <2>1
  <2>2. CASE n + 1 \in 1..N /\ n = 0
    <3>1. g[1] = ss[1] /\ ss[1] \in Seq(S)
      BY <1>1, <1>4, <2>2
    <3>2. 1..1 = {1}
      OBVIOUS
    <3>3. Holds(1)
      BY <3>1, <3>2
    <3> QED  BY <2>2, <3>3
  <2>3. CASE n + 1 \in 1..N /\ n # 0
    <3>1. n \in 1..N /\ n + 1 # 1 /\ (n + 1) - 1 = n
      BY <1>1, <2>3
    <3>2. Holds(n)
      BY <1>5, <3>1
    <3>3. g[n + 1] = g[n] \o ss[n + 1] /\ ss[n + 1] \in Seq(S)
      BY <1>1, <1>4, <2>3, <3>1
    <3>4. g[n + 1] \in Seq(S) /\ Range(g[n + 1]) = Range(g[n]) \cup Range(ss[n + 1])
      BY <3>2, <3>3, ConcatProperties, RangeConcatenation
    <3>5. \A i : i \in 1..(n + 1) <=> i \in 1..n \/ i = n + 1
      OBVIOUS
    <3>6. Holds(n + 1)
      BY <3>2, <3>4, <3>5
    <3> HIDE DEF Holds
    <3> QED  BY <3>6
  <2> QED  BY <2>1, <2>2, <2>3
<1>6. 0 \in good
  OBVIOUS
<1>7. Nat \subseteq good
  <2> HIDE DEF good
  <2> QED  BY <1>5, <1>6, NumberInduction
<1>8. CASE N = 0
  <2>1. ss = <<>> /\ Len(ss) = 0
    BY <1>8 DEF N
  <2>2. FlattenSeq(ss) = ss
    BY <1>3, <1>8
  <2>3. ss \in Seq(S)
    BY <2>1
  <2>4. DOMAIN ss = 1..0
    BY <2>1
  <2>5. \A i : i \notin 1..0
    OBVIOUS
  <2>6. \A x : x \notin Range(ss)
    BY <2>4, <2>5, Zenon DEF Range
  <2>7. \A i : i \notin 1..Len(ss)
    BY <2>1, <2>5
  <2> QED  BY <2>2, <2>3, <2>6, <2>7, Zenon
<1>9. CASE N # 0
  <2>1. N \in good
    <3> HIDE DEF good
    <3> QED  BY <1>1, <1>7
  <2>2a. N \in 1..N
    BY <1>1, <1>9
  <2>2. Holds(N)
    <3> HIDE DEF Holds
    <3> QED  BY <2>1, <2>2a
  <2>3. FlattenSeq(ss) = g[N] /\ N = Len(ss)
    BY <1>3, <1>9 DEF N
  <2> QED  BY <2>2, <2>3
<1> QED  BY <1>8, <1>9

(* distinctRevisionShas leaves out no revision and adds none. *)
LEMMA DistinctRevisionsHold ==
  ASSUME prs \in Seq(Pull)
  PROVE  /\ DistinctRevisions \in Seq(Revisions)
         /\ Range(DistinctRevisions) = ReadShas
         /\ IsFiniteSet(ReadShas) /\ Cardinality(ReadShas) <= Len(DistinctRevisions)
<1> DEFINE Shas(p) == [j \in DOMAIN p.commits |-> p.commits[j].sha]
           ss == [i \in DOMAIN prs |-> Shas(prs[i])]
           all == FlattenSeq(ss)
           firsts == {k \in DOMAIN all : \A j \in 1..(k - 1) : all[j] # all[k]}
           first == Ascending(firsts)
           N == Cardinality(firsts)
<1>1. \A p \in Pull :
        /\ Shas(p) \in Seq(Revisions)
        /\ \A x : x \in Range(Shas(p)) <=> x \in {c.sha : c \in Range(p.commits)}
  <2>1. ASSUME NEW p \in Pull
        PROVE  /\ Shas(p) \in Seq(Revisions)
               /\ \A x : x \in Range(Shas(p)) <=> x \in {c.sha : c \in Range(p.commits)}
    <3>1. p.commits \in Seq([sha : Revisions, date : Nat])
      BY DEF Pull, Commits
    <3>2. /\ Len(p.commits) \in Nat /\ DOMAIN p.commits = 1..Len(p.commits)
          /\ \A j \in 1..Len(p.commits) : p.commits[j].sha \in Revisions
      <4>1. Len(p.commits) \in Nat /\ DOMAIN p.commits = 1..Len(p.commits)
        BY <3>1
      <4>2. \A j \in 1..Len(p.commits) : p.commits[j] \in [sha : Revisions, date : Nat]
        <5> DEFINE C == [sha : Revisions, date : Nat]
        <5>1. p.commits \in Seq(C)
          BY <3>1
        <5> HIDE DEF C
        <5>2. \A j \in 1..Len(p.commits) : p.commits[j] \in C
          BY <5>1
        <5> QED  BY <5>2 DEF C
      <4>3. \A c \in [sha : Revisions, date : Nat] : c.sha \in Revisions
        OBVIOUS
      <4> QED  BY <4>1, <4>2, <4>3
    <3>3. Shas(p) \in Seq(Revisions)
      <4>1. Shas(p) = [j \in 1..Len(p.commits) |-> p.commits[j].sha]
        BY <3>2
      <4> HIDE DEF Shas
      <4> QED  BY <3>2, <4>1
    <3>4. /\ DOMAIN Shas(p) = DOMAIN p.commits
          /\ \A j \in DOMAIN p.commits : Shas(p)[j] = p.commits[j].sha
      OBVIOUS
    <3>5. \A x : x \in Range(Shas(p)) <=> \E j \in DOMAIN p.commits : x = p.commits[j].sha
      <4> HIDE DEF Shas
      <4> QED  BY <3>4 DEF Range
    <3>6. \A x : x \in {c.sha : c \in Range(p.commits)} <=> \E j \in DOMAIN p.commits : x = p.commits[j].sha
      BY Zenon DEF Range
    <3> QED  BY <3>3, <3>5, <3>6
  <2> QED  BY <2>1
<1>2. Len(prs) \in Nat /\ DOMAIN prs = 1..Len(prs) /\ \A i \in 1..Len(prs) : prs[i] \in Pull
  OBVIOUS
<1>3. ss \in Seq(Seq(Revisions)) /\ Len(ss) = Len(prs) /\ \A i \in 1..Len(prs) : ss[i] = Shas(prs[i])
  <2> HIDE DEF Shas
  <2>1. \A i \in 1..Len(prs) : Shas(prs[i]) \in Seq(Revisions)
    BY <1>1, <1>2
  <2> QED  BY <1>2, <2>1
<1> HIDE DEF ss
<1>4. all \in Seq(Revisions) /\ \A x : x \in Range(all) <=> \E i \in 1..Len(prs) : x \in Range(ss[i])
  BY <1>3, FlattenHolds
<1>5. Range(all) = ReadShas
  <2> HIDE DEF all, Shas
  <2>1. \A x : x \in Range(all) <=> \E i \in 1..Len(prs) : x \in {c.sha : c \in Range(prs[i].commits)}
    BY <1>1, <1>2, <1>3, <1>4
  <2>2. \A x : x \in ReadShas <=> \E i \in 1..Len(prs) : x \in {c.sha : c \in Range(prs[i].commits)}
    <3>1. Range(prs) = {prs[i] : i \in 1..Len(prs)}
      BY <1>2 DEF Range
    <3> QED  BY <3>1 DEF ReadShas
  <2> QED  BY <2>1, <2>2
<1> HIDE DEF all
<1>6. DOMAIN all = 1..Len(all) /\ Len(all) \in Nat
  BY <1>4
<1>7. firsts \in SUBSET Nat /\ IsFiniteSet(firsts) /\ firsts \subseteq DOMAIN all
  <2>1. IsFiniteSet(1..Len(all))
    BY <1>6, FS_Interval
  <2> QED  BY <1>6, <2>1, FS_Subset
<1>8. \A x \in Range(all) : \E k \in firsts : all[k] = x
  <2>1. ASSUME NEW x \in Range(all) PROVE \E k \in firsts : all[k] = x
    <3> DEFINE at == {k \in DOMAIN all : all[k] = x}
    <3>1. at \in SUBSET Nat /\ at # {}
      BY <1>6 DEF Range
    <3>2. PICK k \in at : \A j \in at : k <= j
      <4> HIDE DEF at
      <4> QED  BY <3>1, LeastNatural
    <3>3. k \in DOMAIN all /\ all[k] = x /\ k \in Nat
      BY <3>1
    <3>4. ASSUME NEW j \in 1..(k - 1) PROVE all[j] # all[k]
      <4>1. j \in DOMAIN all /\ j \in Nat /\ j < k
        BY <1>6, <3>3
      <4> QED  BY <3>2, <3>3, <4>1
    <3> QED  BY <3>3, <3>4
  <2> QED  BY <2>1
<1>9. /\ N \in Nat /\ first \in [1..N -> firsts] /\ DOMAIN first = 1..N
      /\ \A k \in firsts : \E i \in 1..N : first[i] = k
  <2> HIDE DEF firsts
  <2> QED  BY <1>7, AscendingLists
<1>10. DistinctRevisions = [k \in DOMAIN first |-> all[first[k]]]
  BY Zenon DEF DistinctRevisions, all, ss
<1> HIDE DEF first, N
<1>11. \A k \in 1..N : first[k] \in firsts /\ first[k] \in DOMAIN all /\ all[first[k]] \in Revisions
  <2>1. \A k \in DOMAIN all : all[k] \in Revisions
    BY <1>4
  <2> HIDE DEF firsts
  <2> QED  BY <1>7, <1>9, <2>1
<1> HIDE DEF firsts
<1>12. DistinctRevisions \in Seq(Revisions) /\ DOMAIN DistinctRevisions = 1..N /\ Len(DistinctRevisions) = N
  BY <1>9, <1>10, <1>11
<1>13. Range(DistinctRevisions) = Range(all)
  <2>1. \A k \in 1..N : DistinctRevisions[k] = all[first[k]]
    BY <1>9, <1>10
  <2>2. \A x \in Range(all) : x \in Range(DistinctRevisions)
    <3>1. ASSUME NEW x \in Range(all) PROVE \E k \in 1..N : DistinctRevisions[k] = x
      <4>1. PICK k \in firsts : all[k] = x
        BY <1>8
      <4>2. PICK i \in 1..N : first[i] = k
        BY <1>9
      <4> QED  BY <2>1, <4>1, <4>2
    <3> QED  BY <1>12, <3>1 DEF Range
  <2>3. \A x \in Range(DistinctRevisions) : x \in Range(all)
    BY <1>11, <1>12, <2>1 DEF Range
  <2> QED  BY <2>2, <2>3
<1>14. IsFiniteSet(ReadShas) /\ Cardinality(ReadShas) <= N
  <2> DEFINE D == DistinctRevisions
  <2>1. IsFiniteSet(1..N) /\ Cardinality(1..N) = N
    BY <1>9, FS_Interval
  <2> HIDE DEF D
  <2>2. DOMAIN D = 1..N
    BY <1>12 DEF D
  <2>3. {D[k] : k \in 1..N} = ReadShas
    BY <1>5, <1>12, <1>13, <2>2 DEF Range, D
  <2> QED  BY <2>1, <2>2, <2>3, FiniteImage
<1> QED  BY <1>5, <1>12, <1>13, <1>14

-----------------------------------------------------------------------------
(* Initial states.                                                         *)

IInv == RepositoryOK /\ SweepOK /\ PullsInv /\ CommitsInv /\ RunsInv /\ ChecksInv

(* What a step of the sweep cannot touch. *)
LEMMA SameRepository ==
  ASSUME UNCHANGED repository
  PROVE  /\ scenario' = scenario /\ now' = now /\ pulls' = pulls /\ ci' = ci
         /\ RepositoryOK => RepositoryOK'
         /\ Opened' = Opened /\ StartedRuns' = StartedRuns /\ StartedIds' = StartedIds
         /\ \A name : Limit(name)' = Limit(name)
         /\ \A k : Rank(k)' = Rank(k)
<1>1. scenario' = scenario /\ now' = now /\ pulls' = pulls /\ ci' = ci
  BY DEF repository
<1>2. Opened' = Opened /\ StartedRuns' = StartedRuns
  BY <1>1 DEF Opened, StartedRuns
<1>3. StartedIds' = StartedIds
  BY <1>2 DEF StartedIds
<1>4. RepositoryOK => RepositoryOK'
  BY <1>1, <1>2 DEF RepositoryOK
<1>5. \A name : Limit(name)' = Limit(name)
  BY <1>1 DEF Limit
<1>6. \A k : Rank(k)' = Rank(k)
  BY <1>3 DEF Rank
<1> QED  BY <1>1, <1>2, <1>3, <1>4, <1>5, <1>6

(* The sweep has a limit for every listing. *)
LEMMA Limits ==
  ASSUME RepositoryOK
  PROVE  \A name \in {"pulls", "commits", "runs", "shas"} : Limit(name) \in Nat \ {0}
  BY CollectorAssumption DEF RepositoryOK, Limit

(* The repository at first. *)
LEMMA InitRepository == Init => RepositoryOK
<1> SUFFICES ASSUME Init PROVE RepositoryOK
  OBVIOUS
<1> USE DEF Init
<1>1. /\ scenario \in Scenarios /\ now = 1 /\ scenario.opened \subseteq Tasks
      /\ \A n \in scenario.opened : \A m \in Tasks : m < n => m \in scenario.opened
  BY CollectorAssumption
<1>2. FirstCommit(0) \in [sha : Revisions, date : Nat] /\ \A n : FirstCommit(n) = FirstCommit(0)
  <2>1. PICK s \in Revisions : TRUE
    BY CollectorAssumption
  <2> QED  BY <2>1 DEF FirstCommit
<1>3. \A n \in Tasks :
        pulls[n] = [number |-> n, created |-> IF n \in scenario.opened THEN 1 ELSE 0, closed |-> 0,
                    merged |-> 0,
                    commits |-> IF n \in scenario.opened THEN <<FirstCommit(n)>> ELSE <<>>]
  OBVIOUS
<1>4. \A n \in Tasks :
        /\ pulls[n] \in Pull
        /\ pulls[n].number = n /\ pulls[n].merged = 0
        /\ pulls[n].created = IF n \in scenario.opened THEN 1 ELSE 0
  <2>1. ASSUME NEW n \in Tasks PROVE pulls[n] \in Pull
    <3> HIDE DEF Init
    <3> DEFINE c == IF n \in scenario.opened THEN <<FirstCommit(n)>> ELSE <<>>
               a == IF n \in scenario.opened THEN 1 ELSE 0
    <3>1. c \in Commits /\ a \in Nat
      <4>1. /\ FirstCommit(n) \in [sha : Revisions, date : Nat]
        BY <1>2
      <4>2. <<FirstCommit(n)>> \in Commits /\ <<>> \in Commits
        <5> DEFINE C == [sha : Revisions, date : Nat]
        <5>1. FirstCommit(n) \in C
          BY <4>1
        <5> HIDE DEF C
        <5>2. <<FirstCommit(n)>> \in Seq(C) /\ <<>> \in Seq(C)
          BY <5>1
        <5> QED  BY <5>2 DEF C, Commits
      <4> QED  BY <4>2
    <3>2. pulls[n] = [number |-> n, created |-> a, closed |-> 0, merged |-> 0, commits |-> c]
      BY <1>3
    <3> HIDE DEF c, a
    <3> QED  BY <3>1, <3>2 DEF Pull
  <2> QED  BY <1>3, <2>1
<1>5. pulls \in [Tasks -> Pull]
  <2>1. pulls = [n \in Tasks |-> pulls[n]]
    OBVIOUS
  <2> HIDE DEF Init
  <2> QED  BY <1>4, <2>1
<1>6. Opened = scenario.opened
  BY <1>1, <1>4 DEF Opened
<1>7. \A r \in Runs : ci[r] \in RunState /\ ci[r].run = r /\ ci[r].start <= 1
  BY DEF RunState
<1>8. ci \in [Runs -> RunState]
  <2>1. ci = [r \in Runs |-> ci[r]]
    OBVIOUS
  <2> HIDE DEF Init
  <2> QED  BY <1>7, <2>1
<1> HIDE DEF Init
<1> QED  BY <1>1, <1>4, <1>5, <1>6, <1>7, <1>8 DEF RepositoryOK

(* The sweep at first, with nothing read. *)
LEMMA InitSweep == Init => SweepOK /\ PullsInv /\ CommitsInv /\ RunsInv /\ ChecksInv
<1> SUFFICES ASSUME Init PROVE SweepOK /\ PullsInv /\ CommitsInv /\ RunsInv /\ ChecksInv
  OBVIOUS
<1>1. /\ phase = "idle" /\ page = 1 /\ pages = [pulls |-> 0, runs |-> 0] /\ now = 1
      /\ prs = <<>> /\ runs = <<>> /\ probed = {} /\ checked = {} /\ cut = {}
      /\ entered = [p \in Phases |-> 0]
  BY DEF Init, NothingRead
<1>2. \A i : i \notin 1..0
  OBVIOUS
<1>3. DOMAIN prs = 1..0 /\ DOMAIN runs = 1..0 /\ Range(prs) = {}
  BY <1>1, <1>2 DEF Range
<1>4. SweepOK
  BY <1>1, <1>2, <1>3 DEF SweepOK, Phases
<1>5. PullsInv
  BY <1>1, <1>2, <1>3 DEF PullsInv, Listed
<1>6. CommitsInv
  BY <1>1, <1>3 DEF CommitsInv, Listed
<1>7. RunsInv
  BY <1>1 DEF RunsInv, RunsListed, Listed
<1>8. ChecksInv
  BY <1>1 DEF ChecksInv
<1> QED  BY <1>4, <1>5, <1>6, <1>7, <1>8

-----------------------------------------------------------------------------
(* What a step of the repository leaves of the sweep.                      *)

(* Whatever happens to the repository between two requests, the sweep has  *)
(* missed nothing so far.                                                  *)
LEMMA RepositoryKeepsSweep ==
  ASSUME IInv, Repository
  PROVE  RepositoryOK' /\ SweepOK' /\ PullsInv' /\ CommitsInv' /\ RunsInv' /\ ChecksInv'
<1>1. RepositoryOK /\ SweepOK /\ PullsInv /\ CommitsInv /\ RunsInv /\ ChecksInv
  BY DEF IInv
<1>2. /\ RepositoryOK' /\ PullsMove /\ RunsMove /\ now' = now + 1 /\ now \in Nat
      /\ scenario' = scenario /\ sweep' = sweep
  BY <1>1, RepositorySteps DEF RepositoryOK
<1>3. /\ phase' = phase /\ page' = page /\ pages' = pages /\ todo' = todo /\ prs' = prs
      /\ runs' = runs /\ jobs' = jobs /\ probed' = probed /\ cut' = cut /\ entered' = entered
      /\ checked' = checked /\ unread' = unread
  BY <1>2 DEF sweep
<1>4. Opened \subseteq Opened' /\ StartedRuns \subseteq StartedRuns'
  BY <1>2 DEF PullsMove, RunsMove
<1>5. \A name : Limit(name)' = Limit(name)
  BY <1>2 DEF Limit
<1>6. entered \in [Phases -> Nat] /\ \A p \in Phases : entered[p] \in Nat /\ entered[p] <= now
  BY <1>1 DEF SweepOK
<1>7. \A n \in Tasks : pulls'[n].created \in Nat
  BY <1>2 DEF RepositoryOK, Pull
<1>8. SweepOK'
  <2>1. \A p \in Phases : entered'[p] <= now'
    BY <1>2, <1>3, <1>6
  <2>2. \A i \in DOMAIN prs : prs[i].number \in Opened'
    BY <1>1, <1>4 DEF SweepOK
  <2>3. \A i \in DOMAIN runs : runs[i].run \in StartedRuns'
    BY <1>1, <1>4 DEF SweepOK
  <2> QED  BY <1>1, <1>3, <2>1, <2>2, <2>3, Zenon DEF SweepOK
<1>9. PullsInv'
  <2>1. \A n \in Opened' : pulls'[n].created <= entered["pulls"] =>
          n \in Opened /\ pulls[n].created <= entered["pulls"]
    <3>1. ASSUME NEW n \in Opened', pulls'[n].created <= entered["pulls"]
          PROVE  n \in Opened /\ pulls[n].created <= entered["pulls"]
      <4>1. pulls'[n].created \in Nat
        BY <1>7 DEF Opened
      <4>2. entered["pulls"] \in Nat /\ entered["pulls"] <= now
        BY <1>6 DEF Phases
      <4>3. pulls'[n].created <= now
        BY <1>2, <3>1, <4>1, <4>2
      <4>4. n \in Opened /\ pulls[n].created = pulls'[n].created
        BY <1>2, <4>3 DEF PullsMove
      <4> QED  BY <3>1, <4>4
    <3> QED  BY <3>1
  <2>2. \A n : PlaceOf(n)' = PlaceOf(n)
    BY DEF PlaceOf
  <2>3. Before' = Before
    BY <1>3 DEF Before
  <2> QED  BY <1>1, <1>3, <1>5, <2>1, <2>2, <2>3, Zenon DEF PullsInv
<1>10. \A p \in Range(prs) : p.merged # 0 =>
         pulls'[p.number].merged # 0 /\ pulls'[p.number].commits = pulls[p.number].commits
  <2>1. \A p \in Range(prs) : p.number \in Tasks
    BY <1>1 DEF SweepOK, Range, Opened
  <2> QED  BY <1>1, <1>2, <2>1 DEF PullsMove, CommitsInv
<1>11. CommitsInv'
  <2>1. \A p \in Range(prs) : CommitsComplete(p) => CommitsComplete(p)'
    BY <1>5, <1>10 DEF CommitsComplete
  <2>2. Before' = Before
    BY <1>3 DEF Before
  <2>3. \A p \in Range(prs) : p.merged # 0 => pulls'[p.number].merged # 0
    BY <1>10
  <2>4. phase = "pulls" => \A p \in Range(prs) : p.commits = <<>>
    BY <1>1 DEF CommitsInv
  <2>5. phase \in Listed \ {"commits"} =>
          "commits" \in unread \/ \A p \in Range(prs) : CommitsComplete(p)'
    BY <1>1, <2>1 DEF CommitsInv
  <2>6. \A p \in Range(prs) : CommitsSoFar(p) => CommitsSoFar(p)'
    <3> TAKE p \in Range(prs)
    <3>1. p.merged # 0 => pulls'[p.number].commits = pulls[p.number].commits
      BY <1>10
    <3>2. CommitsComplete(p) => CommitsComplete(p)'
      BY <2>1
    <3> QED  BY <1>3, <2>2, <3>1, <3>2 DEF CommitsSoFar
  <2>7. phase = "commits" =>
          /\ page <= Limit("commits")
          /\ \A i, j \in DOMAIN todo : todo[i] = todo[j] => i = j
          /\ "commits" \in unread \/ \A p \in Range(prs) : CommitsSoFar(p)'
    BY <1>1, <2>6, Zenon DEF CommitsInv
  <2> QED  BY <1>3, <1>5, <2>3, <2>4, <2>5, <2>7, Zenon DEF CommitsInv
<1>12. \A r \in StartedRuns' : ci'[r].start <= entered["runs"] =>
         r \in StartedRuns /\ ci[r].start <= entered["runs"]
  <2>1. ASSUME NEW r \in StartedRuns', ci'[r].start <= entered["runs"]
        PROVE  r \in StartedRuns /\ ci[r].start <= entered["runs"]
    <3>1. entered["runs"] \in Nat /\ entered["runs"] <= now
      BY <1>6 DEF Phases
    <3>2. ci'[r].start # now'
      BY <1>2, <2>1, <3>1
    <3>3. r \in StartedRuns /\ ci'[r].start = ci[r].start
      BY <1>2, <3>2 DEF RunsMove
    <3> QED  BY <2>1, <3>3
  <2> QED  BY <2>1
<1>13. \A k : Rank(k) \in Nat /\ Rank(k)' \in Nat /\ Rank(k) <= Rank(k)'
  <2>1. ASSUME NEW k PROVE Rank(k) \in Nat /\ Rank(k)' \in Nat /\ Rank(k) <= Rank(k)'
    <3> DEFINE A == {j \in StartedIds : j >= k}
               B == {j \in StartedIds' : j >= k}
    <3>1. StartedIds \subseteq StartedIds'
      BY <1>4 DEF StartedIds
    <3>2. IsFiniteSet(StartedIds')
      <4>1. IsFiniteSet(Runs)
        BY CollectorAssumption
      <4>2. StartedRuns' \subseteq Runs
        BY DEF StartedRuns
      <4>3. IsFiniteSet(StartedRuns')
        BY <4>1, <4>2, FS_Subset
      <4> DEFINE f == [r \in StartedRuns' |-> r.id]
      <4>4. IsFiniteSet({f[r] : r \in StartedRuns'})
        BY <4>3, FiniteImage
      <4>5. StartedIds' = {f[r] : r \in StartedRuns'}
        BY DEF StartedIds
      <4> QED  BY <4>4, <4>5
    <3>3. B \in SUBSET (StartedIds') /\ A \in SUBSET B
      BY <3>1
    <3>4. IsFiniteSet(B) /\ IsFiniteSet(A) /\ Cardinality(A) <= Cardinality(B)
      <4> HIDE DEF A, B
      <4> QED  BY <3>2, <3>3, FS_Subset
    <3>5. Rank(k) = Cardinality(A) /\ Rank(k)' = Cardinality(B)
      BY DEF Rank
    <3> HIDE DEF A, B
    <3> QED  BY <3>4, <3>5, FS_CardinalityType
  <2> QED  BY <2>1
<1>14. RunsInv'
  <2>1. Before' = Before /\ Before \in Int
    <3>1. PageSize \in Nat /\ page \in Nat
      BY <1>1, CollectorAssumption DEF SweepOK
    <3> QED  BY <1>3, <3>1 DEF Before
  <2>2. \A r : IsListed(r)' <=> IsListed(r)
    BY <1>3 DEF IsListed
  <2>3. \A k : Rank(k) > Before => Rank(k)' > Before
    BY <1>13, <2>1
  <2>4. /\ phase \in {"pulls", "commits"} => runs = <<>> /\ pages.runs = 0
        /\ phase \in RunsListed =>
             \/ runs # <<>> /\ pages.runs >= Limit("runs")
             \/ "runs" \in unread
             \/ \A r \in StartedRuns' : ci'[r].start <= entered["runs"] => IsListed(r)
    BY <1>1, <1>12, Zenon DEF RunsInv
  <2>5. phase = "runs" =>
       /\ Len(runs) <= Before /\ pages.runs = page - 1 /\ page <= Limit("runs")
       /\ "runs" \in unread \/
            \A r \in StartedRuns' : ci'[r].start <= entered["runs"] =>
              IsListed(r) \/ Rank(r.id)' > Before
    BY <1>1, <1>12, <2>3, Zenon DEF RunsInv
  <2> QED  BY <1>3, <1>5, <2>1, <2>2, <2>4, <2>5, Zenon DEF RunsInv
<1>15. ChecksInv'
  <2>1. ReadShas' = ReadShas
    BY <1>3 DEF ReadShas
  <2> QED  BY <1>1, <1>3, <2>1, Zenon DEF ChecksInv
<1> QED  BY <1>2, <1>8, <1>9, <1>11, <1>14, <1>15

-----------------------------------------------------------------------------
(* The selections of the sweep, and its pages.                             *)

(* The work of the phase of commits: every agentic pull request listed,    *)
(* and each once if it is listed once.                                     *)
LEMMA AgenticPrsHold ==
  ASSUME NEW L \in Seq(Pull)
  PROVE  /\ AgenticPrs(L) \in Seq(Tasks)
         /\ \A p \in Range(L) : p.number \in Agentic => p.number \in Range(AgenticPrs(L))
         /\ (\A i, j \in DOMAIN L : L[i].number = L[j].number => i = j) =>
              \A i, j \in DOMAIN AgenticPrs(L) : AgenticPrs(L)[i] = AgenticPrs(L)[j] => i = j
<1> DEFINE S == {i \in DOMAIN L : L[i].number \in Agentic}
           f == Ascending(S)
           N == Cardinality(S)
           A == AgenticPrs(L)
<1>1. /\ DOMAIN L = 1..Len(L) /\ Len(L) \in Nat
      /\ \A i \in DOMAIN L : L[i] \in Pull /\ L[i].number \in Tasks
  <2>1. DOMAIN L = 1..Len(L) /\ Len(L) \in Nat /\ \A i \in DOMAIN L : L[i] \in Pull
    OBVIOUS
  <2>2. \A p \in Pull : p.number \in Tasks
    BY DEF Pull
  <2> QED  BY <2>1, <2>2
<1>2. S \in SUBSET Nat /\ IsFiniteSet(S) /\ S \subseteq DOMAIN L
  <2>1. IsFiniteSet(1..Len(L))
    BY <1>1, FS_Interval
  <2> QED  BY <1>1, <2>1, FS_Subset
<1>3. /\ N \in Nat /\ f \in [1..N -> S] /\ DOMAIN f = 1..N
      /\ \A i, j \in 1..N : i < j => f[i] < f[j]
      /\ \A n \in S : \E i \in 1..N : f[i] = n
  <2> HIDE DEF S
  <2> QED  BY <1>2, AscendingLists
<1>4. A = [k \in DOMAIN f |-> L[f[k]].number]
  BY Zenon DEF AgenticPrs
<1> HIDE DEF f, N, A
<1>5. A = [k \in 1..N |-> L[f[k]].number] /\ \A k \in 1..N : f[k] \in DOMAIN L /\ f[k] \in Nat
  BY <1>2, <1>3, <1>4
<1>6. A \in Seq(Tasks) /\ DOMAIN A = 1..N /\ \A k \in 1..N : A[k] = L[f[k]].number
  BY <1>1, <1>3, <1>5
<1>7. ASSUME NEW p \in Range(L), p.number \in Agentic PROVE p.number \in Range(A)
  <2>1. PICK i \in DOMAIN L : L[i] = p
    BY DEF Range
  <2>2. i \in S
    BY <1>7, <2>1
  <2>3. PICK k \in 1..N : f[k] = i
    BY <1>3, <2>2
  <2> QED  BY <1>6, <2>1, <2>3 DEF Range
<1>8. ASSUME \A i, j \in DOMAIN L : L[i].number = L[j].number => i = j,
             NEW i \in DOMAIN A, NEW j \in DOMAIN A, A[i] = A[j]
      PROVE  i = j
  <2>1. f[i] = f[j]
    BY <1>5, <1>6, <1>8
  <2>2. i \in 1..N /\ j \in 1..N /\ f[i] \in Nat /\ f[j] \in Nat
    BY <1>5, <1>6
  <2>3. ~ (i < j) /\ ~ (j < i)
    <3>1. i < j => f[i] < f[j]
      BY <1>3, <2>2
    <3>2. j < i => f[j] < f[i]
      BY <1>3, <2>2
    <3> QED  BY <2>1, <2>2, <3>1, <3>2
  <2> QED  BY <1>3, <2>2, <2>3
<1> QED  BY <1>6, <1>7, <1>8 DEF A

(* The entries whose jobs are fetched are entries of the listing, all of   *)
(* them correlate, no two have the same id, and every entry that           *)
(* correlates has the id of one of them that is not after it.              *)
LEMMA EntriesHold ==
  ASSUME NEW L \in Seq(RunState), NEW index
  PROVE  LET E == EntriesToFetch(L, index) IN
         /\ E \in Seq(DOMAIN L)
         /\ \A k \in DOMAIN E : Correlates(L[E[k]], index)
         /\ \A k, l \in DOMAIN E : L[E[k]].run.id = L[E[l]].run.id => k = l
         /\ \A i \in DOMAIN L : Correlates(L[i], index) =>
              \E k \in DOMAIN E : E[k] <= i /\ L[E[k]].run.id = L[i].run.id
<1> DEFINE C == {i \in DOMAIN L : Correlates(L[i], index)}
           S == {i \in C : \A j \in C : j < i => L[j].run.id # L[i].run.id}
           E == EntriesToFetch(L, index)
           N == Cardinality(S)
<1>1. DOMAIN L = 1..Len(L) /\ Len(L) \in Nat
  OBVIOUS
<1>2. S \in SUBSET Nat /\ S \in SUBSET (1..Len(L)) /\ C \in SUBSET Nat
  BY <1>1
<1>3. IsFiniteSet(S)
  <2>1. IsFiniteSet(1..Len(L))
    BY <1>1, FS_Interval
  <2> HIDE DEF S
  <2> QED  BY <1>2, <2>1, FS_Subset
<1>4. E = Ascending(S)
  BY Zenon DEF EntriesToFetch
<1>5. /\ N \in Nat /\ E \in [1..N -> S] /\ E \in Seq(S) /\ DOMAIN E = 1..N
      /\ \A i, j \in 1..N : i < j => E[i] < E[j]
      /\ \A n \in S : \E i \in 1..N : E[i] = n
  <2> HIDE DEF S, E
  <2> QED  BY <1>2, <1>3, <1>4, AscendingLists
<1>6. E \in Seq(DOMAIN L)
  <2> DEFINE D == DOMAIN L
  <2>1. S \subseteq D
    BY <1>1, <1>2
  <2> HIDE DEF S, E, D
  <2>2. E \in [1..N -> D] /\ N \in Nat
    BY <1>5, <2>1
  <2>3. E \in Seq(D)
    BY <2>2
  <2> QED  BY <2>3 DEF D
<1>7. \A k \in DOMAIN E : E[k] \in S
  <2> HIDE DEF S, E
  <2> QED  BY <1>5
<1> HIDE DEF E, N
<1>8. \A k \in DOMAIN E : Correlates(L[E[k]], index)
  BY <1>7
<1>9. ASSUME NEW k \in DOMAIN E, NEW l \in DOMAIN E, L[E[k]].run.id = L[E[l]].run.id
      PROVE  k = l
  <2>1. E[k] \in S /\ E[l] \in S /\ E[k] \in Nat /\ E[l] \in Nat
    BY <1>2, <1>7, <1>9
  <2>2. ~ (E[k] < E[l]) /\ ~ (E[l] < E[k])
    BY <1>9, <2>1
  <2>3. k \in 1..N /\ l \in 1..N
    BY <1>5
  <2> HIDE DEF S
  <2>4. ~ (k < l) /\ ~ (l < k)
    BY <1>5, <2>2, <2>3
  <2> QED  BY <1>5, <2>3, <2>4
<1>10. ASSUME NEW i \in DOMAIN L, Correlates(L[i], index)
       PROVE  \E k \in DOMAIN E : E[k] <= i /\ L[E[k]].run.id = L[i].run.id
  <2> DEFINE Same == {j \in C : L[j].run.id = L[i].run.id}
  <2>1. Same \in SUBSET Nat /\ i \in Same
    BY <1>2, <1>10
  <2>2. PICK m \in Same : \A j \in Same : m <= j
    <3> HIDE DEF Same
    <3> QED  BY <2>1, LeastNatural
  <2>3. m \in C /\ L[m].run.id = L[i].run.id /\ m \in Nat /\ m <= i
    BY <2>1, <2>2
  <2>4. ASSUME NEW j \in C, j < m PROVE L[j].run.id # L[m].run.id
    BY <1>2, <2>2, <2>3, <2>4
  <2>5. m \in S
    BY <2>3, <2>4
  <2>6. PICK k \in 1..N : E[k] = m
    BY <1>5, <2>5
  <2> QED  BY <1>5, <2>3, <2>6
<1> QED  BY <1>6, <1>8, <1>9, <1>10 DEF E

(* What a page of pull requests holds. *)
LEMMA PullPage ==
  ASSUME RepositoryOK, NEW p \in Nat \ {0}
  PROVE  LET P == Page(PullListing, p)
             b == (p - 1) * PageSize
         IN /\ P \in Seq(Pull) /\ b \in Nat
            /\ \A i \in 1..Len(P) : /\ P[i].number \in Opened /\ PlaceOf(P[i].number) = b + i
                                    /\ P[i].commits = <<>>
                                    /\ P[i].merged = pulls[P[i].number].merged
            /\ HasNext(PullListing, p) => Len(P) = PageSize
            /\ \A n \in Opened : PlaceOf(n) > b =>
                 \/ \E i \in 1..Len(P) : P[i].number = n
                 \/ PlaceOf(n) > b + PageSize /\ HasNext(PullListing, p)
<1> DEFINE P == Page(PullListing, p)
           b == (p - 1) * PageSize
           L == PullListing
<1>1. /\ b \in Nat /\ P \in Seq(Pull) /\ L \in Seq(Pull)
      /\ \A i \in 1..Len(P) : b + i \in 1..Len(L) /\ P[i] = L[b + i]
      /\ \A k \in 1..Len(L) : k > b /\ k - b \notin 1..Len(P) => k > b + PageSize /\ HasNext(L, p)
      /\ HasNext(L, p) => Len(P) = PageSize
  BY PullListingHolds, PageHolds
<1>2. /\ \A i \in 1..Len(L) :
           /\ L[i].number \in Opened /\ PlaceOf(L[i].number) = i
           /\ L[i].commits = <<>> /\ L[i].merged = pulls[L[i].number].merged
      /\ \A n \in Opened : PlaceOf(n) \in 1..Len(L) /\ L[PlaceOf(n)].number = n
  BY PullListingHolds
<1> HIDE DEF P, b, L
<1>3. \A i \in 1..Len(P) : /\ P[i].number \in Opened /\ PlaceOf(P[i].number) = b + i
                           /\ P[i].commits = <<>>
                           /\ P[i].merged = pulls[P[i].number].merged
  BY <1>1, <1>2
<1>4. ASSUME NEW n \in Opened, PlaceOf(n) > b
      PROVE  \/ \E i \in 1..Len(P) : P[i].number = n
             \/ PlaceOf(n) > b + PageSize /\ HasNext(L, p)
  <2>1. PlaceOf(n) \in 1..Len(L) /\ L[PlaceOf(n)].number = n
    BY <1>2
  <2>2. CASE PlaceOf(n) - b \in 1..Len(P)
    <3>1. b + (PlaceOf(n) - b) = PlaceOf(n)
      BY <1>1, <2>1
    <3> QED  BY <1>1, <2>1, <2>2, <3>1
  <2>3. CASE PlaceOf(n) - b \notin 1..Len(P)
    BY <1>1, <1>4, <2>1, <2>3
  <2> QED  BY <2>2, <2>3
<1> QED  BY <1>1, <1>3, <1>4 DEF P, b, L

(* What a page of runs holds. *)
LEMMA RunPage ==
  ASSUME RepositoryOK, NEW p \in Nat \ {0}
  PROVE  LET P == Page(RunListing, p)
             b == (p - 1) * PageSize
         IN /\ P \in Seq(RunState) /\ b \in Nat
            /\ \A i \in 1..Len(P) : /\ P[i].run \in Latest /\ P[i] = ci[P[i].run]
                                    /\ Rank(P[i].run.id) = b + i
            /\ HasNext(RunListing, p) => Len(P) = PageSize
            /\ \A k \in StartedIds : Rank(k) > b =>
                 \/ \E i \in 1..Len(P) : P[i].run.id = k
                 \/ Rank(k) > b + PageSize /\ HasNext(RunListing, p)
<1> DEFINE P == Page(RunListing, p)
           b == (p - 1) * PageSize
           L == RunListing
<1>1. /\ b \in Nat /\ P \in Seq(RunState) /\ L \in Seq(RunState)
      /\ \A i \in 1..Len(P) : b + i \in 1..Len(L) /\ P[i] = L[b + i]
      /\ \A k \in 1..Len(L) : k > b /\ k - b \notin 1..Len(P) => k > b + PageSize /\ HasNext(L, p)
      /\ HasNext(L, p) => Len(P) = PageSize
  BY RunListingHolds, PageHolds
<1>2. /\ \A i \in 1..Len(L) : L[i].run \in Latest /\ L[i] = ci[L[i].run] /\ Rank(L[i].run.id) = i
      /\ \A k \in StartedIds : Rank(k) \in 1..Len(L) /\ L[Rank(k)].run.id = k
  BY RunListingHolds
<1> HIDE DEF P, b, L
<1>3. \A i \in 1..Len(P) : P[i].run \in Latest /\ P[i] = ci[P[i].run] /\ Rank(P[i].run.id) = b + i
  BY <1>1, <1>2
<1>4. ASSUME NEW k \in StartedIds, Rank(k) > b
      PROVE  \/ \E i \in 1..Len(P) : P[i].run.id = k
             \/ Rank(k) > b + PageSize /\ HasNext(L, p)
  <2>1. Rank(k) \in 1..Len(L) /\ L[Rank(k)].run.id = k
    BY <1>2
  <2>2. CASE Rank(k) - b \in 1..Len(P)
    <3>1. b + (Rank(k) - b) = Rank(k)
      BY <1>1, <2>1
    <3> QED  BY <1>1, <2>1, <2>2, <3>1
  <2>3. CASE Rank(k) - b \notin 1..Len(P)
    BY <1>1, <1>4, <2>1, <2>3
  <2> QED  BY <2>2, <2>3
<1> QED  BY <1>1, <1>3, <1>4 DEF P, b, L

-----------------------------------------------------------------------------
(* One phase and the next; a page added to what was read.                  *)

(* A phase begins at the present. *)
LEMMA PhaseBegins ==
  ASSUME RepositoryOK, SweepOK, NEW to \in Phases, NEW work, Move(to, work), now' = now
  PROVE  /\ phase' = to /\ page' = 1 /\ todo' = work
         /\ entered' \in [Phases -> Nat] /\ \A p \in Phases : entered'[p] <= now'
         /\ entered'[to] = now /\ \A p \in Phases : p # to => entered'[p] = entered[p]
<1>1. /\ entered \in [Phases -> Nat] /\ now \in Nat /\ \A p \in Phases : entered[p] <= now
      /\ entered' = [entered EXCEPT ![to] = now]
  BY DEF SweepOK, RepositoryOK, Move
<1>2. \A p \in Phases : entered'[p] = IF p = to THEN now ELSE entered[p]
  BY <1>1
<1>3. entered' \in [Phases -> Nat]
  BY <1>1
<1>4. \A p \in Phases : entered'[p] <= now'
  BY <1>1, <1>2
<1> QED  BY <1>2, <1>3, <1>4 DEF Move

(* What is read is added after what was read. *)
Joined(u, s, t) ==
  /\ Len(u) = Len(s) + Len(t) /\ Range(u) = Range(s) \cup Range(t)
  /\ Len(s) \in Nat /\ Len(t) \in Nat
  /\ DOMAIN u = 1..(Len(s) + Len(t)) /\ DOMAIN s = 1..Len(s) /\ DOMAIN t = 1..Len(t)
  /\ \A i \in DOMAIN u :
       \/ i \in DOMAIN s /\ u[i] = s[i]
       \/ i - Len(s) \in DOMAIN t /\ u[i] = t[i - Len(s)]

(* The entries of s, then those of t. *)
LEMMA Added ==
  ASSUME NEW S, NEW s \in Seq(S), NEW t \in Seq(S)
  PROVE  s \o t \in Seq(S) /\ Joined(s \o t, s, t)
<1> DEFINE u == s \o t
<1>1. /\ u \in Seq(S) /\ Len(u) = Len(s) + Len(t)
      /\ \A i \in 1..Len(s) + Len(t) : u[i] = IF i <= Len(s) THEN s[i] ELSE t[i - Len(s)]
  BY ConcatProperties
<1>2. Range(u) = Range(s) \cup Range(t)
  BY RangeConcatenation
<1> HIDE DEF u
<1>3. /\ Len(s) \in Nat /\ Len(t) \in Nat
      /\ DOMAIN s = 1..Len(s) /\ DOMAIN t = 1..Len(t) /\ DOMAIN u = 1..Len(u)
  BY <1>1
<1>4. Joined(u, s, t)
  BY <1>1, <1>2, <1>3 DEF Joined
<1> QED  BY <1>1, <1>4 DEF u

(* The rest of the work. *)
LEMMA Rest ==
  ASSUME NEW S, NEW s \in Seq(S), s # <<>>
  PROVE  /\ Head(s) \in S /\ Head(s) \in Range(s) /\ Tail(s) \in Seq(S)
         /\ Range(Tail(s)) \subseteq Range(s)
         /\ Range(s) = Range(Tail(s)) \cup {Head(s)}
         /\ (\A i, j \in DOMAIN s : s[i] = s[j] => i = j) =>
              /\ Head(s) \notin Range(Tail(s))
              /\ \A i, j \in DOMAIN Tail(s) : Tail(s)[i] = Tail(s)[j] => i = j
<1> DEFINE t == Tail(s)
<1>1. /\ Head(s) \in S /\ t \in Seq(S) /\ Len(t) = Len(s) - 1
      /\ \A i \in 1..Len(t) : t[i] = s[i + 1]
  BY HeadTailProperties
<1>2. /\ Len(s) \in Nat /\ Len(s) > 0 /\ DOMAIN s = 1..Len(s) /\ Head(s) = s[1]
  OBVIOUS
<1> HIDE DEF t
<1>3. DOMAIN t = 1..(Len(s) - 1) /\ \A i \in DOMAIN t : t[i] = s[i + 1] /\ i + 1 \in DOMAIN s /\ i + 1 # 1
  BY <1>1, <1>2
<1>4. 1 \in DOMAIN s /\ \A i \in DOMAIN s : i # 1 => i - 1 \in DOMAIN t /\ t[i - 1] = s[i]
  BY <1>2, <1>3
<1>5. Head(s) \in Range(s)
  BY <1>2, <1>4 DEF Range
<1>6. Range(s) = Range(t) \cup {Head(s)}
  <2>1. \A x \in Range(s) : x \in Range(t) \cup {Head(s)}
    BY <1>2, <1>4 DEF Range
  <2>2. \A x \in Range(t) : x \in Range(s)
    BY <1>3 DEF Range
  <2> QED  BY <1>5, <2>1, <2>2
<1>7. ASSUME \A i, j \in DOMAIN s : s[i] = s[j] => i = j
      PROVE  Head(s) \notin Range(t) /\ \A i, j \in DOMAIN t : t[i] = t[j] => i = j
  <2>1. Head(s) \notin Range(t)
    BY <1>2, <1>3, <1>4, <1>7 DEF Range
  <2>2. ASSUME NEW i \in DOMAIN t, NEW j \in DOMAIN t, t[i] = t[j] PROVE i = j
    <3>1. i + 1 = j + 1
      BY <1>3, <1>7, <2>2
    <3>2. i \in Nat /\ j \in Nat
      BY <1>2, <1>3
    <3> QED  BY <3>1, <3>2
  <2> QED  BY <2>1, <2>2
<1> QED  BY <1>1, <1>5, <1>6, <1>7 DEF t

(* A page of commits continues the commits read. *)
LEMMA CommitPage ==
  ASSUME NEW L \in Commits, NEW p \in Nat \ {0}
  PROVE  LET b == (p - 1) * PageSize
         IN /\ Page(L, p) \in Commits /\ \A c \in Commits : c \o Page(L, p) \in Commits
            /\ Len(L) \in Nat /\ b \in Nat
            /\ b <= Len(L) =>
                 LET all == SubSeq(L, 1, b) \o Page(L, p) IN
                 /\ HasNext(L, p) => b + PageSize <= Len(L) /\ all = SubSeq(L, 1, b + PageSize)
                 /\ ~ HasNext(L, p) => all = L
<1> DEFINE C == [sha : Revisions, date : Nat]
           b == (p - 1) * PageSize
           e == p * PageSize
           stop == IF e < Len(L) THEN e ELSE Len(L)
<1>1. L \in Seq(C)
  BY DEF Commits
<1>2. Commits = Seq(C)
  BY DEF Commits
<1> HIDE DEF C
<1>3. /\ b \in Nat /\ e = b + PageSize /\ Page(L, p) \in Seq(C)
  BY <1>1, PageHolds
<1>4. Len(L) \in Nat
  BY <1>1
<1>5. \A c \in Seq(C) : c \o Page(L, p) \in Seq(C)
  BY <1>3, ConcatProperties
<1>6. PageSize \in Nat /\ PageSize > 0
  BY CollectorAssumption
<1>7. Page(L, p) = SubSeq(L, b + 1, stop) /\ (HasNext(L, p) <=> e < Len(L))
  BY DEF Page, HasNext
<1> HIDE DEF b, e
<1>8. ASSUME b <= Len(L)
      PROVE  SubSeq(L, 1, b) \o Page(L, p) = SubSeq(L, 1, stop)
  <2>1. 1 \in 1..(Len(L) + 1) /\ b \in (1 - 1)..Len(L) /\ stop \in b..Len(L)
    BY <1>3, <1>4, <1>6, <1>8
  <2> HIDE DEF stop
  <2>2. \A m \in 1..(Len(L) + 1) : \A k \in (m - 1)..Len(L) : \A n \in k..Len(L) :
          SubSeq(L, m, k) \o SubSeq(L, k + 1, n) = SubSeq(L, m, n)
    BY <1>1, ConcatAdjacentSubSeq
  <2>3. SubSeq(L, 1, b) \o SubSeq(L, b + 1, stop) = SubSeq(L, 1, stop)
    BY <2>1, <2>2
  <2> QED  BY <1>7, <2>3
<1>9. SubSeq(L, 1, Len(L)) = L
  BY <1>1, SubSeqFull
<1>10. HasNext(L, p) => stop = b + PageSize /\ b + PageSize <= Len(L)
  BY <1>3, <1>4, <1>6, <1>7
<1>11. ~ HasNext(L, p) => stop = Len(L)
  BY <1>3, <1>4, <1>6, <1>7
<1> HIDE DEF stop
<1>12. b <= Len(L) =>
         LET all == SubSeq(L, 1, b) \o Page(L, p) IN
         /\ HasNext(L, p) => b + PageSize <= Len(L) /\ all = SubSeq(L, 1, b + PageSize)
         /\ ~ HasNext(L, p) => all = L
  BY <1>8, <1>9, <1>10, <1>11
<1> QED  BY <1>2, <1>3, <1>4, <1>5, <1>12 DEF b

-----------------------------------------------------------------------------
(* Steps that read nothing.                                                *)

SweepInv == SweepOK /\ PullsInv /\ CommitsInv /\ RunsInv /\ ChecksInv

(* A sweep begins with nothing read. *)
LEMMA BeginStep == IInv /\ Begin => SweepInv'
<1> SUFFICES ASSUME IInv, Begin PROVE SweepInv'
  OBVIOUS
<1>1. /\ RepositoryOK /\ UNCHANGED repository
      /\ phase' = "pulls" /\ entered' = [[p \in Phases |-> 0] EXCEPT !["pulls"] = now]
      /\ page' = 1 /\ pages' = [pulls |-> 0, runs |-> 0]
      /\ prs' = <<>> /\ runs' = <<>> /\ probed' = {} /\ checked' = {} /\ cut' = {}
  BY DEF IInv, Begin
<1>2. /\ now' = now /\ now \in Nat /\ Limit("pulls")' \in Nat \ {0}
  BY <1>1, SameRepository, Limits DEF RepositoryOK
<1>3. DOMAIN (prs') = 1..0 /\ DOMAIN (runs') = 1..0 /\ Range(prs') = {} /\ Len(prs') = 0
  <2>1. DOMAIN (prs') = 1..0 /\ DOMAIN (runs') = 1..0 /\ Len(prs') = 0
    BY <1>1
  <2>2. \A i : i \notin 1..0
    OBVIOUS
  <2> QED  BY <2>1, <2>2 DEF Range
<1>4. \A i : i \notin 1..0
  OBVIOUS
<1>5. SweepOK'
  <2>1. entered' \in [Phases -> Nat] /\ \A p \in Phases : entered'[p] <= now'
    <3> DEFINE never == [p \in Phases |-> 0]
    <3>1. never \in [Phases -> Nat] /\ \A p \in Phases : never[p] = 0
      OBVIOUS
    <3>2. entered' = [never EXCEPT !["pulls"] = now]
      BY <1>1
    <3> HIDE DEF never
    <3>3. entered' \in [Phases -> Nat]
      BY <1>2, <3>1, <3>2
    <3>4. \A p \in Phases : entered'[p] = IF p = "pulls" THEN now ELSE 0
      BY <3>1, <3>2
    <3> QED  BY <1>2, <3>3, <3>4
  <2>2. prs' \in Seq(Pull) /\ runs' \in Seq(RunState)
    BY <1>1
  <2>3. page' \in Nat \ {0} /\ pages' \in [pulls : Nat, runs : Nat]
    BY <1>1
  <2>4. \A i : i \notin DOMAIN (prs') /\ i \notin DOMAIN (runs')
    BY <1>3, <1>4
  <2>5. /\ phase' \in Phases \cup Ends /\ phase' \notin {"commits", "jobs", "checks"}
        /\ probed' \subseteq Revisions /\ cut' \subseteq {"pulls", "commits", "runs", "shas"}
    BY <1>1 DEF Phases
  <2>6. phase' # "commits" /\ phase' # "jobs" /\ phase' # "checks"
    BY <2>5
  <2> QED  BY <2>1, <2>2, <2>3, <2>4, <2>5, <2>6, Zenon DEF SweepOK
<1>6. PullsInv'
  <2>1. Before' = 0
    BY <1>1, CollectorAssumption DEF Before
  <2>2. \A n \in Opened' : PlaceOf(n)' > 0
    <3>1. PullListing \in Seq(Pull) /\ \A n \in Opened : PlaceOf(n) \in 1..Len(PullListing)
      BY <1>1, PullListingHolds
    <3>2. \A n \in Opened : PlaceOf(n) > 0
      BY <3>1
    <3>3. Opened' = Opened /\ \A n : PlaceOf(n)' = PlaceOf(n)
      BY <1>1, SameRepository DEF PlaceOf
    <3> QED  BY <3>2, <3>3
  <2>3. page' <= Limit("pulls")' /\ pages'.pulls = page' - 1
    BY <1>1, <1>2
  <2> QED  BY <1>1, <1>3, <1>4, <2>1, <2>2, <2>3 DEF PullsInv, Listed
<1>7. CommitsInv'
  BY <1>1, <1>3 DEF CommitsInv, Listed
<1>8. RunsInv'
  BY <1>1 DEF RunsInv, RunsListed, Listed
<1>9. ChecksInv'
  BY <1>1 DEF ChecksInv
<1> QED  BY <1>5, <1>6, <1>7, <1>8, <1>9 DEF SweepInv

(* A request fails. *)
LEMMA FailureStep == IInv /\ RequestFails => SweepInv'
<1> SUFFICES ASSUME IInv, RequestFails PROVE SweepInv'
  OBVIOUS
<1>1. /\ SweepOK /\ PullsInv /\ CommitsInv /\ UNCHANGED repository /\ phase' = "failed"
      /\ UNCHANGED <<page, pages, todo, prs, runs, jobs, probed, checked, unread, cut, entered>>
  BY DEF IInv, RequestFails
<1>2. now' = now /\ pulls' = pulls /\ Opened' = Opened /\ StartedRuns' = StartedRuns
  BY <1>1, SameRepository
<1>3. SweepOK'
  BY <1>1, <1>2 DEF SweepOK, Ends
<1>4. PullsInv'
  BY <1>1 DEF PullsInv, Listed, PlaceOf
<1>5. CommitsInv'
  BY <1>1, <1>2 DEF CommitsInv, Listed
<1>6. RunsInv' /\ ChecksInv'
  BY <1>1 DEF RunsInv, RunsListed, Listed, ChecksInv
<1> QED  BY <1>3, <1>4, <1>5, <1>6 DEF SweepInv

(* runGithubReadOnly ends the sweep and reads nothing. *)
LEMMA ReportStep == IInv /\ RunGithubReadOnly => SweepInv'
<1> SUFFICES ASSUME IInv, RunGithubReadOnly PROVE SweepInv'
  OBVIOUS
<1>1. /\ RepositoryOK /\ SweepOK /\ PullsInv /\ CommitsInv /\ RunsInv /\ ChecksInv
      /\ UNCHANGED repository /\ phase = "assemble"
      /\ phase' = CASE PullEvidence = {} -> "refused"
                [] PullEvidence # {} /\ DuplicateIds -> "rejected"
                [] OTHER -> "reported"
      /\ UNCHANGED <<page, pages, todo, prs, runs, jobs, probed, checked, unread, cut, entered>>
  BY DEF IInv, RunGithubReadOnly
<1>2. phase' \in {"refused", "rejected", "reported"}
  BY <1>1
<1>3. /\ now' = now /\ pulls' = pulls /\ ci' = ci /\ Opened' = Opened /\ StartedRuns' = StartedRuns
      /\ \A name : Limit(name)' = Limit(name)
  BY <1>1, SameRepository
<1>4. SweepOK'
  BY <1>1, <1>2, <1>3 DEF SweepOK, Ends
<1>5. PullsInv'
  BY <1>1, <1>2, <1>3 DEF PullsInv, Listed, PlaceOf
<1>6. CommitsInv'
  <2>1. \A p : CommitsComplete(p) => CommitsComplete(p)'
    BY <1>3 DEF CommitsComplete
  <2> QED  BY <1>1, <1>2, <1>3, <2>1 DEF CommitsInv, Listed
<1>7. RunsInv'
  BY <1>1, <1>2, <1>3 DEF RunsInv, RunsListed, Listed, IsListed
<1>8. ChecksInv'
  BY <1>1, <1>2 DEF ChecksInv, ReadShas
<1> QED  BY <1>4, <1>5, <1>6, <1>7, <1>8 DEF SweepInv

(* After the commits of the last pull request come the runs. *)
LEMMA CommitsReadStep == IInv /\ CommitsRead => SweepInv'
<1> SUFFICES ASSUME IInv, CommitsRead PROVE SweepInv'
  OBVIOUS
<1>1. /\ RepositoryOK /\ SweepOK /\ PullsInv /\ CommitsInv /\ RunsInv /\ ChecksInv
      /\ UNCHANGED repository /\ phase = "commits" /\ todo = <<>> /\ Move("runs", <<>>)
      /\ UNCHANGED <<pages, prs, runs, jobs, probed, checked, unread, cut>>
  BY DEF IInv, CommitsRead
<1>2. /\ now' = now /\ pulls' = pulls /\ ci' = ci /\ Opened' = Opened /\ StartedRuns' = StartedRuns
      /\ \A name : Limit(name)' = Limit(name)
      /\ \A k : Rank(k)' = Rank(k)
  BY <1>1, SameRepository
<1>3. /\ phase' = "runs" /\ page' = 1 /\ todo' = <<>>
      /\ entered' \in [Phases -> Nat] /\ \A p \in Phases : entered'[p] <= now'
      /\ entered'["pulls"] = entered["pulls"]
  BY <1>1, <1>2, PhaseBegins DEF Phases
<1>4. SweepOK'
  <2>1. /\ page' \in Nat \ {0} /\ phase' \in Phases \cup Ends
        /\ phase' # "commits" /\ phase' # "jobs" /\ phase' # "checks"
    BY <1>3 DEF Phases
  <2> QED  BY <1>1, <1>2, <1>3, <2>1, Zenon DEF SweepOK
<1>5. PullsInv'
  BY <1>1, <1>2, <1>3 DEF PullsInv, Listed, PlaceOf
<1>6. CommitsInv'
  <2>1. \A p : p.number \notin Range(todo)
    <3>1. \A i : i \notin 1..0
      OBVIOUS
    <3>2. DOMAIN todo = 1..0
      BY <1>1
    <3> QED  BY <3>1, <3>2 DEF Range
  <2>2. "commits" \in unread \/ \A p \in Range(prs) : CommitsComplete(p)
    BY <1>1, <2>1 DEF CommitsInv, CommitsSoFar
  <2>3. \A p : CommitsComplete(p) => CommitsComplete(p)'
    BY <1>2 DEF CommitsComplete
  <2> QED  BY <1>1, <1>2, <1>3, <2>2, <2>3 DEF CommitsInv, Listed
<1>7. RunsInv'
  <2>1. Before' = 0
    BY <1>3, CollectorAssumption DEF Before
  <2>2. \A r \in StartedRuns : Rank(r.id) > 0
    <3>1. RunListing \in Seq(RunState) /\ \A k \in StartedIds : Rank(k) \in 1..Len(RunListing)
      BY <1>1, RunListingHolds
    <3>2. \A r \in StartedRuns : r.id \in StartedIds
      BY DEF StartedIds
    <3>3. \A k \in StartedIds : Rank(k) > 0
      BY <3>1
    <3> QED  BY <3>2, <3>3
  <2>3. Limit("runs")' \in Nat \ {0}
    BY <1>1, <1>2, Limits
  <2>4. runs = <<>> /\ pages.runs = 0
    BY <1>1 DEF RunsInv
  <2>5. /\ Len(runs') <= Before' /\ pages'.runs = page' - 1 /\ page' <= Limit("runs")'
    BY <1>1, <1>3, <2>1, <2>3, <2>4
  <2>6. \A r \in StartedRuns' : Rank(r.id)' > Before'
    BY <1>2, <2>1, <2>2
  <2> QED  BY <1>3, <2>5, <2>6 DEF RunsInv, RunsListed, Listed
<1>8. ChecksInv'
  BY <1>1, <1>3 DEF ChecksInv
<1> QED  BY <1>4, <1>5, <1>6, <1>7, <1>8 DEF SweepInv

-----------------------------------------------------------------------------
(* A page of pull requests.                                                *)

(* A page of pull requests: the places it holds follow those read. *)
LEMMA ListPullsStep == IInv /\ ListPulls => SweepInv'
<1> SUFFICES ASSUME IInv, ListPulls PROVE SweepInv'
  OBVIOUS
<1> DEFINE more == Continues(PullListing, Limit("pulls"))
<1>0. PICK P \in {Page(PullListing, page), <<>>} :
        /\ prs' = prs \o P /\ unread \subseteq unread'
        /\ P = Page(PullListing, page) \/ "pulls" \in unread'
  <2>1. prs \in Seq(Pull) /\ phase = "pulls"
    BY DEF IInv, SweepOK, ListPulls
  <2>2. prs \o <<>> = prs
    BY <2>1, ConcatEmptySeq
  <2> QED  BY <2>1, <2>2 DEF ListPulls, Readable, Unreadable
<1>1. /\ RepositoryOK /\ SweepOK /\ PullsInv /\ CommitsInv /\ RunsInv /\ ChecksInv
      /\ UNCHANGED repository /\ phase = "pulls"
      /\ pages' = [pages EXCEPT !.pulls = @ + 1]
      /\ IF more THEN Stay /\ UNCHANGED cut
         ELSE Leave("pulls", PullListing) /\ Move("commits", AgenticPrs(prs'))
      /\ UNCHANGED <<runs, jobs, probed, checked>>
  BY DEF IInv, ListPulls
<1>2. /\ now' = now /\ pulls' = pulls /\ ci' = ci /\ Opened' = Opened /\ StartedRuns' = StartedRuns
      /\ \A name : Limit(name)' = Limit(name)
  BY <1>1, SameRepository
<1>3. /\ page \in Nat \ {0} /\ prs \in Seq(Pull) /\ pages \in [pulls : Nat, runs : Nat]
      /\ pages.pulls = page - 1 /\ page <= Limit("pulls")
      /\ \A k \in DOMAIN prs : PlaceOf(prs[k].number) <= Before
      /\ Limit("pulls") \in Nat \ {0} /\ Limit("commits") \in Nat \ {0}
  BY <1>1, Limits DEF SweepOK, PullsInv
<1>4. /\ P \in Seq(Pull) /\ Before \in Nat
      /\ \A i \in 1..Len(P) : /\ P[i].number \in Opened /\ PlaceOf(P[i].number) = Before + i
                              /\ P[i].commits = <<>>
                              /\ P[i].merged = pulls[P[i].number].merged
      /\ HasNext(PullListing, page) => Len(P) <= PageSize
      /\ HasNext(PullListing, page) => Len(P) = PageSize \/ "pulls" \in unread'
      /\ "pulls" \in unread' \/
           \A n \in Opened : PlaceOf(n) > Before =>
             \/ \E k \in 1..Len(P) : P[k].number = n
             \/ PlaceOf(n) > Before + PageSize /\ HasNext(PullListing, page)
  <2>1. CASE P = Page(PullListing, page)
    <3> DEFINE Q == Page(PullListing, page)
    <3>1. /\ Q \in Seq(Pull) /\ Before \in Nat
          /\ \A i \in 1..Len(Q) : /\ Q[i].number \in Opened /\ PlaceOf(Q[i].number) = Before + i
                                  /\ Q[i].commits = <<>>
                                  /\ Q[i].merged = pulls[Q[i].number].merged
          /\ HasNext(PullListing, page) => Len(Q) = PageSize
          /\ \A n \in Opened : PlaceOf(n) > Before =>
               \/ \E i \in 1..Len(Q) : Q[i].number = n
               \/ PlaceOf(n) > Before + PageSize /\ HasNext(PullListing, page)
      BY <1>1, <1>3, PullPage DEF Before
    <3>2. PageSize \in Nat
      BY CollectorAssumption
    <3> HIDE DEF Q
    <3> QED  BY <2>1, <3>1, <3>2 DEF Q
  <2>2. CASE P = <<>> /\ "pulls" \in unread'
    <3>1. Before \in Nat /\ PageSize \in Nat
      BY <1>1, <1>3, PullPage, CollectorAssumption DEF Before
    <3> QED  BY <2>2, <3>1
  <2> QED  BY <1>0, <2>1, <2>2
<1>5. page * PageSize = Before + PageSize /\ PageSize \in Nat /\ PageSize > 0
  <2>1. PullListing \in Seq(Pull)
    BY <1>1, PullListingHolds
  <2> QED  BY <1>3, <2>1, PageHolds, CollectorAssumption DEF Before
<1> HIDE DEF more
<1>6. prs' \in Seq(Pull) /\ Joined(prs', prs, P)
  BY <1>0, <1>3, <1>4, Added
<1>7. /\ Range(prs') = Range(prs) \cup Range(P) /\ DOMAIN P = 1..Len(P)
      /\ \A i \in DOMAIN (prs') :
           \/ /\ i \in DOMAIN prs /\ prs'[i] = prs[i]
              /\ prs[i].number \in Opened /\ PlaceOf(prs[i].number) <= Before
           \/ /\ i - Len(prs) \in DOMAIN P /\ prs'[i] = P[i - Len(prs)]
              /\ prs'[i].number \in Opened /\ PlaceOf(prs'[i].number) = Before + (i - Len(prs))
  <2>1. \A k \in DOMAIN prs : prs[k].number \in Opened
    BY <1>1 DEF SweepOK
  <2> QED  BY <1>3, <1>4, <1>6, <2>1 DEF Joined
<1>8. \A p \in Range(prs') : p.commits = <<>> /\ (p.merged # 0 => pulls[p.number].merged # 0)
  <2>1. \A p \in Range(prs) : p.commits = <<>> /\ (p.merged # 0 => pulls[p.number].merged # 0)
    BY <1>1 DEF CommitsInv
  <2>2. \A p \in Range(P) : p.commits = <<>> /\ p.merged = pulls[p.number].merged
    BY <1>4, <1>7 DEF Range
  <2> QED  BY <1>7, <2>1, <2>2
<1>9. pages' \in [pulls : Nat, runs : Nat] /\ pages'.pulls = page /\ pages'.runs = pages.runs
  BY <1>1, <1>3
<1>10. /\ runs' = <<>> /\ pages'.runs = 0 /\ probed' = {} /\ checked' = {}
  BY <1>1, <1>9 DEF RunsInv, ChecksInv
<1>11. \A i, j \in DOMAIN (prs') : prs'[i].number = prs'[j].number => i = j
  <2>1. ASSUME NEW i \in DOMAIN (prs'), NEW j \in DOMAIN (prs'), prs'[i].number = prs'[j].number
        PROVE  i = j
    <3>1. \A k \in DOMAIN (prs') : k \in Nat
      BY <1>6 DEF Joined
    <3>2. Len(prs) \in Nat /\ \A k \in DOMAIN P : k \in Nat /\ k > 0
      BY <1>6 DEF Joined
    <3>3. CASE i \in DOMAIN prs /\ j \in DOMAIN prs /\ prs'[i] = prs[i] /\ prs'[j] = prs[j]
      BY <1>1, <2>1, <3>3 DEF PullsInv
    <3>4. CASE ~ (i \in DOMAIN prs /\ j \in DOMAIN prs /\ prs'[i] = prs[i] /\ prs'[j] = prs[j])
      BY <1>4, <1>7, <2>1, <3>1, <3>2, <3>4
    <3> QED  BY <3>3, <3>4
  <2> QED  BY <2>1
<1>11a. \A i \in DOMAIN (prs') : prs'[i].number \in Opened
  BY <1>7
<1>11b. "pulls" \in unread' \/
          \A n \in Opened : pulls[n].created <= entered["pulls"] =>
            \/ \E p \in Range(prs') : p.number = n
            \/ PlaceOf(n) > Before + PageSize /\ HasNext(PullListing, page)
  <2> SUFFICES ASSUME "pulls" \notin unread', NEW n \in Opened, pulls[n].created <= entered["pulls"]
               PROVE  \/ \E p \in Range(prs') : p.number = n
                      \/ PlaceOf(n) > Before + PageSize /\ HasNext(PullListing, page)
    OBVIOUS
  <2>1. PlaceOf(n) > Before \/ \E p \in Range(prs) : p.number = n
    BY <1>0, <1>1 DEF PullsInv
  <2>2. (\E k \in 1..Len(P) : P[k].number = n) => \E p \in Range(P) : p.number = n
    BY <1>7 DEF Range
  <2> QED  BY <1>4, <1>7, <2>1, <2>2
<1>12. CASE more
  <2>1. /\ phase' = "pulls" /\ page' = page + 1 /\ todo' = todo /\ entered' = entered /\ cut' = cut
        /\ HasNext(PullListing, page) /\ page < Limit("pulls")
    BY <1>1, <1>12 DEF Stay, Continues, more
  <2>2. Before' = Before + PageSize
    <3>1. (page + 1) - 1 = page
      BY <1>3
    <3> QED  BY <1>5, <2>1, <3>1 DEF Before
  <2>3. SweepOK'
    <3>1. page' \in Nat \ {0}
      BY <1>3, <2>1
    <3> QED  BY <1>1, <1>2, <1>6, <1>9, <1>11a, <2>1, <3>1, Zenon DEF SweepOK
  <2>4. PullsInv'
    <3>1. pages'.pulls = page' - 1 /\ page' <= Limit("pulls")'
      BY <1>2, <1>3, <1>9, <2>1
    <3>2. \A n : PlaceOf(n)' = PlaceOf(n)
      BY DEF PlaceOf
    <3>3. \A i \in DOMAIN (prs') : PlaceOf(prs'[i].number) <= Before'
      <4>1. \A n \in Opened : PlaceOf(n) \in Nat
        BY <1>1, PullListingHolds
      <4> QED  BY <1>4, <1>5, <1>7, <2>1, <2>2, <4>1
    <3>4. "pulls" \in unread' \/
            \A n \in Opened' : pulls'[n].created <= entered'["pulls"] =>
              PlaceOf(n) > Before' \/ \E p \in Range(prs') : p.number = n
      BY <1>2, <1>11b, <2>1, <2>2
    <3> QED  BY <1>11, <2>1, <3>1, <3>2, <3>3, <3>4 DEF PullsInv, Listed
  <2>5. CommitsInv'
    BY <1>2, <1>8, <2>1 DEF CommitsInv, Listed
  <2>6. RunsInv' /\ ChecksInv'
    BY <1>10, <2>1 DEF RunsInv, RunsListed, Listed, ChecksInv
  <2> QED  BY <2>3, <2>4, <2>5, <2>6 DEF SweepInv
<1>13. CASE ~ more
  <2>1. Move("commits", AgenticPrs(prs')) /\ cut' \subseteq cut \cup {"pulls"}
    BY <1>1, <1>13 DEF Leave
  <2>2. /\ phase' = "commits" /\ page' = 1 /\ todo' = AgenticPrs(prs')
        /\ entered' \in [Phases -> Nat] /\ \A p \in Phases : entered'[p] <= now'
        /\ entered'["pulls"] = entered["pulls"]
    BY <1>1, <1>2, <2>1, PhaseBegins DEF Phases
  <2>3. /\ todo' \in Seq(Tasks)
        /\ \A p \in Range(prs') : p.number \in Agentic => p.number \in Range(todo')
        /\ \A i, j \in DOMAIN (todo') : (todo')[i] = (todo')[j] => i = j
    BY <1>6, <1>11, <2>2, AgenticPrsHold
  <2>4. SweepOK'
    <3>1. /\ phase' \in Phases \cup Ends /\ phase' # "jobs" /\ phase' # "checks" /\ page' \in Nat \ {0}
      BY <2>2 DEF Phases
    <3>2. /\ runs' \in Seq(RunState) /\ \A i \in DOMAIN (runs') : runs'[i].run \in StartedRuns'
          /\ probed' \subseteq Revisions /\ cut' \subseteq {"pulls", "commits", "runs", "shas"}
      <4>1. cut \subseteq {"pulls", "commits", "runs", "shas"}
        BY <1>1 DEF SweepOK
      <4>2. cut' \subseteq {"pulls", "commits", "runs", "shas"}
        BY <2>1, <4>1
      <4> QED  BY <1>1, <1>2, <4>2 DEF SweepOK
    <3> QED  BY <1>2, <1>6, <1>9, <1>11a, <2>2, <2>3, <3>1, <3>2, Zenon DEF SweepOK
  <2>7. \/ prs' # <<>> /\ pages'.pulls >= Limit("pulls")'
        \/ "pulls" \in unread'
        \/ \A n \in Opened' : pulls'[n].created <= entered'["pulls"] => \E p \in Range(prs') : p.number = n
    <3>1. CASE HasNext(PullListing, page) /\ "pulls" \notin unread'
      <4>1. page = Limit("pulls") /\ Len(P) > 0
        BY <1>3, <1>4, <1>5, <1>13, <3>1 DEF Continues, more
      <4>2. prs' # <<>>
        BY <1>6, <4>1 DEF Joined
      <4> QED  BY <1>2, <1>3, <1>9, <4>1, <4>2
    <3>2. CASE ~ HasNext(PullListing, page)
      BY <1>2, <1>11b, <2>2, <3>2
    <3> QED  BY <3>1, <3>2
  <2>8. PullsInv'
    BY <1>11, <2>2, <2>7 DEF PullsInv, Listed
  <2>9. \A p \in Range(prs') : CommitsSoFar(p)'
    <3> TAKE p \in Range(prs')
    <3>1. p.commits = <<>> /\ (p.merged # 0 => pulls[p.number].merged # 0) /\ p.number \in Opened
      BY <1>8, <1>11a DEF Range
    <3>2. Before' = 0
      BY <1>5, <2>2 DEF Before
    <3>3. p.number \notin Range(todo') => CommitsComplete(p)'
      BY <2>3 DEF CommitsComplete
    <3>4. pulls'[p.number].commits \in Commits
      <4>1. pulls[p.number] \in Pull
        BY <1>1, <3>1, SetsOfTheRepository DEF RepositoryOK
      <4> QED  BY <1>2, <4>1 DEF Pull
    <3>5. Len(pulls'[p.number].commits) >= 0
      BY <3>4 DEF Commits
    <3>6. SubSeq(pulls'[p.number].commits, 1, 0) = <<>>
      BY SubSeqEmpty
    <3> QED  BY <3>1, <3>2, <3>3, <3>5, <3>6 DEF CommitsSoFar
  <2>10. CommitsInv'
    <3>1. page' <= Limit("commits")'
      BY <1>2, <1>3, <2>2
    <3> QED  BY <1>2, <1>8, <2>2, <2>3, <2>9, <3>1 DEF CommitsInv, Listed
  <2>11. RunsInv' /\ ChecksInv'
    BY <1>10, <2>2 DEF RunsInv, RunsListed, Listed, ChecksInv
  <2> QED  BY <2>4, <2>8, <2>10, <2>11 DEF SweepInv
<1> QED  BY <1>12, <1>13

-----------------------------------------------------------------------------
(* A page of commits.                                                      *)

(* A page of commits: a merged pull request has the commits it had. *)
LEMMA ListCommitsStep == IInv /\ ListCommits => SweepInv'
<1> SUFFICES ASSUME IInv, ListCommits PROVE SweepInv'
  OBVIOUS
<1> DEFINE n == Head(todo)
           L == pulls[n].commits
           P == Page(L, page)
           more == Continues(L, Limit("commits"))
<1>0. PICK read \in BOOLEAN :
        /\ prs' = [i \in DOMAIN prs |->
                     IF read /\ prs[i].number = n THEN [prs[i] EXCEPT !.commits = @ \o P] ELSE prs[i]]
        /\ unread \subseteq unread' /\ (read \/ "commits" \in unread')
  <2>1. prs \in Seq(Pull) /\ phase = "commits"
    BY DEF IInv, SweepOK, ListCommits
  <2>2. prs = [i \in DOMAIN prs |-> prs[i]]
    BY <2>1
  <2> QED  BY <2>1, <2>2 DEF ListCommits, Readable, Unreadable
<1>1. /\ RepositoryOK /\ SweepOK /\ PullsInv /\ CommitsInv /\ RunsInv /\ ChecksInv
      /\ UNCHANGED repository /\ phase = "commits" /\ todo # <<>>
      /\ IF more THEN Stay /\ UNCHANGED cut
         ELSE /\ Leave("commits", L)
              /\ page' = 1 /\ todo' = Tail(todo) /\ UNCHANGED <<phase, entered>>
      /\ UNCHANGED <<pages, runs, jobs, probed, checked>>
  BY Zenon DEF IInv, ListCommits
<1>2. /\ now' = now /\ pulls' = pulls /\ ci' = ci /\ Opened' = Opened /\ StartedRuns' = StartedRuns
      /\ \A name : Limit(name)' = Limit(name)
  BY <1>1, SameRepository
<1>3. /\ page \in Nat \ {0} /\ prs \in Seq(Pull) /\ todo \in Seq(Tasks)
      /\ \A i, j \in DOMAIN todo : todo[i] = todo[j] => i = j
      /\ page <= Limit("commits") /\ Limit("commits") \in Nat \ {0}
  BY <1>1, Limits DEF SweepOK, CommitsInv
<1>4. /\ n \in Tasks /\ n \in Range(todo) /\ n \notin Range(Tail(todo)) /\ Tail(todo) \in Seq(Tasks)
      /\ Range(todo) = Range(Tail(todo)) \cup {n}
      /\ \A i, j \in DOMAIN Tail(todo) : Tail(todo)[i] = Tail(todo)[j] => i = j
  BY <1>1, <1>3, Rest
<1>5. pulls[n] \in Pull /\ L \in Commits
  <2>1. pulls[n] \in Pull
    BY <1>1, <1>4 DEF RepositoryOK
  <2> QED  BY <2>1 DEF Pull
<1>6. /\ \A c \in Commits : c \o P \in Commits
      /\ Len(L) \in Nat /\ Before \in Nat
      /\ Before <= Len(L) =>
           /\ HasNext(L, page) => Before + PageSize <= Len(L)
                                  /\ SubSeq(L, 1, Before) \o P = SubSeq(L, 1, Before + PageSize)
           /\ ~ HasNext(L, page) => SubSeq(L, 1, Before) \o P = L
  BY <1>3, <1>5, CommitPage DEF Before
<1>7. page * PageSize = Before + PageSize /\ PageSize \in Nat /\ PageSize > 0
  <2>1. PullListing \in Seq(Pull)
    BY <1>1, PullListingHolds
  <2> QED  BY <1>3, <2>1, PageHolds, CollectorAssumption DEF Before
<1> DEFINE Read(p) == IF read /\ p.number = n THEN [p EXCEPT !.commits = @ \o P] ELSE p
<1>8. DOMAIN (prs') = DOMAIN prs /\ \A i \in DOMAIN prs : prs'[i] = Read(prs[i])
  BY <1>0
<1> HIDE DEF P, L, n, more
<1>9. \A p \in Pull :
        /\ Read(p) \in Pull /\ Read(p).number = p.number /\ Read(p).merged = p.merged
        /\ Read(p).commits = IF read /\ p.number = n THEN p.commits \o P ELSE p.commits
  <2> TAKE p \in Pull
  <2>1. p \in Pull /\ p.commits \in Commits /\ p.commits \o P \in Commits
    <3>1. p.commits \in Commits
      BY DEF Pull
    <3> QED  BY <1>6, <3>1
  <2>2. [p EXCEPT !.commits = @ \o P] \in Pull
    BY <2>1 DEF Pull
  <2>3. LET q == [p EXCEPT !.commits = @ \o P] IN
        q.number = p.number /\ q.merged = p.merged /\ q.commits = p.commits \o P
    BY <2>1 DEF Pull
  <2> QED  BY <2>1, <2>2, <2>3
<1> HIDE DEF Read
<1>10. /\ Len(prs) \in Nat /\ DOMAIN prs = 1..Len(prs)
       /\ \A i \in DOMAIN prs : prs[i] \in Pull
       /\ \A p \in Range(prs) : p \in Pull
  <2>1. /\ Len(prs) \in Nat /\ DOMAIN prs = 1..Len(prs)
        /\ \A i \in DOMAIN prs : prs[i] \in Pull
    BY <1>3
  <2> QED  BY <2>1 DEF Range
<1>11. prs' \in Seq(Pull)
  <2>1. \A i \in 1..Len(prs) : prs'[i] \in Pull
    BY <1>8, <1>9, <1>10
  <2>2. prs' = [i \in 1..Len(prs) |-> prs'[i]]
    BY <1>0, <1>10
  <2> QED  BY <1>10, <2>1, <2>2
<1>12. \A i \in DOMAIN prs : prs'[i].number = prs[i].number /\ prs'[i].merged = prs[i].merged
  BY <1>8, <1>9, <1>10
<1>13. \A q \in Range(prs') : \E p \in Range(prs) : q = Read(p)
  BY <1>8 DEF Range
<1>14. phase' = phase /\ entered' = entered
  BY <1>1 DEF Stay
<1>15. \A p \in Range(prs) : \E q \in Range(prs') : q.number = p.number
  BY <1>8, <1>12 DEF Range
<1>16. PullsInv'
  <2>1. prs # <<>> => prs' # <<>>
    <3>1. prs = <<>> <=> DOMAIN prs = {}
      BY <1>3
    <3>2. prs' = <<>> => DOMAIN (prs') = {}
      OBVIOUS
    <3> QED  BY <1>8, <3>1, <3>2
  <2>2. \/ prs # <<>> /\ pages.pulls >= Limit("pulls")
        \/ "pulls" \in unread
        \/ \A m \in Opened : pulls[m].created <= entered["pulls"] =>
             \E p \in Range(prs) : p.number = m
    BY <1>1 DEF PullsInv, Listed
  <2>3. \/ prs' # <<>> /\ pages.pulls >= Limit("pulls")
        \/ "pulls" \in unread'
        \/ \A m \in Opened : pulls[m].created <= entered["pulls"] =>
             \E p \in Range(prs') : p.number = m
    BY <1>0, <1>15, <2>1, <2>2
  <2>4. \A i, j \in DOMAIN (prs') : prs'[i].number = prs'[j].number => i = j
    <3>1. \A i, j \in DOMAIN prs : prs[i].number = prs[j].number => i = j
      BY <1>1 DEF PullsInv
    <3> QED  BY <1>8, <1>12, <3>1
  <2>5. /\ phase' = "commits" /\ pages' = pages /\ entered' = entered
        /\ Limit("pulls")' = Limit("pulls")
    BY <1>1, <1>2, <1>14
  <2> QED  BY <1>2, <2>3, <2>4, <2>5 DEF PullsInv
<1>17. RunsInv' /\ ChecksInv'
  BY <1>1, <1>14 DEF RunsInv, RunsListed, Listed, ChecksInv
<1>18. \A q \in Range(prs') : q.merged # 0 => pulls'[q.number].merged # 0
  BY <1>1, <1>2, <1>9, <1>10, <1>13 DEF CommitsInv
<1>19. "commits" \notin unread' => read /\ \A p \in Range(prs) : CommitsSoFar(p)
  BY <1>0, <1>1 DEF CommitsInv
<1>20. ASSUME "commits" \notin unread'
       PROVE  \A q \in Range(prs') :
         \E p \in Range(prs) :
           /\ p \in Pull /\ CommitsSoFar(p) /\ q.number = p.number /\ q.merged = p.merged
           /\ q.commits = IF p.number = n THEN p.commits \o P ELSE p.commits
  BY <1>9, <1>10, <1>13, <1>19, <1>20
<1>21. /\ \A i \in DOMAIN (prs') : prs'[i].number \in Opened'
       /\ runs' \in Seq(RunState) /\ \A i \in DOMAIN (runs') : runs'[i].run \in StartedRuns'
       /\ probed' \subseteq Revisions /\ phase' \in Phases \cup Ends
       /\ phase' # "jobs" /\ phase' # "checks"
       /\ pages' \in [pulls : Nat, runs : Nat]
       /\ entered' \in [Phases -> Nat] /\ \A p \in Phases : entered'[p] <= now'
  <2>1. \A i \in DOMAIN (prs') : prs'[i].number \in Opened'
    BY <1>1, <1>2, <1>8, <1>12 DEF SweepOK
  <2>2. phase' # "jobs" /\ phase' # "checks"
    BY <1>1, <1>14
  <2> QED  BY <1>1, <1>2, <1>14, <2>1, <2>2, Zenon DEF SweepOK
<1>22. CASE more
  <2>1. /\ page' = page + 1 /\ todo' = todo /\ cut' = cut
        /\ HasNext(L, page) /\ page < Limit("commits")
    BY <1>1, <1>22 DEF Stay, Continues, more
  <2>2. Before' = Before + PageSize
    <3>1. (page + 1) - 1 = page
      BY <1>3
    <3> QED  BY <1>7, <2>1, <3>1 DEF Before
  <2>3. page' \in Nat \ {0} /\ page' <= Limit("commits")'
    BY <1>2, <1>3, <2>1
  <2>4. SweepOK'
    <3>1. todo' \in Seq(Tasks) /\ cut' \subseteq {"pulls", "commits", "runs", "shas"}
      BY <1>1, <1>3, <2>1 DEF SweepOK
    <3> QED  BY <1>11, <1>21, <2>3, <3>1, Zenon DEF SweepOK
  <2>5. "commits" \in unread' \/ \A q \in Range(prs') : CommitsSoFar(q)'
    <3> SUFFICES ASSUME "commits" \notin unread', NEW q \in Range(prs') PROVE CommitsSoFar(q)'
      OBVIOUS
    <3>1. PICK p \in Range(prs) :
           /\ p \in Pull /\ CommitsSoFar(p) /\ q.number = p.number /\ q.merged = p.merged
           /\ q.commits = IF p.number = n THEN p.commits \o P ELSE p.commits
      BY <1>20
    <3>2. CASE p.number = n
      <4>1. p.number \in Range(todo) /\ p.number = Head(todo)
        BY <1>4, <3>2 DEF n
      <4>2. p.merged # 0 => Before <= Len(L) /\ p.commits = SubSeq(L, 1, Before)
        BY <3>1, <3>2, <4>1 DEF CommitsSoFar, L
      <4>3. q.merged # 0 => Before + PageSize <= Len(L) /\ q.commits = SubSeq(L, 1, Before + PageSize)
        BY <1>6, <2>1, <3>1, <3>2, <4>2
      <4>4. L = pulls'[q.number].commits
        BY <1>2, <3>1, <3>2 DEF L
      <4> QED  BY <2>1, <2>2, <3>1, <4>1, <4>3, <4>4 DEF CommitsSoFar
    <3>3. CASE p.number # n
      <4>1. q.number # Head(todo) /\ q.commits = p.commits
        BY <3>1, <3>3 DEF n
      <4>2. CommitsComplete(p) => CommitsComplete(q)'
        BY <1>2, <3>1, <4>1 DEF CommitsComplete
      <4> QED  BY <2>1, <3>1, <4>1, <4>2 DEF CommitsSoFar
    <3> QED  BY <3>2, <3>3
  <2>6. CommitsInv'
    BY <1>1, <1>3, <1>14, <1>18, <2>1, <2>3, <2>5 DEF CommitsInv
  <2> QED  BY <1>16, <1>17, <2>4, <2>6 DEF SweepInv
<1>23. CASE ~ more
  <2>1. /\ page' = 1 /\ todo' = Tail(todo) /\ cut' \subseteq cut \cup {"commits"}
        /\ HasNext(L, page) => page = Limit("commits")
    <3>1. page' = 1 /\ todo' = Tail(todo) /\ cut' \subseteq cut \cup {"commits"}
      BY <1>1, <1>23 DEF Leave
    <3>2. HasNext(L, page) => page = Limit("commits")
      BY <1>3, <1>23 DEF Continues, more
    <3> QED  BY <3>1, <3>2
  <2>2. Before' = 0
    BY <1>7, <2>1 DEF Before
  <2>3. page' \in Nat \ {0} /\ page' <= Limit("commits")'
    BY <1>2, <1>3, <2>1
  <2>4. SweepOK'
    <3>1. todo' \in Seq(Tasks) /\ cut' \subseteq {"pulls", "commits", "runs", "shas"}
      <4>1. cut \subseteq {"pulls", "commits", "runs", "shas"}
        BY <1>1 DEF SweepOK
      <4> QED  BY <1>4, <2>1, <4>1
    <3> QED  BY <1>11, <1>21, <2>3, <3>1, Zenon DEF SweepOK
  <2>5. "commits" \in unread' \/ \A q \in Range(prs') : CommitsSoFar(q)'
    <3> SUFFICES ASSUME "commits" \notin unread', NEW q \in Range(prs') PROVE CommitsSoFar(q)'
      OBVIOUS
    <3>1. PICK p \in Range(prs) :
           /\ p \in Pull /\ CommitsSoFar(p) /\ q.number = p.number /\ q.merged = p.merged
           /\ q.commits = IF p.number = n THEN p.commits \o P ELSE p.commits
      BY <1>20
    <3>2. CASE p.number = n
      <4>1. p.number \in Range(todo) /\ p.number = Head(todo)
        BY <1>4, <3>2 DEF n
      <4>2. p.merged # 0 => Before <= Len(L) /\ p.commits = SubSeq(L, 1, Before)
        BY <3>1, <3>2, <4>1 DEF CommitsSoFar, L
      <4>3. q.merged # 0 =>
              \/ Before + PageSize <= Len(L) /\ q.commits = SubSeq(L, 1, Before + PageSize)
                   /\ page = Limit("commits")
              \/ q.commits = L
        BY <1>6, <2>1, <3>1, <3>2, <4>2
      <4>4. Before + PageSize <= Len(L) => Len(SubSeq(L, 1, Before + PageSize)) = page * PageSize
        <5> DEFINE C == [sha : Revisions, date : Nat]
        <5>1. L \in Seq(C)
          BY <1>5 DEF Commits
        <5> HIDE DEF C
        <5> SUFFICES ASSUME Before + PageSize <= Len(L)
                     PROVE  Len(SubSeq(L, 1, Before + PageSize)) = page * PageSize
          OBVIOUS
        <5>2. \A i \in 1..(Before + PageSize) : L[i] \in C
          BY <1>6, <1>7, <5>1
        <5>3. 1 \in Int /\ Before + PageSize \in Int /\ 1 <= Before + PageSize
          BY <1>6, <1>7
        <5>4. Len(SubSeq(L, 1, Before + PageSize)) = (Before + PageSize) - 1 + 1
          BY <5>2, <5>3, SubSeqProperties
        <5> QED  BY <1>6, <1>7, <5>4
      <4>5. L = pulls'[q.number].commits
        BY <1>2, <3>1, <3>2 DEF L
      <4>6. CommitsComplete(q)'
        <5>1. Limit("commits")' * PageSize = Limit("commits") * PageSize
          BY <1>2
        <5>2. page = Limit("commits") => page * PageSize = Limit("commits") * PageSize
          OBVIOUS
        <5>3. page * PageSize \in Nat
          BY <1>6, <1>7
        <5>4. q.merged # 0 => q.commits = L \/ Len(q.commits) = Limit("commits") * PageSize
          BY <4>3, <4>4, <5>2
        <5>5. q.merged # 0 /\ q.commits # L => Limit("commits") * PageSize \in Nat
          BY <4>3, <5>2, <5>3
        <5> QED  BY <4>5, <5>1, <5>4, <5>5 DEF CommitsComplete
      <4>7. q.number \notin Range(todo')
        BY <1>4, <2>1, <3>1, <3>2
      <4> QED  BY <4>6, <4>7 DEF CommitsSoFar
    <3>3. CASE p.number # n
      <4>1. /\ q.number # Head(todo) /\ q.commits = p.commits
            /\ q.number \in Range(todo') <=> p.number \in Range(todo)
        BY <1>4, <2>1, <3>1, <3>3 DEF n
      <4>2. CommitsComplete(p) => CommitsComplete(q)'
        BY <1>2, <3>1, <4>1 DEF CommitsComplete
      <4>3. CASE q.number \notin Range(todo')
        BY <3>1, <4>1, <4>2, <4>3 DEF CommitsSoFar
      <4>4. CASE q.number \in Range(todo')
        <5>1. q.commits = <<>>
          BY <3>1, <4>1, <4>4 DEF CommitsSoFar
        <5>2. SubSeq(pulls'[q.number].commits, 1, 0) = <<>>
          BY SubSeqEmpty
        <5>3. Len(pulls'[q.number].commits) >= 0
          <6>1. q.number \in Tasks
            BY <3>1 DEF Pull
          <6>2. pulls'[q.number] \in Pull
            BY <1>1, <1>2, <6>1 DEF RepositoryOK
          <6>3. pulls'[q.number].commits \in Commits
            BY <6>2 DEF Pull
          <6> QED  BY <6>3 DEF Commits
        <5> QED  BY <2>2, <4>4, <5>1, <5>2, <5>3 DEF CommitsSoFar
      <4> QED  BY <4>3, <4>4
    <3> QED  BY <3>2, <3>3
  <2>6. CommitsInv'
    BY <1>1, <1>4, <1>14, <1>18, <2>1, <2>3, <2>5 DEF CommitsInv
  <2> QED  BY <1>16, <1>17, <2>4, <2>6 DEF SweepInv
<1> QED  BY <1>22, <1>23

-----------------------------------------------------------------------------
(* Jobs, checks and a page of runs.                                        *)

(* What a step keeps that leaves alone the pull requests and runs read.    *)
LEMMA ReadingKept ==
  ASSUME IInv, UNCHANGED <<repository, pages, prs, runs>>, unread \subseteq unread',
         phase \in RunsListed, phase' \in RunsListed,
         \A p \in Phases : p \in {"pulls", "runs"} => entered'[p] = entered[p]
  PROVE  PullsInv' /\ CommitsInv' /\ RunsInv'
<1>1. /\ RepositoryOK /\ SweepOK /\ PullsInv /\ CommitsInv /\ RunsInv /\ ChecksInv
      /\ prs' = prs /\ runs' = runs /\ pages' = pages
  BY DEF IInv
<1>2. /\ now' = now /\ pulls' = pulls /\ ci' = ci /\ Opened' = Opened /\ StartedRuns' = StartedRuns
      /\ \A name : Limit(name)' = Limit(name)
  BY SameRepository
<1>3. entered'["pulls"] = entered["pulls"] /\ entered'["runs"] = entered["runs"]
  BY DEF Phases
<1>4. /\ phase \in Listed \ {"commits"} /\ phase' \in Listed \ {"commits"}
      /\ phase' # "commits" /\ phase' # "pulls" /\ phase' # "runs"
  BY DEF RunsListed, Listed
<1>5. PullsInv'
  BY <1>1, <1>2, <1>3, <1>4 DEF PullsInv, PlaceOf
<1>6. CommitsInv'
  <2>1. \A p : CommitsComplete(p) => CommitsComplete(p)'
    BY <1>2 DEF CommitsComplete
  <2> QED  BY <1>1, <1>2, <1>4, <2>1 DEF CommitsInv
<1>7. RunsInv'
  BY <1>1, <1>2, <1>3, <1>4 DEF RunsInv, IsListed
<1> QED  BY <1>5, <1>6, <1>7

(* The jobs of one run. *)
LEMMA ListJobsStep == IInv /\ ListJobs => SweepInv'
<1> SUFFICES ASSUME IInv, ListJobs PROVE SweepInv'
  OBVIOUS
<1>1. /\ RepositoryOK /\ SweepOK /\ ChecksInv
      /\ UNCHANGED repository /\ phase = "jobs" /\ todo # <<>>
      /\ page' = 1 /\ todo' = Tail(todo) /\ phase' = phase /\ entered' = entered
      /\ UNCHANGED <<pages, prs, runs, probed, checked, cut>> /\ unread \subseteq unread'
  BY DEF IInv, ListJobs, Readable, Unreadable
<1>2. /\ now' = now /\ Opened' = Opened /\ StartedRuns' = StartedRuns
  BY <1>1, SameRepository
<1>3. todo' \in Seq(DOMAIN runs)
  BY <1>1, Rest DEF SweepOK
<1>4. SweepOK'
  <2>1. page' \in Nat \ {0} /\ phase' # "commits" /\ phase' # "checks"
    BY <1>1
  <2> QED  BY <1>1, <1>2, <1>3, <2>1, Zenon DEF SweepOK
<1>5. PullsInv' /\ CommitsInv' /\ RunsInv'
  BY <1>1, ReadingKept DEF RunsListed, Listed
<1>6. ChecksInv'
  BY <1>1 DEF ChecksInv
<1> QED  BY <1>4, <1>5, <1>6 DEF SweepInv

(* After the jobs come the checks, of as many revisions as the limit       *)
(* allows.                                                                 *)
LEMMA JobsReadStep == IInv /\ JobsRead => SweepInv'
<1> SUFFICES ASSUME IInv, JobsRead PROVE SweepInv'
  OBVIOUS
<1> DEFINE D == DistinctRevisions
           most == IF Len(D) < Limit("shas") THEN Len(D) ELSE Limit("shas")
<1>1. /\ RepositoryOK /\ SweepOK /\ ChecksInv
      /\ UNCHANGED repository /\ phase = "jobs"
      /\ Move("checks", SubSeq(D, 1, most))
      /\ cut' = IF most < Len(D) THEN cut \cup {"shas"} ELSE cut
      /\ UNCHANGED <<pages, prs, runs, probed, checked, unread>>
  BY DEF IInv, JobsRead
<1>2. /\ now' = now /\ Opened' = Opened /\ StartedRuns' = StartedRuns
  BY <1>1, SameRepository
<1>3. /\ phase' = "checks" /\ page' = 1 /\ todo' = SubSeq(D, 1, most)
      /\ entered' \in [Phases -> Nat] /\ \A p \in Phases : entered'[p] <= now'
      /\ \A p \in Phases : p # "checks" => entered'[p] = entered[p]
  BY <1>1, <1>2, PhaseBegins DEF Phases
<1>4. D \in Seq(Revisions) /\ Range(D) = ReadShas
  BY <1>1, DistinctRevisionsHold DEF SweepOK
<1>5. Limit("shas") \in Nat \ {0}
  BY <1>1, Limits
<1> HIDE DEF D
<1>6. most \in Nat /\ most <= Len(D)
  BY <1>4, <1>5
<1> HIDE DEF most
<1>7. todo' \in Seq(Revisions) /\ Range(todo') \subseteq ReadShas
  <2>1. \A i \in 1..most : D[i] \in Revisions /\ i \in DOMAIN D
    BY <1>4, <1>6
  <2>2. /\ todo' \in Seq(Revisions) /\ Len(todo') = IF 1 <= most THEN most - 1 + 1 ELSE 0
        /\ \A i \in 1..(most - 1 + 1) : (todo')[i] = D[1 + i - 1]
    BY <1>3, <1>6, <2>1, SubSeqProperties
  <2>3. DOMAIN (todo') = 1..most /\ \A i \in 1..most : (todo')[i] = D[i]
    BY <1>6, <2>2
  <2> QED  BY <1>4, <2>1, <2>2, <2>3 DEF Range
<1>8. SweepOK'
  <2>1. /\ page' \in Nat \ {0} /\ phase' # "commits" /\ phase' # "jobs"
        /\ phase' \in Phases \cup Ends
    BY <1>3 DEF Phases
  <2>2. cut' \subseteq {"pulls", "commits", "runs", "shas"}
    BY <1>1 DEF SweepOK
  <2> QED  BY <1>1, <1>2, <1>3, <1>7, <2>1, <2>2, Zenon DEF SweepOK
<1>9. PullsInv' /\ CommitsInv' /\ RunsInv'
  <2>1. phase \in RunsListed /\ phase' \in RunsListed
    BY <1>1, <1>3 DEF RunsListed, Listed
  <2>2. \A p \in Phases : p \in {"pulls", "runs"} => entered'[p] = entered[p]
    BY <1>3
  <2> QED  BY <1>1, <2>1, <2>2, ReadingKept
<1>10. ChecksInv'
  <2>1. probed' = {} /\ checked' = {} /\ ReadShas' = ReadShas
    BY <1>1 DEF ChecksInv, ReadShas
  <2> QED  BY <1>3, <1>7, <2>1 DEF ChecksInv
<1> QED  BY <1>8, <1>9, <1>10 DEF SweepInv

(* The checks of one revision. *)
LEMMA ProbeChecksStep == IInv /\ ProbeChecks => SweepInv'
<1> SUFFICES ASSUME IInv, ProbeChecks PROVE SweepInv'
  OBVIOUS
<1>1. /\ RepositoryOK /\ SweepOK /\ ChecksInv
      /\ UNCHANGED repository /\ phase = "checks" /\ todo # <<>>
      /\ probed' = probed \cup {Head(todo)}
      /\ page' = 1 /\ todo' = Tail(todo) /\ phase' = phase /\ entered' = entered
      /\ UNCHANGED <<pages, prs, runs, cut>> /\ unread \subseteq unread'
      /\ checked' = checked \cup {Head(todo)} \/ "checks" \in unread'
  BY DEF IInv, ProbeChecks, Readable, Unreadable
<1>2. /\ now' = now /\ Opened' = Opened /\ StartedRuns' = StartedRuns
  BY <1>1, SameRepository
<1>3. /\ todo' \in Seq(Revisions) /\ Range(todo') \subseteq Range(todo)
      /\ Head(todo) \in Revisions /\ Head(todo) \in Range(todo)
  BY <1>1, Rest DEF SweepOK
<1>4. SweepOK'
  <2>1. page' \in Nat \ {0} /\ phase' # "commits" /\ phase' # "jobs"
    BY <1>1
  <2>2. probed' \subseteq Revisions
    BY <1>1, <1>3 DEF SweepOK
  <2> QED  BY <1>1, <1>2, <1>3, <2>1, <2>2, Zenon DEF SweepOK
<1>5. PullsInv' /\ CommitsInv' /\ RunsInv'
  BY <1>1, ReadingKept DEF RunsListed, Listed
<1>6. ChecksInv'
  BY <1>1, <1>3 DEF ChecksInv, ReadShas
<1> QED  BY <1>4, <1>5, <1>6 DEF SweepInv

(* After the last checks the sweep is complete. *)
LEMMA ChecksReadStep == IInv /\ ChecksRead => SweepInv'
<1> SUFFICES ASSUME IInv, ChecksRead PROVE SweepInv'
  OBVIOUS
<1>1. /\ RepositoryOK /\ SweepOK /\ ChecksInv
      /\ UNCHANGED repository /\ phase = "checks" /\ Move("assemble", <<>>)
      /\ UNCHANGED <<pages, prs, runs, probed, checked, unread, cut>>
  BY DEF IInv, ChecksRead
<1>2. /\ now' = now /\ Opened' = Opened /\ StartedRuns' = StartedRuns
  BY <1>1, SameRepository
<1>3. /\ phase' = "assemble" /\ page' = 1
      /\ entered' \in [Phases -> Nat] /\ \A p \in Phases : entered'[p] <= now'
      /\ \A p \in Phases : p # "assemble" => entered'[p] = entered[p]
  BY <1>1, <1>2, PhaseBegins DEF Phases
<1>4. SweepOK'
  <2>1. /\ page' \in Nat \ {0} /\ phase' # "commits" /\ phase' # "jobs" /\ phase' # "checks"
        /\ phase' \in Phases \cup Ends
    BY <1>3 DEF Phases
  <2> QED  BY <1>1, <1>2, <1>3, <2>1, Zenon DEF SweepOK
<1>5. PullsInv' /\ CommitsInv' /\ RunsInv'
  <2>1. phase \in RunsListed /\ phase' \in RunsListed
    BY <1>1, <1>3 DEF RunsListed, Listed
  <2>2. \A p \in Phases : p \in {"pulls", "runs"} => entered'[p] = entered[p]
    BY <1>3
  <2> QED  BY <1>1, <2>1, <2>2, ReadingKept
<1>6. ChecksInv'
  BY <1>1, <1>3 DEF ChecksInv, ReadShas
<1> QED  BY <1>4, <1>5, <1>6 DEF SweepInv

(* A page of runs: what is not on it and is not new stands beyond it. *)
LEMMA ListRunsStep == IInv /\ ListRuns => SweepInv'
<1> SUFFICES ASSUME IInv, ListRuns PROVE SweepInv'
  OBVIOUS
<1> DEFINE more == Continues(RunListing, Limit("runs"))
<1>0. PICK P \in {Page(RunListing, page), <<>>} :
        /\ runs' = runs \o P /\ unread \subseteq unread'
        /\ P = Page(RunListing, page) \/ "runs" \in unread'
  <2>1. runs \in Seq(RunState) /\ phase = "runs"
    BY DEF IInv, SweepOK, ListRuns
  <2>2. runs \o <<>> = runs
    BY <2>1, ConcatEmptySeq
  <2> QED  BY <2>1, <2>2 DEF ListRuns, Readable, Unreadable
<1>1. /\ RepositoryOK /\ SweepOK /\ PullsInv /\ CommitsInv /\ RunsInv /\ ChecksInv
      /\ UNCHANGED repository /\ phase = "runs"
      /\ pages' = [pages EXCEPT !.runs = @ + 1]
      /\ IF more THEN Stay /\ UNCHANGED cut
         ELSE Leave("runs", RunListing) /\ Move("jobs", EntriesToFetch(runs', CorrelationIndex))
      /\ UNCHANGED <<prs, jobs, probed, checked>>
  BY Zenon DEF IInv, ListRuns
<1>2. /\ now' = now /\ pulls' = pulls /\ ci' = ci /\ Opened' = Opened /\ StartedRuns' = StartedRuns
      /\ \A name : Limit(name)' = Limit(name)
      /\ \A k : Rank(k)' = Rank(k)
  BY <1>1, SameRepository
<1>3. /\ page \in Nat \ {0} /\ runs \in Seq(RunState) /\ pages \in [pulls : Nat, runs : Nat]
      /\ Len(runs) <= Before /\ pages.runs = page - 1 /\ page <= Limit("runs")
      /\ Limit("runs") \in Nat \ {0}
  BY <1>1, Limits DEF SweepOK, RunsInv
<1>4. /\ P \in Seq(RunState) /\ Before \in Nat
      /\ \A i \in 1..Len(P) : P[i].run \in Latest
      /\ HasNext(RunListing, page) => Len(P) <= PageSize
      /\ HasNext(RunListing, page) => Len(P) = PageSize \/ "runs" \in unread'
      /\ "runs" \in unread' \/
           \A k \in StartedIds : Rank(k) > Before =>
             \/ \E i \in 1..Len(P) : P[i].run.id = k
             \/ Rank(k) > Before + PageSize /\ HasNext(RunListing, page)
  <2> DEFINE Q == Page(RunListing, page)
  <2>1. /\ Q \in Seq(RunState) /\ Before \in Nat /\ PageSize \in Nat
        /\ \A i \in 1..Len(Q) : Q[i].run \in Latest
        /\ HasNext(RunListing, page) => Len(Q) = PageSize
        /\ \A k \in StartedIds : Rank(k) > Before =>
             \/ \E i \in 1..Len(Q) : Q[i].run.id = k
             \/ Rank(k) > Before + PageSize /\ HasNext(RunListing, page)
    BY <1>1, <1>3, RunPage, CollectorAssumption DEF Before
  <2>2. P = Q \/ (P = <<>> /\ "runs" \in unread')
    BY <1>0
  <2> HIDE DEF Q
  <2>3. CASE P = Q
    BY <2>1, <2>3
  <2>4. CASE P = <<>> /\ "runs" \in unread'
    BY <2>1, <2>4
  <2> QED  BY <2>2, <2>3, <2>4
<1>5. page * PageSize = Before + PageSize /\ PageSize \in Nat /\ PageSize > 0
  <2>1. PullListing \in Seq(Pull)
    BY <1>1, PullListingHolds
  <2> QED  BY <1>3, <2>1, PageHolds, CollectorAssumption DEF Before
<1> HIDE DEF more
<1>6. /\ runs' \in Seq(RunState) /\ Len(runs') = Len(runs) + Len(P) /\ Range(runs') = Range(runs) \cup Range(P)
      /\ Len(runs) \in Nat /\ Len(P) \in Nat /\ DOMAIN P = 1..Len(P)
      /\ \A i \in DOMAIN (runs') :
           \/ i \in DOMAIN runs /\ runs'[i] = runs[i]
           \/ i - Len(runs) \in DOMAIN P /\ runs'[i] = P[i - Len(runs)]
  <2>1. runs' \in Seq(RunState) /\ Joined(runs', runs, P)
    BY <1>0, <1>3, <1>4, Added
  <2> QED  BY <2>1, Zenon DEF Joined
<1>7. \A i \in DOMAIN (runs') : runs'[i].run \in StartedRuns'
  <2>1. Latest \subseteq StartedRuns
    BY DEF Latest
  <2>2. \A i \in DOMAIN runs : runs[i].run \in StartedRuns
    BY <1>1 DEF SweepOK
  <2> QED  BY <1>2, <1>4, <1>6, <2>1, <2>2
<1>8. "runs" \in unread' \/
        \A r \in StartedRuns : ci[r].start <= entered["runs"] =>
          IsListed(r)' \/ (Rank(r.id) > Before + PageSize /\ HasNext(RunListing, page))
  <2> SUFFICES ASSUME "runs" \notin unread', NEW r \in StartedRuns, ci[r].start <= entered["runs"]
               PROVE  IsListed(r)' \/ (Rank(r.id) > Before + PageSize /\ HasNext(RunListing, page))
    OBVIOUS
  <2>1. IsListed(r) \/ Rank(r.id) > Before
    BY <1>0, <1>1 DEF RunsInv
  <2>2. IsListed(r) => IsListed(r)'
    BY <1>6 DEF IsListed
  <2>3. r.id \in StartedIds
    BY DEF StartedIds
  <2>4. (\E i \in 1..Len(P) : P[i].run.id = r.id) => IsListed(r)'
    BY <1>6 DEF IsListed, Range
  <2> QED  BY <1>4, <2>1, <2>2, <2>3, <2>4
<1>9. pages' \in [pulls : Nat, runs : Nat] /\ pages'.runs = page /\ pages'.pulls = pages.pulls
  BY <1>1, <1>3
<1>10. /\ prs' \in Seq(Pull) /\ \A i \in DOMAIN (prs') : prs'[i].number \in Opened'
       /\ probed' \subseteq Revisions
  BY <1>1, <1>2 DEF SweepOK
<1>11. ASSUME phase' \in {"runs", "jobs"}, entered'["pulls"] = entered["pulls"]
       PROVE  PullsInv' /\ CommitsInv' /\ ChecksInv'
  <2>1. phase' \in Listed /\ phase' # "pulls" /\ phase' # "commits" /\ phase \in Listed \ {"commits"}
    BY <1>1, <1>11 DEF Listed
  <2>2. PullsInv'
    BY <1>0, <1>1, <1>2, <1>9, <1>11, <2>1 DEF PullsInv
  <2>3. CommitsInv'
    <3>1. \A p : CommitsComplete(p) => CommitsComplete(p)'
      BY <1>2 DEF CommitsComplete
    <3> QED  BY <1>0, <1>1, <1>2, <2>1, <3>1 DEF CommitsInv
  <2>4. ChecksInv'
    BY <1>1, <1>11 DEF ChecksInv
  <2> QED  BY <2>2, <2>3, <2>4
<1>12. CASE more
  <2>1. /\ phase' = "runs" /\ page' = page + 1 /\ todo' = todo /\ entered' = entered /\ cut' = cut
        /\ HasNext(RunListing, page) /\ page < Limit("runs")
    BY <1>1, <1>12 DEF Stay, Continues, more
  <2>2. Before' = Before + PageSize
    <3>1. (page + 1) - 1 = page
      BY <1>3
    <3> QED  BY <1>5, <2>1, <3>1 DEF Before
  <2>3. SweepOK'
    <3>1. /\ page' \in Nat \ {0} /\ phase' # "commits" /\ phase' # "jobs" /\ phase' # "checks"
      BY <1>3, <2>1
    <3>2. entered' \in [Phases -> Nat] /\ (\A p \in Phases : entered'[p] <= now') /\ phase' \in Phases \cup Ends
      BY <1>1, <1>2, <2>1 DEF SweepOK
    <3>3. cut' \subseteq {"pulls", "commits", "runs", "shas"}
      BY <1>1, <2>1 DEF SweepOK
    <3> QED  BY <1>6, <1>7, <1>9, <1>10, <3>1, <3>2, <3>3, Zenon DEF SweepOK
  <2>4. RunsInv'
    <3>1. Len(runs') <= Before'
      <4>1. Len(P) <= PageSize /\ Len(runs) <= Before /\ Len(runs') = Len(runs) + Len(P)
        BY <1>3, <1>4, <1>6, <2>1
      <4>2. Len(P) \in Nat /\ Len(runs) \in Nat /\ Before \in Nat /\ PageSize \in Nat
        BY <1>4, <1>5, <1>6
      <4> HIDE DEF more
      <4> QED  BY <2>2, <4>1, <4>2
    <3>2. pages'.runs = page' - 1 /\ page' <= Limit("runs")'
      BY <1>2, <1>3, <1>9, <2>1
    <3>3. "runs" \in unread' \/
            \A r \in StartedRuns' : ci'[r].start <= entered'["runs"] =>
              IsListed(r)' \/ Rank(r.id)' > Before'
      BY <1>2, <1>8, <2>1, <2>2
    <3> QED  BY <2>1, <3>1, <3>2, <3>3 DEF RunsInv, RunsListed, Listed
  <2> QED  BY <1>11, <2>1, <2>3, <2>4 DEF SweepInv
<1>13. CASE ~ more
  <2>1. Move("jobs", EntriesToFetch(runs', CorrelationIndex)) /\ cut' \subseteq cut \cup {"runs"}
    BY <1>1, <1>13 DEF Leave
  <2>2. /\ phase' = "jobs" /\ page' = 1 /\ todo' = EntriesToFetch(runs', CorrelationIndex)
        /\ entered' \in [Phases -> Nat] /\ \A p \in Phases : entered'[p] <= now'
        /\ entered'["pulls"] = entered["pulls"] /\ entered'["runs"] = entered["runs"]
    BY <1>1, <1>2, <2>1, PhaseBegins DEF Phases
  <2>3. todo' \in Seq(DOMAIN (runs'))
    BY <1>6, <2>2, EntriesHold
  <2>4. SweepOK'
    <3>1. /\ page' \in Nat \ {0} /\ phase' # "commits" /\ phase' # "checks" /\ phase' \in Phases \cup Ends
      BY <2>2 DEF Phases
    <3>2. cut' \subseteq {"pulls", "commits", "runs", "shas"}
      <4>1. cut \subseteq {"pulls", "commits", "runs", "shas"}
        BY <1>1 DEF SweepOK
      <4> QED  BY <2>1, <4>1
    <3> QED  BY <1>6, <1>7, <1>9, <1>10, <2>2, <2>3, <3>1, <3>2, Zenon DEF SweepOK
  <2>5. HasNext(RunListing, page) /\ "runs" \notin unread' => runs' # <<>> /\ page >= Limit("runs")
    <3> HAVE HasNext(RunListing, page) /\ "runs" \notin unread'
    <3>1. page >= Limit("runs")
      BY <1>3, <1>13 DEF Continues, more
    <3>2. Len(runs') > 0
      <4>1. Len(P) = PageSize /\ Len(runs') = Len(runs) + Len(P) /\ Len(runs) \in Nat
        BY <1>4, <1>6
      <4> QED  BY <1>5, <4>1
    <3> QED  BY <3>1, <3>2
  <2>6. RunsInv'
    <3>1. \/ runs' # <<>> /\ pages'.runs >= Limit("runs")'
          \/ "runs" \in unread'
          \/ \A r \in StartedRuns' : ci'[r].start <= entered'["runs"] => IsListed(r)'
      BY <1>2, <1>8, <1>9, <2>2, <2>5
    <3> QED  BY <2>2, <3>1 DEF RunsInv
  <2> QED  BY <1>11, <2>2, <2>4, <2>6 DEF SweepInv
<1> QED  BY <1>12, <1>13

-----------------------------------------------------------------------------
(* Nothing is silently missed.                                             *)

(* The parts of the invariant hold together throughout. *)
LEMMA CollectorInvariant == Spec => []IInv
<1>1. Init => IInv
  BY InitRepository, InitSweep DEF IInv
<1>2. IInv /\ [Next]_vars => IInv'
  <2> SUFFICES ASSUME IInv, [Next]_vars PROVE IInv'
    OBVIOUS
  <2>1. CASE Repository
    BY <2>1, RepositoryKeepsSweep DEF IInv
  <2>2. CASE Begin \/ Collect \/ RequestFails
    <3>1. RepositoryOK'
      <4>1. UNCHANGED repository
        BY <2>2 DEF Begin, Collect, RequestFails, ListPulls, ListCommits, CommitsRead, ListRuns,
             ListJobs, JobsRead, ProbeChecks, ChecksRead, RunGithubReadOnly
      <4> QED  BY <4>1, SameRepository DEF IInv
    <3>2. SweepInv'
      BY <2>2, BeginStep, FailureStep, ListPullsStep, ListCommitsStep, CommitsReadStep, ListRunsStep,
         ListJobsStep, JobsReadStep, ProbeChecksStep, ChecksReadStep, ReportStep DEF Collect
    <3> QED  BY <3>1, <3>2 DEF IInv, SweepInv
  <2>3. CASE UNCHANGED vars
    <3>1. /\ UNCHANGED repository /\ UNCHANGED sweep
      BY <2>3 DEF vars
    <3>2. /\ pulls' = pulls /\ ci' = ci /\ scenario' = scenario /\ now' = now
          /\ phase' = phase /\ page' = page /\ pages' = pages /\ todo' = todo /\ prs' = prs
          /\ runs' = runs /\ probed' = probed /\ cut' = cut /\ entered' = entered
          /\ checked' = checked /\ unread' = unread
      BY <3>1 DEF repository, sweep
    <3>3. /\ RepositoryOK' /\ Opened' = Opened /\ StartedRuns' = StartedRuns
          /\ \A name : Limit(name)' = Limit(name)
          /\ \A k : Rank(k)' = Rank(k)
      BY <3>1, SameRepository DEF IInv
    <3>4. Before' = Before
      BY <3>2 DEF Before
    <3>5. SweepOK'
      BY <3>2, <3>3, Zenon DEF IInv, SweepOK
    <3>6. PullsInv'
      BY <3>2, <3>3, <3>4 DEF IInv, PullsInv, PlaceOf
    <3>7. CommitsInv'
      <4>1. \A p : CommitsComplete(p) => CommitsComplete(p)'
        BY <3>2, <3>3 DEF CommitsComplete
      <4>2. \A p : CommitsSoFar(p) => CommitsSoFar(p)'
        BY <3>2, <3>4, <4>1 DEF CommitsSoFar
      <4> QED  BY <3>2, <3>3, <4>1, <4>2 DEF IInv, CommitsInv
    <3>8. RunsInv'
      BY <3>2, <3>3, <3>4 DEF IInv, RunsInv, IsListed
    <3>9. ChecksInv'
      BY <3>2 DEF IInv, ChecksInv, ReadShas
    <3> QED  BY <3>3, <3>5, <3>6, <3>7, <3>8, <3>9 DEF IInv
  <2> QED  BY <2>1, <2>2, <2>3 DEF Next
<1> QED  BY <1>1, <1>2, PTL DEF Spec

(* Of what was answered with a readable body: what was there when its      *)
(* listing began has been read or the listing is flagged as truncated,     *)
(* whatever was opened, started or merged between the pages; the checks of *)
(* every revision read were read or that is flagged; and a merged pull     *)
(* request has the commits that were merged if its list of commits was not *)
(* cut, which nothing flags.                                               *)
THEOREM NothingIsSilentlyMissed == Spec => []NothingSilentlyMissed
<1>1. IInv => NothingSilentlyMissed
  <2> SUFFICES ASSUME IInv, Assembled PROVE NothingSilentlyMissed
    BY DEF NothingSilentlyMissed
  <2>1. /\ RepositoryOK /\ SweepOK /\ PullsInv /\ CommitsInv /\ RunsInv /\ ChecksInv
    BY DEF IInv
  <2>2. phase \in {"assemble", "rejected", "refused", "reported"}
    BY DEF Assembled, Ends
  <2>3. phase \in Listed \ {"commits"} /\ phase \in RunsListed
    BY <2>2 DEF Listed, RunsListed
  <2>4. "pulls" \in Truncated \cup unread \/
          \A n \in Opened : pulls[n].created <= entered["pulls"] => \E p \in Range(prs) : p.number = n
    BY <2>1, <2>3 DEF PullsInv, Truncated
  <2>5. "runs" \in Truncated \cup unread \/
          \A r \in StartedRuns : ci[r].start <= entered["runs"] => \E s \in Range(runs) : s.run.id = r.id
    BY <2>1, <2>3 DEF RunsInv, Truncated, IsListed
  <2>6. "shas" \in Truncated \/ "checks" \in unread \/
          \A p \in Range(prs) : \A c \in Range(p.commits) : c.sha \in checked
    <3> SUFFICES ASSUME "shas" \notin Truncated, "checks" \notin unread
                 PROVE  \A p \in Range(prs) : \A c \in Range(p.commits) : c.sha \in checked
      OBVIOUS
    <3>1. /\ DistinctRevisions \in Seq(Revisions) /\ IsFiniteSet(ReadShas)
          /\ Cardinality(ReadShas) <= Len(DistinctRevisions)
      BY <2>1, DistinctRevisionsHold DEF SweepOK
    <3>2. probed \in SUBSET ReadShas
      BY <2>1, <2>2 DEF ChecksInv
    <3>3. checked = probed
      BY <2>1, <2>2 DEF ChecksInv
    <3>4. ~ (Len(DistinctRevisions) > Cardinality(probed))
      BY DEF Truncated
    <3>5. Cardinality(ReadShas) \in Nat /\ Cardinality(probed) \in Nat
          /\ Cardinality(probed) <= Cardinality(ReadShas)
          /\ (Cardinality(probed) = Cardinality(ReadShas) => probed = ReadShas)
      BY <3>1, <3>2, FS_Subset, FS_CardinalityType
    <3>6. Len(DistinctRevisions) \in Nat
      BY <3>1
    <3>7. probed = ReadShas
      BY <3>1, <3>4, <3>5, <3>6
    <3> QED  BY <3>3, <3>7 DEF ReadShas
  <2>7. "commits" \in unread \/ \A p \in Range(prs) :
          p.number \in Agentic /\ p.merged # 0
            /\ Len(p.commits) < Limit("commits") * PageSize => p.commits = pulls[p.number].commits
    BY <2>1, <2>3 DEF CommitsInv, CommitsComplete
  <2> QED  BY <2>4, <2>5, <2>6, <2>7, Zenon DEF NothingSilentlyMissed
<1> QED  BY <1>1, CollectorInvariant, PTL

-----------------------------------------------------------------------------
(* Jobs, and runs listed twice.                                            *)

(* An attempt that is later than the one listed started after the listing  *)
(* began.                                                                  *)
RunsFresh ==
  \A i \in DOMAIN runs : \A q \in StartedRuns :
    q.id = runs[i].run.id /\ q.attempt > runs[i].run.attempt => ci[q].start > entered["runs"]

(* Jobs are found under the run they were fetched for; they are of the     *)
(* attempt listed, or that attempt was not the last.                       *)
JobDated(k) ==
  /\ jobs[k] \in RunState /\ jobs[k].run.id = k[1]
  /\ \/ jobs[k].run.attempt = k[2]
     \/ jobs[k].run.attempt > k[2] /\ jobs[k].start > entered["runs"]

CorrelatedIds ==
  {runs[i].run.id : i \in {j \in DOMAIN runs : Correlates(runs[j], CorrelationIndex)}}
FoundIds == {k[1] : k \in DOMAIN jobs}
TodoIds == {runs[todo[i]].run.id : i \in DOMAIN todo}

JobsInv ==
  /\ RunsFresh
  /\ \A k \in DOMAIN jobs : JobDated(k)
  /\ \A k, l \in DOMAIN jobs : k[1] = l[1] => k = l
  /\ phase \in {"pulls", "commits", "runs"} => DOMAIN jobs = {}
  /\ phase = "jobs" =>
       /\ \A i, j \in DOMAIN todo : runs[todo[i]].run.id = runs[todo[j]].run.id => i = j
       /\ FoundIds \cap TodoIds = {}
       /\ FoundIds \cup TodoIds = CorrelatedIds
  /\ phase \in RunsListed \ {"jobs"} => FoundIds = CorrelatedIds

(* A run started while the listing of runs was read. *)
Moved(until) ==
  \E r \in StartedRuns : r.attempt = 1 /\ ci[r].start > entered["runs"] /\ ci[r].start <= until
DistinctIds == \A i, j \in DOMAIN runs : runs[i].run.id = runs[j].run.id => i = j
MovedOrDistinct == DistinctIds \/ (Limit("runs") > 1 /\ Moved(entered["jobs"]))

(* The entries read are those before the next page. *)
Placed == DistinctIds /\ \A i \in DOMAIN runs : Rank(runs[i].run.id) <= Before

PlacedInv ==
  /\ phase = "runs" => Moved(now) \/ Placed
  /\ phase \in RunsListed => MovedOrDistinct
  /\ phase = "rejected" => Limit("runs") > 1 /\ Moved(entered["jobs"])

JInv == JobsInv /\ PlacedInv

-----------------------------------------------------------------------------
(* Steps that leave runs and jobs alone.                                   *)

(* What a step keeps that leaves alone the runs and jobs read. *)
LEMMA JobsKept ==
  ASSUME UNCHANGED <<repository, prs, runs, jobs>>,
         entered'["runs"] = entered["runs"]
  PROVE  /\ RunsFresh => RunsFresh'
         /\ \A k : JobDated(k) => JobDated(k)'
         /\ CorrelatedIds' = CorrelatedIds /\ FoundIds' = FoundIds
         /\ DistinctIds' = DistinctIds
         /\ \A t : Moved(t)' = Moved(t)
<1>1. /\ runs' = runs /\ jobs' = jobs /\ prs' = prs /\ ci' = ci /\ StartedRuns' = StartedRuns
  BY SameRepository
<1>2. RunsFresh => RunsFresh'
  BY <1>1 DEF RunsFresh
<1>3. \A k : JobDated(k) => JobDated(k)'
  BY <1>1 DEF JobDated
<1>4. CorrelatedIds' = CorrelatedIds
  BY <1>1 DEF CorrelatedIds, CorrelationIndex, Correlates
<1>5. FoundIds' = FoundIds /\ DistinctIds' = DistinctIds
  BY <1>1 DEF FoundIds, DistinctIds
<1>6. \A t : Moved(t)' = Moved(t)
  BY <1>1 DEF Moved
<1> QED  BY <1>2, <1>3, <1>4, <1>5, <1>6

(* Before the jobs nothing of them is there, and before the runs nothing   *)
(* of those.                                                               *)
LEMMA NothingFound ==
  ASSUME runs' = <<>>, DOMAIN (jobs') = {}, phase' \in {"pulls", "commits", "runs"}
  PROVE  JInv'
<1>1. \A i : i \notin DOMAIN (runs')
  <2>1. DOMAIN (runs') = 1..0
    OBVIOUS
  <2>2. \A i : i \notin 1..0
    OBVIOUS
  <2> QED  BY <2>1, <2>2
<1>2. JobsInv'
  <2>1. RunsFresh'
    BY <1>1 DEF RunsFresh
  <2> QED  BY <2>1 DEF JobsInv, RunsListed, Listed
<1>3. PlacedInv'
  BY <1>1 DEF PlacedInv, Placed, DistinctIds, RunsListed, Listed
<1> QED  BY <1>2, <1>3 DEF JInv

(* One phase of the last ones follows another. *)
LEMMA PhaseFollows ==
  ASSUME JInv, UNCHANGED <<repository, prs, runs, jobs>>,
         entered'["runs"] = entered["runs"], entered'["jobs"] = entered["jobs"],
         \/ phase' = "failed"
         \/ /\ phase \in RunsListed \ {"jobs"} \/ (phase = "jobs" /\ todo = <<>>)
            /\ phase' \in RunsListed \ {"jobs"}
            /\ phase' = "rejected" => Limit("runs") > 1 /\ Moved(entered["jobs"])
  PROVE  JInv'
<1>1. /\ RunsFresh' /\ \A k : JobDated(k) => JobDated(k)'
      /\ CorrelatedIds' = CorrelatedIds /\ FoundIds' = FoundIds
      /\ DistinctIds' = DistinctIds /\ \A t : Moved(t)' = Moved(t)
      /\ jobs' = jobs /\ Limit("runs")' = Limit("runs")
  BY JobsKept, SameRepository DEF JInv, JobsInv
<1>2. phase = "jobs" /\ todo = <<>> => FoundIds = CorrelatedIds
  <2>1. todo = <<>> => DOMAIN todo = 1..0
    OBVIOUS
  <2>2. \A i : i \notin 1..0
    OBVIOUS
  <2>3. todo = <<>> => TodoIds = {}
    BY <2>1, <2>2 DEF TodoIds
  <2> QED  BY <2>3 DEF JInv, JobsInv
<1>3. MovedOrDistinct => MovedOrDistinct'
  <2>1. Moved(entered["jobs"])' = Moved(entered["jobs"])
    BY SameRepository DEF Moved
  <2> QED  BY <1>1, <2>1 DEF MovedOrDistinct
<1>4. phase' \in RunsListed => FoundIds' = CorrelatedIds' /\ MovedOrDistinct' /\ phase' # "jobs"
  BY <1>1, <1>2, <1>3 DEF JInv, JobsInv, PlacedInv, RunsListed, Listed
<1>5. phase' \notin {"pulls", "commits", "runs", "jobs"}
  BY DEF RunsListed, Listed
<1>6. JobsInv'
  <2>1. /\ \A k \in DOMAIN (jobs') : JobDated(k)'
        /\ \A k, l \in DOMAIN (jobs') : k[1] = l[1] => k = l
    BY <1>1 DEF JInv, JobsInv
  <2> QED  BY <1>1, <1>4, <1>5, <2>1 DEF JobsInv
<1>7. phase' = "rejected" => Limit("runs")' > 1 /\ Moved(entered["jobs"])'
  <2>1. Moved(entered["jobs"])' = Moved(entered["jobs"])
    BY SameRepository DEF Moved
  <2> QED  BY <1>1, <2>1 DEF RunsListed, Listed
<1>8. PlacedInv'
  BY <1>4, <1>5, <1>7 DEF PlacedInv
<1> QED  BY <1>6, <1>8 DEF JInv

(* A run that starts while runs are listed is what may list another twice; *)
(* an attempt that starts then is later than the one listed.               *)
LEMMA RepositoryKeepsJobs ==
  ASSUME IInv, JInv, Repository
  PROVE  JInv'
<1>1. RepositoryOK /\ SweepOK /\ JobsInv /\ PlacedInv
  BY DEF IInv, JInv
<1>2. /\ RunsMove /\ now' = now + 1 /\ now \in Nat
      /\ scenario' = scenario /\ sweep' = sweep
  BY <1>1, RepositorySteps DEF RepositoryOK
<1>3. /\ phase' = phase /\ todo' = todo /\ prs' = prs
      /\ runs' = runs /\ jobs' = jobs /\ entered' = entered
  BY <1>2 DEF sweep
<1>4. Limit("runs")' = Limit("runs")
  BY <1>2 DEF Limit
<1>5. /\ entered["runs"] \in Nat /\ entered["runs"] <= now
      /\ entered["jobs"] \in Nat /\ entered["jobs"] <= now
  BY <1>1 DEF SweepOK, Phases
<1>6. \A r \in StartedRuns' :
        \/ r \in StartedRuns /\ ci'[r].start = ci[r].start
        \/ /\ ci'[r].start = now + 1
           /\ \/ r.attempt > 1 /\ r.id \in StartedIds
              \/ r.attempt = 1
  BY <1>2 DEF RunsMove
<1>7. \A r \in StartedRuns : r \in StartedRuns' /\ ci'[r].start = ci[r].start
  BY <1>2 DEF RunsMove
<1>8. RunsFresh'
  <2>1. \A i \in DOMAIN runs : \A q \in StartedRuns' :
          q.id = runs[i].run.id /\ q.attempt > runs[i].run.attempt => ci'[q].start > entered["runs"]
    <3> TAKE i \in DOMAIN runs
    <3> TAKE q \in StartedRuns'
    <3>1. CASE q \in StartedRuns /\ ci'[q].start = ci[q].start
      BY <1>1, <3>1 DEF JobsInv, RunsFresh
    <3>2. CASE ci'[q].start = now + 1
      BY <1>2, <1>5, <3>2
    <3> QED  BY <1>6, <3>1, <3>2
  <2> QED  BY <1>3, <2>1 DEF RunsFresh
<1>9. JobsInv'
  <2>1. /\ CorrelatedIds' = CorrelatedIds /\ FoundIds' = FoundIds /\ TodoIds' = TodoIds
        /\ \A k : JobDated(k) => JobDated(k)'
    BY <1>3 DEF CorrelatedIds, CorrelationIndex, Correlates, FoundIds, TodoIds, JobDated
  <2> QED  BY <1>1, <1>3, <1>8, <2>1, Zenon DEF JobsInv
<1>10. Moved(entered["jobs"]) => Moved(entered["jobs"])'
  BY <1>3, <1>7 DEF Moved
<1>11. Moved(now) => Moved(now)'
  <2> SUFFICES ASSUME Moved(now) PROVE Moved(now)'
    OBVIOUS
  <2>1. PICK r \in StartedRuns : r.attempt = 1 /\ ci[r].start > entered["runs"] /\ ci[r].start <= now
    BY DEF Moved
  <2>2. ci[r].start \in Nat
    BY <1>1 DEF StartedRuns, RepositoryOK, RunState
  <2>3. r \in StartedRuns' /\ ci'[r].start > entered'["runs"] /\ ci'[r].start <= now'
    BY <1>2, <1>3, <1>7, <2>1, <2>2
  <2> QED  BY <2>1, <2>3 DEF Moved
<1>12. Moved(now)' \/ StartedIds' = StartedIds
  <2>1. CASE \E r \in StartedRuns' : r.attempt = 1 /\ ci'[r].start = now + 1
    <3>1. PICK r \in StartedRuns' : r.attempt = 1 /\ ci'[r].start = now + 1
      BY <2>1
    <3>2. ci'[r].start > entered'["runs"] /\ ci'[r].start <= now'
      BY <1>2, <1>3, <1>5, <3>1
    <3> QED  BY <3>1, <3>2 DEF Moved
  <2>2. CASE ~ \E r \in StartedRuns' : r.attempt = 1 /\ ci'[r].start = now + 1
    <3>1. \A r \in StartedRuns' : r.id \in StartedIds
      BY <1>6, <2>2 DEF StartedIds
    <3>2. \A r \in StartedRuns : r \in StartedRuns'
      BY <1>7
    <3> QED  BY <3>1, <3>2 DEF StartedIds
  <2> QED  BY <2>1, <2>2
<1>13. PlacedInv'
  <2>1. phase = "runs" => Moved(now)' \/ Placed'
    <3>1. phase = "runs" => Moved(now) \/ Placed
      BY <1>1 DEF PlacedInv
    <3>2. ASSUME StartedIds' = StartedIds, Placed PROVE Placed'
      <4>1. Before' = Before
        BY <1>2 DEF Before, sweep
      <4>2. \A k : Rank(k)' = Rank(k)
        BY <3>2 DEF Rank
      <4> QED  BY <1>3, <3>2, <4>1, <4>2 DEF Placed, DistinctIds
    <3> QED  BY <1>11, <1>12, <3>1, <3>2
  <2>2. MovedOrDistinct => MovedOrDistinct'
    <3>1. DistinctIds' = DistinctIds
      BY <1>3 DEF DistinctIds
    <3> QED  BY <1>4, <1>10, <3>1 DEF MovedOrDistinct
  <2> QED  BY <1>1, <1>3, <1>4, <1>10, <2>1, <2>2, Zenon DEF PlacedInv
<1> QED  BY <1>9, <1>13 DEF JInv

-----------------------------------------------------------------------------
(* Runs listed, jobs found.                                                *)

(* A page of runs: without a new run its entries rank behind those read,   *)
(* so that no id comes twice.                                              *)
LEMMA ListRunsKeepsJobs == IInv /\ JInv /\ ListRuns => JInv'
<1> SUFFICES ASSUME IInv, JInv, ListRuns PROVE JInv'
  OBVIOUS
<1>0. PICK P \in {Page(RunListing, page), <<>>} : runs' = runs \o P
  <2>1. runs \in Seq(RunState)
    BY DEF IInv, SweepOK
  <2>2. runs \o <<>> = runs
    BY <2>1, ConcatEmptySeq
  <2> QED  BY <2>1, <2>2 DEF ListRuns, Readable, Unreadable
<1> DEFINE more == Continues(RunListing, Limit("runs"))
           E == EntriesToFetch(runs', CorrelationIndex)
<1>1. /\ RepositoryOK /\ SweepOK /\ RunsInv /\ JobsInv /\ PlacedInv
      /\ UNCHANGED repository /\ phase = "runs"
      /\ IF more THEN Stay ELSE Move("jobs", E)
      /\ prs' = prs /\ jobs' = jobs
  BY Zenon DEF IInv, JInv, ListRuns
<1>2. /\ now' = now /\ ci' = ci /\ StartedRuns' = StartedRuns
      /\ \A name : Limit(name)' = Limit(name)
      /\ \A k : Rank(k)' = Rank(k)
  BY <1>1, SameRepository
<1>3. /\ page \in Nat \ {0} /\ runs \in Seq(RunState)
      /\ Len(runs) <= Before /\ page <= Limit("runs") /\ Limit("runs") \in Nat \ {0}
      /\ DOMAIN jobs = {}
  BY <1>1, Limits DEF SweepOK, RunsInv, JobsInv
<1>4. /\ P \in Seq(RunState) /\ Before \in Nat
      /\ \A i \in 1..Len(P) : P[i].run \in Latest /\ Rank(P[i].run.id) = Before + i
      /\ HasNext(RunListing, page) => Len(P) <= PageSize
  <2> DEFINE Q == Page(RunListing, page)
  <2>1. /\ Q \in Seq(RunState) /\ Before \in Nat /\ PageSize \in Nat
        /\ \A i \in 1..Len(Q) : Q[i].run \in Latest /\ Rank(Q[i].run.id) = Before + i
        /\ HasNext(RunListing, page) => Len(Q) = PageSize
    BY <1>1, <1>3, RunPage, CollectorAssumption DEF Before
  <2> HIDE DEF Q
  <2>2. CASE P = Q
    BY <2>1, <2>2
  <2>3. CASE P = <<>>
    BY <2>1, <2>3
  <2> QED  BY <1>0, <2>2, <2>3 DEF Q
<1> HIDE DEF more
<1>5. /\ runs' \in Seq(RunState)
      /\ DOMAIN P = 1..Len(P) /\ DOMAIN runs = 1..Len(runs) /\ DOMAIN (runs') \subseteq Nat
      /\ Len(P) \in Nat /\ Len(runs) \in Nat
      /\ \A i \in DOMAIN (runs') :
           \/ i \in DOMAIN runs /\ runs'[i] = runs[i]
           \/ i - Len(runs) \in DOMAIN P /\ runs'[i] = P[i - Len(runs)]
  <2>1. runs \in Seq(RunState) /\ P \in Seq(RunState) /\ runs' = runs \o P
    BY <1>0, <1>3, <1>4
  <2>2. runs \o P \in Seq(RunState) /\ Joined(runs \o P, runs, P)
    BY <2>1, Added
  <2>3. runs' \in Seq(RunState) /\ Joined(runs', runs, P)
    BY <2>1, <2>2
  <2>4. /\ DOMAIN P = 1..Len(P) /\ DOMAIN runs = 1..Len(runs)
        /\ DOMAIN (runs') = 1..(Len(runs) + Len(P)) /\ Len(P) \in Nat /\ Len(runs) \in Nat
        /\ \A i \in DOMAIN (runs') :
             \/ i \in DOMAIN runs /\ runs'[i] = runs[i]
             \/ i - Len(runs) \in DOMAIN P /\ runs'[i] = P[i - Len(runs)]
    BY <2>3, Zenon DEF Joined
  <2>5. DOMAIN (runs') \subseteq Nat
    BY <2>4
  <2> QED  BY <2>1, <2>3, <2>4, <2>5, Zenon
<1>6. entered'["runs"] = entered["runs"] /\ phase' \in {"runs", "jobs"}
  <2>1. CASE more
    BY <1>1, <2>1 DEF Stay
  <2>2. CASE ~ more
    BY <1>1, <1>2, <2>2, PhaseBegins DEF Phases
  <2> QED  BY <2>1, <2>2
<1>7. RunsFresh'
  <2>1. ASSUME NEW i \in DOMAIN (runs'), NEW q \in StartedRuns,
               q.id = runs'[i].run.id, q.attempt > runs'[i].run.attempt
        PROVE  ci[q].start > entered["runs"]
    <3>1. CASE i \in DOMAIN runs /\ runs'[i] = runs[i]
      BY <1>1, <2>1, <3>1 DEF JobsInv, RunsFresh
    <3>2. CASE i - Len(runs) \in DOMAIN P /\ runs'[i] = P[i - Len(runs)]
      <4>1. runs'[i].run \in Latest
        BY <1>4, <1>5, <3>2
      <4>2. q.attempt <= runs'[i].run.attempt
        BY <2>1, <4>1 DEF Latest
      <4>3. q.attempt \in Nat /\ runs'[i].run.attempt \in Nat
        BY <4>1, SetsOfTheRepository DEF Latest
      <4> QED  BY <2>1, <4>2, <4>3
    <3> QED  BY <1>5, <3>1, <3>2
  <2> QED  BY <1>2, <1>6, <2>1 DEF RunsFresh
<1>8. Placed => DistinctIds'
  <2> HAVE Placed
  <2>1. \A i \in DOMAIN runs : Rank(runs[i].run.id) <= Before
    BY DEF Placed
  <2>2. \A k \in DOMAIN P : Rank(P[k].run.id) = Before + k /\ Before + k > Before /\ k \in Nat
    BY <1>4, <1>5
  <2>3. ASSUME NEW i \in DOMAIN (runs'), NEW j \in DOMAIN (runs'),
               runs'[i].run.id = runs'[j].run.id
        PROVE  i = j
    <3>1. CASE i \in DOMAIN runs /\ runs'[i] = runs[i] /\ j \in DOMAIN runs /\ runs'[j] = runs[j]
      BY <2>3, <3>1 DEF Placed, DistinctIds
    <3>2. CASE /\ i \in DOMAIN runs /\ runs'[i] = runs[i]
               /\ j - Len(runs) \in DOMAIN P /\ runs'[j] = P[j - Len(runs)]
      <4>1. Rank(runs'[i].run.id) <= Before
        BY <2>1, <3>2
      <4>2. Rank(runs'[j].run.id) > Before /\ Rank(runs'[j].run.id) \in Nat
        BY <1>4, <2>2, <3>2
      <4> QED  BY <1>4, <2>3, <4>1, <4>2
    <3>3. CASE /\ j \in DOMAIN runs /\ runs'[j] = runs[j]
               /\ i - Len(runs) \in DOMAIN P /\ runs'[i] = P[i - Len(runs)]
      <4>1. Rank(runs'[j].run.id) <= Before
        BY <2>1, <3>3
      <4>2. Rank(runs'[i].run.id) > Before /\ Rank(runs'[i].run.id) \in Nat
        BY <1>4, <2>2, <3>3
      <4> QED  BY <1>4, <2>3, <4>1, <4>2
    <3>4. CASE /\ i - Len(runs) \in DOMAIN P /\ runs'[i] = P[i - Len(runs)]
               /\ j - Len(runs) \in DOMAIN P /\ runs'[j] = P[j - Len(runs)]
      <4>1. Before + (i - Len(runs)) = Before + (j - Len(runs))
        BY <2>2, <2>3, <3>4
      <4>2. i \in Nat /\ j \in Nat
        BY <1>5
      <4> QED  BY <1>4, <1>5, <4>1, <4>2
    <3> QED  BY <1>5, <3>1, <3>2, <3>3, <3>4
  <2> QED  BY <2>3 DEF DistinctIds
<1>9. \A t : Moved(t)' = Moved(t)
  BY <1>2, <1>6 DEF Moved
<1>10. CASE more
  <2>1. phase' = "runs"
    BY <1>1, <1>10 DEF Stay
  <2>2. JobsInv'
    <3>1. DOMAIN (jobs') = {}
      BY <1>1, <1>3
    <3> QED  BY <1>7, <2>1, <3>1 DEF JobsInv, RunsListed, Listed
  <2>3. Moved(now)' \/ Placed'
    <3>1. Moved(now) \/ Placed
      BY <1>1 DEF PlacedInv
    <3>2. Moved(now)' = Moved(now)
      BY <1>2, <1>6 DEF Moved
    <3>3. page' = page + 1 /\ HasNext(RunListing, page) /\ PageSize \in Nat
      BY <1>1, <1>10, CollectorAssumption DEF Stay, Continues, more
    <3>4. Before' = Before + PageSize
      <4>1. (page + 1) - 1 = page /\ page * PageSize = (page - 1) * PageSize + PageSize
        BY <1>3, <3>3
      <4> QED  BY <3>3, <4>1 DEF Before
    <3>5. ASSUME Placed, NEW i \in DOMAIN (runs') PROVE Rank(runs'[i].run.id) <= Before + PageSize
      <4>1. CASE i \in DOMAIN runs /\ runs'[i] = runs[i]
        <5>1. Rank(runs[i].run.id) <= Before
          BY <3>5, <4>1 DEF Placed
        <5>2. Rank(runs[i].run.id) \in Nat
          <6>1. runs[i].run \in StartedRuns
            BY <1>1, <4>1 DEF SweepOK
          <6>2. IsFiniteSet(StartedIds)
            BY <1>1, SetsOfTheRepository
          <6> QED  BY <6>2, FS_Subset, FS_CardinalityType DEF Rank
        <5> QED  BY <1>4, <3>3, <4>1, <5>1, <5>2
      <4>2. CASE i - Len(runs) \in DOMAIN P /\ runs'[i] = P[i - Len(runs)]
        <5>1. Rank(runs'[i].run.id) = Before + (i - Len(runs)) /\ i - Len(runs) \in 1..Len(P)
          BY <1>4, <1>5, <4>2
        <5>2. Len(P) <= PageSize
          BY <1>4, <3>3
        <5>3. i \in Nat
          BY <1>5
        <5> QED  BY <1>4, <1>5, <3>3, <5>1, <5>2, <5>3
      <4> QED  BY <1>5, <4>1, <4>2
    <3>6. Placed => Placed'
      BY <1>2, <1>8, <3>4, <3>5 DEF Placed
    <3> QED  BY <3>1, <3>2, <3>6
  <2>4. PlacedInv'
    BY <2>1, <2>3 DEF PlacedInv, RunsListed, Listed
  <2> QED  BY <2>2, <2>4 DEF JInv
<1>11. CASE ~ more
  <2>1. phase' = "jobs" /\ todo' = E /\ entered'["jobs"] = now
    BY <1>1, <1>2, <1>11, PhaseBegins DEF Phases
  <2>2. /\ \A k \in DOMAIN E : E[k] \in DOMAIN (runs') /\ Correlates(runs'[E[k]], CorrelationIndex)
        /\ \A k, l \in DOMAIN E : runs'[E[k]].run.id = runs'[E[l]].run.id => k = l
        /\ \A i \in DOMAIN (runs') : Correlates(runs'[i], CorrelationIndex) =>
             \E k \in DOMAIN E : runs'[E[k]].run.id = runs'[i].run.id
    <3>1. /\ E \in Seq(DOMAIN (runs'))
          /\ \A k \in DOMAIN E : Correlates(runs'[E[k]], CorrelationIndex)
          /\ \A k, l \in DOMAIN E : runs'[E[k]].run.id = runs'[E[l]].run.id => k = l
          /\ \A i \in DOMAIN (runs') : Correlates(runs'[i], CorrelationIndex) =>
               \E k \in DOMAIN E : E[k] <= i /\ runs'[E[k]].run.id = runs'[i].run.id
      BY <1>5, EntriesHold
    <3> HIDE DEF E
    <3>2. \A k \in DOMAIN E : E[k] \in DOMAIN (runs')
      BY <3>1
    <3> QED  BY <3>1, <3>2
  <2> HIDE DEF E
  <2>3. TodoIds' = CorrelatedIds'
    <3>1. TodoIds' = {runs'[E[i]].run.id : i \in DOMAIN E}
      BY <2>1 DEF TodoIds
    <3>2. CorrelatedIds' = {runs'[i].run.id : i \in {j \in DOMAIN (runs') : Correlates(runs'[j], CorrelationIndex)}}
      BY <1>1 DEF CorrelatedIds, CorrelationIndex
    <3> QED  BY <2>2, <3>1, <3>2
  <2>4. FoundIds' = {} /\ DOMAIN (jobs') = {}
    BY <1>1, <1>3 DEF FoundIds
  <2>5. JobsInv'
    BY <1>7, <2>1, <2>2, <2>3, <2>4 DEF JobsInv, RunsListed, Listed
  <2>6. DistinctIds' \/ (Limit("runs")' > 1 /\ Moved(entered["jobs"])')
    <3>1. CASE page = 1
      <4>1. Before = 0
        BY <3>1, CollectorAssumption DEF Before
      <4>2. DOMAIN runs = 1..0
        BY <1>3, <1>5, <4>1
      <4>3. \A i : i \notin DOMAIN runs
        BY <4>2
      <4>4. Placed
        BY <4>3 DEF Placed, DistinctIds
      <4> QED  BY <1>8, <4>4
    <3>2. CASE page # 1
      <4>1. Limit("runs")' > 1
        BY <1>2, <1>3, <3>2
      <4>2. Moved(entered["jobs"])' = Moved(now)
        BY <1>2, <1>6, <2>1 DEF Moved
      <4>3. Moved(now) \/ Placed
        BY <1>1 DEF PlacedInv
      <4> QED  BY <1>8, <4>1, <4>2, <4>3
    <3> QED  BY <3>1, <3>2
  <2>7. PlacedInv'
    BY <2>1, <2>6 DEF PlacedInv, MovedOrDistinct
  <2> QED  BY <2>5, <2>7 DEF JInv
<1> QED  BY <1>10, <1>11

(* The jobs of one run are filed under the attempt listed. *)
LEMMA ListJobsKeepsJobs == IInv /\ JInv /\ ListJobs => JInv'
<1> SUFFICES ASSUME IInv, JInv, ListJobs PROVE JInv'
  OBVIOUS
<1> DEFINE h == Head(todo)
           s == runs[h]
           t == Tail(todo)
           found == LatestOf(s.run.id)
<1>0. PICK job \in {ci[found], [ci[found] EXCEPT !.jobEnd = 0]} :
        jobs' = [k \in DOMAIN jobs \cup {JobKey(s)} |-> IF k = JobKey(s) THEN job ELSE jobs[k]]
  BY Zenon DEF ListJobs
<1>1. /\ RepositoryOK /\ SweepOK /\ JobsInv /\ PlacedInv
      /\ UNCHANGED repository /\ phase = "jobs" /\ todo # <<>>
      /\ phase' = phase /\ entered' = entered /\ todo' = t
      /\ prs' = prs /\ runs' = runs
  BY Zenon DEF IInv, JInv, ListJobs
<1>2. /\ now' = now /\ ci' = ci /\ StartedRuns' = StartedRuns
      /\ \A name : Limit(name)' = Limit(name)
  BY <1>1, SameRepository
<1>3. todo \in Seq(DOMAIN runs)
  BY <1>1 DEF SweepOK
<1>4. /\ t \in Seq(DOMAIN runs) /\ Len(t) = Len(todo) - 1 /\ h \in DOMAIN runs
      /\ \A i \in 1..Len(t) : t[i] = todo[i + 1]
  BY <1>1, <1>3, HeadTailProperties
<1>5. /\ Len(todo) \in Nat /\ Len(todo) > 0 /\ DOMAIN todo = 1..Len(todo) /\ h = todo[1]
  <2> DEFINE D == DOMAIN runs
  <2>1. todo \in Seq(D)
    BY <1>3
  <2> HIDE DEF D
  <2> QED  BY <1>1, <2>1
<1>6. DOMAIN t = 1..Len(t)
  <2> DEFINE D == DOMAIN runs
  <2>1. t \in Seq(D)
    BY <1>4
  <2> HIDE DEF D, t
  <2> QED  BY <2>1
<1> HIDE DEF t, h
<1>7. /\ 1 \in DOMAIN todo
      /\ \A i \in DOMAIN t : t[i] = todo[i + 1] /\ i + 1 \in DOMAIN todo /\ i + 1 # 1
      /\ \A i \in DOMAIN todo : i # 1 => i - 1 \in DOMAIN t /\ t[i - 1] = todo[i]
  <2>1. 1 \in DOMAIN todo
    BY <1>5
  <2>2. \A i \in DOMAIN t : t[i] = todo[i + 1] /\ i + 1 \in DOMAIN todo /\ i + 1 # 1
    BY <1>4, <1>5, <1>6
  <2>3. \A i \in DOMAIN todo : i # 1 => i - 1 \in DOMAIN t /\ (i - 1) + 1 = i
    BY <1>4, <1>5, <1>6
  <2> QED  BY <2>1, <2>2, <2>3
<1>8. \A i, j \in DOMAIN todo : runs[todo[i]].run.id = runs[todo[j]].run.id => i = j
  BY <1>1 DEF JobsInv
<1>9. /\ \A i \in DOMAIN t : runs[t[i]].run.id # s.run.id
      /\ \A i, j \in DOMAIN t : runs[t[i]].run.id = runs[t[j]].run.id => i = j
  <2>1. \A i \in DOMAIN t : runs[t[i]].run.id # s.run.id
    BY <1>5, <1>7, <1>8
  <2>2. ASSUME NEW i \in DOMAIN t, NEW j \in DOMAIN t, runs[t[i]].run.id = runs[t[j]].run.id
        PROVE  i = j
    <3>1. i + 1 = j + 1
      BY <1>7, <1>8, <2>2
    <3>2. i \in Nat /\ j \in Nat
      BY <1>4, <1>5, <1>6
    <3> QED  BY <3>1, <3>2
  <2> QED  BY <2>1, <2>2
<1>10. TodoIds = TodoIds' \cup {s.run.id} /\ s.run.id \notin TodoIds'
  <2>1. TodoIds' = {runs[t[i]].run.id : i \in DOMAIN t}
    BY <1>1 DEF TodoIds
  <2>2. TodoIds = {runs[todo[i]].run.id : i \in DOMAIN todo}
    BY DEF TodoIds
  <2>3. \A x \in TodoIds : x \in TodoIds' \cup {s.run.id}
    BY <1>5, <1>7, <2>1, <2>2
  <2>4. \A x \in TodoIds' : x \in TodoIds
    BY <1>7, <2>1, <2>2
  <2>5. s.run.id \in TodoIds
    BY <1>5, <1>7, <2>2
  <2> QED  BY <1>9, <2>1, <2>3, <2>4, <2>5
<1>11. /\ s.run \in StartedRuns /\ s.run.id \in StartedIds
  <2>1. s.run \in StartedRuns
    BY <1>1, <1>4 DEF SweepOK
  <2> QED  BY <2>1 DEF StartedIds
<1>12. /\ found \in Latest /\ found.id = s.run.id /\ found \in StartedRuns /\ found \in Runs
       /\ job \in RunState /\ job.run = found /\ job.start = ci[found].start
  <2>1. found \in Latest /\ found.id = s.run.id
    BY <1>11, LatestExists
  <2>2. found \in StartedRuns /\ found \in Runs
    BY <2>1 DEF Latest, StartedRuns
  <2>3. ci[found] \in RunState /\ ci[found].run = found
    BY <1>1, <2>2 DEF RepositoryOK
  <2> HIDE DEF found
  <2>4. job \in RunState /\ job.run = found /\ job.start = ci[found].start
    BY <1>0, <2>3 DEF RunState
  <2> QED  BY <2>1, <2>2, <2>4
<1>13. JobKey(s)[1] = s.run.id /\ JobKey(s)[2] = s.run.attempt
  BY DEF JobKey
<1>14. /\ DOMAIN (jobs') = DOMAIN jobs \cup {JobKey(s)}
       /\ jobs'[JobKey(s)] = job
       /\ \A k \in DOMAIN jobs : k # JobKey(s) => jobs'[k] = jobs[k]
  BY <1>0
<1> HIDE DEF found, s
<1>15. \A k \in DOMAIN (jobs') : JobDated(k)'
  <2>1. ASSUME NEW k \in DOMAIN jobs, k # JobKey(s) PROVE JobDated(k)'
    <3>1. JobDated(k)
      BY <1>1, <2>1 DEF JobsInv
    <3> QED  BY <1>1, <1>14, <2>1, <3>1 DEF JobDated
  <2>2. ASSUME NEW k, k = JobKey(s) PROVE JobDated(k)'
    <3>1. s.run.attempt <= found.attempt
      BY <1>11, <1>12 DEF Latest
    <3>2. s.run.attempt \in Nat /\ found.attempt \in Nat
      BY <1>11, <1>12, SetsOfTheRepository
    <3>3. found.attempt > s.run.attempt => ci[found].start > entered["runs"]
      BY <1>1, <1>4, <1>12 DEF JobsInv, RunsFresh, s
    <3>4. found.attempt = s.run.attempt \/ found.attempt > s.run.attempt
      BY <3>1, <3>2
    <3>5. jobs'[k] = job /\ k[1] = s.run.id /\ k[2] = s.run.attempt
      BY <1>13, <1>14, <2>2
    <3>6. entered' = entered
      BY <1>1
    <3>7. \/ jobs'[k].run.attempt = k[2]
          \/ jobs'[k].run.attempt > k[2] /\ jobs'[k].start > entered'["runs"]
      BY <1>12, <3>3, <3>4, <3>5, <3>6
    <3>8. jobs'[k] \in RunState /\ jobs'[k].run.id = k[1]
      BY <1>12, <3>5
    <3>9. RunState' = RunState
      BY DEF RunState
    <3> QED  BY <3>7, <3>8, <3>9 DEF JobDated
  <2> QED  BY <1>14, <2>1, <2>2
<1>16. FoundIds' = FoundIds \cup {s.run.id}
  BY <1>13, <1>14 DEF FoundIds
<1>17. FoundIds \cap TodoIds = {} /\ FoundIds \cup TodoIds = CorrelatedIds
  BY <1>1 DEF JobsInv
<1>18. \A k, l \in DOMAIN (jobs') : k[1] = l[1] => k = l
  <2>1. \A k, l \in DOMAIN jobs : k[1] = l[1] => k = l
    BY <1>1 DEF JobsInv
  <2>2. \A k \in DOMAIN jobs : k[1] # s.run.id
    BY <1>10, <1>17 DEF FoundIds
  <2> QED  BY <1>13, <1>14, <2>1, <2>2
<1>19. CorrelatedIds' = CorrelatedIds /\ DistinctIds' = DistinctIds
  BY <1>1 DEF CorrelatedIds, CorrelationIndex, DistinctIds
<1>20. FoundIds' \cap TodoIds' = {} /\ FoundIds' \cup TodoIds' = CorrelatedIds'
  BY <1>10, <1>16, <1>17, <1>19
<1>21. RunsFresh'
  BY <1>1, <1>2 DEF JobsInv, RunsFresh
<1>22. \A i, j \in DOMAIN (todo') : runs'[(todo')[i]].run.id = runs'[(todo')[j]].run.id => i = j
  <2>1. todo' = t /\ runs' = runs
    BY <1>1
  <2> QED  BY <1>9, <2>1
<1>23. JobsInv'
  BY <1>1, <1>15, <1>18, <1>20, <1>21, <1>22 DEF JobsInv
<1>24. PlacedInv'
  <2>1. MovedOrDistinct
    BY <1>1 DEF PlacedInv, RunsListed, Listed
  <2>2. Moved(entered["jobs"]) => Moved(entered["jobs"])'
    BY <1>1, <1>2 DEF Moved
  <2>3. MovedOrDistinct'
    BY <1>2, <1>19, <2>1, <2>2 DEF MovedOrDistinct
  <2> QED  BY <1>1, <2>3 DEF PlacedInv
<1> QED  BY <1>23, <1>24 DEF JInv

-----------------------------------------------------------------------------
(* The report of the sweep.                                                *)

(* An entry of the listing yields the record of its attempt, and one of    *)
(* its job if that has ended.                                              *)
LEMMA CiRecordIds ==
  ASSUME NEW s, NEW index, NEW usage, NEW r \in CiRecords(s, index, usage)
  PROVE  \/ r.id = <<"wfrun", s.run.id, s.run.attempt>>
         \/ r.id = <<"wfjob", s.run.job, 0>> /\ s.jobEnd # 0
<1> DEFINE entries == CorrelateWorkflowRun(s.run, index)
           known == UsageFor(s, usage)
<1>1. r \in JobRecords(s, entries, known) \/ r \in RunRecords(s, entries, known)
  BY Zenon DEF CiRecords
<1> HIDE DEF entries, known
<1>2. ASSUME r \in JobRecords(s, entries, known)
      PROVE  r.id = <<"wfjob", s.run.job, 0>> /\ s.jobEnd # 0
  <2>1. PICK e : /\ s.jobEnd # 0
                 /\ r = Record(<<"wfjob", s.run.job, 0>>, s.start, Unordered,
                          Spent(e.number, "compute_usage_recorded", ExecutionBinding(e, s.run.sha),
                                ComputeRef(s.run), JobCost(s.run, known)))
    BY <1>2 DEF JobRecords
  <2> QED  BY <2>1 DEF Record
<1>3. ASSUME r \in RunRecords(s, entries, known)
      PROVE  r.id = <<"wfrun", s.run.id, s.run.attempt>>
  <2>1. \E ev : r = Record(RunId(s.run), s.start, Unordered, ev)
    BY <1>3 DEF RunRecords
  <2> QED  BY <2>1 DEF Record, RunId
<1> QED  BY <1>1, <1>2, <1>3

(* An entry keeps its attempt; its job is one found under its run.         *)
LEMMA EvidenceHolds ==
  ASSUME IInv, JobsInv, NEW i \in DOMAIN runs
  PROVE  /\ WithJob(runs[i]).run.id = runs[i].run.id
         /\ WithJob(runs[i]).jobEnd # 0 =>
              /\ JobKey(runs[i]) \in DOMAIN jobs
              /\ WithJob(runs[i]).run.job = jobs[JobKey(runs[i])].run.job
              /\ jobs[JobKey(runs[i])].run \in Runs
              /\ jobs[JobKey(runs[i])].run.id = runs[i].run.id
<1> DEFINE s == runs[i]
<1>1. s \in RunState
  BY DEF IInv, SweepOK
<1>2. Runs \subseteq [id : Nat, attempt : Nat, job : Nat, sha : Revisions,
                      branch : Branches, links : SUBSET Tasks]
  BY MappingAssumption
<1> HIDE DEF s
<1>3. /\ s.run \in Runs
      /\ s = [run |-> s.run, start |-> s.start, jobEnd |-> s.jobEnd, end |-> s.end, status |-> s.status]
      /\ s.run = [id |-> s.run.id, attempt |-> s.run.attempt, job |-> s.run.job, sha |-> s.run.sha,
                  branch |-> s.run.branch, links |-> s.run.links]
  BY <1>1, <1>2 DEF RunState
<1>4. CASE JobKey(s) \notin DOMAIN jobs
  <2>1. WithJob(s) = [s EXCEPT !.jobEnd = 0]
    BY <1>4 DEF WithJob
  <2>2. WithJob(s).run = s.run /\ WithJob(s).jobEnd = 0
    BY <1>1, <2>1 DEF RunState
  <2> QED  BY <2>2 DEF s
<1>5. CASE JobKey(s) \in DOMAIN jobs
  <2>1. WithJob(s) = [s EXCEPT !.jobEnd = jobs[JobKey(s)].jobEnd, !.run.job = jobs[JobKey(s)].run.job]
    BY <1>5 DEF WithJob
  <2>2. WithJob(s).run = [s.run EXCEPT !.job = jobs[JobKey(s)].run.job]
    BY <1>1, <2>1 DEF RunState
  <2>3. WithJob(s).run.id = s.run.id /\ WithJob(s).run.job = jobs[JobKey(s)].run.job
    BY <1>2, <1>3, <2>2
  <2>4. jobs[JobKey(s)] \in RunState /\ jobs[JobKey(s)].run.id = JobKey(s)[1]
    BY <1>5 DEF JobsInv, JobDated
  <2>5. JobKey(s)[1] = s.run.id
    BY DEF JobKey
  <2> QED  BY <1>5, <2>3, <2>4, <2>5 DEF s, RunState
<1> QED  BY <1>4, <1>5

(* An event id occurs twice only if a run was listed twice. *)
LEMMA DuplicatesNeedARunTwice ==
  ASSUME IInv, JobsInv, DuplicateIds
  PROVE  ~ DistinctIds
<1>1. PICK i, j \in DOMAIN runs : i < j /\ SameIds(RunEvidence[i], RunEvidence[j])
  <2>1. DOMAIN RunEvidence = DOMAIN runs
    BY DEF RunEvidence, Evidence
  <2> QED  BY <2>1, Zenon DEF DuplicateIds
<1>2. i \in Nat /\ j \in Nat
  BY DEF IInv, SweepOK
<1>3. \A k \in DOMAIN runs : RunEvidence[k] = CiRecords(WithJob(runs[k]), CorrelationIndex, Usage)
  BY DEF RunEvidence, Evidence
<1>4. PICK a \in RunEvidence[i], b \in RunEvidence[j] : a.id = b.id
  BY <1>1 DEF SameIds
<1> DEFINE S == WithJob(runs[i])
           T == WithJob(runs[j])
<1>5. /\ \/ a.id = <<"wfrun", S.run.id, S.run.attempt>>
         \/ a.id = <<"wfjob", S.run.job, 0>> /\ S.jobEnd # 0
      /\ \/ b.id = <<"wfrun", T.run.id, T.run.attempt>>
         \/ b.id = <<"wfjob", T.run.job, 0>> /\ T.jobEnd # 0
  BY <1>1, <1>3, <1>4, CiRecordIds
<1>6. /\ S.run.id = runs[i].run.id
      /\ S.jobEnd # 0 =>
           /\ S.run.job = jobs[JobKey(runs[i])].run.job
           /\ jobs[JobKey(runs[i])].run \in Runs
           /\ jobs[JobKey(runs[i])].run.id = runs[i].run.id
      /\ T.run.id = runs[j].run.id
      /\ T.jobEnd # 0 =>
           /\ T.run.job = jobs[JobKey(runs[j])].run.job
           /\ jobs[JobKey(runs[j])].run \in Runs
           /\ jobs[JobKey(runs[j])].run.id = runs[j].run.id
  BY EvidenceHolds
<1> HIDE DEF S, T
<1>7. \/ S.run.id = T.run.id
      \/ S.jobEnd # 0 /\ T.jobEnd # 0 /\ S.run.job = T.run.job
  BY <1>4, <1>5
<1>8. runs[i].run.id = runs[j].run.id
  BY <1>6, <1>7, CollectorAssumption
<1> QED  BY <1>1, <1>2, <1>8 DEF DistinctIds

(* At first there are no runs and no jobs. *)
LEMMA InitJobs == Init => JInv
<1> SUFFICES ASSUME Init PROVE JInv
  OBVIOUS
<1>1. runs = <<>> /\ DOMAIN jobs = {} /\ phase = "idle"
  BY DEF Init, NothingRead
<1>2. \A i : i \notin DOMAIN runs
  <2>1. DOMAIN runs = 1..0
    BY <1>1
  <2>2. \A i : i \notin 1..0
    OBVIOUS
  <2> QED  BY <2>1, <2>2
<1>3. RunsFresh
  BY <1>2 DEF RunsFresh
<1> QED  BY <1>1, <1>2, <1>3 DEF JInv, JobsInv, PlacedInv, RunsListed, Listed

(* Before the runs are listed there is nothing to find. *)
LEMMA EarlyStepsKeepJobs == IInv /\ JInv /\ (Begin \/ ListPulls \/ ListCommits \/ CommitsRead) => JInv'
<1> SUFFICES ASSUME IInv, JInv, Begin \/ ListPulls \/ ListCommits \/ CommitsRead PROVE JInv'
  OBVIOUS
<1>1. CASE Begin
  <2>1. runs' = <<>> /\ DOMAIN (jobs') = {} /\ phase' = "pulls"
    BY <1>1 DEF Begin
  <2> QED  BY <2>1, NothingFound
<1>2. CASE ListPulls \/ ListCommits \/ CommitsRead
  <2>1. phase \in {"pulls", "commits"} /\ runs' = runs /\ jobs' = jobs
    BY <1>2 DEF ListPulls, ListCommits, CommitsRead
  <2>2. phase' \in {"pulls", "commits", "runs"}
    <3>1. CASE ListPulls
      BY <3>1 DEF ListPulls, Move, Stay
    <3>2. CASE ListCommits
      BY <3>2 DEF ListCommits, Stay
    <3>3. CASE CommitsRead
      BY <3>3 DEF CommitsRead, Move
    <3> QED  BY <1>2, <3>1, <3>2, <3>3
  <2>3. runs = <<>> /\ DOMAIN jobs = {}
    BY <2>1 DEF IInv, JInv, RunsInv, JobsInv
  <2> QED  BY <2>1, <2>2, <2>3, NothingFound
<1> QED  BY <1>1, <1>2

(* Once the runs are listed and their jobs found, they stay as they are.   *)
LEMMA LateStepsKeepJobs ==
  IInv /\ JInv /\ (JobsRead \/ ProbeChecks \/ ChecksRead \/ RunGithubReadOnly \/ RequestFails) => JInv'
<1> SUFFICES ASSUME IInv, JInv, JobsRead \/ ProbeChecks \/ ChecksRead \/ RunGithubReadOnly \/ RequestFails
             PROVE  JInv'
  OBVIOUS
<1>1. UNCHANGED <<repository, prs, runs, jobs>> /\ RepositoryOK /\ SweepOK
  BY DEF IInv, JobsRead, ProbeChecks, ChecksRead, RunGithubReadOnly, RequestFails
<1>2. now' = now
  BY <1>1, SameRepository
<1>3. CASE JobsRead
  <2>1. phase = "jobs" /\ todo = <<>> /\ \E work : Move("checks", work)
    BY <1>3, Zenon DEF JobsRead
  <2>2. /\ phase' = "checks"
        /\ entered'["runs"] = entered["runs"] /\ entered'["jobs"] = entered["jobs"]
    BY <1>1, <1>2, <2>1, PhaseBegins DEF Phases
  <2>3. /\ phase \in RunsListed \ {"jobs"} \/ (phase = "jobs" /\ todo = <<>>)
        /\ phase' \in RunsListed \ {"jobs"}
        /\ phase' = "rejected" => Limit("runs") > 1 /\ Moved(entered["jobs"])
    BY <2>1, <2>2 DEF RunsListed, Listed
  <2> QED  BY <1>1, <2>1, <2>2, <2>3, PhaseFollows, Zenon
<1>4. CASE ProbeChecks
  <2>1. phase = "checks" /\ phase' = phase /\ entered' = entered
    BY <1>4 DEF ProbeChecks
  <2> QED  BY <1>1, <2>1, PhaseFollows DEF RunsListed, Listed
<1>5. CASE ChecksRead
  <2>1. phase = "checks" /\ Move("assemble", <<>>)
    BY <1>5 DEF ChecksRead
  <2>2. /\ phase' = "assemble"
        /\ entered'["runs"] = entered["runs"] /\ entered'["jobs"] = entered["jobs"]
    BY <1>1, <1>2, <2>1, PhaseBegins DEF Phases
  <2>3. /\ phase \in RunsListed \ {"jobs"} \/ (phase = "jobs" /\ todo = <<>>)
        /\ phase' \in RunsListed \ {"jobs"}
        /\ phase' = "rejected" => Limit("runs") > 1 /\ Moved(entered["jobs"])
    BY <2>1, <2>2 DEF RunsListed, Listed
  <2> QED  BY <1>1, <2>1, <2>2, <2>3, PhaseFollows, Zenon
<1>6. CASE RunGithubReadOnly
  <2>1. /\ phase = "assemble" /\ entered' = entered
        /\ phase' \in {"refused", "rejected", "reported"}
        /\ phase' = "rejected" => DuplicateIds
    BY <1>6 DEF RunGithubReadOnly
  <2>2. phase' = "rejected" => Limit("runs") > 1 /\ Moved(entered["jobs"])
    <3>1. JobsInv /\ MovedOrDistinct
      BY <2>1 DEF JInv, PlacedInv, RunsListed, Listed
    <3>2. DuplicateIds => ~ DistinctIds
      BY <3>1, DuplicatesNeedARunTwice
    <3> QED  BY <2>1, <3>1, <3>2 DEF MovedOrDistinct
  <2>3. /\ phase \in RunsListed \ {"jobs"} \/ (phase = "jobs" /\ todo = <<>>)
        /\ phase' \in RunsListed \ {"jobs"}
        /\ phase' = "rejected" => Limit("runs") > 1 /\ Moved(entered["jobs"])
    BY <2>1, <2>2 DEF RunsListed, Listed
  <2> QED  BY <1>1, <2>1, <2>2, <2>3, PhaseFollows, Zenon
<1>7. CASE RequestFails
  <2>1. phase' = "failed" /\ entered' = entered
    BY <1>7 DEF RequestFails
  <2> QED  BY <1>1, <2>1, PhaseFollows
<1> QED  BY <1>3, <1>4, <1>5, <1>6, <1>7

(* Jobs and places, throughout. *)
LEMMA JobsInvariant == Spec => []JInv
<1>1. Init => JInv
  BY InitJobs
<1>2. IInv /\ JInv /\ [Next]_vars => JInv'
  <2> SUFFICES ASSUME IInv, JInv, [Next]_vars PROVE JInv'
    OBVIOUS
  <2>1. CASE Repository
    BY <2>1, RepositoryKeepsJobs
  <2>2. CASE Begin \/ Collect \/ RequestFails
    BY <2>2, EarlyStepsKeepJobs, ListRunsKeepsJobs, ListJobsKeepsJobs, LateStepsKeepJobs DEF Collect
  <2>3. CASE UNCHANGED vars
    <3>1. /\ UNCHANGED repository /\ phase' = phase /\ todo' = todo /\ prs' = prs
          /\ runs' = runs /\ jobs' = jobs /\ entered' = entered
      BY <2>3 DEF vars, sweep
    <3>2. now' = now /\ \A name : Limit(name)' = Limit(name)
      BY <3>1, SameRepository
    <3>3. /\ RunsFresh' /\ \A k : JobDated(k) => JobDated(k)'
          /\ CorrelatedIds' = CorrelatedIds /\ FoundIds' = FoundIds
          /\ DistinctIds' = DistinctIds /\ \A t : Moved(t)' = Moved(t)
      BY <3>1, JobsKept DEF JInv, JobsInv
    <3>4. JobsInv'
      <4>1. TodoIds' = TodoIds
        BY <3>1 DEF TodoIds
      <4>2. \A k \in DOMAIN jobs : JobDated(k)'
        BY <3>3 DEF JInv, JobsInv
      <4> QED  BY <3>1, <3>3, <4>1, <4>2, Zenon DEF JInv, JobsInv
    <3>5. PlacedInv'
      <4>1. Moved(now)' = Moved(now) /\ Moved(entered["jobs"])' = Moved(entered["jobs"])
        BY <3>1, SameRepository DEF Moved
      <4>2. MovedOrDistinct' = MovedOrDistinct
        BY <3>2, <3>3, <4>1 DEF MovedOrDistinct
      <4>3. Placed' = Placed
        <5>1. page' = page /\ Before' = Before
          BY <2>3 DEF vars, sweep, Before
        <5> QED  BY <3>1, <3>3, <5>1, SameRepository DEF Placed, Rank
      <4> QED  BY <3>1, <3>2, <4>1, <4>2, <4>3 DEF JInv, PlacedInv
    <3> QED  BY <3>4, <3>5 DEF JInv
  <2> QED  BY <2>1, <2>2, <2>3 DEF Next
<1> QED  BY <1>1, <1>2, CollectorInvariant, PTL DEF Spec

(* The parity contract of collectHistory: jobs are fetched for the runs    *)
(* the assembler emits jobs for, once for each run id, and they are those  *)
(* of the attempt they are filed under unless the run was started again    *)
(* after it was listed.                                                    *)
THEOREM JobsAreWhereTheyBelong == Spec => []JobsWhereTheyBelong
<1>1. JInv => JobsWhereTheyBelong
  <2> SUFFICES ASSUME JInv, Assembled PROVE JobsWhereTheyBelong
    BY DEF JobsWhereTheyBelong
  <2>1. phase \in RunsListed \ {"jobs"}
    BY DEF Assembled, Ends, RunsListed, Listed
  <2>2. /\ FoundIds = CorrelatedIds
        /\ \A k, l \in DOMAIN jobs : k[1] = l[1] => k = l
        /\ \A k \in DOMAIN jobs : JobDated(k)
    BY <2>1 DEF JInv, JobsInv
  <2>3. \A k \in DOMAIN jobs :
          \/ jobs[k].run.attempt = k[2]
          \/ jobs[k].run.attempt > k[2] /\ jobs[k].start > entered["runs"]
    BY <2>2 DEF JobDated
  <2> QED  BY <2>2, <2>3, Zenon DEF JobsWhereTheyBelong, FoundIds, CorrelatedIds, CorrelationIndex
<1> QED  BY <1>1, JobsInvariant, PTL

(* The ledger refuses the events of a sweep only if a run started while    *)
(* the listing of runs was being read.                                     *)
THEOREM OnlyMovesReject == Spec => []IngestibleUnlessMoved
<1>1. JInv => IngestibleUnlessMoved
  BY DEF JInv, PlacedInv, Moved, RunsMoved, IngestibleUnlessMoved
<1> QED  BY <1>1, JobsInvariant, PTL

-----------------------------------------------------------------------------
(* Nothing to misfire on: times of pull requests.                          *)

(* What was closed was opened before. *)
Dated(p) == p.closed # 0 => p.created # 0 /\ p.created <= p.closed

DatesInv ==
  /\ \A n \in Tasks : Dated(pulls[n])
  /\ \A p \in Range(prs) : p.created # 0 /\ Dated(p)

(* At first nothing is closed, and nothing read. *)
LEMMA InitDates == Init => DatesInv
<1> SUFFICES ASSUME Init PROVE DatesInv
  OBVIOUS
<1>1. \A n \in Tasks : pulls[n].closed = 0
  BY DEF Init
<1>2. prs = <<>>
  BY DEF Init, NothingRead
<1>3. Range(prs) = {}
  BY <1>2 DEF Range
<1> QED  BY <1>1, <1>3 DEF DatesInv, Dated

(* A pull request is closed at the present, and not opened again. *)
LEMMA RepositoryKeepsDates ==
  ASSUME IInv, DatesInv, Repository
  PROVE  DatesInv'
<1>1. /\ now \in Nat /\ pulls \in [Tasks -> Pull] /\ UNCHANGED sweep
      /\ \A n \in Tasks : pulls[n].created \in Nat /\ pulls[n].created <= now /\ Dated(pulls[n])
  <2>1. RepositoryOK /\ UNCHANGED sweep
    BY RepositorySteps DEF IInv
  <2> QED  BY <2>1 DEF RepositoryOK, Pull, DatesInv
<1>2. prs' = prs
  BY <1>1 DEF sweep
<1>3. ASSUME NEW n \in Tasks, NEW p, Dated(p), pulls' = [pulls EXCEPT ![n] = p]
      PROVE  DatesInv'
  <2>1. \A m \in Tasks : Dated(pulls'[m])
    BY <1>1, <1>3
  <2>2. \A q \in Range(prs) : q.created # 0 /\ Dated(q)
    BY DEF DatesInv
  <2> QED  BY <1>2, <2>1, <2>2 DEF DatesInv, Dated
<1>4. ASSUME NEW n \in Tasks, OpenPull(n) PROVE DatesInv'
  <2> DEFINE p == [pulls[n] EXCEPT !.created = now', !.commits = <<FirstCommit(n)>>]
  <2>1. pulls' = [pulls EXCEPT ![n] = p]
    BY <1>1, <1>4 DEF OpenPull
  <2>2. pulls[n].created = 0
    BY <1>4 DEF OpenPull, Opened
  <2>3. p.closed = pulls[n].closed
    BY <1>1 DEF Pull
  <2>4. Dated(p)
    <3> HIDE DEF p
    <3> QED  BY <1>1, <2>2, <2>3 DEF Dated
  <2> HIDE DEF p
  <2> QED  BY <1>3, <2>1, <2>4
<1>5. ASSUME NEW n \in Tasks, NEW s \in Revisions, Push(n, s) PROVE DatesInv'
  <2>1. PICK date : pulls' = [pulls EXCEPT ![n].commits = Append(@, [sha |-> s, date |-> date])]
    BY <1>5 DEF Push
  <2> DEFINE p == [pulls[n] EXCEPT !.commits = Append(@, [sha |-> s, date |-> date])]
  <2>2. pulls' = [pulls EXCEPT ![n] = p]
    BY <1>1, <2>1
  <2>3. p.closed = pulls[n].closed /\ p.created = pulls[n].created
    BY <1>1 DEF Pull
  <2>4. Dated(p)
    <3> HIDE DEF p
    <3> QED  BY <1>1, <2>3 DEF Dated
  <2> HIDE DEF p
  <2> QED  BY <1>3, <2>2, <2>4
<1>6. ASSUME NEW n \in Tasks, NEW t, NEW m, Redeclare(n, t, m),
             t = 0 \/ (t = now + 1 /\ n \in Opened)
      PROVE  DatesInv'
  <2> DEFINE p == [pulls[n] EXCEPT !.closed = t, !.merged = m]
  <2>1. pulls' = [pulls EXCEPT ![n] = p]
    BY <1>1, <1>6 DEF Redeclare
  <2>2. p.closed = t /\ p.created = pulls[n].created
    BY <1>1 DEF Pull
  <2>3. n \in Opened => pulls[n].created # 0
    BY DEF Opened
  <2>4. Dated(p)
    <3> HIDE DEF p
    <3> QED  BY <1>1, <1>6, <2>2, <2>3 DEF Dated
  <2> HIDE DEF p
  <2> QED  BY <1>3, <2>1, <2>4
<1>7. ASSUME NEW n \in Tasks, Close(n) \/ Merge(n) \/ Reopen(n) PROVE DatesInv'
  <2>1. CASE Close(n)
    BY <1>6, <2>1 DEF Close, Open
  <2>2. CASE Merge(n)
    BY <1>6, <2>2 DEF Merge, Open
  <2>3. CASE Reopen(n)
    BY <1>6, <2>3 DEF Reopen
  <2> QED  BY <1>7, <2>1, <2>2, <2>3
<1>8. ASSUME NEW r \in Runs, StartRun(r) \/ EndRun(r) PROVE DatesInv'
  <2>1. pulls' = pulls
    BY <1>8 DEF StartRun, EndRun
  <2> QED  BY <1>2, <2>1 DEF DatesInv, Dated
<1> QED  BY <1>4, <1>5, <1>7, <1>8 DEF Repository

(* A pull request is listed with the times it has then. *)
LEMMA ListPullsKeepsDates ==
  ASSUME IInv, DatesInv, ListPulls
  PROVE  DatesInv'
<1> DEFINE P == Page(PullListing, page)
<1>1. /\ RepositoryOK /\ SweepOK /\ UNCHANGED repository
      /\ prs' = prs \o P \/ prs' = prs
  BY DEF IInv, ListPulls
<1>2. pulls' = pulls
  BY <1>1, SameRepository
<1>3. PullListing \in Seq(Pull) /\ page \in Nat \ {0} /\ prs \in Seq(Pull)
  <2>1. PullListing \in Seq(Pull)
    BY <1>1, PullListingHolds
  <2>2. page \in Nat \ {0} /\ prs \in Seq(Pull)
    BY <1>1 DEF SweepOK
  <2> QED  BY <2>1, <2>2
<1>4. P \in Seq(Pull) /\ \A i \in 1..Len(P) : \E j \in 1..Len(PullListing) : P[i] = PullListing[j]
  <2> DEFINE b == (page - 1) * PageSize
             L == PullListing
  <2>1. /\ P \in Seq(Pull)
        /\ \A i \in 1..Len(P) : b + i \in 1..Len(L) /\ P[i] = L[b + i]
    BY <1>3, PageHolds
  <2> HIDE DEF P, b, L
  <2>2. \A i \in 1..Len(P) : \E j \in 1..Len(L) : P[i] = L[j]
    BY <2>1
  <2> QED  BY <2>1, <2>2 DEF L
<1>5. \A j \in 1..Len(PullListing) : PullListing[j].created # 0 /\ Dated(PullListing[j])
  <2> DEFINE f == Ascending(Opened)
             N == Cardinality(Opened)
  <2>1. Opened \in SUBSET Nat /\ IsFiniteSet(Opened) /\ Opened \subseteq Tasks
    BY <1>1, SetsOfTheRepository
  <2>2. N \in Nat /\ f \in [1..N -> Opened] /\ DOMAIN f = 1..N
    BY <2>1, AscendingLists
  <2> HIDE DEF f, N
  <2>3. PullListing = [i \in 1..N |-> [pulls[f[i]] EXCEPT !.commits = <<>>]]
    <3>1. PullListing = [i \in DOMAIN f |-> [pulls[f[i]] EXCEPT !.commits = <<>>]]
      BY Zenon DEF PullListing, f
    <3> QED  BY <2>2, <3>1
  <2>4. ASSUME NEW n \in Opened
        PROVE  LET p == [pulls[n] EXCEPT !.commits = <<>>] IN p.created # 0 /\ Dated(p)
    <3>1. pulls[n] \in Pull /\ pulls[n].created # 0 /\ Dated(pulls[n])
      BY <1>1, <2>1 DEF RepositoryOK, Opened, DatesInv
    <3> DEFINE p == [pulls[n] EXCEPT !.commits = <<>>]
    <3>2. p.created = pulls[n].created /\ p.closed = pulls[n].closed
      BY <3>1 DEF Pull
    <3> HIDE DEF p
    <3>3. p.created # 0 /\ Dated(p)
      BY <3>1, <3>2 DEF Dated
    <3> QED  BY <3>3 DEF p
  <2>5. 1..Len(PullListing) = 1..N
    BY <2>2, <2>3
  <2> QED  BY <2>2, <2>3, <2>4, <2>5
<1> HIDE DEF P
<1>6. Range(prs') \subseteq Range(prs) \cup Range(P)
  <2>1. Joined(prs \o P, prs, P)
    BY <1>3, <1>4, Added
  <2> QED  BY <1>1, <2>1 DEF Joined
<1>7. \A p \in Range(P) : p.created # 0 /\ Dated(p)
  <2>1. DOMAIN P = 1..Len(P)
    BY <1>4
  <2> QED  BY <1>4, <1>5, <2>1 DEF Range
<1>8. \A p \in Range(prs') : p.created # 0 /\ Dated(p)
  BY <1>6, <1>7 DEF DatesInv
<1> QED  BY <1>2, <1>8 DEF DatesInv, Dated

(* Reading commits leaves the times. *)
LEMMA ListCommitsKeepsDates ==
  ASSUME IInv, DatesInv, ListCommits
  PROVE  DatesInv'
<1> DEFINE n == Head(todo)
           more(p) == Page(pulls[n].commits, page)
<1>1. /\ SweepOK /\ UNCHANGED repository
      /\ \/ prs' = [i \in DOMAIN prs |->
                      IF prs[i].number = n THEN [prs[i] EXCEPT !.commits = @ \o more(n)] ELSE prs[i]]
         \/ prs' = prs
  BY DEF IInv, ListCommits
<1>2. pulls' = pulls
  BY <1>1, SameRepository
<1> HIDE DEF n, more
<1>3. \A i \in DOMAIN prs : prs[i] \in Pull /\ prs[i].created # 0 /\ Dated(prs[i])
  BY <1>1 DEF SweepOK, DatesInv, Range
<1>4. ASSUME NEW i \in DOMAIN prs PROVE prs'[i].created # 0 /\ Dated(prs'[i])
  <2> DEFINE p == [prs[i] EXCEPT !.commits = @ \o more(n)]
  <2>1. prs[i] \in Pull /\ prs[i].created # 0 /\ Dated(prs[i])
    BY <1>3
  <2>2. p.created = prs[i].created /\ p.closed = prs[i].closed
    BY <2>1 DEF Pull
  <2>3. prs'[i] = p \/ prs'[i] = prs[i]
    BY <1>1
  <2> HIDE DEF p
  <2> QED  BY <2>1, <2>2, <2>3 DEF Dated
<1>5. \A p \in Range(prs') : p.created # 0 /\ Dated(p)
  <2>1. DOMAIN (prs') = DOMAIN prs
    BY <1>1
  <2> QED  BY <1>4, <2>1 DEF Range
<1> QED  BY <1>2, <1>5 DEF DatesInv, Dated

(* The times of pull requests, throughout. *)
LEMMA DatesInvariant == Spec => []DatesInv
<1>1. Init => DatesInv
  BY InitDates
<1>2. IInv /\ DatesInv /\ [Next]_vars => DatesInv'
  <2> SUFFICES ASSUME IInv, DatesInv, [Next]_vars PROVE DatesInv'
    OBVIOUS
  <2>1. CASE Repository
    BY <2>1, RepositoryKeepsDates
  <2>2. CASE Begin
    <3>1. prs' = <<>> /\ UNCHANGED repository
      BY <2>2 DEF Begin
    <3>2. pulls' = pulls /\ Range(prs') = {}
      BY <3>1, SameRepository DEF Range
    <3> QED  BY <3>2 DEF DatesInv, Dated
  <2>3. CASE ListPulls
    BY <2>3, ListPullsKeepsDates
  <2>4. CASE ListCommits
    BY <2>4, ListCommitsKeepsDates
  <2>5. CASE UNCHANGED <<repository, prs>>
    <3>1. pulls' = pulls /\ prs' = prs
      BY <2>5, SameRepository
    <3> QED  BY <3>1 DEF DatesInv, Dated
  <2>6. CommitsRead \/ ListRuns \/ ListJobs \/ JobsRead \/ ProbeChecks \/ ChecksRead
          \/ RunGithubReadOnly \/ RequestFails \/ UNCHANGED vars => UNCHANGED <<repository, prs>>
    BY DEF CommitsRead, ListRuns, ListJobs, JobsRead, ProbeChecks, ChecksRead,
           RunGithubReadOnly, RequestFails, vars, sweep
  <2> QED  BY <2>1, <2>2, <2>3, <2>4, <2>5, <2>6 DEF Next, Collect
<1> QED  BY <1>1, <1>2, CollectorInvariant, PTL DEF Spec

-----------------------------------------------------------------------------
(* Nothing to misfire on: what a bundle says.                              *)

(* The commits sorted by date are commits of the list. *)
LEMMA OrderedCommits ==
  ASSUME NEW commits \in Commits
  PROVE  /\ Len(commits) \in Nat
         /\ DOMAIN OrderCommits(commits) = 1..Len(commits)
         /\ \A k \in 1..Len(commits) : OrderCommits(commits)[k] \in Range(commits)
<1> DEFINE D == DOMAIN commits
           Earlier(i, j) == \/ commits[i].date < commits[j].date
                            \/ commits[i].date = commits[j].date /\ i < j
           R == {d \in D \X D : Earlier(d[1], d[2])}
           pi == [k \in 1..Cardinality(D) |-> CHOOSE i \in D : Cardinality(Below(D, R, i)) + 1 = k]
<1>1. /\ D = 1..Len(commits) /\ Len(commits) \in Nat
      /\ \A i \in D : commits[i].date \in Nat /\ i \in Nat
  <2> DEFINE C == [sha : Revisions, date : Nat]
  <2>1. commits \in Seq(C) /\ \A c \in C : c.date \in Nat
    BY DEF Commits
  <2> HIDE DEF C
  <2> QED  BY <2>1
<1>2. IsFiniteSet(D) /\ Cardinality(D) = Len(commits)
  <2> DEFINE n == Len(commits)
  <2>1. D = 1..n /\ n \in Nat
    BY <1>1
  <2> HIDE DEF D, n
  <2>2. IsFiniteSet(D) /\ Cardinality(D) = n
    BY <2>1, FS_Interval
  <2> QED  BY <2>2 DEF n
<1>3. /\ \A i \in D : ~ Earlier(i, i)
      /\ \A i, j \in D : i # j => Earlier(i, j) \/ Earlier(j, i)
      /\ \A i, j, k \in D : Earlier(i, j) /\ Earlier(j, k) => Earlier(i, k)
  BY <1>1
<1> HIDE DEF D, Earlier
<1>4. \A i, j \in D : <<i, j>> \in R <=> Earlier(i, j)
  OBVIOUS
<1>5. \A i \in D : {j \in D : Earlier(j, i)} = Below(D, R, i)
  BY <1>4 DEF Below
<1> HIDE DEF R
<1>6. Orders(R, D)
  BY <1>3, <1>4, Zenon DEF Orders
<1>7. Sorts(pi, D, R)
  BY <1>2, <1>6, RanksSort
<1>8. OrderCommits(commits) =
        [k \in D |-> commits[CHOOSE i \in D : Cardinality({j \in D : Earlier(j, i)}) + 1 = k]]
  BY Zenon DEF OrderCommits, D, Earlier
<1>9. ASSUME NEW k \in D
      PROVE  OrderCommits(commits)[k] = commits[pi[k]] /\ pi[k] \in D
  <2>1. \A i : i \in D /\ Cardinality({j \in D : Earlier(j, i)}) + 1 = k
               <=> i \in D /\ Cardinality(Below(D, R, i)) + 1 = k
    BY <1>5, Zenon
  <2>2. k \in 1..Cardinality(D)
    BY <1>1, <1>2
  <2>3. (CHOOSE i \in D : Cardinality({j \in D : Earlier(j, i)}) + 1 = k) = pi[k]
    BY <2>1, <2>2
  <2> HIDE DEF pi
  <2>4. pi[k] \in D
    BY <1>7, <2>2 DEF Sorts
  <2> QED  BY <1>8, <2>3, <2>4, Zenon
<1> HIDE DEF pi
<1>10. \A k \in D : OrderCommits(commits)[k] \in Range(commits)
  BY <1>9 DEF Range, D
<1> QED  BY <1>1, <1>8, <1>10

(* No relation of an execution of a bundle is known. *)
Unrelated(e) == e.by = None /\ e.retryOf = None

(* Work that starts after the close is that of a revision dated so. *)
LEMMA ExecutionsOfRecord ==
  ASSUME NEW p \in Pull, p.created # 0, Dated(p), NEW money,
         NEW e \in Range(BuildRecord(p, money).execs)
  PROVE  /\ Unrelated(e)
         /\ e \in Cli!ExecutionsAfterAbort(BuildRecord(p, money)) =>
              /\ p.merged = 0 /\ p.closed # 0
              /\ \E c \in Range(p.commits) : c.sha = e.id /\ c.date > p.closed
<1> DEFINE r == BuildRecord(p, money)
           execs == RevisionExecutions(p, money)
           span == SpanExecution(p, StartOf(p), money)
           revs == OrderCommits(p.commits)
           undated == Cardinality({i \in DOMAIN revs : revs[i].date = 0})
<1>1. /\ r.execs = IF execs = <<>> THEN <<span>> ELSE execs
      /\ r.status = BundleOutcome(p)
      /\ r.aborted = IF BundleOutcome(p) = "aborted" THEN p.closed ELSE None
  BY Zenon DEF BuildRecord
<1>2. p.created \in Nat /\ p.closed \in Nat /\ p.merged \in Nat /\ p.commits \in Commits
  BY DEF Pull
<1>3. BundleOutcome(p) = "aborted" => p.merged = 0 /\ p.closed # 0
  BY DEF BundleOutcome
<1>4. Len(p.commits) \in Nat /\ DOMAIN revs = 1..Len(p.commits)
      /\ \A k \in 1..Len(p.commits) : revs[k] \in Range(p.commits)
  BY <1>2, OrderedCommits
<1>5. undated \in Nat
  <2>1. IsFiniteSet(1..Len(p.commits))
    <3> DEFINE n == Len(p.commits)
    <3>1. n \in Nat
      BY <1>4
    <3> HIDE DEF n
    <3>2. IsFiniteSet(1..n)
      BY <3>1, FS_Interval
    <3> QED  BY <3>2 DEF n
  <2>2. {i \in DOMAIN revs : revs[i].date = 0} \in SUBSET (1..Len(p.commits))
    BY <1>4
  <2> DEFINE U == {i \in DOMAIN revs : revs[i].date = 0}
  <2> HIDE DEF U
  <2>3. IsFiniteSet(U)
    BY <2>1, <2>2, FS_Subset DEF U
  <2> QED  BY <2>3, FS_CardinalityType DEF U
<1>6. e \in Cli!ExecutionsAfterAbort(r) => p.merged = 0 /\ p.closed # 0 /\ e.start > p.closed
  BY <1>1, <1>3 DEF Cli!ExecutionsAfterAbort
<1>7. CASE execs = <<>>
  <2>1. e = span
    BY <1>1, <1>7 DEF Range
  <2>2. Unrelated(span) /\ span.start = StartOf(p)
    BY DEF SpanExecution, ExecutionJson, Unrelated
  <2>3. StartOf(p) = p.created
    BY DEF StartOf
  <2>4. p.closed # 0 => ~ (p.created > p.closed)
    BY <1>2 DEF Dated
  <2> QED  BY <1>6, <2>1, <2>2, <2>3, <2>4
<1>8. CASE execs # <<>>
  <2> DEFINE Cost(type, i) == money[type][revs[i].sha] + IF i = Len(revs) THEN money[type][None] ELSE 0
             Execution(i) == ExecutionJson(revs[i].sha, revs[i].date, Replacement(revs, i),
                                           Cost("ci_run_recorded", i),
                                           Cost("compute_usage_recorded", i))
  <2>1. execs = [k \in 1..(Len(revs) - undated) |-> Execution(undated + k)]
    BY Zenon DEF RevisionExecutions
  <2>2. \A i : /\ Unrelated(Execution(i)) /\ Execution(i).id = revs[i].sha
               /\ Execution(i).start = revs[i].date
    BY DEF ExecutionJson, Unrelated, Replacement
  <2>3. Len(revs) = Len(p.commits)
    <3>1. revs = [k \in 1..Len(p.commits) |-> revs[k]]
      BY <1>4 DEF OrderCommits
    <3> HIDE DEF revs
    <3> QED  BY <1>4, <3>1
  <2> HIDE DEF Execution, Cost, undated, execs
  <2>4. PICK k \in 1..(Len(revs) - undated) : e = Execution(undated + k)
    BY <1>1, <1>8, <2>1 DEF Range
  <2>5. undated + k \in 1..Len(p.commits)
    BY <1>4, <1>5, <2>3
  <2>6. revs[undated + k] \in Range(p.commits)
    BY <1>4, <2>5
  <2> QED  BY <1>6, <2>2, <2>4, <2>6
<1> QED  BY <1>7, <1>8

-----------------------------------------------------------------------------
(* Nothing to misfire on: what the rules of the other side make of it.     *)

(* The operators of an instance are those of the library.                  *)
LEMMA SameOperators == \A S : Cli!Cardinality(S) = Cardinality(S) /\ Cli!Range(S) = Range(S)
BY DEF Cli!Cardinality, Cardinality, Cli!Range, Range

(* A list of records that have tasks. *)
IsList(rs) == Len(rs) \in Nat /\ DOMAIN rs = 1..Len(rs) /\ \A k \in DOMAIN rs : rs[k].task \in Nat

(* Sorting by task gives records of the list. *)
LEMMA SortedAreListed ==
  ASSUME NEW rs, IsList(rs)
  PROVE  \A p \in 1..Len(rs) : \E k \in DOMAIN rs : Cli!SortedRecords(rs)[p] = rs[k]
<1> DEFINE D == DOMAIN rs
           Earlier(j, k) == \/ rs[j].task < rs[k].task
                            \/ rs[j].task = rs[k].task /\ j < k
           R == {d \in D \X D : Earlier(d[1], d[2])}
           pi == [p \in 1..Cardinality(D) |-> CHOOSE k \in D : Cardinality(Below(D, R, k)) + 1 = p]
<1>1. /\ D = 1..Len(rs) /\ Len(rs) \in Nat /\ IsFiniteSet(D) /\ Cardinality(D) = Len(rs)
      /\ \A k \in D : rs[k].task \in Nat
  <2> DEFINE n == Len(rs)
  <2>1. D = 1..n /\ n \in Nat /\ \A k \in D : rs[k].task \in Nat
    BY DEF IsList
  <2> HIDE DEF D, n
  <2>2. IsFiniteSet(D) /\ Cardinality(D) = n
    BY <2>1, FS_Interval
  <2> QED  BY <2>1, <2>2 DEF n
<1>2. /\ \A k \in D : ~ Earlier(k, k)
      /\ \A j, k \in D : j # k => Earlier(j, k) \/ Earlier(k, j)
      /\ \A i, j, k \in D : Earlier(i, j) /\ Earlier(j, k) => Earlier(i, k)
  BY <1>1
<1> HIDE DEF D, Earlier
<1>3. \A j, k \in D : <<j, k>> \in R <=> Earlier(j, k)
  OBVIOUS
<1>4. \A k \in D : {j \in D : Earlier(j, k)} = Below(D, R, k)
  BY <1>3 DEF Below
<1> HIDE DEF R
<1>5. Orders(R, D)
  BY <1>2, <1>3, Zenon DEF Orders
<1>6. Sorts(pi, D, R)
  BY <1>1, <1>5, RanksSort
<1>7. Cli!SortedRecords(rs) =
        [p \in D |-> rs[CHOOSE k \in D : Cardinality({j \in D : Earlier(j, k)}) + 1 = p]]
  BY Zenon DEF Cli!SortedRecords, Cli!Cardinality, Cardinality, D, Earlier
<1>8. ASSUME NEW p \in 1..Len(rs)
      PROVE  Cli!SortedRecords(rs)[p] = rs[pi[p]] /\ pi[p] \in D
  <2>1. \A k : k \in D /\ Cardinality({j \in D : Earlier(j, k)}) + 1 = p
               <=> k \in D /\ Cardinality(Below(D, R, k)) + 1 = p
    BY <1>4, Zenon
  <2>2. p \in 1..Cardinality(D) /\ p \in D
    BY <1>1
  <2>3. (CHOOSE k \in D : Cardinality({j \in D : Earlier(j, k)}) + 1 = p) = pi[p]
    BY <2>1, <2>2
  <2> HIDE DEF pi
  <2>4. pi[p] \in D
    BY <1>6, <2>2 DEF Sorts
  <2> QED  BY <1>7, <2>2, <2>3, <2>4, Zenon
<1> QED  BY <1>8 DEF D

(* The findings of the first i of n sorted records.                        *)
IsFound(found, rs, n) ==
  found = [i \in 0..n |-> IF i = 0 THEN {} ELSE Cli!ApplyRules(found[i - 1], Cli!SortedRecords(rs)[i])]

(* The recursion of detectCertainWaste has a solution. *)
LEMMA FoundExists ==
  ASSUME NEW rs, NEW n \in Nat
  PROVE  \E found : IsFound(found, rs, n)
<1> DEFINE good == {m \in Nat : \E found : IsFound(found, rs, m)}
<1>1. 0 \in good
  <2>1. IsFound([i \in 0..0 |-> {}], rs, 0)
    BY DEF IsFound
  <2> QED  BY <2>1
<1>2. ASSUME NEW m \in Nat, m \in good PROVE m + 1 \in good
  <2>1. PICK g : IsFound(g, rs, m)
    BY <1>2
  <2> DEFINE Then(found, i) == Cli!ApplyRules(found, Cli!SortedRecords(rs)[i])
             h == [i \in 0..(m + 1) |-> IF i = m + 1 THEN Then(g[m], m + 1) ELSE g[i]]
             T == [i \in 0..(m + 1) |-> IF i = 0 THEN {} ELSE Then(h[i - 1], i)]
  <2>2. \A i \in 0..m : g[i] = IF i = 0 THEN {} ELSE Then(g[i - 1], i)
    BY <2>1, Zenon DEF IsFound
  <2> HIDE DEF Then
  <2>3. ASSUME NEW i \in 0..(m + 1) PROVE h[i] = T[i]
    <3>1. CASE i = m + 1
      BY <3>1
    <3>2. CASE i # m + 1 /\ i = 0
      BY <2>2, <3>2
    <3>3. CASE i # m + 1 /\ i # 0
      <4>1. i \in 0..m /\ i - 1 \in 0..(m + 1) /\ i - 1 # m + 1
        BY <3>3
      <4>2. h[i] = g[i] /\ h[i - 1] = g[i - 1]
        BY <4>1, <3>3
      <4>3. g[i] = Then(g[i - 1], i)
        BY <2>2, <3>3, <4>1
      <4> QED  BY <3>3, <4>2, <4>3, Zenon
    <3> QED  BY <3>1, <3>2, <3>3
  <2>4. h = T
    BY <2>3, Zenon
  <2>5. IsFound(h, rs, m + 1)
    BY <2>4, Zenon DEF IsFound, Then
  <2> HIDE DEF h, T
  <2> QED  BY <2>5
<1>3. Nat \subseteq good
  <2> HIDE DEF good
  <2> QED  BY <1>1, <1>2, NumberInduction
<1> QED  BY <1>3

(* What is charged of record r because it was aborted. *)
LateFindings(r) == {Cli!Finding(r, "after_abort", e) : e \in Cli!ExecutionsAfterAbort(r)}

(* The relational rules find nothing where no relation is known. *)
LEMMA RulesOnUnrelated ==
  ASSUME NEW findings, NEW r, \A e \in Range(r.execs) : Unrelated(e)
  PROVE  Cli!ApplyRules(findings, r) \subseteq findings \cup LateFindings(r)
<1>1. Cli!SupersededExecutions(r) = {} /\ Cli!IdenticalRetries(r) = {}
  <2>1. \A e \in Cli!Range(r.execs) : Unrelated(e)
    BY SameOperators
  <2> QED  BY <2>1 DEF Cli!SupersededExecutions, Cli!IdenticalRetries, Unrelated
<1>2. /\ Cli!ChargedBy("superseded", r) = {} /\ Cli!ChargedBy("identical_retry", r) = {}
      /\ Cli!ChargedBy("after_abort", r) = Cli!ExecutionsAfterAbort(r)
  BY <1>1 DEF Cli!ChargedBy
<1>3. \A F, rule : Cli!Claim(F, r, rule)
                     \subseteq F \cup {Cli!Finding(r, rule, e) : e \in Cli!ChargedBy(rule, r)}
  BY Zenon DEF Cli!Claim
<1>4. \A F : /\ Cli!Claim(F, r, "superseded") \subseteq F
             /\ Cli!Claim(F, r, "identical_retry") \subseteq F
             /\ Cli!Claim(F, r, "after_abort") \subseteq F \cup LateFindings(r)
  BY <1>2, <1>3 DEF LateFindings
<1> QED  BY <1>4 DEF Cli!ApplyRules

(* So all that is found is charged because a record was aborted. *)
LEMMA LateFindingsOnly ==
  ASSUME NEW rs, IsList(rs), \A k \in DOMAIN rs : \A e \in Range(rs[k].execs) : Unrelated(e)
  PROVE  \A f \in Cli!DetectCertainWaste(rs) : \E k \in DOMAIN rs : f \in LateFindings(rs[k])
<1> DEFINE found == CHOOSE f : IsFound(f, rs, Len(rs))
           Late == UNION {LateFindings(rs[k]) : k \in DOMAIN rs}
           good == {n \in Nat : n <= Len(rs) => found[n] \subseteq Late}
<1>1. Len(rs) \in Nat
  BY DEF IsList
<1>2. IsFound(found, rs, Len(rs))
  BY <1>1, FoundExists, Zenon
<1>3. Cli!DetectCertainWaste(rs) = found[Len(rs)]
  BY Zenon DEF Cli!DetectCertainWaste, IsFound
<1> HIDE DEF found
<1>4. \A i \in 0..Len(rs) :
        found[i] = IF i = 0 THEN {} ELSE Cli!ApplyRules(found[i - 1], Cli!SortedRecords(rs)[i])
  BY <1>2, Zenon DEF IsFound
<1>5. 0 \in good
  <2>1. found[0] = {}
    BY <1>1, <1>4
  <2> QED  BY <2>1
<1>6. ASSUME NEW n \in Nat, n \in good PROVE n + 1 \in good
  <2> SUFFICES ASSUME n + 1 <= Len(rs) PROVE found[n + 1] \subseteq Late
    BY <1>6
  <2>1. found[n] \subseteq Late
    BY <1>1, <1>6
  <2>2. found[n + 1] = Cli!ApplyRules(found[n], Cli!SortedRecords(rs)[n + 1])
    <3>1. n + 1 \in 0..Len(rs) /\ n + 1 # 0 /\ (n + 1) - 1 = n
      BY <1>1
    <3> QED  BY <1>4, <3>1
  <2>3. PICK k \in DOMAIN rs : Cli!SortedRecords(rs)[n + 1] = rs[k]
    <3>1. n + 1 \in 1..Len(rs)
      BY <1>1
    <3> QED  BY <3>1, SortedAreListed
  <2>4. found[n + 1] \subseteq found[n] \cup LateFindings(rs[k])
    BY <2>2, <2>3, RulesOnUnrelated
  <2> QED  BY <2>1, <2>4
<1>7. Nat \subseteq good
  <2> HIDE DEF good
  <2> QED  BY <1>5, <1>6, NumberInduction
<1>8. found[Len(rs)] \subseteq Late
  BY <1>1, <1>7
<1> QED  BY <1>3, <1>8

(* The records of a bundle are those of pull requests that were read.      *)
LEMMA BundleRecords ==
  ASSUME IInv
  PROVE  /\ IsList(Bundle)
         /\ \A k \in DOMAIN Bundle : \E p \in Range(prs) : \E money :
              Bundle[k] = BuildRecord(p, money) /\ Bundle[k].task = p.number
<1> DEFINE ingested == {p \in Range(prs) : p.number \in Agentic /\ StartOf(p) # 0}
           S == {p.number : p \in ingested}
           numbers == Ascending(S)
           Numbered(n) == CHOOSE p \in ingested : p.number = n
           Money(n) == PlaceKnownCost(Evidence, PrIndex(Range(prs)), Usage, n)
<1>1. Range(prs) \subseteq Pull
  BY DEF IInv, SweepOK, Range
<1>2. S \subseteq Tasks
  BY <1>1 DEF Pull
<1>3. S \in SUBSET Nat /\ IsFiniteSet(S)
  <2>1. Tasks \subseteq Nat /\ IsFiniteSet(Tasks)
    BY VocabularyAssumption
  <2> HIDE DEF S
  <2> QED  BY <1>2, <2>1, FS_Subset
<1>4. \A n \in S : Numbered(n) \in ingested /\ Numbered(n).number = n
  OBVIOUS
<1>5. Bundle = [k \in DOMAIN numbers |-> BuildRecord(Numbered(numbers[k]), Money(numbers[k]))]
  BY Zenon DEF Bundle, BuildNormalizedBundle
<1> HIDE DEF S, Numbered, Money
<1>6. Cardinality(S) \in Nat /\ numbers \in [1..Cardinality(S) -> S]
  BY <1>3, AscendingLists
<1> HIDE DEF numbers
<1>7. DOMAIN Bundle = 1..Cardinality(S)
  BY <1>5, <1>6
<1>8. \A p, money : BuildRecord(p, money).task = p.number
  BY DEF BuildRecord
<1>9. ASSUME NEW k \in DOMAIN Bundle
      PROVE  \E p \in Range(prs) : \E money :
               Bundle[k] = BuildRecord(p, money) /\ Bundle[k].task = p.number
  <2>1. numbers[k] \in S
    BY <1>6, <1>7
  <2>2. Numbered(numbers[k]) \in Range(prs)
    BY <1>4, <2>1
  <2>3. Bundle[k] = BuildRecord(Numbered(numbers[k]), Money(numbers[k]))
    BY <1>5, <1>9
  <2> QED  BY <1>8, <2>2, <2>3
<1>10. Len(Bundle) = Cardinality(S)
  <2>1. Bundle = [k \in 1..Cardinality(S) |-> Bundle[k]]
    BY <1>5, <1>7
  <2> QED  BY <1>6, <2>1
<1>11. \A k \in DOMAIN Bundle : Bundle[k].task \in Nat
  <2>1. \A p \in Range(prs) : p.number \in Nat
    BY <1>1, VocabularyAssumption DEF Pull
  <2> QED  BY <1>9, <2>1
<1> QED  BY <1>6, <1>7, <1>9, <1>10, <1>11 DEF IsList

(* What does hold of the claim in the header of bundle.js that the rules   *)
(* of the other side have nothing to misfire on: they charge a bundle only *)
(* for revisions dated after the close of a pull request that was listed   *)
(* as closed.                                                              *)
THEOREM NothingMisfires == Spec => []NothingToMisfireOn
<1>1. IInv /\ DatesInv => NothingToMisfireOn
  <2> SUFFICES ASSUME IInv, DatesInv, NEW f \in Cli!DetectCertainWaste(Bundle)
               PROVE  /\ f.rule = "after_abort"
                      /\ \E p \in Range(prs) :
                           /\ p.number = f.task /\ p.merged = 0 /\ p.closed # 0
                           /\ \E c \in Range(p.commits) : c.sha = f.exec /\ c.date > p.closed
    BY Zenon DEF NothingToMisfireOn
  <2>1. \A p \in Range(prs) : p \in Pull /\ p.created # 0 /\ Dated(p)
    BY DEF IInv, SweepOK, DatesInv, Range
  <2>2. ASSUME NEW k \in DOMAIN Bundle, NEW e \in Range(Bundle[k].execs)
        PROVE  Unrelated(e)
    <3>1. PICK p \in Range(prs) : \E money : Bundle[k] = BuildRecord(p, money)
      BY BundleRecords
    <3> QED  BY <2>1, <2>2, <3>1, ExecutionsOfRecord
  <2>3. PICK k \in DOMAIN Bundle : f \in LateFindings(Bundle[k])
    BY <2>2, BundleRecords, LateFindingsOnly
  <2>4. PICK p \in Range(prs) :
          \E money : Bundle[k] = BuildRecord(p, money) /\ Bundle[k].task = p.number
    BY BundleRecords
  <2>5. PICK e \in Cli!ExecutionsAfterAbort(Bundle[k]) : f = Cli!Finding(Bundle[k], "after_abort", e)
    BY <2>3 DEF LateFindings
  <2>6. PICK money : /\ Bundle[k].task = p.number
                     /\ e \in Range(BuildRecord(p, money).execs)
                     /\ e \in Cli!ExecutionsAfterAbort(BuildRecord(p, money))
    BY <2>4, <2>5, SameOperators DEF Cli!ExecutionsAfterAbort
  <2>7. /\ p.merged = 0 /\ p.closed # 0
        /\ \E c \in Range(p.commits) : c.sha = e.id /\ c.date > p.closed
    BY <2>1, <2>6, ExecutionsOfRecord
  <2>8. f.rule = "after_abort" /\ f.exec = e.id /\ f.task = p.number
    BY <2>5, <2>6 DEF Cli!Finding
  <2> QED  BY <2>7, <2>8
<1> QED  BY <1>1, CollectorInvariant, DatesInvariant, PTL

==============================================================================
