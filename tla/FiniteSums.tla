----------------------------- MODULE FiniteSums -----------------------------
(***************************************************************************)
(* Induction over sets and numbers, and the sums SumFunction(w) of the     *)
(* natural numbers w[x], x in a finite set.  The library's induction       *)
(* theorems take an operator, the lemmas here take the set of what is      *)
(* good; a sum is a recursive function over the subsets of the domain of   *)
(* w (a table), which exists, is unique and does not depend on the order   *)
(* in which the elements are taken.  Last, sorting by ranks: what stands   *)
(* at place k has k - 1 elements before it.                                *)
(***************************************************************************)
EXTENDS Integers, FiniteSets, Functions, FiniteSetTheorems, WellFoundedInduction, TLAPS

(* Every set of naturals has a least element. *)
LEMMA LeastNatural ==
  ASSUME NEW S \in SUBSET Nat, S # {}
  PROVE  \E m \in S : \A n \in S : m <= n
<1> DEFINE R == {ss \in Nat \X Nat : ss[1] < ss[2]}
<1>1. IsWellFoundedOn(R, Nat)
  BY NatLessThanWellFounded, Zenon DEF OpToRel
<1>2. \A x, y \in Nat : <<x, y>> \in R <=> x < y
  OBVIOUS
<1> HIDE DEF R
<1>3. PICK m \in S : \A n \in S : ~(<<n, m>> \in R)
  BY <1>1, WFMin, Zenon
<1>4. m \in Nat /\ \A n \in S : n \in Nat /\ ~(n < m)
  BY <1>2, <1>3
<1> QED BY <1>4

(* A set with 0 and the successor of each of its members has every number. *)
LEMMA NumberInduction ==
  ASSUME NEW good, 0 \in good, \A n \in Nat : n \in good => n + 1 \in good
  PROVE  Nat \subseteq good
<1> DEFINE bad == Nat \ good
<1> SUFFICES ASSUME bad # {} PROVE FALSE
  OBVIOUS
<1>1. PICK m \in bad : \A n \in bad : m <= n
  <2> HIDE DEF bad
  <2>1. bad \in SUBSET Nat
    BY DEF bad
  <2> QED  BY <2>1, LeastNatural
<1>2. m \in Nat /\ m # 0 /\ m - 1 \in Nat /\ m - 1 \notin bad
  BY <1>1
<1>3. (m - 1) + 1 = m
  BY <1>2
<1> QED  BY <1>1, <1>2, <1>3

(* A collection of subsets that has a set as soon as it has all proper     *)
(* subsets of the set has every subset.                                    *)
LEMMA SubsetInduction ==
  ASSUME NEW S, IsFiniteSet(S), NEW good,
         \A s \in SUBSET S : (\A r \in SUBSET s : r # s => r \in good) => s \in good
  PROVE  SUBSET S \subseteq good
<1> DEFINE bad == {s \in SUBSET S : s \notin good}
           sizes == {Cardinality(s) : s \in bad}
<1> SUFFICES ASSUME bad # {} PROVE FALSE
  OBVIOUS
<1>1. \A s \in SUBSET S : IsFiniteSet(s) /\ Cardinality(s) \in Nat
  BY FS_Subset, FS_CardinalityType
<1>2. PICK n \in sizes : \A m \in sizes : n <= m
  <2>1. sizes \in SUBSET Nat /\ sizes # {}
    BY <1>1
  <2> HIDE DEF sizes
  <2> QED  BY <2>1, LeastNatural
<1>3. PICK s \in bad : n = Cardinality(s)
  BY <1>2
<1>4. ASSUME NEW r \in SUBSET s, r # s PROVE r \in good
  <2>1. Cardinality(r) < Cardinality(s)
    <3>1. r \subseteq s /\ IsFiniteSet(s)
      BY <1>1
    <3>2. Cardinality(r) <= Cardinality(s) /\ (Cardinality(r) = Cardinality(s) => r = s)
      BY <3>1, FS_Subset
    <3> QED  BY <1>1, <1>4, <3>2
  <2>2. r \in SUBSET S
    OBVIOUS
  <2>3. r \in bad => Cardinality(r) \in sizes
    OBVIOUS
  <2> HIDE DEF sizes
  <2> QED  BY <1>1, <1>2, <1>3, <2>1, <2>2, <2>3
<1> QED  BY <1>3, <1>4

(* A finite function has a finite range. *)
LEMMA FiniteImage ==
  ASSUME NEW S, IsFiniteSet(S), NEW f, DOMAIN f = S
  PROVE  IsFiniteSet({f[x] : x \in S}) /\ Cardinality({f[x] : x \in S}) <= Cardinality(S)
<1> DEFINE T == {f[x] : x \in S}
           h == [x \in S |-> f[x]]
<1>1. h \in Surjection(S, T)
  BY DEF Surjection
<1> HIDE DEF h, T
<1>2. IsFiniteSet(T) /\ Cardinality(T) <= Cardinality(S)
  BY <1>1, FS_Surjection
<1> QED  BY <1>2 DEF T

-----------------------------------------------------------------------------
(* Tables. *)

Pick(s) == CHOOSE x \in s : TRUE

(* The recursive function that SumFunction is defined by, on subsets of S. *)
IsTable(g, w, S) ==
  g = [s \in SUBSET S |-> IF s = {} THEN 0 ELSE w[Pick(s)] + g[s \ {Pick(s)}]]

Row(g, w, s) ==
  /\ s = {} => g[s] = 0
  /\ s # {} => Pick(s) \in s /\ g[s] = w[Pick(s)] + g[s \ {Pick(s)}]

(* A table gives the empty set zero, and any other set the weight of its picked element
   more than the rest. *)
LEMMA TableRow ==
  ASSUME NEW w, NEW S, NEW g, IsTable(g, w, S), NEW s \in SUBSET S
  PROVE  Row(g, w, s)
<1>1. g[s] = IF s = {} THEN 0 ELSE w[Pick(s)] + g[s \ {Pick(s)}]
  BY Zenon DEF IsTable
<1>2. s # {} => Pick(s) \in s
  BY DEF Pick
<1> QED  BY <1>1, <1>2 DEF Row

(* Two tables agree where both are defined. *)
LEMMA TablesAgree ==
  ASSUME NEW w, NEW S, IsFiniteSet(S), NEW T \in SUBSET S,
         NEW g, IsTable(g, w, S), NEW h, IsTable(h, w, T), NEW t \in SUBSET T
  PROVE  g[t] = h[t]
<1> DEFINE good == {s \in SUBSET T : g[s] = h[s]}
<1>1. IsFiniteSet(T)
  BY FS_Subset
<1>2. ASSUME NEW s \in SUBSET T, \A r \in SUBSET s : r # s => r \in good
      PROVE  s \in good
  <2>1. s \in SUBSET S
    OBVIOUS
  <2>2. s # {} => Pick(s) \in s
    BY DEF Pick
  <2>3. s # {} => g[s \ {Pick(s)}] = h[s \ {Pick(s)}]
    BY <1>2, <2>2
  <2>4. Row(g, w, s) /\ Row(h, w, s)
    BY <2>1, TableRow, Zenon
  <2>6. g[s] = h[s]
    BY <2>3, <2>4 DEF Row
  <2> QED  BY <2>6
<1>3. SUBSET T \subseteq good
  <2> HIDE DEF good
  <2> QED  BY <1>1, <1>2, SubsetInduction
<1> QED  BY <1>3

(* Every finite set has a table. *)
LEMMA TableExists ==
  ASSUME NEW w, NEW S, IsFiniteSet(S)
  PROVE  \E g : IsTable(g, w, S)
<1> DEFINE good == {s \in SUBSET S : \E g : IsTable(g, w, s)}
           Of(s) == CHOOSE g : IsTable(g, w, s)
<1>1. ASSUME NEW s \in SUBSET S, \A r \in SUBSET s : r # s => r \in good
      PROVE  s \in good
  <2> DEFINE last == w[Pick(s)] + Of(s \ {Pick(s)})[s \ {Pick(s)}]
             g == [r \in SUBSET s |-> IF r = {} THEN 0
                                      ELSE IF r = s THEN last ELSE Of(r)[r]]
  <2>1. \A r \in SUBSET s : r # s => IsTable(Of(r), w, r)
    BY <1>1
  <2>2. \A r \in SUBSET s : r # {} => Pick(r) \in r /\ r \ {Pick(r)} # s /\ r \ {Pick(r)} \in SUBSET s
    BY DEF Pick
  <2>3. ASSUME NEW r \in SUBSET s, r # {}
        PROVE  g[r] = w[Pick(r)] + g[r \ {Pick(r)}]
    <3> DEFINE q == r \ {Pick(r)}
    <3>1. q \in SUBSET s /\ q # s /\ q \in SUBSET r
      BY <2>2, <2>3
    <3>2. g[q] = Of(q)[q]
      <4>1. CASE q = {}
        <5>1. Row(Of(q), w, q)
          <6>1. q \in SUBSET q /\ IsTable(Of(q), w, q)
            BY <2>1, <3>1
          <6> QED  BY <6>1, TableRow, Zenon
        <5>2. Of(q)[q] = 0
          BY <4>1, <5>1 DEF Row
        <5> QED  BY <3>1, <4>1, <5>2
      <4>2. CASE q # {}
        BY <3>1, <4>2
      <4> QED  BY <4>1, <4>2
    <3>3. CASE r = s
      <4>1. g[r] = w[Pick(r)] + Of(q)[q]
        BY <2>3, <3>3
      <4> HIDE DEF q, g
      <4> QED  BY <3>2, <4>1 DEF q
    <3>4. CASE r # s
      <4>1. g[r] = Of(r)[r]
        BY <2>3, <3>4
      <4>2. IsTable(Of(r), w, r) /\ IsTable(Of(q), w, q)
        BY <2>1, <3>1, <3>4
      <4>3. IsFiniteSet(r)
        BY FS_Subset
      <4> HIDE DEF g, Of
      <4>4. Of(r)[q] = Of(q)[q]
        <5>1. q \in SUBSET q /\ q \in SUBSET r
          BY <3>1
        <5> HIDE DEF q
        <5>2. \A a, b : IsTable(a, w, r) /\ IsTable(b, w, q) => a[q] = b[q]
          BY <4>3, <5>1, TablesAgree
        <5> QED  BY <4>2, <5>2, Zenon
      <4>5. Of(r)[r] = w[Pick(r)] + Of(r)[q]
        <5>1. r \in SUBSET r
          OBVIOUS
        <5>2. Row(Of(r), w, r)
          BY <4>2, <5>1, TableRow DEF q
        <5> QED  BY <2>3, <5>2 DEF Row, q
      <4> QED  BY <3>2, <4>1, <4>4, <4>5
    <3> QED  BY <3>3, <3>4
  <2>4. g[{}] = 0
    OBVIOUS
  <2>5. IsTable(g, w, s)
    <3>1. g = [r \in SUBSET s |-> g[r]]
      OBVIOUS
    <3> HIDE DEF g
    <3>2. \A r \in SUBSET s : g[r] = IF r = {} THEN 0 ELSE w[Pick(r)] + g[r \ {Pick(r)}]
      BY <2>3, <2>4
    <3>3. [r \in SUBSET s |-> g[r]]
            = [r \in SUBSET s |-> IF r = {} THEN 0 ELSE w[Pick(r)] + g[r \ {Pick(r)}]]
      BY <3>2, Zenon
    <3> QED  BY <3>1, <3>3, Zenon DEF IsTable
  <2> QED  BY <2>5, Zenon
<1>2. SUBSET S \subseteq good
  <2> HIDE DEF good
  <2> QED  BY <1>1, SubsetInduction
<1> QED  BY <1>2

(* The table of a finite set. *)
Table(w, S) == CHOOSE g : IsTable(g, w, S)

(* The sum of a function over a finite domain is the last entry of its table. *)
LEMMA SumIsTable ==
  ASSUME NEW w, IsFiniteSet(DOMAIN w)
  PROVE  IsTable(Table(w, DOMAIN w), w, DOMAIN w) /\ SumFunction(w) = Table(w, DOMAIN w)[DOMAIN w]
<1>1. IsTable(Table(w, DOMAIN w), w, DOMAIN w)
  BY TableExists, Zenon DEF Table
<1>2. SumFunction(w) = Table(w, DOMAIN w)[DOMAIN w]
  BY DEF SumFunction, SumFunctionOnSet, FoldFunctionOnSet, MapThenFoldSet, Table, IsTable, Pick
<1> QED  BY <1>1, <1>2

-----------------------------------------------------------------------------
(* Sums.  Values(w, s) holds the table's entry of s, which is the sum of   *)
(* w restricted to s.                                                      *)

(* In a table of naturals an entry is a natural. *)
LEMMA EntryType ==
  ASSUME NEW S, IsFiniteSet(S), NEW w \in [S -> Nat], NEW g, IsTable(g, w, S), NEW t \in SUBSET S
  PROVE  g[t] \in Nat
<1> DEFINE good == {s \in SUBSET S : g[s] \in Nat}
<1>1. ASSUME NEW s \in SUBSET S, \A r \in SUBSET s : r # s => r \in good
      PROVE  s \in good
  <2>1. Row(g, w, s)
    BY TableRow
  <2>2. s # {} => g[s \ {Pick(s)}] \in Nat /\ w[Pick(s)] \in Nat
    BY <1>1, <2>1 DEF Row
  <2>3. g[s] \in Nat
    BY <2>1, <2>2 DEF Row
  <2> QED  BY <2>3
<1>2. SUBSET S \subseteq good
  <2> HIDE DEF good
  <2> QED  BY <1>1, SubsetInduction
<1> QED  BY <1>2

(* Any element may be taken first. *)
LEMMA EntryWithout ==
  ASSUME NEW S, IsFiniteSet(S), NEW w \in [S -> Nat], NEW g, IsTable(g, w, S),
         NEW t \in SUBSET S, NEW x \in t
  PROVE  g[t] = w[x] + g[t \ {x}]
<1> DEFINE good == {s \in SUBSET S : \A y \in s : g[s] = w[y] + g[s \ {y}]}
<1>1. ASSUME NEW s \in SUBSET S, \A r \in SUBSET s : r # s => r \in good, NEW y \in s
      PROVE  g[s] = w[y] + g[s \ {y}]
  <2> DEFINE c == Pick(s)
  <2>1. c \in s /\ g[s] = w[c] + g[s \ {c}]
    BY TableRow DEF Row
  <2>2. CASE c = y
    BY <2>1, <2>2
  <2>3. CASE c # y
    <3> HIDE DEF c
    <3>1. /\ s \ {c} \in SUBSET s /\ s \ {c} # s /\ y \in s \ {c}
          /\ s \ {y} \in SUBSET s /\ s \ {y} # s /\ c \in s \ {y}
          /\ (s \ {c}) \ {y} = (s \ {y}) \ {c}
      BY <2>1, <2>3
    <3>2. g[s \ {c}] = w[y] + g[(s \ {c}) \ {y}]
      BY <1>1, <3>1
    <3>3. g[s \ {y}] = w[c] + g[(s \ {y}) \ {c}]
      BY <1>1, <3>1
    <3>4. g[(s \ {y}) \ {c}] \in Nat /\ w[c] \in Nat /\ w[y] \in Nat
      <4>1. (s \ {y}) \ {c} \in SUBSET S /\ c \in S /\ y \in S
        BY <2>1
      <4>2. \A q \in SUBSET S : g[q] \in Nat
        BY EntryType
      <4> QED  BY <4>1, <4>2
    <3>5. g[s \ {c}] = w[y] + g[(s \ {y}) \ {c}]
      BY <3>1, <3>2, Zenon
    <3> DEFINE rest == g[(s \ {y}) \ {c}]
    <3>6. rest \in Nat /\ g[s \ {c}] = w[y] + rest /\ g[s \ {y}] = w[c] + rest
      BY <3>3, <3>4, <3>5
    <3> HIDE DEF rest
    <3> QED  BY <2>1, <3>4, <3>6
  <2> QED  BY <2>2, <2>3
<1>2. SUBSET S \subseteq good
  <2>1. \A s \in SUBSET S : (\A r \in SUBSET s : r # s => r \in good) => s \in good
    BY <1>1
  <2> HIDE DEF good
  <2> QED  BY <2>1, SubsetInduction
<1> QED  BY <1>2

(* The sum of naturals is a natural, and 0 if there are none. *)
LEMMA SumType ==
  ASSUME NEW S, IsFiniteSet(S), NEW w \in [S -> Nat]
  PROVE  SumFunction(w) \in Nat
<1>1. DOMAIN w = S /\ S \in SUBSET S
  OBVIOUS
<1>2. IsTable(Table(w, S), w, S) /\ SumFunction(w) = Table(w, S)[S]
  BY <1>1, SumIsTable
<1> QED  BY <1>1, <1>2, EntryType

(* The sum over no elements is zero. *)
LEMMA SumOfNone ==
  ASSUME NEW w, DOMAIN w = {}
  PROVE  SumFunction(w) = 0
<1>1. IsFiniteSet({})
  BY FS_EmptySet
<1>2. IsTable(Table(w, {}), w, {}) /\ SumFunction(w) = Table(w, {})[{}]
  BY <1>1, SumIsTable
<1>3. Row(Table(w, {}), w, {})
  BY <1>2, TableRow
<1> QED  BY <1>2, <1>3 DEF Row

(* A part of w. *)
Part(w, S) == [x \in S |-> w[x]]

(* The entries of one table are the sums of the parts. *)
LEMMA SumOfPart ==
  ASSUME NEW S, IsFiniteSet(S), NEW w \in [S -> Nat], NEW t \in SUBSET S
  PROVE  SumFunction(Part(w, t)) = Table(w, S)[t]
<1> DEFINE v == Part(w, t)
<1>1. IsFiniteSet(t) /\ DOMAIN v = t /\ \A s \in SUBSET t : \A x \in s : v[x] = w[x]
  BY FS_Subset DEF Part
<1>2. IsTable(Table(v, t), v, t) /\ SumFunction(v) = Table(v, t)[t]
  <2> HIDE DEF v
  <2> QED  BY <1>1, SumIsTable
<1>3. IsTable(Table(w, S), w, S)
  <2>1. DOMAIN w = S
    OBVIOUS
  <2> QED  BY <2>1, SumIsTable
<1>4. IsTable(Table(v, t), w, t)
  <2> DEFINE h == Table(v, t)
  <2>1. \A s \in SUBSET t : s # {} => v[Pick(s)] = w[Pick(s)]
    BY <1>1 DEF Pick
  <2>2. [s \in SUBSET t |-> IF s = {} THEN 0 ELSE v[Pick(s)] + h[s \ {Pick(s)}]]
          = [s \in SUBSET t |-> IF s = {} THEN 0 ELSE w[Pick(s)] + h[s \ {Pick(s)}]]
    <3> HIDE DEF v, h
    <3> QED  BY <2>1, Zenon
  <2> HIDE DEF v
  <2> QED  BY <1>2, <2>2, Zenon DEF IsTable
<1>5. Table(w, S)[t] = Table(v, t)[t]
  <2>1. t \in SUBSET t
    OBVIOUS
  <2> HIDE DEF v
  <2> QED  BY <1>3, <1>4, <2>1, TablesAgree
<1> QED  BY <1>2, <1>5

(* One more element adds its value. *)
LEMMA SumAdd ==
  ASSUME NEW S, IsFiniteSet(S), NEW x \in S, NEW w \in [S -> Nat]
  PROVE  SumFunction(w) = w[x] + SumFunction(Part(w, S \ {x}))
<1>1. DOMAIN w = S /\ S \in SUBSET S /\ S \ {x} \in SUBSET S
  OBVIOUS
<1>2. IsTable(Table(w, S), w, S) /\ SumFunction(w) = Table(w, S)[S]
  BY <1>1, SumIsTable
<1>3. Table(w, S)[S] = w[x] + Table(w, S)[S \ {x}]
  BY <1>1, <1>2, EntryWithout
<1> QED  BY <1>1, <1>2, <1>3, SumOfPart

(* The sum over a set is that over two parts of it. *)
LEMMA SumSplit ==
  ASSUME NEW S, IsFiniteSet(S), NEW w \in [S -> Nat], NEW A \in SUBSET S
  PROVE  SumFunction(w) = SumFunction(Part(w, A)) + SumFunction(Part(w, S \ A))
<1> DEFINE g == Table(w, S)
           good == {s \in SUBSET S : g[s] = g[s \cap A] + g[s \ A]}
<1>1. DOMAIN w = S /\ S \in SUBSET S /\ S \ A \in SUBSET S /\ S \cap A = A
  OBVIOUS
<1>2. IsTable(g, w, S) /\ SumFunction(w) = g[S]
  BY <1>1, SumIsTable
<1>3. \A s \in SUBSET S : g[s] \in Nat
  <2> HIDE DEF g
  <2> QED  BY <1>2, EntryType
<1>4. ASSUME NEW s \in SUBSET S, \A r \in SUBSET s : r # s => r \in good
      PROVE  s \in good
  <2>1. CASE s = {}
    <3>1. Row(g, w, {})
      BY <1>2, TableRow
    <3>2. g[{}] = 0
      BY <3>1 DEF Row
    <3>3. s \cap A = {} /\ s \ A = {}
      BY <2>1
    <3> HIDE DEF g
    <3> QED  BY <2>1, <3>2, <3>3
  <2>2. CASE s # {}
    <3>1. PICK x \in s : TRUE
      BY <2>2
    <3> DEFINE r == s \ {x}
    <3>2. r \in SUBSET s /\ r # s /\ r \in SUBSET S
      BY <3>1
    <3>3. g[s] = w[x] + g[r] /\ g[r] = g[r \cap A] + g[r \ A]
      <4>1. g[r] = g[r \cap A] + g[r \ A]
        BY <1>4, <3>2
      <4> HIDE DEF g
      <4>2. g[s] = w[x] + g[s \ {x}]
        BY <1>2, EntryWithout
      <4> QED  BY <4>1, <4>2 DEF r
    <3>4. /\ g[r] \in Nat /\ g[r \cap A] \in Nat /\ g[r \ A] \in Nat /\ w[x] \in Nat
          /\ s \cap A \in SUBSET S /\ s \ A \in SUBSET S
      <4>1. r \cap A \in SUBSET S /\ r \ A \in SUBSET S /\ x \in S
        OBVIOUS
      <4> HIDE DEF g, r
      <4> QED  BY <1>3, <3>2, <4>1
    <3>5. CASE x \in A
      <4>1. x \in s \cap A /\ (s \cap A) \ {x} = r \cap A /\ s \ A = r \ A
        BY <3>5
      <4>2. g[s \cap A] = w[x] + g[r \cap A]
        <5> HIDE DEF g, r
        <5> QED  BY <1>2, <3>4, <4>1, EntryWithout
      <4> HIDE DEF g, r
      <4> QED  BY <3>3, <3>4, <4>1, <4>2
    <3>6. CASE x \notin A
      <4>1. x \in s \ A /\ (s \ A) \ {x} = r \ A /\ s \cap A = r \cap A
        BY <3>6
      <4>2. g[s \ A] = w[x] + g[r \ A]
        <5> HIDE DEF g, r
        <5> QED  BY <1>2, <3>4, <4>1, EntryWithout
      <4> HIDE DEF g, r
      <4> QED  BY <3>3, <3>4, <4>1, <4>2
    <3> QED  BY <3>5, <3>6
  <2> QED  BY <2>1, <2>2
<1>5. SUBSET S \subseteq good
  <2> HIDE DEF good
  <2> QED  BY <1>4, SubsetInduction
<1>6. g[S] = g[A] + g[S \ A]
  BY <1>1, <1>5
<1> QED  BY <1>1, <1>2, <1>6, SumOfPart

(* The sums of the parts of w, by one element more or less. *)
LEMMA SumsOfParts ==
  ASSUME NEW S, IsFiniteSet(S), NEW w \in [S -> Nat]
  PROVE  /\ SumFunction(Part(w, {})) = 0
         /\ \A t \in SUBSET S :
              /\ SumFunction(Part(w, t)) \in Nat
              /\ \A x \in t : SumFunction(Part(w, t)) = w[x] + SumFunction(Part(w, t \ {x}))
<1> DEFINE g == Table(w, S)
<1>1. IsTable(g, w, S)
  <2>1. DOMAIN w = S
    OBVIOUS
  <2> QED  BY <2>1, SumIsTable
<1> HIDE DEF g
<1>2. \A t \in SUBSET S : SumFunction(Part(w, t)) = g[t]
  BY SumOfPart DEF g
<1>3. SumFunction(Part(w, {})) = 0
  BY SumOfNone DEF Part
<1>4. ASSUME NEW t \in SUBSET S
      PROVE  /\ SumFunction(Part(w, t)) \in Nat
             /\ \A x \in t : SumFunction(Part(w, t)) = w[x] + SumFunction(Part(w, t \ {x}))
  <2>1. g[t] \in Nat
    BY <1>1, EntryType
  <2>2. \A x \in t : g[t] = w[x] + g[t \ {x}]
    BY <1>1, EntryWithout
  <2>3. \A x \in t : t \ {x} \in SUBSET S
    OBVIOUS
  <2> QED  BY <1>2, <2>1, <2>2, <2>3
<1> QED  BY <1>3, <1>4

(* f gives the elements of S other names, those of T. *)
Renames(f, S, w, T, v) ==
  /\ w \in [S -> Nat] /\ v \in [T -> Nat] /\ f \in [S -> T]
  /\ \A x, y \in S : f[x] = f[y] => x = y
  /\ \A y \in T : \E x \in S : f[x] = y
  /\ \A x \in S : v[f[x]] = w[x]

(* The sum does not depend on what the elements are called. *)
LEMMA SumReindexed ==
  ASSUME NEW S, IsFiniteSet(S), NEW w, NEW T, NEW v, NEW f, Renames(f, S, w, T, v)
  PROVE  SumFunction(w) = SumFunction(v)
<1> USE DEF Renames
<1> DEFINE Image(s) == {f[x] : x \in s}
           SumW(s) == SumFunction(Part(w, s))
           SumV(s) == SumFunction(Part(v, s))
           good == {s \in SUBSET S : SumW(s) = SumV(Image(s))}
<1>1. T = Image(S) /\ Image({}) = {} /\ \A s \in SUBSET S : Image(s) \in SUBSET T
  OBVIOUS
<1>2. IsFiniteSet(T)
  <2>1. \A y \in T : \E x \in S : f[x] = y
    OBVIOUS
  <2>2. f \in Surjection(S, T)
    BY DEF Surjection
  <2> QED  BY <2>2, FS_Surjection
<1>3. /\ SumW({}) = 0 /\ SumV({}) = 0
      /\ \A s \in SUBSET S : \A x \in s : SumW(s) = w[x] + SumW(s \ {x})
      /\ \A t \in SUBSET T : \A y \in t : SumV(t) = v[y] + SumV(t \ {y})
  <2>1. SumW({}) = 0 /\ \A s \in SUBSET S : \A x \in s : SumW(s) = w[x] + SumW(s \ {x})
    BY SumsOfParts
  <2>2. SumV({}) = 0 /\ \A t \in SUBSET T : \A y \in t : SumV(t) = v[y] + SumV(t \ {y})
    BY <1>2, SumsOfParts
  <2> QED  BY <2>1, <2>2
<1>4. ASSUME NEW s \in SUBSET S, \A r \in SUBSET s : r # s => r \in good
      PROVE  s \in good
  <2>1. CASE s = {}
    <3>1. Image(s) = {}
      BY <2>1
    <3> HIDE DEF Image, SumW, SumV
    <3> QED  BY <1>3, <2>1, <3>1
  <2>2. CASE s # {}
    <3>1. PICK x \in s : TRUE
      BY <2>2
    <3>2. /\ f[x] \in Image(s) /\ Image(s) \in SUBSET T
          /\ Image(s) \ {f[x]} = Image(s \ {x})
      <4>1. x \in S /\ \A y \in s : y \in S /\ (f[y] = f[x] => y = x)
        OBVIOUS
      <4> QED  BY <4>1, <1>1
    <3>3. SumW(s \ {x}) = SumV(Image(s \ {x}))
      BY <1>4, <3>1
    <3> HIDE DEF Image, SumW, SumV
    <3>4. SumW(s) = w[x] + SumW(s \ {x})
      BY <1>3
    <3>5. SumV(Image(s)) = v[f[x]] + SumV(Image(s \ {x}))
      <4>1. SumV(Image(s)) = v[f[x]] + SumV(Image(s) \ {f[x]})
        BY <1>3, <3>2, Zenon
      <4> QED  BY <3>2, <4>1, Zenon
    <3>6. v[f[x]] = w[x]
      OBVIOUS
    <3> QED  BY <3>3, <3>4, <3>5, <3>6
  <2> QED  BY <2>1, <2>2
<1>5. SUBSET S \subseteq good
  <2> HIDE DEF good
  <2> QED  BY <1>4, SubsetInduction
<1>6. SumW(S) = SumV(T)
  BY <1>1, <1>5
<1>7. Part(w, S) = w /\ Part(v, T) = v
  BY DEF Part
<1> QED  BY <1>6, <1>7

(* The sum over groups of the sums within each group. *)
LEMMA SumGrouped ==
  ASSUME NEW S, IsFiniteSet(S), NEW w \in [S -> Nat],
         NEW K, IsFiniteSet(K), NEW key \in [S -> K]
  PROVE  /\ [k \in K |-> SumFunction(Part(w, {x \in S : key[x] = k}))] \in [K -> Nat]
         /\ SumFunction(w) = SumFunction([k \in K |-> SumFunction(Part(w, {x \in S : key[x] = k}))])
<1> DEFINE SumW(s) == SumFunction(Part(w, s))
           Group(k) == {x \in S : key[x] = k}
           Groups(J) == {x \in S : key[x] \in J}
           v == [k \in K |-> SumW(Group(k))]
           SumV(J) == SumFunction(Part(v, J))
           good == {J \in SUBSET K : SumW(Groups(J)) = SumV(J)}
<1>1. SumW({}) = 0 /\ \A s \in SUBSET S : SumW(s) \in Nat
  BY SumsOfParts
<1>2. v \in [K -> Nat]
  <2>1. \A k \in K : Group(k) \in SUBSET S
    OBVIOUS
  <2> HIDE DEF Group, SumW
  <2> QED  BY <1>1, <2>1
<1>3. SumV({}) = 0 /\ \A J \in SUBSET K : \A k \in J : SumV(J) = v[k] + SumV(J \ {k})
  <2> HIDE DEF v
  <2> QED  BY <1>2, SumsOfParts
<1>4. ASSUME NEW J \in SUBSET K, \A r \in SUBSET J : r # J => r \in good
      PROVE  J \in good
  <2>1. CASE J = {}
    <3>1. Groups(J) = {}
      BY <2>1
    <3> HIDE DEF Groups, SumW, SumV
    <3> QED  BY <1>1, <1>3, <2>1, <3>1
  <2>2. CASE J # {}
    <3>1. PICK k \in J : TRUE
      BY <2>2
    <3>2. /\ Groups(J) \in SUBSET S /\ Group(k) \in SUBSET Groups(J)
          /\ Groups(J) \ Group(k) = Groups(J \ {k})
      BY <3>1
    <3>3. SumW(Groups(J \ {k})) = SumV(J \ {k})
      BY <1>4, <3>1
    <3>4. v[k] = SumW(Group(k))
      OBVIOUS
    <3> DEFINE A == Groups(J)
               B == Group(k)
               u == Part(w, A)
    <3>5. SumW(A) = SumW(B) + SumW(A \ B)
      <4>1. IsFiniteSet(A) /\ u \in [A -> Nat] /\ B \in SUBSET A
        BY <3>2, FS_Subset DEF Part
      <4>2. Part(u, B) = Part(w, B) /\ Part(u, A \ B) = Part(w, A \ B)
        BY <3>2 DEF Part
      <4> HIDE DEF A, B, u
      <4>3. SumFunction(u) = SumFunction(Part(u, B)) + SumFunction(Part(u, A \ B))
        BY <4>1, SumSplit
      <4> QED  BY <4>2, <4>3 DEF u
    <3> HIDE DEF Groups, Group, SumW, SumV, v
    <3>6. SumV(J) = v[k] + SumV(J \ {k})
      BY <1>3
    <3> QED  BY <3>2, <3>3, <3>4, <3>5, <3>6
  <2> QED  BY <2>1, <2>2
<1>5. SUBSET K \subseteq good
  <2> HIDE DEF good
  <2> QED  BY <1>4, SubsetInduction
<1>6. SumW(Groups(K)) = SumV(K)
  BY <1>5
<1>7. Groups(K) = S /\ Part(w, S) = w /\ Part(v, K) = v
  BY <1>2 DEF Part
<1>8. SumFunction(w) = SumFunction(v)
  <2> HIDE DEF Groups, v
  <2> QED  BY <1>6, <1>7
<1> QED  BY <1>2, <1>8

(* Elements of value 0 do not count. *)
LEMMA SumOfSupport ==
  ASSUME NEW S, IsFiniteSet(S), NEW w \in [S -> Nat], NEW A \in SUBSET S,
         \A x \in S \ A : w[x] = 0
  PROVE  SumFunction(w) = SumFunction(Part(w, A))
<1> DEFINE SumW(s) == SumFunction(Part(w, s))
           good == {s \in SUBSET S : s \cap A = {} => SumW(s) = 0}
<1>1. /\ SumW({}) = 0
      /\ \A s \in SUBSET S : SumW(s) \in Nat /\ \A x \in s : SumW(s) = w[x] + SumW(s \ {x})
  BY SumsOfParts
<1>2. ASSUME NEW s \in SUBSET S, \A r \in SUBSET s : r # s => r \in good
      PROVE  s \in good
  <2>1. CASE s = {}
    <3> HIDE DEF SumW
    <3> QED  BY <1>1, <2>1
  <2>2. CASE s \cap A = {} /\ s # {}
    <3>1. PICK x \in s : TRUE
      BY <2>2
    <3>2. s \ {x} \in SUBSET s /\ s \ {x} # s /\ (s \ {x}) \cap A = {} /\ x \in S \ A
      BY <2>2, <3>1
    <3>3. SumW(s \ {x}) = 0
      BY <1>2, <3>2
    <3> HIDE DEF SumW
    <3>4. SumW(s) = w[x] + SumW(s \ {x})
      BY <1>1
    <3>5. w[x] = 0
      BY <3>2
    <3> QED  BY <3>3, <3>4, <3>5
  <2> QED  BY <2>1, <2>2
<1>3. SUBSET S \subseteq good
  <2> HIDE DEF good
  <2> QED  BY <1>2, SubsetInduction
<1>4. SumW(S \ A) = 0
  BY <1>3
<1>5. SumW(A) \in Nat
  <2> HIDE DEF SumW
  <2> QED  BY <1>1
<1>6. SumFunction(w) = SumW(A) + SumW(S \ A)
  BY SumSplit
<1> HIDE DEF SumW
<1>7. SumFunction(w) = SumW(A)
  BY <1>4, <1>5, <1>6
<1> QED  BY <1>7 DEF SumW

(* The number of elements is the sum of as many ones. *)
LEMMA SumOfOnes ==
  ASSUME NEW S, IsFiniteSet(S)
  PROVE  SumFunction([x \in S |-> 1]) = Cardinality(S)
<1> DEFINE w == [x \in S |-> 1]
           SumW(s) == SumFunction(Part(w, s))
           good == {s \in SUBSET S : SumW(s) = Cardinality(s)}
<1>1. w \in [S -> Nat] /\ \A x \in S : w[x] = 1
  OBVIOUS
<1>2. /\ SumW({}) = 0
      /\ \A s \in SUBSET S : SumW(s) \in Nat /\ \A x \in s : SumW(s) = w[x] + SumW(s \ {x})
  <2> HIDE DEF w
  <2> QED  BY <1>1, SumsOfParts
<1>3. ASSUME NEW s \in SUBSET S, \A r \in SUBSET s : r # s => r \in good
      PROVE  s \in good
  <2>1. CASE s = {}
    <3>1. Cardinality({}) = 0
      BY FS_EmptySet
    <3> HIDE DEF SumW
    <3> QED  BY <1>2, <2>1, <3>1
  <2>2. CASE s # {}
    <3>1. PICK x \in s : TRUE
      BY <2>2
    <3>2. s \ {x} \in SUBSET s /\ s \ {x} # s /\ x \in S
      BY <3>1
    <3>3. SumW(s \ {x}) = Cardinality(s \ {x})
      BY <1>3, <3>2
    <3>4. Cardinality(s \ {x}) = Cardinality(s) - 1 /\ Cardinality(s) \in Nat
      <4>1. IsFiniteSet(s)
        BY FS_Subset
      <4> QED  BY <3>1, <4>1, FS_RemoveElement, FS_CardinalityType
    <3> HIDE DEF SumW, w
    <3>5. SumW(s) = w[x] + SumW(s \ {x})
      BY <1>2
    <3>6. w[x] = 1
      BY <1>1
    <3>7. SumW(s) = Cardinality(s)
      BY <3>3, <3>4, <3>5, <3>6
    <3> QED  BY <3>7
  <2> QED  BY <2>1, <2>2
<1>4. SUBSET S \subseteq good
  <2> HIDE DEF good
  <2> QED  BY <1>3, SubsetInduction
<1>5. Part(w, S) = w
  BY DEF Part
<1> QED  BY <1>4, <1>5

(* Larger numbers have a larger sum. *)
LEMMA SumBounded ==
  ASSUME NEW S, IsFiniteSet(S), NEW w \in [S -> Nat], NEW v \in [S -> Nat],
         \A x \in S : w[x] <= v[x]
  PROVE  SumFunction(w) <= SumFunction(v)
<1> DEFINE SumW(s) == SumFunction(Part(w, s))
           SumV(s) == SumFunction(Part(v, s))
           good == {s \in SUBSET S : SumW(s) <= SumV(s)}
<1>1. /\ SumW({}) = 0
      /\ \A s \in SUBSET S : SumW(s) \in Nat /\ \A x \in s : SumW(s) = w[x] + SumW(s \ {x})
  BY SumsOfParts
<1>2. /\ SumV({}) = 0
      /\ \A s \in SUBSET S : SumV(s) \in Nat /\ \A x \in s : SumV(s) = v[x] + SumV(s \ {x})
  BY SumsOfParts
<1>3. ASSUME NEW s \in SUBSET S, \A r \in SUBSET s : r # s => r \in good
      PROVE  s \in good
  <2>1. CASE s = {}
    <3> HIDE DEF SumW, SumV
    <3> QED  BY <1>1, <1>2, <2>1
  <2>2. CASE s # {}
    <3>1. PICK x \in s : TRUE
      BY <2>2
    <3>2. s \ {x} \in SUBSET s /\ s \ {x} # s /\ s \ {x} \in SUBSET S /\ x \in S
      BY <3>1
    <3>3. SumW(s \ {x}) <= SumV(s \ {x})
      BY <1>3, <3>2
    <3> HIDE DEF SumW, SumV
    <3>4. /\ SumW(s) = w[x] + SumW(s \ {x}) /\ SumW(s \ {x}) \in Nat
          /\ SumV(s) = v[x] + SumV(s \ {x}) /\ SumV(s \ {x}) \in Nat
      BY <1>1, <1>2, <3>2
    <3>5. w[x] \in Nat /\ v[x] \in Nat /\ w[x] <= v[x]
      BY <3>2
    <3>6. SumW(s) <= SumV(s)
      BY <3>3, <3>4, <3>5
    <3> QED  BY <3>6
  <2> QED  BY <2>1, <2>2
<1>4. SUBSET S \subseteq good
  <2> HIDE DEF good
  <2> QED  BY <1>3, SubsetInduction
<1>5. Part(w, S) = w /\ Part(v, S) = v
  BY DEF Part
<1> QED  BY <1>4, <1>5

(* The values of the sets C[k], each with its k. *)
Labelled(K, X, C) == {p \in K \X X : p[2] \in C[p[1]]}

(* The sum over labelled elements is that of the sums of the sets. *)
LEMMA SumOfLabelled ==
  ASSUME NEW K, IsFiniteSet(K), NEW X, IsFiniteSet(X), NEW C \in [K -> SUBSET X],
         NEW w \in [X -> Nat]
  PROVE  /\ IsFiniteSet(Labelled(K, X, C))
         /\ [k \in K |-> SumFunction(Part(w, C[k]))] \in [K -> Nat]
         /\ SumFunction([p \in Labelled(K, X, C) |-> w[p[2]]])
              = SumFunction([k \in K |-> SumFunction(Part(w, C[k]))])
<1> DEFINE P == Labelled(K, X, C)
           v == [p \in P |-> w[p[2]]]
           key == [p \in P |-> p[1]]
           Group(k) == {p \in P : key[p] = k}
<1>1. IsFiniteSet(P) /\ P \in SUBSET (K \X X)
  <2>1. P \in SUBSET (K \X X)
    BY DEF Labelled
  <2>2. IsFiniteSet(K \X X)
    BY FS_Product
  <2> HIDE DEF P
  <2> QED  BY <2>1, <2>2, FS_Subset
<1>2. v \in [P -> Nat] /\ key \in [P -> K]
  <2> SUFFICES ASSUME NEW p \in P PROVE w[p[2]] \in Nat /\ p[1] \in K
    OBVIOUS
  <2> QED  BY <1>1
<1>3. SumFunction(v) = SumFunction([k \in K |-> SumFunction(Part(v, Group(k)))])
  <2> HIDE DEF P, v, key
  <2>1. IsFiniteSet(P)
    BY <1>1
  <2> QED  BY <1>2, <2>1, SumGrouped
<1>4. ASSUME NEW k \in K
      PROVE  SumFunction(Part(v, Group(k))) = SumFunction(Part(w, C[k])) /\ SumFunction(Part(w, C[k])) \in Nat
  <2> DEFINE D == C[k]
             G == Group(k)
             u == Part(w, D)
             z == Part(v, G)
             f == [c \in D |-> <<k, c>>]
  <2>1. D \in SUBSET X /\ IsFiniteSet(D) /\ u \in [D -> Nat]
    BY FS_Subset DEF Part
  <2>2. \A c \in D : <<k, c>> \in G /\ v[<<k, c>>] = w[c]
    BY <2>1 DEF Labelled
  <2>3. \A p \in G : p = <<k, p[2]>> /\ p[2] \in D /\ p \in P
    BY <1>1 DEF Labelled
  <2> HIDE DEF P, v, Group, D
  <2>4. z \in [G -> Nat]
    BY <1>2, <2>3 DEF Part
  <2>5. /\ f \in [D -> G]
        /\ \A x, y \in D : f[x] = f[y] => x = y
        /\ \A y \in G : \E x \in D : f[x] = y
    BY <2>2, <2>3
  <2>6. \A x \in D : z[f[x]] = u[x]
    BY <2>2 DEF Part
  <2> HIDE DEF u, z, f, G
  <2>7. Renames(f, D, u, G, z)
    BY <2>1, <2>4, <2>5, <2>6 DEF Renames
  <2>8. SumFunction(u) = SumFunction(z) /\ SumFunction(u) \in Nat
    BY <2>1, <2>7, SumReindexed, SumType
  <2> QED  BY <2>8 DEF u, z, D, G
<1>5. [k \in K |-> SumFunction(Part(v, Group(k)))] = [k \in K |-> SumFunction(Part(w, C[k]))]
  BY <1>4, Zenon
<1>6. \A k \in K : SumFunction(Part(w, C[k])) \in Nat
  BY <1>4
<1> HIDE DEF v, Group
<1>7. SumFunction(v) = SumFunction([k \in K |-> SumFunction(Part(w, C[k]))])
  BY <1>3, <1>5
<1> QED  BY <1>1, <1>6, <1>7 DEF v

(* Sums add up element by element. *)
LEMMA SumOfTwo ==
  ASSUME NEW S, IsFiniteSet(S), NEW w \in [S -> Nat], NEW v \in [S -> Nat], NEW u \in [S -> Nat],
         \A x \in S : u[x] = w[x] + v[x]
  PROVE  SumFunction(u) = SumFunction(w) + SumFunction(v)
<1> DEFINE SumW(s) == SumFunction(Part(w, s))
           SumV(s) == SumFunction(Part(v, s))
           SumU(s) == SumFunction(Part(u, s))
           good == {s \in SUBSET S : SumU(s) = SumW(s) + SumV(s)}
<1>1. /\ SumW({}) = 0
      /\ \A s \in SUBSET S : SumW(s) \in Nat /\ \A x \in s : SumW(s) = w[x] + SumW(s \ {x})
  BY SumsOfParts
<1>2. /\ SumV({}) = 0
      /\ \A s \in SUBSET S : SumV(s) \in Nat /\ \A x \in s : SumV(s) = v[x] + SumV(s \ {x})
  BY SumsOfParts
<1>3. /\ SumU({}) = 0
      /\ \A s \in SUBSET S : SumU(s) \in Nat /\ \A x \in s : SumU(s) = u[x] + SumU(s \ {x})
  BY SumsOfParts
<1>4. ASSUME NEW s \in SUBSET S, \A r \in SUBSET s : r # s => r \in good
      PROVE  s \in good
  <2>1. CASE s = {}
    <3> HIDE DEF SumW, SumV, SumU
    <3> QED  BY <1>1, <1>2, <1>3, <2>1
  <2>2. CASE s # {}
    <3>1. PICK x \in s : TRUE
      BY <2>2
    <3>2. s \ {x} \in SUBSET s /\ s \ {x} # s /\ s \ {x} \in SUBSET S /\ x \in S
      BY <3>1
    <3>3. SumU(s \ {x}) = SumW(s \ {x}) + SumV(s \ {x})
      BY <1>4, <3>2
    <3> HIDE DEF SumW, SumV, SumU
    <3>4. /\ SumW(s) = w[x] + SumW(s \ {x}) /\ SumW(s \ {x}) \in Nat
          /\ SumV(s) = v[x] + SumV(s \ {x}) /\ SumV(s \ {x}) \in Nat
          /\ SumU(s) = u[x] + SumU(s \ {x}) /\ SumU(s \ {x}) \in Nat
      BY <1>1, <1>2, <1>3, <3>2
    <3>5. w[x] \in Nat /\ v[x] \in Nat /\ u[x] = w[x] + v[x]
      BY <3>2
    <3>6. SumU(s) = SumW(s) + SumV(s)
      BY <3>3, <3>4, <3>5
    <3> QED  BY <3>6
  <2> QED  BY <2>1, <2>2
<1>5. SUBSET S \subseteq good
  <2> HIDE DEF good
  <2> QED  BY <1>4, SubsetInduction
<1>6. Part(w, S) = w /\ Part(v, S) = v /\ Part(u, S) = u
  BY DEF Part
<1> QED  BY <1>5, <1>6

-----------------------------------------------------------------------------
(* Sorting by ranks. *)

(* R, a set of pairs, orders S strictly and totally. *)
Orders(R, S) ==
  /\ \A x \in S : <<x, x>> \notin R
  /\ \A x, y \in S : x # y => <<x, y>> \in R \/ <<y, x>> \in R
  /\ \A x, y, z \in S : <<x, y>> \in R /\ <<y, z>> \in R => <<x, z>> \in R

Below(S, R, x) == {y \in S : <<y, x>> \in R}

(* s lists the elements of S, each once, in the order of R. *)
Sorts(s, S, R) ==
  /\ Cardinality(S) \in Nat
  /\ s \in [1..Cardinality(S) -> S]
  /\ \A x \in S : \E k \in 1..Cardinality(S) : s[k] = x
  /\ \A j, k \in 1..Cardinality(S) : s[j] = s[k] => j = k
  /\ \A j, k \in 1..Cardinality(S) : j < k <=> <<s[j], s[k]>> \in R

(* Taking for place k the element with k - 1 elements before it sorts. *)
LEMMA RanksSort ==
  ASSUME NEW S, IsFiniteSet(S), NEW R, Orders(R, S), NEW s,
         s = [k \in 1..Cardinality(S) |-> CHOOSE x \in S : Cardinality(Below(S, R, x)) + 1 = k]
  PROVE  Sorts(s, S, R)
<1> DEFINE N == Cardinality(S)
           Rank(x) == Cardinality(Below(S, R, x)) + 1
           rank == [x \in S |-> Rank(x)]
<1>1. N \in Nat
  BY FS_CardinalityType
<1>2. ASSUME NEW x \in S PROVE IsFiniteSet(Below(S, R, x)) /\ Rank(x) \in 1..N
  <2>1. Below(S, R, x) \in SUBSET S /\ Below(S, R, x) # S
    BY DEF Below, Orders
  <2>2. /\ IsFiniteSet(Below(S, R, x)) /\ Cardinality(Below(S, R, x)) <= N
        /\ N # Cardinality(Below(S, R, x))
    BY <2>1, FS_Subset
  <2>3. Cardinality(Below(S, R, x)) \in Nat
    BY <2>2, FS_CardinalityType
  <2> QED  BY <1>1, <2>2, <2>3
<1>3. ASSUME NEW x \in S, NEW y \in S, <<x, y>> \in R PROVE Rank(x) < Rank(y)
  <2>1. Below(S, R, x) \in SUBSET Below(S, R, y) /\ Below(S, R, x) # Below(S, R, y)
    BY <1>3 DEF Below, Orders
  <2>2. IsFiniteSet(Below(S, R, x)) /\ IsFiniteSet(Below(S, R, y))
    BY <1>2
  <2>3. /\ Cardinality(Below(S, R, x)) <= Cardinality(Below(S, R, y))
        /\ Cardinality(Below(S, R, x)) # Cardinality(Below(S, R, y))
    BY <2>1, <2>2, FS_Subset
  <2>4. Cardinality(Below(S, R, x)) \in Nat /\ Cardinality(Below(S, R, y)) \in Nat
    BY <2>2, FS_CardinalityType
  <2> QED  BY <2>3, <2>4
<1>4. /\ rank \in [S -> 1..N]
      /\ \A x, y \in S : <<x, y>> \in R => rank[x] < rank[y]
      /\ \A x \in S : rank[x] = Rank(x)
  BY <1>2, <1>3
<1>5. s = [k \in 1..N |-> CHOOSE x \in S : rank[x] = k]
  <2>1. \A k : (CHOOSE x \in S : Cardinality(Below(S, R, x)) + 1 = k) = CHOOSE x \in S : rank[x] = k
    BY Zenon
  <2> QED  BY <2>1
<1> HIDE DEF Rank, N, rank
<1>6. \A x, y \in S : rank[x] = rank[y] => x = y
  <2> SUFFICES ASSUME NEW x \in S, NEW y \in S, x # y PROVE rank[x] # rank[y]
    OBVIOUS
  <2>1. rank[x] \in Int /\ rank[y] \in Int
    BY <1>4
  <2>2. rank[x] < rank[y] \/ rank[y] < rank[x]
    BY <1>4 DEF Orders
  <2> QED  BY <2>1, <2>2
<1>7. rank \in Injection(S, 1..N)
  BY <1>4, <1>6 DEF Injection, IsInjective
<1>8. rank \in Surjection(S, 1..N)
  <2>1. IsFiniteSet(1..N) /\ Cardinality(1..N) = N
    BY <1>1, FS_Interval
  <2>2. Cardinality(S) = Cardinality(1..N)
    BY <2>1 DEF N
  <2> QED  BY <1>7, <2>1, <2>2, FS_Injection
<1>9. \A k \in 1..N : \E x \in S : rank[x] = k
  BY <1>8 DEF Surjection
<1>10. \A k \in 1..N : s[k] \in S /\ rank[s[k]] = k
  <2> SUFFICES ASSUME NEW k \in 1..N PROVE s[k] \in S /\ rank[s[k]] = k
    OBVIOUS
  <2>1. s[k] = CHOOSE x \in S : rank[x] = k
    BY <1>5
  <2>2. \E x \in S : rank[x] = k
    BY <1>9
  <2> QED  BY <2>1, <2>2, Zenon
<1>11. ASSUME NEW x \in S PROVE s[rank[x]] = x
  <2>1. rank[x] \in 1..N
    BY <1>4
  <2>2. s[rank[x]] \in S /\ rank[s[rank[x]]] = rank[x]
    BY <1>10, <2>1
  <2> QED  BY <1>6, <2>2
<1>12. ASSUME NEW j \in 1..N, NEW k \in 1..N PROVE j < k <=> <<s[j], s[k]>> \in R
  <2>1. s[j] \in S /\ s[k] \in S /\ rank[s[j]] = j /\ rank[s[k]] = k
    BY <1>10
  <2>2. ASSUME <<s[j], s[k]>> \in R PROVE j < k
    BY <1>4, <2>1, <2>2
  <2>3. ASSUME <<s[j], s[k]>> \notin R, j < k PROVE FALSE
    <3>1. s[j] # s[k]
      BY <2>1, <2>3
    <3>2. <<s[k], s[j]>> \in R
      BY <2>1, <2>3, <3>1 DEF Orders
    <3>3. k < j
      BY <1>4, <2>1, <3>2
    <3> QED  BY <1>1, <2>3, <3>3
  <2> QED  BY <2>2, <2>3
<1>13. s \in [1..N -> S]
  BY <1>5, <1>10
<1>14. \A j, k \in 1..N : s[j] = s[k] => j = k
  BY <1>10
<1>15. \A x \in S : \E k \in 1..N : s[k] = x
  BY <1>4, <1>11
<1> QED  BY <1>1, <1>12, <1>13, <1>14, <1>15, Zenon DEF Sorts, N

=============================================================================
