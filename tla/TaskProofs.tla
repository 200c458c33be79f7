------------------------------- MODULE TaskProofs ------------------------------
(***************************************************************************)
(* Tasks: how they are selected, frozen and read again by an evaluation,   *)
(* and how one runs on its container and is graded.                        *)
(*                                                                         *)
(* Selection, for all sources, sizes and rankings that tell rows apart.    *)
(* The argument.  An allocation is a set of numbered seats, its sum their  *)
(* number (Total), so that sums can be compared by inclusion and           *)
(* bijection, without induction on the keys.  By largest remainder the     *)
(* floors never exceed the total, a key has room while seats are left, and *)
(* each step gives one (QuotasFill); a proportional quota is one of its    *)
(* share's two neighbours because as many keys have a fraction as seats    *)
(* are left over (RepoQuotasFit).  The first n of a set in a strict order  *)
(* are n elements because positions number the set (PositionsNumber); so   *)
(* what is selected has the size of its quotas (PartsFilled), and the      *)
(* small tier nests because its quotas are within the large one's.         *)
(*                                                                         *)
(* Bundles.  The argument.  A script writes one kind of contents only      *)
(* (Right), so what is on disk is torn or right, whichever scripts were    *)
(* killed (BundleInv).  In the round-robin order a row stands before all   *)
(* later rows of its repository; so the first row that a tier leaves out   *)
(* bounds what the tier has of any other repository (RoundRobinIsEven).    *)
(*                                                                         *)
(* Grading, for both agents, the four kinds of tasks, every number of      *)
(* commands, of client calls the runtime never answers and of regradings,  *)
(* whatever the agent may do to the files and a test run may print.        *)
(* The argument.  A command of the agent is over before its work is        *)
(* collected, and none is started later (SandboxInv); so the collected     *)
(* patch stays what is in the container.  What is collected comes from a   *)
(* container the task still knows, and leaving the task removes that one;  *)
(* so it is gone when the verifier starts (Separate).                      *)
(***************************************************************************)
EXTENDS TaskGrading, DatasetBundles, FiniteSetTheorems, SequenceTheorems,
        WellFoundedInduction, NaturalsInduction, TLAPS

-------------------------------------------------------------------------------
(* Counting. *)

\* Every non-empty set of natural numbers has a least element.
LEMMA LeastElement ==
  ASSUME NEW S, S \subseteq Nat, S # {}
  PROVE  \E m \in S : \A n \in S : m <= n
<1> DEFINE R == {mn \in Nat \X Nat : mn[1] < mn[2]}
<1>1. IsWellFoundedOn(R, Nat) BY NatLessThanWellFounded DEF OpToRel
<1>2. PICK m \in S : \A n \in S : ~ (<<n, m>> \in R)
  <2> HIDE DEF R
  <2> QED BY <1>1, WFMin
<1>3. \A n \in S : ~ (n < m) BY <1>2
<1> QED BY <1>3

-------------------------------------------------------------------------------
(* Sums, as numbers of seats. *)

\* An allocation of natural numbers over finitely many keys.
Allocation(f, K) == IsFiniteSet(K) /\ f \in [K -> Nat]

\* The image of a finite set.
LEMMA ImageIsFinite ==
  ASSUME NEW S, IsFiniteSet(S), NEW f, DOMAIN f = S
  PROVE  IsFiniteSet({f[x] : x \in S})
<1> DEFINE T == {f[x] : x \in S}
           g == [x \in S |-> f[x]]
<1>1. g \in Surjection(S, T) BY DEF Surjection
<1> HIDE DEF g, T
<1>2. IsFiniteSet(T) BY <1>1, FS_Surjection
<1> QED BY <1>2 DEF T

\* A seat is a key and a number up to what the key has.
LEMMA SeatsAre ==
  ASSUME NEW K, NEW f, Allocation(f, K)
  PROVE  /\ \A s : s \in Seating(f) <=> \E k \in K : \E n \in 1 .. f[k] : s = <<k, n>>
         /\ IsFiniteSet(Seating(f)) /\ Total(f) \in Nat
<1>1. DOMAIN f = K BY DEF Allocation
<1>2. \A s : s \in Seating(f) <=> \E k \in K : \E n \in 1 .. f[k] : s = <<k, n>> BY <1>1 DEF Seating
<1> DEFINE row == [k \in K |-> {<<k, n>> : n \in 1 .. f[k]}]
<1>3. IsFiniteSet({row[k] : k \in K})
  <2>1. IsFiniteSet(K) /\ DOMAIN row = K BY DEF Allocation
  <2> HIDE DEF row
  <2> QED BY <2>1, ImageIsFinite
<1>4. \A k \in K : IsFiniteSet(row[k])
  <2> TAKE k \in K
  <2> DEFINE seat == [n \in 1 .. f[k] |-> <<k, n>>]
  <2>1. IsFiniteSet(1 .. f[k]) BY FS_Interval DEF Allocation
  <2>2. IsFiniteSet({seat[n] : n \in 1 .. f[k]})
    <3>1. DOMAIN seat = 1 .. f[k] OBVIOUS
    <3> HIDE DEF seat
    <3> QED BY <2>1, <3>1, ImageIsFinite
  <2> QED BY <2>2
<1>6. Seating(f) = UNION {row[k] : k \in K} BY <1>1 DEF Seating
<1> HIDE DEF row
<1>7. \A T \in {row[k] : k \in K} : IsFiniteSet(T) BY <1>4
<1>5. IsFiniteSet(Seating(f)) BY <1>3, <1>6, <1>7, FS_UNION
<1> QED BY <1>2, <1>5, FS_CardinalityType DEF Total

\* A sum grows with its terms.
LEMMA TotalGrows ==
  ASSUME NEW K, NEW f, NEW g, Allocation(f, K), Allocation(g, K), \A k \in K : f[k] <= g[k]
  PROVE  Total(f) <= Total(g)
<1>1. Seating(f) \subseteq Seating(g)
  <2> SUFFICES ASSUME NEW k \in K, NEW n \in 1 .. f[k] PROVE <<k, n>> \in Seating(g)
    BY SeatsAre
  <2>1. f[k] \in Nat /\ g[k] \in Nat /\ f[k] <= g[k] BY DEF Allocation
  <2>2. n \in 1 .. g[k] BY <2>1
  <2> QED BY <2>2, SeatsAre
<1>2. IsFiniteSet(Seating(g)) BY SeatsAre
<1> QED BY <1>1, <1>2, FS_Subset DEF Total

\* The sum of two allocations.
LEMMA TotalAdds ==
  ASSUME NEW K, NEW f, NEW g, Allocation(f, K), Allocation(g, K)
  PROVE  /\ Allocation([k \in K |-> f[k] + g[k]], K)
         /\ Total([k \in K |-> f[k] + g[k]]) = Total(f) + Total(g)
<1> DEFINE h == [k \in K |-> f[k] + g[k]]
           A == Seating(f)
           B == Seating(h) \ A
           move == [s \in Seating(g) |-> <<s[1], f[s[1]] + s[2]>>]
<1>0. \A k \in K : f[k] \in Nat /\ g[k] \in Nat /\ h[k] = f[k] + g[k] BY DEF Allocation
<1>1. Allocation(h, K) BY DEF Allocation
<1> HIDE DEF h
<1>2. A \subseteq Seating(h)
  <2> SUFFICES ASSUME NEW k \in K, NEW n \in 1 .. f[k] PROVE <<k, n>> \in Seating(h)
    BY SeatsAre
  <2>1. n \in 1 .. h[k] BY <1>0
  <2> QED BY <1>1, <2>1, SeatsAre
<1>3. B = {<<k, f[k] + n>> : k \in K, n \in Nat \ {0}} \cap B
  <2> SUFFICES ASSUME NEW s \in B PROVE \E k \in K, n \in Nat \ {0} : s = <<k, f[k] + n>>
    OBVIOUS
  <2>0. PICK k \in K : \E m \in 1 .. h[k] : s = <<k, m>> BY <1>1, SeatsAre
  <2>1. PICK m \in 1 .. h[k] : s = <<k, m>> BY <2>0
  <2>2. ~ (m \in 1 .. f[k]) BY <2>1, SeatsAre
  <2>3. m - f[k] \in Nat \ {0} /\ m = f[k] + (m - f[k]) BY <1>0, <2>1, <2>2
  <2> QED BY <2>1, <2>3
<1>4. \A k \in K, n \in Nat \ {0} : <<k, f[k] + n>> \in B <=> <<k, n>> \in Seating(g)
  <2> SUFFICES ASSUME NEW k \in K, NEW n \in Nat \ {0}
               PROVE  <<k, f[k] + n>> \in B <=> <<k, n>> \in Seating(g)
    OBVIOUS
  <2>1. <<k, f[k] + n>> \in Seating(h) <=> f[k] + n \in 1 .. h[k] BY <1>1, SeatsAre
  <2>2. <<k, f[k] + n>> \in A <=> f[k] + n \in 1 .. f[k] BY SeatsAre
  <2>3. <<k, n>> \in Seating(g) <=> n \in 1 .. g[k] BY SeatsAre
  <2>4. f[k] + n \in 1 .. h[k] <=> n \in 1 .. g[k] BY <1>0
  <2>5. ~ (f[k] + n \in 1 .. f[k]) BY <1>0
  <2> QED BY <2>1, <2>2, <2>3, <2>4, <2>5
<1>5. move \in Bijection(Seating(g), B)
  <2>1. \A s \in Seating(g) : \E k \in K, n \in Nat \ {0} : s = <<k, n>> /\ move[s] = <<k, f[k] + n>>
    <3> SUFFICES ASSUME NEW s \in Seating(g)
                 PROVE  \E k \in K, n \in Nat \ {0} : s = <<k, n>> /\ move[s] = <<k, f[k] + n>>
      OBVIOUS
    <3>0. PICK k \in K : \E n \in 1 .. g[k] : s = <<k, n>> BY SeatsAre
    <3>1. PICK n \in 1 .. g[k] : s = <<k, n>> BY <3>0
    <3>2. n \in Nat \ {0} BY <1>0
    <3> QED BY <3>1, <3>2
  <2>2. \A s \in Seating(g) : move[s] \in B BY <1>4, <2>1
  <2>3. \A s, t \in Seating(g) : move[s] = move[t] => s = t
    <3> SUFFICES ASSUME NEW s \in Seating(g), NEW t \in Seating(g), move[s] = move[t] PROVE s = t
      OBVIOUS
    <3>1. PICK k \in K, n \in Nat \ {0} : s = <<k, n>> /\ move[s] = <<k, f[k] + n>> BY <2>1
    <3>2. PICK j \in K, m \in Nat \ {0} : t = <<j, m>> /\ move[t] = <<j, f[j] + m>> BY <2>1
    <3>3. k = j /\ f[k] + n = f[j] + m BY <3>1, <3>2
    <3>4. n = m BY <1>0, <3>3
    <3> QED BY <3>1, <3>2, <3>3, <3>4
  <2>4. \A b \in B : \E s \in Seating(g) : move[s] = b
    <3> SUFFICES ASSUME NEW b \in B PROVE \E s \in Seating(g) : move[s] = b
      OBVIOUS
    <3>1. PICK k \in K, n \in Nat \ {0} : b = <<k, f[k] + n>> BY <1>3
    <3>2. <<k, n>> \in Seating(g) BY <1>4, <3>1
    <3>3. move[<<k, n>>] = <<k, f[k] + n>> BY <3>2
    <3> QED BY <3>1, <3>2, <3>3
  <2>5. move \in [Seating(g) -> B] BY <2>2
  <2> HIDE DEF move, B
  <2> QED BY <2>3, <2>4, <2>5 DEF Bijection, Injection, Surjection, IsInjective
<1>6. IsFiniteSet(Seating(g)) /\ IsFiniteSet(Seating(h)) /\ IsFiniteSet(A) BY <1>1, SeatsAre
<1>7. Cardinality(B) = Total(g) /\ IsFiniteSet(B)
  <2>1. ExistsBijection(Seating(g), B) BY <1>5 DEF ExistsBijection
  <2> HIDE DEF B
  <2> QED BY <1>6, <2>1, FS_Bijection DEF Total
<1>8. Cardinality(A \cup B) = Cardinality(A) + Cardinality(B)
  <2>1. A \cap B = {} OBVIOUS
  <2> HIDE DEF A, B
  <2>2. Cardinality(A \cup B) = Cardinality(A) + Cardinality(B) - 0 BY <1>6, <1>7, <2>1, FS_Union, FS_EmptySet
  <2>3. Cardinality(A) \in Nat /\ Cardinality(B) \in Nat BY <1>6, <1>7, FS_CardinalityType
  <2> QED BY <2>2, <2>3
<1>9. A \cup B = Seating(h) BY <1>2
<1> QED BY <1>1, <1>7, <1>8, <1>9 DEF Total, h

\* A sum of zeros, and of ones.
LEMMA TotalCounts ==
  ASSUME NEW K, IsFiniteSet(K), NEW A, A \subseteq K
  PROVE  LET f == [k \in K |-> IF k \in A THEN 1 ELSE 0]
         IN Allocation(f, K) /\ Total(f) = Cardinality(A)
<1> DEFINE f == [k \in K |-> IF k \in A THEN 1 ELSE 0]
           b == [k \in A |-> <<k, 1>>]
<1>1. Allocation(f, K) BY DEF Allocation
<1>2. \A k \in K : \A n : n \in 1 .. f[k] <=> k \in A /\ n = 1
  <2> SUFFICES ASSUME NEW k \in K, NEW n PROVE n \in 1 .. f[k] <=> k \in A /\ n = 1
    OBVIOUS
  <2>1. CASE k \in A
    <3>1. f[k] = 1 BY <2>1
    <3> QED BY <2>1, <3>1
  <2>2. CASE k \notin A
    <3>1. f[k] = 0 BY <2>2
    <3> QED BY <2>2, <3>1
  <2> QED BY <2>1, <2>2
<1> HIDE DEF f
<1>3. Seating(f) = {<<k, 1>> : k \in A} BY <1>1, <1>2, SeatsAre
<1>4. b \in Bijection(A, {<<k, 1>> : k \in A}) BY DEF Bijection, Injection, Surjection, IsInjective
<1>5. IsFiniteSet(A) BY FS_Subset
<1>6. Cardinality(Seating(f)) = Cardinality(A)
  <2>1. ExistsBijection(A, Seating(f)) BY <1>3, <1>4 DEF ExistsBijection
  <2> QED BY <1>5, <2>1, FS_Bijection
<1> QED BY <1>1, <1>6 DEF Total, f

\* A constant factor.
LEMMA TotalScales ==
  ASSUME NEW K, NEW f, Allocation(f, K), NEW c \in Nat
  PROVE  /\ Allocation([k \in K |-> c * f[k]], K)
         /\ Total([k \in K |-> c * f[k]]) = c * Total(f)
<1> DEFINE g(n) == [k \in K |-> n * f[k]]
           Fails == {n \in Nat : Total(g(n)) # n * Total(f)}
<1>0. \A n \in Nat : Allocation(g(n), K)
  <2>1. \A k \in K : f[k] \in Nat BY DEF Allocation
  <2>2. \A n \in Nat, m \in Nat : n * m \in Nat OBVIOUS
  <2> QED BY <2>1, <2>2 DEF Allocation
<1>1. ASSUME Fails # {} PROVE FALSE
  <2>1. PICK n \in Fails : \A m \in Fails : n <= m
    <3>1. Fails \subseteq Nat OBVIOUS
    <3> HIDE DEF Fails
    <3> QED BY <1>1, <3>1, LeastElement
  <2>2. n # 0
    <3>1. g(0) = [k \in K |-> IF k \in {} THEN 1 ELSE 0] BY DEF Allocation
    <3>2. Total(g(0)) = 0
      <4>1. IsFiniteSet(K) BY DEF Allocation
      <4> HIDE DEF g
      <4> QED BY <3>1, <4>1, TotalCounts, FS_EmptySet
    <3>3. 0 * Total(f) = 0 BY SeatsAre
    <3> QED BY <3>2, <3>3
  <2>3. n \in Nat /\ n - 1 \in Nat /\ n - 1 \notin Fails
    <3>1. n \in Nat OBVIOUS
    <3> HIDE DEF Fails
    <3>2. ~ (n <= n - 1) /\ n - 1 \in Nat BY <2>2, <3>1
    <3> QED BY <2>1, <3>1, <3>2
  <2>4. Total(g(n - 1)) = (n - 1) * Total(f) BY <2>3
  <2>5. g(n) = [k \in K |-> g(n - 1)[k] + f[k]]
    <3>1. \A k \in K : f[k] \in Nat BY DEF Allocation
    <3>2. \A m \in Nat : n * m = (n - 1) * m + m BY <2>3
    <3> QED BY <3>1, <3>2
  <2>6. Total(g(n)) = (n - 1) * Total(f) + Total(f)
    <3> HIDE DEF g
    <3> QED BY <1>0, <2>3, <2>4, <2>5, TotalAdds
  <2>7. n * Total(f) = (n - 1) * Total(f) + Total(f)
    <3>1. Total(f) \in Nat BY SeatsAre
    <3> QED BY <2>3, <3>1
  <2> QED BY <2>6, <2>7
<1>2. Total(g(c)) = c * Total(f) BY <1>1
<1> QED BY <1>0, <1>2

\* One seat more.
LEMMA TotalOfOneMore ==
  ASSUME NEW K, NEW f, Allocation(f, K), NEW k \in K
  PROVE  /\ Allocation([f EXCEPT ![k] = @ + 1], K)
         /\ Total([f EXCEPT ![k] = @ + 1]) = Total(f) + 1
<1> DEFINE one == [j \in K |-> IF j \in {k} THEN 1 ELSE 0]
           g == [f EXCEPT ![k] = @ + 1]
<1>1. Allocation(one, K) /\ Total(one) = 1
  <2>1. IsFiniteSet(K) /\ {k} \subseteq K BY DEF Allocation
  <2>2. Allocation(one, K) /\ Total(one) = Cardinality({k}) BY <2>1, TotalCounts
  <2> HIDE DEF one
  <2> QED BY <2>2, FS_Singleton
<1>2. g = [j \in K |-> f[j] + one[j]]
  <2>1. f \in [K -> Nat] BY DEF Allocation
  <2>2. \A j \in K : f[j] \in Nat /\ f[j] + 0 = f[j] BY <2>1
  <2> QED BY <2>1, <2>2
<1> HIDE DEF one, g
<1>3. Allocation(g, K) /\ Total(g) = Total(f) + Total(one) BY <1>1, <1>2, TotalAdds
<1> QED BY <1>1, <1>3 DEF g

\* The size of a union of disjoint sets.
LEMMA UnionSize ==
  ASSUME NEW K, IsFiniteSet(K), NEW A, DOMAIN A = K, \A k \in K : IsFiniteSet(A[k]),
         \A j, k \in K : j # k => A[j] \cap A[k] = {}
  PROVE  /\ Allocation([k \in K |-> Cardinality(A[k])], K)
         /\ IsFiniteSet(UNION {A[k] : k \in K})
         /\ Cardinality(UNION {A[k] : k \in K}) = Total([k \in K |-> Cardinality(A[k])])
<1> DEFINE f == [k \in K |-> Cardinality(A[k])]
           all == UNION {A[k] : k \in K}
           number == [k \in K |-> CHOOSE g : g \in Bijection(1 .. f[k], A[k])]
           b == [s \in Seating(f) |-> number[s[1]][s[2]]]
<1>1. Allocation(f, K)
  <2>1. \A k \in K : Cardinality(A[k]) \in Nat BY FS_CardinalityType
  <2> QED BY <2>1 DEF Allocation
<1>2. \A k \in K : number[k] \in Bijection(1 .. f[k], A[k])
  <2> TAKE k \in K
  <2>1. ExistsBijection(1 .. Cardinality(A[k]), A[k]) BY FS_CardinalityType
  <2>2. \E g : g \in Bijection(1 .. f[k], A[k]) BY <2>1 DEF ExistsBijection
  <2> QED BY <2>2
<1>3. \A k \in K : \A a : a \in A[k] => a \in all OBVIOUS
<1>4. \A a \in all : \E k \in K : a \in A[k] OBVIOUS
<1> HIDE DEF f, number, all
<1>5. \A s \in Seating(f) : \E k \in K : \E n \in 1 .. f[k] : s = <<k, n>> /\ b[s] = number[k][n] /\ b[s] \in A[k]
  <2> SUFFICES ASSUME NEW s \in Seating(f)
               PROVE  \E k \in K : \E n \in 1 .. f[k] : s = <<k, n>> /\ b[s] = number[k][n] /\ b[s] \in A[k]
    OBVIOUS
  <2>0. PICK k \in K : \E n \in 1 .. f[k] : s = <<k, n>> BY <1>1, SeatsAre
  <2>1. PICK n \in 1 .. f[k] : s = <<k, n>> BY <2>0
  <2>2. number[k] \in [1 .. f[k] -> A[k]] BY <1>2 DEF Bijection, Injection
  <2> QED BY <2>1, <2>2
<1>6. \A s, t \in Seating(f) : b[s] = b[t] => s = t
  <2> SUFFICES ASSUME NEW s \in Seating(f), NEW t \in Seating(f), b[s] = b[t] PROVE s = t
    OBVIOUS
  <2> HIDE DEF b
  <2>0. PICK k \in K : \E n \in 1 .. f[k] : s = <<k, n>> /\ b[s] = number[k][n] /\ b[s] \in A[k] BY <1>5
  <2>1. PICK n \in 1 .. f[k] : s = <<k, n>> /\ b[s] = number[k][n] /\ b[s] \in A[k] BY <2>0
  <2>2. PICK j \in K : \E m \in 1 .. f[j] : t = <<j, m>> /\ b[t] = number[j][m] /\ b[t] \in A[j] BY <1>5
  <2>3. PICK m \in 1 .. f[j] : t = <<j, m>> /\ b[t] = number[j][m] /\ b[t] \in A[j] BY <2>2
  <2>4. j = k BY <2>1, <2>3
  <2>5. n = m
    <3>1. number[k] \in Injection(1 .. f[k], A[k]) BY <1>2 DEF Bijection
    <3>2. number[k][n] = number[k][m] BY <2>1, <2>3, <2>4
    <3> QED BY <2>1, <2>3, <2>4, <3>1, <3>2 DEF Injection, IsInjective
  <2> QED BY <2>1, <2>3, <2>4, <2>5
<1>7. \A a \in all : \E s \in Seating(f) : b[s] = a
  <2> SUFFICES ASSUME NEW a \in all PROVE \E s \in Seating(f) : b[s] = a
    OBVIOUS
  <2>1. PICK k \in K : a \in A[k] BY <1>4
  <2>2. PICK n \in 1 .. f[k] : number[k][n] = a
    <3>1. number[k] \in Surjection(1 .. f[k], A[k]) BY <1>2 DEF Bijection
    <3> QED BY <2>1, <3>1 DEF Surjection
  <2>3. <<k, n>> \in Seating(f) BY <1>1, SeatsAre
  <2>4. b[<<k, n>>] = a BY <2>2, <2>3
  <2> QED BY <2>3, <2>4
<1>8. b \in [Seating(f) -> all] BY <1>3, <1>5
<1> HIDE DEF b
<1>9. b \in Bijection(Seating(f), all)
  BY <1>6, <1>7, <1>8 DEF Bijection, Injection, Surjection, IsInjective
<1>10. IsFiniteSet(Seating(f)) BY <1>1, SeatsAre
<1>11. IsFiniteSet(all) /\ Cardinality(all) = Cardinality(Seating(f))
  <2>1. ExistsBijection(Seating(f), all) BY <1>9 DEF ExistsBijection
  <2> QED BY <1>10, <2>1, FS_Bijection
<1> QED BY <1>1, <1>11 DEF Total, f, all

-------------------------------------------------------------------------------
(* The first n of a set in a strict total order. *)

StrictOrder(L, S) ==
  /\ \A x \in S : <<x, x>> \notin L
  /\ \A x, y, z \in S : <<x, y>> \in L /\ <<y, z>> \in L => <<x, z>> \in L
  /\ \A x, y \in S : x = y \/ <<x, y>> \in L \/ <<y, x>> \in L

Before(L, S, x) == {y \in S : <<y, x>> \in L}

\* Positions in a total order number the elements from 0 on.
LEMMA PositionsNumber ==
  ASSUME NEW S, IsFiniteSet(S), NEW L, StrictOrder(L, S)
  PROVE  [x \in S |-> Cardinality(Before(L, S, x))] \in Bijection(S, 0 .. Cardinality(S) - 1)
<1> DEFINE off == [x \in S |-> Cardinality(Before(L, S, x))]
           n == Cardinality(S)
<1>0. n \in Nat BY FS_CardinalityType
<1>1. \A x \in S : IsFiniteSet(Before(L, S, x)) /\ off[x] \in Nat
  <2> TAKE x \in S
  <2>1. IsFiniteSet(Before(L, S, x)) BY FS_Subset DEF Before
  <2>2. Cardinality(Before(L, S, x)) \in Nat BY <2>1, FS_CardinalityType
  <2> QED BY <2>1, <2>2
<1>2. \A x, y \in S : <<x, y>> \in L => off[x] < off[y]
  <2> SUFFICES ASSUME NEW x \in S, NEW y \in S, <<x, y>> \in L PROVE off[x] < off[y]
    OBVIOUS
  <2>1. Before(L, S, x) \subseteq Before(L, S, y) BY DEF Before, StrictOrder
  <2>2. x \in Before(L, S, y) /\ x \notin Before(L, S, x) BY DEF Before, StrictOrder
  <2>3. /\ Cardinality(Before(L, S, x)) <= Cardinality(Before(L, S, y))
        /\ Cardinality(Before(L, S, y)) = Cardinality(Before(L, S, x)) => Before(L, S, y) = Before(L, S, x)
    BY <1>1, <2>1, FS_Subset
  <2>4. Cardinality(Before(L, S, x)) # Cardinality(Before(L, S, y)) BY <2>2, <2>3
  <2>5. off[x] \in Nat /\ off[y] \in Nat BY <1>1
  <2> QED BY <2>3, <2>4, <2>5
<1>3. \A x \in S : off[x] < n
  <2> TAKE x \in S
  <2>1. Before(L, S, x) \subseteq S /\ x \notin Before(L, S, x) BY DEF Before, StrictOrder
  <2>2. Cardinality(Before(L, S, x)) <= n /\ (n = Cardinality(Before(L, S, x)) => S = Before(L, S, x))
    BY <2>1, FS_Subset
  <2>3. Cardinality(Before(L, S, x)) # n BY <2>1, <2>2
  <2>4. off[x] \in Nat BY <1>1
  <2> QED BY <1>0, <2>2, <2>3, <2>4
<1>4. off \in [S -> 0 .. n - 1]
  <2>1. \A x \in S : off[x] \in 0 .. n - 1 BY <1>0, <1>1, <1>3
  <2>2. off = [x \in S |-> off[x]] OBVIOUS
  <2> HIDE DEF off, n
  <2> QED BY <2>1, <2>2
<1> HIDE DEF off
<1>5. \A x, y \in S : off[x] = off[y] => x = y
  <2> SUFFICES ASSUME NEW x \in S, NEW y \in S, off[x] = off[y], x # y PROVE FALSE
    OBVIOUS
  <2>1. <<x, y>> \in L \/ <<y, x>> \in L BY DEF StrictOrder
  <2>2. off[x] \in Nat /\ off[y] \in Nat BY <1>1
  <2>3. off[x] < off[y] \/ off[y] < off[x] BY <1>2, <2>1
  <2> QED BY <2>2, <2>3
<1>6. off \in Injection(S, 0 .. n - 1) BY <1>4, <1>5 DEF Injection, IsInjective
<1>7. IsFiniteSet(0 .. n - 1) /\ Cardinality(0 .. n - 1) = n
  <2>1. n - 1 \in Int /\ 0 \in Int BY <1>0
  <2>2. IsFiniteSet(0 .. n - 1) /\ Cardinality(0 .. n - 1) = IF 0 > n - 1 THEN 0 ELSE n - 1 - 0 + 1
    BY <2>1, FS_Interval
  <2> QED BY <1>0, <2>2
<1>8. off \in Surjection(S, 0 .. n - 1) BY <1>6, <1>7, FS_Injection
<1> QED BY <1>6, <1>8 DEF Bijection, off

\* As many elements come first as are asked for, if there are as many.
LEMMA PrefixSize ==
  ASSUME NEW S, IsFiniteSet(S), NEW L, StrictOrder(L, S), NEW n \in Nat
  PROVE  /\ IsFiniteSet({x \in S : Cardinality(Before(L, S, x)) < n})
         /\ Cardinality({x \in S : Cardinality(Before(L, S, x)) < n}) = Least(n, Cardinality(S))
<1> DEFINE off == [x \in S |-> Cardinality(Before(L, S, x))]
           c == Cardinality(S)
           T == {x \in S : off[x] < n}
           m == Least(n, c)
           g == [x \in T |-> off[x]]
<1>1. off \in Bijection(S, 0 .. c - 1) BY PositionsNumber
<1>2. c \in Nat BY FS_CardinalityType
<1>3. m \in Nat /\ \A i \in 0 .. m - 1 : i \in 0 .. c - 1 /\ i < n BY <1>2 DEF Least
<1>4. \A i \in 0 .. c - 1 : i < n => i \in 0 .. m - 1 BY <1>2 DEF Least
<1>5. T = {x \in S : Cardinality(Before(L, S, x)) < n} OBVIOUS
<1> HIDE DEF off, m, c
<1>6. g \in Bijection(T, 0 .. m - 1)
  <2>1. off \in [S -> 0 .. c - 1] /\ (\A x, y \in S : off[x] = off[y] => x = y)
        /\ \A i \in 0 .. c - 1 : \E x \in S : off[x] = i
    BY <1>1 DEF Bijection, Injection, Surjection, IsInjective
  <2>2. \A x \in T : x \in S /\ g[x] = off[x] /\ off[x] \in 0 .. m - 1 BY <1>4, <2>1
  <2>3. \A i \in 0 .. m - 1 : \E x \in T : g[x] = i
    <3> TAKE i \in 0 .. m - 1
    <3>1. i \in 0 .. c - 1 /\ i < n BY <1>3
    <3>2. PICK x \in S : off[x] = i BY <2>1, <3>1
    <3>3. x \in T /\ g[x] = i BY <3>1, <3>2
    <3> QED BY <3>3
  <2>4. g \in [T -> 0 .. m - 1] BY <2>2
  <2> HIDE DEF g, T
  <2> QED BY <2>1, <2>2, <2>3, <2>4 DEF Bijection, Injection, Surjection, IsInjective
<1>7. IsFiniteSet(T) BY FS_Subset
<1>8. Cardinality(0 .. m - 1) = m
  <2>1. m - 1 \in Int /\ 0 \in Int BY <1>3
  <2>2. Cardinality(0 .. m - 1) = IF 0 > m - 1 THEN 0 ELSE m - 1 - 0 + 1 BY <2>1, FS_Interval
  <2> QED BY <1>3, <2>2
<1> HIDE DEF T, g
<1>9. Cardinality(0 .. m - 1) = Cardinality(T)
  <2>1. ExistsBijection(T, 0 .. m - 1) BY <1>6 DEF ExistsBijection
  <2> QED BY <1>7, <2>1, FS_Bijection
<1> QED BY <1>5, <1>7, <1>8, <1>9 DEF m, c

\* Rows that a label tells apart.
Distinct(rows, label) ==
  \A q, r \in rows : Rank(label, q) \in Int /\ (Rank(label, q) = Rank(label, r) => q = r)

\* The first n rows are n rows, and more rows come first when more are asked for.
LEMMA FirstOfSize ==
  ASSUME NEW rows, IsFiniteSet(rows), NEW label, Distinct(rows, label), NEW n \in Nat, n <= Cardinality(rows)
  PROVE  /\ FirstOf(rows, n, label) \subseteq rows /\ IsFiniteSet(FirstOf(rows, n, label))
         /\ Cardinality(FirstOf(rows, n, label)) = n
<1> DEFINE L == {p \in rows \X rows : Rank(label, p[1]) < Rank(label, p[2])}
<1>1. \A q, r \in rows : <<q, r>> \in L <=> Rank(label, q) < Rank(label, r) OBVIOUS
<1>2. \A r \in rows : Before(L, rows, r) = {q \in rows : Rank(label, q) < Rank(label, r)}
  BY <1>1 DEF Before
<1> HIDE DEF L
<1>3. StrictOrder(L, rows) BY <1>1 DEF StrictOrder, Distinct
<1>4. FirstOf(rows, n, label) = {r \in rows : Cardinality(Before(L, rows, r)) < n}
  BY <1>2 DEF FirstOf
<1>5. Cardinality(FirstOf(rows, n, label)) = Least(n, Cardinality(rows)) /\ IsFiniteSet(FirstOf(rows, n, label))
  BY <1>3, <1>4, PrefixSize
<1>6. Cardinality(rows) \in Nat BY FS_CardinalityType
<1> QED BY <1>4, <1>5, <1>6 DEF Least

\* More rows come first when more are asked for.
LEMMA FirstOfGrows ==
  ASSUME NEW rows, IsFiniteSet(rows), NEW label, NEW n \in Nat, NEW m \in Nat, n <= m
  PROVE  FirstOf(rows, n, label) \subseteq FirstOf(rows, m, label)
<1>1. \A r \in rows : Cardinality({q \in rows : Rank(label, q) < Rank(label, r)}) \in Nat
  <2> TAKE r \in rows
  <2>1. IsFiniteSet({q \in rows : Rank(label, q) < Rank(label, r)}) BY FS_Subset
  <2> QED BY <2>1, FS_CardinalityType
<1> QED BY <1>1 DEF FirstOf

\* A set that is not empty has a first element.
LEMMA FirstExists ==
  ASSUME NEW S, IsFiniteSet(S), S # {}, NEW L, StrictOrder(L, S)
  PROVE  \E x \in S : \A y \in S : x = y \/ <<x, y>> \in L
<1> DEFINE off == [x \in S |-> Cardinality(Before(L, S, x))]
<1>1. off \in Surjection(S, 0 .. Cardinality(S) - 1) BY PositionsNumber DEF Bijection
<1>2. Cardinality(S) \in Nat /\ Cardinality(S) # 0 BY FS_CardinalityType, FS_EmptySet
<1>3. 0 \in 0 .. Cardinality(S) - 1 BY <1>2
<1>4. PICK x \in S : off[x] = 0
  <2> HIDE DEF off
  <2> QED BY <1>1, <1>3 DEF Surjection
<1>5. Cardinality(Before(L, S, x)) = 0 BY <1>4
<1>6. Before(L, S, x) = {}
  <2>1. IsFiniteSet(Before(L, S, x)) BY FS_Subset DEF Before
  <2> QED BY <1>5, <2>1, FS_EmptySet
<1>7. \A y \in S : <<y, x>> \notin L BY <1>6 DEF Before
<1> QED BY <1>7 DEF StrictOrder

-------------------------------------------------------------------------------
(* Apportionment by largest remainder. *)

\* Division rounds down.
LEMMA DivisionRoundsDown ==
  ASSUME NEW a \in Nat, NEW b \in Nat \ {0}
  PROVE  a \div b \in Nat /\ b * (a \div b) <= a /\ a < b * (a \div b) + b
OBVIOUS

\* A common factor cancels.
LEMMA FactorCancels ==
  ASSUME NEW a \in Nat, NEW b \in Nat, NEW w \in Nat \ {0}, w * a <= w * b
  PROVE  a <= b
OBVIOUS

\* A common factor keeps an order.
LEMMA FactorKeeps ==
  ASSUME NEW a \in Nat, NEW b \in Nat, NEW w \in Nat, a <= b
  PROVE  w * a <= w * b
OBVIOUS

\* The keys have an order and a weight wherever there is room.
Apportions(weight, total, capacity, K) ==
  /\ K \subseteq Int /\ Allocation(weight, K) /\ Allocation(capacity, K)
  /\ \A k \in K : capacity[k] > 0 => weight[k] > 0
  /\ total \in Nat /\ total <= Total(capacity)

\* The weight of the keys that have room is a number.
LEMMA WeightIs ==
  ASSUME NEW weight, NEW total, NEW capacity, NEW K, Apportions(weight, total, capacity, K)
  PROVE  LET u == [k \in K |-> IF capacity[k] > 0 THEN weight[k] ELSE 0]
         IN /\ Allocation(u, K) /\ PositiveWeight(weight, capacity) = Total(u) /\ Total(u) \in Nat
            /\ (\E k \in K : capacity[k] > 0) => Total(u) > 0
<1> DEFINE u == [k \in K |-> IF capacity[k] > 0 THEN weight[k] ELSE 0]
           P == {k \in K : capacity[k] > 0}
           p == [k \in P |-> weight[k]]
<1>0. /\ DOMAIN weight = K /\ IsFiniteSet(K) /\ K \subseteq Int
      /\ \A k \in K : weight[k] \in Nat /\ capacity[k] \in Nat /\ (capacity[k] > 0 => weight[k] > 0)
  BY DEF Apportions, Allocation
<1>1. Allocation(u, K) BY <1>0 DEF Allocation
<1>2. Allocation(p, P)
  <2>1. IsFiniteSet(P) BY <1>0, FS_Subset
  <2> QED BY <1>0, <2>1 DEF Allocation
<1>3. /\ \A k \in P : k \in K /\ u[k] = p[k]
      /\ \A k \in K : k \notin P => 1 .. u[k] = {}
  BY <1>0
<1>4. PositiveWeight(weight, capacity) = Total(p) BY <1>0 DEF PositiveWeight
<1>5. \A k \in K : capacity[k] > 0 => u[k] >= 1 BY <1>0
<1> HIDE DEF u, p, P
<1>6. Seating(u) = Seating(p)
  <2>1. \A s : s \in Seating(u) <=> \E k \in K : \E n \in 1 .. u[k] : s = <<k, n>> BY <1>1, SeatsAre
  <2>2. \A s : s \in Seating(p) <=> \E k \in P : \E n \in 1 .. p[k] : s = <<k, n>> BY <1>2, SeatsAre
  <2>3. \A s : s \in Seating(u) <=> s \in Seating(p) BY <1>3, <2>1, <2>2
  <2> QED BY <2>3
<1>7. Total(u) = Total(p) /\ Total(u) \in Nat BY <1>1, <1>6, SeatsAre DEF Total
<1>8. ASSUME NEW k \in K, capacity[k] > 0 PROVE Total(u) > 0
  <2>1. u[k] \in Nat /\ u[k] >= 1 BY <1>1, <1>5, <1>8 DEF Allocation
  <2>2. 1 \in 1 .. u[k] BY <2>1
  <2>3. <<k, 1>> \in Seating(u) BY <1>1, <2>2, SeatsAre
  <2>4. IsFiniteSet(Seating(u)) BY <1>1, SeatsAre
  <2>5. Total(u) # 0 BY <2>3, <2>4, FS_EmptySet DEF Total
  <2> QED BY <1>7, <2>5
<1> QED BY <1>1, <1>4, <1>7, <1>8 DEF u

\* The floors fit, and leave something over.
LEMMA FloorsFit ==
  ASSUME NEW weight, NEW total, NEW capacity, NEW K, Apportions(weight, total, capacity, K)
  PROVE  LET floors == Floors(weight, total, capacity)
         IN Allocation(floors, K) /\ (\A k \in K : floors[k] <= capacity[k]) /\ Total(floors) <= total
<1> DEFINE u == [k \in K |-> IF capacity[k] > 0 THEN weight[k] ELSE 0]
           W == PositiveWeight(weight, capacity)
           floors == Floors(weight, total, capacity)
<1>0. /\ DOMAIN weight = K /\ IsFiniteSet(K) /\ total \in Nat
      /\ \A k \in K : weight[k] \in Nat /\ capacity[k] \in Nat
  BY DEF Apportions, Allocation
<1>1. Allocation(u, K) /\ W = Total(u) /\ W \in Nat /\ ((\E k \in K : capacity[k] > 0) => W > 0)
  BY WeightIs
<1>2. \A k \in K : u[k] = IF capacity[k] > 0 THEN weight[k] ELSE 0 OBVIOUS
<1> HIDE DEF u, W
<1>3. ASSUME NEW k \in K
      PROVE  /\ floors[k] \in Nat /\ floors[k] <= capacity[k] /\ W * floors[k] <= total * u[k]
             /\ capacity[k] = 0 => floors[k] = 0
  <2>1. CASE capacity[k] > 0
    <3> DEFINE a == total * weight[k]
    <3>1. a \in Nat /\ W \in Nat \ {0} BY <1>0, <1>1, <2>1
    <3>2. floors[k] = Least(capacity[k], a \div W) BY <1>0, <2>1 DEF Floors, Share, W
    <3> HIDE DEF a, floors
    <3>3. a \div W \in Nat /\ W * (a \div W) <= a BY <3>1, DivisionRoundsDown
    <3>4. floors[k] \in Nat /\ floors[k] <= capacity[k] /\ floors[k] <= a \div W
      BY <1>0, <3>2, <3>3 DEF Least
    <3>5. W * floors[k] <= W * (a \div W) BY <3>1, <3>3, <3>4, FactorKeeps
    <3>6. W * floors[k] \in Nat /\ W * (a \div W) \in Nat BY <3>1, <3>3, <3>4
    <3>7. W * floors[k] <= a BY <3>1, <3>3, <3>5, <3>6
    <3> QED BY <1>0, <1>2, <2>1, <3>4, <3>7 DEF a
  <2>2. CASE ~ (capacity[k] > 0)
    <3>1. capacity[k] = 0 BY <1>0, <2>2
    <3>2. floors[k] = 0 /\ u[k] = 0 BY <1>0, <1>2, <2>2 DEF Floors
    <3>3. W * 0 = 0 /\ total * 0 = 0 BY <1>0, <1>1
    <3> QED BY <3>1, <3>2, <3>3
  <2> QED BY <2>1, <2>2
<1>4. floors = [k \in K |-> floors[k]] BY <1>0 DEF Floors
<1> HIDE DEF floors
<1>5. Allocation(floors, K) BY <1>0, <1>3, <1>4 DEF Allocation
<1>6. Total(floors) \in Nat BY <1>5, SeatsAre
<1>7. CASE \E k \in K : capacity[k] > 0
  <2> DEFINE f == [k \in K |-> W * floors[k]]
             g == [k \in K |-> total * u[k]]
  <2>1. Allocation(f, K) /\ Total(f) = W * Total(floors) BY <1>1, <1>5, TotalScales
  <2>2. Allocation(g, K) /\ Total(g) = total * W BY <1>0, <1>1, TotalScales
  <2>3. \A k \in K : f[k] <= g[k] BY <1>3
  <2> HIDE DEF f, g
  <2>4. Total(f) <= Total(g) BY <2>1, <2>2, <2>3, TotalGrows
  <2>5. W * Total(floors) <= W * total BY <1>0, <1>1, <2>1, <2>2, <2>4
  <2>6. W \in Nat \ {0} BY <1>1, <1>7
  <2>7. Total(floors) <= total BY <1>0, <1>6, <2>5, <2>6, FactorCancels
  <2> QED BY <1>3, <1>5, <2>7 DEF floors
<1>8. CASE ~ \E k \in K : capacity[k] > 0
  <2>1. \A k \in K : floors[k] = 0 BY <1>0, <1>3, <1>8
  <2>2. floors = [k \in K |-> IF k \in {} THEN 1 ELSE 0] BY <1>4, <2>1
  <2>3. Total(floors) = 0 BY <1>0, <2>2, TotalCounts, FS_EmptySet
  <2> QED BY <1>0, <1>3, <1>5, <2>3 DEF floors
<1> QED BY <1>7, <1>8

\* While seats are left, one key can take the next.
LEMMA SelectedHasRoom ==
  ASSUME NEW weight, NEW total, NEW capacity, NEW K, Apportions(weight, total, capacity, K),
         NEW quotas, Allocation(quotas, K), \E k \in K : quotas[k] < capacity[k]
  PROVE  LET k == Selected(weight, total, capacity, quotas)
         IN k \in K /\ quotas[k] < capacity[k]
<1> DEFINE W == PositiveWeight(weight, capacity)
           D(k) == Share(weight, total, capacity, k) - quotas[k] * W
           C == {k \in K : quotas[k] < capacity[k]}
           L == {p \in C \X C : D(p[1]) > D(p[2]) \/ (D(p[1]) = D(p[2]) /\ p[1] < p[2])}
<1>0. /\ DOMAIN weight = K /\ IsFiniteSet(K) /\ total \in Nat /\ K \subseteq Int
      /\ \A k \in K : weight[k] \in Nat /\ capacity[k] \in Nat /\ quotas[k] \in Nat
  BY DEF Apportions, Allocation
<1>1. W \in Nat BY WeightIs
<1>2. \A k \in K : D(k) \in Int
  <2> TAKE k \in K
  <2>1. Share(weight, total, capacity, k) \in Int BY <1>0 DEF Share
  <2>2. quotas[k] * W \in Int BY <1>0, <1>1
  <2> QED BY <2>1, <2>2
<1>3. Selected(weight, total, capacity, quotas) =
        CHOOSE k \in C : \A j \in C : D(k) > D(j) \/ (D(k) = D(j) /\ k <= j)
  BY <1>0 DEF Selected
<1>4. IsFiniteSet(C) /\ C # {} /\ C \subseteq K BY <1>0, FS_Subset
<1>5. \A j, k \in C : <<j, k>> \in L <=> D(j) > D(k) \/ (D(j) = D(k) /\ j < k) OBVIOUS
<1> HIDE DEF D, L
<1>6. StrictOrder(L, C)
  <2>1. \A k \in C : D(k) \in Int /\ k \in Int BY <1>0, <1>2, <1>4
  <2> HIDE DEF C
  <2> QED BY <1>5, <2>1 DEF StrictOrder
<1>7. PICK k \in C : \A j \in C : k = j \/ <<k, j>> \in L
  <2> HIDE DEF C
  <2> QED BY <1>4, <1>6, FirstExists
<1>8. \A j \in C : D(k) > D(j) \/ (D(k) = D(j) /\ k <= j)
  <2> TAKE j \in C
  <2>1. D(j) \in Int /\ j \in Int BY <1>0, <1>2, <1>4
  <2> HIDE DEF C
  <2>2. CASE k = j BY <2>1, <2>2
  <2>3. CASE <<k, j>> \in L
    <3>1. D(k) > D(j) \/ (D(k) = D(j) /\ k < j) BY <1>5, <2>3
    <3>2. k \in Int BY <1>0, <1>4 DEF C
    <3> QED BY <2>1, <3>1, <3>2
  <2> QED BY <1>7, <2>2, <2>3
<1>9. Selected(weight, total, capacity, quotas) \in C
  <2> HIDE DEF C
  <2> QED BY <1>3, <1>7, <1>8
<1> QED BY <1>9

\* An allocation below its capacity leaves room somewhere.
LEMMA RoomIsLeft ==
  ASSUME NEW K, NEW f, NEW g, Allocation(f, K), Allocation(g, K), Total(f) < Total(g)
  PROVE  \E k \in K : f[k] < g[k]
<1> SUFFICES ASSUME \A k \in K : ~ (f[k] < g[k]) PROVE FALSE
  OBVIOUS
<1>1. \A k \in K : g[k] <= f[k] BY DEF Allocation
<1>2. Total(g) <= Total(f) BY <1>1, TotalGrows
<1>3. Total(f) \in Nat /\ Total(g) \in Nat BY SeatsAre
<1> QED BY <1>2, <1>3

\* One more seat, and the quotas after each seat.
OneMore(weight, total, capacity, quotas) ==
  [quotas EXCEPT ![Selected(weight, total, capacity, quotas)] = @ + 1]
Seated(f, weight, total, capacity, N) ==
  f = [n \in N |-> IF n = 0 THEN Floors(weight, total, capacity)
                   ELSE OneMore(weight, total, capacity, f[n - 1])]

\* The seats can be given one after the other.
LEMMA SeatingExists ==
  ASSUME NEW weight, NEW total, NEW capacity
  PROVE  \E f : Seated(f, weight, total, capacity, Nat)
<1> DEFINE first == Floors(weight, total, capacity)
           More(q) == OneMore(weight, total, capacity, q)
           Upto(f, n) == f = [i \in 0 .. n |-> IF i = 0 THEN first ELSE More(f[i - 1])]
<1>0. \A f, N : Seated(f, weight, total, capacity, N) <=> f = [i \in N |-> IF i = 0 THEN first ELSE More(f[i - 1])]
  BY DEF Seated
<1> HIDE DEF first, More
<1>1. \A n \in Nat : \E f : Upto(f, n)
  <2> DEFINE Fails == {n \in Nat : ~ \E f : Upto(f, n)}
  <2> SUFFICES ASSUME Fails # {} PROVE FALSE
    OBVIOUS
  <2>1. PICK n \in Fails : \A m \in Fails : n <= m
    <3>1. Fails \subseteq Nat OBVIOUS
    <3> HIDE DEF Fails
    <3> QED BY <3>1, LeastElement
  <2>2. n \in Nat /\ ~ \E f : Upto(f, n) OBVIOUS
  <2>3. CASE n = 0
    <3>1. Upto([i \in 0 .. 0 |-> first], 0) OBVIOUS
    <3> QED BY <2>2, <2>3, <3>1
  <2>4. CASE n # 0
    <3>1. n - 1 \in Nat /\ ~ (n <= n - 1) BY <2>2, <2>4
    <3>2. n - 1 \notin Fails
      <4> HIDE DEF Fails
      <4> QED BY <2>1, <3>1
    <3>3. PICK f : Upto(f, n - 1) BY <3>1, <3>2
    <3> DEFINE g == [i \in 0 .. n |-> IF i = n THEN More(f[n - 1]) ELSE f[i]]
    <3>4. ASSUME NEW i \in 0 .. n PROVE g[i] = IF i = 0 THEN first ELSE More(g[i - 1])
      <4>1. CASE i = n BY <2>2, <2>4, <4>1
      <4>2. CASE i # n
        <5>1. i \in 0 .. n - 1 BY <2>2, <4>2
        <5>2. f[i] = IF i = 0 THEN first ELSE More(f[i - 1]) BY <3>3, <5>1
        <5>3. i # 0 => i - 1 \in 0 .. n /\ i - 1 # n BY <2>2, <5>1
        <5> QED BY <4>2, <5>2, <5>3
      <4> QED BY <4>1, <4>2
    <3>5. g = [i \in 0 .. n |-> g[i]] OBVIOUS
    <3> HIDE DEF g
    <3>6. Upto(g, n) BY <3>4, <3>5
    <3> QED BY <2>2, <3>6
  <2> QED BY <2>3, <2>4
<1>2. ASSUME NEW n \in Nat, NEW m \in Nat, NEW f, NEW g, Upto(f, n), Upto(g, m), n <= m
      PROVE  f[n] = g[n]
  <2> DEFINE Differ == {i \in 0 .. n : f[i] # g[i]}
  <2> SUFFICES ASSUME Differ # {} PROVE FALSE
    OBVIOUS
  <2>1. PICK i \in Differ : \A j \in Differ : i <= j
    <3>1. Differ \subseteq Nat OBVIOUS
    <3> HIDE DEF Differ
    <3> QED BY <3>1, LeastElement
  <2>2. i \in 0 .. n /\ i \in 0 .. m /\ f[i] # g[i] BY <1>2
  <2>3. f[i] = IF i = 0 THEN first ELSE More(f[i - 1]) BY <1>2, <2>2
  <2>4. g[i] = IF i = 0 THEN first ELSE More(g[i - 1]) BY <1>2, <2>2
  <2>5. i # 0 BY <2>2, <2>3, <2>4
  <2>6. i - 1 \in 0 .. n /\ ~ (i <= i - 1) BY <2>2, <2>5
  <2>7. i - 1 \notin Differ
    <3> HIDE DEF Differ
    <3> QED BY <2>1, <2>6
  <2>8. f[i - 1] = g[i - 1] BY <2>6, <2>7
  <2> QED BY <2>2, <2>3, <2>4, <2>5, <2>8
<1> DEFINE part(n) == CHOOSE f : Upto(f, n)
           all == [n \in Nat |-> part(n)[n]]
<1>3. \A n \in Nat : Upto(part(n), n) BY <1>1
<1> HIDE DEF part
<1>4. ASSUME NEW n \in Nat PROVE all[n] = IF n = 0 THEN first ELSE More(all[n - 1])
  <2>1. n \in 0 .. n OBVIOUS
  <2>2. part(n) = [i \in 0 .. n |-> IF i = 0 THEN first ELSE More(part(n)[i - 1])] BY <1>3
  <2>3. part(n)[n] = IF n = 0 THEN first ELSE More(part(n)[n - 1]) BY <2>1, <2>2
  <2>4. n # 0 => part(n)[n - 1] = part(n - 1)[n - 1]
    <3> SUFFICES ASSUME n # 0 PROVE part(n)[n - 1] = part(n - 1)[n - 1]
      OBVIOUS
    <3>1. n - 1 \in Nat /\ n - 1 <= n OBVIOUS
    <3>2. Upto(part(n - 1), n - 1) /\ Upto(part(n), n) BY <1>3, <3>1
    <3> HIDE DEF Upto
    <3> QED BY <1>2, <3>1, <3>2
  <2>5. n # 0 => n - 1 \in Nat OBVIOUS
  <2> QED BY <2>3, <2>4, <2>5
<1>5. all = [n \in Nat |-> all[n]] OBVIOUS
<1> HIDE DEF all, More, first, Upto
<1>6. all = [i \in Nat |-> IF i = 0 THEN first ELSE More(all[i - 1])] BY <1>4, <1>5
<1>7. Seated(all, weight, total, capacity, Nat) BY <1>0, <1>6
<1> QED BY <1>7

\* Largest remainder: every seat is given, within the capacities
\* (dataset_selection.py:28).
THEOREM QuotasFill ==
  ASSUME NEW weight, NEW total, NEW capacity, NEW K, Apportions(weight, total, capacity, K)
  PROVE  LET quotas == LargestRemainder(weight, total, capacity)
         IN /\ Allocation(quotas, K) /\ \A k \in K : quotas[k] <= capacity[k]
            /\ Total(quotas) = total
<1> DEFINE floors == Floors(weight, total, capacity)
           seats == CHOOSE f : Seated(f, weight, total, capacity, Nat)
           left == total - Total(floors)
           Good(n) == /\ Allocation(seats[n], K) /\ \A k \in K : seats[n][k] <= capacity[k]
                      /\ Total(seats[n]) = Total(floors) + n
<1>1. LargestRemainder(weight, total, capacity) = seats[left]
  BY DEF LargestRemainder, Seated, OneMore
<1>2. Seated(seats, weight, total, capacity, Nat) BY SeatingExists
<1> HIDE DEF seats
<1>3. /\ seats[0] = floors
      /\ \A n \in Nat : n # 0 => seats[n] = OneMore(weight, total, capacity, seats[n - 1])
  <2>1. \A n \in Nat : seats[n] = IF n = 0 THEN floors ELSE OneMore(weight, total, capacity, seats[n - 1])
    <3> HIDE DEF floors
    <3> QED BY <1>2 DEF Seated, floors
  <2>2. 0 \in Nat OBVIOUS
  <2> HIDE DEF floors
  <2> QED BY <2>1, <2>2
<1>4. Allocation(floors, K) /\ (\A k \in K : floors[k] <= capacity[k]) /\ Total(floors) <= total
      /\ Total(floors) \in Nat
  <2>1. Allocation(floors, K) /\ (\A k \in K : floors[k] <= capacity[k]) /\ Total(floors) <= total
    BY FloorsFit
  <2> HIDE DEF floors
  <2> QED BY <2>1, SeatsAre
<1> HIDE DEF floors
<1>5. left \in Nat /\ total \in Nat /\ total <= Total(capacity) /\ Total(floors) + left = total
  BY <1>4 DEF Apportions
<1> HIDE DEF left
<1>6. \A n \in 0 .. left : Good(n)
  <2> DEFINE Fails == {n \in 0 .. left : ~ Good(n)}
  <2> SUFFICES ASSUME Fails # {} PROVE FALSE
    OBVIOUS
  <2>1. PICK n \in Fails : \A m \in Fails : n <= m
    <3>1. Fails \subseteq Nat OBVIOUS
    <3> HIDE DEF Fails
    <3> QED BY <3>1, LeastElement
  <2>2. n \in 0 .. left /\ ~ Good(n) OBVIOUS
  <2>3. n # 0
    <3>1. Good(0) BY <1>3, <1>4
    <3> HIDE DEF Good
    <3> QED BY <2>2, <3>1
  <2>4. n - 1 \in 0 .. left /\ n - 1 \in Nat /\ ~ (n <= n - 1) BY <1>5, <2>2, <2>3
  <2>5. n - 1 \notin Fails
    <3> HIDE DEF Fails
    <3> QED BY <2>1, <2>4
  <2>6. Good(n - 1)
    <3> HIDE DEF Good
    <3> QED BY <2>4, <2>5
  <2> DEFINE q == seats[n - 1]
             k == Selected(weight, total, capacity, q)
  <2>7. Allocation(q, K) /\ (\A j \in K : q[j] <= capacity[j]) /\ Total(q) = Total(floors) + (n - 1)
    BY <2>6
  <2>8. seats[n] = [q EXCEPT ![k] = @ + 1] BY <1>3, <2>2, <2>3 DEF OneMore
  <2> HIDE DEF q
  <2>9. k \in K /\ q[k] < capacity[k]
    <3>1. Allocation(capacity, K) BY DEF Apportions
    <3>2. Total(q) < Total(capacity)
      <4>1. Total(capacity) \in Nat BY <3>1, SeatsAre
      <4> QED BY <1>4, <1>5, <2>2, <2>7, <4>1
    <3>3. \E j \in K : q[j] < capacity[j] BY <2>7, <3>1, <3>2, RoomIsLeft
    <3> QED BY <2>7, <3>3, SelectedHasRoom
  <2> HIDE DEF k
  <2>10. Allocation(seats[n], K) /\ Total(seats[n]) = Total(q) + 1
    BY <2>7, <2>8, <2>9, TotalOfOneMore
  <2>11. \A j \in K : seats[n][j] <= capacity[j]
    <3>1. q \in [K -> Nat] /\ capacity \in [K -> Nat] BY <2>7 DEF Apportions, Allocation
    <3> QED BY <2>7, <2>8, <2>9, <3>1
  <2>12. Total(seats[n]) = Total(floors) + n BY <1>4, <2>2, <2>7, <2>10
  <2>13. Good(n) BY <2>10, <2>11, <2>12
  <2> HIDE DEF Good
  <2> QED BY <2>2, <2>13
<1>7. Good(left) BY <1>5, <1>6
<1> QED BY <1>1, <1>5, <1>7

-------------------------------------------------------------------------------
(* Rows by repository. *)

\* A source's rows, or some of them.
Collection(rows) == IsFiniteSet(rows) /\ \A r \in rows : RepoOf(r) \in Int

\* The sizes of the repositories add up.
LEMMA SizesAdd ==
  ASSUME NEW rows, Collection(rows)
  PROVE  /\ ReposOf(rows) \subseteq Int /\ IsFiniteSet(ReposOf(rows))
         /\ \A k : IsFiniteSet(OfRepo(rows, k)) /\ OfRepo(rows, k) \subseteq rows
         /\ Allocation(Sizes(rows), ReposOf(rows))
         /\ \A k \in ReposOf(rows) : Sizes(rows)[k] = Cardinality(OfRepo(rows, k)) /\ Sizes(rows)[k] > 0
         /\ Total(Sizes(rows)) = Cardinality(rows)
         /\ Cardinality(rows) \in Nat
<1> DEFINE K == ReposOf(rows)
           A == [k \in K |-> OfRepo(rows, k)]
           repo == [r \in rows |-> RepoOf(r)]
<1>1. \A k : IsFiniteSet(OfRepo(rows, k)) /\ OfRepo(rows, k) \subseteq rows
  <2> TAKE k
  <2>1. OfRepo(rows, k) \subseteq rows BY DEF OfRepo
  <2> QED BY <2>1, FS_Subset DEF Collection
<1>2. IsFiniteSet(K)
  <2>1. K = {repo[r] : r \in rows} BY DEF ReposOf
  <2>2. DOMAIN repo = rows /\ IsFiniteSet(rows) BY DEF Collection
  <2> HIDE DEF repo, K
  <2> QED BY <2>1, <2>2, ImageIsFinite
<1>3. rows = UNION {A[k] : k \in K}
  <2>1. \A r \in rows : RepoOf(r) \in K /\ r \in A[RepoOf(r)] BY DEF ReposOf, OfRepo
  <2>2. \A k \in K : A[k] \subseteq rows BY <1>1
  <2> HIDE DEF A, K
  <2> QED BY <2>1, <2>2
<1>4. /\ DOMAIN A = K /\ \A k \in K : IsFiniteSet(A[k])
      /\ \A j, k \in K : j # k => A[j] \cap A[k] = {}
  BY <1>1 DEF OfRepo
<1>5. [k \in K |-> Cardinality(A[k])] = Sizes(rows) BY DEF Sizes
<1>6. \A k \in K : Sizes(rows)[k] = Cardinality(OfRepo(rows, k)) /\ OfRepo(rows, k) # {}
  BY DEF Sizes, ReposOf, OfRepo
<1> HIDE DEF A
<1>7. Allocation(Sizes(rows), K) /\ Cardinality(rows) = Total(Sizes(rows))
  <2> HIDE DEF K
  <2>1. /\ Allocation([k \in K |-> Cardinality(A[k])], K)
        /\ Cardinality(UNION {A[k] : k \in K}) = Total([k \in K |-> Cardinality(A[k])])
    BY <1>2, <1>4, UnionSize
  <2> QED BY <1>3, <1>5, <2>1
<1>8. \A k \in K : Sizes(rows)[k] > 0
  <2> TAKE k \in K
  <2>1. Cardinality(OfRepo(rows, k)) # 0 BY <1>1, <1>6, FS_EmptySet
  <2>2. Cardinality(OfRepo(rows, k)) \in Nat BY <1>1, FS_CardinalityType
  <2> QED BY <1>6, <2>1, <2>2
<1>9. Cardinality(rows) \in Nat BY FS_CardinalityType DEF Collection
<1>10. K \subseteq Int BY DEF ReposOf, Collection
<1> QED BY <1>1, <1>2, <1>6, <1>7, <1>8, <1>9, <1>10

\* Some rows of a collection.
LEMMA PartIsCollection ==
  ASSUME NEW rows, Collection(rows), NEW some, some \subseteq rows
  PROVE  Collection(some)
BY FS_Subset DEF Collection

\* Parts of a collection with room for their quotas, and their first rows.
Parted(K, A, quota, label) ==
  /\ DOMAIN A = K /\ Allocation(quota, K)
  /\ \A k \in K : IsFiniteSet(A[k]) /\ Distinct(A[k], label) /\ quota[k] <= Cardinality(A[k])
  /\ \A j, k \in K : j # k => A[j] \cap A[k] = {}
Chosen(K, A, quota, label) == UNION {FirstOf(A[k], quota[k], label) : k \in K}

\* The first rows of every part of a collection.
LEMMA PartsFilled ==
  ASSUME NEW K, NEW A, NEW label, NEW quota, Parted(K, A, quota, label),
         NEW chosen, chosen = Chosen(K, A, quota, label)
  PROVE  /\ Cardinality(chosen) = Total(quota) /\ \A r \in chosen : \E k \in K : r \in A[k]
         /\ \A k \in K : IsFiniteSet(chosen \cap A[k]) /\ Cardinality(chosen \cap A[k]) = quota[k]
<1> DEFINE B == [k \in K |-> FirstOf(A[k], quota[k], label)]
<1>0. /\ DOMAIN A = K /\ Allocation(quota, K)
      /\ \A k \in K : IsFiniteSet(A[k]) /\ Distinct(A[k], label) /\ quota[k] <= Cardinality(A[k])
      /\ \A j, k \in K : j # k => A[j] \cap A[k] = {}
  BY DEF Parted
<1>1. IsFiniteSet(K) /\ \A k \in K : quota[k] \in Nat
  BY <1>0 DEF Allocation
<1>2. \A k \in K : B[k] \subseteq A[k] /\ IsFiniteSet(B[k]) /\ Cardinality(B[k]) = quota[k]
  <2> TAKE k \in K
  <2>1. IsFiniteSet(A[k]) /\ Distinct(A[k], label) /\ quota[k] \in Nat /\ quota[k] <= Cardinality(A[k])
    BY <1>0, <1>1
  <2> QED BY <2>1, FirstOfSize
<1>3. chosen = UNION {B[k] : k \in K} BY DEF Chosen
<1>4. DOMAIN B = K OBVIOUS
<1> HIDE DEF B
<1>5. \A j, k \in K : j # k => B[j] \cap B[k] = {}
  <2> SUFFICES ASSUME NEW j \in K, NEW k \in K, j # k PROVE B[j] \cap B[k] = {}
    OBVIOUS
  <2>1. A[j] \cap A[k] = {} /\ B[j] \subseteq A[j] /\ B[k] \subseteq A[k] BY <1>0, <1>2
  <2> QED BY <2>1
<1>6. [k \in K |-> Cardinality(B[k])] = quota
  <2>1. quota = [k \in K |-> quota[k]] BY <1>0 DEF Allocation
  <2> QED BY <1>2, <2>1
<1>7. Cardinality(chosen) = Total(quota)
  <2>1. \A k \in K : IsFiniteSet(B[k]) BY <1>2
  <2>2. Cardinality(UNION {B[k] : k \in K}) = Total([k \in K |-> Cardinality(B[k])])
    BY <1>1, <1>4, <1>5, <2>1, UnionSize
  <2> QED BY <1>3, <1>6, <2>2
<1>8. \A r \in chosen : \E k \in K : r \in B[k] BY <1>3
<1>9. \A k \in K : chosen \cap A[k] = B[k]
  <2> TAKE k \in K
  <2>1. \A j \in K : j # k => A[j] \cap A[k] = {} BY <1>0
  <2>2. B[k] \subseteq chosen BY <1>3
  <2> QED BY <1>2, <1>8, <2>1, <2>2
<1>10. \A r \in chosen : \E k \in K : r \in A[k] BY <1>2, <1>8
<1>11. \A k \in K : IsFiniteSet(chosen \cap A[k]) /\ Cardinality(chosen \cap A[k]) = quota[k]
  <2> TAKE k \in K
  <2>1. chosen \cap A[k] = B[k] BY <1>9
  <2>2. IsFiniteSet(B[k]) /\ Cardinality(B[k]) = quota[k] BY <1>2
  <2> QED BY <2>1, <2>2
<1> QED BY <1>7, <1>10, <1>11

\* A quota of every repository, filled with its first rows.
Filled(rows, quota, label) == UNION {FirstOf(OfRepo(rows, k), quota[k], label) : k \in DOMAIN quota}

\* What quotas select.
LEMMA FilledSize ==
  ASSUME NEW rows, Collection(rows), NEW label, Distinct(rows, label),
         NEW K, NEW quota, Allocation(quota, K), \A k \in K : quota[k] <= Cardinality(OfRepo(rows, k))
  PROVE  LET chosen == Filled(rows, quota, label)
         IN /\ chosen \subseteq rows /\ Collection(chosen) /\ Cardinality(chosen) = Total(quota)
            /\ \A k \in K : Cardinality(OfRepo(chosen, k)) = quota[k]
<1> DEFINE A == [k \in K |-> OfRepo(rows, k)]
           chosen == Filled(rows, quota, label)
<1>1. \A k \in K : /\ A[k] = OfRepo(rows, k) /\ A[k] \subseteq rows
                   /\ IsFiniteSet(A[k]) /\ Distinct(A[k], label) /\ quota[k] <= Cardinality(A[k])
  <2> TAKE k \in K
  <2>1. IsFiniteSet(OfRepo(rows, k)) /\ OfRepo(rows, k) \subseteq rows BY SizesAdd
  <2>2. Distinct(OfRepo(rows, k), label) BY <2>1 DEF Distinct
  <2> QED BY <2>1, <2>2
<1>2. \A j, k \in K : j # k => A[j] \cap A[k] = {} BY DEF OfRepo
<1>3. chosen = Chosen(K, A, quota, label) BY DEF Filled, Chosen, Allocation
<1>4. Parted(K, A, quota, label)
  <2>1. DOMAIN A = K OBVIOUS
  <2> HIDE DEF A
  <2> QED BY <1>1, <1>2, <2>1 DEF Parted
<1> HIDE DEF A, chosen
<1>5. /\ Cardinality(chosen) = Total(quota) /\ \A r \in chosen : \E k \in K : r \in A[k]
      /\ \A k \in K : IsFiniteSet(chosen \cap A[k]) /\ Cardinality(chosen \cap A[k]) = quota[k]
  BY <1>3, <1>4, PartsFilled
<1>6. chosen \subseteq rows BY <1>1, <1>5
<1>7. \A k \in K : OfRepo(chosen, k) = chosen \cap A[k] BY <1>1, <1>6 DEF OfRepo
<1>8. Collection(chosen) BY <1>6, PartIsCollection
<1> QED BY <1>5, <1>6, <1>7, <1>8 DEF chosen

-------------------------------------------------------------------------------
(* Proportional quotas. *)

\* The proportional quotas fit, add up, and are fair to within one seat
\* (r2e_data.py:159).
THEOREM RepoQuotasFit ==
  ASSUME NEW rows, Collection(rows), NEW size \in Nat, size <= Cardinality(rows)
  PROVE  LET quota == RepoQuotas(rows, size)
             all == Cardinality(rows)
         IN /\ Allocation(quota, ReposOf(rows)) /\ Total(quota) = size
            /\ \A k \in ReposOf(rows) :
                 /\ quota[k] <= Sizes(rows)[k]
                 /\ size * Sizes(rows)[k] - quota[k] * all < all
                 /\ quota[k] * all - size * Sizes(rows)[k] < all
<1> DEFINE K == ReposOf(rows)
           len == Sizes(rows)
           all == Cardinality(rows)
           floors == [k \in K |-> (size * len[k]) \div all]
           F(k) == size * len[k] - floors[k] * all
           frac == [k \in K |-> F(k)]
           L == {p \in K \X K : F(p[1]) > F(p[2]) \/ (F(p[1]) = F(p[2]) /\ p[1] < p[2])}
           rem == size - Total(floors)
           T == {k \in K : Cardinality(Before(L, K, k)) < rem}
           P == {k \in K : F(k) > 0}
           quota == RepoQuotas(rows, size)
<1>0. /\ K \subseteq Int /\ IsFiniteSet(K) /\ Allocation(len, K) /\ Total(len) = all /\ all \in Nat
      /\ DOMAIN len = K
      /\ \A k \in K : len[k] \in Nat /\ len[k] > 0
  BY SizesAdd DEF Allocation
<1>1. quota = [k \in K |-> IF Cardinality(Before(L, K, k)) < rem /\ floors[k] < len[k]
                           THEN floors[k] + 1 ELSE floors[k]]
  <2>1. \A k \in K : Before(L, K, k) = {j \in K : F(j) > F(k) \/ (F(j) = F(k) /\ j < k)}
    BY DEF Before
  <2>2. DOMAIN Sizes(rows) = K BY DEF Sizes
  <2> QED BY <2>1, <2>2 DEF RepoQuotas
<1> HIDE DEF K, len, all, quota
<1>2. CASE K = {}
  <2>1. all = 0
    <3>1. Seating(len) = {} BY <1>0, <1>2, SeatsAre
    <3> QED BY <1>0, <3>1, FS_EmptySet DEF Total
  <2>2. size = 0 BY <2>1, <1>0 DEF all
  <2>3. Allocation(quota, K) BY <1>0, <1>1, <1>2 DEF Allocation
  <2>4. Seating(quota) = {} BY <1>2, <2>3, SeatsAre
  <2>5. Total(quota) = 0 BY <2>4, FS_EmptySet DEF Total
  <2> QED BY <1>2, <2>2, <2>3, <2>5 DEF K, len, all, quota
<1>3. CASE K # {}
  <2>1. all > 0
    <3>1. PICK k \in K : TRUE BY <1>3
    <3>2. len[k] \in Nat /\ 1 \in 1 .. len[k] BY <1>0
    <3>3. <<k, 1>> \in Seating(len) BY <1>0, <3>2, SeatsAre
    <3>4. all # 0 BY <1>0, <3>3, SeatsAre, FS_EmptySet DEF Total
    <3> QED BY <1>0, <3>4
  <2>2. ASSUME NEW k \in K
        PROVE  /\ floors[k] \in Nat /\ F(k) \in Nat /\ F(k) < all /\ size * len[k] = all * floors[k] + F(k)
               /\ floors[k] <= len[k] /\ (F(k) > 0 => floors[k] < len[k])
    <3> DEFINE a == size * len[k]
               d == a \div all
    <3>1. a \in Nat /\ all \in Nat \ {0} /\ size \in Nat BY <1>0, <2>1
    <3>2. floors[k] = d /\ F(k) = a - d * all OBVIOUS
    <3>3. a <= all * len[k]
      <4>1. len[k] * size <= len[k] * all BY <1>0, FactorKeeps DEF all
      <4> QED BY <1>0, <4>1
    <3> HIDE DEF a, F, floors
    <3>4. d \in Nat /\ all * d <= a /\ a < all * d + all BY <3>1, DivisionRoundsDown
    <3> HIDE DEF d
    <3>5. d * all = all * d /\ all * d \in Nat /\ all * len[k] \in Nat BY <1>0, <3>4
    <3>6. F(k) \in Nat /\ F(k) < all /\ a = all * d + F(k) BY <3>1, <3>2, <3>4, <3>5
    <3>7. d <= len[k]
      <4>1. all * d <= all * len[k] BY <3>1, <3>3, <3>4, <3>5
      <4> QED BY <1>0, <3>1, <3>4, <4>1, FactorCancels
    <3>8. F(k) > 0 => d # len[k] BY <3>1, <3>3, <3>5, <3>6
    <3> QED BY <1>0, <3>2, <3>4, <3>6, <3>7, <3>8 DEF a
  <2>3. Allocation(floors, K)
    <3>1. floors = [k \in K |-> floors[k]] OBVIOUS
    <3> HIDE DEF floors
    <3> QED BY <1>0, <2>2, <3>1 DEF Allocation
  <2>4. Allocation(frac, K) /\ \A k \in K : frac[k] = F(k)
    <3> HIDE DEF F
    <3> QED BY <1>0, <2>2 DEF Allocation
  <2> HIDE DEF F, floors, frac
  <2>5. all * Total(floors) + Total(frac) = all * size /\ Total(floors) \in Nat /\ Total(frac) \in Nat
    <3> DEFINE f == [k \in K |-> all * floors[k]]
               g == [k \in K |-> size * len[k]]
    <3>1. Allocation(f, K) /\ Total(f) = all * Total(floors) BY <1>0, <2>3, TotalScales
    <3>2. Allocation(g, K) /\ Total(g) = size * all BY <1>0, TotalScales
    <3>3. g = [k \in K |-> f[k] + frac[k]] BY <2>2, <2>4
    <3> HIDE DEF f, g
    <3>4. Total(g) = Total(f) + Total(frac) BY <2>4, <3>1, <3>3, TotalAdds
    <3>5. size * all = all * size BY <1>0
    <3>6. Total(floors) \in Nat /\ Total(frac) \in Nat BY <2>3, <2>4, SeatsAre
    <3> QED BY <3>1, <3>2, <3>4, <3>5, <3>6
  <2>6. rem \in Nat /\ Total(floors) + rem = size /\ Total(frac) = all * rem
    <3> DEFINE a == Total(floors)
    <3>1. all * a <= all * size BY <1>0, <2>5
    <3>2. all \in Nat \ {0} BY <1>0, <2>1
    <3>3. a <= size BY <2>5, <3>1, <3>2, FactorCancels
    <3> DEFINE r == rem
    <3>4. r \in Nat /\ a + r = size BY <2>5, <3>3
    <3> HIDE DEF a, r
    <3>5. all * size = all * a + all * r BY <1>0, <2>5, <3>4 DEF a
    <3>6. all * a \in Nat /\ all * r \in Nat BY <1>0, <2>5, <3>4 DEF a
    <3>7. Total(frac) = all * r BY <2>5, <3>5, <3>6 DEF a
    <3> QED BY <3>4, <3>7 DEF a, r
  <2> HIDE DEF rem
  <2>7. rem <= Cardinality(P) /\ IsFiniteSet(P) /\ Cardinality(P) \in Nat /\ Cardinality(P) <= Cardinality(K)
    <3> DEFINE one == [k \in K |-> IF k \in P THEN 1 ELSE 0]
               g == [k \in K |-> all * one[k]]
               c == Cardinality(P)
    <3>1. P \subseteq K OBVIOUS
    <3>2. IsFiniteSet(P) /\ c <= Cardinality(K) BY <1>0, <3>1, FS_Subset
    <3>3. c \in Nat BY <3>2, FS_CardinalityType
    <3>4. Allocation(one, K) /\ Total(one) = c BY <1>0, <3>1, TotalCounts
    <3>5. \A k \in K : frac[k] <= g[k]
      <4> TAKE k \in K
      <4>1. all * 1 = all /\ all * 0 = 0 BY <1>0
      <4>2. F(k) \in Nat /\ F(k) < all BY <2>2
      <4>3. CASE F(k) > 0 BY <1>0, <2>4, <4>1, <4>2, <4>3
      <4>4. CASE ~ (F(k) > 0) BY <1>0, <2>4, <4>1, <4>2, <4>4
      <4> QED BY <4>3, <4>4
    <3> HIDE DEF one, P, c
    <3>6. Allocation(g, K) /\ Total(g) = all * c BY <1>0, <3>4, TotalScales
    <3> HIDE DEF g
    <3>7. Total(frac) <= all * c BY <2>4, <3>5, <3>6, TotalGrows
    <3>8. all \in Nat \ {0} /\ all * rem <= all * c BY <1>0, <2>1, <2>6, <3>7
    <3>9. rem <= c BY <2>6, <3>3, <3>8, FactorCancels
    <3> QED BY <3>2, <3>3, <3>9 DEF c
  <2>8. StrictOrder(L, K)
    <3>1. \A k \in K : F(k) \in Int /\ k \in Int BY <1>0, <2>2
    <3>2. \A j, k \in K : <<j, k>> \in L <=> F(j) > F(k) \/ (F(j) = F(k) /\ j < k) OBVIOUS
    <3> HIDE DEF L
    <3> QED BY <3>1, <3>2 DEF StrictOrder
  <2>9. Cardinality(T) = rem /\ T \subseteq K
    <3>1. Cardinality(T) = Least(rem, Cardinality(K))
      <4> HIDE DEF L
      <4> QED BY <1>0, <2>6, <2>8, PrefixSize
    <3>2. Cardinality(K) \in Nat BY <1>0, FS_CardinalityType
    <3> HIDE DEF P
    <3> QED BY <2>6, <2>7, <3>1, <3>2 DEF Least
  <2>10. \A k \in T : F(k) > 0
    <3> SUFFICES ASSUME NEW k \in T, ~ (F(k) > 0) PROVE FALSE
      OBVIOUS
    <3>1. k \in K /\ F(k) = 0 BY <2>2
    <3>2. P \subseteq Before(L, K, k)
      <4>1. \A j \in P : j \in K /\ <<j, k>> \in L BY <3>1
      <4> HIDE DEF P, L
      <4> QED BY <4>1 DEF Before
    <3>3. IsFiniteSet(Before(L, K, k)) BY <1>0, FS_Subset DEF Before
    <3>4. Cardinality(P) <= Cardinality(Before(L, K, k)) BY <3>2, <3>3, FS_Subset
    <3>5. Cardinality(Before(L, K, k)) \in Nat BY <3>3, FS_CardinalityType
    <3>6. Cardinality(Before(L, K, k)) < rem OBVIOUS
    <3> HIDE DEF P, L
    <3> QED BY <2>6, <2>7, <3>4, <3>5, <3>6
  <2> DEFINE one == [k \in K |-> IF k \in T THEN 1 ELSE 0]
  <2>11. \A k \in K : quota[k] = floors[k] + one[k] /\ (k \in T => one[k] = 1 /\ F(k) > 0)
                      /\ (k \notin T => one[k] = 0)
    <3> TAKE k \in K
    <3>1. k \in T <=> Cardinality(Before(L, K, k)) < rem OBVIOUS
    <3>2. quota[k] = IF k \in T /\ floors[k] < len[k] THEN floors[k] + 1 ELSE floors[k]
      BY <1>1, <3>1
    <3>3. k \in T => F(k) > 0 BY <2>10
    <3>4. one[k] = IF k \in T THEN 1 ELSE 0 OBVIOUS
    <3>5. floors[k] + 0 = floors[k] BY <2>2
    <3> HIDE DEF T, one
    <3> QED BY <2>2, <3>2, <3>3, <3>4, <3>5
  <2>12. Allocation(one, K) /\ Total(one) = rem
    <3> HIDE DEF T
    <3> QED BY <1>0, <2>9, TotalCounts
  <2> HIDE DEF one, T, P, L
  <2>13. quota = [k \in K |-> floors[k] + one[k]]
    <3>1. quota = [k \in K |-> quota[k]] BY <1>1
    <3> QED BY <2>11, <3>1
  <2>14. Allocation(quota, K) /\ Total(quota) = size BY <2>3, <2>6, <2>12, <2>13, TotalAdds
  <2>15. ASSUME NEW k \in K
         PROVE  /\ quota[k] <= len[k]
                /\ size * len[k] - quota[k] * all < all /\ quota[k] * all - size * len[k] < all
    <3> DEFINE d == floors[k]
    <3>1. d \in Nat /\ F(k) \in Nat /\ F(k) < all /\ size * len[k] = all * d + F(k) BY <2>2
    <3>2. d <= len[k] /\ (F(k) > 0 => d < len[k]) BY <2>2
    <3>3. quota[k] = d \/ (quota[k] = d + 1 /\ F(k) > 0) BY <2>2, <2>11
    <3> HIDE DEF d
    <3>4. d * all = all * d /\ (d + 1) * all = all * d + all /\ all * d \in Nat BY <1>0, <3>1
    <3>5. CASE quota[k] = d BY <1>0, <2>1, <3>1, <3>2, <3>4, <3>5
    <3>6. CASE quota[k] = d + 1 /\ F(k) > 0 BY <1>0, <3>1, <3>2, <3>4, <3>6
    <3> QED BY <3>3, <3>5, <3>6
  <2> QED BY <2>14, <2>15 DEF K, len, all, quota
<1> QED BY <1>2, <1>3

\* A proportional selection has the size asked for, and fair shares.
LEMMA StratifiedSize ==
  ASSUME NEW rows, Collection(rows), NEW label, Distinct(rows, label),
         NEW size \in Nat, size <= Cardinality(rows)
  PROVE  LET chosen == Stratified(rows, size, label)
             all == Cardinality(rows)
         IN /\ chosen \subseteq rows /\ Collection(chosen) /\ Cardinality(chosen) = size
            /\ \A k \in ReposOf(rows) :
                 /\ size * Cardinality(OfRepo(rows, k)) - Cardinality(OfRepo(chosen, k)) * all < all
                 /\ Cardinality(OfRepo(chosen, k)) * all - size * Cardinality(OfRepo(rows, k)) < all
<1> DEFINE quota == RepoQuotas(rows, size)
           K == ReposOf(rows)
           all == Cardinality(rows)
<1>1. /\ Allocation(quota, K) /\ Total(quota) = size
      /\ \A k \in K : /\ quota[k] <= Sizes(rows)[k]
                      /\ size * Sizes(rows)[k] - quota[k] * all < all
                      /\ quota[k] * all - size * Sizes(rows)[k] < all
  BY RepoQuotasFit
<1>2. \A k \in K : Sizes(rows)[k] = Cardinality(OfRepo(rows, k)) BY SizesAdd
<1>3. Stratified(rows, size, label) = Filled(rows, quota, label) BY DEF Stratified, Filled
<1> HIDE DEF quota, K
<1>4. LET chosen == Filled(rows, quota, label)
      IN /\ chosen \subseteq rows /\ Collection(chosen) /\ Cardinality(chosen) = Total(quota)
         /\ \A k \in K : Cardinality(OfRepo(chosen, k)) = quota[k]
  BY <1>1, <1>2, FilledSize
<1> QED BY <1>1, <1>2, <1>3, <1>4 DEF K

-------------------------------------------------------------------------------
(* Nested tiers. *)

\* The small tier's quotas fit into the large one's.
LEMMA NestedQuotasFit ==
  ASSUME NEW weight, NEW large, NEW capacity, NEW K, Apportions(weight, large, capacity, K),
         NEW small \in Nat, small <= large
  PROVE  LET quota == NestedQuotas(weight, small, large, capacity)
         IN /\ Allocation(quota.large, K) /\ Allocation(quota.small, K)
            /\ Total(quota.large) = large /\ Total(quota.small) = small
            /\ \A k \in K : quota.small[k] <= quota.large[k] /\ quota.large[k] <= capacity[k]
<1> DEFINE outer == LargestRemainder(weight, large, capacity)
           inner == LargestRemainder(weight, small, outer)
<1>1. Allocation(outer, K) /\ (\A k \in K : outer[k] <= capacity[k]) /\ Total(outer) = large
  BY QuotasFill
<1>2. /\ NestedQuotas(weight, small, large, capacity).large = outer
      /\ NestedQuotas(weight, small, large, capacity).small = inner
  BY DEF NestedQuotas
<1> HIDE DEF outer
<1>3. Apportions(weight, small, outer, K)
  <2>1. \A k \in K : outer[k] > 0 => capacity[k] > 0 BY <1>1 DEF Apportions, Allocation
  <2> QED BY <1>1, <2>1 DEF Apportions
<1>4. Allocation(inner, K) /\ (\A k \in K : inner[k] <= outer[k]) /\ Total(inner) = small
  BY <1>3, QuotasFill
<1> QED BY <1>1, <1>2, <1>4

\* Every row is in one of four bins.
LEMMA BinIsOneOfFour ==
  ASSUME NEW rows, IsFiniteSet(rows), NEW row \in rows
  PROVE  Bin(rows, row) \in Bins
<1> DEFINE n == Cardinality(rows)
<1>1. n \in Nat \ {0} BY FS_CardinalityType, FS_EmptySet
<1>2. \A S \in SUBSET rows : Least(3, (Cardinality(S) * 4) \div n) \in 0 .. 3
  <2> TAKE S \in SUBSET rows
  <2> DEFINE p == Cardinality(S)
  <2>1. p \in Nat BY FS_Subset, FS_CardinalityType
  <2>2. p * 4 \in Nat BY <2>1
  <2> DEFINE d == (p * 4) \div n
  <2>3. d \in Nat
    <3> HIDE DEF n, p
    <3> QED BY <1>1, <2>2, DivisionRoundsDown
  <2> HIDE DEF d
  <2>4. Least(3, d) \in 0 .. 3 BY <2>3 DEF Least
  <2> QED BY <2>4 DEF d
<1> DEFINE Score(r) == MapThenSumSet(
                         LAMBDA f : Cardinality({q \in rows : Complexity(q)[f] <= Complexity(r)[f]}),
                         DOMAIN Complexity(r))
           earlier == {q \in rows : Score(q) < Score(row)
                     \/ (Score(q) = Score(row) /\ Rank("complexity-tie", q) < Rank("complexity-tie", row))}
<1>3. Bin(rows, row) = Least(3, (Cardinality(earlier) * 4) \div n) BY DEF Bin
<1> HIDE DEF Score, n
<1>4. earlier \in SUBSET rows OBVIOUS
<1> HIDE DEF earlier
<1> QED BY <1>2, <1>3, <1>4 DEF Bins

\* Parts that grow with their quotas.
LEMMA ChosenGrows ==
  ASSUME NEW K, NEW A, NEW label, NEW few, NEW many,
         Parted(K, A, few, label), Parted(K, A, many, label), \A k \in K : few[k] <= many[k]
  PROVE  Chosen(K, A, few, label) \subseteq Chosen(K, A, many, label)
<1>1. \A k \in K : FirstOf(A[k], few[k], label) \subseteq FirstOf(A[k], many[k], label)
  <2> TAKE k \in K
  <2>1. IsFiniteSet(A[k]) /\ few[k] \in Nat /\ many[k] \in Nat /\ few[k] <= many[k]
    BY DEF Parted, Allocation
  <2> QED BY <2>1, FirstOfGrows
<1> QED BY <1>1 DEF Chosen

\* Within a repository, the tiers have their sizes and nest.
LEMMA RepositoryTierSize ==
  ASSUME NEW rows, Collection(rows), Distinct(rows, "r2e-task"),
         NEW small \in Nat, NEW large \in Nat, small <= large, large <= Cardinality(rows)
  PROVE  LET few == RepositoryTier(rows, "small", small, large)
             many == RepositoryTier(rows, "large", small, large)
         IN /\ few \subseteq many /\ many \subseteq rows
            /\ Cardinality(few) = small /\ Cardinality(many) = large
<1> DEFINE A == [b \in Bins |-> {r \in rows : <<b, r>> \in {<<Bin(rows, x), x>> : x \in rows}}]
           size == [b \in Bins |-> Cardinality(A[b])]
           quota == NestedQuotas(size, small, large, size)
           few == RepositoryTier(rows, "small", small, large)
           many == RepositoryTier(rows, "large", small, large)
<1>1. /\ few = Chosen(Bins, A, quota.small, "r2e-task")
      /\ many = Chosen(Bins, A, quota.large, "r2e-task")
  BY DEF RepositoryTier, Chosen
<1>2. \A b \in Bins : \A r : r \in A[b] <=> r \in rows /\ Bin(rows, r) = b OBVIOUS
<1>3. size = [b \in Bins |-> Cardinality(A[b])] OBVIOUS
<1>4. DOMAIN A = Bins OBVIOUS
<1> HIDE DEF A, size, quota, few, many
<1>5. IsFiniteSet(Bins) /\ Bins \subseteq Int
  <2>0. 0 \in Int /\ 3 \in Int OBVIOUS
  <2>1. IsFiniteSet(0 .. 3) BY <2>0, FS_Interval
  <2> QED BY <2>1 DEF Bins
<1>6. \A b \in Bins : A[b] \subseteq rows /\ IsFiniteSet(A[b]) /\ Distinct(A[b], "r2e-task")
  <2> TAKE b \in Bins
  <2>1. A[b] \subseteq rows BY <1>2
  <2>2. IsFiniteSet(A[b]) BY <2>1, FS_Subset DEF Collection
  <2>3. Distinct(A[b], "r2e-task") BY <2>1 DEF Distinct
  <2> QED BY <2>1, <2>2, <2>3
<1>7. \A j, k \in Bins : j # k => A[j] \cap A[k] = {} BY <1>2
<1>8. rows = UNION {A[b] : b \in Bins}
  <2>1. \A r \in rows : Bin(rows, r) \in Bins /\ r \in A[Bin(rows, r)]
    BY <1>2, BinIsOneOfFour DEF Collection
  <2> QED BY <1>6, <2>1
<1>9. Allocation(size, Bins) /\ Total(size) = Cardinality(rows)
  <2>1. \A b \in Bins : IsFiniteSet(A[b]) BY <1>6
  <2>2. /\ Allocation([b \in Bins |-> Cardinality(A[b])], Bins)
        /\ Cardinality(UNION {A[b] : b \in Bins}) = Total([b \in Bins |-> Cardinality(A[b])])
    BY <1>4, <1>5, <1>7, <2>1, UnionSize
  <2> QED BY <1>3, <1>8, <2>2
<1>10. Apportions(size, large, size, Bins) BY <1>5, <1>9 DEF Apportions
<1>11. /\ Allocation(quota.large, Bins) /\ Allocation(quota.small, Bins)
       /\ Total(quota.large) = large /\ Total(quota.small) = small
       /\ \A b \in Bins : quota.small[b] <= quota.large[b] /\ quota.large[b] <= size[b]
  BY <1>10, NestedQuotasFit DEF quota
<1>12. \A b \in Bins : /\ quota.small[b] <= Cardinality(A[b]) /\ quota.large[b] <= Cardinality(A[b])
                       /\ quota.small[b] <= quota.large[b]
  <2> TAKE b \in Bins
  <2>1. size[b] = Cardinality(A[b]) BY <1>3
  <2>2. quota.small[b] \in Nat /\ quota.large[b] \in Nat /\ size[b] \in Nat
    BY <1>9, <1>11 DEF Allocation
  <2> QED BY <1>11, <2>1, <2>2
<1>13. Parted(Bins, A, quota.small, "r2e-task") BY <1>4, <1>6, <1>7, <1>11, <1>12 DEF Parted
<1>14. Parted(Bins, A, quota.large, "r2e-task") BY <1>4, <1>6, <1>7, <1>11, <1>12 DEF Parted
<1>15. Cardinality(few) = Total(quota.small) BY <1>1, <1>13, PartsFilled
<1>16. Cardinality(many) = Total(quota.large) /\ \A r \in many : \E b \in Bins : r \in A[b]
  BY <1>1, <1>14, PartsFilled
<1>17. few \subseteq many BY <1>1, <1>12, <1>13, <1>14, ChosenGrows
<1>18. many \subseteq rows BY <1>2, <1>16
<1> QED BY <1>11, <1>15, <1>16, <1>17, <1>18 DEF few, many

\* The training tiers have their sizes and nest (dataset_selection.py:28).
LEMMA NestedSubsetsSize ==
  ASSUME NEW rows, Collection(rows), Distinct(rows, "r2e-task"),
         NEW small \in Nat, NEW large \in Nat, small <= large, large <= Cardinality(rows),
         \A k \in ReposOf(rows) : Root[Sizes(rows)[k]] \in Nat \ {0}
  PROVE  LET tiers == NestedSubsets(rows, small, large)
         IN /\ tiers.small \subseteq tiers.large /\ tiers.large \subseteq rows
            /\ Cardinality(tiers.small) = small /\ Cardinality(tiers.large) = large
<1> DEFINE K == ReposOf(rows)
           len == Sizes(rows)
           weight == RootWeights(len)
           quota == NestedQuotas(weight, small, large, len)
           few == [k \in K |-> RepositoryTier(OfRepo(rows, k), "small", quota.small[k], quota.large[k])]
           many == [k \in K |-> RepositoryTier(OfRepo(rows, k), "large", quota.small[k], quota.large[k])]
           tiers == NestedSubsets(rows, small, large)
<1>1. DOMAIN len = K BY DEF Sizes
<1>2. tiers.small = UNION {few[k] : k \in K} /\ tiers.large = UNION {many[k] : k \in K}
  BY <1>1 DEF NestedSubsets
<1>3. /\ K \subseteq Int /\ IsFiniteSet(K) /\ Allocation(len, K) /\ Total(len) = Cardinality(rows)
      /\ \A k : IsFiniteSet(OfRepo(rows, k)) /\ OfRepo(rows, k) \subseteq rows
      /\ \A k \in K : len[k] = Cardinality(OfRepo(rows, k))
  BY SizesAdd
<1>4. Allocation(weight, K) /\ \A k \in K : weight[k] > 0 BY <1>1, <1>3 DEF RootWeights, Allocation
<1>5. /\ DOMAIN few = K /\ DOMAIN many = K
      /\ \A k \in K : /\ few[k] = RepositoryTier(OfRepo(rows, k), "small", quota.small[k], quota.large[k])
                      /\ many[k] = RepositoryTier(OfRepo(rows, k), "large", quota.small[k], quota.large[k])
  OBVIOUS
<1> HIDE DEF K, len, weight, quota, few, many, tiers
<1>6. Apportions(weight, large, len, K) BY <1>3, <1>4 DEF Apportions
<1>7. /\ Allocation(quota.large, K) /\ Allocation(quota.small, K)
      /\ Total(quota.large) = large /\ Total(quota.small) = small
      /\ \A k \in K : quota.small[k] <= quota.large[k] /\ quota.large[k] <= len[k]
  BY <1>6, NestedQuotasFit DEF quota
<1>8. ASSUME NEW k \in K
      PROVE  /\ few[k] \subseteq many[k] /\ many[k] \subseteq OfRepo(rows, k)
             /\ IsFiniteSet(few[k]) /\ IsFiniteSet(many[k])
             /\ Cardinality(few[k]) = quota.small[k] /\ Cardinality(many[k]) = quota.large[k]
  <2> DEFINE some == OfRepo(rows, k)
             s == quota.small[k]
             l == quota.large[k]
  <2>1. Collection(some) /\ Distinct(some, "r2e-task")
    <3>1. some \subseteq rows BY <1>3
    <3>2. Collection(some) BY <3>1, PartIsCollection
    <3> QED BY <3>1, <3>2 DEF Distinct
  <2>2. s \in Nat /\ l \in Nat /\ s <= l /\ l <= Cardinality(some)
    BY <1>3, <1>7 DEF Allocation
  <2>3. few[k] = RepositoryTier(some, "small", s, l) /\ many[k] = RepositoryTier(some, "large", s, l)
    BY <1>5
  <2>4. IsFiniteSet(some) BY <1>3
  <2> HIDE DEF some, s, l
  <2>5. /\ few[k] \subseteq many[k] /\ many[k] \subseteq some
        /\ Cardinality(few[k]) = s /\ Cardinality(many[k]) = l
    BY <2>1, <2>2, <2>3, RepositoryTierSize
  <2>6. IsFiniteSet(many[k]) BY <2>4, <2>5, FS_Subset
  <2>7. IsFiniteSet(few[k]) BY <2>5, <2>6, FS_Subset
  <2> QED BY <2>5, <2>6, <2>7 DEF some, s, l
<1>9. \A j, k \in K : j # k => few[j] \cap few[k] = {} /\ many[j] \cap many[k] = {}
  <2> TAKE j, k \in K
  <2>1. j # k => OfRepo(rows, j) \cap OfRepo(rows, k) = {} BY DEF OfRepo
  <2>2. /\ few[j] \subseteq OfRepo(rows, j) /\ few[k] \subseteq OfRepo(rows, k)
        /\ many[j] \subseteq OfRepo(rows, j) /\ many[k] \subseteq OfRepo(rows, k)
    BY <1>8
  <2> QED BY <2>1, <2>2
<1>10. Cardinality(tiers.small) = small
  <2>1. /\ \A k \in K : IsFiniteSet(few[k])
        /\ \A j, k \in K : j # k => few[j] \cap few[k] = {}
    BY <1>8, <1>9
  <2>2. Cardinality(UNION {few[k] : k \in K}) = Total([k \in K |-> Cardinality(few[k])])
    BY <1>3, <1>5, <2>1, UnionSize
  <2>3. [k \in K |-> Cardinality(few[k])] = quota.small
    <3>1. quota.small = [k \in K |-> quota.small[k]] BY <1>7 DEF Allocation
    <3> QED BY <1>8, <3>1
  <2> QED BY <1>2, <1>7, <2>2, <2>3
<1>11. Cardinality(tiers.large) = large
  <2>1. /\ \A k \in K : IsFiniteSet(many[k])
        /\ \A j, k \in K : j # k => many[j] \cap many[k] = {}
    BY <1>8, <1>9
  <2>2. Cardinality(UNION {many[k] : k \in K}) = Total([k \in K |-> Cardinality(many[k])])
    BY <1>3, <1>5, <2>1, UnionSize
  <2>3. [k \in K |-> Cardinality(many[k])] = quota.large
    <3>1. quota.large = [k \in K |-> quota.large[k]] BY <1>7 DEF Allocation
    <3> QED BY <1>8, <3>1
  <2> QED BY <1>2, <1>7, <2>2, <2>3
<1>12. tiers.small \subseteq tiers.large BY <1>2, <1>8
<1>13. tiers.large \subseteq rows BY <1>2, <1>3, <1>8
<1> QED BY <1>10, <1>11, <1>12, <1>13 DEF tiers

\* A panel has its size and a task of every repository (dataset_selection.py:207).
LEMMA VerifiedPanelSize ==
  ASSUME NEW rows, Collection(rows), Distinct(rows, "verified-task"), NEW size \in Nat,
         Cardinality(ReposOf(rows)) <= size, size <= Cardinality(rows)
  PROVE  LET panel == VerifiedPanel(rows, size)
         IN /\ panel \subseteq rows /\ Cardinality(panel) = size
            /\ ReposOf(panel) = ReposOf(rows)
<1> DEFINE K == ReposOf(rows)
           len == Sizes(rows)
           n == Cardinality(K)
           room == [k \in K |-> len[k] - 1]
           one == [k \in K |-> IF k \in K THEN 1 ELSE 0]
           extra == LargestRemainder(len, size - n, room)
           quota == [k \in K |-> extra[k] + 1]
           panel == VerifiedPanel(rows, size)
<1>1. /\ K \subseteq Int /\ IsFiniteSet(K) /\ Allocation(len, K) /\ Total(len) = Cardinality(rows)
      /\ \A k \in K : len[k] = Cardinality(OfRepo(rows, k)) /\ len[k] > 0
      /\ Cardinality(rows) \in Nat
  BY SizesAdd
<1>2. panel = Filled(rows, quota, "verified-task")
  <2>1. DOMAIN len = K BY DEF Sizes
  <2> QED BY <2>1 DEF VerifiedPanel, Filled
<1>3. n \in Nat /\ n <= size BY <1>1, FS_CardinalityType
<1>4. \A k \in K : room[k] = len[k] - 1 /\ one[k] = 1 /\ quota[k] = extra[k] + 1 OBVIOUS
<1>5. DOMAIN room = K /\ DOMAIN one = K /\ DOMAIN quota = K OBVIOUS
<1>6. Allocation(one, K) /\ Total(one) = n
  <2>1. K \subseteq K OBVIOUS
  <2> HIDE DEF K
  <2> QED BY <1>1, <2>1, TotalCounts
<1>7. Allocation(room, K)
  <2>1. \A k \in K : len[k] - 1 \in Nat BY <1>1 DEF Allocation
  <2> HIDE DEF K, len
  <2> QED BY <1>1, <2>1 DEF Allocation
<1>8. len = [k \in K |-> room[k] + one[k]]
  <2>1. len = [k \in K |-> len[k]] BY <1>1 DEF Allocation
  <2>2. \A k \in K : len[k] = room[k] + one[k] BY <1>1, <1>4 DEF Allocation
  <2> HIDE DEF K, len, room, one
  <2> QED BY <2>1, <2>2
<1>9. quota = [k \in K |-> extra[k] + one[k]]
  <2> HIDE DEF K, extra
  <2> QED BY <1>4
<1> HIDE DEF K, len, room, one, n, quota, panel
<1>10. Total(room) + n = Cardinality(rows) /\ Total(room) \in Nat
  <2>1. Total(len) = Total(room) + Total(one) BY <1>6, <1>7, <1>8, TotalAdds
  <2> QED BY <1>1, <1>6, <1>7, <2>1, SeatsAre
<1>11. Apportions(len, size - n, room, K)
  <2>1. size - n \in Nat /\ size - n <= Total(room) BY <1>1, <1>3, <1>10
  <2> QED BY <1>1, <1>7, <2>1 DEF Apportions
<1>12. /\ Allocation(extra, K) /\ Total(extra) = size - n
       /\ \A k \in K : extra[k] <= room[k]
  BY <1>11, QuotasFill
<1> HIDE DEF extra
<1>13. Allocation(quota, K) /\ Total(quota) = size
  <2>1. Allocation(quota, K) /\ Total(quota) = Total(extra) + Total(one)
    BY <1>6, <1>9, <1>12, TotalAdds
  <2> QED BY <1>3, <1>6, <1>12, <2>1
<1>14. \A k \in K : quota[k] <= Cardinality(OfRepo(rows, k)) /\ quota[k] > 0
  <2> TAKE k \in K
  <2>1. extra[k] \in Nat /\ len[k] \in Nat BY <1>1, <1>12 DEF Allocation
  <2>2. extra[k] <= len[k] - 1 /\ quota[k] = extra[k] + 1 BY <1>4, <1>12
  <2> QED BY <1>1, <2>1, <2>2
<1>15. /\ panel \subseteq rows /\ Collection(panel) /\ Cardinality(panel) = size
       /\ \A k \in K : Cardinality(OfRepo(panel, k)) = quota[k]
  BY <1>2, <1>13, <1>14, FilledSize
<1>16. ReposOf(panel) = K
  <2>1. ReposOf(panel) \subseteq K BY <1>15 DEF ReposOf, K
  <2>2. \A k \in K : OfRepo(panel, k) # {} BY <1>14, <1>15, FS_EmptySet
  <2>3. K \subseteq ReposOf(panel) BY <2>2 DEF ReposOf, OfRepo
  <2> QED BY <2>1, <2>3
<1> QED BY <1>15, <1>16 DEF panel, K

-------------------------------------------------------------------------------
(* The round-robin order of an evaluation tier. *)

\* Rows and repositories that a label tells apart.
Ranked(chosen, taskLabel, repoLabel) ==
  \A q, r \in chosen :
    /\ Rank(taskLabel, q) \in Int /\ (Rank(taskLabel, q) = Rank(taskLabel, r) => q = r)
    /\ RepoRank(repoLabel, RepoOf(q)) \in Int
    /\ RepoRank(repoLabel, RepoOf(q)) = RepoRank(repoLabel, RepoOf(r)) => RepoOf(q) = RepoOf(r)

\* The rows of a repository that come before a row of it.
Ahead(chosen, row, label) ==
  {q \in OfRepo(chosen, RepoOf(row)) : Rank(label, q) < Rank(label, row)}

\* Offsets number the rows of a repository in the order of their hashes.
LEMMA OffsetsNumber ==
  ASSUME NEW chosen, IsFiniteSet(chosen), NEW a, NEW b, Ranked(chosen, a, b),
         NEW q \in chosen, NEW r \in chosen, RepoOf(q) = RepoOf(r)
  PROVE  /\ Offset(chosen, q, a) \in Nat
         /\ Rank(a, q) < Rank(a, r) => Offset(chosen, q, a) < Offset(chosen, r, a)
         /\ Offset(chosen, q, a) = Offset(chosen, r, a) => q = r
<1> DEFINE P(x) == Ahead(chosen, x, a)
<1>1. \A x \in chosen : IsFiniteSet(P(x)) /\ Cardinality(P(x)) \in Nat /\ Offset(chosen, x, a) = Cardinality(P(x))
  <2> TAKE x \in chosen
  <2>1. P(x) \subseteq chosen BY DEF Ahead, OfRepo
  <2>2. IsFiniteSet(P(x)) BY <2>1, FS_Subset
  <2>3. Cardinality(P(x)) \in Nat BY <2>2, FS_CardinalityType
  <2> QED BY <2>2, <2>3 DEF Offset, Ahead
<1>2. ASSUME NEW x \in chosen, NEW y \in chosen, RepoOf(x) = RepoOf(y), Rank(a, x) < Rank(a, y)
      PROVE  Offset(chosen, x, a) < Offset(chosen, y, a)
  <2>1. /\ Rank(a, x) \in Int /\ Rank(a, y) \in Int
        /\ \A z \in chosen : Rank(a, z) \in Int
    BY DEF Ranked
  <2>2. P(x) \subseteq P(y) BY <1>2, <2>1 DEF Ahead, OfRepo
  <2>3. x \in P(y) /\ x \notin P(x) BY <1>2, <2>1 DEF Ahead, OfRepo
  <2>4. Cardinality(P(x)) <= Cardinality(P(y)) /\ (Cardinality(P(x)) = Cardinality(P(y)) => P(x) = P(y))
    BY <1>1, <2>2, FS_Subset
  <2> HIDE DEF P
  <2>5. Cardinality(P(x)) < Cardinality(P(y)) BY <1>1, <2>3, <2>4
  <2> QED BY <1>1, <2>5
<1> HIDE DEF P
<1>3. Rank(a, q) \in Int /\ Rank(a, r) \in Int /\ (Rank(a, q) = Rank(a, r) => q = r)
  BY DEF Ranked
<1>4. CASE Rank(a, q) = Rank(a, r) BY <1>1, <1>3, <1>4
<1>5. CASE Rank(a, q) < Rank(a, r) BY <1>1, <1>2, <1>3, <1>5
<1>6. CASE Rank(a, r) < Rank(a, q) BY <1>1, <1>2, <1>3, <1>6
<1> QED BY <1>3, <1>4, <1>5, <1>6

\* The order of the rows is strict and total.
LEMMA EarlierIsOrder ==
  ASSUME NEW chosen, IsFiniteSet(chosen), NEW a, NEW b, Ranked(chosen, a, b)
  PROVE  /\ \A q \in chosen : ~ Earlier(chosen, q, q, a, b)
         /\ \A p, q, r \in chosen :
              Earlier(chosen, p, q, a, b) /\ Earlier(chosen, q, r, a, b) => Earlier(chosen, p, r, a, b)
<1>1. \A q \in chosen : Offset(chosen, q, a) \in Nat /\ RepoRank(b, RepoOf(q)) \in Int
  BY OffsetsNumber DEF Ranked
<1> QED BY <1>1 DEF Earlier

\* The first n rows in turn are n rows.
LEMMA RoundRobinSize ==
  ASSUME NEW chosen, IsFiniteSet(chosen), NEW a, NEW b, Ranked(chosen, a, b),
         NEW n \in Nat, n <= Cardinality(chosen)
  PROVE  /\ RoundRobin(chosen, n, a, b) \subseteq chosen
         /\ Cardinality(RoundRobin(chosen, n, a, b)) = n
<1> DEFINE L == {p \in chosen \X chosen : Earlier(chosen, p[1], p[2], a, b)}
<1>1. \A q, r \in chosen : <<q, r>> \in L <=> Earlier(chosen, q, r, a, b) OBVIOUS
<1>2. \A r \in chosen : Before(L, chosen, r) = {q \in chosen : Earlier(chosen, q, r, a, b)}
  BY <1>1 DEF Before
<1> HIDE DEF L
<1>3. \A q, r \in chosen : q = r \/ Earlier(chosen, q, r, a, b) \/ Earlier(chosen, r, q, a, b)
  <2> TAKE q, r \in chosen
  <2>1. /\ Offset(chosen, q, a) \in Nat /\ Offset(chosen, r, a) \in Nat
        /\ RepoRank(b, RepoOf(q)) \in Int /\ RepoRank(b, RepoOf(r)) \in Int
    BY OffsetsNumber DEF Ranked
  <2>2. CASE Offset(chosen, q, a) = Offset(chosen, r, a) /\ RepoRank(b, RepoOf(q)) = RepoRank(b, RepoOf(r))
    <3>1. RepoOf(q) = RepoOf(r) BY <2>2 DEF Ranked
    <3> QED BY <2>2, <3>1, OffsetsNumber
  <2>3. CASE ~ (Offset(chosen, q, a) = Offset(chosen, r, a) /\ RepoRank(b, RepoOf(q)) = RepoRank(b, RepoOf(r)))
    BY <2>1, <2>3 DEF Earlier
  <2> QED BY <2>2, <2>3
<1>4. StrictOrder(L, chosen)
  <2>1. /\ \A q \in chosen : ~ Earlier(chosen, q, q, a, b)
        /\ \A p, q, r \in chosen :
             Earlier(chosen, p, q, a, b) /\ Earlier(chosen, q, r, a, b) => Earlier(chosen, p, r, a, b)
    BY EarlierIsOrder
  <2> QED BY <1>1, <1>3, <2>1 DEF StrictOrder
<1>5. RoundRobin(chosen, n, a, b) = {r \in chosen : Cardinality(Before(L, chosen, r)) < n}
  BY <1>2 DEF RoundRobin
<1>6. Cardinality(RoundRobin(chosen, n, a, b)) = Least(n, Cardinality(chosen))
  BY <1>4, <1>5, PrefixSize
<1>7. Cardinality(chosen) \in Nat BY FS_CardinalityType
<1> QED BY <1>5, <1>6, <1>7 DEF Least

\* With a row, everything before it is among the first n.
LEMMA RoundRobinIsPrefix ==
  ASSUME NEW chosen, IsFiniteSet(chosen), NEW a, NEW b, Ranked(chosen, a, b), NEW n \in Nat,
         NEW r \in RoundRobin(chosen, n, a, b), NEW q \in chosen, Earlier(chosen, q, r, a, b)
  PROVE  q \in RoundRobin(chosen, n, a, b)
<1> DEFINE P(x) == {p \in chosen : Earlier(chosen, p, x, a, b)}
<1>1. r \in chosen /\ Cardinality(P(r)) < n BY DEF RoundRobin
<1>2. P(q) \subseteq P(r)
  <2>1. \A p \in chosen : Earlier(chosen, p, q, a, b) => Earlier(chosen, p, r, a, b)
    BY <1>1, EarlierIsOrder
  <2> QED BY <2>1
<1>3. IsFiniteSet(P(r)) /\ IsFiniteSet(P(q))
  <2>1. P(r) \subseteq chosen /\ P(q) \subseteq chosen OBVIOUS
  <2>2. IsFiniteSet(P(r)) BY <2>1, FS_Subset
  <2>3. IsFiniteSet(P(q)) BY <2>1, FS_Subset
  <2> QED BY <2>2, <2>3
<1>4. Cardinality(P(q)) <= Cardinality(P(r)) BY <1>2, <1>3, FS_Subset
<1>5. Cardinality(P(q)) \in Nat /\ Cardinality(P(r)) \in Nat BY <1>3, FS_CardinalityType
<1>6. Cardinality(P(q)) < n BY <1>1, <1>4, <1>5
<1> QED BY <1>6 DEF RoundRobin

\* At most c + 1 rows of a repository have an offset up to c.
LEMMA FewOffsets ==
  ASSUME NEW chosen, IsFiniteSet(chosen), NEW a, NEW b, Ranked(chosen, a, b), NEW c \in Nat,
         NEW T, T \subseteq chosen, NEW j, \A q \in T : RepoOf(q) = j /\ Offset(chosen, q, a) <= c
  PROVE  Cardinality(T) <= c + 1
<1> DEFINE f == [q \in T |-> Offset(chosen, q, a)]
<1>1. \A q \in T : Offset(chosen, q, a) \in 0 .. c BY OffsetsNumber
<1>2. f \in Injection(T, 0 .. c)
  <2>1. f \in [T -> 0 .. c] BY <1>1
  <2>2. \A q, r \in T : f[q] = f[r] => q = r BY OffsetsNumber
  <2> QED BY <2>1, <2>2 DEF Injection, IsInjective
<1>3. IsFiniteSet(0 .. c) /\ Cardinality(0 .. c) = c + 1
  <2>1. IsFiniteSet(0 .. c) /\ Cardinality(0 .. c) = IF 0 > c THEN 0 ELSE c - 0 + 1
    BY FS_Interval
  <2> QED BY <2>1
<1> HIDE DEF f
<1> QED BY <1>2, <1>3, FS_Injection

\* A prefix of the round-robin order is as even as its length allows
\* (swesmith_data.py:156, prepare_coding_opd_eval.py:106).
THEOREM RoundRobinIsEven ==
  ASSUME NEW chosen, IsFiniteSet(chosen), NEW a, NEW b, Ranked(chosen, a, b),
         NEW n \in Nat, NEW m \in Nat, n <= m, NEW j, NEW k
  PROVE  LET some == RoundRobin(chosen, n, a, b)
             all == RoundRobin(chosen, m, a, b)
         IN /\ some \subseteq all
            /\ Count(some, k) + 1 >= Count(some, j) \/ Count(some, k) = Count(all, k)
<1> DEFINE some == RoundRobin(chosen, n, a, b)
           all == RoundRobin(chosen, m, a, b)
<1>1. some \subseteq all
  <2>1. \A r \in chosen : IsFiniteSet({q \in chosen : Earlier(chosen, q, r, a, b)})
    <3> TAKE r \in chosen
    <3>1. {q \in chosen : Earlier(chosen, q, r, a, b)} \subseteq chosen OBVIOUS
    <3> QED BY <3>1, FS_Subset
  <2>2. \A r \in chosen : Cardinality({q \in chosen : Earlier(chosen, q, r, a, b)}) \in Nat
    BY <2>1, FS_CardinalityType
  <2> QED BY <2>2 DEF RoundRobin
<1>2. some \subseteq chosen /\ all \subseteq chosen BY DEF RoundRobin
<1>3. /\ IsFiniteSet(OfRepo(some, k)) /\ IsFiniteSet(OfRepo(some, j))
      /\ Count(some, k) \in Nat /\ Count(some, j) \in Nat
  <2>1. OfRepo(some, k) \subseteq chosen /\ OfRepo(some, j) \subseteq chosen BY <1>2 DEF OfRepo
  <2>2. IsFiniteSet(OfRepo(some, k)) BY <2>1, FS_Subset
  <2>3. IsFiniteSet(OfRepo(some, j)) BY <2>1, FS_Subset
  <2> QED BY <2>2, <2>3, FS_CardinalityType DEF Count
<1> HIDE DEF some, all
<1>4. CASE OfRepo(all, k) \subseteq some
  <2>1. OfRepo(all, k) = OfRepo(some, k) BY <1>1, <1>4 DEF OfRepo
  <2> QED BY <1>1, <2>1 DEF Count, some, all
<1>5. CASE \E r \in OfRepo(all, k) : r \notin some
  <2> DEFINE rest == {r \in OfRepo(chosen, k) : r \notin some}
             S == {Offset(chosen, r, a) : r \in rest}
  <2>0. rest \subseteq chosen /\ rest # {} /\ \A r \in rest : RepoOf(r) = k BY <1>2, <1>5 DEF OfRepo
  <2>1. S \subseteq Nat /\ S # {} BY <2>0, OffsetsNumber
  <2>2. PICK o \in S : \A p \in S : o <= p
    <3> HIDE DEF S
    <3> QED BY <2>1, LeastElement
  <2>3. PICK r \in rest : o = Offset(chosen, r, a) OBVIOUS
  <2>4. o \in Nat /\ r \in chosen /\ r \notin some /\ RepoOf(r) = k BY <2>0, <2>1, <2>3
  <2>5. Ahead(chosen, r, a) \subseteq OfRepo(some, k)
    <3> SUFFICES ASSUME NEW q \in Ahead(chosen, r, a) PROVE q \in OfRepo(some, k)
      OBVIOUS
    <3>1. q \in chosen /\ RepoOf(q) = k /\ Rank(a, q) < Rank(a, r) BY <2>4 DEF Ahead, OfRepo
    <3>2. Offset(chosen, q, a) \in Nat /\ Offset(chosen, q, a) < o BY <2>3, <2>4, <3>1, OffsetsNumber
    <3>3. q \notin rest BY <2>2, <2>4, <3>2
    <3> QED BY <3>1, <3>3 DEF OfRepo
  <2>6. o <= Count(some, k)
    <3>1. Cardinality(Ahead(chosen, r, a)) <= Cardinality(OfRepo(some, k)) BY <1>3, <2>5, FS_Subset
    <3> QED BY <2>3, <3>1 DEF Count, Offset, Ahead
  <2>7. \A q \in OfRepo(some, j) : q \in chosen /\ RepoOf(q) = j /\ Offset(chosen, q, a) <= o
    <3> SUFFICES ASSUME NEW q \in OfRepo(some, j), ~ (Offset(chosen, q, a) <= o) PROVE FALSE
      BY <1>2 DEF OfRepo
    <3>1. q \in some /\ q \in chosen BY <1>2 DEF OfRepo
    <3>2. Offset(chosen, q, a) \in Nat BY <3>1, OffsetsNumber
    <3>3. Earlier(chosen, r, q, a, b) BY <2>3, <2>4, <3>2 DEF Earlier
    <3>4. r \in some BY <2>4, <3>1, <3>3, RoundRobinIsPrefix DEF some
    <3> QED BY <2>4, <3>4
  <2>8. Cardinality(OfRepo(some, j)) <= o + 1
    <3> DEFINE T == OfRepo(some, j)
    <3>1. T \subseteq chosen /\ \A q \in T : RepoOf(q) = j /\ Offset(chosen, q, a) <= o BY <2>7
    <3> HIDE DEF T
    <3>2. Cardinality(T) <= o + 1 BY <2>4, <3>1, FewOffsets
    <3> QED BY <3>2 DEF T
  <2>9. Count(some, k) + 1 >= Count(some, j) BY <1>3, <2>4, <2>6, <2>8 DEF Count
  <2> QED BY <1>1, <2>9 DEF some, all
<1> QED BY <1>4, <1>5
-------------------------------------------------------------------------------
(* What the scripts select from a source. *)

\* The rows of a source have hashes of their own, and so have some of them.
LEMMA SourceRows ==
  ASSUME NEW pool \in Pools, NEW rows, rows \subseteq pool
  PROVE  /\ Collection(rows)
         /\ \A label \in {"r2e-task", "verified-task", "dev", "train", "pilot", "smoke", "debug-extra",
                          "eval-task"} : Distinct(rows, label)
         /\ Ranked(rows, "eval-task", "eval-order")
         /\ Ranked(rows, "verified-task", "verified-repo")
<1>1. \A r \in rows : r \in pool OBVIOUS
<1>2. IsFiniteSet(pool) /\ \A r \in pool : RepoOf(r) \in Int BY BundleConstants
<1>3. Collection(rows) BY <1>1, <1>2, FS_Subset DEF Collection
<1>4. \A label \in {"r2e-task", "verified-task", "dev", "train", "pilot", "smoke", "debug-extra",
                    "eval-task"} : Distinct(rows, label)
  BY <1>1, RanksDiffer DEF Distinct
<1>5. Ranked(rows, "eval-task", "eval-order") /\ Ranked(rows, "verified-task", "verified-repo")
  BY <1>1, RanksDiffer DEF Ranked
<1> QED BY <1>3, <1>4, <1>5

\* The R2E splits have their sizes, nest, and keep the development rows apart
\* (r2e_data.py:159).
LEMMA SplitsSize ==
  ASSUME NEW pool \in Pools, SplitSizes.train + SplitSizes.dev <= Cardinality(pool)
  PROVE  LET split == Splits(pool, SplitSizes)
         IN /\ Cardinality(split.train) = SplitSizes.train /\ Cardinality(split.dev) = SplitSizes.dev
            /\ Cardinality(split.pilot) = SplitSizes.pilot /\ Cardinality(split.debug) = SplitSizes.debug
            /\ Cardinality(split.smoke) = SplitSizes.smoke
            /\ split.train \cap split.dev = {} /\ split.pilot \subseteq split.train
            /\ split.debug \subseteq split.pilot /\ split.smoke \subseteq split.debug
            /\ \A k \in ReposOf(pool) :
                 LET share == SplitSizes.dev * Cardinality(OfRepo(pool, k))
                     seats == Cardinality(OfRepo(split.dev, k)) * Cardinality(pool)
                 IN share - seats < Cardinality(pool) /\ seats - share < Cardinality(pool)
<1> DEFINE split == Splits(pool, SplitSizes)
           dev == Stratified(pool, SplitSizes.dev, "dev")
           rest == pool \ dev
           train == Stratified(rest, SplitSizes.train, "train")
           pilot == Stratified(train, SplitSizes.pilot, "pilot")
           smoke == Stratified(pilot, SplitSizes.smoke, "smoke")
           more == pilot \ smoke
           added == Stratified(more, SplitSizes.debug - SplitSizes.smoke, "debug-extra")
           extra == IF pilot = smoke THEN {} ELSE added
           n == Cardinality(pool)
           s == SplitSizes
<1>0. /\ s.train \in Nat /\ s.dev \in Nat /\ s.pilot \in Nat /\ s.debug \in Nat /\ s.smoke \in Nat
      /\ s.smoke <= s.debug /\ s.debug <= s.pilot /\ s.pilot <= s.train /\ s.train + s.dev <= n
  BY SplitsNest
<1>1. /\ split.train = train /\ split.dev = dev /\ split.pilot = pilot
      /\ split.debug = smoke \cup extra /\ split.smoke = smoke
  BY DEF Splits, WithoutDev
<1>2. Collection(pool) /\ Distinct(pool, "dev") /\ n \in Nat
  <2>1. pool \subseteq pool OBVIOUS
  <2>2. Collection(pool) /\ Distinct(pool, "dev") BY <2>1, SourceRows
  <2> QED BY <2>2, FS_CardinalityType DEF Collection
<1> HIDE DEF split, s
<1>3. /\ dev \subseteq pool /\ Cardinality(dev) = s.dev /\ IsFiniteSet(dev)
      /\ \A k \in ReposOf(pool) :
           /\ s.dev * Cardinality(OfRepo(pool, k)) - Cardinality(OfRepo(dev, k)) * n < n
           /\ Cardinality(OfRepo(dev, k)) * n - s.dev * Cardinality(OfRepo(pool, k)) < n
  <2>1. s.dev <= n BY <1>0, <1>2
  <2> QED BY <1>0, <1>2, <2>1, StratifiedSize DEF Collection, s
<1> HIDE DEF dev
<1>4. rest \subseteq pool /\ Cardinality(rest) = n - s.dev
  <2>1. IsFiniteSet(pool) BY <1>2 DEF Collection
  <2>2. Cardinality(rest) = n - Cardinality(pool \cap dev) BY <2>1, FS_Difference
  <2>3. pool \cap dev = dev BY <1>3
  <2> QED BY <1>3, <2>2, <2>3
<1> HIDE DEF n
<1>5. train \subseteq rest /\ Cardinality(train) = s.train
  <2> HIDE DEF rest
  <2>1. Collection(rest) /\ Distinct(rest, "train") BY <1>4, SourceRows
  <2>2. s.train <= Cardinality(rest) BY <1>0, <1>2, <1>4
  <2> QED BY <1>0, <2>1, <2>2, StratifiedSize DEF s
<1>6. train \subseteq pool /\ train \cap dev = {} BY <1>5
<1> HIDE DEF rest, train
<1>7. pilot \subseteq train /\ pilot \subseteq pool /\ Cardinality(pilot) = s.pilot
  <2>1. Collection(train) /\ Distinct(train, "pilot") BY <1>6, SourceRows
  <2>2. s.pilot <= Cardinality(train) BY <1>0, <1>5
  <2> QED BY <1>0, <1>6, <2>1, <2>2, StratifiedSize DEF s
<1> HIDE DEF pilot
<1>8. smoke \subseteq pilot /\ Cardinality(smoke) = s.smoke /\ IsFiniteSet(smoke) /\ IsFiniteSet(pilot)
  <2>1. Collection(pilot) /\ Distinct(pilot, "smoke") BY <1>7, SourceRows
  <2>2. s.smoke <= Cardinality(pilot) BY <1>0, <1>7
  <2> QED BY <1>0, <2>1, <2>2, StratifiedSize DEF s, Collection
<1> HIDE DEF smoke
<1>9. more \subseteq pool /\ Cardinality(more) = s.pilot - s.smoke
  <2>1. Cardinality(more) = Cardinality(pilot) - Cardinality(pilot \cap smoke) BY <1>8, FS_Difference
  <2>2. pilot \cap smoke = smoke BY <1>8
  <2> QED BY <1>7, <1>8, <2>1, <2>2
<1>10. added \subseteq more /\ Cardinality(added) = s.debug - s.smoke /\ IsFiniteSet(added)
  <2> HIDE DEF more
  <2>1. Collection(more) /\ Distinct(more, "debug-extra") BY <1>9, SourceRows
  <2>2. s.debug - s.smoke \in Nat /\ s.debug - s.smoke <= Cardinality(more) BY <1>0, <1>9
  <2> QED BY <2>1, <2>2, StratifiedSize DEF s, Collection
<1> HIDE DEF added
<1>11. extra \subseteq more /\ Cardinality(extra) = s.debug - s.smoke /\ IsFiniteSet(extra)
  <2>1. CASE pilot = smoke
    <3>1. s.pilot = s.smoke BY <1>7, <1>8, <2>1
    <3>2. s.debug - s.smoke = 0 BY <1>0, <3>1
    <3> QED BY <2>1, <3>2, FS_EmptySet
  <2>2. CASE pilot # smoke BY <1>10, <2>2
  <2> QED BY <2>1, <2>2
<1> HIDE DEF extra
<1>12. Cardinality(smoke \cup extra) = s.debug /\ smoke \cup extra \subseteq pilot
  <2>1. smoke \cap extra = {} BY <1>11
  <2>2. Cardinality(smoke \cup extra) = Cardinality(smoke) + Cardinality(extra) - 0
    BY <1>8, <1>11, <2>1, FS_Union, FS_EmptySet
  <2> QED BY <1>0, <1>8, <1>11, <2>2
<1> QED BY <1>1, <1>3, <1>5, <1>6, <1>7, <1>8, <1>12 DEF split, s, n

-------------------------------------------------------------------------------
(* What the files of a bundle are. *)

FileNames ==
  {"manifest", "r2e_small", "r2e_large", "verified", "verified_larger", "tura", "train", "dev",
   "pilot", "debug", "smoke", "debug_repeat", "quick", "full", "smoke_swesmith",
   "fast_swesmith", "full_swesmith", "fast_verified", "full_verified"}

Frozen == Kept(FrozenManifests[source])

SmithTrained == DebugTasks(source, Repositories, Training)
SmithTiers == EvalTiers(source, SmithTrained, Repositories, Tiers)
SmithVerified == LegacyVerified(source, LegacySizes)
SmithRows ==
  [smoke_swesmith |-> SmithTiers.smoke, fast_swesmith |-> SmithTiers.fast,
   full_swesmith |-> SmithTiers.full, fast_verified |-> SmithVerified.fast,
   full_verified |-> SmithVerified.full]

\* The quick split of a manifest is a frozen panel.
QuickIsFrozen(manifest) ==
  {"quick", "full"} \subseteq DOMAIN manifest =>
    \E panel \in {"verified", "verified_larger", "tura"} :
      panel \in DOMAIN Frozen /\ manifest["quick"].rows = Frozen[panel].rows

\* The rows of every split and tier are enough.
SplitRows == Splits(source, SplitSizes)
SplitNames == {"train", "dev", "pilot", "debug", "smoke"}
EnoughForSplits == SplitSizes.train + SplitSizes.dev <= Cardinality(source)
EnoughForTiers == Cardinality(SmithTiers.full) = Tiers.full /\ LegacySizes.full <= Cardinality(source)

\* A script only ever writes these contents.
Right(dir, file, bytes) ==
  /\ dir = "manifests" => Freezable(source) /\ file \in DOMAIN Frozen /\ bytes = Frozen[file]
  /\ dir = "splits" /\ file \in SplitNames => EnoughForSplits /\ bytes.rows = SplitRows[file]
  /\ dir \in {"external", "canary"} =>
       pipeline = "evaluation" /\ (file = "manifest" => QuickIsFrozen(bytes))
  /\ dir = "smith_train" /\ file = "debug" => bytes.rows = SmithTrained
  /\ dir = "smith_eval" /\ file \in DOMAIN SmithRows =>
       EnoughForTiers /\ bytes.rows = SmithRows[file]

DiskIsRight ==
  /\ disk = [d \in Directories |-> disk[d]]
  /\ \A dir \in Directories : \A file \in DOMAIN disk[dir] :
       disk[dir][file] = Torn \/ Right(dir, file, disk[dir][file])
  /\ pipeline = "evaluation" => disk["manifests"] = Frozen

ScriptIsRight ==
  script # Nothing =>
    /\ script = [dir |-> script.dir, left |-> script.left, bytes |-> script.bytes]
    /\ script.dir \in Directories /\ script.left \in Seq(FileNames) /\ script.left # <<>>
    /\ script.dir = "manifests" => pipeline = "freeze"
    /\ \A i \in 1 .. Len(script.left) : Right(script.dir, script.left[i], script.bytes[script.left[i]])

\* An evaluation has what is on disk, unless that has been written since.
EvalIsRight ==
  eval # Nothing =>
    /\ eval = [at |-> eval.at, dir |-> eval.dir, split |-> eval.split, bytes |-> eval.bytes,
                manifest |-> eval.manifest, replaced |-> eval.replaced]
    /\ eval.dir \in {"external", "canary"} /\ eval.replaced \in BOOLEAN
    /\ eval.at # "manifest" => IdentifiersMatch(eval.bytes, eval.manifest[eval.split])
    /\ ~ eval.replaced =>
         /\ eval.bytes = disk[eval.dir][eval.split]
         /\ eval.at # "manifest" => eval.manifest = disk[eval.dir]["manifest"]
         /\ eval.at = "running" => eval.bytes = eval.manifest[eval.split]

ResultIsRight ==
  result # Nothing /\ ~ result.replaced =>
    result.bytes = result.validated[result.split] /\ result.hash = result.validated

SummaryIsRight ==
  summary # Nothing =>
    /\ pipeline = "evaluation"
    /\ summary.full.rows = summary.manifest["full"].rows
    /\ ~ summary.replaced => summary.full = summary.manifest["full"]
    /\ \E panel \in {"verified", "verified_larger", "tura"} :
         panel \in DOMAIN Frozen /\ summary.quick = Frozen[panel].rows

SourceIsRight == source \in Pools /\ (pipeline = "freeze" => Freezable(source))

BundleInv ==
  /\ SourceIsRight
  /\ DiskIsRight /\ ScriptIsRight /\ EvalIsRight /\ ResultIsRight /\ SummaryIsRight

\* Nothing is written before a script starts.
LEMMA BundlesStart == BundleInit => BundleInv
<1> SUFFICES ASSUME BundleInit PROVE BundleInv OBVIOUS
<1> USE DEF BundleInit
<1>1. SourceIsRight BY DEF SourceIsRight
<1>2. DiskIsRight
  <2>1. disk = [d \in Directories |-> disk[d]] OBVIOUS
  <2>2. \A dir \in Directories :
          \/ disk[dir] = <<>>
          \/ dir = "manifests" /\ pipeline \in {"training", "evaluation"} /\ disk[dir] = Frozen
    BY DEF Nothing, Frozen
  <2>3. ASSUME NEW dir \in Directories, NEW file \in DOMAIN disk[dir]
        PROVE  disk[dir][file] = Torn \/ Right(dir, file, disk[dir][file])
    <3>1. dir = "manifests" /\ pipeline \in {"training", "evaluation"} /\ disk[dir] = Frozen BY <2>2
    <3> QED BY <3>1 DEF Right
  <2>4. pipeline = "evaluation" => disk["manifests"] = Frozen BY DEF Frozen, Directories
  <2> QED BY <2>1, <2>3, <2>4 DEF DiskIsRight
<1>3. ScriptIsRight /\ EvalIsRight /\ ResultIsRight /\ SummaryIsRight
  BY DEF ScriptIsRight, EvalIsRight, ResultIsRight, SummaryIsRight
<1> QED BY <1>1, <1>2, <1>3 DEF BundleInv

\* What is right does not change: it depends on the source and the pipeline.
LEMMA RightStays ==
  ASSUME UNCHANGED <<pipeline, source>>
  PROVE  /\ Frozen' = Frozen
         /\ \A dir, file, bytes : Right(dir, file, bytes)' <=> Right(dir, file, bytes)
BY DEF Frozen, Right, QuickIsFrozen, SmithRows, SmithTiers, SmithVerified, SmithTrained,
       SplitRows, EnoughForSplits, EnoughForTiers

\* A script that starts writes nothing yet.
LEMMA StartKeeps ==
  ASSUME BundleInv, NEW dir, NEW files, NEW bytes, Start(dir, files, bytes),
         dir \in Directories, dir = "manifests" => pipeline = "freeze",
         files \in Seq(FileNames), files # <<>>,
         \A i \in 1 .. Len(files) : Right(dir, files[i], bytes[files[i]])
  PROVE  BundleInv'
<1>1. UNCHANGED <<pipeline, source, disk, eval, result, summary>> BY DEF Start
<1>2. Frozen' = Frozen /\ \A d, f, b : Right(d, f, b)' <=> Right(d, f, b) BY <1>1, RightStays
<1>3. DiskIsRight' BY <1>1, <1>2 DEF BundleInv, DiskIsRight
<1>4. ScriptIsRight'
  <2>1. script' = [dir |-> dir, left |-> files, bytes |-> bytes] BY DEF Start
  <2> QED BY <1>1, <1>2, <2>1 DEF ScriptIsRight
<1>5. EvalIsRight' BY <1>1 DEF BundleInv, EvalIsRight
<1>6. ResultIsRight' /\ SummaryIsRight' /\ SourceIsRight'
  BY <1>1, <1>2 DEF BundleInv, ResultIsRight, SummaryIsRight, SourceIsRight
<1> QED BY <1>3, <1>4, <1>5, <1>6 DEF BundleInv

\* The manifest of a bundle describes its files.
LEMMA StartBundleKeeps ==
  ASSUME BundleInv, NEW dir, NEW files, NEW bytes, StartBundle(dir, files, bytes),
         dir \in Directories, dir # "manifests", files \in Seq(FileNames),
         \A i \in 1 .. Len(files) :
           files[i] # "manifest" /\ files[i] \in DOMAIN bytes /\ Right(dir, files[i], bytes[files[i]]),
         Right(dir, "manifest", bytes)
  PROVE  BundleInv'
<1> DEFINE all == Append(files, "manifest")
           b == With(bytes, "manifest", bytes)
<1>1. Start(dir, all, b) BY DEF StartBundle
<1>2. /\ all \in Seq(FileNames) /\ Len(all) = Len(files) + 1
      /\ (\A i \in 1 .. Len(files) : all[i] = files[i]) /\ all[Len(files) + 1] = "manifest"
  <2>1. "manifest" \in FileNames BY DEF FileNames
  <2> QED BY <2>1, AppendProperties
<1>3. Len(files) \in Nat BY LenProperties
<1>4. b["manifest"] = bytes /\ \A f \in DOMAIN bytes : f # "manifest" => b[f] = bytes[f] BY DEF With
<1> HIDE DEF all, b
<1>5. ASSUME NEW i \in 1 .. Len(all) PROVE Right(dir, all[i], b[all[i]])
  <2>1. CASE i \in 1 .. Len(files) BY <1>2, <1>4, <2>1
  <2>2. CASE i = Len(files) + 1 BY <1>2, <1>4, <2>2
  <2> QED BY <1>2, <1>3, <2>1, <2>2
<1>6. all # <<>> BY <1>2, <1>3, EmptySeq
<1> QED BY <1>1, <1>2, <1>5, <1>6, StartKeeps

\* One more file is on disk, whole or torn.
LEMMA WriteKeeps ==
  ASSUME BundleInv, NEW file, NEW bytes, script # Nothing,
         bytes = Torn \/ Right(script.dir, file, bytes), Right(script.dir, file, script.bytes[file]),
         disk' = [disk EXCEPT ![script.dir] = With(@, file, bytes)], eval' = Noticed(script.dir),
         UNCHANGED <<pipeline, source, result, summary>>, ScriptIsRight'
  PROVE  BundleInv'
<1>1. Frozen' = Frozen /\ \A d, f, b : Right(d, f, b)' <=> Right(d, f, b) BY RightStays
<1>2. script.dir \in Directories /\ DiskIsRight /\ (script.dir = "manifests" => pipeline = "freeze")
  BY DEF BundleInv, ScriptIsRight
<1>3. /\ disk'[script.dir] = With(disk[script.dir], file, bytes)
      /\ \A d \in Directories : d # script.dir => disk'[d] = disk[d]
      /\ disk' = [d \in Directories |-> disk'[d]]
  BY <1>2 DEF DiskIsRight
<1>4. /\ disk'[script.dir][file] = bytes /\ file \in DOMAIN disk'[script.dir]
      /\ \A f \in DOMAIN disk'[script.dir] :
           f = file \/ (f \in DOMAIN disk[script.dir] /\ disk'[script.dir][f] = disk[script.dir][f])
  BY <1>3 DEF With
<1>5. DiskIsRight'
  <2>1. ASSUME NEW d \in Directories, NEW f \in DOMAIN disk'[d]
        PROVE  disk'[d][f] = Torn \/ Right(d, f, disk'[d][f])
    <3>1. CASE d = script.dir /\ f = file BY <1>4, <3>1
    <3>2. CASE d = script.dir /\ f # file BY <1>2, <1>4, <2>1, <3>2 DEF DiskIsRight
    <3>3. CASE d # script.dir BY <1>2, <1>3, <2>1, <3>3 DEF DiskIsRight
    <3> QED BY <3>1, <3>2, <3>3
  <2>2. pipeline = "evaluation" => disk'["manifests"] = Frozen
    BY <1>2, <1>3 DEF DiskIsRight, Directories
  <2> QED BY <1>1, <1>3, <2>1, <2>2 DEF DiskIsRight
<1>6. EvalIsRight'
  <2>1. CASE eval # Nothing /\ eval.dir = script.dir
    <3>1. eval' = [eval EXCEPT !.replaced = TRUE] BY <2>1 DEF Noticed
    <3> QED BY <2>1, <3>1 DEF BundleInv, EvalIsRight
  <2>2. CASE ~ (eval # Nothing /\ eval.dir = script.dir)
    <3>1. eval' = eval BY <2>2 DEF Noticed
    <3>2. eval # Nothing => disk'[eval.dir] = disk[eval.dir]
      BY <1>3, <2>2 DEF BundleInv, EvalIsRight, Directories
    <3> QED BY <3>1, <3>2 DEF BundleInv, EvalIsRight
  <2> QED BY <2>1, <2>2
<1>7. ResultIsRight' /\ SummaryIsRight' /\ SourceIsRight'
  BY <1>1 DEF BundleInv, ResultIsRight, SummaryIsRight, SourceIsRight
<1> QED BY <1>5, <1>6, <1>7 DEF BundleInv

\* The next file of the script.
LEMMA HeadOfScript ==
  ASSUME BundleInv, script # Nothing
  PROVE  /\ Head(script.left) = script.left[1]
         /\ Right(script.dir, Head(script.left), script.bytes[Head(script.left)])
         /\ Tail(script.left) \in Seq(FileNames)
         /\ \A i \in 1 .. Len(Tail(script.left)) :
              i + 1 \in 1 .. Len(script.left) /\ Tail(script.left)[i] = script.left[i + 1]
<1>1. /\ script.left \in Seq(FileNames) /\ script.left # <<>>
      /\ \A i \in 1 .. Len(script.left) : Right(script.dir, script.left[i], script.bytes[script.left[i]])
  BY DEF BundleInv, ScriptIsRight
<1> DEFINE s == script.left
<1>2. /\ Tail(s) \in Seq(FileNames) /\ Len(Tail(s)) = Len(s) - 1
      /\ \A i \in 1 .. Len(Tail(s)) : Tail(s)[i] = s[i + 1]
  BY <1>1, HeadTailProperties
<1>6. Head(s) = s[1] BY <1>1
<1>3. Len(s) \in Nat /\ Len(s) # 0 BY <1>1, LenProperties, EmptySeq
<1>4. 1 \in 1 .. Len(s) BY <1>3
<1>5. \A i \in 1 .. Len(Tail(s)) : i + 1 \in 1 .. Len(s) BY <1>2, <1>3
<1> QED BY <1>1, <1>2, <1>4, <1>5, <1>6

\* A script writes what is right.
LEMMA WriteFileKeeps == BundleInv /\ WriteFile => BundleInv'
<1> SUFFICES ASSUME BundleInv, WriteFile PROVE BundleInv'
  OBVIOUS
<1> DEFINE file == Head(script.left)
           left == Tail(script.left)
<1>0. /\ script # Nothing
      /\ disk' = [disk EXCEPT ![script.dir] = With(@, file, script.bytes[file])]
      /\ script' = IF left = <<>> THEN Nothing ELSE [script EXCEPT !.left = left]
      /\ eval' = Noticed(script.dir)
      /\ UNCHANGED <<pipeline, source, result, summary>>
  BY DEF WriteFile
<1>1. Right(script.dir, file, script.bytes[file]) BY <1>0, HeadOfScript
<1>2. ScriptIsRight'
  <2>1. \A d, f, b : Right(d, f, b)' <=> Right(d, f, b) BY <1>0, RightStays
  <2>2. CASE left = <<>> BY <1>0, <2>2 DEF ScriptIsRight
  <2>3. CASE left # <<>>
    <3>1. /\ script = [dir |-> script.dir, left |-> script.left, bytes |-> script.bytes]
          /\ script.dir \in Directories /\ (script.dir = "manifests" => pipeline = "freeze")
          /\ \A i \in 1 .. Len(script.left) : Right(script.dir, script.left[i], script.bytes[script.left[i]])
      BY <1>0 DEF BundleInv, ScriptIsRight
    <3>2. left \in Seq(FileNames)
          /\ \A i \in 1 .. Len(left) : i + 1 \in 1 .. Len(script.left) /\ left[i] = script.left[i + 1]
      BY <1>0, HeadOfScript
    <3> HIDE DEF left
    <3>3. script' = [dir |-> script.dir, left |-> left, bytes |-> script.bytes] BY <1>0, <2>3, <3>1
    <3>4. \A i \in 1 .. Len(left) : Right(script.dir, left[i], script.bytes[left[i]]) BY <3>1, <3>2
    <3> QED BY <1>0, <2>1, <2>3, <3>1, <3>2, <3>3, <3>4 DEF ScriptIsRight
  <2> QED BY <2>2, <2>3
<1> HIDE DEF file, left
<1> QED BY <1>0, <1>1, <1>2, WriteKeeps

\* A script that dies leaves at most one torn file.
LEMMA KilledKeeps == BundleInv /\ Killed => BundleInv'
<1> SUFFICES ASSUME BundleInv, Killed PROVE BundleInv'
  OBVIOUS
<1> DEFINE file == Head(script.left)
<1>0. /\ script # Nothing /\ script' = Nothing /\ UNCHANGED <<pipeline, source, result, summary>>
      /\ \/ UNCHANGED <<disk, eval>>
         \/ disk' = [disk EXCEPT ![script.dir] = With(@, file, Torn)] /\ eval' = Noticed(script.dir)
  BY DEF Killed
<1>1. Right(script.dir, file, script.bytes[file]) BY <1>0, HeadOfScript
<1>2. ScriptIsRight' BY <1>0 DEF ScriptIsRight
<1> HIDE DEF file
<1>3. CASE UNCHANGED <<disk, eval>>
  <2>1. Frozen' = Frozen /\ \A d, f, b : Right(d, f, b)' <=> Right(d, f, b) BY <1>0, RightStays
  <2>2. DiskIsRight' BY <1>0, <1>3, <2>1 DEF BundleInv, DiskIsRight
  <2>3. EvalIsRight' BY <1>3 DEF BundleInv, EvalIsRight
  <2>4. ResultIsRight' /\ SummaryIsRight' /\ SourceIsRight'
    BY <1>0, <2>1 DEF BundleInv, SourceIsRight, ResultIsRight, SummaryIsRight
  <2> QED BY <1>2, <2>2, <2>3, <2>4 DEF BundleInv
<1>4. CASE disk' = [disk EXCEPT ![script.dir] = With(@, file, Torn)] /\ eval' = Noticed(script.dir)
  BY <1>0, <1>1, <1>2, <1>4, WriteKeeps
<1> QED BY <1>0, <1>3, <1>4

\* Freezing writes the manifests, as far as the script gets.
LEMMA FreezeKeeps == BundleInv /\ FreezeManifests => BundleInv'
<1> SUFFICES ASSUME BundleInv, FreezeManifests PROVE BundleInv'
  OBVIOUS
<1> DEFINE m == FrozenManifests[source]
<1>0. pipeline = "freeze" /\ Freeze(m) BY DEF FreezeManifests
<1> DEFINE w == Written(m)
<1>1. Freezable(source) /\ Frozen = [f \in Range(w) |-> m[f]]
  BY <1>0 DEF BundleInv, SourceIsRight, Frozen, Kept
<1> HIDE DEF m
<1>2. "manifests" \in Directories BY DEF Directories
<1>3. w \in Seq(FileNames) /\ (Len(w) = 3 \/ Len(w) = 5)
  <2> DEFINE first == <<"r2e_small", "r2e_large", "verified">>
             more == IF Preserves(m.verified.rows, m.verified_larger.rows)
                       THEN <<"verified_larger", "tura">> ELSE <<>>
  <2>1. first \in Seq(FileNames) /\ Len(first) = 3 BY DEF FileNames
  <2>2. more \in Seq(FileNames) /\ (Len(more) = 0 \/ Len(more) = 2)
    <3>1. <<>> \in Seq(FileNames) /\ Len(<<>>) = 0 BY EmptySeq
    <3>2. /\ <<"verified_larger", "tura">> \in Seq(FileNames)
          /\ Len(<<"verified_larger", "tura">>) = 2
      BY DEF FileNames
    <3>3. more = <<>> \/ more = <<"verified_larger", "tura">> OBVIOUS
    <3> QED BY <3>1, <3>2, <3>3
  <2>3. w = first \o more BY DEF Written
  <2> HIDE DEF first, more, w
  <2>4. first \o more \in Seq(FileNames) /\ Len(first \o more) = Len(first) + Len(more)
    BY <2>1, <2>2, ConcatProperties
  <2>5. CASE Len(more) = 0 BY <2>1, <2>3, <2>4, <2>5
  <2>6. CASE Len(more) = 2 BY <2>1, <2>3, <2>4, <2>6
  <2> QED BY <2>2, <2>5, <2>6
<1> HIDE DEF w
<1>4. /\ Front(w) \in Seq(FileNames) /\ Front(w) # <<>>
      /\ \A i \in 1 .. Len(Front(w)) : i \in 1 .. Len(w) /\ Front(w)[i] = w[i]
  <2> DEFINE n == Len(w) - 1
  <2>1. n \in Int /\ n >= 2 /\ n <= Len(w) BY <1>3
  <2>2. \A i \in 1 .. n : w[i] \in FileNames
    <3>1. \A i \in 1 .. n : i \in 1 .. Len(w) BY <1>3
    <3> HIDE DEF n
    <3> QED BY <1>3, <3>1, ElementOfSeq
  <2> HIDE DEF n
  <2>3. /\ SubSeq(w, 1, n) \in Seq(FileNames) /\ Len(SubSeq(w, 1, n)) = (IF 1 <= n THEN n - 1 + 1 ELSE 0)
        /\ \A i \in 1 .. (n - 1 + 1) : SubSeq(w, 1, n)[i] = w[1 + i - 1]
    BY <2>1, <2>2, SubSeqProperties
  <2>4. Len(SubSeq(w, 1, n)) = n BY <2>1, <2>3
  <2>5. \A i \in 1 .. n : i \in 1 .. Len(w) /\ i \in 1 .. (n - 1 + 1) /\ 1 + i - 1 = i
    <3>1. Len(w) \in Int BY <1>3
    <3> QED BY <2>1, <3>1
  <2>6. \A i \in 1 .. n : SubSeq(w, 1, n)[i] = w[i] BY <2>3, <2>5
  <2>7. SubSeq(w, 1, n) # <<>> BY <2>1, <2>3, <2>4, EmptySeq
  <2> QED BY <2>3, <2>4, <2>5, <2>6, <2>7 DEF Front, n
<1>5. w # <<>>
  <2>1. Len(w) = 3 => Len(w) # 0 OBVIOUS
  <2>2. Len(w) = 5 => Len(w) # 0 OBVIOUS
  <2>3. Len(w) = 3 \/ Len(w) = 5 BY <1>3
  <2>4. Len(w) # 0 BY <2>1, <2>2, <2>3
  <2> QED BY <2>4, EmptySeq
<1>8. \A i \in 1 .. Len(w) : Right("manifests", w[i], m[w[i]])
  <2> TAKE i \in 1 .. Len(w)
  <2>1. DOMAIN w = 1 .. Len(w) BY <1>3
  <2>2. w[i] \in Range(w) BY <2>1 DEF Range
  <2> HIDE DEF w
  <2> QED BY <1>1, <2>2 DEF Right
<1>9. \A i \in 1 .. Len(Front(w)) : Right("manifests", Front(w)[i], m[Front(w)[i]])
  BY <1>4, <1>8
<1>6. CASE Start("manifests", w, m) BY <1>0, <1>2, <1>3, <1>5, <1>6, <1>8, StartKeeps
<1>7. CASE Start("manifests", Front(w), m) BY <1>0, <1>2, <1>4, <1>7, <1>9, StartKeeps
<1> QED BY <1>0, <1>6, <1>7 DEF Freeze, w

\* Training bundles and splits share no directory with evaluations.
LEMMA TrainingKeeps == BundleInv /\ (MaterializeTraining \/ PrepareSplits) => BundleInv'
<1>1. ASSUME BundleInv, MaterializeTraining PROVE BundleInv'
  <2>1. PICK tier \in {"r2e_small", "r2e_large"}, rev \in Revisions :
          StartBundle("train", <<"train">>,
                      [train |-> Bytes(disk["manifests"][tier].rows, rev, "train")])
    BY <1>1 DEF MaterializeTraining
  <2> DEFINE bytes == [train |-> Bytes(disk["manifests"][tier].rows, rev, "train")]
             files == <<"train">>
  <2>2. /\ files \in Seq(FileNames)
        /\ \A i \in 1 .. Len(files) : files[i] = "train"
    BY DEF FileNames
  <2>3. "train" \in DOMAIN bytes OBVIOUS
  <2>4. \A f, b : Right("train", f, b) BY DEF Right
  <2>5. "train" \in Directories BY DEF Directories
  <2>6. StartBundle("train", files, bytes) BY <2>1
  <2> HIDE DEF files, bytes
  <2> QED BY <1>1, <2>2, <2>3, <2>4, <2>5, <2>6, StartBundleKeeps
<1>2. ASSUME BundleInv, PrepareSplits PROVE BundleInv'
  <2> DEFINE rows == Splits(source, SplitSizes)
             bytes == [s \in DOMAIN rows |-> Bytes(rows[s], Pinned, s)]
             files == <<"train", "dev", "pilot", "debug", "smoke">>
  <2>1. StartBundle("splits", files, bytes) BY <1>2 DEF PrepareSplits
  <2>2. /\ files \in Seq(FileNames)
        /\ \A i \in 1 .. Len(files) : files[i] \in {"train", "dev", "pilot", "debug", "smoke"}
    BY DEF FileNames
  <2>3. {"train", "dev", "pilot", "debug", "smoke"} = DOMAIN bytes BY DEF Splits
  <2>4. \A f \in SplitNames : Right("splits", f, bytes[f])
    <3>1. EnoughForSplits BY <1>2, SplitsNest DEF PrepareSplits, EnoughForSplits
    <3>2. \A f \in SplitNames : bytes[f].rows = SplitRows[f] BY DEF SplitRows, SplitNames, Splits, Bytes
    <3> HIDE DEF bytes
    <3> QED BY <3>1, <3>2 DEF Right
  <2>7. Right("splits", "manifest", bytes) BY DEF Right, SplitNames
  <2>5. "splits" \in Directories BY DEF Directories
  <2> HIDE DEF files, bytes
  <2>6. "manifest" \notin DOMAIN bytes BY <2>3
  <2>8. \A i \in 1 .. Len(files) : files[i] \in SplitNames /\ files[i] \in DOMAIN bytes
    BY <2>2, <2>3 DEF SplitNames
  <2> QED BY <1>2, <2>1, <2>2, <2>4, <2>5, <2>6, <2>7, <2>8, StartBundleKeeps
<1> QED BY <1>1, <1>2

\* A manifest, once whole, names a frozen panel as its quick split.
LEMMA ExternalKeeps ==
  ASSUME BundleInv, NEW panel \in {"verified", "verified_larger", "tura"}, NEW rev,
         EvaluationBundle(panel, rev)
  PROVE  BundleInv'
<1> DEFINE bytes == [quick |-> Bytes(disk["manifests"][panel].rows, rev, "quick"),
                     full |-> Bytes(source, rev, "full")]
           files == <<"quick", "full">>
<1>1. /\ pipeline = "evaluation" /\ panel \in DOMAIN disk["manifests"]
      /\ StartBundle("external", files, bytes)
  BY DEF EvaluationBundle, Whole
<1>2. panel \in DOMAIN Frozen /\ bytes["quick"].rows = Frozen[panel].rows
  BY <1>1 DEF BundleInv, DiskIsRight, Bytes
<1>3. QuickIsFrozen(bytes)
  <2> HIDE DEF bytes
  <2> QED BY <1>2 DEF QuickIsFrozen
<1>4. /\ files \in Seq(FileNames)
      /\ \A i \in 1 .. Len(files) : files[i] \in {"quick", "full"}
  BY DEF FileNames
<1>5. {"quick", "full"} = DOMAIN bytes OBVIOUS
<1>6. "external" \in Directories BY DEF Directories
<1> HIDE DEF files, bytes
<1>7. \A f \in {"quick", "full"} : Right("external", f, bytes[f]) BY <1>1 DEF Right
<1>8. Right("external", "manifest", bytes) BY <1>1, <1>3 DEF Right
<1> QED BY <1>1, <1>4, <1>5, <1>6, <1>7, <1>8, StartBundleKeeps

\* A canary has no full split, so nothing is summarised from it.
LEMMA CanaryKeeps == BundleInv /\ MaterializeCanary => BundleInv'
<1> SUFFICES ASSUME BundleInv, MaterializeCanary PROVE BundleInv'
  OBVIOUS
<1>0. PICK split \in {"quick", "full"} :
        StartBundle("canary", <<"quick">>,
          [quick |-> Bytes(FirstOf(disk["external"][split].rows, CanarySize, "canary"),
                           disk["external"][split].rev, "quick")])
  BY DEF MaterializeCanary
<1> DEFINE bytes == [quick |-> Bytes(FirstOf(disk["external"][split].rows, CanarySize, "canary"),
                                     disk["external"][split].rev, "quick")]
           files == <<"quick">>
<1>1. pipeline = "evaluation" /\ StartBundle("canary", files, bytes) BY <1>0 DEF MaterializeCanary
<1>2. DOMAIN bytes = {"quick"} OBVIOUS
<1>3. files \in Seq(FileNames) /\ \A i \in 1 .. Len(files) : files[i] = "quick" BY DEF FileNames
<1>4. "canary" \in Directories BY DEF Directories
<1> HIDE DEF files, bytes
<1>5. QuickIsFrozen(bytes) BY <1>2 DEF QuickIsFrozen
<1>6. Right("canary", "quick", bytes["quick"]) /\ Right("canary", "manifest", bytes)
  BY <1>1, <1>5 DEF Right
<1> QED BY <1>1, <1>2, <1>3, <1>4, <1>6, StartBundleKeeps

\* The SWE-smith evaluation excludes what the training bundle holds.
LEMMA SmithKeeps == BundleInv /\ (PrepareSmithTraining \/ PrepareSmithEvaluation) => BundleInv'
<1>1. ASSUME BundleInv, PrepareSmithTraining PROVE BundleInv'
  <2> DEFINE names == {"debug", "debug_repeat"}
             bytes == [s \in names |-> Bytes(SmithTrained, Pinned, s)]
             files == <<"debug", "debug_repeat">>
  <2>1. StartBundle("smith_train", files, bytes) BY <1>1 DEF PrepareSmithTraining, SmithTrained
  <2>2. files \in Seq(FileNames) /\ \A i \in 1 .. Len(files) : files[i] \in names BY DEF FileNames
  <2>3. DOMAIN bytes = names /\ \A f \in names : bytes[f].rows = SmithTrained BY DEF Bytes
  <2>4. "smith_train" \in Directories BY DEF Directories
  <2>5. "manifest" \notin names OBVIOUS
  <2> HIDE DEF files, bytes, names
  <2>6. \A f \in names : Right("smith_train", f, bytes[f]) BY <2>3 DEF Right
  <2>7. Right("smith_train", "manifest", bytes) BY DEF Right
  <2> QED BY <1>1, <2>1, <2>2, <2>3, <2>4, <2>5, <2>6, <2>7, StartBundleKeeps
<1>2. ASSUME BundleInv, PrepareSmithEvaluation PROVE BundleInv'
  <2>1. disk["smith_train"]["debug"].rows = SmithTrained
    BY <1>2 DEF PrepareSmithEvaluation, Whole, BundleInv, DiskIsRight, Right, Directories
  <2> DEFINE bytes == [smoke_swesmith |-> Bytes(SmithTiers.smoke, Pinned, "smoke"),
                       fast_swesmith |-> Bytes(SmithTiers.fast, Pinned, "fast"),
                       full_swesmith |-> Bytes(SmithTiers.full, Pinned, "full"),
                       fast_verified |-> Bytes(SmithVerified.fast, Pinned, "fast"),
                       full_verified |-> Bytes(SmithVerified.full, Pinned, "full")]
             files == <<"smoke_swesmith", "fast_swesmith", "full_swesmith", "fast_verified",
                        "full_verified">>
             names == {"smoke_swesmith", "fast_swesmith", "full_swesmith", "fast_verified",
                       "full_verified"}
  <2>2. StartBundle("smith_eval", files, bytes)
    BY <1>2, <2>1 DEF PrepareSmithEvaluation, SmithTiers, SmithVerified
  <2>10. EnoughForTiers BY <1>2, <2>1 DEF PrepareSmithEvaluation, SmithTiers, EnoughForTiers
  <2>3. files \in Seq(FileNames) /\ \A i \in 1 .. Len(files) : files[i] \in names BY DEF FileNames
  <2>4. DOMAIN bytes = names /\ DOMAIN SmithRows = names BY DEF SmithRows
  <2>5. \A f \in names : bytes[f].rows = SmithRows[f] BY DEF SmithRows, Bytes
  <2>6. "smith_eval" \in Directories BY DEF Directories
  <2>7. "manifest" \notin names OBVIOUS
  <2> HIDE DEF files, bytes, names
  <2>8. \A f \in names : Right("smith_eval", f, bytes[f]) BY <2>5, <2>10 DEF Right
  <2>9. Right("smith_eval", "manifest", bytes) BY <2>4, <2>7 DEF Right
  <2> QED BY <1>2, <2>2, <2>3, <2>4, <2>6, <2>7, <2>8, <2>9, StartBundleKeeps
<1> QED BY <1>1, <1>2

\* An evaluation runs what its manifest describes.
LEMMA EvaluationKeeps ==
  /\ BundleInv
  /\ \/ \E dir \in {"external", "canary"}, split \in {"quick", "full"} : LoadRows(dir, split)
     \/ ReadManifest \/ ValidateBytes \/ Finish \/ EvaluationDies
  => BundleInv'
<1> DEFINE Reads == /\ UNCHANGED <<pipeline, source, disk, script, summary>>
                    /\ EvalIsRight' /\ ResultIsRight'
<1>0. ASSUME BundleInv, Reads PROVE BundleInv'
  <2>1. Frozen' = Frozen /\ \A d, f, b : Right(d, f, b)' <=> Right(d, f, b) BY <1>0, RightStays
  <2>2. DiskIsRight' /\ ScriptIsRight' BY <1>0, <2>1 DEF BundleInv, DiskIsRight, ScriptIsRight
  <2>3. SummaryIsRight' /\ SourceIsRight' BY <1>0, <2>1 DEF BundleInv, SummaryIsRight, SourceIsRight
  <2> QED BY <1>0, <2>2, <2>3 DEF BundleInv
<1>1. ASSUME BundleInv, NEW dir \in {"external", "canary"}, NEW split \in {"quick", "full"},
             LoadRows(dir, split)
      PROVE  Reads
  <2>1. eval' = [at |-> "manifest", dir |-> dir, split |-> split, bytes |-> disk[dir][split],
                 manifest |-> Nothing, replaced |-> FALSE]
        /\ UNCHANGED <<disk, result>>
    BY <1>1 DEF LoadRows
  <2>2. EvalIsRight' BY <2>1 DEF EvalIsRight
  <2>3. ResultIsRight' BY <1>1, <2>1 DEF BundleInv, ResultIsRight
  <2> QED BY <1>1, <2>2, <2>3 DEF LoadRows
<1>2. ASSUME BundleInv, ReadManifest PROVE Reads
  <2>1. UNCHANGED <<pipeline, source, disk, script, result, summary>> /\ eval # Nothing
    BY <1>2 DEF ReadManifest
  <2>2. eval' = Nothing => EvalIsRight' BY DEF EvalIsRight
  <2>3. ASSUME eval' = [eval EXCEPT !.at = "bytes", !.manifest = disk[eval.dir]["manifest"]],
               IdentifiersMatch(eval.bytes, disk[eval.dir]["manifest"][eval.split])
        PROVE  EvalIsRight'
    BY <1>2, <2>1, <2>3 DEF BundleInv, EvalIsRight
  <2>4. EvalIsRight' BY <1>2, <2>2, <2>3 DEF ReadManifest
  <2>5. ResultIsRight' BY <1>2, <2>1 DEF BundleInv, ResultIsRight
  <2> QED BY <2>1, <2>4, <2>5
<1>3. ASSUME BundleInv, ValidateBytes PROVE Reads
  <2>1. UNCHANGED <<pipeline, source, disk, script, result, summary>> /\ eval # Nothing
        /\ eval.at = "bytes"
    BY <1>3 DEF ValidateBytes
  <2>2. eval' = Nothing => EvalIsRight' BY DEF EvalIsRight
  <2>3. ASSUME eval' = [eval EXCEPT !.at = "running"],
               disk[eval.dir][eval.split] = eval.manifest[eval.split]
        PROVE  EvalIsRight'
    BY <1>3, <2>1, <2>3 DEF BundleInv, EvalIsRight
  <2>4. EvalIsRight' BY <1>3, <2>2, <2>3 DEF ValidateBytes, BytesMatch
  <2>5. ResultIsRight' BY <1>3, <2>1 DEF BundleInv, ResultIsRight
  <2> QED BY <2>1, <2>4, <2>5
<1>4. ASSUME BundleInv, Finish PROVE Reads
  <2>1. /\ UNCHANGED <<pipeline, source, disk, script, summary>> /\ eval # Nothing
        /\ eval.at = "running" /\ eval' = Nothing
        /\ result' = [split |-> eval.split, bytes |-> eval.bytes, validated |-> eval.manifest,
                      replaced |-> eval.replaced, hash |-> disk[eval.dir]["manifest"]]
    BY <1>4 DEF Finish
  <2>2. EvalIsRight' BY <2>1 DEF EvalIsRight
  <2>3. ResultIsRight' BY <1>4, <2>1 DEF BundleInv, EvalIsRight, ResultIsRight
  <2> QED BY <2>1, <2>2, <2>3
<1>5. ASSUME BundleInv, EvaluationDies PROVE Reads
  <2>1. UNCHANGED <<pipeline, source, disk, script, result, summary>> /\ eval' = Nothing
    BY <1>5 DEF EvaluationDies
  <2>2. EvalIsRight' BY <2>1 DEF EvalIsRight
  <2>3. ResultIsRight' BY <1>5, <2>1 DEF BundleInv, ResultIsRight
  <2> QED BY <2>1, <2>2, <2>3
<1> HIDE DEF Reads
<1> QED BY <1>0, <1>1, <1>2, <1>3, <1>4, <1>5

\* A summary is of the manifest that is there.
LEMMA SummaryKeeps ==
  ASSUME BundleInv, NEW dir \in {"external", "canary"}, Summarize(dir)
  PROVE  BundleInv'
<1> DEFINE manifest == disk[dir]["manifest"]
<1>1. /\ UNCHANGED <<pipeline, source, disk, script, eval, result>> /\ result # Nothing
      /\ "manifest" \in DOMAIN disk[dir] /\ manifest # Torn
      /\ result.hash = manifest /\ Reportable(manifest)
      /\ summary' = [full |-> result.bytes, quick |-> manifest["quick"].rows,
                     manifest |-> manifest, replaced |-> result.replaced]
  BY DEF Summarize, Whole
<1>2. Frozen' = Frozen /\ \A d, f, b : Right(d, f, b)' <=> Right(d, f, b) BY <1>1, RightStays
<1>3. DiskIsRight' /\ ScriptIsRight' /\ EvalIsRight'
  BY <1>1, <1>2 DEF BundleInv, DiskIsRight, ScriptIsRight, EvalIsRight
<1>4. ResultIsRight' /\ SourceIsRight' BY <1>1 DEF BundleInv, ResultIsRight, SourceIsRight
<1>5. Right(dir, "manifest", manifest) BY <1>1 DEF BundleInv, DiskIsRight, Directories
<1>6. pipeline = "evaluation" /\ QuickIsFrozen(manifest) BY <1>5 DEF Right
<1> HIDE DEF manifest
<1>7. /\ result.split = "full" /\ {"quick", "full"} \subseteq DOMAIN manifest
      /\ result.bytes.rows = manifest["full"].rows
  BY <1>1 DEF Reportable, IdentifiersMatch
<1>8. \E panel \in {"verified", "verified_larger", "tura"} :
        panel \in DOMAIN Frozen /\ manifest["quick"].rows = Frozen[panel].rows
  BY <1>6, <1>7 DEF QuickIsFrozen
<1>9. ~ result.replaced => result.bytes = manifest["full"]
  BY <1>1, <1>7 DEF BundleInv, ResultIsRight
<1>10. SummaryIsRight' BY <1>1, <1>2, <1>6, <1>7, <1>8, <1>9 DEF SummaryIsRight
<1> QED BY <1>3, <1>4, <1>10 DEF BundleInv

\* Every step keeps what the files are.
LEMMA BundlesKeep == BundleInv /\ [BundleNext]_bundleVars => BundleInv'
<1> SUFFICES ASSUME BundleInv, [BundleNext]_bundleVars PROVE BundleInv'
  OBVIOUS
<1>1. CASE WriteFile BY <1>1, WriteFileKeeps
<1>2. CASE Killed BY <1>2, KilledKeeps
<1>3. CASE FreezeManifests BY <1>3, FreezeKeeps
<1>4. CASE MaterializeTraining \/ PrepareSplits BY <1>4, TrainingKeeps
<1>5. CASE MaterializeVerified BY <1>5, ExternalKeeps DEF MaterializeVerified
<1>6. CASE MaterializeDeepSWE BY <1>6, ExternalKeeps DEF MaterializeDeepSWE
<1>7. CASE MaterializeCanary BY <1>7, CanaryKeeps
<1>8. CASE PrepareSmithTraining \/ PrepareSmithEvaluation BY <1>8, SmithKeeps
<1>9. CASE \/ \E dir \in {"external", "canary"}, split \in {"quick", "full"} : LoadRows(dir, split)
           \/ ReadManifest \/ ValidateBytes \/ Finish \/ EvaluationDies
  BY <1>9, EvaluationKeeps
<1>10. CASE \E dir \in {"external", "canary"} : Summarize(dir) BY <1>10, SummaryKeeps
<1>11. CASE UNCHANGED bundleVars
  <2>1. UNCHANGED <<pipeline, source, disk, script, eval, result, summary>> BY <1>11 DEF bundleVars
  <2>2. Frozen' = Frozen /\ \A d, f, b : Right(d, f, b)' <=> Right(d, f, b) BY <2>1, RightStays
  <2>3. DiskIsRight' /\ ScriptIsRight' /\ EvalIsRight'
    BY <2>1, <2>2 DEF BundleInv, DiskIsRight, ScriptIsRight, EvalIsRight
  <2>4. ResultIsRight' /\ SummaryIsRight' /\ SourceIsRight'
    BY <2>1, <2>2 DEF BundleInv, SourceIsRight, ResultIsRight, SummaryIsRight
  <2> QED BY <2>3, <2>4 DEF BundleInv
<1> QED BY <1>1, <1>2, <1>3, <1>4, <1>5, <1>6, <1>7, <1>8, <1>9, <1>10, <1>11 DEF BundleNext

\* Disk, scripts, evaluation and results stay right together.
THEOREM BundleInvariance == BundleSpec => []BundleInv
<1>1. BundleInit => BundleInv BY BundlesStart
<1>2. BundleInv /\ [BundleNext]_bundleVars => BundleInv' BY BundlesKeep
<1> QED BY <1>1, <1>2, PTL DEF BundleSpec

\* An evaluation runs what its manifest describes, and a summary is of all
\* tasks of its manifest and of a frozen panel (eval_entrypoint.py:56,
\* summarize_external_eval.py:24).
THEOREM EvaluationsAreFrozen == BundleSpec => []EvaluationsAreOfFrozenTasks
<1>1. BundleInv => EvaluationsAreOfFrozenTasks
  <2> SUFFICES ASSUME BundleInv PROVE EvaluationsAreOfFrozenTasks
    OBVIOUS
  <2>1. result # Nothing /\ ~ result.replaced =>
          result.bytes = result.validated[result.split] /\ result.hash = result.validated
    BY DEF BundleInv, ResultIsRight
  <2>2. ASSUME summary # Nothing
        PROVE  /\ summary.full.rows = summary.manifest["full"].rows
               /\ ~ summary.replaced => summary.full = summary.manifest["full"]
               /\ \E panel \in {"verified", "verified_larger", "tura"} :
                    /\ panel \in DOMAIN disk["manifests"]
                    /\ summary.quick = disk["manifests"][panel].rows
    <3>1. pipeline = "evaluation" BY <2>2 DEF BundleInv, SummaryIsRight
    <3>2. disk["manifests"] = Frozen BY <3>1 DEF BundleInv, DiskIsRight
    <3> QED BY <2>2, <3>2 DEF BundleInv, SummaryIsRight
  <2> QED BY <2>1, <2>2 DEF EvaluationsAreOfFrozenTasks, Rows
<1> QED BY <1>1, BundleInvariance, PTL

-------------------------------------------------------------------------------
(* Evaluation tiers. *)

\* What both kinds of tiers are taken from.
SmithChosen ==
  LET unseen == source \ SmithTrained
      part == Parts(unseen, Tiers.full, Repositories, "eval-repo")
  IN UNION {FirstOf(OfRepo(unseen, i), part[i], "eval-task") : i \in DOMAIN part}
LegacyPanel == Stratified(source, LegacySizes.full, "verified-task")

\* Both kinds of tiers are prefixes of one round-robin order.
LEMMA TiersArePrefixes ==
  /\ SmithChosen \subseteq source \ SmithTrained /\ LegacyPanel \subseteq source
  /\ SmithRows["smoke_swesmith"] = RoundRobin(SmithChosen, Tiers.smoke, "eval-task", "eval-order")
  /\ SmithRows["fast_swesmith"] = RoundRobin(SmithChosen, Tiers.fast, "eval-task", "eval-order")
  /\ SmithRows["full_swesmith"] = RoundRobin(SmithChosen, Tiers.full, "eval-task", "eval-order")
  /\ SmithRows["fast_verified"] = RoundRobin(LegacyPanel, LegacySizes.fast, "verified-task", "verified-repo")
  /\ SmithRows["full_verified"] = RoundRobin(LegacyPanel, LegacySizes.full, "verified-task", "verified-repo")
<1>1. SmithChosen \subseteq source \ SmithTrained
  <2> DEFINE unseen == source \ SmithTrained
             part == Parts(unseen, Tiers.full, Repositories, "eval-repo")
  <2>1. \A i, n, l : FirstOf(OfRepo(unseen, i), n, l) \subseteq unseen BY DEF FirstOf, OfRepo
  <2>2. SmithChosen = UNION {FirstOf(OfRepo(unseen, i), part[i], "eval-task") : i \in DOMAIN part}
    BY DEF SmithChosen
  <2> HIDE DEF part, unseen
  <2>3. SmithChosen \subseteq unseen BY <2>1, <2>2
  <2> QED BY <2>3 DEF unseen
<1>2. LegacyPanel \subseteq source
  <2> DEFINE quota == RepoQuotas(source, LegacySizes.full)
  <2>1. \A i, n, l : FirstOf(OfRepo(source, i), n, l) \subseteq source BY DEF FirstOf, OfRepo
  <2>2. LegacyPanel = UNION {FirstOf(OfRepo(source, i), quota[i], "verified-task") : i \in DOMAIN quota}
    BY DEF LegacyPanel, Stratified
  <2> HIDE DEF quota
  <2> QED BY <2>1, <2>2
<1>3. /\ SmithRows["smoke_swesmith"] = RoundRobin(SmithChosen, Tiers.smoke, "eval-task", "eval-order")
      /\ SmithRows["fast_swesmith"] = RoundRobin(SmithChosen, Tiers.fast, "eval-task", "eval-order")
      /\ SmithRows["full_swesmith"] = RoundRobin(SmithChosen, Tiers.full, "eval-task", "eval-order")
  BY TierSizes DEF SmithRows, SmithTiers, EvalTiers, SmithChosen
<1>4. /\ SmithRows["fast_verified"] = RoundRobin(LegacyPanel, LegacySizes.fast, "verified-task", "verified-repo")
      /\ SmithRows["full_verified"] = RoundRobin(LegacyPanel, LegacySizes.full, "verified-task", "verified-repo")
  BY TierSizes DEF SmithRows, SmithVerified, LegacyVerified, LegacyPanel
<1> QED BY <1>1, <1>2, <1>3, <1>4

\* A smaller tier is an even part of the larger one.
LEMMA TiersAreEven ==
  ASSUME source \in Pools, NEW j, NEW k,
         NEW tier \in {<<"smoke_swesmith", "full_swesmith">>, <<"fast_swesmith", "full_swesmith">>,
                       <<"fast_verified", "full_verified">>}
  PROVE  LET some == SmithRows[tier[1]]
             all == SmithRows[tier[2]]
         IN /\ some \subseteq all
            /\ Count(some, k) + 1 >= Count(some, j) \/ Count(some, k) = Count(all, k)
<1> DEFINE chosen == SmithChosen
           panel == LegacyPanel
<1>3. /\ SmithRows["smoke_swesmith"] = RoundRobin(chosen, Tiers.smoke, "eval-task", "eval-order")
      /\ SmithRows["fast_swesmith"] = RoundRobin(chosen, Tiers.fast, "eval-task", "eval-order")
      /\ SmithRows["full_swesmith"] = RoundRobin(chosen, Tiers.full, "eval-task", "eval-order")
  BY TiersArePrefixes
<1>4. /\ SmithRows["fast_verified"] = RoundRobin(panel, LegacySizes.fast, "verified-task", "verified-repo")
      /\ SmithRows["full_verified"] = RoundRobin(panel, LegacySizes.full, "verified-task", "verified-repo")
  BY TiersArePrefixes
<1>5. /\ Tiers.smoke \in Nat /\ Tiers.fast \in Nat /\ Tiers.full \in Nat
      /\ Tiers.smoke <= Tiers.full /\ Tiers.fast <= Tiers.full
      /\ LegacySizes.fast \in Nat /\ LegacySizes.full \in Nat /\ LegacySizes.fast <= LegacySizes.full
  BY TierSizes
<1>6. /\ IsFiniteSet(chosen) /\ Ranked(chosen, "eval-task", "eval-order")
      /\ IsFiniteSet(panel) /\ Ranked(panel, "verified-task", "verified-repo")
  <2>1. chosen \subseteq source /\ panel \subseteq source BY TiersArePrefixes
  <2> QED BY <2>1, SourceRows DEF Collection
<1>7. CASE tier = <<"smoke_swesmith", "full_swesmith">>
  <2>1. tier[1] = "smoke_swesmith" /\ tier[2] = "full_swesmith" BY <1>7
  <2> QED BY <1>3, <1>5, <1>6, <2>1, RoundRobinIsEven
<1>8. CASE tier = <<"fast_swesmith", "full_swesmith">>
  <2>1. tier[1] = "fast_swesmith" /\ tier[2] = "full_swesmith" BY <1>8
  <2> QED BY <1>3, <1>5, <1>6, <2>1, RoundRobinIsEven
<1>9. CASE tier = <<"fast_verified", "full_verified">>
  <2>1. tier[1] = "fast_verified" /\ tier[2] = "full_verified" BY <1>9
  <2> QED BY <1>4, <1>5, <1>6, <2>1, RoundRobinIsEven
<1> QED BY <1>7, <1>8, <1>9

\* The tiers on disk cover the repositories as evenly as their sizes allow
\* (swesmith_data.py:156, prepare_coding_opd_eval.py:106).
THEOREM TiersAreBalanced == BundleSpec => []PrefixesAreBalanced
<1>1. BundleInv => PrefixesAreBalanced
  <2> SUFFICES ASSUME BundleInv,
                      NEW tier \in {<<"smoke_swesmith", "full_swesmith">>,
                                    <<"fast_swesmith", "full_swesmith">>,
                                    <<"fast_verified", "full_verified">>},
                      Whole("smith_eval", tier[1]), Whole("smith_eval", tier[2])
               PROVE  LET some == Rows("smith_eval", tier[1])
                          all == Rows("smith_eval", tier[2])
                      IN /\ some \subseteq all
                         /\ \A j, k \in ReposOf(all) :
                              Count(some, k) + 1 >= Count(some, j) \/ Count(some, k) = Count(all, k)
    BY DEF PrefixesAreBalanced
  <2>1. tier[1] \in DOMAIN SmithRows /\ tier[2] \in DOMAIN SmithRows BY DEF SmithRows
  <2>2. \A f \in DOMAIN SmithRows : Whole("smith_eval", f) => Rows("smith_eval", f) = SmithRows[f]
    BY DEF BundleInv, DiskIsRight, Right, Whole, Rows, Directories
  <2>3. /\ Rows("smith_eval", tier[1]) = SmithRows[tier[1]]
        /\ Rows("smith_eval", tier[2]) = SmithRows[tier[2]]
    BY <2>1, <2>2
  <2>4. source \in Pools BY DEF BundleInv, SourceIsRight
  <2> QED BY <2>3, <2>4, TiersAreEven
<1> QED BY <1>1, BundleInvariance, PTL

-------------------------------------------------------------------------------
(* The sizes of everything on disk. *)

\* The tiers of both evaluations have their sizes, and none of it was trained
\* on (swesmith_data.py:134, prepare_coding_opd_eval.py:106).
LEMMA TierSizesAreExact ==
  ASSUME source \in Pools, EnoughForTiers
  PROVE  /\ Cardinality(SmithRows["smoke_swesmith"]) = Tiers.smoke
         /\ Cardinality(SmithRows["fast_swesmith"]) = Tiers.fast
         /\ Cardinality(SmithRows["full_swesmith"]) = Tiers.full
         /\ Cardinality(SmithRows["fast_verified"]) = LegacySizes.fast
         /\ Cardinality(SmithRows["full_verified"]) = LegacySizes.full
         /\ SmithRows["full_swesmith"] \cap SmithTrained = {}
<1> DEFINE chosen == SmithChosen
           panel == LegacyPanel
<1>1. /\ Tiers.smoke \in Nat /\ Tiers.fast \in Nat /\ Tiers.full \in Nat
      /\ Tiers.smoke <= Tiers.full /\ Tiers.fast <= Tiers.full
      /\ LegacySizes.fast \in Nat /\ LegacySizes.full \in Nat /\ LegacySizes.fast <= LegacySizes.full
  BY TierSizes
<1>2. chosen \subseteq source /\ panel \subseteq source /\ chosen \cap SmithTrained = {}
  BY TiersArePrefixes
<1>3. /\ IsFiniteSet(chosen) /\ Ranked(chosen, "eval-task", "eval-order")
      /\ IsFiniteSet(panel) /\ Ranked(panel, "verified-task", "verified-repo")
  BY <1>2, SourceRows DEF Collection
<1>4. /\ SmithRows["smoke_swesmith"] = RoundRobin(chosen, Tiers.smoke, "eval-task", "eval-order")
      /\ SmithRows["fast_swesmith"] = RoundRobin(chosen, Tiers.fast, "eval-task", "eval-order")
      /\ SmithRows["full_swesmith"] = RoundRobin(chosen, Tiers.full, "eval-task", "eval-order")
      /\ SmithRows["fast_verified"] = RoundRobin(panel, LegacySizes.fast, "verified-task", "verified-repo")
      /\ SmithRows["full_verified"] = RoundRobin(panel, LegacySizes.full, "verified-task", "verified-repo")
  BY TiersArePrefixes
<1>5. Cardinality(SmithRows["full_swesmith"]) = Tiers.full BY DEF EnoughForTiers, SmithRows
<1>6. Cardinality(panel) = LegacySizes.full
  <2>1. source \subseteq source OBVIOUS
  <2>2. Collection(source) /\ Distinct(source, "verified-task") BY <2>1, SourceRows
  <2>3. LegacySizes.full <= Cardinality(source) BY DEF EnoughForTiers
  <2> QED BY <1>1, <2>2, <2>3, StratifiedSize DEF LegacyPanel
<1> HIDE DEF chosen, panel
<1>7. RoundRobin(chosen, Tiers.full, "eval-task", "eval-order") \subseteq chosen BY DEF RoundRobin
<1>8. Cardinality(chosen) \in Nat /\ Tiers.full <= Cardinality(chosen)
  <2>1. Cardinality(RoundRobin(chosen, Tiers.full, "eval-task", "eval-order")) <= Cardinality(chosen)
    BY <1>3, <1>7, FS_Subset
  <2>2. Cardinality(chosen) \in Nat BY <1>3, FS_CardinalityType
  <2> QED BY <1>4, <1>5, <2>1, <2>2
<1>9. Cardinality(SmithRows["smoke_swesmith"]) = Tiers.smoke
  <2>1. Tiers.smoke <= Cardinality(chosen) BY <1>1, <1>8
  <2> QED BY <1>1, <1>3, <1>4, <2>1, RoundRobinSize
<1>10. Cardinality(SmithRows["fast_swesmith"]) = Tiers.fast
  <2>1. Tiers.fast <= Cardinality(chosen) BY <1>1, <1>8
  <2> QED BY <1>1, <1>3, <1>4, <2>1, RoundRobinSize
<1>11. Cardinality(SmithRows["fast_verified"]) = LegacySizes.fast
  <2>1. LegacySizes.fast <= Cardinality(panel) BY <1>1, <1>6
  <2> QED BY <1>1, <1>3, <1>4, <2>1, RoundRobinSize
<1>12. Cardinality(SmithRows["full_verified"]) = LegacySizes.full
  <2>1. LegacySizes.full <= Cardinality(panel) BY <1>1, <1>6
  <2> QED BY <1>1, <1>3, <1>4, <2>1, RoundRobinSize
<1>13. SmithRows["full_swesmith"] \cap SmithTrained = {} BY <1>2, <1>4, <1>7
<1> QED BY <1>5, <1>9, <1>10, <1>11, <1>12, <1>13

\* The frozen tiers and panels have their sizes, nest, and leave no repository
\* of a panel's source out (dataset_selection.py:28).
LEMMA FrozenSizesAreExact ==
  ASSUME source \in Pools, Freezable(source)
  PROVE  /\ "r2e_small" \in DOMAIN Frozen /\ "r2e_large" \in DOMAIN Frozen /\ "verified" \in DOMAIN Frozen
         /\ Cardinality(Frozen["r2e_small"].rows) = Small /\ Cardinality(Frozen["r2e_large"].rows) = Large
         /\ Frozen["r2e_small"].rows \subseteq Frozen["r2e_large"].rows
         /\ Cardinality(Frozen["verified"].rows) = Panel
         /\ ReposOf(Frozen["verified"].rows) = ReposOf(source)
         /\ "verified_larger" \in DOMAIN Frozen =>
              /\ Cardinality(Frozen["verified_larger"].rows) = LargerPanel
              /\ ReposOf(Frozen["verified_larger"].rows) = ReposOf(source)
              /\ Frozen["verified"].rows \subseteq Frozen["verified_larger"].rows
<1> DEFINE tiers == NestedSubsets(source, Small, Large)
           panel == VerifiedPanel(source, Panel)
           larger == VerifiedPanel(source, LargerPanel)
           m == FrozenManifests[source]
<1>1. /\ m.r2e_small.rows = tiers.small /\ m.r2e_large.rows = tiers.large
      /\ m.verified.rows = panel /\ m.verified_larger.rows = larger
  <2>1. m = [r2e_small |-> R2EManifest(tiers.small), r2e_large |-> R2EManifest(tiers.large),
             verified |-> VerifiedManifest(source, Panel),
             verified_larger |-> VerifiedManifest(source, LargerPanel),
             tura |-> DeepSWEManifest(source)]
    BY DEF FrozenManifests
  <2> HIDE DEF m, tiers
  <2> QED BY <2>1 DEF R2EManifest, VerifiedManifest, Bytes
<1>2. Frozen = [f \in Range(Written(m)) |-> m[f]] BY DEF Frozen, Kept
<1> HIDE DEF m, tiers, panel, larger
<1>3. /\ {"r2e_small", "r2e_large", "verified"} \subseteq Range(Written(m))
      /\ "verified_larger" \in Range(Written(m)) => panel \subseteq larger
  <2>1. CASE Preserves(m.verified.rows, m.verified_larger.rows)
    <3> DEFINE first == <<"r2e_small", "r2e_large", "verified">>
               more == <<"verified_larger", "tura">>
    <3>1. first \in Seq(FileNames) /\ Len(first) = 3 /\ more \in Seq(FileNames) /\ Len(more) = 2
      BY DEF FileNames
    <3>2. first[1] = "r2e_small" /\ first[2] = "r2e_large" /\ first[3] = "verified" OBVIOUS
    <3>3. Written(m) = first \o more BY <2>1 DEF Written
    <3> HIDE DEF first, more
    <3>4. /\ first \o more \in Seq(FileNames) /\ Len(first \o more) = Len(first) + Len(more)
          /\ \A i \in 1 .. Len(first) + Len(more) :
               (first \o more)[i] = IF i <= Len(first) THEN first[i] ELSE more[i - Len(first)]
      BY <3>1, ConcatProperties
    <3>5. DOMAIN (first \o more) = 1 .. 5 BY <3>1, <3>4
    <3>6. \A i \in 1 .. 3 : i \in 1 .. 5 /\ (first \o more)[i] = first[i] BY <3>1, <3>4
    <3>7. {"r2e_small", "r2e_large", "verified"} \subseteq Range(first \o more)
      BY <3>2, <3>5, <3>6 DEF Range
    <3>8. panel \subseteq larger BY <1>1, <2>1 DEF Preserves
    <3> QED BY <3>3, <3>7, <3>8
  <2>2. CASE ~ Preserves(m.verified.rows, m.verified_larger.rows)
    <3>1. Written(m) = <<"r2e_small", "r2e_large", "verified">> BY <2>2 DEF Written
    <3> QED BY <3>1 DEF Range
  <2> QED BY <2>1, <2>2
<1>4. /\ Frozen["r2e_small"].rows = tiers.small /\ Frozen["r2e_large"].rows = tiers.large
      /\ Frozen["verified"].rows = panel
      /\ "verified_larger" \in DOMAIN Frozen => Frozen["verified_larger"].rows = larger
  BY <1>1, <1>2, <1>3
<1>5. /\ Collection(source) /\ Distinct(source, "r2e-task") /\ Distinct(source, "verified-task")
      /\ Cardinality(source) \in Nat
  <2>1. source \subseteq source OBVIOUS
  <2>2. Collection(source) /\ Distinct(source, "r2e-task") /\ Distinct(source, "verified-task")
    BY <2>1, SourceRows
  <2> QED BY <2>2, FS_CardinalityType DEF Collection
<1>6. /\ Large <= Cardinality(source) /\ Cardinality(ReposOf(source)) <= Panel
      /\ LargerPanel <= Cardinality(source)
  BY DEF Freezable
<1>7. /\ tiers.small \subseteq tiers.large /\ Cardinality(tiers.small) = Small
      /\ Cardinality(tiers.large) = Large
  <2>1. \A k \in ReposOf(source) : Root[Sizes(source)[k]] \in Nat \ {0}
    BY BundleConstants DEF ReposOf
  <2>2. Small \in Nat /\ Large \in Nat /\ Small <= Large BY PanelSizes
  <2> QED BY <1>5, <1>6, <2>1, <2>2, NestedSubsetsSize DEF tiers
<1>8. /\ Panel \in Nat /\ LargerPanel \in Nat /\ Panel <= LargerPanel
      /\ Cardinality(ReposOf(source)) \in Nat
  <2>1. IsFiniteSet(ReposOf(source)) BY <1>5, SizesAdd
  <2> QED BY <2>1, PanelSizes, FS_CardinalityType
<1>9. Cardinality(panel) = Panel /\ ReposOf(panel) = ReposOf(source)
  <2>1. Panel <= Cardinality(source) BY <1>5, <1>6, <1>8
  <2> QED BY <1>5, <1>6, <1>8, <2>1, VerifiedPanelSize DEF panel
<1>10. Cardinality(larger) = LargerPanel /\ ReposOf(larger) = ReposOf(source)
  <2>1. Cardinality(ReposOf(source)) <= LargerPanel BY <1>6, <1>8
  <2> QED BY <1>5, <1>6, <1>8, <2>1, VerifiedPanelSize DEF larger
<1> QED BY <1>2, <1>3, <1>4, <1>7, <1>9, <1>10

\* Every selection on disk has exactly the tasks asked for: tiers nest, panels
\* keep every repository, splits are disjoint and fair, and no evaluated task
\* was trained on (dataset_selection.py:28, r2e_data.py:159,
\* swesmith_data.py:134).
THEOREM SelectionsHold == BundleSpec => []SelectionsAreExact
<1>1. ASSUME BundleInv PROVE TiersNest
  <2> DEFINE names == {"r2e_small", "r2e_large", "verified", "verified_larger"}
  <2>1. \A f : Whole("manifests", f) =>
          Freezable(source) /\ f \in DOMAIN Frozen /\ disk["manifests"][f] = Frozen[f]
    BY <1>1 DEF BundleInv, DiskIsRight, Right, Whole, Directories
  <2>2. source \in Pools BY <1>1 DEF BundleInv, SourceIsRight
  <2>3. Freezable(source) =>
         /\ Cardinality(Frozen["r2e_small"].rows) = Small /\ Cardinality(Frozen["r2e_large"].rows) = Large
         /\ Frozen["r2e_small"].rows \subseteq Frozen["r2e_large"].rows
         /\ Cardinality(Frozen["verified"].rows) = Panel
         /\ ReposOf(Frozen["verified"].rows) = ReposOf(source)
         /\ "verified_larger" \in DOMAIN Frozen =>
              /\ Cardinality(Frozen["verified_larger"].rows) = LargerPanel
              /\ ReposOf(Frozen["verified_larger"].rows) = ReposOf(source)
              /\ Frozen["verified"].rows \subseteq Frozen["verified_larger"].rows
    BY <2>2, FrozenSizesAreExact
  <2>4. Sized("manifests", [r2e_small |-> Small, r2e_large |-> Large,
                            verified |-> Panel, verified_larger |-> LargerPanel])
    BY <2>1, <2>3 DEF Sized, Rows
  <2>5. Nested("manifests", "r2e_small", "r2e_large") /\ Nested("manifests", "verified", "verified_larger")
    BY <2>1, <2>3 DEF Nested, Rows
  <2>6. \A panel \in {"verified", "verified_larger"} :
          Whole("manifests", panel) => ReposOf(Rows("manifests", panel)) = ReposOf(source)
    BY <2>1, <2>3 DEF Rows
  <2> QED BY <2>4, <2>5, <2>6 DEF TiersNest
<1>2. ASSUME BundleInv PROVE SharesAreFair /\ SplitsAreDisjoint
  <2>1. \A f \in SplitNames : Whole("splits", f) => EnoughForSplits /\ Rows("splits", f) = SplitRows[f]
    BY <1>2 DEF BundleInv, DiskIsRight, Right, Whole, Rows, Directories
  <2>2. source \in Pools BY <1>2 DEF BundleInv, SourceIsRight
  <2>3. EnoughForSplits =>
         /\ Cardinality(SplitRows.train) = SplitSizes.train /\ Cardinality(SplitRows.dev) = SplitSizes.dev
         /\ Cardinality(SplitRows.pilot) = SplitSizes.pilot /\ Cardinality(SplitRows.debug) = SplitSizes.debug
         /\ Cardinality(SplitRows.smoke) = SplitSizes.smoke
         /\ SplitRows.train \cap SplitRows.dev = {} /\ SplitRows.pilot \subseteq SplitRows.train
         /\ SplitRows.debug \subseteq SplitRows.pilot /\ SplitRows.smoke \subseteq SplitRows.debug
         /\ \A k \in ReposOf(source) :
              LET share == SplitSizes.dev * Cardinality(OfRepo(source, k))
                  seats == Cardinality(OfRepo(SplitRows.dev, k)) * Cardinality(source)
              IN share - seats < Cardinality(source) /\ seats - share < Cardinality(source)
    BY <2>2, SplitsSize DEF EnoughForSplits, SplitRows
  <2>4. Sized("splits", SplitSizes)
    <3>1. DOMAIN SplitSizes = SplitNames BY SplitsNest DEF SplitNames
    <3>2. \A f \in SplitNames : Whole("splits", f) => Cardinality(Rows("splits", f)) = SplitSizes[f]
      BY <2>1, <2>3 DEF SplitNames
    <3> QED BY <3>1, <3>2 DEF Sized
  <2>5. /\ Whole("splits", "train") /\ Whole("splits", "dev") =>
             Rows("splits", "train") \cap Rows("splits", "dev") = {}
        /\ Nested("splits", "pilot", "train") /\ Nested("splits", "debug", "pilot")
        /\ Nested("splits", "smoke", "debug")
    BY <2>1, <2>3 DEF Nested, SplitNames
  <2>6. SharesAreFair BY <2>1, <2>3 DEF SharesAreFair, Count, SplitNames
  <2> QED BY <2>4, <2>5, <2>6 DEF SplitsAreDisjoint
<1>3. ASSUME BundleInv PROVE EvaluationIsUnseen
  <2>1. \A f \in DOMAIN SmithRows : Whole("smith_eval", f) => EnoughForTiers /\ Rows("smith_eval", f) = SmithRows[f]
    BY <1>3 DEF BundleInv, DiskIsRight, Right, Whole, Rows, Directories
  <2>2. Whole("smith_train", "debug") => Rows("smith_train", "debug") = SmithTrained
    BY <1>3 DEF BundleInv, DiskIsRight, Right, Whole, Rows, Directories
  <2>3. source \in Pools BY <1>3 DEF BundleInv, SourceIsRight
  <2>4. EnoughForTiers =>
         /\ Cardinality(SmithRows["smoke_swesmith"]) = Tiers.smoke
         /\ Cardinality(SmithRows["fast_swesmith"]) = Tiers.fast
         /\ Cardinality(SmithRows["full_swesmith"]) = Tiers.full
         /\ Cardinality(SmithRows["fast_verified"]) = LegacySizes.fast
         /\ Cardinality(SmithRows["full_verified"]) = LegacySizes.full
         /\ SmithRows["full_swesmith"] \cap SmithTrained = {}
    BY <2>3, TierSizesAreExact
  <2>5. DOMAIN SmithRows = {"smoke_swesmith", "fast_swesmith", "full_swesmith", "fast_verified",
                            "full_verified"}
    BY DEF SmithRows
  <2>6. Sized("smith_eval", [smoke_swesmith |-> Tiers.smoke, fast_swesmith |-> Tiers.fast,
                             full_swesmith |-> Tiers.full, fast_verified |-> LegacySizes.fast,
                             full_verified |-> LegacySizes.full])
    BY <2>1, <2>4, <2>5 DEF Sized
  <2>7. Whole("smith_eval", "full_swesmith") /\ Whole("smith_train", "debug") =>
          Rows("smith_eval", "full_swesmith") \cap Rows("smith_train", "debug") = {}
    BY <2>1, <2>2, <2>4, <2>5
  <2> QED BY <2>6, <2>7 DEF EvaluationIsUnseen
<1>4. BundleInv => SelectionsAreExact BY <1>1, <1>2, <1>3 DEF SelectionsAreExact
<1> QED BY <1>4, BundleInvariance, PTL

-------------------------------------------------------------------------------
(* The inductive invariant. *)

TaskTypeOK ==
  /\ agent \in {"react", "codex"}
  /\ pc \in {"start", "agent", "cleanup", "collect", "leave", "ended"}
  /\ wait \in {"none", "shield", "drain", "remove", "run"}
  /\ call \in {"none", "running", "returned", "expired"}
  /\ process \in {"none", "running", "over"}
  /\ container \in {"none", "up", "removed"}
  /\ cancelled \subseteq {"deadline", "outer"}
  /\ commands \in Nat /\ expirations \in Nat

\* Before there is a container nothing happens, and only a start that was
\* cancelled waits for it; only the agent and what follows it run commands.
Starting ==
  /\ pc = "start" => wait = "none" /\ call = "none" /\ process = "none" /\ ~ named /\ ~ removing
  /\ wait = "run" => pc = "ended"
  /\ wait \in {"shield", "drain", "remove"} => pc \in {"agent", "cleanup", "collect"}

\* The agent leaves a command behind only by its second cancellation, and that
\* ends the task.
Quiet ==
  /\ wait = "drain" => cancelled # {}
  /\ pc = "agent" /\ (wait \in {"none", "remove"} \/ call # "running") => process # "running"
  /\ pc = "cleanup" /\ process = "running" => raising /\ "outer" \in cancelled
  /\ pc = "collect" => process # "running"

\* As long as every client call has been answered nobody removes anything.
Answered ==
  /\ call = "expired" \/ wait = "remove" => expirations > 0
  /\ pc \in {"agent", "cleanup", "collect"} /\ expirations = 0 =>
       named /\ container = "up" /\ ~ removing

\* The task knows its container until it has it removed, and a command it
\* awaits is in a container it knows.
Known ==
  /\ named => container = "up" /\ ~ removing
  /\ wait \in {"shield", "drain"} => named
  /\ pc = "ended" => ~ named

SandboxInv == TaskTypeOK /\ Starting /\ Quiet /\ Answered /\ Known

-------------------------------------------------------------------------------

\* The invariant holds before the container is started.
LEMMA SandboxStarts == Init => SandboxInv
BY SandboxAssumption DEF Init, SandboxInv, TaskTypeOK, Starting, Quiet, Answered, Known

\* The container runtime and the command go their own way: a call is over only
\* after the command of the agent (r2e_task.py:99-137).
LEMMA RuntimeKeeps ==
  SandboxInv /\ (Runtime \/ ProcessEnds \/ ProcessKilled) => SandboxInv'
<1>. USE DEF SandboxInv, TaskTypeOK, Starting, Quiet, Answered, Known
<1>1. SandboxInv /\ Removed => SandboxInv'
  BY DEF Removed
<1>2. SandboxInv /\ StartedUnnoticed => SandboxInv'
  BY DEF StartedUnnoticed
<1>3. SandboxInv /\ CallEnds => SandboxInv'
  BY DEF CallEnds
<1>4. SandboxInv /\ ProcessEnds => SandboxInv'
  BY DEF ProcessEnds
<1>. QED
  BY <1>1, <1>2, <1>3, <1>4 DEF Runtime, ProcessKilled

\* What comes after the command of a part, one part after the other.
Continued ==
  \/ pc = "agent" /\ pc' = "agent" /\ raising' = raising
  \/ pc = "cleanup" /\ raising /\ "outer" \in cancelled /\ pc' = "leave" /\ raising' = FALSE
  \/ pc = "cleanup" /\ (raising => "outer" \notin cancelled) /\ pc' = "collect" /\ raising' = FALSE
  \/ pc = "collect" /\ pc' = "leave" /\ raising' = raising

\* An awaited command is followed by the next part (Continue).
LEMMA ContinueIs ==
  ASSUME Continue, pc \in {"agent", "cleanup", "collect"}
  PROVE  Continued
<1> USE DEF Continued
<1>1. CASE pc = "agent" BY <1>1 DEF Continue
<1>2. CASE pc = "cleanup" BY <1>2 DEF Continue, AfterCancelledAgent
<1>3. CASE pc = "collect" BY <1>3 DEF Continue
<1> QED BY <1>1, <1>2, <1>3

\* The task's own steps, from the start of the container to its end
\* (r2e_task.py:81-137, codex_agent.py's finally clause).
LEMMA CoroutineKeeps ==
  SandboxInv /\ (Started \/ AgentCommand \/ AgentCommandFails \/ AgentEnds \/ HostCommand
                 \/ HostCommandFails \/ ExecReturns \/ ExecTimesOut \/ ClientTimedOut \/ TaskEnds)
    => SandboxInv'
<1>. USE DEF SandboxInv, TaskTypeOK, Starting, Quiet, Answered, Known
<1>1. SandboxInv /\ Started => SandboxInv'
  BY DEF Started
<1>2. SandboxInv /\ AgentCommand => SandboxInv'
  BY DEF AgentCommand, Exec
<1>9. SandboxInv /\ AgentCommandFails => SandboxInv'
  BY DEF AgentCommandFails
<1>10. SandboxInv /\ AgentEnds => SandboxInv'
  BY DEF AgentEnds
<1>3. SandboxInv /\ HostCommand => SandboxInv'
  BY DEF HostCommand, Exec
<1>4. SandboxInv /\ HostCommandFails => SandboxInv'
  <2> SUFFICES ASSUME SandboxInv, HostCommandFails PROVE SandboxInv' OBVIOUS
  <2>1. Continue /\ pc \in {"agent", "cleanup", "collect"} BY DEF HostCommandFails
  <2>2. Continued BY ONLY <2>1, ContinueIs
  <2> QED BY <2>2 DEF Continued, HostCommandFails
<1>5. SandboxInv /\ ExecReturns => SandboxInv'
  <2> SUFFICES ASSUME SandboxInv, ExecReturns PROVE SandboxInv' OBVIOUS
  <2>1. Continue /\ pc \in {"agent", "cleanup", "collect"} BY DEF ExecReturns
  <2>2. Continued BY ONLY <2>1, ContinueIs
  <2> QED BY <2>2 DEF Continued, ExecReturns
<1>6. SandboxInv /\ ExecTimesOut => SandboxInv'
  <2> SUFFICES ASSUME SandboxInv, ExecTimesOut PROVE SandboxInv' OBVIOUS
  <2>1. Continue /\ pc \in {"agent", "cleanup", "collect"} BY DEF ExecTimesOut
  <2>2. Continued BY ONLY <2>1, ContinueIs
  <2> QED BY <2>2 DEF Continued, ExecTimesOut
<1>7. SandboxInv /\ ClientTimedOut => SandboxInv'
  BY DEF ClientTimedOut, Stop
<1>8. SandboxInv /\ TaskEnds => SandboxInv'
  BY DEF TaskEnds, Leave, Stop
<1>. QED
  BY <1>1, <1>2, <1>3, <1>4, <1>5, <1>6, <1>7, <1>8, <1>9, <1>10

\* A cancellation waits for the command, and the second one, which does not,
\* leaves no patch to collect (r2e_task.py:104-128).
LEMMA CancellationKeeps ==
  SandboxInv /\ (ExecDrained \/ AgentTimeout \/ OuterCancel) => SandboxInv'
<1>. USE DEF SandboxInv, TaskTypeOK, Starting, Quiet, Answered, Known
<1>1. SandboxInv /\ ExecDrained => SandboxInv'
  BY DEF ExecDrained, Drained, RaiseCancelled, AfterCancelledAgent, Codex
<1>2. ASSUME SandboxInv, NEW by \in {"deadline", "outer"}, Cancelled(by),
             by = "deadline" => pc \in {"agent", "cleanup"}, pc \notin {"leave", "ended"}
      PROVE  SandboxInv'
  <2>0. cancelled' = cancelled \cup {by} /\ by \notin cancelled
        /\ UNCHANGED <<agent, process, container, named, removing, commands, expirations>>
    BY <1>2 DEF Cancelled
  <2>1. CASE wait = "shield" /\ CancelShielded(cancelled')
    BY <2>0, <2>1, <1>2 DEF CancelShielded
  <2>2. CASE wait \in {"drain", "remove"} /\ RaiseCancelled(cancelled')
    <3>1. wait = "drain" => cancelled' = {"deadline", "outer"}
      BY <1>2, <2>0
    <3>. QED
      BY <2>0, <2>2, <3>1, <1>2 DEF RaiseCancelled, AfterCancelledAgent, Codex
  <2>3. CASE wait = "none" /\ pc = "agent" /\ RaiseCancelled(cancelled')
    BY <2>0, <2>3, <1>2 DEF RaiseCancelled, AfterCancelledAgent, Codex
  <2>4. CASE pc = "start" /\ pc' = "ended" /\ wait' = "run" /\ UNCHANGED <<call, raising>>
    BY <2>0, <2>4, <1>2
  <2>. QED
    BY <1>2, <2>1, <2>2, <2>3, <2>4 DEF Cancelled
<1>. QED
  BY <1>1, <1>2 DEF AgentTimeout, OuterCancel

-------------------------------------------------------------------------------

\* Every step of the task and its surroundings keeps the sandbox's invariant.
LEMMA SandboxSteps == SandboxInv /\ [Next]_vars => SandboxInv'
<1>1. SandboxInv /\ UNCHANGED vars => SandboxInv'
  BY DEF vars, SandboxInv, TaskTypeOK, Starting, Quiet, Answered, Known
<1> QED BY <1>1, RuntimeKeeps, CoroutineKeeps, CancellationKeeps DEF Next, Coroutine

\* The invariant holds in every reachable state of a task.
THEOREM SandboxInvariance == Spec => []SandboxInv
BY SandboxStarts, SandboxSteps, PTL DEF Spec

\* No command of the agent is alive while the patch is collected or the tests
\* run, whichever await its timeout hit (r2e_task.py:104-128).
THEOREM CollectionIsQuiet == Spec => []SnapshotIsQuiet
<1>1. SandboxInv => SnapshotIsQuiet
  BY DEF SandboxInv, Quiet, SnapshotIsQuiet
<1>. QED
  BY <1>1, SandboxInvariance, PTL

\* While the runtime answers, a timeout of the agent leaves its sandbox in place
\* for the patch (r2e_task.py:116-117).
THEOREM WorkSurvivesTimeout == Spec => []TimeoutKeepsSandbox
<1>1. SandboxInv => TimeoutKeepsSandbox
  BY DEF SandboxInv, Answered, TimeoutKeepsSandbox
<1>. QED
  BY <1>1, SandboxInvariance, PTL

-------------------------------------------------------------------------------
(* Reading a test run. *)

\* Max is the greatest of a non-empty set of positions.
LEMMA GreatestPosition ==
  ASSUME NEW n \in Nat, NEW S, S \subseteq 1 .. n, S # {}
  PROVE  Max(S) \in S /\ \A i \in S : i <= Max(S)
<1> DEFINE T == {n - i : i \in S}
<1>1. T \subseteq Nat /\ T # {} OBVIOUS
<1>2. PICK m \in T : \A k \in T : m <= k
  <2> HIDE DEF T
  <2> QED BY <1>1, LeastElement
<1>3. PICK i \in S : m = n - i OBVIOUS
<1>4. \A k \in S : i >= k
  <2>1. \A k \in S : m <= n - k BY <1>2
  <2>2. \A k \in S : k \in Int OBVIOUS
  <2> QED BY <2>1, <2>2, <1>3
<1>5. \E x \in S : \A y \in S : x >= y BY <1>4
<1> QED BY <1>5 DEF Max

\* The status of a test is what the last line about it says (Statuses).
LEMMA LastLineWins ==
  ASSUME NEW lines \in Seq(STRING \X STRING), NEW t \in DOMAIN Statuses(lines)
  PROVE  \E i \in DOMAIN lines : /\ lines[i][1] = t /\ lines[i][2] = Statuses(lines)[t]
                                 /\ \A j \in DOMAIN lines : j > i => lines[j][1] # t
<1> DEFINE S == {i \in DOMAIN lines : lines[i][1] = t}
<1>1. DOMAIN lines = 1 .. Len(lines) /\ Len(lines) \in Nat OBVIOUS
<1>2. S \subseteq 1 .. Len(lines) /\ S # {} BY <1>1 DEF Statuses
<1>3. Max(S) \in S /\ \A i \in S : i <= Max(S)
  <2> HIDE DEF S
  <2> QED BY <1>1, <1>2, GreatestPosition
<1>4. Statuses(lines)[t] = lines[Max(S)][2] BY DEF Statuses
<1>5. PICK i : i = Max(S) OBVIOUS
<1>6. i \in DOMAIN lines /\ lines[i][1] = t /\ \A j \in DOMAIN lines : lines[j][1] = t => j <= i
  BY <1>3, <1>5
<1>7. \A j \in DOMAIN lines : j > i => lines[j][1] # t BY <1>1, <1>6
<1> QED BY <1>4, <1>5, <1>6, <1>7

\* So the last word on a test is its status.
LEMMA LastWordIsStatus ==
  ASSUME NEW lines \in Seq(STRING \X STRING), NEW t, NEW S
  PROVE  LastWord(lines, t, S) <=> t \in DOMAIN Statuses(lines) /\ Statuses(lines)[t] \in S
<1>1. ASSUME t \in DOMAIN Statuses(lines), Statuses(lines)[t] \in S PROVE LastWord(lines, t, S)
  BY <1>1, LastLineWins DEF LastWord
<1>2. ASSUME LastWord(lines, t, S) PROVE t \in DOMAIN Statuses(lines) /\ Statuses(lines)[t] \in S
  <2>1. PICK i \in DOMAIN lines : /\ lines[i][1] = t /\ lines[i][2] \in S
                                 /\ \A j \in DOMAIN lines : j > i => lines[j][1] # t
    BY <1>2 DEF LastWord
  <2>2. t \in DOMAIN Statuses(lines) BY <2>1 DEF Statuses
  <2>3. PICK k \in DOMAIN lines : /\ lines[k][1] = t /\ lines[k][2] = Statuses(lines)[t]
                                 /\ \A j \in DOMAIN lines : j > k => lines[j][1] # t
    BY <2>2, LastLineWins
  <2>4. DOMAIN lines = 1 .. Len(lines) /\ Len(lines) \in Nat OBVIOUS
  <2>5. i = k BY <2>1, <2>3, <2>4
  <2> QED BY <2>1, <2>2, <2>3, <2>5
<1> QED BY <1>1, <1>2

\* A run that was not killed has printed everything (TestRun).
LEMMA RunsAreRead ==
  ASSUME TestRun
  PROVE  /\ printed' \in Seq(STRING \X STRING) /\ output' \in Seq(STRING \X STRING)
         /\ ending' \in {"ended", "killed", "exit124"}
         /\ ending' # "killed" => output' = printed'
         /\ kind = "deep_swe" => report' \in {"none", "0", "1"}
<1>0. PICK p \in IF kind = "deep_swe" THEN {<<>>} ELSE Outputs, e \in {"ended", "killed", "exit124"} :
        \E n \in 0 .. Len(p) :
          /\ e # "killed" => n = Len(p)
          /\ printed' = p /\ output' = SubSeq(p, 1, n) /\ ending' = e
          /\ kind = "deep_swe" => report' \in {"none", "0", "1"}
  BY DEF TestRun
<1>1. PICK n \in 0 .. Len(p) :
        /\ e # "killed" => n = Len(p)
        /\ printed' = p /\ output' = SubSeq(p, 1, n) /\ ending' = e
        /\ kind = "deep_swe" => report' \in {"none", "0", "1"}
  BY <1>0
<1>2. p \in Seq(STRING \X STRING)
  <2>1. <<>> \in Seq(STRING \X STRING) OBVIOUS
  <2> QED BY <1>1, <2>1, GradingAssumption
<1>3. SubSeq(p, 1, n) \in Seq(STRING \X STRING) BY <1>2, <1>1
<1>4. SubSeq(p, 1, Len(p)) = p BY <1>2
<1> QED BY <1>1, <1>2, <1>3, <1>4

-------------------------------------------------------------------------------
(* The grading. *)

GradeTypeOK ==
  /\ kind \in {"r2e", "swe_smith", "swe_bench", "deep_swe"}
  /\ stage \in {"agent", "collected", "apply", "test", "judge", "done", "raised"}
  /\ verifier \in {"none", "up", "removed"}
  /\ kind = "r2e" => expected \in [Required -> {"PASSED", "FAILED", "ERROR"}]
  /\ output \in Seq(STRING \X STRING) /\ printed \in Seq(STRING \X STRING)

\* What the grader of a run knows of it.
Read ==
  stage = "judge" =>
    /\ ending \in {"ended", "killed", "exit124"} /\ (ending # "killed" => output = printed)
    /\ kind = "deep_swe" => report \in {"none", "0", "1"}

\* Two kinds have a verifier, only patch(1) loses work on its way to the tests, and
\* SWE-bench tests no empty patch.
Tested ==
  /\ stage \in {"collected", "apply", "test"} => kind \in {"swe_bench", "deep_swe"}
  /\ stage \in {"test", "judge", "done"} /\ Lost # {} => kind = "swe_bench" /\ ~ Applies(patch)
  /\ stage \in {"apply", "test", "judge"} /\ kind = "swe_bench" => Changed(patch) # {}

\* The work has left the agent's container.
Gathered == stage \in {"collected", "apply", "test", "judge", "done"} \/ verifier # "none"

\* Nothing of the agent runs any more, and its container is gone or will be.
Over ==
  /\ pc \in {"leave", "ended"} /\ wait # "run" /\ process # "running"
  /\ named \/ removing \/ container = "removed"

\* The container of the agent is gone for good.
Gone == pc = "ended" /\ ~ removing /\ container = "removed"

\* What is graded is apart from what the agent may still touch.
Separate ==
  /\ stage = "agent" <=> ~ (Gathered \/ stage = "raised")
  /\ stage # "agent" => pc \in {"leave", "ended"}
  /\ Gathered => Over /\ patch = Collected
  /\ verifier # "none" => Gone
  /\ stage = "apply" => verifier # "none"
  /\ kind # "r2e" => tree["tests"] = "own"

GradingInv == SandboxInv /\ GradeTypeOK /\ Read /\ Separate /\ Tested /\ VerdictIsEarned

\* Before the task nothing is collected (GradedInit).
LEMMA GradingStarts == GradedInit => GradingInv
<1> SUFFICES ASSUME GradedInit PROVE GradingInv OBVIOUS
<1>1. SandboxInv BY SandboxStarts DEF GradedInit
<1>2. GradeTypeOK
  <2>1. <<>> \in Seq(STRING \X STRING) OBVIOUS
  <2> QED BY <2>1, GradingAssumption DEF GradedInit, GradeTypeOK
<1>3. Separate BY DEF GradedInit, Separate, Gathered, Own, Files
<1>4. VerdictIsEarned /\ Read /\ Tested BY DEF GradedInit, VerdictIsEarned, Read, Tested
<1> QED BY <1>1, <1>2, <1>3, <1>4 DEF GradingInv

\* What is over stays over, and what is gone stays gone: after the agent's part
\* the task starts no command and no container (r2e_task.py:81-137).
LEMMA NothingComesBack ==
  ASSUME SandboxInv, Next, pc \in {"leave", "ended"}
  PROVE  /\ pc' \in {"leave", "ended"}
         /\ Over => Over'
         /\ Gone /\ wait # "run" => Gone'
<1> USE DEF SandboxInv, TaskTypeOK, Starting, Known, Over, Gone
<1>1. CASE Removed BY <1>1 DEF Removed
<1>2. CASE StartedUnnoticed BY <1>2 DEF StartedUnnoticed
<1>3. CASE CallEnds BY <1>3 DEF CallEnds
<1>4. CASE ProcessEnds \/ ProcessKilled BY <1>4 DEF ProcessEnds, ProcessKilled
<1>5. CASE TaskEnds BY <1>5 DEF TaskEnds, Leave, Stop
<1>6. ~ (Started \/ AgentCommand \/ AgentCommandFails \/ AgentEnds \/ HostCommand \/ HostCommandFails)
  BY DEF Started, AgentCommand, AgentCommandFails, AgentEnds, HostCommand, HostCommandFails
<1>7. ~ (ExecReturns \/ ExecTimesOut \/ ExecDrained \/ ClientTimedOut)
  BY DEF ExecReturns, ExecTimesOut, ExecDrained, ClientTimedOut
<1>8. ~ (AgentTimeout \/ OuterCancel) BY DEF AgentTimeout, OuterCancel
<1> QED BY <1>1, <1>2, <1>3, <1>4, <1>5, <1>6, <1>7, <1>8 DEF Next, Coroutine, Runtime

\* The part "collect" that returns has its work from a container the task knows.
LEMMA CollectedFromKnown ==
  ASSUME SandboxInv, Next, pc = "collect", pc' = "leave", wait = "shield", call = "returned"
  PROVE  Over'
<1> USE DEF SandboxInv, TaskTypeOK, Starting, Quiet, Known, Over
<1>1. CASE ExecReturns BY <1>1 DEF ExecReturns
<1>2. CASE Removed \/ CallEnds \/ ProcessEnds \/ ProcessKilled
  BY <1>2 DEF Removed, CallEnds, ProcessEnds, ProcessKilled
<1>3. ~ (StartedUnnoticed \/ Started \/ AgentCommand \/ AgentCommandFails \/ AgentEnds \/ HostCommand
         \/ HostCommandFails \/ TaskEnds)
  BY DEF StartedUnnoticed, Started, AgentCommand, AgentCommandFails, AgentEnds, HostCommand, Exec,
         HostCommandFails, TaskEnds
<1>4. ~ (ExecTimesOut \/ ExecDrained \/ ClientTimedOut)
  BY DEF ExecTimesOut, ExecDrained, ClientTimedOut
<1>5. ~ AgentTimeout BY DEF AgentTimeout
<1>6. ~ OuterCancel BY DEF OuterCancel, Cancelled, CancelShielded
<1> QED BY <1>1, <1>2, <1>3, <1>4, <1>5, <1>6 DEF Next, Coroutine, Runtime

\* The tests a tree is graded with are the project's once they are restored.
LEMMA RestoredTests ==
  /\ \A p : TestsRestored(Patched(p))["tests"] = "own"
  /\ \A p : TestsRestored(GradedTree(p))["tests"] = "own"
<1>1. "tests" \in Files BY DEF Files
<1> QED BY <1>1 DEF TestsRestored, Patched, GradedTree, Fuzzed

\* The tree of a patch that git takes has all of it; restoring the tests takes
\* nothing of the sources away.
LEMMA AllIsTested ==
  ASSUME NEW p, tree' = Patched(p) \/ tree' = TestsRestored(Patched(p)), patch' = p
  PROVE  Lost' = {}
<1>1. \A f \in Changed(p) \ {"tests"} : Patched(p)[f] = "agent" /\ TestsRestored(Patched(p))[f] = "agent"
  BY DEF Patched, TestsRestored, Changed
<1> QED BY <1>1 DEF Lost, Changed

\* A step of the task leaves the grading alone, raises, or collects the work
\* while nothing of the agent runs (SandboxStep).
LEMMA SandboxStepKeeps == GradingInv /\ SandboxStep => GradingInv'
<1> SUFFICES ASSUME GradingInv, SandboxStep PROVE GradingInv' OBVIOUS
<1> USE DEF GradingInv
<1>n. Next BY DEF SandboxStep
<1>s. SandboxInv' BY <1>n, SandboxSteps
<1>1. CASE UNCHANGED gradeVars /\ pc \in {"leave", "ended"}
  <2> USE <1>1 DEF gradeVars, runVars
  <2>1. GradeTypeOK' /\ Read' BY DEF GradeTypeOK, Read
  <2>2. VerdictIsEarned' /\ Tested' BY DEF VerdictIsEarned, Tested, Lost, Changed, Applies
  <2>3. Separate'
    <3>1. Gathered' <=> Gathered BY DEF Gathered
    <3>2. Collected' = Collected BY DEF Collected
    <3>3. pc' \in {"leave", "ended"} /\ (Over => Over') /\ (Gone /\ wait # "run" => Gone')
      BY <1>n, NothingComesBack
    <3>4. verifier # "none" => Gone /\ Over BY DEF Separate, Gathered
    <3>5. verifier # "none" => Gone' BY <3>3, <3>4 DEF Over
    <3> QED BY <3>1, <3>2, <3>3, <3>5 DEF Separate
  <2> QED BY <2>1, <2>2, <2>3, <1>s
<1>2. CASE UNCHANGED gradeVars /\ pc \notin {"leave", "ended"}
  <2> USE <1>2 DEF gradeVars, runVars
  <2>1. GradeTypeOK' /\ Read' BY DEF GradeTypeOK, Read
  <2>2. VerdictIsEarned' /\ Tested' BY DEF VerdictIsEarned, Tested, Lost, Changed, Applies
  <2>3. stage = "agent" /\ ~ Gathered BY DEF Separate
  <2>4. Gathered' <=> Gathered BY DEF Gathered
  <2>5. Separate' BY <2>3, <2>4 DEF Separate, Gathered
  <2> QED BY <2>1, <2>2, <2>5, <1>s
<1>3. CASE Raised /\ stage = "agent" /\ pc' \in {"leave", "ended"}
  <2> USE <1>3 DEF Raised, runVars
  <2>1. GradeTypeOK' /\ Read' BY DEF GradeTypeOK, Read
  <2>2. VerdictIsEarned' /\ Tested' BY DEF VerdictIsEarned, Tested
  <2>3. verifier = "none" /\ ~ Gathered BY DEF Separate, Gathered
  <2>4. ~ Gathered' BY <2>3 DEF Gathered
  <2>5. Separate' BY <2>3, <2>4 DEF Separate
  <2> QED BY <2>1, <2>2, <2>5, <1>s
<1>4. CASE pc = "collect" /\ pc' = "leave" /\ wait = "shield" /\ call = "returned"
  <2>o. Over' BY <1>n, <1>4, CollectedFromKnown
  <2>v. stage = "agent" /\ verifier = "none" BY <1>4 DEF Separate, Gathered
  <2>1. CASE kind \in {"r2e", "swe_smith"} /\ TestInPlace
    <3> USE <2>1 DEF TestInPlace
    <3>0. UNCHANGED <<kind, expected, work, verifier, reward, regrades>> /\ patch' = Collected OBVIOUS
    <3>1. Collected' = Collected BY <3>0 DEF Collected
    <3>2. CASE kind = "swe_smith" /\ ~ Applies(Collected)
      <4>0. stage' = "raised" /\ UNCHANGED <<tree, runVars>> BY <3>2
      <4>1. GradeTypeOK' /\ Read' BY <3>0, <4>0 DEF GradeTypeOK, Read, runVars
      <4>2. VerdictIsEarned' /\ Tested' BY <4>0 DEF VerdictIsEarned, Tested
      <4>3. ~ Gathered' BY <2>v, <3>0, <4>0 DEF Gathered
      <4>4. Separate' BY <4>0, <4>3, <3>0, <2>v, <1>4 DEF Separate
      <4> QED BY <4>1, <4>2, <4>4, <1>s
    <3>3. CASE ~ (kind = "swe_smith" /\ ~ Applies(Collected))
      <4>0. /\ stage' = "judge" /\ TestRun
            /\ tree' = IF kind = "swe_smith" THEN TestsRestored(Patched(Collected)) ELSE Patched(Collected)
        BY <3>3
      <4>1. GradeTypeOK' /\ Read' BY <3>0, <4>0, RunsAreRead DEF GradeTypeOK, Read
      <4>6. Lost' = {} BY <3>0, <4>0, AllIsTested
      <4>2. VerdictIsEarned' /\ Tested' BY <4>0, <4>6 DEF VerdictIsEarned, Tested
      <4>3. Gathered' BY <4>0 DEF Gathered
      <4>4. kind' # "r2e" => tree'["tests"] = "own" BY <2>1, <3>0, <4>0, RestoredTests
      <4>5. Separate' BY <4>0, <4>3, <4>4, <3>0, <3>1, <2>v, <2>o, <1>4 DEF Separate
      <4> QED BY <4>1, <4>2, <4>5, <1>s
    <3> QED BY <3>2, <3>3
  <2>2. CASE kind \notin {"r2e", "swe_smith"} /\ TakePatch
    <3> USE <2>2 DEF TakePatch, runVars
    <3>1. Collected' = Collected BY DEF Collected
    <3>2. GradeTypeOK' /\ Read' BY DEF GradeTypeOK, Read
    <3>6. kind \in {"swe_bench", "deep_swe"} BY <2>2 DEF GradeTypeOK
    <3>3. VerdictIsEarned' /\ Tested' BY <3>6 DEF VerdictIsEarned, Tested
    <3>4. Gathered' BY DEF Gathered
    <3>5. Separate' BY <3>1, <3>4, <2>v, <2>o, <1>4 DEF Separate
    <3> QED BY <3>2, <3>3, <3>5, <1>s
  <2> QED BY <2>1, <2>2, <1>4 DEF SandboxStep
<1>5. CASE pc = "collect" /\ pc' = "leave" /\ ~ (wait = "shield" /\ call = "returned")
  <2>1. stage = "agent" BY <1>5 DEF Separate
  <2> QED BY <2>1, <1>3, <1>5 DEF SandboxStep
<1>6. CASE ~ (pc = "collect" /\ pc' = "leave")
  BY <1>1, <1>2, <1>3, <1>6 DEF SandboxStep
<1> QED BY <1>4, <1>5, <1>6

\* Files change only while the agent's work has not been collected (AgentEdits).
LEMMA AgentEditsKeep == GradingInv /\ AgentEdits => GradingInv'
<1> SUFFICES ASSUME GradingInv, AgentEdits PROVE GradingInv' OBVIOUS
<1> USE DEF GradingInv, AgentEdits, runVars
<1>1. SandboxInv' BY SandboxSteps
<1>2. GradeTypeOK' /\ Read' BY DEF GradeTypeOK, Read
<1>3. VerdictIsEarned' /\ Tested' BY DEF VerdictIsEarned, Tested, Lost, Changed, Applies
<1>4. ~ Gathered BY DEF Separate, Over
<1>5. ~ Gathered' BY <1>4 DEF Gathered
<1>6. Separate' BY <1>4, <1>5 DEF Separate, Gathered, vars
<1> QED BY <1>1, <1>2, <1>3, <1>6

\* A verdict is given by what the test run said (score_pytest_output,
\* score_test_statuses).
LEMMA ResolvedMeans ==
  ASSUME GradeTypeOK
  PROVE  /\ kind = "r2e" /\ Resolved =>
              /\ \A t \in Required : LastWord(output, t, {expected[t]})
              /\ \A i \in DOMAIN output : output[i][1] \in Required
         /\ kind \in {"swe_smith", "swe_bench"} =>
              (Resolved <=> \A t \in Required : LastWord(output, t, Passing))
<1> DEFINE st == Statuses(output)
<1>o. output \in Seq(STRING \X STRING) BY DEF GradeTypeOK
<1>w. \A t, S : LastWord(output, t, S) <=> t \in DOMAIN st /\ st[t] \in S BY <1>o, LastWordIsStatus
<1>s. \A i \in DOMAIN output : output[i][1] \in DOMAIN st BY DEF Statuses
<1>1. ASSUME kind = "r2e", Resolved
      PROVE  /\ \A t \in Required : LastWord(output, t, {expected[t]})
             /\ \A i \in DOMAIN output : output[i][1] \in Required
  <2>1. st = expected BY <1>1 DEF Resolved, PytestReward
  <2>2. DOMAIN expected = Required BY <1>1 DEF GradeTypeOK
  <2> HIDE DEF st
  <2> QED BY <1>w, <1>s, <2>1, <2>2
<1>2. ASSUME kind \in {"swe_smith", "swe_bench"}
      PROVE  Resolved <=> \A t \in Required : LastWord(output, t, Passing)
  <2>1. Resolved <=> SmithReward(st) BY <1>2 DEF Resolved
  <2> HIDE DEF st
  <2> QED BY <1>w, <2>1 DEF SmithReward
<1> QED BY <1>1, <1>2

\* The verifier starts on what was collected, when the agent's container is
\* gone, and leaves files, patch and tests apart (StartVerifier ... Regrade).
LEMMA GradingKeeps == GradingInv /\ Grading => GradingInv'
<1> SUFFICES ASSUME GradingInv, Grading PROVE GradingInv' OBVIOUS
<1> USE DEF GradingInv
<1>v. UNCHANGED <<vars, kind, expected, work>>
  BY DEF Grading, StartVerifier, ApplyPatch, RunTests, Judge, Regrade
<1>s. SandboxInv' BY <1>v, SandboxSteps
<1>o. /\ Collected' = Collected /\ (Over' <=> Over) /\ (Gone' <=> Gone)
      /\ pc' = pc /\ kind' = kind /\ expected' = expected
  BY <1>v DEF Collected, Over, Gone, vars
<1>1. CASE StartVerifier
  <2> USE <1>1 DEF StartVerifier, runVars
  <2>1. GradeTypeOK' /\ Read'
    <3>1. stage' \in {"done", "apply"} /\ verifier' \in {verifier, "up"} /\ UNCHANGED <<printed, output>> OBVIOUS
    <3> QED BY <3>1, <1>o DEF GradeTypeOK, Read
  <2>2. Gone /\ Gathered
    <3>1. Over /\ Gathered BY DEF Separate, Gathered
    <3>2. ~ named BY DEF SandboxInv, Known
    <3> QED BY <3>1, <3>2 DEF Over, Gone
  <2>3. Gathered' /\ stage' # "agent" /\ stage' # "raised" BY DEF Gathered
  <2>4. Separate' BY <2>2, <2>3, <1>o DEF Separate
  <2>6. stage' = "done" => kind = "swe_bench" /\ Changed(patch) = {} /\ reward' = 0 OBVIOUS
  <2>7. Changed(patch)' = Changed(patch) /\ stage' \in {"done", "apply"} BY DEF Changed
  <2>8. stage' = "done" => Lost' = {} BY <2>6, <2>7 DEF Lost, Changed
  <2>5. VerdictIsEarned' /\ Tested' BY <2>6, <2>7, <2>8, <1>o DEF VerdictIsEarned, Tested
  <2> QED BY <2>1, <2>4, <2>5, <1>s
<1>2. CASE ApplyPatch
  <2> USE <1>2 DEF ApplyPatch, runVars
  <2>0. /\ UNCHANGED <<patch, printed, output, ending, report, reward>>
        /\ \/ stage' = "test" /\ tree' = TestsRestored(GradedTree(patch)) /\ UNCHANGED verifier
           \/ stage' = "raised" /\ verifier' = "removed" /\ UNCHANGED tree
    OBVIOUS
  <2>1. GradeTypeOK' /\ Read' BY <2>0, <1>o DEF GradeTypeOK, Read
  <2>2. Gathered /\ Over /\ patch = Collected BY DEF Separate, Gathered
  <2>3. Gathered' BY <2>0 DEF Gathered
  <2>4. verifier' # "none" => Gone
    <3>1. verifier # "none" => Gone BY DEF Separate
    <3>2. verifier # "none" BY DEF Separate
    <3> QED BY <3>1, <3>2
  <2>5. kind # "r2e" => tree'["tests"] = "own" BY <2>0, RestoredTests DEF Separate
  <2>6. Separate' BY <2>0, <2>2, <2>3, <2>4, <2>5, <1>o DEF Separate, Over
  <2>8. ~ (kind = "swe_bench" /\ ~ Applies(patch)) /\ stage' = "test" => Lost' = {}
    <3>1. CASE ~ (kind = "swe_bench" /\ ~ Applies(patch)) /\ stage' = "test"
      <4>1. kind = "deep_swe" \/ Applies(patch)
        BY <3>1 DEF Tested
      <4>2. tree' = TestsRestored(Patched(patch)) BY <2>0, <3>1, <4>1 DEF GradedTree
      <4> QED BY <2>0, <4>2, AllIsTested
    <3> QED BY <3>1
  <2>9. (Applies(patch)' <=> Applies(patch)) /\ Changed(patch)' = Changed(patch) BY <2>0 DEF Applies, Changed
  <2>7. VerdictIsEarned' /\ Tested' BY <2>0, <2>8, <2>9, <1>o DEF VerdictIsEarned, Tested
  <2> QED BY <2>1, <2>6, <2>7, <1>s
<1>3. CASE RunTests
  <2> USE <1>3 DEF RunTests
  <2>1. GradeTypeOK' /\ Read' BY <1>o, RunsAreRead DEF GradeTypeOK, Read
  <2>2. Gathered /\ Gathered' BY DEF Gathered
  <2>3. Separate' BY <2>2, <1>o DEF Separate
  <2>4. VerdictIsEarned' /\ Tested' BY <1>o DEF VerdictIsEarned, Tested, Lost, Applies, Changed
  <2> QED BY <2>1, <2>3, <2>4, <1>s
<1>4. CASE Judge
  <2> USE <1>4 DEF Judge, runVars
  <2>0. /\ UNCHANGED <<patch, tree, printed, output, ending, report>>
        /\ verifier' = IF verifier = "up" THEN "removed" ELSE verifier
        /\ \/ Unjudged /\ stage' = "raised"
           \/ ~ Unjudged /\ stage' = "done" /\ reward' = IF Resolved THEN 1 ELSE 0
    OBVIOUS
  <2>1. GradeTypeOK' /\ Read' BY <2>0, <1>o DEF GradeTypeOK, Read
  <2>2. Gathered /\ Over /\ patch = Collected BY DEF Separate, Gathered
  <2>3. Separate' BY <2>0, <2>2, <1>o DEF Separate, Gathered
  <2>5. Lost' = Lost /\ (Applies(patch)' <=> Applies(patch)) BY <2>0 DEF Lost, Applies, Changed
  <2>6. Tested' BY <2>0, <2>5, <1>o DEF Tested, Changed
  <2>4. VerdictIsEarned'
    <3> SUFFICES ASSUME stage' = "done" PROVE VerdictIsEarned' BY DEF VerdictIsEarned
    <3>0. ~ Unjudged /\ reward' = IF Resolved THEN 1 ELSE 0 BY <2>0
    <3>1. reward' = 1 <=> Resolved BY <3>0
    <3>2. kind = "swe_bench" => report = "complete" /\ output = printed
      BY <3>0 DEF Unjudged, TimedOut, Read
    <3>3. kind = "deep_swe" => report = IF reward' = 1 THEN "1" ELSE "0"
      BY <3>0 DEF Unjudged, Resolved, Read
    <3>4. Lost' # {} => kind = "swe_bench" /\ ~ Applies(patch)' BY <2>5 DEF Tested
    <3>5. kind = "swe_bench" => Changed(patch) # {}
      BY DEF Tested
    <3>6. Changed(patch)' = Changed(patch) BY <2>0 DEF Changed
    <3> QED BY <3>6, <3>1, <3>2, <3>3, <3>4, <3>5, <2>0, <1>o, ResolvedMeans DEF VerdictIsEarned, LastWord
  <2> QED BY <2>1, <2>3, <2>4, <2>6, <1>s
<1>5. CASE Regrade
  <2> USE <1>5 DEF Regrade
  <2>1. GradeTypeOK' /\ Read'
    <3>1. <<>> \in Seq(STRING \X STRING) OBVIOUS
    <3> QED BY <3>1, <1>o DEF GradeTypeOK, Read
  <2>2. Gathered /\ Gathered' BY DEF Gathered
  <2>3. Separate' BY <2>2, <1>o DEF Separate
  <2>4. VerdictIsEarned' /\ Tested' BY DEF VerdictIsEarned, Tested
  <2> QED BY <2>1, <2>3, <2>4, <1>s
<1> QED BY <1>1, <1>2, <1>3, <1>4, <1>5 DEF Grading

-------------------------------------------------------------------------------
(* The results. *)

\* Every step of a graded task keeps the invariant.
LEMMA GradedSteps == GradingInv /\ [GradedNext]_allVars => GradingInv'
<1> SUFFICES ASSUME GradingInv, [GradedNext]_allVars PROVE GradingInv' OBVIOUS
<1>1. CASE UNCHANGED allVars
  <2> USE <1>1 DEF allVars, gradeVars, runVars, GradingInv
  <2>1. SandboxInv' BY SandboxSteps
  <2>2. GradeTypeOK' /\ Read' BY DEF GradeTypeOK, Read
  <2>3. Separate' BY DEF Separate, Gathered, Over, Gone, Collected, vars
  <2>4. VerdictIsEarned' /\ Tested' BY DEF VerdictIsEarned, Tested, Lost, Changed, Applies
  <2> QED BY <2>1, <2>2, <2>3, <2>4
<1> QED BY <1>1, SandboxStepKeeps, AgentEditsKeep, GradingKeeps DEF GradedNext

\* The inductive invariant of a graded task.
THEOREM GradingInvariance == GradedSpec => []GradingInv
BY GradingStarts, GradedSteps, PTL DEF GradedSpec

\* A graded task is a task of AgentSandbox: composition takes nothing away from
\* and adds nothing to what the sandbox does.
THEOREM GradedTaskIsTask == GradedSpec => Spec
<1>1. GradedInit => Init BY DEF GradedInit
<1>2. [GradedNext]_allVars => [Next]_vars
  BY DEF GradedNext, SandboxStep, AgentEdits, Grading, StartVerifier, ApplyPatch, RunTests, Judge,
         Regrade, allVars
<1> QED BY <1>1, <1>2, PTL DEF GradedSpec, Spec

\* So the sandbox of a graded task is quiet during collection, and survives the
\* agent's timeout (r2e_task.py:104-128).
THEOREM GradedSandboxIsSafe == GradedSpec => [](SnapshotIsQuiet /\ TimeoutKeepsSandbox)
BY GradedTaskIsTask, CollectionIsQuiet, WorkSurvivesTimeout, PTL

\* What is graded is the work the agent left, whatever its timeout interrupted:
\* no process or container of the agent is beside a verifier, and the tests are
\* the project's own.
THEOREM GradersAreIndependent == GradedSpec => []GraderIsIndependent
<1>1. GradingInv => GraderIsIndependent
  <2> SUFFICES ASSUME GradingInv PROVE GraderIsIndependent OBVIOUS
  <2>1. stage \in {"collected", "apply", "test", "judge", "done"} => patch = Collected
    BY DEF GradingInv, Separate, Gathered
  <2>2. verifier = "up" => container = "removed" /\ process # "running"
    BY DEF GradingInv, Separate, Gathered, Gone, Over
  <2>3. kind # "r2e" => tree["tests"] = "own" BY DEF GradingInv, Separate
  <2> QED BY <2>1, <2>2, <2>3 DEF GraderIsIndependent
<1> QED BY <1>1, GradingInvariance, PTL

\* A score is about the tests and the agent's work, for outputs of every length
\* and every expectation: R2E's one is the map of its metadata, SWE-bench's score
\* the one of the whole run, DeepSWE's its verifier's, and collected work is lost
\* only in the last fallback of SWE-bench (r2e_task.py:244-285,
\* swe_bench_task.py:149-182, deepswe_task.py:97-104).
THEOREM VerdictsAreEarned == GradedSpec => []VerdictIsEarned
<1>1. GradingInv => VerdictIsEarned BY DEF GradingInv
<1> QED BY <1>1, GradingInvariance, PTL
===============================================================================
