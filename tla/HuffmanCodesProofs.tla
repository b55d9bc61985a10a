------------------------- MODULE HuffmanCodesProofs -------------------------
(***************************************************************************)
(* Proofs about HuffmanCodes, for every alphabet and all frequencies.      *)
(*                                                                         *)
(*   - Every list package-merge makes is sorted, its packages carry twice  *)
(*     the leaves of the originals they were made of, and the coins taken  *)
(*     first take, at every depth, the lightest symbols: the leaves of one *)
(*     depth are a front part of the sorted symbols (Layers).              *)
(*   - 2m - 2 coins then spend the room of the code exactly: from depth to *)
(*     depth, twice the leaves less the coins never falls to zero before   *)
(*     the leaves do (Thinning).  So the codes fit and leave no gap.       *)
(*   - From a length to a longer one the first code at least doubles, so   *)
(*     no canonical code is the beginning of another, and reversing the    *)
(*     bits keeps them apart.                                              *)
(*                                                                         *)
(* Recursive functions are reasoned about through the least number at      *)
(* which a claim fails (LeastNat) and one existence lemma (Recursion).     *)
(***************************************************************************)
EXTENDS HuffmanCodes, FiniteSetTheorems, NaturalsInduction, SequenceTheorems, TLAPS

LEMMA LeastNat ==
    ASSUME NEW S \in SUBSET Nat, S # {}
    PROVE  \E x \in S : \A y \in S : x <= y
<1> DEFINE R == OpToRel(<, Nat)
<1>1. R = {ss \in Nat \X Nat : ss[1] < ss[2]}  BY DEF OpToRel
<1>2. IsWellFoundedOn(R, Nat)  BY NatLessThanWellFounded
<1> HIDE DEF R
<1>3. PICK x \in S : \A y \in S : ~(<<y, x>> \in R)  BY ONLY <1>2, S \subseteq Nat, S # {}, WFMin
<1>4. \A y \in S : x <= y
  <2> SUFFICES ASSUME NEW y \in S  PROVE x <= y  OBVIOUS
  <2>1. x \in Nat /\ y \in Nat  OBVIOUS
  <2>2. ~(y < x)  BY <1>1, <1>3, <2>1
  <2> QED  BY ONLY <2>1, <2>2
<1> QED  BY <1>4

\* A recursion on the numbers up to n has a solution: there is no least bound
\* below which it has none.
Recurs(f, c, step, S, n) ==
    /\ f \in [0..n -> S]
    /\ f[0] = c
    /\ \A k \in 1..n : f[k] = step[<<k, f[k - 1]>>]

LEMMA Recursion ==
    ASSUME NEW n \in Nat, NEW S, NEW c \in S, NEW step \in [(1..n) \X S -> S]
    PROVE  \E f : Recurs(f, c, step, S, n)
<1> DEFINE Bad == {k \in 0..n : ~ \E f : Recurs(f, c, step, S, k)}
<1>1. SUFFICES ASSUME Bad # {}  PROVE FALSE  OBVIOUS
<1>2. PICK k \in Bad : \A j \in Bad : k <= j
  <2>1. Bad \in SUBSET Nat  OBVIOUS
  <2> HIDE DEF Bad
  <2> QED  BY <1>1, <2>1, LeastNat
<1>3. k \in 0..n /\ ~ \E f : Recurs(f, c, step, S, k)  OBVIOUS
<1>4. CASE k = 0
  <2> DEFINE g == [i \in 0..0 |-> c]
  <2>1. g \in [0..0 -> S] /\ g[0] = c /\ 1..0 = {}  OBVIOUS
  <2> HIDE DEF g
  <2>2. Recurs(g, c, step, S, 0)  BY <2>1 DEF Recurs
  <2> QED  BY <1>3, <1>4, <2>2
<1>5. CASE k # 0
  <2>1. k - 1 \in 0..n /\ ~(k <= k - 1) /\ k \in Nat  BY <1>3, <1>5
  <2>2. PICK f : Recurs(f, c, step, S, k - 1)  BY <1>2, <2>1
  <2> DEFINE g == [i \in 0..k |-> IF i = k THEN step[<<k, f[k - 1]>>] ELSE f[i]]
  <2>3. f \in [0..(k - 1) -> S] /\ f[0] = c /\ \A i \in 1..(k - 1) : f[i] = step[<<i, f[i - 1]>>]
    BY <2>2 DEF Recurs
  <2>4. k \in 1..n /\ k - 1 \in 0..(k - 1) /\ k \in 0..k  BY <1>3, <1>5
  <2>5. step[<<k, f[k - 1]>>] \in S  BY <2>3, <2>4
  <2>6. \A i \in 0..k : i # k => i \in 0..(k - 1)  BY <2>1
  <2>7. g \in [0..k -> S]  BY <2>3, <2>5, <2>6
  <2>8. \A i \in 0..(k - 1) : i \in 0..k /\ i # k  BY <2>1
  <2>9. \A i \in 0..(k - 1) : g[i] = f[i]  BY <2>8
  <2>10. g[k] = step[<<k, f[k - 1]>>]  BY <2>4
  <2> HIDE DEF g
  <2>11. 0 \in 0..(k - 1)  BY <1>3, <1>5
  <2>12. \A i \in 1..k : i - 1 \in 0..(k - 1) /\ (i # k => i \in 1..(k - 1) /\ i \in 0..(k - 1))  BY <2>1
  <2>13. \A i \in 1..k : g[i] = step[<<i, g[i - 1]>>]
    <3> SUFFICES ASSUME NEW i \in 1..k  PROVE g[i] = step[<<i, g[i - 1]>>]  OBVIOUS
    <3>1. g[i - 1] = f[i - 1]  BY <2>9, <2>12
    <3>2. CASE i = k  BY <3>1, <3>2, <2>10
    <3>3. CASE i # k  BY <3>1, <3>3, <2>3, <2>9, <2>12
    <3> QED  BY <3>2, <3>3
  <2>14. Recurs(g, c, step, S, k)  BY <2>3, <2>7, <2>9, <2>11, <2>13 DEF Recurs
  <2> QED  BY <1>3, <2>14
<1> QED  BY <1>4, <1>5

-----------------------------------------------------------------------------
(* The sorted list *)

\* Frequencies of finitely many symbols, which are numbers.
IsFreqs(freqs) ==
    /\ DOMAIN freqs \subseteq Int /\ IsFiniteSet(DOMAIN freqs)
    /\ \A s \in DOMAIN freqs : freqs[s] \in Nat

Occurring(freqs) == Cardinality(Active(freqs))
Rank(freqs, s) == Cardinality({t \in Active(freqs) : Before(freqs, t, s)})

LEMMA ActiveFacts ==
    ASSUME NEW freqs, IsFreqs(freqs)
    PROVE  /\ IsFiniteSet(Active(freqs)) /\ Occurring(freqs) \in Nat
           /\ Active(freqs) \subseteq Int /\ Active(freqs) \subseteq DOMAIN freqs
           /\ \A s \in Active(freqs) : freqs[s] \in Nat \ {0}
<1>1. Active(freqs) \subseteq DOMAIN freqs  BY DEF Active
<1>2. IsFiniteSet(Active(freqs))  BY <1>1, FS_Subset DEF IsFreqs
<1>3. \A s \in Active(freqs) : freqs[s] \in Nat \ {0}  BY DEF Active, IsFreqs
<1> QED  BY <1>1, <1>2, <1>3, FS_CardinalityType DEF Occurring, IsFreqs

LEMMA RankGrows ==
    ASSUME NEW freqs, IsFreqs(freqs), NEW s \in Active(freqs), NEW t \in Active(freqs),
           Before(freqs, s, t)
    PROVE  Rank(freqs, s) < Rank(freqs, t)
<1> DEFINE A == Active(freqs)
           B(x) == {u \in A : Before(freqs, u, x)}
<1>1. \A u \in A : u \in Int /\ freqs[u] \in Nat  BY ActiveFacts
<1>2. B(s) \subseteq B(t)
  <2> SUFFICES ASSUME NEW u \in A, Before(freqs, u, s)  PROVE Before(freqs, u, t)  OBVIOUS
  <2> QED  BY <1>1 DEF Before
<1>3. s \in B(t) /\ ~(s \in B(s))  BY <1>1 DEF Before
<1>4. IsFiniteSet(B(t)) /\ IsFiniteSet(B(s))
  <2>1. B(t) \in SUBSET A /\ B(s) \in SUBSET A  OBVIOUS
  <2> QED  BY <2>1, ActiveFacts, FS_Subset
<1> HIDE DEF B
<1>5. Cardinality(B(s)) <= Cardinality(B(t)) /\ Cardinality(B(s)) # Cardinality(B(t))
  <2>1. B(s) \in SUBSET B(t)  BY <1>2
  <2> QED  BY <1>3, <1>4, <2>1, FS_Subset
<1>6. Cardinality(B(s)) \in Nat /\ Cardinality(B(t)) \in Nat  BY <1>4, FS_CardinalityType
<1>7. Cardinality(B(s)) < Cardinality(B(t))  BY <1>5, <1>6
<1> QED  BY <1>7 DEF Rank, B

LEMMA RankType ==
    ASSUME NEW freqs, IsFreqs(freqs), NEW s \in Active(freqs)
    PROVE  Rank(freqs, s) \in 0..(Occurring(freqs) - 1)
<1> DEFINE A == Active(freqs)
           B == {u \in A : Before(freqs, u, s)}
<1>1. IsFiniteSet(A) /\ Occurring(freqs) \in Nat /\ s \in Int /\ freqs[s] \in Nat  BY ActiveFacts
<1>2. ~(s \in B)  BY <1>1 DEF Before
<1>3. B \in SUBSET A /\ B # A  BY <1>2
<1> HIDE DEF B
<1>4. IsFiniteSet(B) /\ Cardinality(B) <= Cardinality(A) /\ Cardinality(B) # Cardinality(A)
  BY <1>1, <1>3, FS_Subset
<1>5. Cardinality(B) \in Nat  BY <1>4, FS_CardinalityType
<1>6. Cardinality(B) \in 0..(Occurring(freqs) - 1)  BY <1>1, <1>4, <1>5 DEF Occurring
<1> QED  BY <1>6 DEF Rank, B

LEMMA SortedFacts ==
    ASSUME NEW freqs, IsFreqs(freqs)
    PROVE  LET sorted == Sorted(freqs)
               m == Occurring(freqs)
           IN  /\ sorted \in [1..m -> Active(freqs)]
               /\ \A k \in 1..m : Rank(freqs, sorted[k]) = k - 1
               /\ \A s \in Active(freqs) : sorted[Rank(freqs, s) + 1] = s /\ Rank(freqs, s) + 1 \in 1..m
               /\ \A j, k \in 1..m : j <= k => freqs[sorted[j]] <= freqs[sorted[k]]
<1> DEFINE A == Active(freqs)
           m == Occurring(freqs)
           sorted == Sorted(freqs)
           R == [s \in A |-> Rank(freqs, s)]
<1>1. IsFiniteSet(A) /\ m \in Nat /\ \A s \in A : s \in Int /\ freqs[s] \in Nat  BY ActiveFacts
<1>2. \A s, t \in A : s # t => Before(freqs, s, t) \/ Before(freqs, t, s)  BY <1>1 DEF Before
<1>3. \A s, t \in A : R[s] = R[t] => s = t
  <2> SUFFICES ASSUME NEW s \in A, NEW t \in A, s # t  PROVE R[s] # R[t]  OBVIOUS
  <2>1. Rank(freqs, s) \in Int /\ Rank(freqs, t) \in Int  BY RankType, <1>1
  <2>2. Rank(freqs, s) < Rank(freqs, t) \/ Rank(freqs, t) < Rank(freqs, s)  BY <1>2, RankGrows
  <2> QED  BY <2>1, <2>2
<1>4. R \in [A -> 0..(m - 1)]  BY RankType
<1>5. R \in Injection(A, 0..(m - 1))  BY <1>3, <1>4 DEF Injection, IsInjective
<1>6. IsFiniteSet(0..(m - 1)) /\ Cardinality(0..(m - 1)) = m
  <2>1. 0 \in Int /\ m - 1 \in Int  BY <1>1
  <2>2. IsFiniteSet(0..(m - 1)) /\ Cardinality(0..(m - 1)) = IF 0 > m - 1 THEN 0 ELSE (m - 1) - 0 + 1
    BY <2>1, FS_Interval
  <2> QED  BY <1>1, <2>2
<1> HIDE DEF R
<1>7. R \in Surjection(A, 0..(m - 1))
  <2>1. Cardinality(A) = m  BY DEF Occurring
  <2> QED  BY <1>5, <1>6, <2>1, FS_Injection
<1>8. \A k \in 1..m : \E s \in A : Rank(freqs, s) = k - 1
  <2> SUFFICES ASSUME NEW k \in 1..m  PROVE \E s \in A : Rank(freqs, s) = k - 1  OBVIOUS
  <2>1. k - 1 \in 0..(m - 1)  BY <1>1
  <2>2. PICK s \in A : R[s] = k - 1  BY <1>7, <2>1 DEF Surjection
  <2> QED  BY <2>2 DEF R
<1>9. sorted = [k \in 1..m |-> CHOOSE s \in A : Rank(freqs, s) = k - 1]
  BY DEF Sorted, Occurring, Rank
<1> HIDE DEF sorted
<1>10. \A k \in 1..m : sorted[k] \in A /\ Rank(freqs, sorted[k]) = k - 1
  <2> SUFFICES ASSUME NEW k \in 1..m  PROVE sorted[k] \in A /\ Rank(freqs, sorted[k]) = k - 1  OBVIOUS
  <2>1. sorted[k] = CHOOSE s \in A : Rank(freqs, s) = k - 1  BY <1>9
  <2> QED  BY <1>8, <2>1
<1>11. sorted \in [1..m -> A]  BY <1>9, <1>10
<1>12. \A s \in A : sorted[Rank(freqs, s) + 1] = s /\ Rank(freqs, s) + 1 \in 1..m
  <2> SUFFICES ASSUME NEW s \in A
               PROVE  sorted[Rank(freqs, s) + 1] = s /\ Rank(freqs, s) + 1 \in 1..m  OBVIOUS
  <2>1. Rank(freqs, s) \in 0..(m - 1)  BY RankType
  <2>2. Rank(freqs, s) + 1 \in 1..m /\ (Rank(freqs, s) + 1) - 1 = Rank(freqs, s)  BY <1>1, <2>1
  <2>3. sorted[Rank(freqs, s) + 1] \in A
        /\ Rank(freqs, sorted[Rank(freqs, s) + 1]) = Rank(freqs, s)  BY <1>10, <2>2
  <2> QED  BY <1>3, <2>2, <2>3 DEF R
<1>13. \A j, k \in 1..m : j <= k => freqs[sorted[j]] <= freqs[sorted[k]]
  <2> SUFFICES ASSUME NEW j \in 1..m, NEW k \in 1..m, j <= k
               PROVE  freqs[sorted[j]] <= freqs[sorted[k]]  OBVIOUS
  <2>1. CASE j = k  BY <1>1, <1>10, <2>1
  <2>2. CASE j # k
    <3>1. ~(Rank(freqs, sorted[k]) < Rank(freqs, sorted[j]))  BY <1>1, <1>10, <2>2
    <3>2. sorted[j] \in A /\ sorted[k] \in A  BY <1>10
    <3>3. ~Before(freqs, sorted[k], sorted[j])  BY <3>1, <3>2, RankGrows
    <3> QED  BY <1>1, <3>2, <3>3 DEF Before
  <2> QED  BY <2>1, <2>2
<1> QED  BY <1>10, <1>11, <1>12, <1>13 DEF sorted

-----------------------------------------------------------------------------
(* The lists of coins *)

CoinOf(freqs) == [weight : Nat, leaves : [Active(freqs) -> Nat]]

\* A coin weighs at least as much as any of its leaves, and a list of coins is
\* sorted by weight.
IsCoin(freqs, c) ==
    /\ c \in CoinOf(freqs) /\ c.weight > 0
    /\ \A s \in Active(freqs) : c.leaves[s] > 0 => freqs[s] <= c.weight
IsList(freqs, c) ==
    /\ c \in Seq(CoinOf(freqs))
    /\ \A k \in 1..Len(c) : IsCoin(freqs, c[k])
    /\ \A j, k \in 1..Len(c) : j <= k => c[j].weight <= c[k].weight

LEMMA ListedIs ==
    ASSUME NEW S, NEW n \in Nat, NEW f \in [1..n -> S]
    PROVE  Listed(f, n) = f /\ f \in Seq(S) /\ Len(f) = n
<1>1. f \in Seq(S) /\ Len(f) = n  OBVIOUS
<1>2. SubSeq(f, 1, n) = f  BY <1>1, SubSeqFull
<1> QED  BY <1>1, <1>2 DEF Listed

LEMMA OriginalsFacts ==
    ASSUME NEW freqs, IsFreqs(freqs)
    PROVE  /\ IsList(freqs, Originals(freqs)) /\ Len(Originals(freqs)) = Occurring(freqs)
           /\ \A k \in 1..Occurring(freqs) :
                 /\ Originals(freqs)[k].weight = freqs[Sorted(freqs)[k]]
                 /\ \A s \in Active(freqs) :
                       Originals(freqs)[k].leaves[s] = IF k = Rank(freqs, s) + 1 THEN 1 ELSE 0
<1> DEFINE A == Active(freqs)
           m == Occurring(freqs)
           sorted == Sorted(freqs)
           f == [k \in DOMAIN sorted |->
                    [weight |-> freqs[sorted[k]],
                     leaves |-> [s \in A |-> IF s = sorted[k] THEN 1 ELSE 0]]]
           C == CoinOf(freqs)
<1>1. m \in Nat /\ \A s \in A : freqs[s] \in Nat \ {0}  BY ActiveFacts
<1>2. /\ sorted \in [1..m -> A]
      /\ \A s \in A : sorted[Rank(freqs, s) + 1] = s /\ Rank(freqs, s) + 1 \in 1..m
      /\ \A k \in 1..m : Rank(freqs, sorted[k]) = k - 1
      /\ \A j, k \in 1..m : j <= k => freqs[sorted[j]] <= freqs[sorted[k]]
  BY SortedFacts
<1>3. Originals(freqs) = Listed(f, m)  BY DEF Originals, Occurring
<1> HIDE DEF sorted
<1>4. DOMAIN sorted = 1..m  BY <1>2
<1>5. \A k \in 1..m : f[k] = [weight |-> freqs[sorted[k]],
                               leaves |-> [s \in A |-> IF s = sorted[k] THEN 1 ELSE 0]]
  BY <1>4
<1>6. f = [k \in 1..m |-> f[k]]  BY <1>4
<1> HIDE DEF f
<1>7. \A k \in 1..m : f[k] \in C
  <2> SUFFICES ASSUME NEW k \in 1..m  PROVE f[k] \in C  OBVIOUS
  <2>1. freqs[sorted[k]] \in Nat  BY <1>1, <1>2
  <2> DEFINE l == [s \in A |-> IF s = sorted[k] THEN 1 ELSE 0]
  <2>2. l \in [A -> Nat] /\ f[k] = [weight |-> freqs[sorted[k]], leaves |-> l]  BY <1>5
  <2> HIDE DEF l
  <2> QED  BY <2>1, <2>2 DEF CoinOf
<1>8. f \in [1..m -> C]  BY <1>6, <1>7
<1>9. Originals(freqs) = f /\ f \in Seq(C) /\ Len(f) = m  BY <1>1, <1>3, <1>8, ListedIs
<1>10. \A k \in 1..m : /\ f[k].weight = freqs[sorted[k]]
                       /\ \A s \in A : f[k].leaves[s] = IF s = sorted[k] THEN 1 ELSE 0
  <2> SUFFICES ASSUME NEW k \in 1..m
               PROVE  /\ f[k].weight = freqs[sorted[k]]
                      /\ \A s \in A : f[k].leaves[s] = IF s = sorted[k] THEN 1 ELSE 0
    OBVIOUS
  <2> DEFINE l == [s \in A |-> IF s = sorted[k] THEN 1 ELSE 0]
  <2>1. f[k] = [weight |-> freqs[sorted[k]], leaves |-> l]  BY <1>5
  <2>2. \A s \in A : l[s] = IF s = sorted[k] THEN 1 ELSE 0  OBVIOUS
  <2> HIDE DEF l
  <2> QED  BY <2>1, <2>2
<1>11. \A k \in 1..m, s \in A : s = sorted[k] <=> k = Rank(freqs, s) + 1
  <2> SUFFICES ASSUME NEW k \in 1..m, NEW s \in A  PROVE s = sorted[k] <=> k = Rank(freqs, s) + 1
    OBVIOUS
  <2>1. s = sorted[k] => k = Rank(freqs, s) + 1  BY <1>1, <1>2
  <2>2. k = Rank(freqs, s) + 1 => s = sorted[k]  BY <1>2
  <2> QED  BY <2>1, <2>2
<1>12. \A k \in 1..m : IsCoin(freqs, f[k])
  <2> SUFFICES ASSUME NEW k \in 1..m  PROVE IsCoin(freqs, f[k])  OBVIOUS
  <2>1. f[k].weight > 0  BY <1>1, <1>2, <1>10
  <2>2. ASSUME NEW s \in A, f[k].leaves[s] > 0  PROVE freqs[s] <= f[k].weight
    <3>1. s = sorted[k]  BY <1>10, <2>2
    <3> QED  BY <1>1, <1>10, <3>1
  <2> QED  BY <1>7, <2>1, <2>2 DEF IsCoin
<1>13. IsList(freqs, f)  BY <1>2, <1>9, <1>10, <1>12 DEF IsList
<1> QED  BY <1>9, <1>10, <1>11, <1>13 DEF sorted

LEMMA PackageFacts ==
    ASSUME NEW freqs, IsFreqs(freqs), NEW c, IsList(freqs, c)
    PROVE  /\ IsList(freqs, Package(c)) /\ Len(Package(c)) = Len(c) \div 2
           /\ \A k \in 1..(Len(c) \div 2), s \in Active(freqs) :
                 /\ Package(c)[k].leaves[s] = c[2 * k - 1].leaves[s] + c[2 * k].leaves[s]
                 /\ Package(c)[k].leaves[s] > 0 => freqs[s] < Package(c)[k].weight
<1> DEFINE A == Active(freqs)
           C == CoinOf(freqs)
           n == Len(c) \div 2
           f == [k \in 1..n |-> Pair(c[2 * k - 1], c[2 * k])]
<1>1. c \in Seq(C) /\ Len(c) \in Nat /\ n \in Nat  BY DEF IsList
<1>2. \A k \in 1..n : 2 * k - 1 \in 1..Len(c) /\ 2 * k \in 1..Len(c)  BY <1>1
<1>3. \A k \in 1..Len(c) : /\ c[k] \in C /\ c[k].weight \in Nat \ {0} /\ c[k].leaves \in [A -> Nat]
                           /\ \A s \in A : c[k].leaves[s] \in Nat
                           /\ \A s \in A : c[k].leaves[s] > 0 => freqs[s] <= c[k].weight
  BY SMTT(30) DEF IsList, IsCoin, CoinOf
<1>4. Package(c) = Listed(f, n)  BY DEF Package
<1>5. \A k \in 1..n : f[k] = Pair(c[2 * k - 1], c[2 * k])  OBVIOUS
<1> HIDE DEF f
<1>6. \A k \in 1..n : /\ f[k] \in C
                      /\ f[k].weight = c[2 * k - 1].weight + c[2 * k].weight
                      /\ \A s \in A : f[k].leaves[s] = c[2 * k - 1].leaves[s] + c[2 * k].leaves[s]
  <2> SUFFICES ASSUME NEW k \in 1..n
               PROVE  /\ f[k] \in C
                      /\ f[k].weight = c[2 * k - 1].weight + c[2 * k].weight
                      /\ \A s \in A : f[k].leaves[s] = c[2 * k - 1].leaves[s] + c[2 * k].leaves[s]
    OBVIOUS
  <2> DEFINE a == c[2 * k - 1]
             b == c[2 * k]
             l == [s \in A |-> a.leaves[s] + b.leaves[s]]
  <2>1. /\ a.weight \in Nat /\ b.weight \in Nat /\ a.leaves \in [A -> Nat]
        /\ \A s \in A : a.leaves[s] \in Nat /\ b.leaves[s] \in Nat
    BY <1>2, <1>3
  <2>2. DOMAIN a.leaves = A  BY <2>1
  <2>3. f[k] = [weight |-> a.weight + b.weight, leaves |-> l]  BY <1>5, <2>2 DEF Pair
  <2> HIDE DEF a, b
  <2>4. l \in [A -> Nat] /\ a.weight + b.weight \in Nat  BY SMTT(30), <2>1
  <2>5. \A s \in A : l[s] = a.leaves[s] + b.leaves[s]  OBVIOUS
  <2> HIDE DEF l
  <2>6. f[k] \in C /\ f[k].weight = a.weight + b.weight /\ f[k].leaves = l  BY <2>3, <2>4 DEF CoinOf
  <2> QED  BY <2>5, <2>6 DEF a, b
<1>7. f \in [1..n -> C]
  <2>1. f = [k \in 1..n |-> f[k]]  BY DEF f
  <2> QED  BY <1>6, <2>1
<1>8. Package(c) = f /\ f \in Seq(C) /\ Len(f) = n  BY <1>1, <1>4, <1>7, ListedIs
<1>9. \A k \in 1..n, s \in A : f[k].leaves[s] > 0 => freqs[s] < f[k].weight
  <2> SUFFICES ASSUME NEW k \in 1..n, NEW s \in A, f[k].leaves[s] > 0  PROVE freqs[s] < f[k].weight
    OBVIOUS
  <2> DEFINE a == c[2 * k - 1]
             b == c[2 * k]
  <2>1. /\ a.weight \in Nat \ {0} /\ b.weight \in Nat \ {0}
        /\ a.leaves[s] \in Nat /\ b.leaves[s] \in Nat
        /\ a.leaves[s] > 0 => freqs[s] <= a.weight
        /\ b.leaves[s] > 0 => freqs[s] <= b.weight
    BY <1>2, <1>3
  <2>2. f[k].weight = a.weight + b.weight /\ f[k].leaves[s] = a.leaves[s] + b.leaves[s]  BY <1>6
  <2>3. freqs[s] \in Nat  BY ActiveFacts
  <2> HIDE DEF a, b
  <2> QED  BY SMTT(30), <2>1, <2>2, <2>3
<1>10. \A k \in 1..n : IsCoin(freqs, f[k])
  <2> SUFFICES ASSUME NEW k \in 1..n  PROVE IsCoin(freqs, f[k])  OBVIOUS
  <2>1. f[k] \in C /\ f[k].weight \in Nat  BY <1>6 DEF CoinOf
  <2>2. f[k].weight > 0
    <3>1. c[2 * k - 1].weight \in Nat \ {0} /\ c[2 * k].weight \in Nat \ {0}  BY <1>2, <1>3
    <3> QED  BY <1>6, <3>1
  <2>3. ASSUME NEW s \in A, f[k].leaves[s] > 0  PROVE freqs[s] <= f[k].weight
    <3>1. freqs[s] < f[k].weight /\ freqs[s] \in Nat  BY <1>9, <2>3, ActiveFacts
    <3> QED  BY <2>1, <3>1
  <2> QED  BY <2>1, <2>2, <2>3 DEF IsCoin
<1>11. \A j, k \in 1..n : j <= k => f[j].weight <= f[k].weight
  <2> SUFFICES ASSUME NEW j \in 1..n, NEW k \in 1..n, j <= k  PROVE f[j].weight <= f[k].weight
    OBVIOUS
  <2>1. c[2 * j - 1].weight <= c[2 * k - 1].weight /\ c[2 * j].weight <= c[2 * k].weight
    BY SMTT(30), <1>1, <1>2 DEF IsList
  <2>2. /\ c[2 * j - 1].weight \in Nat /\ c[2 * j].weight \in Nat
        /\ c[2 * k - 1].weight \in Nat /\ c[2 * k].weight \in Nat
    BY <1>2, <1>3
  <2>3. f[j].weight = c[2 * j - 1].weight + c[2 * j].weight
        /\ f[k].weight = c[2 * k - 1].weight + c[2 * k].weight  BY <1>6
  <2> QED  BY SMTT(30), <2>1, <2>2, <2>3
<1>12. IsList(freqs, f)  BY <1>8, <1>10, <1>11 DEF IsList
<1> QED  BY <1>6, <1>8, <1>9, <1>12

-----------------------------------------------------------------------------
(* Merging *)

RoundOf(C) == [i : Nat, out : Seq(C)]
RoundBody(a, b, k, x) ==
    LET j == k - 1 - x.i
    IN  IF TakesFirst(a, b, x.i, j) THEN [i |-> x.i + 1, out |-> Append(x.out, a[x.i + 1])]
        ELSE [i |-> x.i, out |-> Append(x.out, b[j + 1])]

\* What is taken after k rounds lies within both lists.
RoundOK(a, b, k, x) ==
    x.i \in 0..Len(a) /\ k - x.i \in 0..Len(b) /\ Len(x.out) = k

LEMMA RoundStep ==
    ASSUME NEW C, NEW a \in Seq(C), NEW b \in Seq(C), NEW k \in 1..(Len(a) + Len(b)),
           NEW x \in RoundOf(C), RoundOK(a, b, k - 1, x)
    PROVE  LET y == RoundBody(a, b, k, x)
           IN  /\ y \in RoundOf(C) /\ RoundOK(a, b, k, y)
               /\ \A l \in 1..(k - 1) : y.out[l] = x.out[l]
               /\ \/ /\ TakesFirst(a, b, x.i, k - 1 - x.i)
                     /\ y.i = x.i + 1 /\ y.out[k] = a[y.i]
                  \/ /\ ~TakesFirst(a, b, x.i, k - 1 - x.i)
                     /\ y.i = x.i /\ y.out[k] = b[k - y.i]
<1> DEFINE y == RoundBody(a, b, k, x)
           j == k - 1 - x.i
<1>1. /\ x.i \in 0..Len(a) /\ j \in 0..Len(b) /\ x.out \in Seq(C) /\ Len(x.out) = k - 1
      /\ Len(a) \in Nat /\ Len(b) \in Nat /\ x.i \in Nat
  BY DEF RoundOf, RoundOK
<1>2. CASE TakesFirst(a, b, x.i, j)
  <2>1. y = [i |-> x.i + 1, out |-> Append(x.out, a[x.i + 1])]  BY <1>2 DEF RoundBody
  <2>2. x.i + 1 \in 1..Len(a)  BY <1>1, <1>2 DEF TakesFirst
  <2>3. a[x.i + 1] \in C  BY <2>2
  <2> DEFINE o == Append(x.out, a[x.i + 1])
  <2>4. /\ o \in Seq(C) /\ Len(o) = k /\ o[k] = a[x.i + 1]
        /\ \A l \in 1..(k - 1) : o[l] = x.out[l]
    BY <1>1, <2>3, AppendProperties
  <2> HIDE DEF o
  <2>5. y = [i |-> x.i + 1, out |-> o]  BY <2>1 DEF o
  <2> HIDE DEF y
  <2>6. y.i = x.i + 1 /\ y.out = o  BY <2>5
  <2>7. y \in RoundOf(C)  BY <1>1, <2>4, <2>5 DEF RoundOf
  <2>8. RoundOK(a, b, k, y)  BY SMTT(30), <1>1, <2>2, <2>4, <2>6 DEF RoundOK
  <2> QED  BY <1>2, <2>4, <2>6, <2>7, <2>8 DEF y
<1>3. CASE ~TakesFirst(a, b, x.i, j)
  <2>1. y = [i |-> x.i, out |-> Append(x.out, b[j + 1])]  BY <1>3 DEF RoundBody
  <2>2. j + 1 \in 1..Len(b)  BY SMTT(30), <1>1, <1>3 DEF TakesFirst
  <2>3. b[j + 1] \in C  BY <2>2
  <2> DEFINE o == Append(x.out, b[j + 1])
  <2>4. /\ o \in Seq(C) /\ Len(o) = k /\ o[k] = b[j + 1]
        /\ \A l \in 1..(k - 1) : o[l] = x.out[l]
    BY <1>1, <2>3, AppendProperties
  <2> HIDE DEF o
  <2>5. y = [i |-> x.i, out |-> o]  BY <2>1 DEF o
  <2> HIDE DEF y
  <2>6. y.i = x.i /\ y.out = o  BY <2>5
  <2>7. y \in RoundOf(C)  BY <1>1, <2>4, <2>5 DEF RoundOf
  <2>8. RoundOK(a, b, k, y)  BY SMTT(30), <1>1, <2>2, <2>4, <2>6 DEF RoundOK
  <2>9. j + 1 = k - y.i  BY <1>1, <2>6
  <2> QED  BY <1>3, <2>4, <2>6, <2>7, <2>8, <2>9 DEF y
<1> QED  BY <1>2, <1>3

Rounds(f, a, b) ==
    f = [k \in 0..(Len(a) + Len(b)) |->
            IF k = 0 THEN [i |-> 0, out |-> << >>] ELSE RoundBody(a, b, k, f[k - 1])]

LEMMA RoundsExist ==
    ASSUME NEW C, NEW a \in Seq(C), NEW b \in Seq(C)
    PROVE  \E f : Rounds(f, a, b)
<1> DEFINE n == Len(a) + Len(b)
           S == RoundOf(C)
           c == [i |-> 0, out |-> << >>]
           Step(p) == IF RoundBody(a, b, p[1], p[2]) \in S THEN RoundBody(a, b, p[1], p[2]) ELSE p[2]
           step == [p \in (1..n) \X S |-> Step(p)]
<1>1. n \in Nat /\ Len(a) \in Nat /\ Len(b) \in Nat  OBVIOUS
<1>2. c \in S /\ c.i = 0 /\ c.out = << >>  BY DEF RoundOf
<1>3. step \in [(1..n) \X S -> S]  OBVIOUS
<1>4. \A k \in 1..n, x \in S :
         step[<<k, x>>] = IF RoundBody(a, b, k, x) \in S THEN RoundBody(a, b, k, x) ELSE x
  OBVIOUS
<1> HIDE DEF step, S, c
<1>5. PICK f : Recurs(f, c, step, S, n)  BY <1>1, <1>2, <1>3, Recursion
<1>6. f \in [0..n -> S] /\ f[0] = c /\ \A k \in 1..n : f[k] = step[<<k, f[k - 1]>>]
  BY <1>5 DEF Recurs
<1> DEFINE Bad == {k \in 0..n : ~RoundOK(a, b, k, f[k])}
<1>7. Bad = {}
  <2> SUFFICES ASSUME Bad # {}  PROVE FALSE  OBVIOUS
  <2>1. PICK k \in Bad : \A j \in Bad : k <= j
    <3>1. Bad \in SUBSET Nat  BY <1>1
    <3> HIDE DEF Bad
    <3> QED  BY <3>1, LeastNat
  <2>2. k \in 0..n /\ ~RoundOK(a, b, k, f[k])  OBVIOUS
  <2>3. RoundOK(a, b, 0, f[0])  BY <1>1, <1>2, <1>6 DEF RoundOK
  <2>4. k \in 1..n /\ k - 1 \in 0..n  BY <1>1, <2>2, <2>3
  <2>5. RoundOK(a, b, k - 1, f[k - 1])  BY <2>1, <2>4
  <2>6. f[k - 1] \in S  BY <1>6, <2>4
  <2>7. RoundBody(a, b, k, f[k - 1]) \in S /\ RoundOK(a, b, k, RoundBody(a, b, k, f[k - 1]))
    BY <2>4, <2>5, <2>6, RoundStep DEF S
  <2> QED  BY <1>4, <1>6, <2>2, <2>4, <2>6, <2>7
<1>8. \A k \in 1..n : f[k] = RoundBody(a, b, k, f[k - 1])
  <2> SUFFICES ASSUME NEW k \in 1..n  PROVE f[k] = RoundBody(a, b, k, f[k - 1])  OBVIOUS
  <2>1. k - 1 \in 0..n  BY <1>1
  <2>2. RoundOK(a, b, k - 1, f[k - 1]) /\ f[k - 1] \in S  BY <1>6, <1>7, <2>1
  <2>3. RoundBody(a, b, k, f[k - 1]) \in S  BY <2>2, RoundStep DEF S
  <2> QED  BY <1>4, <1>6, <2>2, <2>3
<1>9. f = [k \in 0..n |-> f[k]]  BY <1>6
<1>10. \A k \in 0..n : f[k] = IF k = 0 THEN c ELSE RoundBody(a, b, k, f[k - 1])
  <2>1. \A k \in 0..n : k = 0 \/ k \in 1..n  BY <1>1
  <2> QED  BY <1>6, <1>8, <2>1
<1>11. f = [k \in 0..n |-> IF k = 0 THEN c ELSE RoundBody(a, b, k, f[k - 1])]  BY <1>9, <1>10
<1> QED  BY <1>11 DEF Rounds, c

\* After k rounds taken[k] elements come from a, the others from b.
Taken(taken, M, a, b) ==
    LET n == Len(a) + Len(b)
    IN  /\ taken \in [0..n -> Nat] /\ taken[0] = 0
        /\ M \in Seq(UNION {{a[k] : k \in 1..Len(a)}, {b[k] : k \in 1..Len(b)}}) /\ Len(M) = n
        /\ \A k \in 0..n : taken[k] \in 0..Len(a) /\ k - taken[k] \in 0..Len(b)
        /\ \A k \in 1..n :
              \/ /\ TakesFirst(a, b, taken[k - 1], k - 1 - taken[k - 1])
                 /\ taken[k] = taken[k - 1] + 1 /\ M[k] = a[taken[k]]
              \/ /\ ~TakesFirst(a, b, taken[k - 1], k - 1 - taken[k - 1])
                 /\ taken[k] = taken[k - 1] /\ M[k] = b[k - taken[k]]

LEMMA MergeTakes ==
    ASSUME NEW C, NEW a \in Seq(C), NEW b \in Seq(C)
    PROVE  \E taken : Taken(taken, Merge(a, b), a, b)
<1> DEFINE n == Len(a) + Len(b)
           f == CHOOSE g : Rounds(g, a, b)
           D == UNION {{a[k] : k \in 1..Len(a)}, {b[k] : k \in 1..Len(b)}}
           S == RoundOf(D)
           c == [i |-> 0, out |-> << >>]
<1>1. n \in Nat /\ Len(a) \in Nat /\ Len(b) \in Nat  OBVIOUS
<1>2. Rounds(f, a, b)  BY RoundsExist
<1>3. Merge(a, b) = f[n].out  BY DEF Merge, Rounds, RoundBody
<1> HIDE DEF f
<1>4. f = [k \in 0..n |-> IF k = 0 THEN c ELSE RoundBody(a, b, k, f[k - 1])]  BY <1>2 DEF Rounds
<1>5. f[0] = c
  <2>1. 0 \in 0..n  BY <1>1
  <2> QED  BY <1>4, <2>1
<1>6. \A k \in 1..n : f[k] = RoundBody(a, b, k, f[k - 1])
  <2> SUFFICES ASSUME NEW k \in 1..n  PROVE f[k] = RoundBody(a, b, k, f[k - 1])  OBVIOUS
  <2>1. k \in 0..n /\ k # 0  BY <1>1
  <2> QED  BY <1>4, <2>1
<1>7. a \in Seq(D) /\ b \in Seq(D)
  <2>1. (\A k \in 1..Len(a) : a[k] \in D) /\ (\A k \in 1..Len(b) : b[k] \in D)  OBVIOUS
  <2> HIDE DEF D
  <2>2. a = [k \in 1..Len(a) |-> a[k]] /\ b = [k \in 1..Len(b) |-> b[k]]  OBVIOUS
  <2>3. a \in [1..Len(a) -> D] /\ b \in [1..Len(b) -> D]  BY <2>1, <2>2
  <2> QED  BY <1>1, <2>3, SeqDef
<1>8. c \in S /\ RoundOK(a, b, 0, c)  BY <1>1 DEF RoundOf, RoundOK
<1> HIDE DEF c, D
<1> DEFINE Good(k) == /\ f[k] \in S /\ RoundOK(a, b, k, f[k])
                      /\ \A l \in 1..k : f[k].out[l] = f[l].out[l]
           Bad == {k \in 0..n : ~Good(k)}
<1>9. Bad = {}
  <2> SUFFICES ASSUME Bad # {}  PROVE FALSE  OBVIOUS
  <2>1. PICK k \in Bad : \A j \in Bad : k <= j
    <3>1. Bad \in SUBSET Nat  BY <1>1
    <3> HIDE DEF Bad
    <3> QED  BY <3>1, LeastNat
  <2>2. k \in 0..n /\ ~Good(k)  OBVIOUS
  <2>3. Good(0)  BY <1>5, <1>8
  <2>4. k \in 1..n /\ k - 1 \in 0..n /\ ~(k <= k - 1)  BY <1>1, <2>2, <2>3
  <2>5. Good(k - 1)  BY <2>1, <2>4
  <2>6. f[k] = RoundBody(a, b, k, f[k - 1])  BY <1>6, <2>4
  <2>7. f[k] \in S /\ RoundOK(a, b, k, f[k]) /\ \A l \in 1..(k - 1) : f[k].out[l] = f[k - 1].out[l]
    BY <1>7, <2>4, <2>5, <2>6, RoundStep
  <2>8. \A l \in 1..k : l = k \/ l \in 1..(k - 1)  BY <2>4
  <2>9. \A l \in 1..k : f[k].out[l] = f[l].out[l]  BY <2>5, <2>7, <2>8
  <2> QED  BY <2>2, <2>7, <2>9
<1> DEFINE taken == [k \in 0..n |-> f[k].i]
<1>10. \A k \in 0..n : Good(k)  BY <1>9
<1>11. \A k \in 0..n : taken[k] = f[k].i  OBVIOUS
<1>12. taken \in [0..n -> Nat]
  <2>1. \A k \in 0..n : f[k].i \in Nat  BY <1>10 DEF RoundOf
  <2> QED  BY <2>1
<1> HIDE DEF taken, Bad
<1>13. n \in 0..n /\ 0 \in 0..n  BY <1>1
<1>14. f[n].out \in Seq(D) /\ Len(f[n].out) = n  BY <1>10, <1>13 DEF RoundOf, RoundOK
<1>15. \A k \in 0..n : taken[k] \in 0..Len(a) /\ k - taken[k] \in 0..Len(b)
  BY <1>10, <1>11 DEF RoundOK
<1>16. taken[0] = 0  BY <1>5, <1>11, <1>13 DEF c
<1>17. ASSUME NEW k \in 1..n
       PROVE  \/ /\ TakesFirst(a, b, taken[k - 1], k - 1 - taken[k - 1])
                 /\ taken[k] = taken[k - 1] + 1 /\ f[n].out[k] = a[taken[k]]
              \/ /\ ~TakesFirst(a, b, taken[k - 1], k - 1 - taken[k - 1])
                 /\ taken[k] = taken[k - 1] /\ f[n].out[k] = b[k - taken[k]]
  <2>1. k - 1 \in 0..n /\ k \in 0..n  BY <1>1
  <2>2. f[k] = RoundBody(a, b, k, f[k - 1])  BY <1>6
  <2>3. f[k - 1] \in S /\ RoundOK(a, b, k - 1, f[k - 1])  BY <1>10, <2>1
  <2>4. f[n].out[k] = f[k].out[k]  BY <1>10, <1>13
  <2>5. \/ /\ TakesFirst(a, b, f[k - 1].i, k - 1 - f[k - 1].i)
           /\ f[k].i = f[k - 1].i + 1 /\ f[k].out[k] = a[f[k].i]
        \/ /\ ~TakesFirst(a, b, f[k - 1].i, k - 1 - f[k - 1].i)
           /\ f[k].i = f[k - 1].i /\ f[k].out[k] = b[k - f[k].i]
    BY <1>7, <2>2, <2>3, RoundStep
  <2> QED  BY <1>11, <2>1, <2>4, <2>5
<1>18. Taken(taken, f[n].out, a, b)  BY <1>12, <1>14, <1>15, <1>16, <1>17 DEF Taken, D
<1> QED  BY <1>3, <1>18

LEMMA SortedByNeighbours ==
    ASSUME NEW n \in Nat, NEW w, \A k \in 1..n : w[k] \in Nat,
           \A k \in 1..(n - 1) : w[k] <= w[k + 1],
           NEW j \in 1..n, NEW k \in 1..n, j <= k
    PROVE  w[j] <= w[k]
<1> DEFINE Bad == {l \in j..n : ~(w[j] <= w[l])}
<1>1. SUFFICES ASSUME Bad # {}  PROVE FALSE
  <2>1. k \in j..n  OBVIOUS
  <2> QED  BY <2>1
<1>2. PICK l \in Bad : \A i \in Bad : l <= i
  <2>1. Bad \in SUBSET Nat  OBVIOUS
  <2> HIDE DEF Bad
  <2> QED  BY <1>1, <2>1, LeastNat
<1>3. l \in j..n /\ ~(w[j] <= w[l])  OBVIOUS
<1>4. l # j /\ l - 1 \in j..n /\ l - 1 \in 1..(n - 1) /\ l - 1 + 1 = l  BY <1>3
<1>5. w[j] <= w[l - 1]  BY <1>2, <1>4
<1>6. w[l - 1] <= w[l]  BY <1>4
<1>7. w[j] \in Nat /\ w[l] \in Nat /\ w[l - 1] \in Nat  BY <1>3, <1>4
<1> QED  BY <1>3, <1>5, <1>6, <1>7

LEMMA MergeIsList ==
    ASSUME NEW freqs, NEW a, NEW b, IsList(freqs, a), IsList(freqs, b),
           NEW M, NEW taken, Taken(taken, M, a, b)
    PROVE  IsList(freqs, M)
<1> DEFINE n == Len(a) + Len(b)
           C == CoinOf(freqs)
           T == taken
           w == [k \in 1..n |-> M[k].weight]
<1>1. n \in Nat /\ Len(a) \in Nat /\ Len(b) \in Nat /\ a \in Seq(C) /\ b \in Seq(C)  BY DEF IsList
<1>2. /\ T[0] = 0 /\ Len(M) = n
      /\ \A k \in 0..n : T[k] \in 0..Len(a) /\ k - T[k] \in 0..Len(b)
      /\ \A k \in 1..n :
              \/ /\ TakesFirst(a, b, T[k - 1], k - 1 - T[k - 1])
                 /\ T[k] = T[k - 1] + 1 /\ M[k] = a[T[k]]
              \/ /\ ~TakesFirst(a, b, T[k - 1], k - 1 - T[k - 1])
                 /\ T[k] = T[k - 1] /\ M[k] = b[k - T[k]]
      /\ M \in Seq(UNION {{a[k] : k \in 1..Len(a)}, {b[k] : k \in 1..Len(b)}})
  BY DEF Taken
<1>3. \A k \in 1..n : k - 1 \in 0..n /\ k \in 0..n  BY <1>1
<1>10. \A k \in 0..n : T[k] \in 0..Len(a) /\ k - T[k] \in 0..Len(b)  BY <1>2
<1>11. ASSUME NEW k \in 1..n
       PROVE  \/ /\ TakesFirst(a, b, T[k - 1], k - 1 - T[k - 1])
                 /\ T[k] = T[k - 1] + 1 /\ M[k] = a[T[k]]
              \/ /\ ~TakesFirst(a, b, T[k - 1], k - 1 - T[k - 1])
                 /\ T[k] = T[k - 1] /\ M[k] = b[k - T[k]]
  BY <1>2
<1> HIDE DEF n, T
<1>4. \A k \in 1..n : IsCoin(freqs, M[k])
  <2> SUFFICES ASSUME NEW k \in 1..n  PROVE IsCoin(freqs, M[k])  OBVIOUS
  <2>1. CASE T[k] = T[k - 1] + 1 /\ M[k] = a[T[k]]
    <3>1. T[k - 1] \in 0..Len(a) /\ T[k] \in 0..Len(a)  BY <1>3, <1>10
    <3>2. T[k] \in 1..Len(a)  BY <1>1, <2>1, <3>1
    <3> QED  BY <2>1, <3>2 DEF IsList
  <2>2. CASE T[k] = T[k - 1] /\ M[k] = b[k - T[k]]
    <3>1. T[k - 1] \in 0..Len(a) /\ k - 1 - T[k - 1] \in 0..Len(b) /\ k - T[k] \in 0..Len(b)
      BY <1>3, <1>10
    <3>2. k - T[k] \in 1..Len(b)  BY <1>1, <2>2, <3>1
    <3> QED  BY <2>2, <3>2 DEF IsList
  <2> QED  BY <1>11, <2>1, <2>2
<1>5. M \in Seq(C)
  <2>1. \A k \in 1..n : M[k] \in C  BY <1>4 DEF IsCoin
  <2>2. M = [k \in 1..n |-> M[k]]  BY <1>2
  <2>3. M \in [1..n -> C]  BY <2>1, <2>2
  <2> QED  BY <1>1, <2>3, SeqDef
<1>6. \A k \in 1..n : w[k] = M[k].weight /\ w[k] \in Nat  BY <1>4 DEF IsCoin, CoinOf
<1> HIDE DEF w
<1>7. ASSUME NEW k \in 1..(n - 1)  PROVE w[k] <= w[k + 1]
  <2>0. PICK l \in 1..n : l = k + 1  BY <1>1
  <2>1. /\ k \in 1..n /\ k - 1 \in 0..n /\ k \in 0..n /\ l \in 0..n /\ l \in Int /\ k \in Int
        /\ l - 1 = k
    BY <1>1, <2>0
  <2>2. /\ T[k] \in 0..Len(a) /\ k - T[k] \in 0..Len(b)
        /\ T[k - 1] \in 0..Len(a) /\ k - 1 - T[k - 1] \in 0..Len(b)
        /\ T[l] \in 0..Len(a) /\ l - T[l] \in 0..Len(b)
    BY <1>10, <2>1
  <2> DEFINE i == T[k - 1]
             j == k - 1 - T[k - 1]
             i2 == T[k]
             j2 == k - T[k]
             i3 == T[l]
             j3 == l - T[l]
  <2>3. \/ TakesFirst(a, b, i, j) /\ i2 = i + 1 /\ j2 = j /\ M[k] = a[i2]
        \/ ~TakesFirst(a, b, i, j) /\ i2 = i /\ j2 = j + 1 /\ M[k] = b[j2]
    <3>1. \/ TakesFirst(a, b, i, j) /\ T[k] = T[k - 1] + 1 /\ M[k] = a[i2]
          \/ ~TakesFirst(a, b, i, j) /\ T[k] = T[k - 1] /\ M[k] = b[j2]
      BY <1>11, <2>1
    <3> QED  BY SMTT(30), <2>1, <2>2, <3>1
  <2>4. \/ TakesFirst(a, b, i2, j2) /\ i3 = i2 + 1 /\ j3 = j2 /\ M[l] = a[i3]
        \/ ~TakesFirst(a, b, i2, j2) /\ i3 = i2 /\ j3 = j2 + 1 /\ M[l] = b[j3]
    <3>1. \/ TakesFirst(a, b, T[l - 1], l - 1 - T[l - 1]) /\ T[l] = T[l - 1] + 1 /\ M[l] = a[T[l]]
          \/ ~TakesFirst(a, b, T[l - 1], l - 1 - T[l - 1]) /\ T[l] = T[l - 1] /\ M[l] = b[l - T[l]]
      BY <1>11
    <3>2. \/ TakesFirst(a, b, T[k], k - T[k]) /\ T[l] = T[k] + 1 /\ M[l] = a[T[l]]
          \/ ~TakesFirst(a, b, T[k], k - T[k]) /\ T[l] = T[k] /\ M[l] = b[l - T[l]]
      BY <2>1, <3>1
    <3>3. T[l] \in Int /\ T[k] \in Int  BY <2>2
    <3>4. T[l] = T[k] + 1 => l - T[l] = k - T[k]  BY <2>1, <3>3
    <3>5. T[l] = T[k] => l - T[l] = k - T[k] + 1  BY <2>1, <3>3
    <3> QED  BY <3>2, <3>4, <3>5
  <2>5. /\ i \in 0..Len(a) /\ j \in 0..Len(b) /\ i2 \in 0..Len(a) /\ j2 \in 0..Len(b)
        /\ i3 \in 0..Len(a) /\ j3 \in 0..Len(b)
    BY <2>2
  <2> HIDE DEF i, j, i2, j2, i3, j3
  <2>6. /\ \A x, y \in 1..Len(a) : x <= y => a[x].weight <= a[y].weight
        /\ \A x, y \in 1..Len(b) : x <= y => b[x].weight <= b[y].weight
        /\ \A x \in 1..Len(a) : a[x].weight \in Nat
        /\ \A x \in 1..Len(b) : b[x].weight \in Nat
    BY DEF IsList, IsCoin, CoinOf
  <2>7. M[k].weight <= M[l].weight
    <3>1. CASE TakesFirst(a, b, i, j) /\ i2 = i + 1 /\ j2 = j /\ M[k] = a[i2]
      <4>1. CASE i3 = i2 + 1 /\ M[l] = a[i3]  BY <1>1, <2>5, <2>6, <3>1, <4>1
      <4>2. CASE i3 = i2 /\ j3 = j2 + 1 /\ M[l] = b[j3]
        <5>1. j < Len(b)  BY <1>1, <2>5, <3>1, <4>2
        <5>2. a[i + 1].weight <= b[j + 1].weight  BY <3>1, <5>1 DEF TakesFirst
        <5> QED  BY <3>1, <4>2, <5>2
      <4> QED  BY <2>4, <4>1, <4>2
    <3>2. CASE ~TakesFirst(a, b, i, j) /\ i2 = i /\ j2 = j + 1 /\ M[k] = b[j2]
      <4>1. CASE i3 = i2 + 1 /\ M[l] = a[i3]
        <5>1. i < Len(a)  BY <1>1, <2>5, <3>2, <4>1
        <5>2. ~(a[i + 1].weight <= b[j + 1].weight)  BY <3>2, <5>1 DEF TakesFirst
        <5>3. i + 1 \in 1..Len(a) /\ j + 1 \in 1..Len(b)  BY <1>1, <2>5, <3>2, <4>1, <5>1
        <5> QED  BY <2>6, <3>2, <4>1, <5>2, <5>3
      <4>2. CASE i3 = i2 /\ j3 = j2 + 1 /\ M[l] = b[j3]
        <5>1. j2 \in 1..Len(b) /\ j3 \in 1..Len(b) /\ j2 <= j3  BY <1>1, <2>5, <3>2, <4>2
        <5> QED  BY <2>6, <3>2, <4>2, <5>1
      <4> QED  BY <2>4, <4>1, <4>2
    <3> QED  BY <2>3, <3>1, <3>2
  <2> QED  BY <1>6, <2>0, <2>1, <2>7
<1>8. \A j, k \in 1..n : j <= k => w[j] <= w[k]
  <2> SUFFICES ASSUME NEW j \in 1..n, NEW k \in 1..n, j <= k  PROVE w[j] <= w[k]  OBVIOUS
  <2> QED  BY <1>1, <1>6, <1>7, SortedByNeighbours
<1>9. \A j, k \in 1..n : j <= k => M[j].weight <= M[k].weight  BY <1>6, <1>8
<1> QED  BY <1>2, <1>4, <1>5, <1>9 DEF IsList, n

\* What is lighter than an element taken from the first list was taken before.
LEMMA LighterIsTaken ==
    ASSUME NEW freqs, NEW a, NEW b, IsList(freqs, a), IsList(freqs, b),
           NEW M, NEW taken, Taken(taken, M, a, b),
           NEW k \in 0..(Len(a) + Len(b)), NEW x \in 1..taken[k], NEW r \in 1..Len(b),
           b[r].weight < a[x].weight
    PROVE  r <= k - taken[k]
<1> DEFINE n == Len(a) + Len(b)
           T == taken
           Bad == {l \in 0..n : x <= T[l] /\ ~(r <= l - T[l])}
<1>1. n \in Nat /\ Len(a) \in Nat /\ Len(b) \in Nat  BY DEF IsList
<1>2. /\ T[0] = 0
      /\ \A l \in 0..n : T[l] \in 0..Len(a) /\ l - T[l] \in 0..Len(b)
      /\ \A l \in 1..n :
              \/ TakesFirst(a, b, T[l - 1], l - 1 - T[l - 1]) /\ T[l] = T[l - 1] + 1
              \/ ~TakesFirst(a, b, T[l - 1], l - 1 - T[l - 1]) /\ T[l] = T[l - 1]
  BY DEF Taken
<1>3. SUFFICES ASSUME Bad # {}  PROVE FALSE
  <2>1. k \in 0..n /\ T[k] \in Nat /\ x <= T[k]  BY <1>1, <1>2
  <2> QED  BY <2>1
<1>4. PICK l \in Bad : \A i \in Bad : l <= i
  <2>1. Bad \in SUBSET Nat  BY <1>1
  <2> HIDE DEF Bad
  <2> QED  BY <1>3, <2>1, LeastNat
<1>5. l \in 0..n /\ x <= T[l] /\ ~(r <= l - T[l])  OBVIOUS
<1>6. l # 0 /\ l \in 1..n /\ l - 1 \in 0..n /\ ~(l <= l - 1)  BY <1>1, <1>2, <1>5
<1>7. T[l] \in 0..Len(a) /\ l - T[l] \in 0..Len(b) /\ T[l - 1] \in 0..Len(a) /\ l - 1 - T[l - 1] \in 0..Len(b)
  BY <1>2, <1>5, <1>6
<1>8. ~(x <= T[l - 1])
  <2>1. ASSUME x <= T[l - 1]  PROVE r <= l - 1 - T[l - 1]  BY <1>4, <1>6, <2>1
  <2>2. T[l] = T[l - 1] + 1 \/ T[l] = T[l - 1]  BY <1>2, <1>6
  <2>3. l - 1 - T[l - 1] <= l - T[l]  BY SMTT(30), <1>7, <2>2
  <2> QED  BY SMTT(30), <1>5, <1>7, <2>1, <2>3
<1>9. T[l] = T[l - 1] + 1 /\ TakesFirst(a, b, T[l - 1], l - 1 - T[l - 1]) /\ x = T[l]
  <2>1. \/ TakesFirst(a, b, T[l - 1], l - 1 - T[l - 1]) /\ T[l] = T[l - 1] + 1
        \/ ~TakesFirst(a, b, T[l - 1], l - 1 - T[l - 1]) /\ T[l] = T[l - 1]
    BY <1>2, <1>6
  <2>2. T[l] = T[l - 1] + 1 => x = T[l]  BY SMTT(30), <1>5, <1>7, <1>8
  <2> QED  BY <1>5, <1>8, <2>1, <2>2
<1> DEFINE j == l - T[l]
<1>10. j = l - 1 - T[l - 1] /\ j \in 0..Len(b)  BY SMTT(30), <1>7, <1>9
<1>11. j < Len(b) => a[x].weight <= b[j + 1].weight  BY <1>7, <1>9, <1>10 DEF TakesFirst
<1>12. ~(r <= j)  BY <1>5
<1> HIDE DEF j
<1>13. j < Len(b) /\ j + 1 \in 1..Len(b) /\ j + 1 <= r  BY <1>1, <1>10, <1>12
<1>14. b[j + 1].weight <= b[r].weight /\ b[j + 1].weight \in Nat /\ b[r].weight \in Nat
  BY <1>13 DEF IsList, IsCoin, CoinOf
<1>15. a[x].weight \in Nat
  <2>1. x \in 1..Len(a)  BY <1>7, <1>9
  <2> QED  BY <2>1 DEF IsList, IsCoin, CoinOf
<1> QED  BY <1>11, <1>13, <1>14, <1>15

-----------------------------------------------------------------------------
(* The rounds of package and merge *)

LEMMA RoundIsList ==
    ASSUME NEW freqs, IsFreqs(freqs), NEW c, IsList(freqs, c)
    PROVE  LET M == Merge(Package(c), Originals(freqs))
           IN  /\ IsList(freqs, M) /\ Len(M) = Len(c) \div 2 + Occurring(freqs)
               /\ \E taken : Taken(taken, M, Package(c), Originals(freqs))
<1> DEFINE a == Package(c)
           b == Originals(freqs)
           M == Merge(a, b)
<1>1. IsList(freqs, a) /\ Len(a) = Len(c) \div 2  BY PackageFacts
<1>2. IsList(freqs, b) /\ Len(b) = Occurring(freqs)  BY OriginalsFacts
<1>3. a \in Seq(CoinOf(freqs)) /\ b \in Seq(CoinOf(freqs))  BY <1>1, <1>2 DEF IsList
<1> HIDE DEF a, b
<1>4. PICK taken : Taken(taken, M, a, b)  BY <1>3, MergeTakes
<1>5. IsList(freqs, M)  BY <1>1, <1>2, <1>4, MergeIsList
<1>6. Len(M) = Len(a) + Len(b)  BY <1>4 DEF Taken
<1> QED  BY <1>1, <1>2, <1>4, <1>5, <1>6 DEF a, b

\* The lists after every round.
After(f, freqs, rounds) ==
    /\ \A n \in 0..rounds : IsList(freqs, f[n])
    /\ f[0] = Originals(freqs)
    /\ \A n \in 1..rounds : f[n] = Merge(Package(f[n - 1]), Originals(freqs))

LEMMA CoinsFacts ==
    ASSUME NEW freqs, IsFreqs(freqs), NEW rounds \in Nat
    PROVE  \E f : After(f, freqs, rounds) /\ Coins(freqs, rounds) = f[rounds]
<1> DEFINE b == Originals(freqs)
           S == {c \in Seq(CoinOf(freqs)) : IsList(freqs, c)}
           step == [p \in (1..rounds) \X S |-> Merge(Package(p[2]), b)]
           Is(f) == f = [n \in 0..rounds |-> IF n = 0 THEN b ELSE Merge(Package(f[n - 1]), b)]
<1>1. b \in S  BY OriginalsFacts DEF IsList
<1>2. step \in [(1..rounds) \X S -> S]
  <2> SUFFICES ASSUME NEW p \in (1..rounds) \X S  PROVE Merge(Package(p[2]), b) \in S  OBVIOUS
  <2>1. IsList(freqs, p[2])  OBVIOUS
  <2>2. IsList(freqs, Merge(Package(p[2]), b))  BY <2>1, RoundIsList
  <2> QED  BY <2>2 DEF IsList
<1>3. \A n \in 1..rounds, x \in S : step[<<n, x>>] = Merge(Package(x), b)  OBVIOUS
<1>4. \A c \in S : IsList(freqs, c)  OBVIOUS
<1> HIDE DEF step, S, b
<1>5. PICK g : Recurs(g, b, step, S, rounds)  BY <1>1, <1>2, Recursion
<1>6. g \in [0..rounds -> S] /\ g[0] = b /\ \A n \in 1..rounds : g[n] = step[<<n, g[n - 1]>>]
  BY <1>5 DEF Recurs
<1>7. \A n \in 0..rounds : n # 0 => n \in 1..rounds /\ n - 1 \in 0..rounds  OBVIOUS
<1>8. \A n \in 0..rounds : g[n] = IF n = 0 THEN b ELSE Merge(Package(g[n - 1]), b)
  BY ZenonT(60), <1>3, <1>6, <1>7
<1>9. g = [n \in 0..rounds |-> g[n]]  BY <1>6
<1>10. Is(g)  BY <1>8, <1>9
<1> DEFINE f == CHOOSE h : Is(h)
<1>11. Is(f)  BY <1>10
<1>12. Coins(freqs, rounds) = f[rounds]  BY DEF Coins, b
<1>13. f[0] = b /\ \A n \in 1..rounds : f[n] = Merge(Package(f[n - 1]), b)
  <2>1. 0 \in 0..rounds /\ \A n \in 1..rounds : n \in 0..rounds /\ n # 0  OBVIOUS
  <2> HIDE DEF f
  <2> QED  BY <1>11, <2>1
<1> HIDE DEF f
<1> DEFINE Bad == {n \in 0..rounds : ~IsList(freqs, f[n])}
<1>14. Bad = {}
  <2> SUFFICES ASSUME Bad # {}  PROVE FALSE  OBVIOUS
  <2>1. PICK k \in Bad : \A j \in Bad : k <= j
    <3>1. Bad \in SUBSET Nat  OBVIOUS
    <3> HIDE DEF Bad
    <3> QED  BY <3>1, LeastNat
  <2>2. k \in 0..rounds /\ ~IsList(freqs, f[k])  OBVIOUS
  <2>3. k # 0  BY <1>1, <1>4, <1>13, <2>2
  <2>4. k \in 1..rounds /\ k - 1 \in 0..rounds /\ ~(k <= k - 1)  BY <2>2, <2>3
  <2>5. IsList(freqs, f[k - 1])  BY <2>1, <2>4
  <2>6. IsList(freqs, Merge(Package(f[k - 1]), b))  BY <2>5, RoundIsList DEF b
  <2> QED  BY <1>13, <2>2, <2>4, <2>6
<1>15. \A n \in 0..rounds : IsList(freqs, f[n])  BY <1>14
<1>16. After(f, freqs, rounds)  BY <1>13, <1>15 DEF After, b
<1> QED  BY <1>12, <1>16

\* walk_increment, coin by coin.
LEMMA WalkedFacts ==
    ASSUME NEW freqs, IsFreqs(freqs), NEW c, IsList(freqs, c)
    PROVE  LET W == Walked(c, Active(freqs))
           IN  /\ W \in [0..Len(c) -> [Active(freqs) -> Nat]]
               /\ \A s \in Active(freqs) : W[0][s] = 0
               /\ \A k \in 1..Len(c), s \in Active(freqs) : W[k][s] = W[k - 1][s] + c[k].leaves[s]
<1> DEFINE A == Active(freqs)
           n == Len(c)
           S == [A -> Nat]
           z == [s \in A |-> 0]
           Plus(k, x) == [s \in A |-> x[s] + c[k].leaves[s]]
           step == [p \in (1..n) \X S |-> Plus(p[1], p[2])]
           Is(f) == f = [k \in 0..n |-> IF k = 0 THEN z ELSE Plus(k, f[k - 1])]
<1>1. n \in Nat /\ z \in S  BY DEF IsList
<1>2. \A k \in 1..n, s \in A : c[k].leaves[s] \in Nat  BY DEF IsList, IsCoin, CoinOf
<1>3. \A k \in 1..n, x \in S : Plus(k, x) \in S
  <2> SUFFICES ASSUME NEW k \in 1..n, NEW x \in S  PROVE Plus(k, x) \in S  OBVIOUS
  <2>1. \A s \in A : x[s] + c[k].leaves[s] \in Nat
    <3> SUFFICES ASSUME NEW s \in A  PROVE x[s] + c[k].leaves[s] \in Nat  OBVIOUS
    <3>1. x[s] \in Nat /\ c[k].leaves[s] \in Nat  BY <1>2
    <3> QED  BY <3>1
  <2> QED  BY <2>1
<1>4. \A k \in 1..n, x \in S, s \in A : Plus(k, x)[s] = x[s] + c[k].leaves[s]  OBVIOUS
<1>5. Walked(c, A) = CHOOSE f : Is(f)  BY DEF Walked
<1> HIDE DEF Plus, z
<1>6. step \in [(1..n) \X S -> S]  BY <1>3
<1>7. \A k \in 1..n, x \in S : step[<<k, x>>] = Plus(k, x)  OBVIOUS
<1> HIDE DEF step, S, n
<1>8. PICK g : Recurs(g, z, step, S, n)  BY <1>1, <1>6, Recursion
<1>9. g \in [0..n -> S] /\ g[0] = z /\ \A k \in 1..n : g[k] = step[<<k, g[k - 1]>>]
  BY <1>8 DEF Recurs
<1>10. \A k \in 0..n : k # 0 => k \in 1..n /\ k - 1 \in 0..n  BY <1>1
<1>11. \A k \in 0..n : g[k] = IF k = 0 THEN z ELSE Plus(k, g[k - 1])  BY <1>7, <1>9, <1>10
<1>12. g = [k \in 0..n |-> g[k]]  BY <1>9
<1>13. Is(g)  BY <1>11, <1>12
<1> DEFINE f == CHOOSE h : Is(h)
<1>14. Is(f)  BY <1>13
<1>15. Walked(c, A) = f  BY <1>5
<1> HIDE DEF f
<1>16. f[0] = z /\ \A k \in 1..n : f[k] = Plus(k, f[k - 1])
  <2>1. 0 \in 0..n /\ \A k \in 1..n : k \in 0..n /\ k # 0  BY <1>1
  <2> QED  BY <1>14, <2>1
<1> DEFINE Bad == {k \in 0..n : ~(f[k] \in S)}
<1>17. Bad = {}
  <2> SUFFICES ASSUME Bad # {}  PROVE FALSE  OBVIOUS
  <2>1. PICK k \in Bad : \A j \in Bad : k <= j
    <3>1. Bad \in SUBSET Nat  BY <1>1
    <3> HIDE DEF Bad
    <3> QED  BY <3>1, LeastNat
  <2>2. k \in 0..n /\ ~(f[k] \in S)  OBVIOUS
  <2>3. k # 0  BY <1>1, <1>16, <2>2
  <2>4. k \in 1..n /\ k - 1 \in 0..n /\ ~(k <= k - 1)  BY <1>1, <2>2, <2>3
  <2>5. f[k - 1] \in S  BY <2>1, <2>4
  <2> QED  BY <1>3, <1>16, <2>2, <2>4, <2>5 DEF S
<1>18. \A k \in 0..n : f[k] \in S  BY <1>17
<1>19. f = [k \in 0..n |-> IF k = 0 THEN z ELSE Plus(k, f[k - 1])]  BY <1>14
<1>20. f \in [0..n -> S]
  <2>1. DOMAIN f = 0..n  BY <1>19
  <2>2. f = [k \in 0..n |-> f[k]]  BY <1>19, <2>1
  <2> QED  BY <1>18, <2>2
<1>21. \A s \in A : f[0][s] = 0  BY <1>16 DEF z
<1>22. \A k \in 1..n, s \in A : f[k][s] = f[k - 1][s] + c[k].leaves[s]
  <2> SUFFICES ASSUME NEW k \in 1..n, NEW s \in A  PROVE f[k][s] = f[k - 1][s] + c[k].leaves[s]
    OBVIOUS
  <2>1. k - 1 \in 0..n  BY <1>1
  <2>2. f[k - 1] \in S  BY <1>18, <2>1
  <2> QED  BY <1>4, <1>16, <2>2 DEF S
<1> QED  BY <1>15, <1>20, <1>21, <1>22 DEF S, n

\* A symbol that is counted is a leaf of one of the coins walked.
LEMMA WalkedLeaf ==
    ASSUME NEW freqs, IsFreqs(freqs), NEW c, IsList(freqs, c),
           NEW n \in 0..Len(c), NEW s \in Active(freqs),
           Walked(c, Active(freqs))[n][s] > 0
    PROVE  \E l \in 1..n : c[l].leaves[s] > 0
<1> DEFINE W == Walked(c, Active(freqs))
           Bad == {k \in 0..n : W[k][s] > 0}
<1>1. /\ W \in [0..Len(c) -> [Active(freqs) -> Nat]] /\ W[0][s] = 0
      /\ \A k \in 1..Len(c) : W[k][s] = W[k - 1][s] + c[k].leaves[s]
  BY WalkedFacts
<1>2. Len(c) \in Nat /\ \A k \in 1..Len(c) : c[k].leaves[s] \in Nat  BY DEF IsList, IsCoin, CoinOf
<1> HIDE DEF W
<1>3. PICK k \in Bad : \A j \in Bad : k <= j
  <2>1. Bad \in SUBSET Nat /\ n \in Bad  BY <1>2 DEF W
  <2> HIDE DEF Bad
  <2> QED  BY <2>1, LeastNat
<1>4. k \in 0..n /\ W[k][s] > 0  OBVIOUS
<1>5. k # 0  BY <1>1, <1>4
<1>6. k \in 1..n /\ k - 1 \in 0..n /\ ~(k <= k - 1) /\ k \in 1..Len(c) /\ k - 1 \in 0..Len(c)
  BY <1>2, <1>4, <1>5
<1>7. ~(W[k - 1][s] > 0)  BY <1>3, <1>6
<1>8. W[k - 1][s] \in Nat  BY <1>1, <1>6
<1>9. W[k - 1][s] = 0  BY <1>7, <1>8
<1>10. c[k].leaves[s] > 0  BY <1>1, <1>2, <1>4, <1>6, <1>9
<1> QED  BY <1>6, <1>10

\* The first n originals have the n lightest symbols as their leaves.
LEMMA WalkedOriginals ==
    ASSUME NEW freqs, IsFreqs(freqs), NEW n \in 0..Occurring(freqs), NEW s \in Active(freqs)
    PROVE  Walked(Originals(freqs), Active(freqs))[n][s] = IF Rank(freqs, s) + 1 <= n THEN 1 ELSE 0
<1> DEFINE b == Originals(freqs)
           W == Walked(b, Active(freqs))
           m == Occurring(freqs)
           r == Rank(freqs, s) + 1
           Bad == {k \in 0..n : W[k][s] # IF r <= k THEN 1 ELSE 0}
<1>1. IsList(freqs, b) /\ Len(b) = m /\ \A k \in 1..m : b[k].leaves[s] = IF k = r THEN 1 ELSE 0
  BY OriginalsFacts
<1>2. W[0][s] = 0 /\ \A k \in 1..m : W[k][s] = W[k - 1][s] + b[k].leaves[s]
  BY <1>1, WalkedFacts
<1>3. m \in Nat /\ r \in 1..m  BY ActiveFacts, RankType
<1> HIDE DEF W, b, m, r
<1>4. SUFFICES ASSUME Bad # {}  PROVE FALSE
  <2>1. n \in Nat /\ n \in 0..n  BY <1>3 DEF m
  <2> QED  BY <2>1 DEF W, b, r
<1>5. PICK k \in Bad : \A j \in Bad : k <= j
  <2>1. Bad \in SUBSET Nat  BY <1>3 DEF m
  <2> HIDE DEF Bad
  <2> QED  BY <1>4, <2>1, LeastNat
<1>6. k \in 0..n /\ W[k][s] # IF r <= k THEN 1 ELSE 0  OBVIOUS
<1>7. k # 0  BY <1>2, <1>3, <1>6
<1>8. k \in 1..m /\ k - 1 \in 0..n /\ ~(k <= k - 1)  BY <1>3, <1>6, <1>7 DEF m
<1>9. W[k - 1][s] = IF r <= k - 1 THEN 1 ELSE 0  BY <1>5, <1>8
<1>10. W[k][s] = W[k - 1][s] + (IF k = r THEN 1 ELSE 0)  BY <1>1, <1>2, <1>8
<1> QED  BY <1>3, <1>6, <1>8, <1>9, <1>10

\* The front of a merged list has the leaves of the coins packaged in it, and
\* those of the originals in it.
LEMMA WalkedMerge ==
    ASSUME NEW freqs, IsFreqs(freqs), NEW c, IsList(freqs, c), NEW M, NEW taken,
           Taken(taken, M, Package(c), Originals(freqs)),
           NEW n \in 0..Len(M), NEW s \in Active(freqs)
    PROVE  /\ 2 * taken[n] \in 0..Len(c) /\ n - taken[n] \in 0..Occurring(freqs)
           /\ Walked(M, Active(freqs))[n][s]
                 = Walked(c, Active(freqs))[2 * taken[n]][s]
                   + (IF Rank(freqs, s) + 1 <= n - taken[n] THEN 1 ELSE 0)
<1> DEFINE a == Package(c)
           b == Originals(freqs)
           A == Active(freqs)
           W == Walked(M, A)
           V == Walked(c, A)
           m == Occurring(freqs)
           T == taken
           r == Rank(freqs, s) + 1
           Good(k) == W[k][s] = V[2 * T[k]][s] + (IF r <= k - T[k] THEN 1 ELSE 0)
           Bad == {k \in 0..n : ~Good(k)}
<1>1. IsList(freqs, b) /\ Len(b) = m /\ \A k \in 1..m : b[k].leaves[s] = IF k = r THEN 1 ELSE 0
  BY OriginalsFacts
<1>2. /\ IsList(freqs, a) /\ Len(a) = Len(c) \div 2
      /\ \A k \in 1..Len(a) : a[k].leaves[s] = c[2 * k - 1].leaves[s] + c[2 * k].leaves[s]
  BY SMTT(30), PackageFacts
<1>3. IsList(freqs, M) /\ Len(M) = Len(a) + Len(b)
  <2>1. IsList(freqs, M)  BY <1>1, <1>2, MergeIsList
  <2> QED  BY <2>1 DEF Taken
<1>4. W[0][s] = 0 /\ \A k \in 1..Len(M) : W[k][s] = W[k - 1][s] + M[k].leaves[s]
  <2> HIDE DEF a, b, m, r, V
  <2>1. IsList(freqs, M)  BY <1>3
  <2> QED  BY <2>1, WalkedFacts
<1>5. /\ V[0][s] = 0 /\ \A k \in 1..Len(c) : V[k][s] = V[k - 1][s] + c[k].leaves[s]
      /\ V \in [0..Len(c) -> [A -> Nat]]
  BY WalkedFacts
<1>6. m \in Nat /\ r \in 1..m /\ Len(c) \in Nat /\ Len(a) \in Nat  BY <1>2, ActiveFacts, RankType DEF IsList
<1>14. 2 * Len(a) <= Len(c)  BY <1>2, <1>6
<1>7. \A k \in 1..Len(c) : c[k].leaves[s] \in Nat  BY DEF IsList, IsCoin, CoinOf
<1>8. T[0] = 0 /\ \A k \in 0..Len(M) : T[k] \in 0..Len(a) /\ k - T[k] \in 0..m
  BY <1>1, <1>3 DEF Taken
<1>9. ASSUME NEW k \in 1..Len(M)
      PROVE  \/ T[k] = T[k - 1] + 1 /\ M[k] = a[T[k]]
             \/ T[k] = T[k - 1] /\ M[k] = b[k - T[k]]
  BY <1>3 DEF Taken
<1> HIDE DEF W, V, b, m, r, a, T, A
<1>10. n \in 0..Len(M) /\ Len(M) \in Nat  BY <1>1, <1>3, <1>6
<1>11. Bad = {}
  <2> SUFFICES ASSUME Bad # {}  PROVE FALSE  OBVIOUS
  <2>1. PICK k \in Bad : \A j \in Bad : k <= j
    <3>1. Bad \in SUBSET Nat  BY <1>10
    <3> HIDE DEF Bad
    <3> QED  BY <3>1, LeastNat
  <2>2. k \in 0..n /\ ~Good(k)  OBVIOUS
  <2>3. Good(0)
    <3>1. 2 * T[0] = 0 /\ 0 - T[0] = 0  BY <1>8
    <3> QED  BY SMTT(30), <1>4, <1>5, <1>6, <3>1
  <2>4. k \in 1..Len(M) /\ k \in 0..Len(M) /\ k - 1 \in 0..n /\ ~(k <= k - 1) /\ k - 1 \in 0..Len(M)
    BY <1>10, <2>2, <2>3
  <2>5. Good(k - 1)  BY <2>1, <2>4
  <2>6. T[k] \in 0..Len(a) /\ k - T[k] \in 0..m /\ T[k - 1] \in 0..Len(a) /\ k - 1 - T[k - 1] \in 0..m
    BY <1>8, <2>4
  <2>7. W[k][s] = W[k - 1][s] + M[k].leaves[s]  BY <1>4, <2>4
  <2> DEFINE t == T[k - 1]
  <2>8. 2 * t \in 0..Len(c) /\ V[2 * t] \in [A -> Nat] /\ V[2 * t][s] \in Nat
    <3>1. 2 * t \in 0..Len(c)
      <4>1. t \in 0..Len(a)  BY <2>6
      <4> HIDE DEF t
      <4> QED  BY <1>6, <1>14, <4>1
    <3>2. V[2 * t] \in [A -> Nat]  BY <1>5, <3>1
    <3> QED  BY <3>1, <3>2 DEF A
  <2>9. CASE T[k] = T[k - 1] + 1 /\ M[k] = a[T[k]]
    <3>1. T[k] \in 1..Len(a)  BY SMTT(30), <1>6, <2>6, <2>9
    <3>2. M[k].leaves[s] = c[2 * T[k] - 1].leaves[s] + c[2 * T[k]].leaves[s]  BY <1>2, <2>9, <3>1
    <3> DEFINE p == 2 * t + 1
               q == 2 * t + 2
    <3>11. t \in Nat /\ T[k] = t + 1  BY <2>6, <2>9
    <3>3. 2 * T[k] - 1 = p /\ 2 * T[k] = q /\ p - 1 = 2 * t /\ q - 1 = p
      <4> HIDE DEF t
      <4> QED  BY <3>11
    <3>4. p \in 1..Len(c) /\ q \in 1..Len(c)
      <4>1. t + 1 <= Len(a)  BY <3>1, <3>11
      <4> HIDE DEF t
      <4> QED  BY <1>6, <1>14, <3>11, <4>1
    <3>5. V[p][s] = V[p - 1][s] + c[p].leaves[s] /\ V[q][s] = V[q - 1][s] + c[q].leaves[s]
      BY <1>5, <3>4
    <3>6. c[p].leaves[s] \in Nat /\ c[q].leaves[s] \in Nat  BY <1>7, <3>4
    <3> HIDE DEF p, q, t
    <3>7. V[q][s] = V[2 * t][s] + c[p].leaves[s] + c[q].leaves[s]  BY <2>8, <3>3, <3>5, <3>6
    <3>8. k - T[k] = k - 1 - t  BY SMTT(30), <2>4, <2>6, <2>9 DEF t
    <3>9. W[k - 1][s] = V[2 * t][s] + (IF r <= k - 1 - t THEN 1 ELSE 0)  BY <2>5 DEF t
    <3>10. W[k][s] = V[q][s] + (IF r <= k - T[k] THEN 1 ELSE 0)
      <4> DEFINE e == IF r <= k - 1 - t THEN 1 ELSE 0
      <4>1. e \in Nat /\ e = IF r <= k - T[k] THEN 1 ELSE 0  BY <3>8
      <4>2. W[k - 1][s] = V[2 * t][s] + e  BY <3>9
      <4> HIDE DEF e
      <4>3. W[k][s] = V[2 * t][s] + e + (c[p].leaves[s] + c[q].leaves[s])  BY <2>7, <3>2, <3>3, <4>2
      <4>4. W[k][s] = V[q][s] + e  BY SMTT(30), <2>8, <3>6, <3>7, <4>1, <4>3
      <4> QED  BY <4>1, <4>4
    <3> QED  BY <2>2, <3>3, <3>10
  <2>10. CASE T[k] = T[k - 1] /\ M[k] = b[k - T[k]]
    <3> DEFINE x == k - T[k]
    <3>1. k - 1 - t = x - 1 /\ x \in 0..m /\ x - 1 \in 0..m  BY SMTT(30), <2>4, <2>6, <2>10
    <3>2. x \in 1..m  BY <1>6, <3>1
    <3>3. M[k].leaves[s] = IF x = r THEN 1 ELSE 0  BY <1>1, <2>10, <3>2
    <3>4. W[k - 1][s] = V[2 * t][s] + (IF r <= x - 1 THEN 1 ELSE 0)  BY <2>5, <3>1
    <3>5. T[k] = t  BY <2>10
    <3>6. ~(W[k][s] = V[2 * t][s] + (IF r <= x THEN 1 ELSE 0))  BY <2>2, <3>5
    <3> HIDE DEF t, x
    <3> QED  BY SMTT(30), <1>6, <2>7, <2>8, <3>2, <3>3, <3>4, <3>6
  <2> QED  BY <1>9, <2>4, <2>9, <2>10
<1>12. Good(n)  BY <1>10, <1>11
<1>13. 2 * T[n] \in 0..Len(c) /\ n - T[n] \in 0..m
  <2>1. T[n] \in 0..Len(a) /\ n - T[n] \in 0..m  BY <1>8
  <2> QED  BY <1>6, <1>14, <2>1
<1> QED  BY <1>12, <1>13 DEF W, V, b, m, r, a, T, A

-----------------------------------------------------------------------------
(* What the front of a list counts *)

\* The symbols counted at least j times are the o[j] lightest ones.  In money:
\* of the N[j] coins of the list at depth j, o[j] are originals, and the others
\* are packages of two coins at the depth below.
Layers(freqs, w, d, n, o, N) ==
    /\ o \in [1..(d + 2) -> 0..Occurring(freqs)] /\ N \in [1..(d + 2) -> Nat]
    /\ N[1] = n /\ o[d + 2] = 0 /\ N[d + 2] = 0
    /\ \A j \in 1..(d + 1) : o[j + 1] <= o[j] /\ N[j + 1] = 2 * (N[j] - o[j])
    /\ \A s \in Active(freqs), j \in 1..(d + 2) : w[s] >= j <=> Rank(freqs, s) + 1 <= o[j]
Layered(freqs, c, d) ==
    \A n \in 0..Len(c) : \E o, N : Layers(freqs, Walked(c, Active(freqs))[n], d, n, o, N)

LEMMA OriginalsLayered ==
    ASSUME NEW freqs, IsFreqs(freqs)
    PROVE  Layered(freqs, Originals(freqs), 0)
<1> DEFINE A == Active(freqs)
           m == Occurring(freqs)
           W == Walked(Originals(freqs), A)
<1>1. m \in Nat /\ Len(Originals(freqs)) = m  BY ActiveFacts, OriginalsFacts
<1> SUFFICES ASSUME NEW n \in 0..m  PROVE \E o, N : Layers(freqs, W[n], 0, n, o, N)
  BY <1>1 DEF Layered
<1> DEFINE o == [j \in 1..2 |-> IF j = 1 THEN n ELSE 0]
<1>2. \A s \in A : W[n][s] = (IF Rank(freqs, s) + 1 <= n THEN 1 ELSE 0) /\ Rank(freqs, s) + 1 \in 1..m
  <2> SUFFICES ASSUME NEW s \in A
               PROVE  W[n][s] = (IF Rank(freqs, s) + 1 <= n THEN 1 ELSE 0) /\ Rank(freqs, s) + 1 \in 1..m
    OBVIOUS
  <2>1. Rank(freqs, s) \in 0..(m - 1)  BY RankType
  <2>2. W[n][s] = IF Rank(freqs, s) + 1 <= n THEN 1 ELSE 0  BY WalkedOriginals
  <2> QED  BY <1>1, <2>1, <2>2
<1>3. o[1] = n /\ o[2] = 0 /\ o \in [1..2 -> 0..m] /\ o \in [1..2 -> Nat]  BY <1>1
<1> HIDE DEF o, W, m
<1>4. \A s \in A, j \in 1..2 : W[n][s] >= j <=> Rank(freqs, s) + 1 <= o[j]
  <2> SUFFICES ASSUME NEW s \in A, NEW j \in 1..2
               PROVE  W[n][s] >= j <=> Rank(freqs, s) + 1 <= o[j]
    OBVIOUS
  <2>1. W[n][s] = (IF Rank(freqs, s) + 1 <= n THEN 1 ELSE 0) /\ Rank(freqs, s) + 1 \in 1..m  BY <1>2
  <2>2. CASE j = 1  BY <1>1, <1>3, <2>1, <2>2
  <2>3. CASE j = 2  BY <1>1, <1>3, <2>1, <2>3
  <2> QED  BY <2>2, <2>3
<1>5. \A j \in 1..1 : o[j + 1] <= o[j] /\ o[j + 1] = 2 * (o[j] - o[j])
  <2> SUFFICES ASSUME NEW j \in 1..1  PROVE o[j + 1] <= o[j] /\ o[j + 1] = 2 * (o[j] - o[j])  OBVIOUS
  <2>1. j = 1 /\ o[j] = n /\ o[j + 1] = 0 /\ n \in Nat  BY <1>1, <1>3
  <2> QED  BY <2>1
<1>6. Layers(freqs, W[n], 0, n, o, o)  BY <1>3, <1>4, <1>5 DEF Layers, m
<1> QED  BY <1>6

\* A package is heavier than its leaves, so a symbol below one of the packages
\* in the front of the list is there as an original too.
LEMMA LeavesAreTaken ==
    ASSUME NEW freqs, IsFreqs(freqs), NEW c, IsList(freqs, c), NEW M, NEW taken,
           Taken(taken, M, Package(c), Originals(freqs)),
           NEW n \in 0..Len(M), NEW s \in Active(freqs),
           Walked(c, Active(freqs))[2 * taken[n]][s] > 0
    PROVE  Rank(freqs, s) + 1 <= n - taken[n]
<1> DEFINE a == Package(c)
           b == Originals(freqs)
           m == Occurring(freqs)
           r == Rank(freqs, s) + 1
           t == taken[n]
<1>1. /\ IsList(freqs, a) /\ Len(a) = Len(c) \div 2
      /\ \A k \in 1..Len(a) :
            /\ a[k].leaves[s] = c[2 * k - 1].leaves[s] + c[2 * k].leaves[s]
            /\ a[k].leaves[s] > 0 => freqs[s] < a[k].weight
  BY PackageFacts
<1>2. /\ IsList(freqs, b) /\ Len(b) = m
      /\ \A k \in 1..m : b[k].weight = freqs[Sorted(freqs)[k]]
  BY OriginalsFacts
<1>3. r \in 1..m /\ Sorted(freqs)[r] = s  BY SortedFacts
<1>4. Len(M) = Len(a) + Len(b) /\ t \in 0..Len(a) /\ n - t \in 0..m
  BY <1>2 DEF Taken
<1>5. Len(c) \in Nat /\ \A k \in 1..Len(c) : c[k].leaves[s] \in Nat  BY DEF IsList, IsCoin, CoinOf
<1> HIDE DEF a, b, m, r, t
<1>6. 2 * t \in 0..Len(c)
  <2>1. 2 * Len(a) <= Len(c)  BY <1>1, <1>5
  <2> QED  BY <1>4, <1>5, <2>1
<1>7. PICK l \in 1..(2 * t) : c[l].leaves[s] > 0  BY <1>6, WalkedLeaf DEF t
<1> DEFINE x == (l + 1) \div 2
<1>8. x \in 1..t /\ (l = 2 * x - 1 \/ l = 2 * x) /\ l \in 1..Len(c) /\ 2 * x - 1 \in 1..Len(c) /\ 2 * x \in 1..Len(c)
  <2>1. t \in Nat /\ l \in Nat /\ 1 <= l /\ l <= 2 * t /\ 2 * t <= Len(c)  BY <1>4, <1>5, <1>6
  <2>2. l = 2 * x - 1 \/ l = 2 * x  BY <2>1
  <2>3. x \in Nat  BY <2>1
  <2> HIDE DEF x
  <2> QED  BY <1>5, <2>1, <2>2, <2>3
<1> HIDE DEF x
<1>9. x \in 1..Len(a)
  <2>1. t \in Int /\ t <= Len(a)  BY <1>4
  <2>2. Len(a) \in Nat  BY <1>1, <1>5
  <2> QED  BY <1>8, <2>1, <2>2
<1>10. a[x].leaves[s] > 0
  <2>1. a[x].leaves[s] = c[2 * x - 1].leaves[s] + c[2 * x].leaves[s]  BY <1>1, <1>9
  <2>2. c[2 * x - 1].leaves[s] \in Nat /\ c[2 * x].leaves[s] \in Nat  BY <1>5, <1>8
  <2> QED  BY SMTT(30), <1>7, <1>8, <2>1, <2>2
<1>11. b[r].weight < a[x].weight  BY <1>1, <1>2, <1>3, <1>9, <1>10
<1>12. n \in 0..(Len(a) + Len(b)) /\ x \in 1..taken[n] /\ r \in 1..Len(b)
  BY <1>2, <1>3, <1>4, <1>8 DEF t
<1>13. r <= n - taken[n]  BY <1>1, <1>2, <1>11, <1>12, LighterIsTaken DEF a, b
<1> QED  BY <1>13 DEF r

LEMMA RoundLayered ==
    ASSUME NEW freqs, IsFreqs(freqs), NEW c, IsList(freqs, c), NEW d \in Nat, Layered(freqs, c, d)
    PROVE  Layered(freqs, Merge(Package(c), Originals(freqs)), d + 1)
<1> DEFINE A == Active(freqs)
           m == Occurring(freqs)
           M == Merge(Package(c), Originals(freqs))
           W == Walked(M, A)
           V == Walked(c, A)
<1>1. IsList(freqs, M)  BY RoundIsList
<1>2. PICK T : Taken(T, M, Package(c), Originals(freqs))  BY RoundIsList
<1>3. m \in Nat /\ \A s \in A : Rank(freqs, s) + 1 \in 1..m
  <2>1. m \in Nat /\ \A s \in A : Rank(freqs, s) \in 0..(m - 1)  BY ActiveFacts, RankType
  <2> QED  BY <2>1
<1> SUFFICES ASSUME NEW n \in 0..Len(M)  PROVE \E o, N : Layers(freqs, W[n], d + 1, n, o, N)
  BY DEF Layered
<1> DEFINE t == T[n]
<1>4. \A s \in A : W[n][s] = V[2 * t][s] + (IF Rank(freqs, s) + 1 <= n - t THEN 1 ELSE 0)
  BY <1>2, WalkedMerge
<1>5. \A s \in A : V[2 * t][s] > 0 => Rank(freqs, s) + 1 <= n - t  BY <1>2, LeavesAreTaken
<1>6. t \in Nat /\ n - t \in 0..m /\ 2 * t \in 0..Len(c) /\ n \in Nat /\ Len(c) \in Nat
  <2>1. Len(M) = Len(Package(c)) + Len(Originals(freqs))  BY <1>2 DEF Taken
  <2>2. t \in 0..Len(Package(c)) /\ n - t \in 0..Len(Originals(freqs))  BY <1>2, <2>1 DEF Taken
  <2>3. Len(Package(c)) = Len(c) \div 2 /\ Len(Originals(freqs)) = m  BY PackageFacts, OriginalsFacts
  <2>4. Len(c) \in Nat  BY DEF IsList
  <2>5. Len(M) \in Nat  BY <1>1 DEF IsList
  <2>6. 2 * (Len(c) \div 2) <= Len(c)  BY <2>4
  <2> HIDE DEF M, t
  <2>7. t \in 0..(Len(c) \div 2)  BY <2>2, <2>3
  <2>8. 2 * t \in 0..Len(c)  BY <2>4, <2>6, <2>7
  <2> QED  BY <2>2, <2>3, <2>4, <2>5, <2>7, <2>8
<1>7. \A s \in A : V[2 * t][s] \in Nat
  <2>1. V \in [0..Len(c) -> [A -> Nat]]  BY WalkedFacts
  <2>2. V[2 * t] \in [A -> Nat]  BY <1>6, <2>1
  <2> QED  BY <2>2
<1>8. PICK o, N : Layers(freqs, V[2 * t], d, 2 * t, o, N)  BY <1>6 DEF Layered
<1>9. /\ o \in [1..(d + 2) -> 0..m] /\ N \in [1..(d + 2) -> Nat]
      /\ N[1] = 2 * t /\ o[d + 2] = 0 /\ N[d + 2] = 0
      /\ \A j \in 1..(d + 1) : o[j + 1] <= o[j] /\ N[j + 1] = 2 * (N[j] - o[j])
      /\ \A s \in A, j \in 1..(d + 2) : V[2 * t][s] >= j <=> Rank(freqs, s) + 1 <= o[j]
  BY <1>8 DEF Layers
<1> HIDE DEF W, V, t, M, m, A
<1> DEFINE p == [j \in 1..(d + 3) |-> IF j = 1 THEN n - t ELSE o[j - 1]]
           Q == [j \in 1..(d + 3) |-> IF j = 1 THEN n ELSE N[j - 1]]
<1>10. \A j \in 1..(d + 3) : j # 1 => j - 1 \in 1..(d + 2)  OBVIOUS
<1>11. p \in [1..(d + 3) -> 0..m]
  <2>1. \A j \in 1..(d + 3) : (IF j = 1 THEN n - t ELSE o[j - 1]) \in 0..m  BY <1>6, <1>9, <1>10
  <2> QED  BY <2>1
<1>12. Q \in [1..(d + 3) -> Nat]
  <2>1. \A j \in 1..(d + 3) : (IF j = 1 THEN n ELSE N[j - 1]) \in Nat  BY <1>6, <1>9, <1>10
  <2> QED  BY <2>1
<1>13. /\ p[1] = n - t /\ Q[1] = n
       /\ \A j \in 1..(d + 2) : p[j + 1] = o[j] /\ Q[j + 1] = N[j]
  <2>1. 1 \in 1..(d + 3) /\ \A j \in 1..(d + 2) : j + 1 \in 1..(d + 3) /\ j + 1 # 1 /\ j + 1 - 1 = j  OBVIOUS
  <2> QED  BY <2>1
<1> HIDE DEF p, Q
<1>14. \A j \in 1..(d + 2) : o[j] \in 0..m /\ N[j] \in Nat  BY <1>9
<1>15. o[1] <= n - t
  <2>1. CASE o[1] = 0  BY <1>6, <2>1
  <2>2. CASE o[1] # 0
    <3>1. 1 \in 1..(d + 2)  OBVIOUS
    <3>2. o[1] \in 1..m  BY <1>3, <1>14, <2>2, <3>1
    <3>3. /\ Sorted(freqs) \in [1..m -> A]
          /\ \A k \in 1..m : Rank(freqs, Sorted(freqs)[k]) = k - 1
      BY SortedFacts DEF m, A
    <3>4. PICK s \in A : Rank(freqs, s) = o[1] - 1  BY <3>2, <3>3
    <3>5. Rank(freqs, s) + 1 = o[1]  BY <3>2, <3>4
    <3>6. V[2 * t][s] >= 1  BY <1>9, <3>1, <3>2, <3>5
    <3>7. V[2 * t][s] > 0  BY <1>7, <3>6
    <3> QED  BY <1>5, <3>5, <3>7
  <2> QED  BY <2>1, <2>2
<1>16. p[(d + 1) + 2] = 0 /\ Q[(d + 1) + 2] = 0
  <2>1. d + 2 \in 1..(d + 2) /\ (d + 1) + 2 = (d + 2) + 1  OBVIOUS
  <2>2. p[(d + 2) + 1] = 0 /\ Q[(d + 2) + 1] = 0  BY <1>9, <1>13, <2>1
  <2> QED  BY <2>1, <2>2
<1>17. \A j \in 1..((d + 1) + 1) : p[j + 1] <= p[j] /\ Q[j + 1] = 2 * (Q[j] - p[j])
  <2> SUFFICES ASSUME NEW j \in 1..((d + 1) + 1)
               PROVE  p[j + 1] <= p[j] /\ Q[j + 1] = 2 * (Q[j] - p[j])
    OBVIOUS
  <2>1. j \in 1..(d + 2)  OBVIOUS
  <2>2. p[j + 1] = o[j] /\ Q[j + 1] = N[j]  BY <1>13, <2>1
  <2>3. CASE j = 1
    <3>1. p[j] = n - t /\ Q[j] = n /\ p[j + 1] = o[1] /\ Q[j + 1] = 2 * t  BY <1>9, <1>13, <2>2, <2>3
    <3> QED  BY <1>6, <1>15, <3>1
  <2>4. CASE j # 1
    <3> DEFINE i == j - 1
    <3>1. i \in 1..(d + 1) /\ i \in 1..(d + 2) /\ i + 1 = j  BY <2>4
    <3> HIDE DEF i
    <3>2. p[j] = o[i] /\ Q[j] = N[i]  BY <1>13, <3>1
    <3>3. o[j] <= o[i] /\ N[j] = 2 * (N[i] - o[i])  BY <1>9, <3>1
    <3> QED  BY <2>2, <3>2, <3>3
  <2> QED  BY <2>3, <2>4
<1>18. \A s \in A, j \in 1..((d + 1) + 2) : W[n][s] >= j <=> Rank(freqs, s) + 1 <= p[j]
  <2> SUFFICES ASSUME NEW s \in A, NEW j \in 1..((d + 1) + 2)
               PROVE  W[n][s] >= j <=> Rank(freqs, s) + 1 <= p[j]
    OBVIOUS
  <2> DEFINE r == Rank(freqs, s) + 1
             v == V[2 * t][s]
  <2>1. r \in 1..m /\ v \in Nat /\ W[n][s] = v + (IF r <= n - t THEN 1 ELSE 0)  BY <1>3, <1>4, <1>7
  <2>2. v > 0 => r <= n - t  BY <1>5
  <2>3. \A i \in 1..(d + 2) : v >= i <=> r <= o[i]  BY <1>9
  <2> HIDE DEF r, v
  <2>4. CASE j = 1
    <3>1. p[j] = n - t  BY <1>13, <2>4
    <3>2. W[n][s] >= 1 <=> r <= n - t  BY <1>6, <2>1, <2>2
    <3> QED  BY <2>4, <3>1, <3>2 DEF r
  <2>5. CASE j # 1
    <3> DEFINE i == j - 1
    <3>1. i \in 1..(d + 2) /\ i + 1 = j /\ i \in Nat /\ i >= 1  BY <2>5
    <3> HIDE DEF i
    <3>2. p[j] = o[i]  BY <1>13, <3>1
    <3>3. v >= i <=> r <= o[i]  BY <2>3, <3>1
    <3>4. W[n][s] >= i + 1 <=> v >= i  BY <1>6, <2>1, <2>2, <3>1
    <3> QED  BY <3>1, <3>2, <3>3, <3>4 DEF r
  <2> QED  BY <2>4, <2>5
<1>19. (d + 1) + 2 = d + 3  OBVIOUS
<1>20. Layers(freqs, W[n], d + 1, n, p, Q)
  BY <1>11, <1>12, <1>13, <1>16, <1>17, <1>18, <1>19 DEF Layers, m, A
<1> QED  BY <1>20

-----------------------------------------------------------------------------
(* The lengths of package-merge make a complete code *)

LEMMA Doubled ==
    ASSUME NEW x \in 0..16
    PROVE  2^x \in Nat \ {0} /\ 2^(x + 1) = 2 * 2^x
<1>1. \/ x = 0 \/ x = 1 \/ x = 2 \/ x = 3 \/ x = 4 \/ x = 5 \/ x = 6 \/ x = 7 \/ x = 8
      \/ x = 9 \/ x = 10 \/ x = 11 \/ x = 12 \/ x = 13 \/ x = 14 \/ x = 15 \/ x = 16
  BY SMT
<1>2. CASE x = 0  BY <1>2, SMT
<1>3. CASE x = 1  BY <1>3, SMT
<1>4. CASE x = 2  BY <1>4, SMT
<1>5. CASE x = 3  BY <1>5, SMT
<1>6. CASE x = 4  BY <1>6, SMT
<1>7. CASE x = 5  BY <1>7, SMT
<1>8. CASE x = 6  BY <1>8, SMT
<1>9. CASE x = 7  BY <1>9, SMT
<1>10. CASE x = 8  BY <1>10, SMT
<1>11. CASE x = 9  BY <1>11, SMT
<1>12. CASE x = 10  BY <1>12, SMT
<1>13. CASE x = 11  BY <1>13, SMT
<1>14. CASE x = 12  BY <1>14, SMT
<1>15. CASE x = 13  BY <1>15, SMT
<1>16. CASE x = 14  BY <1>16, SMT
<1>17. CASE x = 15  BY <1>17, SMT
<1>18. CASE x = 16  BY <1>18, SMT
<1> QED
  BY <1>1, <1>2, <1>3, <1>4, <1>5, <1>6, <1>7, <1>8, <1>9, <1>10, <1>11, <1>12, <1>13,
     <1>14, <1>15, <1>16, <1>17, <1>18

\* With m symbols and room for their codes, the last list has 2m - 2 coins.
LEMMA EnoughCoins ==
    ASSUME NEW freqs, IsFreqs(freqs), NEW limit \in 1..16, Occurring(freqs) <= 2^limit,
           NEW f, After(f, freqs, limit - 1)
    PROVE  /\ IsList(freqs, f[limit - 1]) /\ Layered(freqs, f[limit - 1], limit - 1)
           /\ 2 * Occurring(freqs) - 2 <= Len(f[limit - 1])
<1> DEFINE m == Occurring(freqs)
           Room(d) == 2 * m - Len(f[d]) <= 2^(limit - d)
           Good(d) == Layered(freqs, f[d], d) /\ Room(d)
           Bad == {d \in 0..(limit - 1) : ~Good(d)}
<1>1. m \in Nat  BY ActiveFacts
<1>2. /\ \A d \in 0..(limit - 1) : IsList(freqs, f[d])
      /\ f[0] = Originals(freqs)
      /\ \A d \in 1..(limit - 1) : f[d] = Merge(Package(f[d - 1]), Originals(freqs))
  BY DEF After
<1>3. Bad = {}
  <2> SUFFICES ASSUME Bad # {}  PROVE FALSE  OBVIOUS
  <2>1. PICK k \in Bad : \A j \in Bad : k <= j
    <3>1. Bad \in SUBSET Nat  OBVIOUS
    <3> HIDE DEF Bad
    <3> QED  BY <3>1, LeastNat
  <2>2. k \in 0..(limit - 1) /\ ~Good(k)  OBVIOUS
  <2>3. Good(0)
    <3>1. Len(f[0]) = m /\ Layered(freqs, f[0], 0)  BY <1>2, OriginalsFacts, OriginalsLayered
    <3> QED  BY <1>1, <3>1
  <2> DEFINE i == k - 1
  <2>4. k \in 1..(limit - 1) /\ i \in 0..(limit - 1) /\ ~(k <= i) /\ i + 1 = k /\ i \in Nat
    BY <2>2, <2>3
  <2> HIDE DEF Good
  <2>5. Good(i)  BY <2>1, <2>4
  <2>6. f[k] = Merge(Package(f[i]), Originals(freqs)) /\ IsList(freqs, f[i])  BY <1>2, <2>4
  <2> HIDE DEF i, Bad, Room
  <2>7. Layered(freqs, f[k], k)  BY <2>4, <2>5, <2>6, RoundLayered DEF Good
  <2>8. Room(k)
    <3> DEFINE n == Len(f[i])
               x == limit - k
    <3>1. Len(f[k]) = n \div 2 + m /\ n \in Nat
      <4>1. n \in Nat  BY <2>6 DEF IsList
      <4> HIDE DEF m
      <4>2. Len(Merge(Package(f[i]), Originals(freqs))) = Len(f[i]) \div 2 + Occurring(freqs)
        BY <2>6, RoundIsList
      <4> QED  BY <2>6, <4>1, <4>2 DEF m
    <3>2. x \in 0..16 /\ limit - i = x + 1  BY <2>4
    <3>3. 2 * m - n <= 2^(x + 1)  BY <2>5, <3>2 DEF Good, Room
    <3>4. 2^(x + 1) = 2 * 2^x /\ 2^x \in Nat  BY <3>2, Doubled
    <3> DEFINE y == 2^x
    <3>5. 2 * m - n <= 2 * y /\ y \in Nat  BY <3>3, <3>4
    <3> HIDE DEF n, y
    <3>6. 2 * m - (n \div 2 + m) <= y  BY <1>1, <3>1, <3>5
    <3> QED  BY <3>1, <3>6 DEF Room, y
  <2> QED  BY <2>2, <2>7, <2>8 DEF Good
<1>4. limit - 1 \in 0..(limit - 1)  OBVIOUS
<1>5. Good(limit - 1)  BY <1>3, <1>4
<1>6. limit - (limit - 1) = 1 /\ 2^1 = 2  BY SMT
<1>7. 2 * m - Len(f[limit - 1]) <= 2  BY <1>5, <1>6
<1>8. IsList(freqs, f[limit - 1]) /\ Len(f[limit - 1]) \in Nat  BY <1>2, <1>4 DEF IsList
<1> QED  BY <1>1, <1>5, <1>7, <1>8

LEMMA OfLengthFinite ==
    ASSUME NEW lengths, IsFiniteSet(DOMAIN lengths), NEW l
    PROVE  IsFiniteSet(OfLength(lengths, l)) /\ Cardinality(OfLength(lengths, l)) \in Nat
<1>1. OfLength(lengths, l) \in SUBSET DOMAIN lengths  BY DEF OfLength
<1> QED  BY <1>1, FS_Subset, FS_CardinalityType

LEMMA NextCodeFacts ==
    ASSUME NEW lengths, IsFiniteSet(DOMAIN lengths)
    PROVE  LET next == NextCode(lengths)
           IN  /\ next \in [0..16 -> Nat] /\ next[0] = 0
               /\ \A l \in 1..16 : next[l] = 2 * (next[l - 1] + Cardinality(OfLength(lengths, l)))
<1> DEFINE cnt(l) == Cardinality(OfLength(lengths, l))
           step == [p \in (1..16) \X Nat |-> 2 * (p[2] + cnt(p[1]))]
           Is(f) == f = [l \in 0..16 |-> IF l = 0 THEN 0 ELSE 2 * (f[l - 1] + cnt(l))]
<1>1. \A l \in 1..16 : cnt(l) \in Nat  BY OfLengthFinite
<1>2. NextCode(lengths) = CHOOSE f : Is(f)  BY DEF NextCode
<1> HIDE DEF cnt
<1>3. step \in [(1..16) \X Nat -> Nat]
  <2> SUFFICES ASSUME NEW p \in (1..16) \X Nat  PROVE 2 * (p[2] + cnt(p[1])) \in Nat  OBVIOUS
  <2>1. p[1] \in 1..16 /\ p[2] \in Nat  OBVIOUS
  <2>2. cnt(p[1]) \in Nat  BY <1>1, <2>1
  <2> QED  BY <2>1, <2>2
<1>4. \A l \in 1..16, x \in Nat : step[<<l, x>>] = 2 * (x + cnt(l))  OBVIOUS
<1> HIDE DEF step
<1>5. PICK g : Recurs(g, 0, step, Nat, 16)  BY <1>3, Recursion
<1>6. g \in [0..16 -> Nat] /\ g[0] = 0 /\ \A l \in 1..16 : g[l] = step[<<l, g[l - 1]>>]
  BY <1>5 DEF Recurs
<1>7. \A l \in 0..16 : l # 0 => l \in 1..16 /\ l - 1 \in 0..16  OBVIOUS
<1>8. \A l \in 0..16 : g[l] = IF l = 0 THEN 0 ELSE 2 * (g[l - 1] + cnt(l))  BY <1>4, <1>6, <1>7
<1>9. g = [l \in 0..16 |-> g[l]]  BY <1>6
<1>10. Is(g)  BY <1>8, <1>9
<1> DEFINE f == CHOOSE h : Is(h)
<1>11. Is(f)  BY <1>10
<1> HIDE DEF f
<1>12. f[0] = 0 /\ \A l \in 1..16 : f[l] = 2 * (f[l - 1] + cnt(l))
  <2>1. 0 \in 0..16 /\ \A l \in 1..16 : l \in 0..16 /\ l # 0  OBVIOUS
  <2> QED  BY <1>11, <2>1
<1> DEFINE Bad == {l \in 0..16 : ~(f[l] \in Nat)}
<1>13. Bad = {}
  <2> SUFFICES ASSUME Bad # {}  PROVE FALSE  OBVIOUS
  <2>1. PICK k \in Bad : \A j \in Bad : k <= j
    <3>1. Bad \in SUBSET Nat  OBVIOUS
    <3> HIDE DEF Bad
    <3> QED  BY <3>1, LeastNat
  <2>2. k \in 0..16 /\ ~(f[k] \in Nat)  OBVIOUS
  <2>3. k # 0  BY <1>12, <2>2
  <2>4. k \in 1..16 /\ k - 1 \in 0..16 /\ ~(k <= k - 1)  BY <2>2, <2>3
  <2>5. f[k - 1] \in Nat /\ cnt(k) \in Nat  BY <1>1, <2>1, <2>4
  <2> QED  BY <1>12, <2>2, <2>4, <2>5
<1>14. f \in [0..16 -> Nat]
  <2>1. DOMAIN f = 0..16  BY <1>11
  <2>2. f = [l \in 0..16 |-> f[l]]  BY <1>11, <2>1
  <2>3. \A l \in 0..16 : f[l] \in Nat  BY <1>13
  <2> HIDE DEF Bad
  <2> QED  BY <2>2, <2>3
<1> QED  BY <1>2, <1>12, <1>14 DEF f, cnt

\* A symbol gets as many bits as the layers that count it.
LEMMA LayersCounted ==
    ASSUME NEW freqs, IsFreqs(freqs), NEW w \in [Active(freqs) -> Nat], NEW d \in Nat,
           NEW n, NEW o, NEW N, Layers(freqs, w, d, n, o, N), NEW j \in 1..(d + 1)
    PROVE  Cardinality({s \in Active(freqs) : w[s] = j}) = o[j] - o[j + 1]
<1> DEFINE A == Active(freqs)
           m == Occurring(freqs)
           B == {s \in A : w[s] = j}
           I == (o[j + 1] + 1)..o[j]
           f == [s \in B |-> Rank(freqs, s) + 1]
<1>1. /\ o \in [1..(d + 2) -> 0..m]
      /\ o[j + 1] <= o[j]
      /\ \A s \in A, i \in 1..(d + 2) : w[s] >= i <=> Rank(freqs, s) + 1 <= o[i]
  BY DEF Layers
<1>2. j \in 1..(d + 2) /\ j + 1 \in 1..(d + 2) /\ j \in Nat  OBVIOUS
<1>3. m \in Nat /\ o[j] \in 0..m /\ o[j + 1] \in 0..m  BY <1>1, <1>2, ActiveFacts
<1>4. /\ Sorted(freqs) \in [1..m -> A]
      /\ \A k \in 1..m : Rank(freqs, Sorted(freqs)[k]) = k - 1
      /\ \A s \in A : Sorted(freqs)[Rank(freqs, s) + 1] = s /\ Rank(freqs, s) + 1 \in 1..m
  BY SortedFacts
<1>5. \A s \in A : w[s] = j <=> Rank(freqs, s) + 1 \in I
  <2> SUFFICES ASSUME NEW s \in A  PROVE w[s] = j <=> Rank(freqs, s) + 1 \in I  OBVIOUS
  <2>1. w[s] \in Nat /\ Rank(freqs, s) + 1 \in 1..m  BY <1>4
  <2>2. w[s] >= j <=> Rank(freqs, s) + 1 <= o[j]  BY <1>1, <1>2
  <2>3. w[s] >= j + 1 <=> Rank(freqs, s) + 1 <= o[j + 1]  BY <1>1, <1>2
  <2> QED  BY <1>2, <1>3, <2>1, <2>2, <2>3
<1> HIDE DEF m
<1>6. f \in Bijection(B, I)
  <2>1. f \in [B -> I]  BY <1>5
  <2>2. \A s, t \in B : f[s] = f[t] => s = t
    <3> SUFFICES ASSUME NEW s \in B, NEW t \in B, f[s] = f[t]  PROVE s = t  OBVIOUS
    <3>1. Rank(freqs, s) + 1 = Rank(freqs, t) + 1  OBVIOUS
    <3> QED  BY <1>4, <3>1
  <2>3. \A k \in I : \E s \in B : f[s] = k
    <3> SUFFICES ASSUME NEW k \in I  PROVE \E s \in B : f[s] = k  OBVIOUS
    <3>1. k \in 1..m  BY <1>3
    <3> DEFINE s == Sorted(freqs)[k]
    <3>2. s \in A /\ Rank(freqs, s) + 1 = k  BY <1>4, <3>1
    <3>3. s \in B  BY <1>5, <3>2
    <3> QED  BY <3>2, <3>3
  <2> HIDE DEF f
  <2>4. f \in Injection(B, I)  BY <2>1, <2>2 DEF Injection, IsInjective
  <2>5. f \in Surjection(B, I)  BY <2>1, <2>3 DEF Surjection
  <2> QED  BY <2>4, <2>5 DEF Bijection
<1> HIDE DEF f, B, I
<1>7. o[j + 1] + 1 \in Int /\ o[j] \in Int  BY <1>3
<1>8. IsFiniteSet(I) /\ Cardinality(I) = IF o[j + 1] + 1 > o[j] THEN 0 ELSE o[j] - (o[j + 1] + 1) + 1
  BY <1>7, FS_Interval DEF I
<1>13. o[j + 1] <= o[j]  BY <1>1
<1>9. Cardinality(I) = o[j] - o[j + 1]  BY ONLY <1>3, <1>8, <1>13
<1>10. IsFiniteSet(B)
  <2>1. B \in SUBSET A  BY DEF B
  <2> QED  BY <2>1, ActiveFacts, FS_Subset
<1>11. ExistsBijection(B, I)  BY <1>6 DEF ExistsBijection
<1>12. Cardinality(I) = Cardinality(B)  BY <1>10, <1>11, FS_Bijection
<1> QED  BY <1>9, <1>12 DEF B

\* Bits are left at no depth, and none but where codes follow: with the coins
\* for m symbols all of them are counted, and the code has no gap.
Thinning(m, L, o, N, next) ==
    /\ m \in Nat /\ m >= 2 /\ L \in 1..16
    /\ o \in [1..(L + 1) -> 0..m] /\ N \in [1..(L + 1) -> Nat]
    /\ N[1] = 2 * m - 2 /\ o[L + 1] = 0 /\ N[L + 1] = 0
    /\ \A j \in 1..L : o[j + 1] <= o[j] /\ N[j + 1] = 2 * (N[j] - o[j])
    /\ next \in [0..16 -> Nat] /\ next[0] = 0
    /\ \A l \in 1..L : next[l] = 2 * (next[l - 1] + (o[l] - o[l + 1]))
    /\ \A l \in (L + 1)..16 : next[l] = 2 * next[l - 1]

LEMMA LayersComplete ==
    ASSUME NEW m, NEW L, NEW o, NEW N, NEW next, Thinning(m, L, o, N, next)
    PROVE  /\ o[1] = m
           /\ \A l \in 0..16 : next[l] <= 2^(l + 1)
           /\ \A l \in L..16 : next[l] = 2^(l + 1)
<1> SUFFICES ASSUME m \in Nat, m >= 2, L \in 1..16,
                    o \in [1..(L + 1) -> 0..m], N \in [1..(L + 1) -> Nat],
                    N[1] = 2 * m - 2, o[L + 1] = 0, N[L + 1] = 0,
                    \A j \in 1..L : o[j + 1] <= o[j] /\ N[j + 1] = 2 * (N[j] - o[j]),
                    next \in [0..16 -> Nat], next[0] = 0,
                    \A l \in 1..L : next[l] = 2 * (next[l - 1] + (o[l] - o[l + 1])),
                    \A l \in (L + 1)..16 : next[l] = 2 * next[l - 1]
             PROVE  /\ o[1] = m
                    /\ \A l \in 0..16 : next[l] <= 2^(l + 1)
                    /\ \A l \in L..16 : next[l] = 2^(l + 1)
  BY DEF Thinning
<1> DEFINE F(l) == 2 * o[l + 1] - N[l + 1]
           Up(l) == F(l) >= 0 /\ (o[l + 1] > 0 => F(l) > 0)
           BadUp == {x \in 0..L : ~Up(L - x)}
<1>1. \A l \in 0..L : l + 1 \in 1..(L + 1) /\ o[l + 1] \in Nat /\ N[l + 1] \in Nat /\ F(l) \in Int
  <2> SUFFICES ASSUME NEW l \in 0..L
               PROVE  l + 1 \in 1..(L + 1) /\ o[l + 1] \in Nat /\ N[l + 1] \in Nat /\ F(l) \in Int
    OBVIOUS
  <2>1. l + 1 \in 1..(L + 1)  OBVIOUS
  <2>2. o[l + 1] \in 0..m /\ N[l + 1] \in Nat  BY <2>1
  <2> QED  BY ONLY <2>1, <2>2, m \in Nat
<1>2. \A l \in 0..(L - 1) : F(l + 1) = 2 * F(l) - 2 * (o[l + 1] - o[l + 2]) /\ o[l + 2] <= o[l + 1]
  <2> SUFFICES ASSUME NEW l \in 0..(L - 1)
               PROVE  F(l + 1) = 2 * F(l) - 2 * (o[l + 1] - o[l + 2]) /\ o[l + 2] <= o[l + 1]
    OBVIOUS
  <2> DEFINE j == l + 1
  <2>1. j \in 1..L /\ j + 1 \in 1..(L + 1) /\ j \in 1..(L + 1) /\ l + 2 = j + 1 /\ (l + 1) + 1 = j + 1
    OBVIOUS
  <2>2. o[j + 1] <= o[j] /\ N[j + 1] = 2 * (N[j] - o[j])  BY <2>1
  <2>5. o[j] \in 0..m /\ o[j + 1] \in 0..m /\ N[j] \in Nat /\ N[j + 1] \in Nat  BY <2>1
  <2>3. o[j] \in Int /\ o[j + 1] \in Int /\ N[j] \in Int /\ N[j + 1] \in Int
    BY ONLY <2>5, m \in Nat
  <2> HIDE DEF j
  <2>4. 2 * o[j + 1] - N[j + 1] = 2 * (2 * o[j] - N[j]) - 2 * (o[j] - o[j + 1])  BY ONLY <2>2, <2>3
  <2> QED  BY <2>1, <2>2, <2>4 DEF j
<1>3. BadUp = {}
  <2> SUFFICES ASSUME BadUp # {}  PROVE FALSE  OBVIOUS
  <2>1. PICK x \in BadUp : \A y \in BadUp : x <= y
    <3>1. BadUp \in SUBSET Nat  OBVIOUS
    <3> HIDE DEF BadUp
    <3> QED  BY <3>1, LeastNat
  <2>2. x \in 0..L /\ ~Up(L - x)  OBVIOUS
  <2>3. x # 0
    <3>1. Up(L)  OBVIOUS
    <3>2. L - 0 = L  OBVIOUS
    <3> HIDE DEF Up
    <3> QED  BY <2>2, <3>1, <3>2
  <2> DEFINE l == L - x
  <2>4. l \in 0..(L - 1) /\ l \in 0..L /\ l + 1 \in 0..L /\ x - 1 \in 0..L /\ ~(x <= x - 1) /\ L - (x - 1) = l + 1
    BY <2>2, <2>3
  <2>5. Up(l + 1)
    <3> HIDE DEF Up
    <3>1. ~(x - 1 \in BadUp)  BY <2>1, <2>4
    <3> QED  BY <2>4, <3>1
  <2>6. F(l + 1) = 2 * F(l) - 2 * (o[l + 1] - o[l + 2]) /\ o[l + 2] <= o[l + 1]  BY <1>2, <2>4
  <2>7. o[l + 1] \in Nat /\ F(l) \in Int /\ F(l + 1) \in Int  BY <1>1, <2>4
  <2>12. (l + 1) + 1 = l + 2  BY <2>4
  <2>8. (l + 1) + 1 = l + 2 /\ o[l + 2] \in Nat
    <3>1. o[(l + 1) + 1] \in Nat  BY <1>1, <2>4
    <3> QED  BY <2>12, <3>1
  <2> DEFINE u == F(l)
             v == F(l + 1)
             a == o[l + 1]
             b == o[l + 2]
  <2>9. v >= 0 /\ (b > 0 => v > 0)  BY <2>5, <2>8
  <2>10. v = 2 * u - 2 * (a - b) /\ b <= a /\ a \in Nat /\ b \in Nat /\ u \in Int /\ v \in Int
    BY <2>6, <2>7, <2>8
  <2>11. ~(u >= 0 /\ (a > 0 => u > 0))  BY <2>2
  <2> HIDE DEF u, v, a, b
  <2> QED  BY ONLY <2>9, <2>10, <2>11
<1>4. Up(0)
  <2>1. L \in 0..L /\ L - L = 0  OBVIOUS
  <2> HIDE DEF Up
  <2>2. ~(L \in BadUp)  BY <1>3
  <2> QED  BY <2>1, <2>2
<1>5. o[1] = m
  <2>1. 1 \in 1..(L + 1) /\ 0 + 1 = 1  OBVIOUS
  <2>2. o[1] \in 0..m /\ N[1] = 2 * m - 2  BY <2>1
  <2>3. 2 * o[1] - N[1] >= 0 /\ (o[1] > 0 => 2 * o[1] - N[1] > 0)  BY <1>4, <2>1
  <2> QED  BY ONLY <2>2, <2>3, m \in Nat, m >= 2
<1> DEFINE Down(l) == next[l] + F(l) = 2^(l + 1)
           BadDown == {l \in 0..L : ~Down(l)}
<1>6. BadDown = {}
  <2> SUFFICES ASSUME BadDown # {}  PROVE FALSE  OBVIOUS
  <2>1. PICK k \in BadDown : \A y \in BadDown : k <= y
    <3>1. BadDown \in SUBSET Nat  OBVIOUS
    <3> HIDE DEF BadDown
    <3> QED  BY <3>1, LeastNat
  <2>2. k \in 0..L /\ ~Down(k)  OBVIOUS
  <2>3. Down(0)
    <3>1. F(0) = 2
      <4>1. 0 + 1 = 1  OBVIOUS
      <4>2. 2 * o[1] - N[1] = 2  BY <1>5
      <4> QED  BY <4>1, <4>2
    <3>2. 2^(0 + 1) = 2  BY SMT
    <3> QED  BY SMTT(30), <3>1, <3>2
  <2> DEFINE l == k - 1
  <2>4. l \in 0..(L - 1) /\ l \in 0..L /\ ~(k <= l) /\ l + 1 = k /\ k \in 1..L /\ k \in 0..16 /\ l \in 0..16
    <3> HIDE DEF Down
    <3>1. k # 0  BY ONLY <2>2, <2>3
    <3> QED  BY ONLY <2>2, <3>1, L \in 1..16
  <2>5. Down(l)  BY <2>1, <2>4
  <2>6. F(k) = 2 * F(l) - 2 * (o[l + 1] - o[l + 2])  BY <1>2, <2>4
  <2>7. next[k] = 2 * (next[l] + (o[k] - o[k + 1]))  BY <2>4
  <2>8. 2^(k + 1) = 2 * 2^k /\ 2^k \in Nat  BY <2>4, Doubled
  <2>9. next[l] \in Nat /\ F(l) \in Int /\ F(k) \in Int /\ o[k] \in Nat /\ o[k + 1] \in Nat /\ l + 2 = k + 1
    <3>1. l + 2 = k + 1 /\ l + 1 = k  BY ONLY <2>2
    <3>2. F(k) \in Int /\ o[k + 1] \in Nat /\ F(l) \in Int /\ o[l + 1] \in Nat  BY <1>1, <2>2, <2>4
    <3>3. next[l] \in Nat  BY <2>4
    <3> QED  BY <3>1, <3>2, <3>3
  <2> DEFINE u == F(l)
             v == F(k)
             p == 2^k
             a == o[k]
             b == o[k + 1]
             c == next[l]
             e == next[k]
  <2>10. c + u = p  BY <2>4, <2>5
  <2>11. v = 2 * u - 2 * (a - b) /\ e = 2 * (c + (a - b))  BY <2>4, <2>6, <2>7, <2>9
  <2>12. e + v # 2 * p  BY <2>2, <2>8
  <2>13. u \in Int /\ v \in Int /\ a \in Nat /\ b \in Nat /\ p \in Nat /\ c \in Nat  BY <2>8, <2>9
  <2> HIDE DEF u, v, p, a, b, c, e
  <2> QED  BY ONLY <2>10, <2>11, <2>12, <2>13
<1>7. \A l \in 0..L : next[l] <= 2^(l + 1)
  <2> SUFFICES ASSUME NEW l \in 0..L  PROVE next[l] <= 2^(l + 1)  OBVIOUS
  <2>1. Down(l)  BY <1>6
  <2>2. F(l) >= 0
    <3>1. L - l \in 0..L /\ L - (L - l) = l  OBVIOUS
    <3> HIDE DEF Up
    <3>2. ~(L - l \in BadUp)  BY <1>3
    <3>3. Up(l)  BY <3>1, <3>2
    <3> QED  BY <3>3 DEF Up
  <2>3. l \in 0..16  BY ONLY l \in 0..L, L \in 1..16
  <2>4. next[l] \in Nat /\ F(l) \in Int  BY <1>1, <2>3
  <2> HIDE DEF F
  <2> QED  BY ONLY <2>1, <2>2, <2>4
<1>8. next[L] = 2^(L + 1)
  <2>4. L \in 0..L /\ L \in 0..16  BY ONLY L \in 1..16
  <2>1. Down(L)  BY <1>6, <2>4
  <2>2. F(L) = 0  OBVIOUS
  <2>3. next[L] \in Nat  BY <2>4
  <2> HIDE DEF F
  <2> QED  BY ONLY <2>1, <2>2, <2>3
<1> DEFINE BadRest == {l \in L..16 : next[l] # 2^(l + 1)}
<1>9. BadRest = {}
  <2> SUFFICES ASSUME BadRest # {}  PROVE FALSE  OBVIOUS
  <2>1. PICK k \in BadRest : \A y \in BadRest : k <= y
    <3>1. BadRest \in SUBSET Nat  BY ONLY L \in 1..16
    <3> HIDE DEF BadRest
    <3> QED  BY <3>1, LeastNat
  <2>2. k \in L..16 /\ next[k] # 2^(k + 1)  OBVIOUS
  <2> DEFINE l == k - 1
  <2>3. k # L  BY <1>8, <2>2
  <2>4. l \in L..16 /\ ~(k <= l) /\ l + 1 = k /\ k \in (L + 1)..16 /\ k \in 0..16  BY SMTT(30), <2>2, <2>3
  <2>5. next[l] = 2^(l + 1)  BY <2>1, <2>4
  <2>6. next[k] = 2 * next[l]  BY <2>4
  <2>7. 2^(k + 1) = 2 * 2^k  BY <2>4, Doubled
  <2> QED  BY <2>2, <2>4, <2>5, <2>6, <2>7
<1>10. \A l \in L..16 : next[l] = 2^(l + 1)  BY <1>9
<1>11. \A l \in 0..16 : next[l] <= 2^(l + 1)
  <2> SUFFICES ASSUME NEW l \in 0..16  PROVE next[l] <= 2^(l + 1)  OBVIOUS
  <2>1. CASE l <= L
    <3>1. l \in 0..L  BY <2>1
    <3> QED  BY <1>7, <3>1
  <2>2. CASE ~(l <= L)
    <3>1. l \in L..16  BY ONLY <2>2, L \in 1..16, l \in 0..16
    <3>2. next[l] \in Nat /\ next[l] = 2^(l + 1)  BY <1>10, <3>1
    <3> QED  BY ONLY <3>2
  <2> QED  BY <2>1, <2>2
<1> QED  BY <1>5, <1>10, <1>11

\* The codes of every length fit into it, and together they leave no bit string
\* without a beginning: the Kraft sum, in units of the longest code, is full.
FitsCodes(lengths) ==
    /\ \A l \in 0..16 : NextCode(lengths)[l] <= 2^(l + 1)
    /\ NextCode(lengths)[16] = 2^17

LEMMA MergedFacts ==
    ASSUME NEW freqs, IsFreqs(freqs), NEW limit \in 1..16,
           2 <= Occurring(freqs), Occurring(freqs) <= 2^limit
    PROVE  LET lengths == MergedLengths(freqs, limit)
           IN  /\ lengths \in [DOMAIN freqs -> 0..limit]
               /\ Coded(lengths) = Active(freqs)
               /\ FitsCodes(lengths)
<1> DEFINE A == Active(freqs)
           D == DOMAIN freqs
           m == Occurring(freqs)
           c == Coins(freqs, limit - 1)
           n == 2 * m - 2
           w == Walked(c, A)[n]
           lengths == MergedLengths(freqs, limit)
           next == NextCode(lengths)
<1>1. m \in Nat /\ 2 <= m /\ A \subseteq D /\ IsFiniteSet(D) /\ limit - 1 \in Nat
  BY ActiveFacts DEF IsFreqs
<1>2. PICK f : After(f, freqs, limit - 1) /\ c = f[limit - 1]  BY <1>1, CoinsFacts
<1>3. IsList(freqs, c) /\ Layered(freqs, c, limit - 1) /\ n <= Len(c) /\ Len(c) \in Nat
  <2>1. IsList(freqs, c) /\ Layered(freqs, c, limit - 1) /\ n <= Len(c)  BY <1>2, EnoughCoins
  <2> QED  BY <2>1 DEF IsList
<1>4. lengths = [s \in D |-> IF freqs[s] = 0 THEN 0 ELSE w[s]]  BY DEF MergedLengths, Take, Occurring
<1>5. n \in 0..Len(c)
  <2> HIDE DEF c, m
  <2> QED  BY <1>1, <1>3
<1> HIDE DEF c, n, m
<1>6. w \in [A -> Nat]
  <2>1. Walked(c, A) \in [0..Len(c) -> [A -> Nat]]  BY <1>3, WalkedFacts
  <2> QED  BY <1>5, <2>1
<1>7. PICK o, N : Layers(freqs, w, limit - 1, n, o, N)  BY <1>3, <1>5 DEF Layered
<1> HIDE DEF w, lengths
<1>8. limit - 1 + 2 = limit + 1 /\ limit - 1 + 1 = limit  OBVIOUS
<1>9. /\ o \in [1..(limit + 1) -> 0..m] /\ N \in [1..(limit + 1) -> Nat]
      /\ N[1] = n /\ o[limit + 1] = 0 /\ N[limit + 1] = 0
      /\ \A j \in 1..limit : o[j + 1] <= o[j] /\ N[j + 1] = 2 * (N[j] - o[j])
      /\ \A s \in A, j \in 1..(limit + 1) : w[s] >= j <=> Rank(freqs, s) + 1 <= o[j]
  BY <1>7, <1>8 DEF Layers, m
<1>10. \A s \in D : freqs[s] \in Nat /\ (s \in A <=> freqs[s] # 0)
  BY DEF IsFreqs, Active
<1>11. \A s \in D : lengths[s] = IF s \in A THEN w[s] ELSE 0  BY <1>4, <1>10
<1>12. DOMAIN lengths = D  BY <1>4
<1>13. \A l \in 1..16 : OfLength(lengths, l) = {s \in A : w[s] = l}
  BY <1>1, <1>11, <1>12 DEF OfLength
<1>14. \A s \in A : Rank(freqs, s) + 1 \in 1..m
  <2> SUFFICES ASSUME NEW s \in A  PROVE Rank(freqs, s) + 1 \in 1..m  OBVIOUS
  <2>1. Rank(freqs, s) \in 0..(m - 1)  BY RankType DEF m
  <2> QED  BY <1>1, <2>1
<1>15. \A s \in A : w[s] \in Nat /\ w[s] <= limit
  <2> SUFFICES ASSUME NEW s \in A  PROVE w[s] \in Nat /\ w[s] <= limit  OBVIOUS
  <2>1. w[s] \in Nat /\ limit + 1 \in 1..(limit + 1)  BY <1>6
  <2>2. ~(w[s] >= limit + 1)  BY <1>9, <1>14, <2>1
  <2> QED  BY <2>1, <2>2
<1>16. next \in [0..16 -> Nat] /\ next[0] = 0
       /\ \A l \in 1..16 : next[l] = 2 * (next[l - 1] + Cardinality(OfLength(lengths, l)))
  BY <1>1, <1>12, NextCodeFacts
<1> HIDE DEF next
<1>17. \A l \in 1..limit : next[l] = 2 * (next[l - 1] + (o[l] - o[l + 1]))
  <2> SUFFICES ASSUME NEW l \in 1..limit  PROVE next[l] = 2 * (next[l - 1] + (o[l] - o[l + 1]))  OBVIOUS
  <2>1. l \in 1..((limit - 1) + 1) /\ l \in 1..16  OBVIOUS
  <2>2. Cardinality({s \in A : w[s] = l}) = o[l] - o[l + 1]
    BY <1>1, <1>6, <1>7, <2>1, LayersCounted
  <2> QED  BY <1>13, <1>16, <2>1, <2>2
<1>18. \A l \in (limit + 1)..16 : next[l] = 2 * next[l - 1]
  <2> SUFFICES ASSUME NEW l \in (limit + 1)..16  PROVE next[l] = 2 * next[l - 1]  OBVIOUS
  <2>1. l \in 1..16 /\ l - 1 \in 0..16  OBVIOUS
  <2>2. {s \in A : w[s] = l} = {}
    <3> SUFFICES ASSUME NEW s \in A, w[s] = l  PROVE FALSE  OBVIOUS
    <3> QED  BY <1>15
  <2>3. Cardinality(OfLength(lengths, l)) = 0  BY <1>13, <2>1, <2>2, FS_EmptySet
  <2>4. next[l - 1] \in Nat  BY <1>16, <2>1
  <2> QED  BY <1>16, <2>1, <2>3, <2>4
<1>19. N[1] = 2 * m - 2  BY <1>9 DEF n
<1>20. /\ o[1] = m
       /\ \A l \in 0..16 : next[l] <= 2^(l + 1)
       /\ \A l \in limit..16 : next[l] = 2^(l + 1)
  <2>1. Thinning(m, limit, o, N, next)
    BY <1>1, <1>9, <1>16, <1>17, <1>18, <1>19 DEF Thinning
  <2> QED  BY <2>1, LayersComplete
<1>21. next[16] = 2^17
  <2>1. 16 \in limit..16 /\ 16 + 1 = 17  OBVIOUS
  <2> QED  BY <1>20, <2>1
<1>22. \A s \in A : w[s] >= 1
  <2> SUFFICES ASSUME NEW s \in A  PROVE w[s] >= 1  OBVIOUS
  <2>1. 1 \in 1..(limit + 1) /\ Rank(freqs, s) + 1 <= o[1]  BY <1>1, <1>14, <1>20
  <2> QED  BY <1>9, <2>1
<1>23. \A s \in D : lengths[s] \in 0..limit /\ (lengths[s] > 0 <=> s \in A)
  <2> SUFFICES ASSUME NEW s \in D  PROVE lengths[s] \in 0..limit /\ (lengths[s] > 0 <=> s \in A)
    OBVIOUS
  <2>1. CASE s \in A
    <3>1. lengths[s] = w[s] /\ w[s] \in Nat /\ w[s] <= limit /\ w[s] >= 1
      BY <1>11, <1>15, <1>22, <2>1
    <3> QED  BY <2>1, <3>1
  <2>2. CASE s \notin A
    <3>1. lengths[s] = 0  BY <1>11, <2>2
    <3> QED  BY <2>2, <3>1
  <2> QED  BY <2>1, <2>2
<1>24. lengths \in [D -> 0..limit]
  <2>1. lengths = [s \in D |-> lengths[s]]  BY <1>4, <1>12
  <2> QED  BY <1>23, <2>1
<1>25. Coded(lengths) = A  BY <1>1, <1>12, <1>23 DEF Coded
<1>26. FitsCodes(lengths)  BY <1>20, <1>21 DEF FitsCodes, next
<1> QED  BY <1>24, <1>25, <1>26 DEF lengths

\* One symbol shares the code with its partner.
LEMMA SingleFacts ==
    ASSUME NEW freqs, IsFreqs(freqs), Occurring(freqs) = 1, {0, 1} \subseteq DOMAIN freqs
    PROVE  LET lengths == SingleLengths(freqs)
           IN  /\ lengths \in [DOMAIN freqs -> 0..1]
               /\ Active(freqs) \subseteq Coded(lengths)
               /\ FitsCodes(lengths)
<1> DEFINE A == Active(freqs)
           D == DOMAIN freqs
           only == CHOOSE s \in A : TRUE
           P == Phantom(only)
           lengths == SingleLengths(freqs)
           next == NextCode(lengths)
           o == [j \in 1..2 |-> IF j = 1 THEN 2 ELSE 0]
<1>1. IsFiniteSet(A) /\ A \subseteq D /\ IsFiniteSet(D)  BY ActiveFacts DEF IsFreqs
<1>2. PICK x : A = {x}
  <2>1. Cardinality(A) = 1  BY DEF Occurring
  <2> QED  BY <1>1, <2>1, FS_Singleton
<1>3. only = x /\ only \in D /\ P \in D /\ P # only  BY <1>1, <1>2 DEF Phantom
<1>4. lengths = [s \in D |-> IF s \in {only, P} THEN 1 ELSE 0]  BY DEF SingleLengths
<1> HIDE DEF only, P, lengths
<1>5. lengths \in [D -> 0..1] /\ DOMAIN lengths = D /\ \A s \in D : lengths[s] = IF s \in {only, P} THEN 1 ELSE 0
  BY <1>4
<1>6. OfLength(lengths, 1) = {only, P} /\ \A l \in 2..16 : OfLength(lengths, l) = {}
  BY <1>3, <1>5 DEF OfLength
<1>7. Cardinality(OfLength(lengths, 1)) = 2 /\ \A l \in 2..16 : Cardinality(OfLength(lengths, l)) = 0
  <2>1. IsFiniteSet({only}) /\ Cardinality({only}) = 1  BY FS_Singleton
  <2>2. Cardinality({only} \cup {P}) = 1 + 1  BY <1>3, <2>1, FS_AddElement
  <2>3. {only} \cup {P} = {only, P}  OBVIOUS
  <2> QED  BY <1>6, <2>2, <2>3, FS_EmptySet
<1>8. next \in [0..16 -> Nat] /\ next[0] = 0
      /\ \A l \in 1..16 : next[l] = 2 * (next[l - 1] + Cardinality(OfLength(lengths, l)))
  BY <1>1, <1>5, NextCodeFacts
<1>9. Active(freqs) \subseteq Coded(lengths)  BY <1>2, <1>3, <1>5 DEF Coded
<1> HIDE DEF next
<1>10. o[1] = 2 /\ o[2] = 0 /\ o \in [1..2 -> 0..2] /\ o \in [1..2 -> Nat]  OBVIOUS
<1> HIDE DEF o
<1>11. 1 + 1 = 2 /\ 2 * 2 - 2 = 2 /\ 2 * (2 - 2) = 0  OBVIOUS
<1>12. \A j \in 1..1 : o[j + 1] <= o[j] /\ o[j + 1] = 2 * (o[j] - o[j])
  <2> SUFFICES ASSUME NEW j \in 1..1  PROVE o[j + 1] <= o[j] /\ o[j + 1] = 2 * (o[j] - o[j])  OBVIOUS
  <2>1. j = 1 /\ j + 1 = 2  OBVIOUS
  <2> QED  BY <1>10, <2>1
<1>13. \A l \in 1..1 : next[l] = 2 * (next[l - 1] + (o[l] - o[l + 1]))
  <2> SUFFICES ASSUME NEW l \in 1..1  PROVE next[l] = 2 * (next[l - 1] + (o[l] - o[l + 1]))  OBVIOUS
  <2>1. l = 1 /\ l + 1 = 2 /\ l \in 1..16  OBVIOUS
  <2> QED  BY <1>7, <1>8, <1>10, <2>1
<1>14. \A l \in 2..16 : next[l] = 2 * next[l - 1]
  <2> SUFFICES ASSUME NEW l \in 2..16  PROVE next[l] = 2 * next[l - 1]  OBVIOUS
  <2>1. l \in 1..16 /\ next[l - 1] \in Nat  BY <1>8
  <2> QED  BY <1>7, <1>8, <2>1
<1>15. /\ \A l \in 0..16 : next[l] <= 2^(l + 1)
       /\ \A l \in 1..16 : next[l] = 2^(l + 1)
  <2> DEFINE m == 2
             L == 1
  <2>1. /\ m \in Nat /\ m >= 2 /\ L \in 1..16 /\ o \in [1..(L + 1) -> 0..m] /\ o \in [1..(L + 1) -> Nat]
        /\ o[1] = 2 * m - 2 /\ o[L + 1] = 0
        /\ \A j \in 1..L : o[j + 1] <= o[j] /\ o[j + 1] = 2 * (o[j] - o[j])
        /\ \A l \in 1..L : next[l] = 2 * (next[l - 1] + (o[l] - o[l + 1]))
        /\ \A l \in (L + 1)..16 : next[l] = 2 * next[l - 1]
    BY <1>10, <1>11, <1>12, <1>13, <1>14
  <2> HIDE DEF m, L
  <2>3. Thinning(m, L, o, o, next)  BY <1>8, <2>1 DEF Thinning
  <2>2. /\ \A l \in 0..16 : next[l] <= 2^(l + 1)
        /\ \A l \in L..16 : next[l] = 2^(l + 1)
    BY <2>3, LayersComplete
  <2> QED  BY <2>2 DEF L
<1>16. next[16] = 2^17
  <2>1. 16 \in 1..16 /\ 16 + 1 = 17  OBVIOUS
  <2> QED  BY <1>15, <2>1
<1>17. FitsCodes(lengths)  BY <1>15, <1>16 DEF FitsCodes, next
<1> QED  BY <1>5, <1>9, <1>17 DEF lengths

\* build_lengths: for all frequencies of an alphabet with room under the limit,
\* every symbol that occurs gets a length within the limit, and the codes of
\* these lengths are complete (the debug_assert of the function states no more
\* than that they fit).
THEOREM BuildLengthsComplete ==
    ASSUME NEW freqs, IsFreqs(freqs), {0, 1} \subseteq DOMAIN freqs,
           NEW limit \in 1..16, Occurring(freqs) <= 2^limit
    PROVE  LET lengths == BuildLengths(freqs, limit)
           IN  /\ lengths \in [DOMAIN freqs -> 0..limit]
               /\ \A s \in Active(freqs) : lengths[s] \in 1..limit
               /\ Active(freqs) # {} => FitsCodes(lengths)
<1> DEFINE m == Occurring(freqs)
           lengths == BuildLengths(freqs, limit)
           D == DOMAIN freqs
           A == Active(freqs)
<1>1. m \in Nat /\ IsFiniteSet(A) /\ A \subseteq D /\ (m = 0 <=> A = {})
  <2>1. m \in Nat /\ IsFiniteSet(A) /\ A \subseteq D  BY ActiveFacts
  <2> QED  BY <2>1, FS_EmptySet DEF Occurring
<1>2. CASE m = 0
  <2>1. lengths = [s \in D |-> 0]  BY <1>2 DEF BuildLengths, Occurring
  <2>2. A = {}  BY <1>1, <1>2
  <2> HIDE DEF lengths
  <2>3. lengths \in [D -> 0..limit]  BY <2>1
  <2> QED  BY <2>2, <2>3 DEF lengths
<1>3. CASE m = 1
  <2>1. lengths = SingleLengths(freqs)  BY <1>3 DEF BuildLengths, Occurring
  <2>2. /\ lengths \in [D -> 0..1] /\ A \subseteq Coded(lengths) /\ FitsCodes(lengths)
    BY <1>3, <2>1, SingleFacts
  <2> HIDE DEF lengths
  <2>3. \A s \in D : lengths[s] \in 0..1 /\ lengths[s] \in 0..limit  BY <2>2
  <2>4. lengths \in [D -> 0..limit]  BY <2>2, <2>3
  <2>5. \A s \in A : lengths[s] \in 1..limit
    <3> SUFFICES ASSUME NEW s \in A  PROVE lengths[s] \in 1..limit  OBVIOUS
    <3>1. lengths[s] > 0 /\ lengths[s] \in 0..limit  BY <1>1, <2>2, <2>3 DEF Coded
    <3> QED  BY <3>1
  <2> QED  BY <2>2, <2>4, <2>5 DEF lengths
<1>4. CASE m # 0 /\ m # 1
  <2>1. lengths = MergedLengths(freqs, limit)  BY <1>4 DEF BuildLengths, Occurring
  <2>2. 2 <= m  BY <1>1, <1>4
  <2>3. /\ lengths \in [D -> 0..limit] /\ Coded(lengths) = A /\ FitsCodes(lengths)
    BY <2>1, <2>2, MergedFacts
  <2> HIDE DEF lengths
  <2>4. \A s \in A : lengths[s] \in 1..limit
    <3> SUFFICES ASSUME NEW s \in A  PROVE lengths[s] \in 1..limit  OBVIOUS
    <3>1. s \in Coded(lengths) /\ s \in D  BY <1>1, <2>3
    <3>2. lengths[s] > 0 /\ lengths[s] \in 0..limit  BY <2>3, <3>1 DEF Coded
    <3> QED  BY <3>2
  <2> QED  BY <2>3, <2>4 DEF lengths
<1> QED  BY <1>2, <1>3, <1>4

-----------------------------------------------------------------------------
(* The canonical codes *)

\* The lengths of a finite alphabet of numbers, none above 16; those of a tree
\* have codes that fit.
IsLengths(lengths) ==
    /\ IsFiniteSet(DOMAIN lengths) /\ DOMAIN lengths \subseteq Nat
    /\ lengths \in [DOMAIN lengths -> 0..16]
IsTree(lengths) == IsLengths(lengths) /\ FitsCodes(lengths)

\* The place of a symbol among those of its length.
Place(lengths, s) == Cardinality({t \in OfLength(lengths, lengths[s]) : t < s})

LEMMA PlaceFacts ==
    ASSUME NEW lengths, IsLengths(lengths), NEW s \in Coded(lengths)
    PROVE  LET all == Cardinality(OfLength(lengths, lengths[s]))
           IN  /\ lengths[s] \in 1..16 /\ all \in Nat
               /\ Place(lengths, s) \in Nat /\ Place(lengths, s) < all
<1> DEFINE l == lengths[s]
           C == OfLength(lengths, l)
           B == {t \in C : t < s}
<1>1. s \in DOMAIN lengths /\ l \in 1..16  BY DEF Coded, IsLengths
<1>2. IsFiniteSet(C) /\ Cardinality(C) \in Nat  BY OfLengthFinite DEF IsLengths
<1>3. s \in Nat /\ s \in C  BY <1>1 DEF IsLengths, OfLength
<1>4. B \in SUBSET C /\ s \notin B  BY <1>3
<1> HIDE DEF B, C
<1>5. IsFiniteSet(B) /\ Cardinality(B) \in Nat /\ Cardinality(B) <= Cardinality(C)
      /\ Cardinality(B) # Cardinality(C)
  BY <1>2, <1>3, <1>4, FS_Subset, FS_CardinalityType
<1>6. Cardinality(B) < Cardinality(C)  BY <1>2, <1>5
<1> QED  BY <1>1, <1>2, <1>5, <1>6 DEF Place, B, C

LEMMA PlacesDiffer ==
    ASSUME NEW lengths, IsTree(lengths), NEW s \in Coded(lengths), NEW t \in Coded(lengths),
           lengths[s] = lengths[t], s < t
    PROVE  Place(lengths, s) < Place(lengths, t)
<1> DEFINE C == OfLength(lengths, lengths[s])
           B == {u \in C : u < s}
           E == {u \in C : u < t}
<1>1. s \in Nat /\ t \in Nat /\ s \in C /\ C \subseteq Nat
  BY DEF IsTree, IsLengths, Coded, OfLength
<1>2. IsFiniteSet(C)  BY OfLengthFinite DEF IsTree, IsLengths
<1>3. E \in SUBSET C  OBVIOUS
<1>4. IsFiniteSet(E) /\ Cardinality(E) \in Nat
  <2> HIDE DEF E, C
  <2> QED  BY <1>2, <1>3, FS_Subset, FS_CardinalityType
<1>5. B \in SUBSET E /\ s \in E /\ s \notin B
  <2>1. \A u \in C : u < s => u < t  BY <1>1
  <2> QED  BY <1>1, <2>1
<1>6. Place(lengths, s) = Cardinality(B) /\ Place(lengths, t) = Cardinality(E)
  BY DEF Place
<1> HIDE DEF B, C, E
<1>7. Cardinality(B) \in Nat /\ Cardinality(B) <= Cardinality(E) /\ Cardinality(B) # Cardinality(E)
  BY <1>4, <1>5, FS_Subset, FS_CardinalityType
<1> QED  BY <1>4, <1>6, <1>7

LEMMA CodeFacts ==
    ASSUME NEW lengths, IsTree(lengths), NEW s \in Coded(lengths)
    PROVE  LET l == lengths[s]
               next == NextCode(lengths)
           IN  /\ l \in 1..16 /\ next[l - 1] \in Nat /\ next[l] \in Nat
               /\ CanonicalCode(lengths, s) = next[l - 1] + Place(lengths, s)
               /\ 2 * CanonicalCode(lengths, s) + 2 <= next[l]
               /\ CanonicalCode(lengths, s) \in 0..(2^l - 1)
<1> DEFINE l == lengths[s]
           next == NextCode(lengths)
           code == CanonicalCode(lengths, s)
           all == Cardinality(OfLength(lengths, l))
           p == Place(lengths, s)
<1>1. l \in 1..16 /\ all \in Nat /\ p \in Nat /\ p < all  BY PlaceFacts DEF IsTree
<1>2. next \in [0..16 -> Nat] /\ \A k \in 1..16 : next[k] = 2 * (next[k - 1] + Cardinality(OfLength(lengths, k)))
  BY NextCodeFacts DEF IsTree, IsLengths
<1>3. code = next[l - 1] + p  BY DEF CanonicalCode, Place
<1>4. \A k \in 0..16 : next[k] <= 2^(k + 1)  BY DEF IsTree, FitsCodes
<1> HIDE DEF next, code, p
<1>5. next[l] = 2 * (next[l - 1] + all)  BY <1>1, <1>2
<1> HIDE DEF all, l
<1>6. l \in 0..16 /\ l - 1 \in 0..16  BY <1>1
<1>7. next[l - 1] \in Nat /\ next[l] \in Nat /\ next[l] <= 2^(l + 1)  BY <1>2, <1>4, <1>6
<1>8. 2^l \in Nat /\ 2^(l + 1) = 2 * 2^l  BY <1>6, Doubled
<1> DEFINE a == next[l - 1]
           b == next[l]
           q == 2^l
           r == 2^(l + 1)
<1>9. a \in Nat /\ b \in Nat /\ b <= r /\ q \in Nat /\ r = 2 * q /\ b = 2 * (a + all) /\ code = a + p
  BY <1>3, <1>5, <1>7, <1>8
<1> HIDE DEF a, b, q, r
<1>10. code \in Nat /\ 2 * code + 2 <= b /\ code < q  BY ONLY <1>1, <1>9
<1>11. code \in 0..(q - 1)  BY ONLY <1>9, <1>10
<1> QED  BY <1>1, <1>3, <1>7, <1>10, <1>11 DEF l, next, code, p, b, q

LEMMA CodesDiffer ==
    ASSUME NEW lengths, IsTree(lengths), NEW s \in Coded(lengths), NEW t \in Coded(lengths),
           lengths[s] = lengths[t], s # t
    PROVE  CanonicalCode(lengths, s) # CanonicalCode(lengths, t)
<1>1. s \in Nat /\ t \in Nat  BY DEF IsTree, IsLengths, Coded
<1>2. Place(lengths, s) # Place(lengths, t)
  <2>1. Place(lengths, s) \in Nat /\ Place(lengths, t) \in Nat  BY PlaceFacts DEF IsTree
  <2>2. CASE s < t  BY <2>1, <2>2, PlacesDiffer
  <2>3. CASE t < s  BY <2>1, <2>3, PlacesDiffer
  <2> QED  BY <1>1, <2>2, <2>3
<1> DEFINE a == NextCode(lengths)[lengths[s] - 1]
           p == Place(lengths, s)
           q == Place(lengths, t)
<1>3. CanonicalCode(lengths, s) = a + p /\ a \in Nat  BY CodeFacts
<1>4. CanonicalCode(lengths, t) = a + q  BY CodeFacts
<1>5. p \in Nat /\ q \in Nat /\ p # q  BY <1>2, PlaceFacts DEF IsTree
<1> HIDE DEF a, p, q
<1> QED  BY <1>3, <1>4, <1>5

\* From one length to a longer one the first code only gains zeros and more.
LEMMA NextCodeGrows ==
    ASSUME NEW lengths, IsTree(lengths), NEW k \in 0..16, NEW d \in 0..(16 - k)
    PROVE  NextCode(lengths)[k + d] >= 2^d * NextCode(lengths)[k]
<1> DEFINE next == NextCode(lengths)
           Bad == {e \in 0..(16 - k) : ~(next[k + e] >= 2^e * next[k])}
<1>1. next \in [0..16 -> Nat] /\ \A j \in 1..16 :
          next[j] = 2 * (next[j - 1] + Cardinality(OfLength(lengths, j)))
  BY NextCodeFacts DEF IsTree, IsLengths
<1>2. \A j \in 1..16 : Cardinality(OfLength(lengths, j)) \in Nat
  BY OfLengthFinite DEF IsTree, IsLengths
<1> HIDE DEF next
<1>3. Bad = {}
  <2> SUFFICES ASSUME Bad # {}  PROVE FALSE  OBVIOUS
  <2>1. PICK e \in Bad : \A x \in Bad : e <= x
    <3>1. Bad \in SUBSET Nat  OBVIOUS
    <3> HIDE DEF Bad
    <3> QED  BY <3>1, LeastNat
  <2>2. e \in 0..(16 - k) /\ ~(next[k + e] >= 2^e * next[k])  OBVIOUS
  <2>3. next[k] \in Nat  BY <1>1
  <2>4. CASE e = 0
    <3>1. 2^0 = 1 /\ k + 0 = k  BY SMT
    <3> QED  BY <2>2, <2>3, <2>4, <3>1
  <2>5. CASE e # 0
    <3> DEFINE c == e - 1
    <3>1. c \in 0..(16 - k) /\ ~(e <= c) /\ c \in 0..16 /\ k + e \in 1..16 /\ (k + e) - 1 = k + c
          /\ c + 1 = e /\ k + c \in 0..16
      BY <2>2, <2>5
    <3>2. next[k + c] >= 2^c * next[k]  BY <2>1, <3>1
    <3>3. 2^c \in Nat /\ 2^e = 2 * 2^c  BY <3>1, Doubled
    <3> DEFINE x == next[k + c]
               y == next[k + e]
               z == next[k]
               p == 2^c
               w == Cardinality(OfLength(lengths, k + e))
    <3>4. y = 2 * (x + w) /\ w \in Nat /\ x \in Nat /\ y \in Nat /\ z \in Nat
      <4>1. next[k + e] = 2 * (next[(k + e) - 1] + Cardinality(OfLength(lengths, k + e)))
        BY <1>1, <3>1
      <4>2. w \in Nat  BY <1>2, <3>1
      <4>3. k + e \in 0..16  BY <3>1
      <4> QED  BY <1>1, <2>3, <3>1, <4>1, <4>2, <4>3
    <3>5. x >= p * z /\ p \in Nat /\ ~(y >= (2 * p) * z)  BY <2>2, <3>2, <3>3
    <3> HIDE DEF x, y, z, p, w
    <3>6. (2 * p) * z = 2 * (p * z) /\ p * z \in Nat  BY ONLY <3>4, <3>5, SMT
    <3> QED  BY ONLY <3>4, <3>5, <3>6, SMT
  <2> QED  BY <2>4, <2>5
<1>4. next[k + d] >= 2^d * next[k]  BY <1>3
<1> QED  BY <1>4 DEF next

\* canonical_codes: no code is the beginning of another.  Cut to the length of
\* a shorter code, a longer one lies behind it.
THEOREM NoCodeBeginsAnother ==
    ASSUME NEW lengths, IsTree(lengths), NEW s \in Coded(lengths), NEW t \in Coded(lengths),
           lengths[s] < lengths[t]
    PROVE  CanonicalCode(lengths, t) \div 2^(lengths[t] - lengths[s]) > CanonicalCode(lengths, s)
<1> DEFINE next == NextCode(lengths)
           k == lengths[s]
           m == lengths[t]
           d == (m - 1) - k
           a == CanonicalCode(lengths, s)
           b == CanonicalCode(lengths, t)
           p == 2^d
           x == next[k]
           y == next[m - 1]
<1>1. k \in 1..16 /\ x \in Nat /\ a \in Nat /\ 2 * a + 2 <= x  BY CodeFacts
<1>2. m \in 1..16 /\ y \in Nat /\ b \in Nat /\ b >= y
  <2>1. m \in 1..16 /\ y \in Nat /\ b = y + Place(lengths, t)  BY CodeFacts
  <2>2. Place(lengths, t) \in Nat  BY PlaceFacts DEF IsTree
  <2> HIDE DEF y, b, m
  <2> QED  BY <2>1, <2>2
<1>3. k < m  OBVIOUS
<1> HIDE DEF x, y, a, b, k, m
<1>4. d \in 0..(16 - k) /\ k + d = m - 1 /\ d \in 0..16 /\ d + 1 = m - k /\ k \in 0..16
  BY <1>1, <1>2, <1>3
<1>5. p \in Nat \ {0} /\ 2^(m - k) = 2 * p  BY <1>4, Doubled
<1>6. y >= p * x  BY <1>4, NextCodeGrows DEF x, y
<1> HIDE DEF p, d
<1>7. p * x >= p * (2 * a + 2)  BY ONLY <1>1, <1>5, SMT
<1>8. b >= (2 * p) * (a + 1)  BY ONLY <1>1, <1>2, <1>5, <1>6, <1>7, SMT
<1>9. b \div (2 * p) >= a + 1  BY ONLY <1>1, <1>2, <1>5, <1>8, SMT
<1>10. b \div 2^(m - k) >= a + 1  BY <1>5, <1>9
<1>11. b \div 2^(m - k) > a
  <2>1. b \div (2 * p) \in Int  BY ONLY <1>2, <1>5, SMT
  <2> QED  BY ONLY <1>1, <1>9, <1>5, <2>1
<1> QED  BY <1>11 DEF a, b, k, m

-----------------------------------------------------------------------------
(* Codes in the order of the stream *)

\* The bits that go into the reversed code, lowest first.
Bit(value, i) == (value \div 2^(i - 1)) % 2

LEMMA BitFacts ==
    ASSUME NEW v \in Nat, NEW i \in 1..16
    PROVE  /\ Bit(v, i) \in {0, 1} /\ v \div 2^i \in Nat
           /\ v \div 2^(i - 1) = 2 * (v \div 2^i) + Bit(v, i)
<1>1. \/ i = 1 \/ i = 2 \/ i = 3 \/ i = 4 \/ i = 5 \/ i = 6 \/ i = 7 \/ i = 8
      \/ i = 9 \/ i = 10 \/ i = 11 \/ i = 12 \/ i = 13 \/ i = 14 \/ i = 15 \/ i = 16
  BY SMT
<1> USE DEF Bit
<1>2. CASE i = 1  BY <1>2, SMT
<1>3. CASE i = 2  BY <1>3, SMT
<1>4. CASE i = 3  BY <1>4, SMT
<1>5. CASE i = 4  BY <1>5, SMT
<1>6. CASE i = 5  BY <1>6, SMT
<1>7. CASE i = 6  BY <1>7, SMT
<1>8. CASE i = 7  BY <1>8, SMT
<1>9. CASE i = 8  BY <1>9, SMT
<1>10. CASE i = 9  BY <1>10, SMT
<1>11. CASE i = 10  BY <1>11, SMT
<1>12. CASE i = 11  BY <1>12, SMT
<1>13. CASE i = 12  BY <1>13, SMT
<1>14. CASE i = 13  BY <1>14, SMT
<1>15. CASE i = 14  BY <1>15, SMT
<1>16. CASE i = 15  BY <1>16, SMT
<1>17. CASE i = 16  BY <1>17, SMT
<1> QED  BY <1>1, <1>2, <1>3, <1>4, <1>5, <1>6, <1>7, <1>8, <1>9, <1>10, <1>11, <1>12, <1>13,
            <1>14, <1>15, <1>16, <1>17

\* reverse_bits after i rounds.
Reversing(out, value, n) ==
    /\ out \in [0..n -> Nat] /\ out[0] = 0
    /\ \A i \in 1..n : out[i] = 2 * out[i - 1] + Bit(value, i)

LEMMA ReverseFacts ==
    ASSUME NEW v \in Nat, NEW n \in 0..16
    PROVE  \E out : Reversing(out, v, n) /\ ReverseBits(v, n) = out[n]
<1> DEFINE step == [p \in (1..n) \X Nat |-> 2 * p[2] + Bit(v, p[1])]
           Is(f) == f = [i \in 0..n |-> IF i = 0 THEN 0 ELSE 2 * f[i - 1] + Bit(v, i)]
<1>1. \A i \in 1..n : Bit(v, i) \in Nat
  <2> SUFFICES ASSUME NEW i \in 1..n  PROVE Bit(v, i) \in Nat  OBVIOUS
  <2>1. i \in 1..16  OBVIOUS
  <2>2. Bit(v, i) \in {0, 1}  BY <2>1, BitFacts
  <2> QED  BY <2>2
<1>2. ReverseBits(v, n) = (CHOOSE f : Is(f))[n]  BY DEF ReverseBits, Bit
<1>3. step \in [(1..n) \X Nat -> Nat]
  <2> SUFFICES ASSUME NEW p \in (1..n) \X Nat  PROVE 2 * p[2] + Bit(v, p[1]) \in Nat  OBVIOUS
  <2>1. p[1] \in 1..n /\ p[2] \in Nat  OBVIOUS
  <2>2. Bit(v, p[1]) \in Nat  BY <1>1, <2>1
  <2> QED  BY <2>1, <2>2
<1>4. \A i \in 1..n, x \in Nat : step[<<i, x>>] = 2 * x + Bit(v, i)  OBVIOUS
<1>5. n \in Nat  OBVIOUS
<1> HIDE DEF step
<1>6. PICK g : Recurs(g, 0, step, Nat, n)  BY <1>3, <1>5, Recursion
<1>7. g \in [0..n -> Nat] /\ g[0] = 0 /\ \A i \in 1..n : g[i] = step[<<i, g[i - 1]>>]
  BY <1>6 DEF Recurs
<1>8. \A i \in 0..n : i # 0 => i \in 1..n /\ i - 1 \in 0..n  OBVIOUS
<1>9. \A i \in 0..n : g[i] = IF i = 0 THEN 0 ELSE 2 * g[i - 1] + Bit(v, i)  BY <1>4, <1>7, <1>8
<1>10. g = [i \in 0..n |-> g[i]]  BY <1>7
<1>11. Is(g)  BY <1>9, <1>10
<1> DEFINE f == CHOOSE h : Is(h)
<1>12. Is(f)  BY <1>11
<1>13. ReverseBits(v, n) = f[n]  BY <1>2
<1> HIDE DEF f
<1>14. f[0] = 0 /\ \A i \in 1..n : f[i] = 2 * f[i - 1] + Bit(v, i)
  <2>1. 0 \in 0..n /\ \A i \in 1..n : i \in 0..n /\ i # 0  OBVIOUS
  <2> QED  BY <1>12, <2>1
<1> DEFINE Bad == {i \in 0..n : ~(f[i] \in Nat)}
<1>15. Bad = {}
  <2> SUFFICES ASSUME Bad # {}  PROVE FALSE  OBVIOUS
  <2>1. PICK k \in Bad : \A j \in Bad : k <= j
    <3>1. Bad \in SUBSET Nat  OBVIOUS
    <3> HIDE DEF Bad
    <3> QED  BY <3>1, LeastNat
  <2>2. k \in 0..n /\ ~(f[k] \in Nat)  OBVIOUS
  <2>3. k # 0  BY <1>14, <2>2
  <2>4. k \in 1..n /\ k - 1 \in 0..n /\ ~(k <= k - 1)  BY <2>2, <2>3
  <2>5. f[k - 1] \in Nat  BY <2>1, <2>4
  <2>6. f[k] = 2 * f[k - 1] + Bit(v, k) /\ Bit(v, k) \in Nat  BY <1>1, <1>14, <2>4
  <2> QED  BY <2>2, <2>5, <2>6
<1>16. f \in [0..n -> Nat]
  <2>1. \A i \in 0..n : f[i] \in Nat  BY <1>15
  <2>2. DOMAIN f = 0..n /\ f = [i \in DOMAIN f |-> f[i]]  BY <1>12
  <2> QED  BY <2>1, <2>2
<1>17. Reversing(f, v, n)  BY <1>14, <1>16 DEF Reversing
<1> QED  BY <1>13, <1>17

\* Reversing loses nothing: equal results have equal bits, from the last
\* round back to the first, and so come from equal values.
LEMMA ReverseInjective ==
    ASSUME NEW n \in 0..16, NEW v \in 0..(2^n - 1), NEW w \in 0..(2^n - 1),
           ReverseBits(v, n) = ReverseBits(w, n)
    PROVE  v = w
<1>1. 2^n \in Nat /\ 2^n # 0  BY Doubled
<1>2. v \in Nat /\ w \in Nat /\ v < 2^n /\ w < 2^n  BY <1>1
<1>3. PICK f : Reversing(f, v, n) /\ ReverseBits(v, n) = f[n]  BY <1>2, ReverseFacts
<1>4. PICK g : Reversing(g, w, n) /\ ReverseBits(w, n) = g[n]  BY <1>2, ReverseFacts
<1> DEFINE Off == {i \in 0..n : ~(f[n - i] = g[n - i])}
<1>5. \A i \in 1..n : /\ f[i - 1] \in Nat /\ g[i - 1] \in Nat
                      /\ f[i] = 2 * f[i - 1] + Bit(v, i) /\ Bit(v, i) \in {0, 1}
                      /\ g[i] = 2 * g[i - 1] + Bit(w, i) /\ Bit(w, i) \in {0, 1}
  <2> SUFFICES ASSUME NEW i \in 1..n
               PROVE  /\ f[i - 1] \in Nat /\ g[i - 1] \in Nat
                      /\ f[i] = 2 * f[i - 1] + Bit(v, i) /\ Bit(v, i) \in {0, 1}
                      /\ g[i] = 2 * g[i - 1] + Bit(w, i) /\ Bit(w, i) \in {0, 1}
    OBVIOUS
  <2>1. i \in 1..16 /\ i - 1 \in 0..n  OBVIOUS
  <2>2. Bit(v, i) \in {0, 1} /\ Bit(w, i) \in {0, 1}  BY <1>2, <2>1, BitFacts
  <2> QED  BY <1>3, <1>4, <2>1, <2>2 DEF Reversing
<1>6. \A i \in 1..n : f[i] = g[i] => f[i - 1] = g[i - 1] /\ Bit(v, i) = Bit(w, i)
  <2> SUFFICES ASSUME NEW i \in 1..n, f[i] = g[i]
               PROVE  f[i - 1] = g[i - 1] /\ Bit(v, i) = Bit(w, i)
    OBVIOUS
  <2> DEFINE a == f[i - 1]
             b == g[i - 1]
             x == Bit(v, i)
             y == Bit(w, i)
  <2>1. a \in Nat /\ b \in Nat /\ x \in {0, 1} /\ y \in {0, 1} /\ 2 * a + x = 2 * b + y  BY <1>5
  <2> HIDE DEF a, b, x, y
  <2>2. a = b /\ x = y  BY <2>1
  <2> QED  BY <2>2 DEF a, b, x, y
<1>7. Off = {}
  <2> SUFFICES ASSUME Off # {}  PROVE FALSE  OBVIOUS
  <2>1. PICK k \in Off : \A j \in Off : k <= j
    <3>1. Off \in SUBSET Nat  OBVIOUS
    <3> HIDE DEF Off
    <3> QED  BY <3>1, LeastNat
  <2>2. k \in 0..n /\ ~(f[n - k] = g[n - k])  OBVIOUS
  <2>3. k # 0
    <3>1. n - 0 = n  OBVIOUS
    <3> QED  BY <1>3, <1>4, <2>2, <3>1
  <2>4. k - 1 \in 0..n /\ ~(k <= k - 1) /\ n - (k - 1) \in 1..n /\ (n - (k - 1)) - 1 = n - k
    BY <2>2, <2>3
  <2>5. f[n - (k - 1)] = g[n - (k - 1)]  BY <2>1, <2>4
  <2>6. f[(n - (k - 1)) - 1] = g[(n - (k - 1)) - 1]  BY <1>6, <2>4, <2>5
  <2> QED  BY <2>2, <2>4, <2>6
<1>8. \A i \in 1..n : Bit(v, i) = Bit(w, i)
  <2> SUFFICES ASSUME NEW i \in 1..n  PROVE Bit(v, i) = Bit(w, i)  OBVIOUS
  <2>1. n - i \in 0..n /\ n - (n - i) = i  OBVIOUS
  <2>2. f[n - (n - i)] = g[n - (n - i)]  BY <1>7, <2>1
  <2> QED  BY <1>6, <2>1, <2>2
<1> DEFINE Apart == {i \in 0..n : ~(v \div 2^(n - i) = w \div 2^(n - i))}
<1>9. Apart = {}
  <2> SUFFICES ASSUME Apart # {}  PROVE FALSE  OBVIOUS
  <2>1. PICK k \in Apart : \A j \in Apart : k <= j
    <3>1. Apart \in SUBSET Nat  OBVIOUS
    <3> HIDE DEF Apart
    <3> QED  BY <3>1, LeastNat
  <2>2. k \in 0..n /\ ~(v \div 2^(n - k) = w \div 2^(n - k))  OBVIOUS
  <2>3. k # 0
    <3>1. n - 0 = n  OBVIOUS
    <3> DEFINE q == 2^n
    <3>2. q \in Nat \ {0} /\ v < q /\ w < q  BY <1>1, <1>2
    <3> HIDE DEF q
    <3>3. v \div q = 0 /\ w \div q = 0  BY ONLY <1>2, <3>2, SMT
    <3> QED  BY <2>2, <3>1, <3>3 DEF q
  <2> DEFINE i == n - (k - 1)
  <2>4. k - 1 \in 0..n /\ ~(k <= k - 1) /\ i \in 1..n /\ i \in 1..16 /\ i - 1 = n - k
    BY <2>2, <2>3
  <2>5. v \div 2^i = w \div 2^i  BY <2>1, <2>4
  <2> HIDE DEF i
  <2>6. v \div 2^(i - 1) = w \div 2^(i - 1)
    <3>1. v \div 2^(i - 1) = 2 * (v \div 2^i) + Bit(v, i)  BY <1>2, <2>4, BitFacts
    <3>2. w \div 2^(i - 1) = 2 * (w \div 2^i) + Bit(w, i)  BY <1>2, <2>4, BitFacts
    <3> QED  BY <1>8, <2>4, <2>5, <3>1, <3>2
  <2> QED  BY <2>2, <2>4, <2>6
<1>10. v \div 2^(n - n) = w \div 2^(n - n)
  <2>1. n \in 0..n  OBVIOUS
  <2> QED  BY <1>9, <2>1
<1>11. n - n = 0 /\ 2^0 = 1  BY SMT
<1>12. v \div 1 = v /\ w \div 1 = w  BY <1>2, SMT
<1> QED  BY <1>10, <1>11, <1>12

\* canonical_codes with reverse_bits: what the stream carries for a symbol, no
\* other symbol of its length is written with.
THEOREM WrittenCodesDiffer ==
    ASSUME NEW lengths, IsTree(lengths), NEW s \in Coded(lengths), NEW t \in Coded(lengths),
           lengths[s] = lengths[t], WrittenCode(lengths, s) = WrittenCode(lengths, t)
    PROVE  s = t
<1> DEFINE n == lengths[s]
           v == CanonicalCode(lengths, s)
           w == CanonicalCode(lengths, t)
<1>1. n \in 1..16 /\ v \in 0..(2^n - 1)  BY CodeFacts
<1>2. w \in 0..(2^n - 1)  BY CodeFacts
<1>3. ReverseBits(v, n) = ReverseBits(w, n)  BY DEF WrittenCode
<1> HIDE DEF n, v, w
<1>4. n \in 0..16  BY <1>1
<1>5. v = w  BY <1>1, <1>2, <1>3, <1>4, ReverseInjective
<1> QED  BY <1>5, CodesDiffer DEF v, w
=============================================================================
