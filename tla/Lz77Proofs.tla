----------------------------- MODULE Lz77Proofs -----------------------------
(***************************************************************************)
(* Proofs about Lz77, for every input, hash, ring and limits: the chains   *)
(* are exact as far back as a walk may follow them, so a walk that is not  *)
(* cut off finds the longest match, and whatever is emitted stands for the *)
(* input.                                                                  *)
(***************************************************************************)
EXTENDS Lz77, WellFoundedInduction, TLAPS

-----------------------------------------------------------------------------
(* Remainders *)

\* Quotient and remainder.
LEMMA Divided ==
    ASSUME NEW a \in Nat, NEW w \in Nat \ {0}
    PROVE  /\ a = (w * (a \div w)) + (a % w)
           /\ a % w \in 0..(w - 1) /\ a \div w \in Nat
  OBVIOUS

LEMMA NextMultiple ==
    ASSUME NEW w \in Nat \ {0}, NEW x \in Int, NEW y \in Int, x < y
    PROVE  (w * x) + w <= w * y
  OBVIOUS

LEMMA Remainder ==
    ASSUME NEW w \in Nat \ {0}, NEW q \in Int, NEW r \in 0..(w - 1)
    PROVE  ((w * q) + r) % w = r
  OBVIOUS

\* Positions less than a ring apart have different slots.
LEMMA OtherSlot ==
    ASSUME NEW w \in Nat \ {0}, NEW p \in Nat, NEW u \in Nat, p < u, u - p < w
    PROVE  p % w # u % w
<1> DEFINE qp == w * (p \div w)
           qu == w * (u \div w)
<1>1. p = qp + (p % w) /\ u = qu + (u % w)  BY Divided
<1>2. p \div w \in Nat /\ u \div w \in Nat  BY Divided
<1>3. qp \in Int /\ qu \in Int /\ p % w \in Int /\ u % w \in Int  BY <1>2, Divided
<1>4. \/ p \div w = u \div w
      \/ (p \div w < u \div w /\ qp + w <= qu)
      \/ (u \div w < p \div w /\ qu + w <= qp)
  BY <1>2, NextMultiple
<1>5. qp = qu \/ qp + w <= qu \/ qu + w <= qp  BY <1>4
<1> HIDE DEF qp, qu
<1> QED  BY ONLY <1>1, <1>3, <1>5, p < u, u - p < w, p \in Nat, u \in Nat, w \in Nat \ {0}

\* A round less leaves the remainder as it is.
LEMMA OneRoundLess ==
    ASSUME NEW w \in Nat \ {0}, NEW j \in Nat, j >= w
    PROVE  (j - w) % w = j % w
<1> DEFINE q == j \div w
           r == j % w
<1>1. j = (w * q) + r /\ r \in 0..(w - 1) /\ q \in Nat  BY Divided
<1> HIDE DEF q, r
<1>2. w * (q - 1) = (w * q) - w  BY ONLY <1>1, w \in Nat \ {0}
<1>3. w * q \in Int /\ w * (q - 1) \in Int  BY ONLY <1>1, w \in Nat \ {0}
<1>4. j - w = (w * (q - 1)) + r  BY ONLY <1>1, <1>2, <1>3, j \in Nat, w \in Nat \ {0}
<1>5. ((w * (q - 1)) + r) % w = r
  <2>1. q - 1 \in Int  BY ONLY <1>1
  <2> QED  BY ONLY <1>1, <2>1, w \in Nat \ {0}, Remainder
<1> QED  BY ONLY <1>4, <1>5 DEF r

-----------------------------------------------------------------------------
(* Largest elements *)

\* A set of numbers with an upper bound has a largest one.
LEMMA MaxFacts ==
    ASSUME NEW S \in SUBSET Int, S # {}, NEW b \in Int, \A x \in S : x <= b
    PROVE  Max(S) \in S /\ \A y \in S : Max(S) >= y
<1> DEFINE R == OpToRel(<, Nat)
           T == {b - x : x \in S}
<1>1. R = {ss \in Nat \X Nat : ss[1] < ss[2]}  BY DEF OpToRel
<1>2. IsWellFoundedOn(R, Nat)  BY NatLessThanWellFounded
<1>3. T \subseteq Nat /\ T # {}
  <2>1. T \subseteq Nat
    <3> SUFFICES ASSUME NEW x \in S  PROVE b - x \in Nat  OBVIOUS
    <3>1. x \in Int /\ x <= b  OBVIOUS
    <3> QED  BY ONLY <3>1, b \in Int
  <2>2. PICK x \in S : TRUE  OBVIOUS
  <2>3. b - x \in T  OBVIOUS
  <2> HIDE DEF T
  <2> QED  BY ONLY <2>1, <2>3
<1> HIDE DEF R
<1>4. PICK t \in T : \A y \in T : ~(<<y, t>> \in R)
  <2> HIDE DEF T
  <2> QED  BY ONLY <1>2, <1>3, WFMin
<1>5. PICK x \in S : t = b - x  OBVIOUS
<1>6. \A y \in S : x >= y
  <2> SUFFICES ASSUME NEW y \in S  PROVE x >= y  OBVIOUS
  <2>1. b - y \in T /\ b - x \in T  OBVIOUS
  <2>2. ~(b - y < b - x)
    <3>1. b - y \in Nat /\ b - x \in Nat /\ ~(<<b - y, b - x>> \in R)
      BY <1>3, <1>4, <1>5, <2>1
    <3> QED  BY <1>1, <3>1
  <2>3. x \in Int /\ y \in Int  OBVIOUS
  <2> QED  BY ONLY <2>2, <2>3, b \in Int
<1> QED  BY <1>6 DEF Max

LEMMA MaxIs ==
    ASSUME NEW S \in SUBSET Int, NEW m \in S, \A y \in S : m >= y
    PROVE  Max(S) = m
<1>1. m \in Int /\ \A x \in S : x <= m  OBVIOUS
<1>2. Max(S) \in S /\ \A y \in S : Max(S) >= y  BY <1>1, MaxFacts
<1>3. Max(S) >= m /\ m >= Max(S) /\ Max(S) \in Int  BY <1>2
<1> QED  BY ONLY <1>1, <1>3

\* A set of numbers has a smallest one.
LEMMA Smallest ==
    ASSUME NEW S \in SUBSET Nat, S # {}
    PROVE  \E x \in S : \A y \in S : x <= y
<1> DEFINE R == OpToRel(<, Nat)
<1>1. R = {ss \in Nat \X Nat : ss[1] < ss[2]}  BY DEF OpToRel
<1>2. IsWellFoundedOn(R, Nat)  BY NatLessThanWellFounded
<1> HIDE DEF R
<1>3. PICK x \in S : \A y \in S : ~(<<y, x>> \in R)  BY ONLY <1>2, S \subseteq Nat, S # {}, WFMin
<1>4. \A y \in S : x <= y
  <2> SUFFICES ASSUME NEW y \in S  PROVE x <= y  OBVIOUS
  <2>1. x \in Nat /\ y \in Nat  OBVIOUS
  <2>2. ~(y < x)  BY <1>1, <1>3, <2>1
  <2> QED  BY ONLY <2>1, <2>2
<1> QED  BY <1>4

-----------------------------------------------------------------------------
(* Chains *)

\* What the chain of hash h holds below position p.
IsLatest(l, h, p) ==
    /\ l \in {None} \cup 0..(p - 1)
    /\ l # None => HashAt(l) = h
    /\ \A q \in 0..(p - 1) : HashAt(q) = h => q <= l

LEMMA LatestFacts ==
    ASSUME NEW h, NEW p \in Nat
    PROVE  IsLatest(Latest(h, p), h, p)
<1> DEFINE S == {None} \cup {q \in 0..(p - 1) : HashAt(q) = h}
<1>1. S \in SUBSET Int /\ S # {} /\ \A x \in S : x <= p  BY DEF None
<1>2. Max(S) \in S /\ \A y \in S : Max(S) >= y
  <2> HIDE DEF S
  <2>1. p \in Int  OBVIOUS
  <2> QED  BY ONLY <1>1, <2>1, MaxFacts
<1>3. Latest(h, p) = Max(S)  BY DEF Latest
<1>4. Max(S) \in Int  BY <1>1, <1>2
<1> DEFINE l == Max(S)
<1>5. l \in S /\ l \in Int /\ \A y \in S : l >= y  BY <1>2, <1>4
<1> HIDE DEF l
<1>6. IsLatest(l, h, p)  BY <1>5 DEF IsLatest, None
<1> QED  BY <1>3, <1>6 DEF l

LEMMA LatestIs ==
    ASSUME NEW h, NEW p \in Nat, NEW l, IsLatest(l, h, p)
    PROVE  Latest(h, p) = l
<1> DEFINE S == {None} \cup {q \in 0..(p - 1) : HashAt(q) = h}
<1>1. S \in SUBSET Int  BY DEF None
<1>2. l \in S  BY DEF IsLatest
<1>3. \A y \in S : l >= y  BY <1>1, <1>2 DEF IsLatest, None
<1>4. Max(S) = l
  <2> HIDE DEF S
  <2> QED  BY ONLY <1>1, <1>2, <1>3, MaxIs
<1> QED  BY <1>4 DEF Latest

\* One position more.
LEMMA LatestStep ==
    ASSUME NEW h, NEW p \in Nat
    PROVE  Latest(h, p + 1) = IF HashAt(p) = h THEN p ELSE Latest(h, p)
<1> DEFINE l == IF HashAt(p) = h THEN p ELSE Latest(h, p)
<1>1. IsLatest(Latest(h, p), h, p)  BY LatestFacts
<1>2. IsLatest(l, h, p + 1)
  <2>1. CASE HashAt(p) = h
    BY <2>1 DEF IsLatest
  <2>2. CASE HashAt(p) # h
    <3> DEFINE k == Latest(h, p)
    <3> HIDE DEF k
    <3>1. k \in {None} \cup 0..(p - 1) /\ (k # None => HashAt(k) = h)
          /\ \A q \in 0..(p - 1) : HashAt(q) = h => q <= k
      BY <1>1 DEF IsLatest, k
    <3>2. \A q \in 0..((p + 1) - 1) : HashAt(q) = h => q \in 0..(p - 1)  BY <2>2
    <3>3. k \in {None} \cup 0..((p + 1) - 1)  BY <3>1
    <3>4. IsLatest(k, h, p + 1)  BY ONLY <3>1, <3>2, <3>3 DEF IsLatest
    <3> QED  BY <2>2, <3>4 DEF k
  <2> QED  BY <2>1, <2>2
<1> HIDE DEF l
<1>3. p + 1 \in Nat  OBVIOUS
<1>4. Latest(h, p + 1) = l  BY ONLY <1>2, <1>3, LatestIs
<1> QED  BY <1>4 DEF l
-----------------------------------------------------------------------------
(* Matches *)

USE Lz77Assumption

\* n bytes at c and at p agree.
Matches(c, p, n) == \A i \in 0..(n - 1) : At(c + i) = At(p + i)

LEMMA AgreementFacts ==
    ASSUME NEW c \in Nat, NEW p \in Nat, Size \in Nat, p <= Size
    PROVE  /\ Agreement(c, p) \in 0..MaxLength(p) /\ Matches(c, p, Agreement(c, p))
           /\ \A n \in 0..MaxLength(p) : Matches(c, p, n) => n <= Agreement(c, p)
<1> DEFINE m == MaxLength(p)
           S == {n \in 0..m : \A i \in 0..(n - 1) : At(c + i) = At(p + i)}
<1>1. m \in Nat  BY DEF MaxLength
<1>2. Agreement(c, p) = Max(S)  BY DEF Agreement
<1> HIDE DEF m
<1>3. 0 \in S  BY <1>1
<1>4. S \in SUBSET Int /\ S # {} /\ m \in Int /\ \A x \in S : x <= m  BY <1>1, <1>3
<1>5. Max(S) \in S /\ \A y \in S : Max(S) >= y
  <2> HIDE DEF S
  <2> QED  BY ONLY <1>4, MaxFacts
<1> DEFINE a == Max(S)
<1> HIDE DEF a
<1>6. a \in S /\ \A y \in S : a >= y  BY <1>5 DEF a
<1>7. a \in 0..m /\ Matches(c, p, a)  BY <1>6 DEF Matches
<1>8. \A n \in 0..m : Matches(c, p, n) => n <= a
  <2> SUFFICES ASSUME NEW n \in 0..m, Matches(c, p, n)  PROVE n <= a  OBVIOUS
  <2>1. n \in S  BY DEF Matches
  <2> HIDE DEF S
  <2>2. a >= n  BY ONLY <1>6, <2>1
  <2> QED  BY ONLY <1>1, <1>7, <2>2, n \in 0..m
<1> QED  BY <1>2, <1>7, <1>8 DEF a, m

\* Where n bytes agree, every one of them does.
LEMMA ByteAgrees ==
    ASSUME NEW c \in Nat, NEW p \in Nat, NEW n \in Nat, Matches(c, p, n), NEW i \in Nat, i < n
    PROVE  At(c + i) = At(p + i)
<1>1. i \in 0..(n - 1)  OBVIOUS
<1> QED  BY <1>1 DEF Matches

\* Three bytes that agree have the same hash.
LEMMA SameHash ==
    ASSUME NEW c \in Nat, NEW p \in Nat, NEW n \in Nat, n >= MinMatch, Matches(c, p, n)
    PROVE  HashAt(c) = HashAt(p)
<1>1. At(c + 0) = At(p + 0) /\ At(c + 1) = At(p + 1) /\ At(c + 2) = At(p + 2)
  <2>1. 0 \in 0..(n - 1) /\ 1 \in 0..(n - 1) /\ 2 \in 0..(n - 1)  OBVIOUS
  <2> QED  BY ONLY <2>1, Matches(c, p, n) DEF Matches
<1>2. c + 0 = c /\ p + 0 = p  OBVIOUS
<1> QED  BY <1>1, <1>2 DEF HashAt

LEMMA HashIsKnown ==
    ASSUME input \in Seq(Byte), NEW p \in Nat, p + 2 < Size
    PROVE  HashAt(p) \in HashValues
<1>1. Size \in Nat  BY DEF Size
<1>2. p + 1 \in 1..Size /\ (p + 1) + 1 \in 1..Size /\ (p + 2) + 1 \in 1..Size  BY <1>1
<1>3. At(p) \in Byte /\ At(p + 1) \in Byte /\ At(p + 2) \in Byte  BY <1>2 DEF At, Size
<1>4. DOMAIN Hash = Byte \X Byte \X Byte  OBVIOUS
<1>5. <<At(p), At(p + 1), At(p + 2)>> \in DOMAIN Hash  BY <1>3, <1>4
<1> QED  BY <1>5 DEF HashAt, HashValues

\* A match that may be emitted at p.
MatchOk(m, p) ==
    /\ m \in [length : Nat, distance : Nat]
    /\ m.length \in MinMatch..MaxLength(p)
    /\ m.distance \in 1..MaxDistance /\ m.distance <= p
    /\ Matches(p - m.distance, p, m.length)

\* Where a walk at p has been when it comes to c, and the best match there:
\* the longest, and the nearest of these.
Tried(p, c) == {q \in 0..(p - 1) : p - q <= MaxDistance /\ q > c}
IsBestAt(n, p, T) ==
    /\ Agreement(n, p) >= MinMatch
    /\ \A q \in T : /\ Agreement(q, p) <= Agreement(n, p)
                    /\ q > n => Agreement(q, p) < Agreement(n, p)
BestOf(b, p, T) ==
    \/ b = NoMatch /\ \A q \in T : Agreement(q, p) < MinMatch
    \/ \E n \in T : /\ b = [length |-> Agreement(n, p), distance |-> p - n]
                    /\ IsBestAt(n, p, T)

\* The best match found is a match.
LEMMA BestIsMatch ==
    ASSUME NEW p \in Nat, Size \in Nat, p <= Size, NEW c \in Int, NEW b,
           BestOf(b, p, Tried(p, c)), Useful(b)
    PROVE  MatchOk(b, p)
<1>1. b # NoMatch  BY DEF Useful, NoMatch
<1>2. PICK n \in Tried(p, c) :
          /\ b = [length |-> Agreement(n, p), distance |-> p - n]
          /\ IsBestAt(n, p, Tried(p, c))
  BY <1>1 DEF BestOf
<1>3. n \in Nat /\ n < p /\ p - n <= MaxDistance  BY <1>2 DEF Tried
<1>4. Agreement(n, p) \in 0..MaxLength(p) /\ Matches(n, p, Agreement(n, p))
  BY <1>3, AgreementFacts
<1>5. Agreement(n, p) >= MinMatch  BY <1>2 DEF IsBestAt
<1>6. b.length = Agreement(n, p) /\ b.distance = p - n  BY <1>2
<1>7. b.length \in MinMatch..MaxLength(p)  BY <1>4, <1>5, <1>6
<1>8. b.distance \in 1..MaxDistance /\ b.distance <= p /\ p - b.distance = n
  BY <1>3, <1>6
<1>9. b \in [length : Nat, distance : Nat]
  <2>1. Agreement(n, p) \in Nat /\ p - n \in Nat  BY <1>3, <1>4 DEF MaxLength
  <2> QED  BY <1>2, <2>1
<1> QED  BY <1>4, <1>6, <1>7, <1>8, <1>9 DEF MatchOk

\* A candidate that does not improve on the best match, or one with another
\* hash, leaves it the best.
LEMMA BestStays ==
    ASSUME NEW b, NEW p \in Nat, NEW T \in SUBSET Nat, NEW U \in SUBSET Nat,
           Size \in Nat, p <= Size, BestOf(b, p, T), T \subseteq U,
           \A q \in U \ T : \A t \in T : q < t,
           \A q \in U \ T : Agreement(q, p) < MinMatch \/ Agreement(q, p) <= b.length
    PROVE  BestOf(b, p, U)
<1>1. CASE b = NoMatch /\ \A q \in T : Agreement(q, p) < MinMatch
  <2>1. b.length = 0  BY <1>1 DEF NoMatch
  <2>2. \A q \in U : Agreement(q, p) < MinMatch
    <3> SUFFICES ASSUME NEW q \in U  PROVE Agreement(q, p) < MinMatch  OBVIOUS
    <3>1. CASE q \in T  BY <1>1, <3>1
    <3>2. CASE q \notin T
      <4>1. Agreement(q, p) < MinMatch \/ Agreement(q, p) <= 0  BY <2>1, <3>2
      <4>2. q \in Nat  OBVIOUS
      <4>3. Agreement(q, p) \in 0..MaxLength(p) /\ MaxLength(p) \in Int
        BY <4>2, AgreementFacts DEF MaxLength
      <4> QED  BY ONLY <4>1, <4>3, Lz77Assumption
    <3> QED  BY <3>1, <3>2
  <2> QED  BY <1>1, <2>2 DEF BestOf
<1>2. CASE \E n \in T : /\ b = [length |-> Agreement(n, p), distance |-> p - n]
                        /\ IsBestAt(n, p, T)
  <2>1. PICK n \in T : /\ b = [length |-> Agreement(n, p), distance |-> p - n]
                       /\ IsBestAt(n, p, T)
    BY <1>2
  <2>2. b.length = Agreement(n, p)  BY <2>1
  <2>3. Agreement(n, p) >= MinMatch /\ n \in Nat /\ n \in U  BY <2>1 DEF IsBestAt
  <2>4. ASSUME NEW q \in U
        PROVE  Agreement(q, p) <= Agreement(n, p) /\ (q > n => Agreement(q, p) < Agreement(n, p))
    <3>1. CASE q \in T  BY <2>1, <3>1 DEF IsBestAt
    <3>2. CASE q \notin T
      <4>1. q < n /\ q \in Nat  BY <2>1, <3>2
      <4>2. Agreement(q, p) < MinMatch \/ Agreement(q, p) <= Agreement(n, p)  BY <2>2, <3>2
      <4>3. Agreement(q, p) \in Int /\ Agreement(n, p) \in Int  BY <2>3, <4>1, AgreementFacts
      <4> QED  BY ONLY <2>3, <4>1, <4>2, <4>3, Lz77Assumption
    <3> QED  BY <3>1, <3>2
  <2>5. IsBestAt(n, p, U)  BY <2>3, <2>4 DEF IsBestAt
  <2> QED  BY <2>1, <2>3, <2>5 DEF BestOf
<1> QED  BY <1>1, <1>2 DEF BestOf

\* A candidate that improves on it is the best itself.
LEMMA BestIsNew ==
    ASSUME NEW b, NEW p \in Nat, NEW T \in SUBSET Nat, NEW U \in SUBSET Nat, NEW c \in U,
           Size \in Nat, p <= Size, BestOf(b, p, T),
           Agreement(c, p) >= MinMatch, Agreement(c, p) > b.length,
           \A q \in U : q > c => q \in T,
           \A q \in U : q < c => Agreement(q, p) <= Agreement(c, p)
    PROVE  BestOf([length |-> Agreement(c, p), distance |-> p - c], p, U)
<1>1. \A q \in U : Agreement(q, p) \in Int /\ q \in Int
  <2> SUFFICES ASSUME NEW q \in U  PROVE Agreement(q, p) \in Int /\ q \in Int  OBVIOUS
  <2>1. q \in Nat  OBVIOUS
  <2> QED  BY <2>1, AgreementFacts
<1>2. \A q \in T : Agreement(q, p) < Agreement(c, p)
  <2> SUFFICES ASSUME NEW q \in T  PROVE Agreement(q, p) < Agreement(c, p)  OBVIOUS
  <2>1. Agreement(q, p) \in Int /\ Agreement(c, p) \in Int
    <3>1. q \in Nat  OBVIOUS
    <3> QED  BY <1>1, <3>1, AgreementFacts
  <2>2. CASE b = NoMatch /\ \A r \in T : Agreement(r, p) < MinMatch
    <3>1. Agreement(q, p) < MinMatch  BY <2>2
    <3> QED  BY ONLY <2>1, <3>1, Agreement(c, p) >= MinMatch, Lz77Assumption
  <2>3. CASE \E n \in T : /\ b = [length |-> Agreement(n, p), distance |-> p - n]
                          /\ IsBestAt(n, p, T)
    <3>1. PICK n \in T : /\ b = [length |-> Agreement(n, p), distance |-> p - n]
                         /\ IsBestAt(n, p, T)
      BY <2>3
    <3>2. b.length = Agreement(n, p) /\ Agreement(q, p) <= Agreement(n, p)
      BY <3>1 DEF IsBestAt
    <3>3. n \in Nat  OBVIOUS
    <3>4. Agreement(n, p) \in Int  BY <3>3, AgreementFacts
    <3>5. Agreement(n, p) < Agreement(c, p)  BY <3>2
    <3> QED  BY ONLY <2>1, <3>2, <3>4, <3>5
  <2> QED  BY <2>2, <2>3 DEF BestOf
<1>3. IsBestAt(c, p, U)
  <2> SUFFICES ASSUME NEW q \in U
               PROVE  /\ Agreement(q, p) <= Agreement(c, p)
                      /\ q > c => Agreement(q, p) < Agreement(c, p)
    BY DEF IsBestAt
  <2>1. CASE q > c
    <3>1. Agreement(q, p) < Agreement(c, p)  BY <1>2, <2>1
    <3> QED  BY <1>1, <3>1
  <2>2. CASE q < c  BY <1>1, <2>2
  <2>3. CASE q = c  BY <1>1, <2>3
  <2> QED  BY <1>1, <2>1, <2>2, <2>3
<1> QED  BY <1>3 DEF BestOf
-----------------------------------------------------------------------------
(* Copies *)

\* Bytes that agree with those d before them repeat with period d.
LEMMA Periodic ==
    ASSUME NEW c \in Nat, NEW d \in Nat \ {0}, NEW n \in Nat, Matches(c, c + d, n)
    PROVE  \A j \in 0..(n - 1) : At((c + d) + j) = At(c + (j % d))
<1> DEFINE Wrong == {j \in 0..(n - 1) : At((c + d) + j) # At(c + (j % d))}
<1> SUFFICES ASSUME Wrong # {}  PROVE FALSE  OBVIOUS
<1>1. Wrong \in SUBSET Nat  OBVIOUS
<1>2. PICK j \in Wrong : \A k \in Wrong : j <= k
  <2> HIDE DEF Wrong
  <2> QED  BY <1>1, Smallest
<1>3. j \in Nat /\ j \in 0..(n - 1) /\ At((c + d) + j) # At(c + (j % d))  OBVIOUS
<1>4. At(c + j) = At((c + d) + j)  BY <1>3 DEF Matches
<1>5. CASE j < d
  <2>1. j \in 0..(d - 1)  BY <1>3, <1>5
  <2>2. ((d * 0) + j) % d = j  BY <2>1, Remainder
  <2>3. (d * 0) + j = j  BY <1>3
  <2>4. j % d = j  BY <2>2, <2>3
  <2> QED  BY <1>3, <1>4, <2>4
<1>6. CASE j >= d
  <2>1. (j - d) % d = j % d  BY <1>3, <1>6, OneRoundLess
  <2>2. j - d \in Nat /\ j - d \in 0..(n - 1) /\ j - d < j /\ (c + d) + (j - d) = c + j
    BY <1>3, <1>6
  <2>3. j - d \notin Wrong
    <3> HIDE DEF Wrong
    <3> QED  BY ONLY <1>2, <1>3, <2>2
  <2>4. At((c + d) + (j - d)) = At(c + ((j - d) % d))  BY <2>2, <2>3
  <2>5. At(c + j) = At(c + (j % d))  BY ONLY <2>1, <2>2, <2>4
  <2> QED  BY ONLY <1>3, <1>4, <2>5
<1> QED  BY <1>3, <1>5, <1>6

LEMMA SubSeqFacts ==
    ASSUME NEW S, NEW s \in Seq(S), NEW n \in 0..Len(s)
    PROVE  /\ SubSeq(s, 1, n) \in Seq(S) /\ Len(SubSeq(s, 1, n)) = n
           /\ \A k \in 1..n : SubSeq(s, 1, n)[k] = s[k]
  OBVIOUS

LEMMA JoinFacts ==
    ASSUME NEW S, NEW s \in Seq(S), NEW t \in Seq(S)
    PROVE  /\ s \o t \in Seq(S) /\ Len(s \o t) = Len(s) + Len(t)
           /\ \A i \in 1..Len(s) : (s \o t)[i] = s[i]
           /\ \A i \in 1..Len(t) : (s \o t)[Len(s) + i] = t[i]
  OBVIOUS

LEMMA SameSeq ==
    ASSUME NEW S, NEW s \in Seq(S), NEW t \in Seq(S), Len(s) = Len(t),
           \A i \in 1..Len(s) : s[i] = t[i]
    PROVE  s = t
<1>1. s = [i \in 1..Len(s) |-> s[i]] /\ t = [i \in 1..Len(t) |-> t[i]]
  <2>1. s = [i \in 1..Len(s) |-> s[i]]  BY ONLY s \in Seq(S)
  <2>2. t = [i \in 1..Len(t) |-> t[i]]  BY ONLY t \in Seq(S)
  <2> QED  BY ONLY <2>1, <2>2
<1> QED  BY <1>1, Zenon

\* What comes before m, followed by n bytes from its distance back, is what
\* comes before the end of the match.
LEMMA CopyIsInput ==
    ASSUME input \in Seq(Byte), Size \in Nat, NEW p \in Nat, p <= Size, NEW m, MatchOk(m, p)
    PROVE  /\ p + m.length <= Size
           /\ CopyFrom(SubSeq(input, 1, p), m.distance, m.length)
                 = SubSeq(input, 1, p + m.length)
<1> DEFINE s == SubSeq(input, 1, p)
           d == m.distance
           n == m.length
           c == p - d
           f == [i \in 1..n |-> s[Len(s) - d + 1 + ((i - 1) % d)]]
           t == SubSeq(input, 1, p + n)
<1>1. n \in Nat /\ n <= Size - p /\ d \in Nat \ {0} /\ d <= p /\ Matches(c, p, n)
  BY DEF MatchOk, MaxLength
<1>2. c \in Nat /\ c + d = p /\ p + n <= Size /\ p + n \in Nat
  <2>1. c = p - d  OBVIOUS
  <2> HIDE DEF c, d, n
  <2> QED  BY ONLY <1>1, <2>1, p \in Nat, Size \in Nat
<1>3. Len(input) = Size  BY DEF Size
<1>4. s \in Seq(Byte) /\ Len(s) = p /\ \A k \in 1..p : s[k] = input[k]
  <2>1. p \in 0..Len(input)  BY <1>3
  <2> QED  BY <2>1, SubSeqFacts
<1>5. t \in Seq(Byte) /\ Len(t) = p + n /\ \A k \in 1..(p + n) : t[k] = input[k]
  <2> HIDE DEF n
  <2>1. p + n \in 0..Len(input)  BY <1>2, <1>3
  <2> QED  BY <2>1, SubSeqFacts
<1>6. \A j \in 0..(n - 1) : At(p + j) = At(c + (j % d))
  <2> HIDE DEF c, d, n
  <2>1. Matches(c, c + d, n)  BY <1>1, <1>2
  <2>2. \A j \in 0..(n - 1) : At((c + d) + j) = At(c + (j % d))
    <3>1. c \in Nat /\ d \in Nat \ {0} /\ n \in Nat  BY <1>1, <1>2
    <3> QED  BY ONLY <2>1, <3>1, Periodic
  <2>3. c + d = p  BY <1>2
  <2> QED  BY ONLY <2>2, <2>3
<1>7. \A i \in 1..n : s[Len(s) - d + 1 + ((i - 1) % d)] = input[p + i] /\ input[p + i] \in Byte
  <2> HIDE DEF n, d, c, s
  <2> SUFFICES ASSUME NEW i \in 1..n
               PROVE  /\ s[Len(s) - d + 1 + ((i - 1) % d)] = input[p + i]
                      /\ input[p + i] \in Byte
    OBVIOUS
  <2> DEFINE r == (i - 1) % d
  <2>1. i - 1 \in Nat /\ i - 1 \in 0..(n - 1) /\ p + (i - 1) + 1 = p + i /\ p + i \in 1..Size
    BY <1>1, <1>2
  <2>2. r \in 0..(d - 1)  BY <1>1, <2>1, Divided
  <2>3. At(p + (i - 1)) = At(c + r)  BY <1>6, <2>1
  <2> HIDE DEF r
  <2>4. Len(s) - d + 1 + r = (c + r) + 1 /\ (c + r) + 1 \in 1..p  BY <1>1, <1>2, <1>4, <2>2
  <2>5. s[(c + r) + 1] = At(c + r)  BY <1>4, <2>4 DEF At
  <2>6. At(p + (i - 1)) = input[p + i]  BY <2>1 DEF At
  <2>7. input[p + i] \in Byte  BY <1>3, <2>1
  <2>8. s[Len(s) - d + 1 + r] = input[p + i]  BY ONLY <2>3, <2>4, <2>5, <2>6
  <2> QED  BY ONLY <2>7, <2>8 DEF r
<1>8. f \in Seq(Byte) /\ Len(f) = n /\ \A i \in 1..n : f[i] = input[p + i]
  <2> HIDE DEF n, d, s
  <2>1. f \in [1..n -> Byte] /\ \A i \in 1..n : f[i] = input[p + i]  BY <1>7
  <2> HIDE DEF f
  <2> QED  BY ONLY <1>1, <2>1
<1>9. CopyFrom(s, d, n) = s \o f  BY DEF CopyFrom
<1> HIDE DEF s, d, n, f, t
<1>10. /\ s \o f \in Seq(Byte) /\ Len(s \o f) = p + n
       /\ \A i \in 1..p : (s \o f)[i] = s[i]
       /\ \A i \in 1..n : (s \o f)[p + i] = f[i]
  <2>1. /\ s \o f \in Seq(Byte) /\ Len(s \o f) = Len(s) + Len(f)
        /\ \A i \in 1..Len(s) : (s \o f)[i] = s[i]
        /\ \A i \in 1..Len(f) : (s \o f)[Len(s) + i] = f[i]
    <3>1. s \in Seq(Byte) /\ f \in Seq(Byte)  BY <1>4, <1>8
    <3> QED  BY ONLY <3>1, JoinFacts
  <2> QED  BY ONLY <1>4, <1>8, <2>1
<1>11. \A i \in 1..(p + n) : (s \o f)[i] = t[i]
  <2> SUFFICES ASSUME NEW i \in 1..(p + n)  PROVE (s \o f)[i] = t[i]  OBVIOUS
  <2>1. CASE i <= p
    <3>1. i \in 1..p  BY <1>1, <2>1
    <3>2. (s \o f)[i] = s[i] /\ s[i] = input[i] /\ t[i] = input[i]
      BY ONLY <1>4, <1>5, <1>10, <3>1, i \in 1..(p + n)
    <3> QED  BY ONLY <3>2
  <2>2. CASE i > p
    <3> DEFINE j == i - p
    <3>1. j \in 1..n /\ p + j = i  BY <1>1, <2>2
    <3> HIDE DEF j
    <3>2. (s \o f)[p + j] = input[p + j]  BY ONLY <1>8, <1>10, <3>1
    <3>3. t[i] = input[i]  BY ONLY <1>5, i \in 1..(p + n)
    <3>4. p + j = i  BY <3>1
    <3> QED  BY ONLY <3>2, <3>3, <3>4, Zenon
  <2>3. i <= p \/ i > p  BY ONLY i \in 1..(p + n), p \in Nat
  <2> QED  BY ONLY <2>1, <2>2, <2>3, Zenon
<1>12. s \o f = t
  <2> DEFINE u == s \o f
  <2>1. u \in Seq(Byte) /\ t \in Seq(Byte) /\ Len(u) = Len(t)
        /\ \A i \in 1..Len(u) : u[i] = t[i]
    BY ONLY <1>5, <1>10, <1>11
  <2> HIDE DEF u
  <2>2. u = t  BY ONLY <2>1, SameSeq
  <2> QED  BY <2>2 DEF u
<1> QED  BY <1>2, <1>9, <1>12 DEF s, d, n, t

\* One byte more.
LEMMA LiteralIsInput ==
    ASSUME input \in Seq(Byte), NEW p \in Nat, p < Size, Size \in Nat
    PROVE  Append(SubSeq(input, 1, p), At(p)) = SubSeq(input, 1, p + 1)
<1> DEFINE s == SubSeq(input, 1, p)
           t == SubSeq(input, 1, p + 1)
<1>1. Len(input) = Size /\ p \in 0..Len(input) /\ p + 1 \in 0..Len(input) /\ p + 1 \in 1..Len(input)
  BY DEF Size
<1>2. s \in Seq(Byte) /\ Len(s) = p /\ \A k \in 1..p : s[k] = input[k]  BY <1>1, SubSeqFacts
<1>3. t \in Seq(Byte) /\ Len(t) = p + 1 /\ \A k \in 1..(p + 1) : t[k] = input[k]
  BY <1>1, SubSeqFacts
<1>4. At(p) = input[p + 1] /\ input[p + 1] \in Byte  BY <1>1 DEF At
<1> DEFINE u == Append(s, input[p + 1])
<1> HIDE DEF s, t
<1>5. /\ u \in Seq(Byte) /\ Len(u) = p + 1
      /\ \A k \in 1..p : u[k] = s[k]
      /\ u[p + 1] = input[p + 1]
  BY ONLY <1>2, <1>4, p \in Nat
<1> HIDE DEF u
<1>6. \A k \in 1..Len(u) : u[k] = t[k]
  <2> SUFFICES ASSUME NEW k \in 1..Len(u)  PROVE u[k] = t[k]  OBVIOUS
  <2>1. k \in 1..(p + 1) /\ (k = p + 1 \/ k \in 1..p)  BY ONLY <1>5, k \in 1..Len(u), p \in Nat
  <2> QED  BY ONLY <1>2, <1>3, <1>5, <2>1
<1>7. u = t  BY ONLY <1>3, <1>5, <1>6, SameSeq
<1> QED  BY <1>4, <1>7 DEF u, s, t
-----------------------------------------------------------------------------
(* The invariant *)

Types ==
    /\ input \in Seq(Byte) /\ Size \in Nat
    /\ head \in [HashValues -> Int] /\ prev \in [0..(RingSize - 1) -> Int]
    /\ hashedUpTo \in Nat /\ pos \in Nat /\ pos <= Size /\ walks \in Nat
    /\ tokens \in Seq([length : Nat, distance : Nat])

\* The chains are never more than a step ahead of the byte to encode, or of
\* the one a lazy probe looks at, or of the end of a match.
HashedSoFar ==
    /\ phase \in {"top", "hash"} => hashedUpTo <= pos + 1
    /\ phase = "hash" => pos < Size
    /\ phase = "lazy_hash" => hashedUpTo <= pos + 2 /\ pos + 1 + MinMatch <= Size
    /\ phase = "cover" => hashedUpTo <= pos + curr.length

CurrIsMatch == phase \in {"lazy_hash", "lazy_walk", "cover"} => MatchOk(curr, pos)

\* A walk goes back along its position's own chain, and what it holds is the
\* best of the positions it has passed.  It holds less than the longest match
\* allowed, or it has ended, so that comparing one byte more stays inside.
Walking ==
    phase \in {"walk", "lazy_walk"} =>
        /\ at = IF phase = "walk" THEN pos ELSE pos + 1
        /\ at + MinMatch <= Size /\ hashedUpTo = at + 1
        /\ candidate \in {None} \cup 0..at
        /\ candidate # None => HashAt(candidate) = HashAt(at) /\ best.length < MaxLength(at)
        /\ BestOf(best, at, Tried(at, candidate))

IInv ==
    /\ Types
    /\ ChainsExact
    /\ HashedSoFar /\ CurrIsMatch /\ Walking
    /\ TokensExpandToInput /\ TokensEncodable

\* Indices into the input and the ring that the encoder uses.
InsertInside ==
    phase \in {"hash", "lazy_hash", "cover"} /\ ~Hashed(Target) => hashedUpTo + 2 < Size
WalkInside ==
    phase \in {"walk", "lazy_walk"} /\ ~WalkOver =>
        /\ candidate \in Nat /\ at + best.length < Size
        /\ candidate < at => candidate + best.length < Size /\ candidate + 1 < Size

-----------------------------------------------------------------------------
(* Walks *)

\* A walk that was not cut off by the level's bound holds the longest match.
LEMMA FoundIsLongest ==
    ASSUME IInv
    PROVE  WalkFindsLongest
<1> SUFFICES ASSUME phase \in {"walk", "lazy_walk"}, WalkOver, walks < MaxWalks
             PROVE  LET near == {q \in 0..(at - 1) : at - q <= MaxDistance}
                        good == {q \in near : Agreement(q, at) >= MinMatch}
                    IN  IF good = {} THEN best = NoMatch
                        ELSE LET longest == Max({Agreement(q, at) : q \in good})
                             IN  best = [length |-> longest,
                                         distance |-> at - Max({q \in good : Agreement(q, at) = longest})]
  BY DEF WalkFindsLongest
<1> DEFINE near == {q \in 0..(at - 1) : at - q <= MaxDistance}
           good == {q \in near : Agreement(q, at) >= MinMatch}
<1>1. /\ at \in Nat /\ at <= Size /\ Size \in Nat /\ candidate \in {None} \cup 0..at
      /\ walks \in Nat /\ BestOf(best, at, Tried(at, candidate))
  <2>1. Size \in Nat /\ pos \in Nat /\ walks \in Nat  BY DEF IInv, Types
  <2>2. at = pos \/ at = pos + 1  BY DEF IInv, Walking
  <2>3. at + MinMatch <= Size  BY DEF IInv, Walking
  <2>4. at \in Nat /\ at <= Size  BY ONLY <2>1, <2>2, <2>3, Lz77Assumption
  <2>5. candidate \in {None} \cup 0..at /\ BestOf(best, at, Tried(at, candidate))
    BY DEF IInv, Walking
  <2> QED  BY <2>1, <2>4, <2>5
<1>2. candidate = None \/ (candidate < at /\ at - candidate > MaxDistance)
  <2>1. ~(walks >= MaxWalks)  BY ONLY <1>1, walks < MaxWalks, Lz77Assumption
  <2> QED  BY <2>1 DEF WalkOver
<1>3. Tried(at, candidate) = near
  <2>1. \A q \in near : q > candidate
    <3> SUFFICES ASSUME NEW q \in near  PROVE q > candidate  OBVIOUS
    <3>1. q \in Nat /\ at - q <= MaxDistance  OBVIOUS
    <3> QED  BY ONLY <1>1, <1>2, <3>1, Lz77Assumption DEF None
  <2> QED  BY <2>1 DEF Tried
<1>4. \A q \in near : q \in Nat /\ Agreement(q, at) \in Int /\ Agreement(q, at) <= MaxLength(at)
  <2> SUFFICES ASSUME NEW q \in near
               PROVE  q \in Nat /\ Agreement(q, at) \in Int /\ Agreement(q, at) <= MaxLength(at)
    OBVIOUS
  <2>1. q \in Nat  BY <1>1
  <2>2. MaxLength(at) \in Int  BY <1>1 DEF MaxLength
  <2> QED  BY <1>1, <2>1, <2>2, AgreementFacts
<1>5. CASE best = NoMatch /\ \A q \in near : Agreement(q, at) < MinMatch
  <2>1. good = {}
    <3> SUFFICES ASSUME NEW q \in near  PROVE ~(Agreement(q, at) >= MinMatch)  OBVIOUS
    <3>1. Agreement(q, at) < MinMatch /\ Agreement(q, at) \in Int  BY <1>4, <1>5
    <3> QED  BY ONLY <3>1, Lz77Assumption
  <2> QED  BY <1>5, <2>1
<1>6. CASE \E n \in near : /\ best = [length |-> Agreement(n, at), distance |-> at - n]
                           /\ IsBestAt(n, at, near)
  <2>1. PICK n \in near : /\ best = [length |-> Agreement(n, at), distance |-> at - n]
                          /\ IsBestAt(n, at, near)
    BY <1>6
  <2>2. /\ Agreement(n, at) >= MinMatch
        /\ \A q \in near : /\ Agreement(q, at) <= Agreement(n, at)
                           /\ q > n => Agreement(q, at) < Agreement(n, at)
    BY <2>1 DEF IsBestAt
  <2> DEFINE L == {Agreement(q, at) : q \in good}
             longest == Max(L)
             N == {q \in good : Agreement(q, at) = longest}
  <2>3. n \in good  BY <2>2
  <2>4. longest = Agreement(n, at)
    <3>1. L \in SUBSET Int  BY <1>4
    <3>2. Agreement(n, at) \in L /\ \A x \in L : Agreement(n, at) >= x
      <4>1. \A q \in good : Agreement(n, at) >= Agreement(q, at)
        <5> SUFFICES ASSUME NEW q \in good  PROVE Agreement(n, at) >= Agreement(q, at)  OBVIOUS
        <5>1. /\ Agreement(q, at) <= Agreement(n, at)
              /\ Agreement(q, at) \in Int /\ Agreement(n, at) \in Int
          BY <1>4, <2>2
        <5> QED  BY ONLY <5>1
      <4> QED  BY <2>3, <4>1
    <3> HIDE DEF L
    <3>3. Max(L) = Agreement(n, at)  BY ONLY <3>1, <3>2, MaxIs
    <3> QED  BY <3>3
  <2> HIDE DEF L, longest
  <2>5. Max(N) = n
    <3>1. N \in SUBSET Int  BY <1>4
    <3>2. n \in N  BY <2>3, <2>4
    <3>3. \A q \in N : n >= q
      <4> SUFFICES ASSUME NEW q \in N  PROVE n >= q  OBVIOUS
      <4>1. q \in near /\ Agreement(q, at) = Agreement(n, at)  BY <2>4
      <4>2. ~(q > n)
        <5>1. Agreement(q, at) \in Int  BY <1>4, <4>1
        <5>2. q > n => Agreement(q, at) < Agreement(n, at)  BY <2>2, <4>1
        <5> QED  BY ONLY <4>1, <5>1, <5>2
      <4>3. q \in Nat /\ n \in Nat  BY <1>4, <4>1
      <4> QED  BY ONLY <4>2, <4>3
    <3> HIDE DEF N
    <3> QED  BY ONLY <3>1, <3>2, <3>3, MaxIs
  <2>6. best = [length |-> longest, distance |-> at - Max(N)]  BY <2>1, <2>4, <2>5
  <2> QED  BY <2>3, <2>6 DEF longest, L
<1> QED  BY <1>1, <1>3, <1>5, <1>6 DEF BestOf

\* A step of a walk: the next candidate is the latest of the same hash before
\* this one, so whatever lies between has another hash and no match.
LEMMA WalkStepKeepsBest ==
    ASSUME NEW p \in Nat, Size \in Nat, p + MinMatch <= Size,
           NEW c \in 0..p, HashAt(c) = HashAt(p), c < p => p - c <= MaxDistance,
           NEW b, BestOf(b, p, Tried(p, c)),
           NEW l, IsLatest(l, HashAt(p), c)
    PROVE  /\ c < p /\ Agreement(c, p) >= MinMatch /\ Agreement(c, p) > b.length =>
                 BestOf([length |-> Agreement(c, p), distance |-> p - c], p, Tried(p, l))
           /\ c < p /\ Agreement(c, p) = MaxLength(p) /\ Agreement(c, p) > b.length =>
                 BestOf([length |-> Agreement(c, p), distance |-> p - c], p, Tried(p, None))
           /\ c = p \/ Agreement(c, p) < MinMatch \/ Agreement(c, p) <= b.length =>
                 BestOf(b, p, Tried(p, l))
<1> DEFINE T == Tried(p, c)
           U == Tried(p, l)
           A == Tried(p, None)
<1>1. /\ p \in Int /\ c \in Nat /\ c <= p /\ l \in Int /\ l < c /\ p <= Size /\ l >= -1
      /\ MaxLength(p) \in Int /\ MaxLength(p) >= MinMatch
  BY DEF IsLatest, None, MaxLength
<1>2. T \in SUBSET Nat /\ U \in SUBSET Nat /\ A \in SUBSET Nat  BY DEF Tried
<1>3. T \subseteq U /\ T \subseteq A  BY <1>1 DEF Tried, None
<1>4. \A q \in U : q > c => q \in T  BY DEF Tried
<1>5. \A q \in A : q > c => q \in T  BY DEF Tried
<1>6. \A q \in U \ T : q <= c
  <2> SUFFICES ASSUME NEW q \in U, q \notin T  PROVE q <= c  OBVIOUS
  <2>1. q \in Int /\ ~(q > c)  BY <1>2, <1>4
  <2> QED  BY ONLY <1>1, <2>1
<1>7. \A q \in A : Agreement(q, p) \in Int /\ Agreement(q, p) <= MaxLength(p)
  <2> SUFFICES ASSUME NEW q \in A
               PROVE  Agreement(q, p) \in Int /\ Agreement(q, p) <= MaxLength(p)
    OBVIOUS
  <2>1. q \in Nat  BY <1>2
  <2> QED  BY <1>1, <2>1, AgreementFacts
<1>8. U \subseteq A  BY <1>1 DEF Tried, None
<1>9. \A q \in U : q < c => Agreement(q, p) < MinMatch
  <2> SUFFICES ASSUME NEW q \in U, q < c, ~(Agreement(q, p) < MinMatch)  PROVE FALSE  OBVIOUS
  <2>1. q \in Nat /\ q > l  BY <1>2 DEF Tried
  <2>2. Agreement(q, p) \in 0..MaxLength(p) /\ Matches(q, p, Agreement(q, p))
    BY <1>1, <2>1, AgreementFacts
  <2>3. Agreement(q, p) \in Nat /\ Agreement(q, p) >= MinMatch  BY <1>1, <2>2
  <2>4. HashAt(q) = HashAt(p)  BY <2>1, <2>2, <2>3, SameHash
  <2>5. q \in 0..(c - 1)  BY <1>1, <2>1
  <2>6. q <= l  BY <2>4, <2>5 DEF IsLatest
  <2> QED  BY ONLY <1>1, <2>1, <2>6
<1>10. c < p => c \in U /\ c \in A  BY <1>1 DEF Tried, None
<1> HIDE DEF T, U, A
<1>11. ASSUME c < p, Agreement(c, p) >= MinMatch, Agreement(c, p) > b.length
       PROVE  BestOf([length |-> Agreement(c, p), distance |-> p - c], p, U)
  <2>1. \A q \in U : q < c => Agreement(q, p) <= Agreement(c, p)
    <3> SUFFICES ASSUME NEW q \in U, q < c  PROVE Agreement(q, p) <= Agreement(c, p)  OBVIOUS
    <3>1. Agreement(q, p) < MinMatch /\ Agreement(q, p) \in Int /\ Agreement(c, p) \in Int
      BY <1>7, <1>8, <1>9, <1>10, <1>11
    <3> QED  BY ONLY <1>11, <3>1, Lz77Assumption
  <2> QED  BY <1>1, <1>2, <1>4, <1>10, <1>11, <2>1, BestIsNew DEF T
<1>12. ASSUME c < p, Agreement(c, p) = MaxLength(p), Agreement(c, p) > b.length
       PROVE  BestOf([length |-> Agreement(c, p), distance |-> p - c], p, A)
  <2>1. \A q \in A : q < c => Agreement(q, p) <= Agreement(c, p)  BY <1>7, <1>12
  <2>2. Agreement(c, p) >= MinMatch  BY <1>1, <1>12
  <2> QED  BY <1>1, <1>2, <1>5, <1>10, <1>12, <2>1, <2>2, BestIsNew DEF T
<1>13. ASSUME c = p \/ Agreement(c, p) < MinMatch \/ Agreement(c, p) <= b.length
       PROVE  BestOf(b, p, U)
  <2>1. \A q \in U \ T : \A t \in T : q < t
    <3> SUFFICES ASSUME NEW q \in U \ T, NEW t \in T  PROVE q < t  OBVIOUS
    <3>1. q \in Int /\ t \in Int /\ q <= c  BY <1>2, <1>6
    <3>2. t > c  BY DEF T, Tried
    <3> QED  BY ONLY <1>1, <3>1, <3>2
  <2>2. \A q \in U \ T : Agreement(q, p) < MinMatch \/ Agreement(q, p) <= b.length
    <3> SUFFICES ASSUME NEW q \in U \ T
                 PROVE  Agreement(q, p) < MinMatch \/ Agreement(q, p) <= b.length
      OBVIOUS
    <3>1. q \in Int /\ q <= c /\ q < p  BY <1>1, <1>2, <1>6 DEF U, Tried
    <3>2. q < c \/ q = c  BY ONLY <1>1, <3>1
    <3>3. CASE q < c  BY <1>9, <3>3
    <3>4. CASE q = c
      <4>1. c # p  BY ONLY <1>1, <3>1, <3>4
      <4> QED  BY <1>13, <3>4, <4>1
    <3> QED  BY <3>2, <3>3, <3>4
  <2>3. BestOf(b, p, T)  BY DEF T
  <2> QED  BY ONLY <1>1, <1>2, <1>3, <2>1, <2>2, <2>3, p \in Nat, Size \in Nat, BestStays
<1> QED  BY <1>11, <1>12, <1>13 DEF U, A
-----------------------------------------------------------------------------
(* Steps *)

\* What is said of the input stays true of it.
LEMMA InputStays ==
    ASSUME input' = input
    PROVE  /\ Size' = Size
           /\ \A q : HashAt(q)' = HashAt(q)
           /\ \A p : MaxLength(p)' = MaxLength(p)
           /\ \A h, p : Latest(h, p)' = Latest(h, p)
           /\ \A c, p : Agreement(c, p)' = Agreement(c, p)
           /\ \A m, p : MatchOk(m, p)' = MatchOk(m, p)
           /\ \A b, p, T : BestOf(b, p, T)' = BestOf(b, p, T)
<1>1. Size' = Size  BY DEF Size
<1>2. \A q : At(q)' = At(q)  BY DEF At
<1>3. \A q : HashAt(q)' = HashAt(q)  BY <1>2 DEF HashAt
<1>4. \A p : MaxLength(p)' = MaxLength(p)  BY <1>1 DEF MaxLength
<1>5. \A h, p : Latest(h, p)' = Latest(h, p)  BY <1>3 DEF Latest
<1>6. \A c, p : Agreement(c, p)' = Agreement(c, p)  BY <1>2, <1>4 DEF Agreement
<1>7. \A c, p, n : Matches(c, p, n)' = Matches(c, p, n)  BY <1>2 DEF Matches
<1>8. \A m, p : MatchOk(m, p)' = MatchOk(m, p)  BY <1>4, <1>7 DEF MatchOk
<1>9. \A n, p, T : IsBestAt(n, p, T)' = IsBestAt(n, p, T)  BY <1>6 DEF IsBestAt
<1>10. \A b, p, T : BestOf(b, p, T)' = BestOf(b, p, T)  BY <1>6, <1>9 DEF BestOf
<1> QED  BY <1>1, <1>3, <1>4, <1>5, <1>6, <1>8, <1>10

\* The chains stay exact when nothing is inserted, and when the next position is.
LEMMA ChainsStay ==
    ASSUME ChainsExact, UNCHANGED <<input, chainVars>>
    PROVE  ChainsExact'
<1>1. \A q : HashAt(q)' = HashAt(q)  BY InputStays
<1>2. \A h, p : Latest(h, p)' = Latest(h, p)  BY InputStays
<1> QED  BY <1>1, <1>2 DEF ChainsExact, chainVars

LEMMA InsertKeepsChains ==
    ASSUME Types, ChainsExact, hashedUpTo + 2 < Size, Insert, input' = input
    PROVE  /\ ChainsExact'
           /\ head' \in [HashValues -> Int] /\ prev' \in [0..(RingSize - 1) -> Int]
<1> DEFINE u == hashedUpTo
           h0 == HashAt(u)
<1>1. u \in Nat /\ h0 \in HashValues  BY HashIsKnown DEF Types
<1>2. /\ head' = [head EXCEPT ![h0] = u] /\ prev' = [prev EXCEPT ![u % RingSize] = head[h0]]
      /\ hashedUpTo' = u + 1
  BY DEF Insert
<1>3. head \in [HashValues -> Int] /\ prev \in [0..(RingSize - 1) -> Int]  BY DEF Types
<1>4. RingSize \in Nat \ {0} /\ u % RingSize \in 0..(RingSize - 1)
  <2>1. RingSize \in Nat \ {0}  BY Lz77Assumption
  <2> QED  BY <1>1, <2>1, Divided
<1>5. \A q : HashAt(q)' = HashAt(q)  BY InputStays
<1>6. \A h, p : Latest(h, p)' = Latest(h, p)  BY InputStays
<1> HIDE DEF u, h0
<1>7. head' \in [HashValues -> Int] /\ prev' \in [0..(RingSize - 1) -> Int]
  BY <1>1, <1>2, <1>3, <1>4
<1>8. ASSUME NEW h \in HashValues  PROVE head'[h] = Latest(h, u + 1)
  <2>1. Latest(h, u + 1) = IF h0 = h THEN u ELSE Latest(h, u)  BY <1>1, LatestStep DEF h0
  <2>2. head[h] = Latest(h, u)  BY DEF ChainsExact, u
  <2>3. head'[h] = IF h = h0 THEN u ELSE head[h]  BY <1>1, <1>2, <1>3
  <2> QED  BY <2>1, <2>2, <2>3
<1>9. ASSUME NEW p \in 0..u, p >= u + 1 - RingSize
      PROVE  prev'[p % RingSize] = Latest(HashAt(p), p)
  <2>0. p \in Nat  BY <1>1
  <2>1. p % RingSize \in 0..(RingSize - 1)  BY <1>4, <2>0, Divided
  <2>2. CASE p = u
    <3>1. prev'[u % RingSize] = head[h0]  BY <1>2, <1>3, <1>4
    <3>2. head[h0] = Latest(h0, u)  BY <1>1 DEF ChainsExact, u
    <3> QED  BY <2>2, <3>1, <3>2 DEF h0
  <2>3. CASE p < u
    <3>1. p \in 0..(u - 1) /\ p >= u - RingSize /\ u - p < RingSize  BY <1>1, <1>4, <2>0, <2>3, <1>9
    <3>2. p % RingSize # u % RingSize  BY <1>1, <1>4, <2>0, <2>3, <3>1, OtherSlot
    <3>3. prev[p % RingSize] = Latest(HashAt(p), p)  BY <3>1 DEF ChainsExact, u
    <3>4. prev'[p % RingSize] = prev[p % RingSize]  BY <1>2, <1>3, <2>1, <3>2
    <3> QED  BY <3>3, <3>4
  <2> QED  BY <1>1, <2>0, <2>2, <2>3
<1>10. ChainsExact'
  <2>1. \A h \in HashValues : head'[h] = Latest(h, hashedUpTo)'  BY <1>2, <1>6, <1>8
  <2>2. hashedUpTo' - 1 = u  BY <1>1, <1>2
  <2>3. \A p \in 0..(hashedUpTo' - 1) :
           p >= hashedUpTo' - RingSize => prev'[p % RingSize] = Latest(HashAt(p), p)'
    BY <1>2, <1>5, <1>6, <1>9, <2>2
  <2> QED  BY <2>1, <2>3 DEF ChainsExact
<1> QED  BY <1>7, <1>10

\* Steps that leave the chains and the tokens alone.
LEMMA NothingEmitted ==
    ASSUME IInv, UNCHANGED <<input, chainVars, outVars>>, walks' \in Nat,
           phase # "cover", phase' # "cover"
    PROVE  Types' /\ ChainsExact' /\ TokensExpandToInput' /\ TokensEncodable'
<1>1. Size' = Size  BY InputStays
<1>2. Types'
  <2>1. Types  BY DEF IInv
  <2> QED  BY <1>1, <2>1 DEF Types, chainVars, outVars
<1>3. ChainsExact'
  <2>1. ChainsExact  BY DEF IInv
  <2> QED  BY <2>1, ChainsStay
<1>4. TokensExpandToInput'
  <2>1. TokensExpandToInput  BY DEF IInv
  <2> QED  BY <2>1 DEF TokensExpandToInput, outVars
<1>5. TokensEncodable'
  <2>1. TokensEncodable  BY DEF IInv
  <2> QED  BY <2>1 DEF TokensEncodable, outVars
<1> QED  BY <1>2, <1>3, <1>4, <1>5

\* A token that can be coded joins those that can.
LEMMA OneMoreToken ==
    ASSUME IInv, NEW m \in [length : Nat, distance : Nat], tokens' = Append(tokens, m),
           \/ m.length = 1
           \/ m.length \in MinMatch..MaxMatch /\ m.distance \in 1..MaxDistance
    PROVE  tokens' \in Seq([length : Nat, distance : Nat]) /\ TokensEncodable'
<1>1. tokens \in Seq([length : Nat, distance : Nat])  BY DEF IInv, Types
<1>2. /\ tokens' \in Seq([length : Nat, distance : Nat]) /\ Len(tokens') = Len(tokens) + 1
      /\ \A i \in 1..Len(tokens) : tokens'[i] = tokens[i]
      /\ tokens'[Len(tokens) + 1] = m
  BY <1>1
<1>3. ASSUME NEW i \in DOMAIN tokens'
      PROVE  \/ tokens'[i].length = 1
             \/ tokens'[i].length \in MinMatch..MaxMatch /\ tokens'[i].distance \in 1..MaxDistance
  <2>1. Len(tokens) \in Nat /\ i \in 1..(Len(tokens) + 1)  BY <1>1, <1>2
  <2>2. CASE i = Len(tokens) + 1  BY <1>2, <2>2
  <2>3. CASE i # Len(tokens) + 1
    <3>1. i \in 1..Len(tokens)  BY ONLY <2>1, <2>3
    <3>2. tokens'[i] = tokens[i] /\ i \in DOMAIN tokens  BY <1>1, <1>2, <3>1
    <3>3. \/ tokens[i].length = 1
          \/ tokens[i].length \in MinMatch..MaxMatch /\ tokens[i].distance \in 1..MaxDistance
      BY <3>2 DEF IInv, TokensEncodable
    <3> QED  BY ONLY <3>2, <3>3
  <2> QED  BY <2>2, <2>3
<1> QED  BY <1>2, <1>3 DEF TokensEncodable

LEMMA LiteralStep ==
    ASSUME IInv, EmitLiteral, UNCHANGED <<input, chainVars, walkVars, curr>>,
           pos < Size, hashedUpTo <= pos + 2, phase # "cover"
    PROVE  IInv'
<1>1. /\ tokens' = Append(tokens, [length |-> 1, distance |-> 0])
      /\ expanded' = Append(expanded, At(pos)) /\ pos' = pos + 1 /\ phase' = "top"
      /\ input' = input /\ hashedUpTo' = hashedUpTo /\ head' = head /\ prev' = prev
      /\ walks' = walks /\ Size' = Size
  BY InputStays DEF EmitLiteral, chainVars, walkVars
<1>2. /\ input \in Seq(Byte) /\ Size \in Nat /\ hashedUpTo \in Nat /\ pos \in Nat /\ walks \in Nat
      /\ head \in [HashValues -> Int] /\ prev \in [0..(RingSize - 1) -> Int]
  BY DEF IInv, Types
<1>3. tokens' \in Seq([length : Nat, distance : Nat]) /\ TokensEncodable'
  <2> DEFINE m == [length |-> 1, distance |-> 0]
  <2>1. m \in [length : Nat, distance : Nat] /\ m.length = 1  OBVIOUS
  <2> HIDE DEF m
  <2>2. tokens' = Append(tokens, m)  BY <1>1 DEF m
  <2> QED  BY <2>1, <2>2, OneMoreToken
<1>4. Types'
  <2>1. pos' \in Nat /\ pos' <= Size'  BY <1>1, <1>2
  <2> QED  BY <1>1, <1>2, <1>3, <2>1 DEF Types
<1>5. ChainsExact'  BY ChainsStay DEF IInv
<1>6. TokensExpandToInput'
  <2>1. expanded = SubSeq(input, 1, pos)  BY DEF IInv, TokensExpandToInput
  <2>2. Append(expanded, At(pos)) = SubSeq(input, 1, pos + 1)  BY <1>2, <2>1, LiteralIsInput
  <2> QED  BY <1>1, <2>2 DEF TokensExpandToInput
<1>7. HashedSoFar'
  <2>1. hashedUpTo' <= pos' + 1  BY <1>1, <1>2
  <2> QED  BY <1>1, <2>1 DEF HashedSoFar
<1>8. CurrIsMatch' /\ Walking'  BY <1>1 DEF CurrIsMatch, Walking
<1> QED  BY <1>3, <1>4, <1>5, <1>6, <1>7, <1>8 DEF IInv

LEMMA MatchStep ==
    ASSUME IInv, NEW m, EmitMatch(m), UNCHANGED <<input, chainVars, walkVars>>,
           MatchOk(m, pos), hashedUpTo <= pos + 2, phase # "cover"
    PROVE  IInv'
<1>1. /\ tokens' = Append(tokens, m) /\ expanded' = CopyFrom(expanded, m.distance, m.length)
      /\ curr' = m /\ pos' = pos /\ phase' = "cover"
      /\ input' = input /\ hashedUpTo' = hashedUpTo /\ head' = head /\ prev' = prev
      /\ walks' = walks /\ Size' = Size
  BY InputStays DEF EmitMatch, chainVars, walkVars
<1>2. /\ input \in Seq(Byte) /\ Size \in Nat /\ hashedUpTo \in Nat /\ pos \in Nat /\ walks \in Nat
      /\ head \in [HashValues -> Int] /\ prev \in [0..(RingSize - 1) -> Int] /\ pos <= Size
  BY DEF IInv, Types
<1>3. /\ m \in [length : Nat, distance : Nat] /\ m.length \in MinMatch..MaxLength(pos)
      /\ m.distance \in 1..MaxDistance
  BY DEF MatchOk
<1>4. m.length \in MinMatch..MaxMatch
  <2>1. MaxLength(pos) \in Int /\ MaxLength(pos) <= MaxMatch
    BY ONLY <1>2, Lz77Assumption DEF MaxLength
  <2> QED  BY ONLY <1>3, <2>1, Lz77Assumption
<1>5. tokens' \in Seq([length : Nat, distance : Nat]) /\ TokensEncodable'
  BY <1>1, <1>3, <1>4, OneMoreToken
<1>6. Types'  BY <1>1, <1>2, <1>5 DEF Types
<1>7. ChainsExact'  BY ChainsStay DEF IInv
<1>8. TokensExpandToInput'
  <2>1. expanded = SubSeq(input, 1, pos)  BY DEF IInv, TokensExpandToInput
  <2>2. CopyFrom(SubSeq(input, 1, pos), m.distance, m.length) = SubSeq(input, 1, pos + m.length)
    BY <1>2, CopyIsInput
  <2> QED  BY <1>1, <2>1, <2>2 DEF TokensExpandToInput
<1>9. HashedSoFar'
  <2>1. hashedUpTo <= pos + m.length
    <3>1. hashedUpTo \in Nat /\ pos \in Nat  BY <1>2
    <3>2. m.length \in Int /\ m.length >= 3  BY ONLY <1>4, Lz77Assumption
    <3> QED  BY ONLY <3>1, <3>2, hashedUpTo <= pos + 2
  <2> QED  BY <1>1, <2>1 DEF HashedSoFar
<1>10. CurrIsMatch'
  <2>1. MatchOk(m, pos)'  BY InputStays, <1>1
  <2> QED  BY <1>1, <2>1 DEF CurrIsMatch
<1>11. Walking'  BY <1>1 DEF Walking
<1> QED  BY <1>5, <1>6, <1>7, <1>8, <1>9, <1>10, <1>11 DEF IInv

\* A candidate the quick tests reject could not have improved on the best match.
LEMMA RejectedIsWorse ==
    ASSUME NEW c \in Nat, NEW p \in Nat, Size \in Nat, p <= Size, NEW k \in Nat,
           \/ At(c + k) # At(p + k)
           \/ At(c) # At(p)
           \/ At(c + 1) # At(p + 1)
    PROVE  Agreement(c, p) < MinMatch \/ Agreement(c, p) <= k
<1> DEFINE n == Agreement(c, p)
<1>1. n \in Nat /\ Matches(c, p, n)
  <2>1. n \in 0..MaxLength(p) /\ Matches(c, p, n)  BY AgreementFacts
  <2>2. MaxLength(p) \in Int  BY DEF MaxLength
  <2> HIDE DEF n
  <2> QED  BY ONLY <2>1, <2>2
<1> HIDE DEF n
<1> SUFFICES ASSUME n >= MinMatch, n > k  PROVE FALSE  BY <1>1 DEF n
<1>2. At(c + 0) = At(p + 0) /\ At(c + 1) = At(p + 1)
  <2>1. 0 \in 0..(n - 1) /\ 1 \in 0..(n - 1)  BY <1>1
  <2> QED  BY ONLY <1>1, <2>1 DEF Matches
<1>3. At(c + k) = At(p + k)  BY <1>1, ByteAgrees
<1>4. c + 0 = c /\ p + 0 = p  OBVIOUS
<1> QED  BY <1>2, <1>3, <1>4

\* The length of the best match is a number.
LEMMA BestLength ==
    ASSUME NEW b, NEW p \in Nat, Size \in Nat, p <= Size, NEW T \in SUBSET Nat, BestOf(b, p, T)
    PROVE  b.length \in Nat
<1>1. CASE b = NoMatch  BY <1>1 DEF NoMatch
<1>2. CASE b # NoMatch
  <2>1. PICK n \in T : b = [length |-> Agreement(n, p), distance |-> p - n]
    BY <1>2 DEF BestOf
  <2>2. n \in Nat  OBVIOUS
  <2>3. Agreement(n, p) \in 0..MaxLength(p) /\ MaxLength(p) \in Int
    BY <2>2, AgreementFacts DEF MaxLength
  <2> QED  BY <2>1, <2>3
<1> QED  BY <1>1, <1>2

\* The walk's own facts, and those of the candidate it looks at.
LEMMA WalkFacts ==
    ASSUME IInv, phase \in {"walk", "lazy_walk"}, ~WalkOver
    PROVE  /\ at \in Nat /\ at <= Size /\ Size \in Nat /\ at + MinMatch <= Size
           /\ candidate \in 0..at /\ HashAt(candidate) = HashAt(at)
           /\ candidate < at => at - candidate <= MaxDistance
           /\ best.length \in Nat /\ best.length < MaxLength(at)
           /\ BestOf(best, at, Tried(at, candidate))
           /\ IsLatest(prev[candidate % RingSize], HashAt(at), candidate)
<1>1. /\ at \in Nat /\ Size \in Nat /\ at + MinMatch <= Size /\ hashedUpTo = at + 1
      /\ candidate \in {None} \cup 0..at /\ BestOf(best, at, Tried(at, candidate))
      /\ candidate # None => HashAt(candidate) = HashAt(at) /\ best.length < MaxLength(at)
  <2>1. Size \in Nat /\ pos \in Nat  BY DEF IInv, Types
  <2>2. at = pos \/ at = pos + 1  BY DEF IInv, Walking
  <2>3. at \in Nat  BY ONLY <2>1, <2>2
  <2> QED  BY <2>1, <2>3 DEF IInv, Walking
<1>2. candidate # None /\ ~(candidate < at /\ at - candidate > MaxDistance)  BY DEF WalkOver
<1>3. candidate \in 0..at /\ candidate \in Nat /\ at <= Size  BY <1>1, <1>2
<1>4. candidate < at => at - candidate <= MaxDistance  BY <1>1, <1>2, <1>3
<1>5. best.length \in Nat
  <2>1. Tried(at, candidate) \in SUBSET Nat  BY <1>1 DEF Tried
  <2> QED  BY <1>1, <1>3, <2>1, BestLength
<1>6. prev[candidate % RingSize] = Latest(HashAt(candidate), candidate)
  <2>1. candidate \in 0..(hashedUpTo - 1) /\ candidate >= hashedUpTo - RingSize
    BY <1>1, <1>3, <1>4
  <2> QED  BY <2>1 DEF IInv, ChainsExact
<1>7. IsLatest(Latest(HashAt(candidate), candidate), HashAt(candidate), candidate)
  BY <1>3, LatestFacts
<1> QED  BY <1>1, <1>2, <1>3, <1>4, <1>5, <1>6, <1>7

LEMMA WalkStepStep ==
    ASSUME IInv, WalkStep
    PROVE  IInv'
<1> DEFINE l == prev[candidate % RingSize]
           len == Agreement(candidate, at)
           improves == ~Rejected /\ Better(len)
<1>1. /\ phase \in {"walk", "lazy_walk"} /\ ~WalkOver
      /\ best' = IF improves THEN [length |-> len, distance |-> at - candidate] ELSE best
      /\ candidate' = IF improves /\ len = MaxLength(at) THEN None ELSE l
      /\ walks' = walks + 1 /\ UNCHANGED <<input, chainVars, outVars, at, phase, curr>>
  BY DEF WalkStep
<1>2. /\ at \in Nat /\ at <= Size /\ Size \in Nat /\ at + MinMatch <= Size
      /\ candidate \in 0..at /\ HashAt(candidate) = HashAt(at)
      /\ candidate < at => at - candidate <= MaxDistance
      /\ best.length \in Nat /\ best.length < MaxLength(at)
      /\ BestOf(best, at, Tried(at, candidate)) /\ IsLatest(l, HashAt(at), candidate)
  BY <1>1, WalkFacts
<1>3. /\ candidate < at /\ len >= MinMatch /\ len > best.length =>
            BestOf([length |-> len, distance |-> at - candidate], at, Tried(at, l))
      /\ candidate < at /\ len = MaxLength(at) /\ len > best.length =>
            BestOf([length |-> len, distance |-> at - candidate], at, Tried(at, None))
      /\ candidate = at \/ len < MinMatch \/ len <= best.length =>
            BestOf(best, at, Tried(at, l))
  BY <1>2, WalkStepKeepsBest
<1>4. len \in Int /\ len <= MaxLength(at) /\ MaxLength(at) \in Int
  <2>1. candidate \in Nat  BY <1>2
  <2>2. MaxLength(at) \in Int  BY <1>2 DEF MaxLength
  <2> QED  BY <1>2, <2>1, <2>2, AgreementFacts
<1>5. l \in {None} \cup 0..at /\ (l # None => HashAt(l) = HashAt(at))
  BY <1>2 DEF IsLatest
<1> HIDE DEF l
<1> DEFINE Good == /\ candidate' \in {None} \cup 0..at
                   /\ candidate' # None =>
                         HashAt(candidate') = HashAt(at) /\ best'.length < MaxLength(at)
                   /\ BestOf(best', at, Tried(at, candidate'))
<1>6. ASSUME improves  PROVE Good
  <2>1. candidate < at /\ len >= MinMatch /\ len > best.length
    BY <1>2, <1>6 DEF Rejected, Better
  <2> HIDE DEF len
  <2>2. best' = [length |-> len, distance |-> at - candidate] /\ best'.length = len
    BY <1>1, <1>6
  <2>3. candidate' \in {None} \cup 0..at /\ (candidate' # None => HashAt(candidate') = HashAt(at))
    BY <1>1, <1>5
  <2>4. candidate' # None => best'.length < MaxLength(at)  BY <1>1, <1>4, <1>6, <2>2
  <2>5. BestOf(best', at, Tried(at, candidate'))  BY <1>1, <1>3, <1>6, <2>1, <2>2
  <2> QED  BY <2>3, <2>4, <2>5
<1>7. ASSUME ~improves  PROVE Good
  <2>1. candidate = at \/ len < MinMatch \/ len <= best.length
    <3>1. CASE ~Rejected
      <4>1. ~(len >= MinMatch /\ len > best.length)  BY <1>7, <3>1 DEF Better
      <4> QED  BY <1>2, <1>4, <4>1
    <3>2. CASE Rejected /\ candidate < at
      <4>1. candidate \in Nat  BY <1>2
      <4>2. \/ At(candidate + best.length) # At(at + best.length)
            \/ At(candidate) # At(at)
            \/ At(candidate + 1) # At(at + 1)
        BY <1>2, <3>2 DEF Rejected
      <4> QED  BY <1>2, <4>1, <4>2, RejectedIsWorse
    <3> QED  BY <1>2, <3>1, <3>2
  <2> HIDE DEF len
  <2>2. best' = best /\ candidate' = l  BY <1>1, <1>7
  <2> QED  BY <1>2, <1>3, <1>5, <2>1, <2>2
<1>8. Good  BY <1>6, <1>7
<1> HIDE DEF len, improves
<1>9. Walking'
  <2>1. /\ at = IF phase = "walk" THEN pos ELSE pos + 1
        /\ hashedUpTo = at + 1 /\ at + MinMatch <= Size
    BY <1>1 DEF IInv, Walking
  <2>2. /\ at' = at /\ phase' = phase /\ pos' = pos /\ hashedUpTo' = hashedUpTo /\ Size' = Size
    BY <1>1, InputStays DEF outVars, chainVars
  <2>3. BestOf(best, at, Tried(at, candidate))'  BY <1>1, <1>8, <2>2, InputStays
  <2>4. (candidate # None => HashAt(candidate) = HashAt(at) /\ best.length < MaxLength(at))'
    BY <1>1, <1>8, <2>2, InputStays
  <2> QED  BY <1>8, <2>1, <2>2, <2>3, <2>4 DEF Walking
<1>10. HashedSoFar'  BY <1>1 DEF HashedSoFar
<1>11. CurrIsMatch'
  <2>1. CurrIsMatch  BY DEF IInv
  <2>2. MatchOk(curr, pos)' = MatchOk(curr, pos)  BY <1>1, InputStays DEF outVars
  <2> QED  BY <1>1, <2>1, <2>2 DEF CurrIsMatch
<1>12. Types' /\ ChainsExact' /\ TokensExpandToInput' /\ TokensEncodable'
  <2>1. walks' \in Nat  BY <1>1 DEF IInv, Types
  <2> QED  BY <1>1, <2>1, NothingEmitted
<1> QED  BY <1>9, <1>10, <1>11, <1>12 DEF IInv

\* A walk begins at its own position, the latest in the chains, with nothing tried.
LEMMA WalkBegins ==
    ASSUME IInv, NEW p \in Nat, p + MinMatch <= Size, hashedUpTo = p + 1, StartWalk(p),
           UNCHANGED <<input, chainVars, outVars>>,
           p = IF phase' = "walk" THEN pos ELSE pos + 1
    PROVE  Walking' /\ walks' \in Nat
<1>1. Size \in Nat /\ Size' = Size /\ hashedUpTo' = hashedUpTo /\ pos' = pos
      /\ at' = p /\ candidate' = head[HashAt(p)] /\ best' = NoMatch /\ walks' = 0
  BY InputStays DEF IInv, Types, StartWalk, chainVars, outVars
<1>2. candidate' = p
  <2>1. p + 2 < Size  BY <1>1, Lz77Assumption
  <2>2. HashAt(p) \in HashValues  BY <2>1, HashIsKnown DEF IInv, Types
  <2>3. head[HashAt(p)] = Latest(HashAt(p), p + 1)  BY <2>2 DEF IInv, ChainsExact
  <2>4. Latest(HashAt(p), p + 1) = p  BY LatestStep
  <2> QED  BY <1>1, <2>3, <2>4
<1>3. Tried(p, p) = {}  BY DEF Tried
<1>4. BestOf(NoMatch, p, Tried(p, p))  BY <1>3 DEF BestOf
<1>5. BestOf(best, at, Tried(at, candidate))'  BY <1>1, <1>2, <1>4, InputStays
<1>6. NoMatch.length < MaxLength(p)  BY <1>1, Lz77Assumption DEF NoMatch, MaxLength
<1>7. (candidate # None => HashAt(candidate) = HashAt(at) /\ best.length < MaxLength(at))'
  BY <1>1, <1>2, <1>6, InputStays
<1>8. at' = IF phase' = "walk" THEN pos' ELSE pos' + 1  BY <1>1
<1>9. (at + MinMatch <= Size)' /\ (hashedUpTo = at + 1)' /\ (candidate \in {None} \cup 0..at)'
  BY <1>1, <1>2
<1> QED  BY <1>1, <1>5, <1>7, <1>8, <1>9 DEF Walking

LEMMA TopStep ==
    ASSUME IInv, Top \/ Done
    PROVE  IInv'
<1>1. UNCHANGED <<input, chainVars, outVars>> /\ walks' = walks /\ phase = "top"
      /\ ((phase' = "hash" /\ pos < Size) \/ phase' = "done")
  BY DEF Top, Done, walkVars
<1>2. Types' /\ ChainsExact' /\ TokensExpandToInput' /\ TokensEncodable'
  <2>1. walks' \in Nat  BY <1>1 DEF IInv, Types
  <2> QED  BY <1>1, <2>1, NothingEmitted
<1>3. HashedSoFar'
  <2>1. hashedUpTo <= pos + 1  BY <1>1 DEF IInv, HashedSoFar
  <2>2. hashedUpTo' = hashedUpTo /\ pos' = pos /\ Size' = Size
    BY <1>1, InputStays DEF chainVars, outVars
  <2> QED  BY <1>1, <2>1, <2>2 DEF HashedSoFar
<1>4. CurrIsMatch' /\ Walking'  BY <1>1 DEF CurrIsMatch, Walking
<1> QED  BY <1>2, <1>3, <1>4 DEF IInv

LEMMA InsertStep ==
    ASSUME IInv, InsertNext
    PROVE  IInv' /\ hashedUpTo + 2 < Size
<1>1. /\ phase \in {"hash", "lazy_hash", "cover"} /\ ~Hashed(Target) /\ Insert
      /\ input' = input /\ walks' = walks /\ pos' = pos /\ tokens' = tokens
      /\ expanded' = expanded /\ phase' = phase /\ curr' = curr /\ Size' = Size
      /\ hashedUpTo' = hashedUpTo + 1
  BY InputStays DEF InsertNext, Insert, walkVars, outVars
<1>2. /\ Types /\ hashedUpTo \in Nat /\ Size \in Nat /\ pos \in Nat /\ walks \in Nat
      /\ input \in Seq(Byte) /\ pos <= Size /\ tokens \in Seq([length : Nat, distance : Nat])
  BY DEF IInv, Types
<1>3. hashedUpTo + 2 < Size  BY <1>1, <1>2, Lz77Assumption DEF Hashed
<1>4. ~(hashedUpTo >= Target + 1)  BY <1>1 DEF Hashed
<1>5. ChainsExact' /\ head' \in [HashValues -> Int] /\ prev' \in [0..(RingSize - 1) -> Int]
  BY <1>1, <1>2, <1>3, InsertKeepsChains DEF IInv
<1>6. Types'
  <2>1. hashedUpTo' \in Nat  BY <1>1, <1>2
  <2> QED  BY <1>1, <1>2, <1>5, <2>1 DEF Types
<1>7. CurrIsMatch'
  <2>1. MatchOk(curr, pos)' = MatchOk(curr, pos)  BY <1>1, InputStays
  <2> QED  BY <1>1, <2>1 DEF CurrIsMatch, IInv
<1>8. HashedSoFar'
  <2>1. CASE phase = "hash"
    <3>1. Target = pos  BY <2>1 DEF Target
    <3>2. hashedUpTo' <= pos' + 1 /\ pos' < Size'
      BY <1>1, <1>2, <1>4, <2>1, <3>1 DEF IInv, HashedSoFar
    <3> QED  BY <1>1, <2>1, <3>2 DEF HashedSoFar
  <2>2. CASE phase = "lazy_hash"
    <3>1. Target = pos + 1  BY <2>2 DEF Target
    <3>2. hashedUpTo' <= pos' + 2 /\ pos' + 1 + MinMatch <= Size'
      BY <1>1, <1>2, <1>4, <2>2, <3>1 DEF IInv, HashedSoFar
    <3> QED  BY <1>1, <2>2, <3>2 DEF HashedSoFar
  <2>3. CASE phase = "cover"
    <3>1. Target = pos + curr.length - 1  BY <2>3 DEF Target
    <3>2. curr.length \in Nat  BY <2>3 DEF IInv, CurrIsMatch, MatchOk
    <3>3. ~(hashedUpTo >= (pos + curr.length - 1) + 1)  BY <1>4, <3>1
    <3>4. hashedUpTo + 1 <= pos + curr.length
      <4>1. hashedUpTo \in Int /\ pos \in Int /\ curr.length \in Int  BY <1>2, <3>2
      <4> QED  BY ONLY <3>3, <4>1
    <3>5. hashedUpTo' <= pos' + curr'.length  BY <1>1, <3>4
    <3> QED  BY <1>1, <2>3, <3>5 DEF HashedSoFar
  <2> QED  BY <1>1, <2>1, <2>2, <2>3
<1>9. Walking'  BY <1>1 DEF Walking
<1>10. TokensExpandToInput' /\ TokensEncodable'
  BY <1>1 DEF IInv, TokensExpandToInput, TokensEncodable
<1> QED  BY <1>3, <1>5, <1>6, <1>7, <1>8, <1>9, <1>10 DEF IInv

LEMMA SearchStep ==
    ASSUME IInv, Search \/ SearchLazy
    PROVE  IInv'
<1> DEFINE p == IF phase = "hash" THEN pos ELSE pos + 1
<1>1. /\ UNCHANGED <<input, chainVars, outVars>> /\ curr' = curr /\ StartWalk(p) /\ Hashed(p)
      /\ \/ phase = "hash" /\ phase' = "walk" /\ pos + MinMatch <= Size
         \/ phase = "lazy_hash" /\ phase' = "lazy_walk"
  BY DEF Search, SearchLazy
<1>2. /\ hashedUpTo \in Nat /\ Size \in Nat /\ pos \in Nat
      /\ phase = "hash" => hashedUpTo <= pos + 1
      /\ phase = "lazy_hash" => hashedUpTo <= pos + 2 /\ pos + 1 + MinMatch <= Size
  BY DEF IInv, Types, HashedSoFar
<1>3. p \in Nat /\ p + MinMatch <= Size /\ hashedUpTo = p + 1
  BY <1>1, <1>2, Lz77Assumption DEF Hashed
<1>4. Walking' /\ walks' \in Nat
  <2>1. p = IF phase' = "walk" THEN pos ELSE pos + 1  BY <1>1
  <2> HIDE DEF p
  <2> QED  BY <1>1, <1>3, <2>1, WalkBegins
<1>5. Types' /\ ChainsExact' /\ TokensExpandToInput' /\ TokensEncodable'
  <2>1. phase # "cover" /\ phase' # "cover"  BY <1>1
  <2> QED  BY <1>1, <1>4, <2>1, NothingEmitted
<1>6. HashedSoFar'  BY <1>1 DEF HashedSoFar
<1>7. CurrIsMatch'
  <2>1. MatchOk(curr, pos)' = MatchOk(curr, pos)  BY <1>1, InputStays DEF outVars
  <2> QED  BY <1>1, <2>1 DEF CurrIsMatch, IInv
<1> QED  BY <1>4, <1>5, <1>6, <1>7 DEF IInv

\* When a walk has ended, the byte to encode is there, and what it found is a match.
LEMMA WalkEnds ==
    ASSUME IInv, phase \in {"walk", "lazy_walk"}
    PROVE  /\ pos < Size /\ hashedUpTo <= pos + 2
           /\ phase = "walk" /\ Useful(best) => MatchOk(best, pos)
<1>1. /\ at \in Nat /\ pos \in Nat /\ Size \in Nat /\ at + MinMatch <= Size
      /\ hashedUpTo = at + 1 /\ at = IF phase = "walk" THEN pos ELSE pos + 1
      /\ candidate \in Int /\ BestOf(best, at, Tried(at, candidate))
  <2>1. Size \in Nat /\ pos \in Nat  BY DEF IInv, Types
  <2>2. at = IF phase = "walk" THEN pos ELSE pos + 1  BY DEF IInv, Walking
  <2>3. at \in Nat  BY ONLY <2>1, <2>2
  <2>4. candidate \in {None} \cup 0..at  BY DEF IInv, Walking
  <2>5. candidate \in Int  BY ONLY <2>3, <2>4 DEF None
  <2> QED  BY <2>1, <2>2, <2>3, <2>5 DEF IInv, Walking
<1>2. at <= Size  BY <1>1, Lz77Assumption
<1>3. phase = "walk" /\ Useful(best) => MatchOk(best, pos)  BY <1>1, <1>2, BestIsMatch
<1>4. pos < Size /\ hashedUpTo <= pos + 2  BY ONLY <1>1, Lz77Assumption
<1> QED  BY <1>3, <1>4

LEMMA LiteralSteps ==
    ASSUME IInv, TailLiteral \/ NoMatchFound \/ TakeLazy
    PROVE  IInv'
<1>1. /\ EmitLiteral /\ UNCHANGED <<input, chainVars, walkVars, curr>>
      /\ phase \in {"hash", "walk", "lazy_walk"}
  BY DEF TailLiteral, NoMatchFound, TakeLazy
<1>2. pos < Size /\ hashedUpTo <= pos + 2
  <2>1. CASE phase = "hash"
    <3>1. hashedUpTo \in Nat /\ pos \in Nat /\ hashedUpTo <= pos + 1 /\ pos < Size
      BY <2>1 DEF IInv, Types, HashedSoFar
    <3> QED  BY <3>1
  <2>2. CASE phase \in {"walk", "lazy_walk"}  BY <2>2, WalkEnds
  <2> QED  BY <1>1, <2>1, <2>2
<1>3. phase # "cover"  BY <1>1
<1> QED  BY <1>1, <1>2, <1>3, LiteralStep

LEMMA MatchSteps ==
    ASSUME IInv, TakeMatch \/ KeepMatch
    PROVE  IInv'
<1>1. UNCHANGED <<input, chainVars, walkVars>> /\ phase \in {"walk", "lazy_walk"}
  BY DEF TakeMatch, KeepMatch
<1>2. hashedUpTo <= pos + 2 /\ phase # "cover"  BY <1>1, WalkEnds
<1>3. CASE TakeMatch
  <2>1. EmitMatch(best) /\ MatchOk(best, pos)  BY <1>3, WalkEnds DEF TakeMatch
  <2> QED  BY <1>1, <1>2, <2>1, MatchStep
<1>4. CASE KeepMatch
  <2>1. EmitMatch(curr) /\ MatchOk(curr, pos)  BY <1>4 DEF KeepMatch, IInv, CurrIsMatch
  <2> QED  BY <1>1, <1>2, <2>1, MatchStep
<1> QED  BY <1>3, <1>4

LEMMA TryLazyStep ==
    ASSUME IInv, TryLazy
    PROVE  IInv'
<1>1. /\ UNCHANGED <<input, chainVars, outVars>> /\ walks' = walks /\ curr' = best
      /\ phase = "walk" /\ phase' = "lazy_hash" /\ Useful(best) /\ pos + 1 + MinMatch <= Size
  BY DEF TryLazy, walkVars
<1>2. Types' /\ ChainsExact' /\ TokensExpandToInput' /\ TokensEncodable'
  <2>1. walks' \in Nat  BY <1>1 DEF IInv, Types
  <2> QED  BY <1>1, <2>1, NothingEmitted
<1>3. CurrIsMatch'
  <2>1. MatchOk(best, pos)  BY <1>1, WalkEnds
  <2>2. MatchOk(curr, pos)'  BY <1>1, <2>1, InputStays DEF outVars
  <2> QED  BY <2>2 DEF CurrIsMatch
<1>4. HashedSoFar'
  <2>1. hashedUpTo <= pos + 2  BY <1>1, WalkEnds
  <2>2. hashedUpTo' = hashedUpTo /\ pos' = pos /\ Size' = Size
    BY <1>1, InputStays DEF chainVars, outVars
  <2> QED  BY <1>1, <2>1, <2>2 DEF HashedSoFar
<1>5. Walking'  BY <1>1 DEF Walking
<1> QED  BY <1>2, <1>3, <1>4, <1>5 DEF IInv

LEMMA CoveredStep ==
    ASSUME IInv, Covered
    PROVE  IInv'
<1>1. /\ input' = input /\ UNCHANGED <<input, chainVars>> /\ head' = head /\ prev' = prev
      /\ hashedUpTo' = hashedUpTo /\ walks' = walks /\ tokens' = tokens /\ expanded' = expanded
      /\ phase = "cover" /\ phase' = "top" /\ pos' = pos + curr.length /\ Size' = Size
  BY InputStays DEF Covered, chainVars, walkVars
<1>2. Types /\ pos \in Nat /\ Size \in Nat  BY DEF IInv, Types
<1>3. MatchOk(curr, pos)  BY <1>1 DEF IInv, CurrIsMatch
<1>4. curr.length \in Nat /\ curr.length <= Size - pos  BY <1>2, <1>3 DEF MatchOk, MaxLength
<1>5. Types'
  <2>1. pos' \in Nat /\ pos' <= Size'  BY <1>1, <1>2, <1>4
  <2> QED  BY <1>1, <1>2, <2>1 DEF Types
<1>6. ChainsExact'  BY <1>1, ChainsStay DEF IInv
<1>7. TokensExpandToInput' /\ TokensEncodable'
  BY <1>1 DEF IInv, TokensExpandToInput, TokensEncodable
<1>8. HashedSoFar'
  <2>1. hashedUpTo <= pos + curr.length /\ hashedUpTo \in Nat
    BY <1>1 DEF IInv, HashedSoFar, Types
  <2>2. hashedUpTo' <= pos' + 1  BY <1>1, <1>2, <1>4, <2>1
  <2> QED  BY <1>1, <2>2 DEF HashedSoFar
<1>9. CurrIsMatch' /\ Walking'  BY <1>1 DEF CurrIsMatch, Walking
<1> QED  BY <1>5, <1>6, <1>7, <1>8, <1>9 DEF IInv

LEMMA InitHolds == Init => IInv
<1> SUFFICES ASSUME Init  PROVE IInv  OBVIOUS
<1>1. /\ head = [h \in HashValues |-> None] /\ prev = [i \in 0..(RingSize - 1) |-> None]
      /\ hashedUpTo = 0 /\ pos = 0 /\ phase = "top" /\ walks = 0
      /\ tokens = << >> /\ expanded = << >>
  BY DEF Init
<1>2. input \in Seq(Byte) /\ Size \in Nat
  <2>1. PICK n \in 0..MaxInput : input \in [1..n -> Byte]  BY DEF Init
  <2>2. input \in Seq(Byte)  BY <2>1
  <2> QED  BY <2>2 DEF Size
<1>3. Types  BY <1>1, <1>2 DEF Types, None
<1>4. ChainsExact
  <2>1. ASSUME NEW h \in HashValues  PROVE Latest(h, 0) = None
    <3>1. IsLatest(None, h, 0)  BY DEF IsLatest
    <3> QED  BY <3>1, LatestIs
  <2> QED  BY <1>1, <2>1 DEF ChainsExact
<1>5. TokensExpandToInput
  <2>1. SubSeq(input, 1, 0) = << >>  BY <1>2
  <2> QED  BY <1>1, <2>1 DEF TokensExpandToInput
<1>6. TokensEncodable  BY <1>1 DEF TokensEncodable
<1>7. HashedSoFar /\ CurrIsMatch /\ Walking  BY <1>1 DEF HashedSoFar, CurrIsMatch, Walking
<1> QED  BY <1>3, <1>4, <1>5, <1>6, <1>7 DEF IInv

LEMMA StutterHolds ==
    ASSUME IInv, UNCHANGED vars
    PROVE  IInv'
<1>1. /\ UNCHANGED <<input, chainVars, outVars>> /\ UNCHANGED <<input, chainVars>>
      /\ head' = head /\ prev' = prev /\ hashedUpTo' = hashedUpTo
      /\ pos' = pos /\ tokens' = tokens /\ expanded' = expanded
      /\ at' = at /\ candidate' = candidate /\ walks' = walks /\ best' = best
      /\ phase' = phase /\ curr' = curr /\ input' = input
  BY DEF vars, chainVars, outVars, walkVars
<1>2. Size' = Size  BY <1>1, InputStays
<1>3. Types'  BY <1>1, <1>2 DEF IInv, Types
<1>4. ChainsExact'  BY <1>1, ChainsStay DEF IInv
<1>5. HashedSoFar'  BY <1>1, <1>2 DEF IInv, HashedSoFar
<1>6. CurrIsMatch'
  <2>1. MatchOk(curr, pos)' = MatchOk(curr, pos)  BY <1>1, InputStays
  <2> QED  BY <1>1, <2>1 DEF IInv, CurrIsMatch
<1>7. Walking'
  <2>1. BestOf(best, at, Tried(at, candidate))' = BestOf(best, at, Tried(at, candidate))
    BY <1>1, InputStays
  <2>2. HashAt(candidate)' = HashAt(candidate) /\ HashAt(at)' = HashAt(at)
        /\ MaxLength(at)' = MaxLength(at)
    BY <1>1, InputStays
  <2> QED  BY <1>1, <1>2, <2>1, <2>2 DEF IInv, Walking
<1>8. TokensExpandToInput' /\ TokensEncodable'
  BY <1>1 DEF IInv, TokensExpandToInput, TokensEncodable
<1> QED  BY <1>3, <1>4, <1>5, <1>6, <1>7, <1>8 DEF IInv

LEMMA NextHolds ==
    ASSUME IInv, [Next]_vars
    PROVE  IInv'
<1>1. CASE Top \/ Done  BY <1>1, TopStep
<1>2. CASE InsertNext  BY <1>2, InsertStep
<1>3. CASE Search \/ SearchLazy  BY <1>3, SearchStep
<1>4. CASE WalkStep  BY <1>4, WalkStepStep
<1>5. CASE TailLiteral \/ NoMatchFound \/ TakeLazy  BY <1>5, LiteralSteps
<1>6. CASE TakeMatch \/ KeepMatch  BY <1>6, MatchSteps
<1>7. CASE TryLazy  BY <1>7, TryLazyStep
<1>8. CASE Covered  BY <1>8, CoveredStep
<1>9. CASE UNCHANGED vars  BY <1>9, StutterHolds
<1> QED  BY <1>1, <1>2, <1>3, <1>4, <1>5, <1>6, <1>7, <1>8, <1>9 DEF Next

-----------------------------------------------------------------------------
(* Theorems *)

\* The encoder's invariant, for every input, hash, ring and limit of a level.
THEOREM EncoderInvariant == Spec => []IInv
<1>1. Init => IInv  BY InitHolds
<1>2. IInv /\ [Next]_vars => IInv'  BY NextHolds
<1> QED  BY <1>1, <1>2, PTL DEF Spec

\* A chain lists exactly the positions inserted with its hash, latest first,
\* as far back as the ring reaches: reusing a slot loses no link that a walk
\* can still follow (HashChains::insert, ensure_hashed).
THEOREM ChainsStayExact == Spec => []ChainsExact
<1>1. IInv => ChainsExact  BY DEF IInv
<1> QED  BY <1>1, EncoderInvariant, PTL

\* A walk that the level does not cut off ends with the longest match within
\* the distance limit, and the nearest of that length: the quick tests and the
\* early break lose nothing (find_longest_match).
THEOREM WalkIsOptimal == Spec => []WalkFindsLongest
<1>1. IInv => WalkFindsLongest  BY FoundIsLongest
<1> QED  BY <1>1, EncoderInvariant, PTL

\* The tokens stand for the input: a decoder that copies each match one byte
\* after the other, overlapping or not, gets back what was encoded (encode).
THEOREM TokensAreInput == Spec => []TokensExpandToInput
<1>1. IInv => TokensExpandToInput  BY DEF IInv
<1> QED  BY <1>1, EncoderInvariant, PTL

\* Every match is long enough for a slot, not longer than the longest, and
\* its distance is positive and within the decoder's window (encode).
THEOREM TokensFitTheFormat == Spec => []TokensEncodable
<1>1. IInv => TokensEncodable  BY DEF IInv
<1> QED  BY <1>1, EncoderInvariant, PTL

\* No index leaves the input: the hash reads three bytes of it, and the quick
\* tests of a walk read one byte past the best match so far (hash3,
\* find_longest_match).
THEOREM IndicesInside == Spec => [](InsertInside /\ WalkInside)
<1>1. IInv => InsertInside
  <2> SUFFICES ASSUME IInv, phase \in {"hash", "lazy_hash", "cover"}, ~Hashed(Target)
               PROVE  hashedUpTo + 2 < Size
    BY DEF InsertInside
  <2>1. hashedUpTo \in Nat /\ Size \in Nat  BY DEF IInv, Types
  <2> QED  BY <2>1, Lz77Assumption DEF Hashed
<1>2. IInv => WalkInside
  <2> SUFFICES ASSUME IInv, phase \in {"walk", "lazy_walk"}, ~WalkOver
               PROVE  /\ candidate \in Nat /\ at + best.length < Size
                      /\ candidate < at =>
                            candidate + best.length < Size /\ candidate + 1 < Size
    BY DEF WalkInside
  <2>1. /\ at \in Nat /\ Size \in Nat /\ at + MinMatch <= Size /\ candidate \in 0..at
        /\ best.length \in Nat /\ best.length < MaxLength(at)
    BY WalkFacts
  <2>2. best.length < Size - at  BY <2>1 DEF MaxLength
  <2> QED  BY ONLY <2>1, <2>2, Lz77Assumption
<1>3. IInv => InsertInside /\ WalkInside  BY <1>1, <1>2
<1> QED  BY <1>3, EncoderInvariant, PTL
=============================================================================
