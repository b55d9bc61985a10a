------------------------- MODULE HuffmanTableProofs -------------------------
(***************************************************************************)
(* make_decode_table and decode_symbol, for every number of symbols, every *)
(* size of the root and all lengths: the table is a tree whose entries     *)
(* stand for the bits that lead to them.                                   *)
(*                                                                         *)
(* Codes are measured in places: a code of l bits takes 2^(16 - l) of the  *)
(* 2^16 there are, and the codes lie side by side in the order in which    *)
(* they are placed.  Behind the first k of them begins Begin(lengths, k):  *)
(* the entries in front of that place hold symbols, those behind are free. *)
(***************************************************************************)
EXTENDS HuffmanTable, HuffmanCodesProofs

-----------------------------------------------------------------------------
(* Powers of two *)

LEMMA PowerSum ==
    ASSUME NEW a \in 0..16, NEW b \in 0..(16 - a)
    PROVE  /\ 2^a \in Nat \ {0} /\ 2^b \in Nat \ {0} /\ 2^(a + b) \in Nat \ {0}
           /\ 2^(a + b) = 2^a * 2^b
<1> DEFINE Bad == {e \in 0..(16 - a) : ~(2^(a + e) = 2^a * 2^e)}
<1>1. 2^a \in Nat \ {0} /\ 2^b \in Nat \ {0}
  <2>1. b \in 0..16  OBVIOUS
  <2> QED  BY <2>1, Doubled
<1>2. Bad = {}
  <2> SUFFICES ASSUME Bad # {}  PROVE FALSE  OBVIOUS
  <2>1. PICK e \in Bad : \A x \in Bad : e <= x
    <3>1. Bad \in SUBSET Nat  OBVIOUS
    <3> HIDE DEF Bad
    <3> QED  BY <3>1, LeastNat
  <2>2. e \in 0..(16 - a) /\ ~(2^(a + e) = 2^a * 2^e)  OBVIOUS
  <2>3. CASE e = 0
    <3>1. 2^0 = 1 /\ a + 0 = a  BY SMT
    <3> DEFINE p == 2^a
    <3>2. p \in Nat  BY <1>1
    <3> HIDE DEF p
    <3>3. p * 1 = p  BY ONLY <3>2
    <3> QED  BY <2>2, <2>3, <3>1, <3>3 DEF p
  <2>4. CASE e # 0
    <3> DEFINE c == e - 1
    <3>1. c \in 0..(16 - a) /\ ~(e <= c) /\ c \in 0..16 /\ a + c \in 0..16
          /\ c + 1 = e /\ (a + c) + 1 = a + e
      BY <2>2, <2>4
    <3>2. 2^(a + c) = 2^a * 2^c  BY <2>1, <3>1
    <3>3. 2^c \in Nat /\ 2^e = 2 * 2^c /\ 2^(a + e) = 2 * 2^(a + c)
      <4>1. 2^c \in Nat /\ 2^(c + 1) = 2 * 2^c  BY <3>1, Doubled
      <4>2. 2^((a + c) + 1) = 2 * 2^(a + c)  BY <3>1, Doubled
      <4> QED  BY <3>1, <4>1, <4>2
    <3> DEFINE p == 2^a
               q == 2^c
    <3>4. p \in Nat /\ q \in Nat  BY <1>1, <3>3
    <3> HIDE DEF p, q
    <3>5. 2 * (p * q) = p * (2 * q)  BY ONLY <3>4, SMT
    <3> QED  BY <2>2, <3>2, <3>3, <3>5 DEF p, q
  <2> QED  BY <2>3, <2>4
<1>3. 2^(a + b) = 2^a * 2^b  BY <1>2
<1>4. 2^(a + b) \in Nat \ {0}
  <2>1. a + b \in 0..16  OBVIOUS
  <2> QED  BY <2>1, Doubled
<1> QED  BY <1>1, <1>3, <1>4

-----------------------------------------------------------------------------
(* Reversing bits *)

LEMMA ReverseStep ==
    ASSUME NEW v \in Nat, NEW n \in 1..16
    PROVE  /\ ReverseBits(v, 0) = 0
           /\ ReverseBits(v, n) = 2 * ReverseBits(v, n - 1) + Bit(v, n)
           /\ ReverseBits(v, n - 1) \in Nat
<1> DEFINE body(f, i) == IF i = 0 THEN 0 ELSE 2 * f[i - 1] + Bit(v, i)
<1>1. n \in 0..16 /\ n - 1 \in 0..16 /\ 0 \in 0..16  OBVIOUS
<1>2. PICK f : Reversing(f, v, n) /\ ReverseBits(v, n) = f[n]  BY <1>1, ReverseFacts
<1>3. PICK g : Reversing(g, v, n - 1) /\ ReverseBits(v, n - 1) = g[n - 1]  BY <1>1, ReverseFacts
<1>4. PICK h : Reversing(h, v, 0) /\ ReverseBits(v, 0) = h[0]  BY <1>1, ReverseFacts
<1> DEFINE Bad == {i \in 0..(n - 1) : ~(f[i] = g[i])}
<1>5. Bad = {}
  <2> SUFFICES ASSUME Bad # {}  PROVE FALSE  OBVIOUS
  <2>1. PICK k \in Bad : \A j \in Bad : k <= j
    <3>1. Bad \in SUBSET Nat  OBVIOUS
    <3> HIDE DEF Bad
    <3> QED  BY <3>1, LeastNat
  <2>2. k \in 0..(n - 1) /\ ~(f[k] = g[k])  OBVIOUS
  <2>3. k # 0  BY <1>2, <1>3, <2>2 DEF Reversing
  <2>4. k - 1 \in 0..(n - 1) /\ ~(k <= k - 1) /\ k \in 1..n /\ k \in 1..(n - 1)  BY <2>2, <2>3
  <2>5. f[k - 1] = g[k - 1]  BY <2>1, <2>4
  <2> QED  BY <1>2, <1>3, <2>2, <2>4, <2>5 DEF Reversing
<1>6. f[n - 1] = g[n - 1]
  <2>1. n - 1 \in 0..(n - 1)  OBVIOUS
  <2> QED  BY <1>5, <2>1
<1>7. n \in 1..n /\ n - 1 \in 0..(n - 1)  OBVIOUS
<1> QED  BY <1>2, <1>3, <1>4, <1>6, <1>7 DEF Reversing

\* A claim about reversed bits, from each number of bits to the next.
LEMMA ReverseType ==
    ASSUME NEW v \in Nat, NEW n \in 0..16
    PROVE  ReverseBits(v, n) \in Nat /\ ReverseBits(v, n) < 2^n
<1> DEFINE R(i) == ReverseBits(v, i)
           Bad == {i \in 0..n : ~(R(i) \in Nat /\ R(i) < 2^i)}
<1>1. Bad = {}
  <2> SUFFICES ASSUME Bad # {}  PROVE FALSE  OBVIOUS
  <2>1. PICK k \in Bad : \A j \in Bad : k <= j
    <3>1. Bad \in SUBSET Nat  OBVIOUS
    <3> HIDE DEF Bad
    <3> QED  BY <3>1, LeastNat
  <2>2. k \in 0..n /\ ~(R(k) \in Nat /\ R(k) < 2^k)  OBVIOUS
  <2>3. CASE k = 0
    <3>1. R(0) = 0
      <4>1. 1 \in 1..16  OBVIOUS
      <4> QED  BY <4>1, ReverseStep
    <3>2. 0 < 2^0  BY SMT
    <3> QED  BY <2>2, <2>3, <3>1, <3>2
  <2>4. CASE k # 0
    <3> DEFINE c == k - 1
    <3>1. c \in 0..n /\ ~(k <= c) /\ k \in 1..16 /\ c \in 0..16 /\ c + 1 = k  BY <2>2, <2>4
    <3>2. R(c) \in Nat /\ R(c) < 2^c  BY <2>1, <3>1
    <3>3. R(k) = 2 * R(c) + Bit(v, k)  BY <3>1, ReverseStep
    <3>4. Bit(v, k) \in {0, 1}  BY <3>1, BitFacts
    <3>5. 2^c \in Nat /\ 2^k = 2 * 2^c  BY <3>1, Doubled
    <3> DEFINE a == R(c)
               x == R(k)
               b == Bit(v, k)
               p == 2^c
               q == 2^k
    <3>6. /\ a \in Nat /\ a < p /\ p \in Nat /\ x = 2 * a + b /\ b \in {0, 1} /\ q = 2 * p
          /\ ~(x \in Nat /\ x < q)
      BY <2>2, <3>2, <3>3, <3>4, <3>5
    <3> HIDE DEF a, x, b, p, q
    <3> QED  BY ONLY <3>6
  <2> QED  BY <2>3, <2>4
<1>2. n \in 0..n  OBVIOUS
<1> QED  BY <1>1, <1>2

\* A lowest bit in front of the others becomes the highest one.
LEMMA ReverseAppend ==
    ASSUME NEW w \in Nat, NEW b \in {0, 1}, NEW n \in 1..16
    PROVE  ReverseBits(2 * w + b, n) = b * 2^(n - 1) + ReverseBits(w, n - 1)
<1> DEFINE v == 2 * w + b
           Holds(i) == ReverseBits(v, i) = b * 2^(i - 1) + ReverseBits(w, i - 1)
           Bad == {i \in 1..n : ~Holds(i)}
<1>0. v \in Nat  OBVIOUS
<1> HIDE DEF v
<1>1. Bad = {}
  <2> SUFFICES ASSUME Bad # {}  PROVE FALSE  OBVIOUS
  <2>1. PICK k \in Bad : \A j \in Bad : k <= j
    <3>1. Bad \in SUBSET Nat  OBVIOUS
    <3> HIDE DEF Bad
    <3> QED  BY <3>1, LeastNat
  <2>2. k \in 1..n /\ ~Holds(k) /\ k \in 1..16  OBVIOUS
  <2>3. CASE k = 1
    <3>0. 1 \in 1..16 /\ 1 - 1 = 0  OBVIOUS
    <3>1. ReverseBits(v, 0) = 0 /\ ReverseBits(v, 1) = 2 * ReverseBits(v, 0) + Bit(v, 1)
      BY <1>0, <3>0, ReverseStep
    <3>2. ReverseBits(w, 0) = 0  BY <3>0, ReverseStep
    <3>3. Bit(v, 1) = b
      <4>1. 2^0 = 1  BY SMT
      <4>2. Bit(v, 1) = (v \div 1) % 2  BY <3>0, <4>1 DEF Bit
      <4>3. v \div 1 = v  BY <1>0, SMT
      <4>4. v % 2 = b
        <5>1. (2 * w) % 2 = 0 /\ (2 * w + 1) % 2 = 1  BY SMT
        <5>2. b = 0 \/ b = 1  OBVIOUS
        <5>4. b = 0 => v = 2 * w  BY DEF v
        <5>5. b = 1 => v = 2 * w + 1  BY DEF v
        <5> QED  BY <5>1, <5>2, <5>4, <5>5
      <4> QED  BY <4>2, <4>3, <4>4
    <3>4. b * 2^0 = b  BY SMT
    <3> QED  BY <2>2, <2>3, <3>0, <3>1, <3>2, <3>3, <3>4
  <2>4. CASE k # 1
    <3> DEFINE c == k - 1
    <3>1. c \in 1..n /\ ~(k <= c) /\ c \in 1..16 /\ c \in 0..16 /\ c - 1 \in 0..16 /\ (c - 1) + 1 = c
          /\ k - 1 = c
      BY <2>2, <2>4
    <3>2. Holds(c)  BY <2>1, <3>1
    <3>3. ReverseBits(v, k) = 2 * ReverseBits(v, c) + Bit(v, k)  BY <1>0, <2>2, ReverseStep
    <3>4. ReverseBits(w, c) = 2 * ReverseBits(w, c - 1) + Bit(w, c) /\ ReverseBits(w, c - 1) \in Nat
      BY <3>1, ReverseStep
    <3>5. Bit(v, k) = Bit(w, c)
      <4> DEFINE p == 2^(c - 1)
      <4>1. p \in Nat \ {0} /\ 2^c = 2 * p  BY <3>1, Doubled
      <4>2. Bit(v, k) = (v \div (2 * p)) % 2 /\ Bit(w, c) = (w \div p) % 2  BY <3>1, <4>1 DEF Bit
      <4> HIDE DEF p
      <4>3. v \div (2 * p) = w \div p
        <5> DEFINE y == w \div p
        <5>1. y \in Nat /\ y * p <= w /\ w < y * p + p  BY ONLY <4>1, w \in Nat, SMT
        <5> HIDE DEF y
        <5>2. y * (2 * p) <= v /\ v < y * (2 * p) + 2 * p
          <6>1. y * (2 * p) = 2 * (y * p) /\ y * p \in Nat  BY ONLY <4>1, <5>1, SMT
          <6> DEFINE z == y * p
          <6>2. z \in Nat /\ p \in Nat /\ z <= w /\ w < z + p  BY <4>1, <5>1, <6>1
          <6> HIDE DEF z
          <6>3. 2 * z <= v /\ v < 2 * z + 2 * p  BY <6>2 DEF v
          <6> QED  BY <6>1, <6>3 DEF z
        <5>3. v \div (2 * p) = y
          <6> DEFINE q == 2 * p
          <6>1. q \in Nat \ {0} /\ y * q <= v /\ v < y * q + q  BY <4>1, <5>2
          <6> HIDE DEF q
          <6>2. v \div q = y  BY ONLY <1>0, <5>1, <6>1, SMT
          <6> QED  BY <6>2 DEF q
        <5> QED  BY <5>3 DEF y
      <4> QED  BY <4>2, <4>3
    <3>6. 2^(c - 1) \in Nat /\ 2^c = 2 * 2^(c - 1)  BY <3>1, Doubled
    <3> DEFINE p == 2^(c - 1)
               a == ReverseBits(w, c - 1)
               d == Bit(w, c)
    <3>7. p \in Nat /\ a \in Nat /\ d \in Nat
      <4>1. d \in {0, 1}  BY <3>1, BitFacts
      <4> QED  BY <3>4, <3>6, <4>1
    <3>8. ReverseBits(v, c) = b * p + a /\ ReverseBits(w, c) = 2 * a + d
          /\ ReverseBits(v, k) = 2 * ReverseBits(v, c) + d
          /\ ~(ReverseBits(v, k) = b * (2 * p) + ReverseBits(w, c))
      BY <2>2, <3>1, <3>2, <3>3, <3>4, <3>5, <3>6
    <3> HIDE DEF p, a, d
    <3>9. 2 * (b * p + a) + d = b * (2 * p) + (2 * a + d)  BY ONLY <3>7, b \in {0, 1}, SMT
    <3> QED  BY <3>8, <3>9
  <2> QED  BY <2>3, <2>4
<1>2. n \in 1..n  OBVIOUS
<1>3. Holds(n)  BY <1>1, <1>2
<1> QED  BY <1>3 DEF v

\* The low bits of a number, one more at a time.
LEMMA LowBits ==
    ASSUME NEW v \in Nat, NEW k \in 1..16
    PROVE  v % 2^k = Bit(v, k) * 2^(k - 1) + (v % 2^(k - 1))
<1> DEFINE p == 2^(k - 1)
           b == Bit(v, k)
           a == v \div p
           q == 2^k
           y == v \div q
<1>1. k - 1 \in 0..16 /\ (k - 1) + 1 = k  OBVIOUS
<1>2. p \in Nat \ {0} /\ q = 2 * p  BY <1>1, Doubled
<1>3. b \in {0, 1} /\ y \in Nat /\ a = 2 * y + b  BY BitFacts
<1> HIDE DEF b, q, p
<1>4. v = a * p + (v % p) /\ v % p \in Nat /\ v % p < p  BY ONLY <1>2, v \in Nat, SMT
<1> HIDE DEF a, y
<1> DEFINE r == v % p
           z == y * p
<1>5. a * p = 2 * z + b * p /\ z \in Nat /\ y * q = 2 * z  BY ONLY <1>2, <1>3, SMT
<1>6. v = y * q + (b * p + r) /\ b * p + r \in 0..(q - 1)
  <2>1. b * p \in {0, p}  BY ONLY <1>2, <1>3
  <2> DEFINE x == b * p
             e == a * p
             f == y * q
  <2>2. x \in {0, p} /\ e = 2 * z + x /\ f = 2 * z /\ v = e + r /\ r \in Nat /\ r < p /\ z \in Nat
        /\ p \in Nat /\ q = 2 * p
    BY <1>2, <1>4, <1>5, <2>1
  <2> HIDE DEF x, e, f, r, z
  <2>3. v = f + (x + r) /\ x + r \in 0..(q - 1)  BY ONLY <2>2
  <2> QED  BY <2>3 DEF x, f
<1> HIDE DEF r
<1>7. v % q = b * p + r
  <2> DEFINE x == b * p + r
  <2>1. x \in 0..(q - 1) /\ v = y * q + x  BY <1>6
  <2> HIDE DEF x
  <2>2. q \in Nat \ {0}  BY <1>2
  <2>3. v % q = x  BY ONLY <1>3, <2>1, <2>2, v \in Nat, SMT
  <2> QED  BY <2>3 DEF x
<1> QED  BY <1>7 DEF q, p, b, r

\* Reversed twice, the low bits are as they were.
LEMMA ReverseTwice ==
    ASSUME NEW v \in Nat, NEW n \in 0..16
    PROVE  ReverseBits(ReverseBits(v, n), n) = v % 2^n
<1> DEFINE R(i) == ReverseBits(v, i)
           Holds(i) == ReverseBits(R(i), i) = v % 2^i
           Bad == {i \in 0..n : ~Holds(i)}
<1>1. Bad = {}
  <2> SUFFICES ASSUME Bad # {}  PROVE FALSE  OBVIOUS
  <2>1. PICK k \in Bad : \A j \in Bad : k <= j
    <3>1. Bad \in SUBSET Nat  OBVIOUS
    <3> HIDE DEF Bad
    <3> QED  BY <3>1, LeastNat
  <2>2. k \in 0..n /\ ~Holds(k)  OBVIOUS
  <2>3. CASE k = 0
    <3>0. 1 \in 1..16  OBVIOUS
    <3>1. R(0) = 0  BY <3>0, ReverseStep
    <3>2. ReverseBits(0, 0) = 0  BY <3>0, ReverseStep
    <3>3. 2^0 = 1 /\ v % 1 = 0  BY SMT
    <3> QED  BY <2>2, <2>3, <3>1, <3>2, <3>3
  <2>4. CASE k # 0
    <3> DEFINE c == k - 1
    <3>1. c \in 0..n /\ ~(k <= c) /\ k \in 1..16 /\ c \in 0..16 /\ c + 1 = k  BY <2>2, <2>4
    <3>2. Holds(c)  BY <2>1, <3>1
    <3>3. R(k) = 2 * R(c) + Bit(v, k) /\ R(c) \in Nat  BY <3>1, ReverseStep
    <3>4. Bit(v, k) \in {0, 1}  BY <3>1, BitFacts
    <3>5. ReverseBits(R(k), k) = Bit(v, k) * 2^c + ReverseBits(R(c), c)
      <4>1. ReverseBits(2 * R(c) + Bit(v, k), k) = Bit(v, k) * 2^(k - 1) + ReverseBits(R(c), k - 1)
        BY <3>1, <3>3, <3>4, ReverseAppend
      <4> QED  BY <3>3, <4>1
    <3>6. v % 2^k = Bit(v, k) * 2^c + (v % 2^c)  BY <3>1, LowBits
    <3> QED  BY <2>2, <3>2, <3>5, <3>6
  <2> QED  BY <2>3, <2>4
<1>2. n \in 0..n  OBVIOUS
<1> QED  BY <1>1, <1>2

LEMMA Divided ==
    ASSUME NEW x \in Nat, NEW d \in Nat \ {0}
    PROVE  /\ x = (x \div d) * d + (x % d) /\ x \div d \in Nat
           /\ x % d \in Nat /\ x % d < d
BY SMT

LEMMA QuotientIs ==
    ASSUME NEW x \in Nat, NEW d \in Nat \ {0}, NEW y \in Nat, NEW r \in Nat, r < d, x = y * d + r
    PROVE  x \div d = y /\ x % d = r
BY SMT

\* The first bits of the stream are the high bits of the reversed number.
LEMMA ReverseFirst ==
    ASSUME NEW v \in Nat, NEW l \in 0..16, NEW e \in 0..(16 - l)
    PROVE  /\ ReverseBits(v, l + e) \div 2^e = ReverseBits(v, l)
           /\ v < 2^l => ReverseBits(v, l + e) = ReverseBits(v, l) * 2^e
<1> DEFINE c == ReverseBits(v, l)
           R(i) == ReverseBits(v, l + i)
           Holds(i) == /\ c * 2^i <= R(i) /\ R(i) < c * 2^i + 2^i
                       /\ v < 2^l => R(i) = c * 2^i
           Bad == {i \in 0..e : ~Holds(i)}
<1>1. c \in Nat  BY ReverseType
<1>2. \A i \in 0..e : R(i) \in Nat /\ 2^i \in Nat \ {0}
  <2> SUFFICES ASSUME NEW i \in 0..e  PROVE R(i) \in Nat /\ 2^i \in Nat \ {0}  OBVIOUS
  <2>1. l + i \in 0..16 /\ i \in 0..16  OBVIOUS
  <2> QED  BY <2>1, ReverseType, Doubled
<1>3. Bad = {}
  <2> SUFFICES ASSUME Bad # {}  PROVE FALSE  OBVIOUS
  <2>1. PICK k \in Bad : \A j \in Bad : k <= j
    <3>1. Bad \in SUBSET Nat  OBVIOUS
    <3> HIDE DEF Bad
    <3> QED  BY <3>1, LeastNat
  <2>2. k \in 0..e /\ ~Holds(k)  OBVIOUS
  <2>3. CASE k = 0
    <3>1. 2^0 = 1 /\ l + 0 = l  BY SMT
    <3>2. c * 1 = c  BY <1>1
    <3>3. R(0) = c /\ c * 2^0 = c  BY <3>1, <3>2
    <3>4. c <= c /\ c < c + 1  BY <1>1
    <3>5. Holds(0)  BY <3>1, <3>3, <3>4
    <3> QED  BY <2>2, <2>3, <3>5
  <2>4. CASE k # 0
    <3> DEFINE j == k - 1
    <3>1. j \in 0..e /\ ~(k <= j) /\ j \in 0..16 /\ j + 1 = k /\ l + k \in 1..16 /\ (l + k) - 1 = l + j
      BY <2>2, <2>4
    <3>2. Holds(j)  BY <2>1, <3>1
    <3> DEFINE b == Bit(v, l + k)
               p == 2^j
               x == R(j)
               y == R(k)
    <3>3. y = 2 * x + b
      <4>1. ReverseBits(v, l + k) = 2 * ReverseBits(v, (l + k) - 1) + Bit(v, l + k)
        BY <3>1, ReverseStep
      <4> QED  BY <3>1, <4>1
    <3>4. b \in {0, 1}  BY <3>1, BitFacts
    <3>5. p \in Nat \ {0} /\ 2^k = 2 * p  BY <3>1, Doubled
    <3>6. v < 2^l => b = 0
      <4> SUFFICES ASSUME v < 2^l  PROVE b = 0  OBVIOUS
      <4>0. j \in 0..(16 - l)  BY <3>1
      <4>1. 2^l \in Nat \ {0} /\ 2^(l + j) = 2^l * p  BY <4>0, PowerSum
      <4> DEFINE q == 2^l
                 r == 2^(l + j)
      <4>2. q \in Nat /\ r = q * p /\ v < q  BY <4>1
      <4> HIDE DEF p, q, r
      <4>3. q * p >= q  BY ONLY <3>5, <4>2, SMT
      <4>4. v < r /\ r \in Nat /\ r # 0  BY <3>5, <4>2, <4>3
      <4>5. v \div r = 0 /\ 0 % 2 = 0  BY ONLY <4>4, v \in Nat, SMT
      <4>6. b = (v \div r) % 2  BY <3>1 DEF Bit, r
      <4> QED  BY <4>5, <4>6
    <3>7. /\ x \in Nat /\ y \in Nat /\ c * p <= x /\ x < c * p + p
          /\ v < 2^l => x = c * p
      BY <1>2, <2>2, <3>1, <3>2
    <3>8. ~(c * (2 * p) <= y /\ y < c * (2 * p) + 2 * p /\ (v < 2^l => y = c * (2 * p)))
      BY <2>2, <3>5
    <3> HIDE DEF b, p, x, y, c
    <3> DEFINE z == c * p
    <3>9. c * (2 * p) = 2 * z /\ z \in Nat  BY ONLY <1>1, <3>5, SMT
    <3>10. /\ z <= x /\ x < z + p /\ (v < 2^l => x = z)
           /\ ~(2 * z <= y /\ y < 2 * z + 2 * p /\ (v < 2^l => y = 2 * z))
      BY <3>7, <3>8, <3>9
    <3> HIDE DEF z
    <3> QED  BY <3>3, <3>4, <3>5, <3>6, <3>7, <3>9, <3>10
  <2> QED  BY <2>3, <2>4
<1>4. Holds(e)
  <2>1. e \in 0..e  OBVIOUS
  <2> QED  BY <1>3, <2>1
<1> DEFINE q == 2^e
           y == R(e)
<1>5. q \in Nat \ {0} /\ y \in Nat /\ c * q <= y /\ y < c * q + q  BY <1>2, <1>4
<1>6. y \div q = c
  <2> HIDE DEF q, y, c
  <2> QED  BY ONLY <1>1, <1>5, SMT
<1> QED  BY <1>4, <1>6

\* Numbers of n bits are reversed to numbers of n bits and back.
LEMMA ReverseRange ==
    ASSUME NEW n \in 0..16, NEW v \in 0..(2^n - 1)
    PROVE  ReverseBits(v, n) \in 0..(2^n - 1) /\ ReverseBits(ReverseBits(v, n), n) = v
<1> DEFINE q == 2^n
           x == ReverseBits(v, n)
<1>1. q \in Nat \ {0}  BY Doubled
<1>2. v \in Nat /\ v < q  BY <1>1
<1>3. x \in Nat /\ x < q  BY <1>2, ReverseType
<1>4. ReverseBits(x, n) = v % q  BY <1>2, ReverseTwice
<1> HIDE DEF q, x
<1>5. v % q = v  BY ONLY <1>1, <1>2, SMT
<1>6. x \in 0..(q - 1)  BY ONLY <1>1, <1>3
<1> QED  BY <1>4, <1>5, <1>6 DEF q, x

\* make_decode_table, pass 1: the entries filled for a code of l bits are those
\* whose reversed numbers begin with it.
LEMMA FilledEntries ==
    ASSUME NEW n \in 0..16, NEW l \in 0..n, NEW code \in 0..(2^l - 1)
    PROVE  {ReverseBits(code * 2^(n - l), n) + k * 2^l : k \in 0..(2^(n - l) - 1)}
              = {i \in 0..(2^n - 1) : ReverseBits(i, n) \div 2^(n - l) = code}
<1> DEFINE a == n - l
           p == 2^l
           q == 2^a
           N == 2^n
           w == ReverseBits(code, l)
<1>1. l \in 0..16 /\ a \in 0..(16 - l) /\ l + a = n /\ a \in 0..16  OBVIOUS
<1>2. p \in Nat \ {0} /\ q \in Nat \ {0} /\ N = p * q /\ N \in Nat \ {0}
  <2>1. 2^l \in Nat \ {0} /\ 2^a \in Nat \ {0} /\ 2^(l + a) \in Nat \ {0} /\ 2^(l + a) = 2^l * 2^a
    BY <1>1, PowerSum
  <2> QED  BY <1>1, <2>1
<1>3. w \in 0..(p - 1) /\ ReverseBits(w, l) = code  BY <1>1, ReverseRange
<1> HIDE DEF a
<1>4. ReverseBits(code * q, n) = w
  <2>1. w \in Nat /\ w < p  BY <1>2, <1>3
  <2>2. ReverseBits(w, l + a) = ReverseBits(w, l) * 2^a  BY <1>1, <2>1, ReverseFirst
  <2>3. ReverseBits(w, n) = code * q  BY <1>1, <1>3, <2>2
  <2>4. w \in 0..(N - 1)
    <3> HIDE DEF p, q, N, w
    <3>1. p * q >= p  BY ONLY <1>2, SMT
    <3>2. p <= N  BY <1>2, <3>1
    <3> QED  BY ONLY <1>2, <2>1, <3>2
  <2>5. ReverseBits(ReverseBits(w, n), n) = w  BY <2>4, ReverseRange
  <2> QED  BY <2>3, <2>5
<1>5. \A i \in Nat : ReverseBits(i, n) \div q = ReverseBits(i, l)
  <2> SUFFICES ASSUME NEW i \in Nat  PROVE ReverseBits(i, n) \div q = ReverseBits(i, l)  OBVIOUS
  <2>1. ReverseBits(i, l + a) \div 2^a = ReverseBits(i, l)  BY <1>1, ReverseFirst
  <2> QED  BY <1>1, <2>1
<1>6. \A i \in Nat : ReverseBits(i, l) = code <=> i % p = w
  <2> SUFFICES ASSUME NEW i \in Nat  PROVE ReverseBits(i, l) = code <=> i % p = w  OBVIOUS
  <2> DEFINE x == ReverseBits(i, l)
  <2>1. ReverseBits(x, l) = i % p  BY <1>1, ReverseTwice
  <2>2. x \in 0..(p - 1)
    <3>1. x \in Nat /\ x < p  BY <1>1, ReverseType
    <3> HIDE DEF x, p
    <3> QED  BY <1>2, <3>1
  <2>3. x = code => i % p = w  BY <2>1
  <2>4. i % p = w => x = code
    <3> SUFFICES ASSUME i % p = w  PROVE x = code  OBVIOUS
    <3>1. ReverseBits(x, l) = ReverseBits(code, l)  BY <2>1
    <3> HIDE DEF x
    <3>2. x \in 0..(2^l - 1)  BY <2>2
    <3> QED  BY <1>1, <3>1, <3>2, ReverseInjective
  <2> QED  BY <2>3, <2>4
<1> HIDE DEF p, q, N, w
<1>7. \A i \in 0..(N - 1) : i % p = w => \E k \in 0..(q - 1) : i = w + k * p
  <2> SUFFICES ASSUME NEW i \in 0..(N - 1), i % p = w  PROVE \E k \in 0..(q - 1) : i = w + k * p
    OBVIOUS
  <2> DEFINE k == i \div p
  <2>0. i \in Nat /\ i < N  BY <1>2
  <2>1. i = k * p + w /\ k \in Nat  BY <1>2, <2>0, Divided
  <2> HIDE DEF k
  <2>2. k < q
    <3> SUFFICES ASSUME k >= q  PROVE FALSE  BY <1>2, <2>1
    <3>1. k * p >= p * q  BY ONLY <1>2, <2>1, k >= q, SMT
    <3> DEFINE x == k * p
    <3>2. x \in Nat /\ x >= N /\ i = x + w /\ w \in Nat
      <4>1. k * p \in Nat  BY ONLY <1>2, <2>1, SMT
      <4> QED  BY <1>2, <1>3, <2>1, <3>1, <4>1
    <3> HIDE DEF x
    <3> QED  BY <1>2, <2>0, <3>2
  <2>3. k \in 0..(q - 1) /\ i = w + k * p
    <3>1. k * p \in Nat  BY ONLY <1>2, <2>1, SMT
    <3> QED  BY <1>2, <1>3, <2>1, <2>2, <3>1
  <2> QED  BY <2>3
<1>8. \A k \in 0..(q - 1) : w + k * p \in 0..(N - 1) /\ (w + k * p) % p = w
  <2> SUFFICES ASSUME NEW k \in 0..(q - 1)
               PROVE  w + k * p \in 0..(N - 1) /\ (w + k * p) % p = w
    OBVIOUS
  <2>1. k \in Nat /\ k + 1 <= q /\ w \in Nat /\ w < p  BY <1>2, <1>3
  <2>2. k * p \in Nat /\ k * p + p <= p * q  BY ONLY <1>2, <2>1, SMT
  <2> DEFINE x == w + k * p
  <2>3. x \in Nat /\ x = k * p + w  BY <2>1, <2>2
  <2>4. x \in 0..(N - 1)  BY <1>2, <2>1, <2>2
  <2> HIDE DEF x
  <2>5. x % p = w  BY <1>2, <2>1, <2>3, QuotientIs
  <2> QED  BY <2>4, <2>5 DEF x
<1> DEFINE A == {w + k * p : k \in 0..(q - 1)}
           B == {i \in 0..(N - 1) : i % p = w}
<1>9. A = B  BY <1>7, <1>8
<1>10. \A i \in 0..(N - 1) : i \in Nat  BY <1>2
<1>11. B = {i \in 0..(N - 1) : ReverseBits(i, n) \div q = code}  BY <1>5, <1>6, <1>10
<1> QED  BY <1>4, <1>9, <1>11 DEF p, q, N, a

-----------------------------------------------------------------------------
(* Where the codes lie *)

\* Codes take their room in the order of the loops: where the code behind the
\* first k begins, in units of a code of 16 bits.
First(lens, s) == CanonicalCode(lens, s) * 2^(16 - lens[s])
Begin(lens, k) ==
    IF k < Occurring(lens) THEN First(lens, Sorted(lens)[k + 1]) ELSE Room(lens)[16]

LEMMA LengthsAreFreqs ==
    ASSUME NEW lens, IsLengths(lens)
    PROVE  /\ IsFreqs(lens) /\ Active(lens) = Coded(lens) /\ IsFiniteSet(DOMAIN lens)
           /\ \A s \in Coded(lens) : s \in DOMAIN lens /\ s \in Nat /\ lens[s] \in 1..16
<1>1. \A s \in DOMAIN lens : s \in Nat /\ lens[s] \in 0..16  BY DEF IsLengths
<1> QED  BY <1>1 DEF IsLengths, IsFreqs, Active, Coded

LEMMA RoomFacts ==
    ASSUME NEW lens, IsLengths(lens)
    PROVE  LET room == Room(lens)
           IN  /\ room \in [0..16 -> Nat] /\ room[0] = 0
               /\ \A l \in 1..16 :
                     room[l] = room[l - 1] + Cardinality(OfLength(lens, l)) * 2^(16 - l)
<1> DEFINE size(l) == Cardinality(OfLength(lens, l)) * 2^(16 - l)
           step == [p \in (1..16) \X Nat |-> p[2] + size(p[1])]
           Is(f) == f = [l \in 0..16 |-> IF l = 0 THEN 0 ELSE f[l - 1] + size(l)]
<1>1. \A l \in 1..16 : size(l) \in Nat
  <2> SUFFICES ASSUME NEW l \in 1..16  PROVE size(l) \in Nat  OBVIOUS
  <2> DEFINE c == Cardinality(OfLength(lens, l))
             p == 2^(16 - l)
  <2>1. c \in Nat  BY OfLengthFinite, LengthsAreFreqs
  <2>2. p \in Nat
    <3>1. 16 - l \in 0..16  OBVIOUS
    <3> QED  BY <3>1, Doubled
  <2> HIDE DEF c, p
  <2>3. c * p \in Nat  BY ONLY <2>1, <2>2, SMT
  <2> QED  BY <2>3 DEF c, p
<1>2. Room(lens) = CHOOSE f : Is(f)  BY DEF Room
<1> HIDE DEF size
<1>3. step \in [(1..16) \X Nat -> Nat]
  <2> SUFFICES ASSUME NEW p \in (1..16) \X Nat  PROVE p[2] + size(p[1]) \in Nat  OBVIOUS
  <2>1. p[1] \in 1..16 /\ p[2] \in Nat  OBVIOUS
  <2>2. size(p[1]) \in Nat  BY <1>1, <2>1
  <2> QED  BY <2>1, <2>2
<1>4. \A l \in 1..16, x \in Nat : step[<<l, x>>] = x + size(l)  OBVIOUS
<1> HIDE DEF step
<1>5. PICK g : Recurs(g, 0, step, Nat, 16)  BY <1>3, Recursion
<1>6. g \in [0..16 -> Nat] /\ g[0] = 0 /\ \A l \in 1..16 : g[l] = step[<<l, g[l - 1]>>]
  BY <1>5 DEF Recurs
<1>7. \A l \in 0..16 : l # 0 => l \in 1..16 /\ l - 1 \in 0..16  OBVIOUS
<1>8. \A l \in 0..16 : g[l] = IF l = 0 THEN 0 ELSE g[l - 1] + size(l)  BY <1>4, <1>6, <1>7
<1>9. g = [l \in 0..16 |-> g[l]]  BY <1>6
<1>10. Is(g)  BY <1>8, <1>9
<1> DEFINE f == CHOOSE h : Is(h)
<1>11. Is(f)  BY <1>10
<1> HIDE DEF f
<1>12. f[0] = 0 /\ \A l \in 1..16 : f[l] = f[l - 1] + size(l)
  <2>1. 0 \in 0..16 /\ \A l \in 1..16 : l \in 0..16 /\ l # 0  OBVIOUS
  <2> QED  BY <1>11, <2>1
<1> DEFINE Bad == {l \in 0..16 : ~(f[l] \in Nat)}
<1>13. Bad = {}
  <2> SUFFICES ASSUME Bad # {}  PROVE FALSE  OBVIOUS
  <2>1. PICK k \in Bad : \A j \in Bad : k <= j
    <3>1. Bad \in SUBSET Nat  OBVIOUS
    <3> HIDE DEF Bad
    <3> QED  BY <3>1, LeastNat
  <2>2. k \in 0..16 /\ ~(f[k] \in Nat)  OBVIOUS
  <2>3. k # 0  BY <1>12, <2>2
  <2>4. k \in 1..16 /\ k - 1 \in 0..16 /\ ~(k <= k - 1)  BY <2>2, <2>3
  <2>5. f[k - 1] \in Nat /\ size(k) \in Nat  BY <1>1, <2>1, <2>4
  <2> QED  BY <1>12, <2>2, <2>4, <2>5
<1>14. f \in [0..16 -> Nat]
  <2>1. DOMAIN f = 0..16  BY <1>11
  <2>2. f = [l \in 0..16 |-> f[l]]  BY <1>11, <2>1
  <2>3. \A l \in 0..16 : f[l] \in Nat  BY <1>13
  <2> HIDE DEF Bad
  <2> QED  BY <2>2, <2>3
<1> QED  BY <1>2, <1>12, <1>14 DEF f, size

\* next_code is the room taken so far, in units of half a code of the length.
LEMMA RoomIsNextCode ==
    ASSUME NEW lens, IsLengths(lens), NEW l \in 0..16
    PROVE  2 * Room(lens)[l] = NextCode(lens)[l] * 2^(16 - l)
<1> DEFINE room == Room(lens)
           next == NextCode(lens)
           size(i) == Cardinality(OfLength(lens, i))
           Holds(i) == 2 * room[i] = next[i] * 2^(16 - i)
           Bad == {i \in 0..16 : ~Holds(i)}
<1>1. /\ room \in [0..16 -> Nat] /\ room[0] = 0
      /\ \A i \in 1..16 : room[i] = room[i - 1] + size(i) * 2^(16 - i)
  BY RoomFacts
<1>2. /\ next \in [0..16 -> Nat] /\ next[0] = 0
      /\ \A i \in 1..16 : next[i] = 2 * (next[i - 1] + size(i))
  BY NextCodeFacts, LengthsAreFreqs
<1>3. \A i \in 1..16 : size(i) \in Nat  BY OfLengthFinite, LengthsAreFreqs
<1> HIDE DEF room, next, size
<1>4. Bad = {}
  <2> SUFFICES ASSUME Bad # {}  PROVE FALSE  OBVIOUS
  <2>1. PICK k \in Bad : \A j \in Bad : k <= j
    <3>1. Bad \in SUBSET Nat  OBVIOUS
    <3> HIDE DEF Bad
    <3> QED  BY <3>1, LeastNat
  <2>2. k \in 0..16 /\ ~Holds(k)  OBVIOUS
  <2>3. k # 0
    <3>1. 16 - 0 \in 0..16  OBVIOUS
    <3> DEFINE p == 2^(16 - 0)
    <3>2. p \in Nat  BY <3>1, Doubled
    <3> HIDE DEF p
    <3>3. 2 * 0 = 0 * p  BY ONLY <3>2
    <3> QED  BY <1>1, <1>2, <2>2, <3>3 DEF p
  <2>4. k \in 1..16 /\ k - 1 \in 0..16 /\ ~(k <= k - 1) /\ 16 - k \in 0..16
        /\ (16 - k) + 1 = 16 - (k - 1)
    BY <2>2, <2>3
  <2>5. Holds(k - 1)  BY <2>1, <2>4
  <2>6. 2^(16 - k) \in Nat /\ 2^(16 - (k - 1)) = 2 * 2^(16 - k)
    <3>1. 2^(16 - k) \in Nat /\ 2^((16 - k) + 1) = 2 * 2^(16 - k)  BY <2>4, Doubled
    <3> QED  BY <2>4, <3>1
  <2> DEFINE a == room[k - 1]
             b == next[k - 1]
             x == room[k]
             y == next[k]
             c == size(k)
             p == 2^(16 - k)
  <2>7. /\ a \in Nat /\ b \in Nat /\ c \in Nat /\ p \in Nat
        /\ x = a + c * p /\ y = 2 * (b + c) /\ 2 * a = b * (2 * p) /\ ~(2 * x = y * p)
    BY <1>1, <1>2, <1>3, <2>2, <2>4, <2>5, <2>6
  <2> HIDE DEF a, b, x, y, c, p
  <2>8. 2 * (c * p) + b * (2 * p) = (2 * (b + c)) * p /\ c * p \in Nat  BY ONLY <2>7, SMT
  <2>9. 2 * x = y * p
    <3> DEFINE z == c * p
               w == b * (2 * p)
    <3>1. x = a + z /\ 2 * a = w /\ z \in Nat /\ 2 * z + w = y * p  BY <2>7, <2>8
    <3> HIDE DEF z, w
    <3> QED  BY <3>1, <2>7
  <2> QED  BY <2>7, <2>9
<1> QED  BY <1>4 DEF room, next

\* Lengths no symbol has take no room.
LEMMA RoomGap ==
    ASSUME NEW lens, IsLengths(lens), NEW a \in 0..16, NEW b \in a..16,
           \A l \in (a + 1)..b : OfLength(lens, l) = {}
    PROVE  Room(lens)[b] = Room(lens)[a]
<1> DEFINE room == Room(lens)
           Bad == {e \in 0..(b - a) : ~(room[a + e] = room[a])}
<1>1. /\ room \in [0..16 -> Nat]
      /\ \A i \in 1..16 : room[i] = room[i - 1] + Cardinality(OfLength(lens, i)) * 2^(16 - i)
  BY RoomFacts
<1> HIDE DEF room
<1>2. Bad = {}
  <2> SUFFICES ASSUME Bad # {}  PROVE FALSE  OBVIOUS
  <2>1. PICK k \in Bad : \A j \in Bad : k <= j
    <3>1. Bad \in SUBSET Nat  OBVIOUS
    <3> HIDE DEF Bad
    <3> QED  BY <3>1, LeastNat
  <2>2. k \in 0..(b - a) /\ ~(room[a + k] = room[a])  OBVIOUS
  <2>3. k # 0
    <3>1. a + 0 = a  OBVIOUS
    <3> QED  BY <2>2, <3>1
  <2>4. k - 1 \in 0..(b - a) /\ ~(k <= k - 1) /\ a + k \in (a + 1)..b /\ a + k \in 1..16
        /\ (a + k) - 1 = a + (k - 1) /\ 16 - (a + k) \in 0..16 /\ a + (k - 1) \in 0..16
    BY <2>2, <2>3
  <2>5. room[a + (k - 1)] = room[a]  BY <2>1, <2>4
  <2>6. Cardinality(OfLength(lens, a + k)) = 0  BY <2>4, FS_EmptySet
  <2> DEFINE p == 2^(16 - (a + k))
  <2>7. p \in Nat  BY <2>4, Doubled
  <2>8. room[a + k] = room[a + (k - 1)] + 0 * p  BY <1>1, <2>4, <2>6
  <2> HIDE DEF p
  <2>9. room[a + (k - 1)] \in Nat  BY <1>1, <2>4
  <2>10. room[a + k] = room[a + (k - 1)]  BY ONLY <2>7, <2>8, <2>9
  <2> QED  BY <2>2, <2>5, <2>10
<1>3. b - a \in 0..(b - a) /\ a + (b - a) = b  OBVIOUS
<1>4. room[a + (b - a)] = room[a]  BY <1>2, <1>3
<1> HIDE DEF Bad
<1>5. room[b] = room[a]  BY <1>3, <1>4
<1> QED  BY <1>5 DEF room

\* A code begins behind the shorter ones and those before it of its length.
LEMMA FirstIs ==
    ASSUME NEW lens, IsLengths(lens), NEW s \in Coded(lens)
    PROVE  First(lens, s) = Room(lens)[lens[s] - 1] + Place(lens, s) * 2^(16 - lens[s])
<1> DEFINE l == lens[s]
           a == Room(lens)[l - 1]
           b == NextCode(lens)[l - 1]
           c == Place(lens, s)
           p == 2^(16 - l)
<1>1. l \in 1..16 /\ c \in Nat  BY PlaceFacts
<1> HIDE DEF l
<1>2. l - 1 \in 0..16 /\ 16 - l \in 0..16 /\ (16 - l) + 1 = 16 - (l - 1)  BY <1>1
<1>3. p \in Nat /\ 2^(16 - (l - 1)) = 2 * p
  <2>1. 2^(16 - l) \in Nat /\ 2^((16 - l) + 1) = 2 * 2^(16 - l)  BY <1>2, Doubled
  <2> QED  BY <1>2, <2>1
<1>4. 2 * a = b * (2 * p)  BY <1>2, <1>3, RoomIsNextCode
<1>5. a \in Nat /\ b \in Nat
  <2>1. Room(lens) \in [0..16 -> Nat]  BY RoomFacts
  <2>2. NextCode(lens) \in [0..16 -> Nat]  BY NextCodeFacts, LengthsAreFreqs
  <2> QED  BY <1>2, <2>1, <2>2
<1>6. First(lens, s) = (b + c) * p  BY DEF First, CanonicalCode, Place, l
<1> HIDE DEF a, b, c, p
<1>7. b * (2 * p) = 2 * (b * p) /\ b * p \in Nat /\ (b + c) * p = b * p + c * p /\ c * p \in Nat
  BY ONLY <1>1, <1>3, <1>5, SMT
<1>8. (b + c) * p = a + c * p
  <2> DEFINE x == b * p
             z == c * p
  <2>1. x \in Nat /\ z \in Nat /\ 2 * a = 2 * x /\ (b + c) * p = x + z  BY <1>4, <1>7
  <2> HIDE DEF x, z
  <2>2. x = a  BY ONLY <2>1, <1>5
  <2> QED  BY <2>1, <2>2 DEF z
<1> QED  BY <1>6, <1>8 DEF a, c, p, l

\* The sorted codes, by their places in the list.
LEMMA OrderFacts ==
    ASSUME NEW lens, IsLengths(lens)
    PROVE  LET order == Sorted(lens)
               m == Occurring(lens)
           IN  /\ m \in Nat
               /\ \A k \in 1..m : order[k] \in Coded(lens)
               /\ \A s \in Coded(lens) : \E k \in 1..m : order[k] = s
               /\ \A j, k \in 1..m : Before(lens, order[j], order[k]) <=> j < k
               /\ \A j, k \in 1..m : j <= k => lens[order[j]] <= lens[order[k]]
<1> DEFINE order == Sorted(lens)
           m == Occurring(lens)
<1>1. IsFreqs(lens) /\ Active(lens) = Coded(lens)
      /\ \A s \in Coded(lens) : s \in Nat /\ lens[s] \in 1..16
  BY LengthsAreFreqs
<1>2. m \in Nat  BY <1>1, ActiveFacts
<1>3. /\ order \in [1..m -> Coded(lens)]
      /\ \A k \in 1..m : Rank(lens, order[k]) = k - 1
      /\ \A s \in Coded(lens) : order[Rank(lens, s) + 1] = s /\ Rank(lens, s) + 1 \in 1..m
      /\ \A j, k \in 1..m : j <= k => lens[order[j]] <= lens[order[k]]
  BY <1>1, SortedFacts
<1> HIDE DEF order, m
<1>4. \A j, k \in 1..m : Before(lens, order[j], order[k]) => j < k
  <2> SUFFICES ASSUME NEW j \in 1..m, NEW k \in 1..m, Before(lens, order[j], order[k])
               PROVE  j < k
    OBVIOUS
  <2>1. order[j] \in Active(lens) /\ order[k] \in Active(lens)  BY <1>1, <1>3
  <2>2. Rank(lens, order[j]) < Rank(lens, order[k])  BY <1>1, <2>1, RankGrows
  <2>3. j - 1 < k - 1  BY <1>3, <2>2
  <2> QED  BY <1>2, <2>3
<1>5. \A j, k \in 1..m : j < k => Before(lens, order[j], order[k])
  <2> SUFFICES ASSUME NEW j \in 1..m, NEW k \in 1..m, j < k
               PROVE  Before(lens, order[j], order[k])
    OBVIOUS
  <2> DEFINE s == order[j]
             t == order[k]
  <2>0. s \in Coded(lens) /\ t \in Coded(lens)  BY <1>3
  <2>1. s \in Nat /\ t \in Nat /\ lens[s] \in 1..16 /\ lens[t] \in 1..16  BY <1>1, <2>0
  <2>2. s # t
    <3>1. j - 1 # k - 1  BY <1>2
    <3> QED  BY <1>3, <3>1
  <2>3. ~Before(lens, t, s)  BY <1>2, <1>4
  <2> HIDE DEF s, t
  <2>4. Before(lens, s, t)  BY <2>1, <2>2, <2>3 DEF Before
  <2> QED  BY <2>4 DEF s, t
<1> QED  BY <1>2, <1>3, <1>4, <1>5 DEF order, m

\* The first k codes are those of up to l bits.
Cut(lens, k, l) ==
    \A j \in 1..Occurring(lens) : lens[Sorted(lens)[j]] <= l <=> j <= k

\* The code behind those of up to l bits begins where their room ends.
LEMMA BeginAtCut ==
    ASSUME NEW lens, IsLengths(lens), NEW k \in 0..Occurring(lens), NEW l \in 0..16,
           Cut(lens, k, l)
    PROVE  Begin(lens, k) = Room(lens)[l]
<1> DEFINE order == Sorted(lens)
           m == Occurring(lens)
           room == Room(lens)
<1>1. /\ m \in Nat
      /\ \A j \in 1..m : order[j] \in Coded(lens)
      /\ \A s \in Coded(lens) : \E j \in 1..m : order[j] = s
      /\ \A i, j \in 1..m : Before(lens, order[i], order[j]) <=> i < j
      /\ \A i, j \in 1..m : i <= j => lens[order[i]] <= lens[order[j]]
  BY OrderFacts
<1>2. \A j \in 1..m : lens[order[j]] <= l <=> j <= k  BY DEF Cut
<1>3. room \in [0..16 -> Nat]  BY RoomFacts
<1>4. \A s \in Coded(lens) : s \in Nat /\ lens[s] \in 1..16  BY LengthsAreFreqs
<1>5. \A s \in DOMAIN lens : lens[s] \in 0..16  BY DEF IsLengths
<1>6. CASE k < m
  <2> DEFINE t == order[k + 1]
             b == lens[t] - 1
  <2>1. k + 1 \in 1..m /\ ~(k + 1 <= k)  BY <1>1, <1>6
  <2>2. t \in Coded(lens) /\ lens[t] \in 1..16 /\ ~(lens[t] <= l)  BY <1>1, <1>2, <1>4, <2>1
  <2> DEFINE c == lens[t]
  <2>3. b \in l..16 /\ b \in 0..16 /\ c \in 1..16  BY <2>2
  <2>4. \A i \in (l + 1)..b : OfLength(lens, i) = {}
    <3> SUFFICES ASSUME NEW i \in (l + 1)..b, NEW s \in OfLength(lens, i)  PROVE FALSE  OBVIOUS
    <3>1. i > 0 /\ i > l /\ i < c  BY <2>3
    <3>2. s \in Coded(lens) /\ lens[s] = i  BY <3>1 DEF OfLength, Coded
    <3>3. PICK j \in 1..m : order[j] = s  BY <1>1, <3>2
    <3>4. ~(j <= k)  BY <1>2, <3>1, <3>2, <3>3
    <3>5. k + 1 <= j  BY <1>1, <3>4
    <3>6. c <= lens[s]  BY <1>1, <2>1, <3>3, <3>5
    <3> QED  BY <2>3, <3>1, <3>2, <3>6
  <2>5. room[b] = room[l]  BY <2>3, <2>4, RoomGap
  <2>6. Place(lens, t) = 0
    <3>1. {u \in OfLength(lens, c) : u < t} = {}
      <4> SUFFICES ASSUME NEW u \in OfLength(lens, c), u < t  PROVE FALSE  OBVIOUS
      <4>1. u \in Coded(lens) /\ lens[u] = c  BY <2>3 DEF OfLength, Coded
      <4>2. Before(lens, u, t)  BY <4>1 DEF Before
      <4>3. PICK j \in 1..m : order[j] = u  BY <1>1, <4>1
      <4>4. j < k + 1  BY <1>1, <2>1, <4>2, <4>3
      <4>5. lens[u] <= l  BY <1>1, <1>2, <4>3, <4>4
      <4> QED  BY <2>2, <4>1, <4>5
    <3> QED  BY <3>1, FS_EmptySet DEF Place
  <2>7. First(lens, t) = room[b] + Place(lens, t) * 2^(16 - c)  BY <2>2, FirstIs
  <2>8. 0 * 2^(16 - c) = 0
    <3>1. 16 - c \in 0..16  BY <2>3
    <3> DEFINE p == 2^(16 - c)
    <3>2. p \in Nat  BY <3>1, Doubled
    <3> HIDE DEF p
    <3>3. 0 * p = 0  BY <3>2
    <3> QED  BY <3>3 DEF p
  <2>9. room[b] \in Nat  BY <1>3, <2>3
  <2> HIDE DEF b, c, room
  <2>10. First(lens, t) = room[l]  BY <2>5, <2>6, <2>7, <2>8, <2>9
  <2>11. Begin(lens, k) = First(lens, t)  BY <1>6 DEF Begin
  <2> QED  BY <2>10, <2>11 DEF room
<1>7. CASE ~(k < m)
  <2>1. k = m  BY <1>1, <1>7
  <2>2. \A i \in (l + 1)..16 : OfLength(lens, i) = {}
    <3> SUFFICES ASSUME NEW i \in (l + 1)..16, NEW s \in OfLength(lens, i)  PROVE FALSE  OBVIOUS
    <3>1. i > 0 /\ i > l  OBVIOUS
    <3>2. s \in Coded(lens) /\ lens[s] = i  BY <3>1 DEF OfLength, Coded
    <3>3. PICK j \in 1..m : order[j] = s  BY <1>1, <3>2
    <3>4. lens[s] <= l  BY <1>1, <1>2, <2>1, <3>3
    <3> QED  BY <3>1, <3>2, <3>4
  <2>3. 16 \in l..16  OBVIOUS
  <2>4. room[16] = room[l]  BY <2>2, <2>3, RoomGap
  <2>5. Begin(lens, k) = room[16]  BY <1>7 DEF Begin
  <2> QED  BY <2>4, <2>5
<1> QED  BY <1>6, <1>7

\* The next code begins where the one before it ends, and the first at zero.
LEMMA Tiling ==
    ASSUME NEW lens, IsLengths(lens)
    PROVE  /\ Begin(lens, 0) = 0
           /\ \A k \in 0..Occurring(lens) : Begin(lens, k) \in Nat
           /\ \A k \in 1..Occurring(lens) :
                 /\ Begin(lens, k - 1) = First(lens, Sorted(lens)[k])
                 /\ Begin(lens, k) = Begin(lens, k - 1) + 2^(16 - lens[Sorted(lens)[k]])
<1> DEFINE order == Sorted(lens)
           m == Occurring(lens)
           room == Room(lens)
<1>1. /\ m \in Nat
      /\ \A j \in 1..m : order[j] \in Coded(lens)
      /\ \A s \in Coded(lens) : \E j \in 1..m : order[j] = s
      /\ \A i, j \in 1..m : Before(lens, order[i], order[j]) <=> i < j
      /\ \A i, j \in 1..m : i <= j => lens[order[i]] <= lens[order[j]]
  BY OrderFacts
<1>2. /\ room \in [0..16 -> Nat] /\ room[0] = 0
      /\ \A l \in 1..16 : room[l] = room[l - 1] + Cardinality(OfLength(lens, l)) * 2^(16 - l)
  BY RoomFacts
<1>3. \A s \in Coded(lens) : s \in Nat /\ lens[s] \in 1..16 /\ s \in DOMAIN lens
  BY LengthsAreFreqs
<1>4. Begin(lens, 0) = 0
  <2>1. Cut(lens, 0, 0)
    <3> SUFFICES ASSUME NEW j \in 1..m  PROVE lens[order[j]] <= 0 <=> j <= 0  BY DEF Cut
    <3>1. lens[order[j]] \in 1..16  BY <1>1, <1>3
    <3> QED  BY <1>1, <3>1
  <2>2. 0 \in 0..m /\ 0 \in 0..16  BY <1>1
  <2>3. Begin(lens, 0) = room[0]  BY <2>1, <2>2, BeginAtCut
  <2> QED  BY <1>2, <2>3
<1>5. \A k \in 1..m : Begin(lens, k - 1) = First(lens, order[k])
  <2> SUFFICES ASSUME NEW k \in 1..m  PROVE Begin(lens, k - 1) = First(lens, order[k])  OBVIOUS
  <2>1. k - 1 < m /\ (k - 1) + 1 = k  BY <1>1
  <2> QED  BY <2>1 DEF Begin
<1>6. \A k \in 1..m : First(lens, order[k]) \in Nat /\ 2^(16 - lens[order[k]]) \in Nat
  <2> SUFFICES ASSUME NEW k \in 1..m
               PROVE  First(lens, order[k]) \in Nat /\ 2^(16 - lens[order[k]]) \in Nat
    OBVIOUS
  <2> DEFINE s == order[k]
             l == lens[s]
             p == 2^(16 - l)
             a == room[l - 1]
             c == Place(lens, s)
  <2>1. s \in Coded(lens)  BY <1>1
  <2>2. l \in 1..16 /\ 16 - l \in 0..16 /\ l - 1 \in 0..16  BY <1>3, <2>1
  <2>3. p \in Nat  BY <2>2, Doubled
  <2>4. c \in Nat  BY <2>1, PlaceFacts
  <2>5. First(lens, s) = a + c * p  BY <2>1, FirstIs
  <2>6. a \in Nat  BY <1>2, <2>2
  <2> HIDE DEF p, a, c
  <2>7. a + c * p \in Nat  BY ONLY <2>3, <2>4, <2>6, SMT
  <2> QED  BY <2>3, <2>5, <2>7 DEF p
<1>7. \A k \in 0..m : Begin(lens, k) \in Nat
  <2> SUFFICES ASSUME NEW k \in 0..m  PROVE Begin(lens, k) \in Nat  OBVIOUS
  <2>1. CASE k = m
    <3>1. ~(k < m) /\ 16 \in 0..16  BY <1>1, <2>1
    <3> QED  BY <1>2, <3>1 DEF Begin
  <2>2. CASE k # m
    <3>1. k < m /\ k + 1 \in 1..m  BY <1>1, <2>2
    <3> QED  BY <1>6, <3>1 DEF Begin
  <2> QED  BY <2>1, <2>2
<1>8. \A k \in 1..m : Begin(lens, k) = First(lens, order[k]) + 2^(16 - lens[order[k]])
  <2> SUFFICES ASSUME NEW k \in 1..m
               PROVE  Begin(lens, k) = First(lens, order[k]) + 2^(16 - lens[order[k]])
    OBVIOUS
  <2> DEFINE s == order[k]
             l == lens[s]
             p == 2^(16 - l)
             a == room[l - 1]
             c == Place(lens, s)
             all == Cardinality(OfLength(lens, l))
             Front == {u \in OfLength(lens, l) : u < s}
  <2>1. s \in Coded(lens)  BY <1>1
  <2>2. l \in 1..16 /\ 16 - l \in 0..16 /\ l - 1 \in 0..16 /\ s \in Nat /\ s \in DOMAIN lens
    BY <1>3, <2>1
  <2>3. p \in Nat /\ a \in Nat  BY <1>2, <2>2, Doubled
  <2>4. c \in Nat  BY <2>1, PlaceFacts
  <2>5. First(lens, s) = a + c * p  BY <2>1, FirstIs
  <2>6. \A u \in OfLength(lens, l) : u \in Coded(lens) /\ lens[u] = l /\ u \in Nat
    BY <1>3, <2>2 DEF OfLength, Coded
  <2>7. IsFiniteSet(OfLength(lens, l))  BY OfLengthFinite, LengthsAreFreqs
  <2>8. Front \in SUBSET OfLength(lens, l)  OBVIOUS
  <2>9. IsFiniteSet(Front) /\ c = Cardinality(Front) /\ s \notin Front
    <3>1. ~(s < s)  BY <2>2
    <3>2. s \notin Front  BY <3>1
    <3>3. c = Cardinality(Front)  BY DEF Place
    <3> HIDE DEF Front
    <3>4. IsFiniteSet(Front)  BY <2>7, <2>8, FS_Subset
    <3> QED  BY <3>2, <3>3, <3>4
  <2>10. CASE k < m /\ lens[order[k + 1]] = l
    <3> DEFINE t == order[k + 1]
               d == Place(lens, t)
    <3>1. k + 1 \in 1..m /\ k < k + 1  BY <1>1, <2>10
    <3>2. t \in Coded(lens) /\ t \in Nat  BY <1>1, <1>3, <3>1
    <3>3. s < t
      <4>1. Before(lens, s, t)  BY <1>1, <3>1
      <4>2. lens[s] = lens[t]  BY <2>10
      <4> QED  BY <2>2, <4>1, <4>2 DEF Before
    <3>4. {u \in OfLength(lens, l) : u < t} = Front \cup {s}
      <4>1. \A u \in OfLength(lens, l) : u < t => u < s \/ u = s
        <5> SUFFICES ASSUME NEW u \in OfLength(lens, l), u < t, ~(u < s), u # s  PROVE FALSE
          OBVIOUS
        <5>1. u \in Coded(lens) /\ lens[u] = l /\ u \in Nat  BY <2>6
        <5>2. s < u  BY <2>2, <5>1
        <5>3. Before(lens, s, u) /\ Before(lens, u, t)  BY <2>10, <5>1, <5>2 DEF Before
        <5>4. PICK j \in 1..m : order[j] = u  BY <1>1, <5>1
        <5>5. k < j /\ j < k + 1  BY <1>1, <3>1, <5>3, <5>4
        <5> QED  BY <1>1, <5>5
      <4>2. \A u \in OfLength(lens, l) : u < s => u < t  BY <2>2, <2>6, <3>2, <3>3
      <4>3. s \in OfLength(lens, l)  BY <2>2 DEF OfLength
      <4> QED  BY <3>3, <4>1, <4>2, <4>3
    <3>5. d = c + 1
      <4>1. d = Cardinality(Front \cup {s})  BY <2>10, <3>4 DEF Place
      <4> HIDE DEF Front, d, c
      <4> QED  BY <2>9, <4>1, FS_AddElement
    <3>6. First(lens, t) = a + d * p  BY <2>10, <3>2, FirstIs
    <3>7. Begin(lens, k) = First(lens, t)  BY <2>10 DEF Begin
    <3> HIDE DEF a, c, d, p
    <3>8. a + (c + 1) * p = (a + c * p) + p  BY ONLY <2>3, <2>4, SMT
    <3>9. Begin(lens, k) = First(lens, s) + p  BY <2>5, <3>5, <3>6, <3>7, <3>8
    <3> QED  BY <3>9 DEF p
  <2>11. CASE ~(k < m /\ lens[order[k + 1]] = l)
    <3>1. Cut(lens, k, l)
      <4> SUFFICES ASSUME NEW j \in 1..m  PROVE lens[order[j]] <= l <=> j <= k  BY DEF Cut
      <4>1. lens[order[j]] \in Nat /\ l \in Nat  BY <1>1, <1>3, <2>2
      <4>2. j <= k => lens[order[j]] <= l  BY <1>1
      <4>3. ASSUME ~(j <= k)  PROVE ~(lens[order[j]] <= l)
        <5>1. k < m /\ k + 1 \in 1..m /\ k <= k + 1 /\ k + 1 <= j  BY <1>1, <4>3
        <5>2. l <= lens[order[k + 1]] /\ lens[order[k + 1]] <= lens[order[j]]  BY <1>1, <5>1
        <5>3. lens[order[k + 1]] # l  BY <2>11, <5>1
        <5>4. lens[order[k + 1]] \in Nat  BY <1>1, <1>3, <5>1
        <5> DEFINE x == lens[order[k + 1]]
                   y == lens[order[j]]
        <5>5. l <= x /\ x <= y /\ x # l /\ x \in Nat /\ y \in Nat /\ l \in Nat
          BY <4>1, <5>2, <5>3, <5>4
        <5> HIDE DEF x, y, l
        <5>6. ~(y <= l)  BY ONLY <5>5
        <5> QED  BY <5>6 DEF y
      <4> QED  BY <4>2, <4>3
    <3>2. k \in 0..m /\ l \in 0..16  BY <1>1, <2>2
    <3>3. Begin(lens, k) = room[l]  BY <3>1, <3>2, BeginAtCut
    <3>4. OfLength(lens, l) = Front \cup {s}
      <4>1. \A u \in OfLength(lens, l) : u < s \/ u = s
        <5> SUFFICES ASSUME NEW u \in OfLength(lens, l), ~(u < s), u # s  PROVE FALSE  OBVIOUS
        <5>1. u \in Coded(lens) /\ lens[u] = l /\ u \in Nat  BY <2>6
        <5>2. s < u  BY <2>2, <5>1
        <5>3. Before(lens, s, u)  BY <5>1, <5>2 DEF Before
        <5>4. PICK j \in 1..m : order[j] = u  BY <1>1, <5>1
        <5>5. k < j  BY <1>1, <5>3, <5>4
        <5>6. lens[order[j]] <= l  BY <2>2, <5>1, <5>4
        <5>7. j <= k  BY <3>1, <5>6 DEF Cut
        <5> QED  BY <1>1, <5>5, <5>7
      <4>2. s \in OfLength(lens, l)  BY <2>2 DEF OfLength
      <4> QED  BY <4>1, <4>2
    <3>5. all = c + 1
      <4>1. all = Cardinality(Front \cup {s})  BY <3>4
      <4> HIDE DEF Front, all, c
      <4> QED  BY <2>9, <4>1, FS_AddElement
    <3>6. room[l] = a + all * p  BY <1>2, <2>2
    <3> HIDE DEF a, c, all, p
    <3>7. a + (c + 1) * p = (a + c * p) + p  BY ONLY <2>3, <2>4, SMT
    <3>8. Begin(lens, k) = First(lens, s) + p  BY <2>5, <3>3, <3>5, <3>6, <3>7
    <3> QED  BY <3>8 DEF p
  <2> QED  BY <2>10, <2>11
<1> QED  BY <1>4, <1>5, <1>7, <1>8

LEMMA BeginGrows ==
    ASSUME NEW lens, IsLengths(lens), NEW j \in 0..Occurring(lens), NEW k \in 0..Occurring(lens),
           j < k
    PROVE  Begin(lens, j) < Begin(lens, k)
<1> DEFINE m == Occurring(lens)
           Bad == {e \in 1..(k - j) : ~(Begin(lens, j) < Begin(lens, j + e))}
<1>1. m \in Nat /\ \A i \in 1..m : Sorted(lens)[i] \in Coded(lens)  BY OrderFacts
<1>2. /\ \A i \in 0..m : Begin(lens, i) \in Nat
      /\ \A i \in 1..m : Begin(lens, i) = Begin(lens, i - 1) + 2^(16 - lens[Sorted(lens)[i]])
  BY Tiling
<1>3. \A i \in 1..m : Begin(lens, i - 1) < Begin(lens, i)
  <2> SUFFICES ASSUME NEW i \in 1..m  PROVE Begin(lens, i - 1) < Begin(lens, i)  OBVIOUS
  <2> DEFINE l == lens[Sorted(lens)[i]]
             p == 2^(16 - l)
  <2>1. l \in 1..16  BY <1>1, LengthsAreFreqs
  <2>2. 16 - l \in 0..16  BY <2>1
  <2>3. p \in Nat \ {0}  BY <2>2, Doubled
  <2>4. Begin(lens, i) = Begin(lens, i - 1) + p  BY <1>2
  <2>5. Begin(lens, i - 1) \in Nat
    <3>1. i - 1 \in 0..m  BY <1>1
    <3> QED  BY <1>2, <3>1
  <2> HIDE DEF p
  <2> QED  BY <2>3, <2>4, <2>5
<1>4. Bad = {}
  <2> SUFFICES ASSUME Bad # {}  PROVE FALSE  OBVIOUS
  <2>1. PICK e \in Bad : \A x \in Bad : e <= x
    <3>1. Bad \in SUBSET Nat  OBVIOUS
    <3> HIDE DEF Bad
    <3> QED  BY <3>1, LeastNat
  <2>2. e \in 1..(k - j) /\ ~(Begin(lens, j) < Begin(lens, j + e))  OBVIOUS
  <2>3. j + e \in 1..m /\ (j + e) - 1 = j + (e - 1)  BY <1>1, <2>2
  <2>4. Begin(lens, j + (e - 1)) < Begin(lens, j + e)  BY <1>3, <2>3
  <2>5. e # 1
    <3>1. j + (1 - 1) = j  BY <1>1
    <3> QED  BY <2>2, <2>4, <3>1
  <2>6. e - 1 \in 1..(k - j) /\ ~(e <= e - 1) /\ j + (e - 1) \in 0..m /\ j + e \in 0..m
    BY <1>1, <2>2, <2>5
  <2>7. Begin(lens, j) < Begin(lens, j + (e - 1))  BY <2>1, <2>6
  <2>8. /\ Begin(lens, j) \in Nat /\ Begin(lens, j + (e - 1)) \in Nat
        /\ Begin(lens, j + e) \in Nat
    BY <1>2, <2>6
  <2> QED  BY <2>2, <2>4, <2>7, <2>8
<1>5. k - j \in 1..(k - j) /\ j + (k - j) = k  BY <1>1
<1>6. Begin(lens, j) < Begin(lens, j + (k - j))  BY <1>4, <1>5
<1> HIDE DEF Bad
<1> QED  BY <1>5, <1>6

LEMMA CutExists ==
    ASSUME NEW lens, IsLengths(lens), NEW l \in 0..16
    PROVE  \E k \in 0..Occurring(lens) : Cut(lens, k, l)
<1> DEFINE order == Sorted(lens)
           m == Occurring(lens)
           Past == {j \in 1..(m + 1) : j <= m => lens[order[j]] > l}
<1>1. /\ m \in Nat /\ \A j \in 1..m : order[j] \in Coded(lens)
      /\ \A i, j \in 1..m : i <= j => lens[order[i]] <= lens[order[j]]
  BY OrderFacts
<1>2. \A j \in 1..m : lens[order[j]] \in Nat
  <2> SUFFICES ASSUME NEW j \in 1..m  PROVE lens[order[j]] \in Nat  OBVIOUS
  <2>1. lens[order[j]] \in 1..16  BY <1>1, LengthsAreFreqs
  <2> QED  BY <2>1
<1> HIDE DEF m, order
<1>3. PICK i \in Past : \A j \in Past : i <= j
  <2>1. Past \in SUBSET Nat  BY <1>1
  <2>2. m + 1 \in Past  BY <1>1
  <2> HIDE DEF Past
  <2> QED  BY <2>1, <2>2, LeastNat
<1>4. i \in 1..(m + 1) /\ (i <= m => lens[order[i]] > l)  OBVIOUS
<1>5. i - 1 \in 0..m  BY <1>1, <1>4
<1>6. ASSUME NEW j \in 1..m  PROVE lens[order[j]] <= l <=> j <= i - 1
  <2>1. ASSUME j <= i - 1  PROVE lens[order[j]] <= l
    <3>1. ~(i <= j) /\ j \in 1..(m + 1)  BY <1>1, <1>4, <2>1
    <3>2. j \notin Past  BY <1>3, <3>1
    <3>3. ~(lens[order[j]] > l)  BY <3>1, <3>2
    <3> QED  BY <1>2, <3>3
  <2>2. ASSUME ~(j <= i - 1)  PROVE ~(lens[order[j]] <= l)
    <3>1. i <= j /\ i <= m /\ i \in 1..m  BY <1>1, <1>4, <2>2
    <3>2. lens[order[i]] > l /\ lens[order[i]] <= lens[order[j]]  BY <1>1, <1>4, <3>1
    <3>3. lens[order[i]] \in Nat /\ lens[order[j]] \in Nat  BY <1>2, <3>1
    <3> QED  BY <3>2, <3>3
  <2> QED  BY <2>1, <2>2
<1>7. Cut(lens, i - 1, l)  BY <1>6 DEF Cut, m, order
<1> QED  BY <1>5, <1>7 DEF m

\* Every place within the room of the codes lies in one of them.
LEMMA Covered ==
    ASSUME NEW lens, IsLengths(lens), NEW p \in Nat, p < Room(lens)[16]
    PROVE  \E k \in 1..Occurring(lens) : Begin(lens, k - 1) <= p /\ p < Begin(lens, k)
<1> DEFINE m == Occurring(lens)
           Past == {k \in 0..m : p < Begin(lens, k)}
<1>1. m \in Nat  BY OrderFacts
<1>2. Begin(lens, 0) = 0 /\ \A k \in 0..m : Begin(lens, k) \in Nat  BY Tiling
<1>3. Begin(lens, m) = Room(lens)[16]
  <2>1. ~(m < m)  BY <1>1
  <2> QED  BY <2>1 DEF Begin
<1> HIDE DEF m
<1>4. PICK i \in Past : \A k \in Past : i <= k
  <2>1. Past \in SUBSET Nat  BY <1>1
  <2>2. m \in Past  BY <1>1, <1>3
  <2> HIDE DEF Past
  <2> QED  BY <2>1, <2>2, LeastNat
<1>5. i \in 0..m /\ p < Begin(lens, i)  OBVIOUS
<1>6. i # 0  BY <1>2, <1>5
<1>7. i \in 1..m /\ i - 1 \in 0..m /\ ~(i <= i - 1)  BY <1>1, <1>5, <1>6
<1>8. ~(p < Begin(lens, i - 1))  BY <1>4, <1>7
<1>9. Begin(lens, i - 1) <= p  BY <1>2, <1>7, <1>8
<1> QED  BY <1>5, <1>7, <1>9 DEF m

-----------------------------------------------------------------------------
(* The tree in the table *)

T == TableSize
RootHalf == 2^(TableSize - 1)
Live(nx) == 0..(2 * nx - 1)
NextSymbol(lens, k) == Sorted(lens)[k + 1]
Width(d) == 2^(16 - d)

\* Every live entry is labelled with its depth and with the code that leads to
\* it; no two have the same label.
Labels(nx, depth, code) ==
    /\ depth \in [Live(nx) -> T..LongestCode] /\ code \in [Live(nx) -> Nat]
    /\ \A e \in Live(nx) : code[e] < 2^depth[e]
    /\ \A i \in 0..(TableMask - 1) : depth[i] = T /\ code[i] = ReverseBits(i, T)
    /\ \A e, f \in Live(nx) : depth[e] = depth[f] /\ code[e] = code[f] => e = f

\* An entry leads to a node, whose two entries go on with a bit more; or holds
\* a symbol, whose code leads to it or, at the root, begins what does.
IsNode(tab, nx, depth, code, e) ==
    /\ tab[e] \in RootHalf..(nx - 1)
    /\ \A b \in {0, 1} : /\ depth[2 * tab[e] + b] = depth[e] + 1
                         /\ code[2 * tab[e] + b] = 2 * code[e] + b
IsSymbol(lens, tab, depth, code, e) ==
    /\ tab[e] \in Coded(lens) /\ lens[tab[e]] <= depth[e]
    /\ depth[e] > T => lens[tab[e]] = depth[e]
    /\ code[e] \div 2^(depth[e] - lens[tab[e]]) = CanonicalCode(lens, tab[e])

\* The tree with the first k codes in it, which take the room up to x: symbols
\* lie in front of x, free entries behind; every node was made for a code that
\* begins where the node does, and none is as deep as the codes to come.
Tree(lens, tab, nx, k, depth, code) ==
    LET x == Begin(lens, k)
    IN  /\ Labels(nx, depth, code)
        /\ \A n \in RootHalf..(nx - 1) : \E e \in Live(nx) : tab[e] = n
        /\ \A e \in Live(nx) :
              \/ IsNode(tab, nx, depth, code, e)
              \/ IsSymbol(lens, tab, depth, code, e) /\ (code[e] + 1) * Width(depth[e]) <= x
              \/ tab[e] = 0 /\ code[e] * Width(depth[e]) >= x
        /\ \A e \in Live(nx) :
              depth[e] > T /\ k < Occurring(lens) => depth[e] <= lens[NextSymbol(lens, k)]
        /\ \A e \in Live(nx) : IsNode(tab, nx, depth, code, e) =>
              \E j \in 1..Occurring(lens) :
                 /\ depth[e] < lens[Sorted(lens)[j]]
                 /\ Begin(lens, j - 1) = code[e] * Width(depth[e])

\* A tree without free entries.
Finished(lens, tab, nx, depth, code) ==
    /\ Labels(nx, depth, code)
    /\ \A e \in Live(nx) : \/ IsNode(tab, nx, depth, code, e)
                           \/ IsSymbol(lens, tab, depth, code, e)

\* The descent has come to the entry on the way to x.
OnTheWay(lens, tab, nx, k, depth, code, e, d) ==
    LET x == Begin(lens, k)
    IN  /\ e \in Live(nx) /\ depth[e] = d /\ code[e] = x \div Width(d)
        /\ \A f \in Live(nx) : tab[f] = 0 /\ code[f] * Width(depth[f]) = x => depth[f] >= d

\* What holds while the table is built, and of the finished one.
Placing ==
    /\ placed \in 0..Occurring(lengths)
    /\ next_secondary \in RootHalf..(Total \div 2)
    /\ table = [i \in 0..(Total - 1) |-> table[i]]
    /\ Begin(lengths, placed) <= AllRoom
    /\ \A j \in 1..placed : phase = "short" => lengths[Sorted(lengths)[j]] <= T
    /\ phase = "short" => /\ next_secondary = RootHalf
                          /\ pos \in Nat /\ Begin(lengths, placed) = pos * Width(T)
    /\ phase # "short" => /\ pos = Begin(lengths, placed) * 2^T
                          /\ Room(lengths)[T] # AllRoom
                          /\ placed < Occurring(lengths) => lengths[NextSymbol(lengths, placed)] > T
    /\ phase = "descend" => /\ placed < Occurring(lengths)
                            /\ fill \in 0..(lengths[NextSymbol(lengths, placed)] - T)
    /\ \E depth, code :
          /\ phase # "descend" \/ Begin(lengths, placed) < AllRoom =>
                Tree(lengths, table, next_secondary, placed, depth, code)
          /\ phase = "descend" /\ Begin(lengths, placed) < AllRoom =>
                OnTheWay(lengths, table, next_secondary, placed, depth, code, leaf, T + fill)

Looking ==
    /\ next_secondary \in RootHalf..(Total \div 2)
    /\ Room(lengths)[T] = AllRoom \/ Room(lengths)[16] = AllRoom
    /\ \E depth, code :
          /\ Finished(lengths, table, next_secondary, depth, code)
          /\ phase = "walk" =>
                /\ control \in Nat
                /\ \E e \in Live(next_secondary) :
                      /\ table[e] = sym /\ IsNode(table, next_secondary, depth, code, e)
                      /\ depth[e] = consumed /\ code[e] = ReverseBits(control, consumed)

\* Codes built for a writer are complete, whatever it then makes of them.
BuiltComplete == limit # 0 /\ Active(freqs) # {} => Room(lengths)[16] = AllRoom

Inv ==
    /\ lengths \in [Symbols -> 0..LongestCode] /\ BuiltComplete
    /\ phase \in {"short", "long", "descend", "ready", "walk", "decoded", "bad"}
    /\ phase \in {"short", "long", "descend"} => Placing
    /\ phase \in {"ready", "walk"} => Looking
    /\ phase = "bad" => Room(lengths)[T] # AllRoom /\ Room(lengths)[16] # AllRoom
    /\ phase = "decoded" => /\ sym \in Coded(lengths) /\ consumed = lengths[sym]
                            /\ control % 2^consumed = WrittenCode(lengths, sym)

-----------------------------------------------------------------------------
(* Places and widths *)

LEMMA Sizes ==
    /\ T \in 1..12 /\ T \in 0..16 /\ LongestCode \in T..16 /\ NumberSymbols \in Nat \ {0, 1}
    /\ RootHalf \in Nat \ {0} /\ TableMask = 2 * RootHalf /\ TableMask = 2^T
    /\ NumberSymbols <= RootHalf /\ Total = 2 * RootHalf + 4 * NumberSymbols
<1>1. /\ T \in 1..12 /\ LongestCode \in T..16 /\ NumberSymbols \in Nat \ {0, 1}
      /\ RootHalf >= NumberSymbols
  BY TableAssumption DEF T, RootHalf
<1>2. T - 1 \in 0..16 /\ (T - 1) + 1 = T /\ T \in 0..16  BY <1>1
<1>3. RootHalf \in Nat \ {0} /\ 2^T = 2 * RootHalf
  <2>1. 2^(T - 1) \in Nat \ {0} /\ 2^((T - 1) + 1) = 2 * 2^(T - 1)  BY <1>2, Doubled
  <2> QED  BY <1>2, <2>1 DEF RootHalf, T
<1>4. TableMask = 2^T  BY DEF TableMask, T
<1> QED  BY <1>1, <1>2, <1>3, <1>4 DEF Total

LEMMA CodedFacts ==
    ASSUME NEW lens \in [Symbols -> 0..LongestCode]
    PROVE  /\ IsLengths(lens)
           /\ \A s \in Coded(lens) : /\ s \in Nat /\ s < NumberSymbols /\ s < RootHalf
                                     /\ lens[s] \in 1..LongestCode /\ lens[s] \in 1..16
<1>1. Symbols \subseteq Nat /\ IsFiniteSet(Symbols)
  <2>1. NumberSymbols - 1 \in Int /\ 0 \in Int  BY Sizes
  <2>2. IsFiniteSet(0..(NumberSymbols - 1))  BY <2>1, FS_Interval
  <2> QED  BY <2>2 DEF Symbols
<1>2. \A l \in 0..LongestCode : l \in 0..16  BY Sizes
<1>3. lens \in [Symbols -> 0..16] /\ DOMAIN lens = Symbols  BY <1>2
<1>4. IsLengths(lens)  BY <1>1, <1>3 DEF IsLengths
<1>5. ASSUME NEW s \in Coded(lens)
      PROVE  /\ s \in Nat /\ s < NumberSymbols /\ s < RootHalf
             /\ lens[s] \in 1..LongestCode /\ lens[s] \in 1..16
  <2>1. s \in 0..(NumberSymbols - 1) /\ lens[s] \in 0..LongestCode /\ lens[s] > 0
    BY <1>3 DEF Coded, Symbols
  <2> QED  BY <2>1, Sizes
<1> QED  BY <1>4, <1>5

LEMMA Widths ==
    ASSUME NEW d \in 0..16, NEW e \in d..16
    PROVE  /\ Width(d) \in Nat \ {0} /\ Width(e) \in Nat \ {0} /\ 2^(e - d) \in Nat \ {0}
           /\ Width(d) = 2^(e - d) * Width(e)
<1>1. e - d \in 0..16 /\ 16 - e \in 0..(16 - (e - d)) /\ (e - d) + (16 - e) = 16 - d  OBVIOUS
<1>2. /\ 2^(e - d) \in Nat \ {0} /\ 2^(16 - e) \in Nat \ {0}
      /\ 2^((e - d) + (16 - e)) \in Nat \ {0}
      /\ 2^((e - d) + (16 - e)) = 2^(e - d) * 2^(16 - e)
  BY <1>1, PowerSum
<1> QED  BY <1>1, <1>2 DEF Width

LEMMA WidthFacts ==
    ASSUME NEW d \in 0..16
    PROVE  /\ Width(d) \in Nat \ {0} /\ 2^d \in Nat \ {0} /\ AllRoom = 2^d * Width(d)
           /\ AllRoom \in Nat
<1>1. d \in 0..16 /\ 16 - d \in 0..(16 - d) /\ d + (16 - d) = 16  OBVIOUS
<1>2. /\ 2^d \in Nat \ {0} /\ 2^(16 - d) \in Nat \ {0} /\ 2^(d + (16 - d)) \in Nat \ {0}
      /\ 2^(d + (16 - d)) = 2^d * 2^(16 - d)
  BY <1>1, PowerSum
<1> QED  BY <1>1, <1>2 DEF Width, AllRoom

LEMMA NextWidth ==
    ASSUME NEW d \in 0..15
    PROVE  /\ Width(d) = 2 * Width(d + 1) /\ Width(d + 1) \in Nat \ {0}
           /\ Width(d) \in Nat \ {0} /\ 2^(d + 1) = 2 * 2^d /\ 2^d \in Nat \ {0}
<1>1. 16 - (d + 1) \in 0..16 /\ (16 - (d + 1)) + 1 = 16 - d /\ d \in 0..16 /\ 16 - d \in 0..16
  OBVIOUS
<1>2. 2^(16 - (d + 1)) \in Nat \ {0} /\ 2^((16 - (d + 1)) + 1) = 2 * 2^(16 - (d + 1))
  BY <1>1, Doubled
<1>3. 2^(16 - d) = 2 * 2^(16 - (d + 1))  BY <1>1, <1>2
<1>4. 2^(d + 1) = 2 * 2^d /\ 2^d \in Nat \ {0}  BY <1>1, Doubled
<1>5. 2^(16 - d) \in Nat \ {0}  BY <1>1, Doubled
<1> QED  BY <1>2, <1>3, <1>4, <1>5 DEF Width

\* A place and the interval of a width that it lies in.
LEMMA Inside ==
    ASSUME NEW x \in Nat, NEW w \in Nat \ {0}
    PROVE  /\ x \div w \in Nat /\ (x \div w) * w <= x /\ x < (x \div w + 1) * w
<1> DEFINE a == x \div w
           r == x % w
<1>1. a \in Nat /\ r \in Nat /\ r < w /\ x = a * w + r  BY Divided
<1> HIDE DEF a, r
<1>2. (a + 1) * w = a * w + w /\ a * w \in Nat  BY ONLY <1>1, SMT
<1> DEFINE z == a * w
<1>3. x = z + r /\ z \in Nat /\ (a + 1) * w = z + w  BY <1>1, <1>2
<1> HIDE DEF z
<1>4. z <= x /\ x < (a + 1) * w  BY <1>1, <1>3
<1> QED  BY <1>1, <1>4 DEF a, z

LEMMA InsideOne ==
    ASSUME NEW x \in Nat, NEW w \in Nat \ {0}, NEW a \in Nat, a * w <= x, x < (a + 1) * w
    PROVE  x \div w = a
<1>1. (a + 1) * w = a * w + w /\ a * w \in Nat  BY SMT
<1> DEFINE z == a * w
           r == x - z
<1>2. r \in Nat /\ r < w /\ x = z + r  BY <1>1
<1> HIDE DEF r
<1>3. x = a * w + r  BY <1>2
<1> QED  BY <1>2, <1>3, QuotientIs

LEMMA Scaled ==
    ASSUME NEW a \in Nat, NEW b \in Nat, NEW w \in Nat \ {0}
    PROVE  /\ a * w \in Nat /\ (a * w < b * w <=> a < b) /\ (a * w <= b * w <=> a <= b)
           /\ (a * w = b * w <=> a = b) /\ (a + b) * w = a * w + b * w
           /\ (a < b => a * w + w <= b * w) /\ (a * w) \div w = a
<1>1. a * w \in Nat /\ b * w \in Nat /\ (a + b) * w = a * w + b * w  BY SMT
<1>2. a < b => a * w + w <= b * w  BY SMT
<1>3. a <= b => a * w <= b * w  BY SMT
<1>4. b < a => b * w + w <= a * w  BY SMT
<1> DEFINE x == a * w
           y == b * w
<1>5. x \in Nat /\ y \in Nat /\ (a < b => x + w <= y) /\ (a <= b => x <= y) /\ (b < a => y + w <= x)
  BY <1>1, <1>2, <1>3, <1>4
<1>6. x = y <=> a = b
  <2>1. a = b => x = y  OBVIOUS
  <2> HIDE DEF x, y
  <2>2. a # b => a < b \/ b < a  OBVIOUS
  <2> QED  BY <1>5, <2>1, <2>2
<1> HIDE DEF x, y
<1>7. (x < y <=> a < b) /\ (x <= y <=> a <= b)
  <2>1. y \in Nat  BY <1>1 DEF y
  <2> QED  BY <1>5, <1>6, <2>1
<1>8. (a * w) \div w = a
  <2>1. a * w = a * w + 0 /\ 0 < w /\ 0 \in Nat  BY <1>1
  <2> DEFINE z == a * w
  <2>2. z \in Nat /\ z = a * w + 0  BY <1>1
  <2> HIDE DEF z
  <2>3. z \div w = a  BY <2>1, <2>2, QuotientIs
  <2> QED  BY <2>3 DEF z
<1> QED  BY <1>1, <1>2, <1>6, <1>7, <1>8 DEF x, y

\* The place in units of half the width has one bit more.
LEMMA Halves ==
    ASSUME NEW x \in Nat, NEW w \in Nat \ {0}
    PROVE  x \div w = 2 * (x \div (2 * w)) + ((x \div w) % 2) /\ (x \div w) % 2 \in {0, 1}
<1> DEFINE a == x \div w
           b == a % 2
           h == a \div 2
<1>1. a \in Nat /\ a * w <= x /\ x < (a + 1) * w  BY Inside
<1> HIDE DEF a
<1>2. h \in Nat /\ b \in {0, 1} /\ a = 2 * h + b  BY <1>1, SMT
<1> HIDE DEF h, b
<1>3. x \div (2 * w) = h
  <2> DEFINE v == 2 * w
             y == h * w
             z == a * w
  <2>1. y \in Nat /\ z \in Nat /\ z = 2 * y + b * w /\ h * v = 2 * y /\ (h + 1) * v = 2 * y + 2 * w
        /\ (a + 1) * w = z + w
    BY ONLY <1>1, <1>2, SMT
  <2>2. b * w \in {0, w}  BY ONLY <1>2, w \in Nat
  <2> DEFINE u == b * w
  <2>3. u \in {0, w} /\ z = 2 * y + u /\ z <= x /\ x < z + w  BY <1>1, <2>1, <2>2
  <2> HIDE DEF u, y, z
  <2>4. 2 * y <= x /\ x < 2 * y + 2 * w  BY <2>1, <2>3
  <2>5. h * v <= x /\ x < (h + 1) * v  BY <2>1, <2>4
  <2>6. v \in Nat \ {0}  OBVIOUS
  <2> HIDE DEF v
  <2>7. x \div v = h  BY <1>2, <2>5, <2>6, InsideOne
  <2> QED  BY <2>7 DEF v
<1> QED  BY <1>2, <1>3 DEF a, b

\* Places of a fine scale in units of a coarse one.
LEMMA Rescaled ==
    ASSUME NEW x \in Nat, NEW p \in Nat \ {0}, NEW w \in Nat \ {0}
    PROVE  (x * p) \div (p * w) = x \div w
<1> DEFINE a == x \div w
           y == x * p
           v == p * w
<1>1. a \in Nat /\ a * w <= x /\ x < (a + 1) * w  BY Inside
<1> HIDE DEF a
<1>2. y \in Nat /\ v \in Nat \ {0}  BY SMT
<1>3. a * v <= y
  <2>1. (a * w) * p <= x * p
    <3> DEFINE z == a * w
    <3>1. z \in Nat /\ z <= x  BY <1>1
    <3> HIDE DEF z
    <3>2. z * p <= x * p  BY ONLY <3>1, x \in Nat, p \in Nat, SMT
    <3> QED  BY <3>2 DEF z
  <2>2. (a * w) * p = a * (p * w)  BY ONLY <1>1, p \in Nat, w \in Nat, SMT
  <2> QED  BY <2>1, <2>2
<1>4. y < (a + 1) * v
  <2>1. x * p < ((a + 1) * w) * p
    <3> DEFINE z == (a + 1) * w
    <3>1. z \in Nat /\ x < z  BY <1>1
    <3> HIDE DEF z
    <3>2. x * p < z * p  BY ONLY <3>1, x \in Nat, p \in Nat \ {0}, SMT
    <3> QED  BY <3>2 DEF z
  <2>2. ((a + 1) * w) * p = (a + 1) * (p * w)  BY ONLY <1>1, p \in Nat, w \in Nat, SMT
  <2> QED  BY <2>1, <2>2
<1> HIDE DEF y, v
<1>5. y \div v = a  BY <1>1, <1>2, <1>3, <1>4, InsideOne
<1> QED  BY <1>5 DEF a, y, v

-----------------------------------------------------------------------------
(* The way down *)

LEMMA LabelFacts ==
    ASSUME NEW nx \in Nat, NEW depth, NEW code, Labels(nx, depth, code), NEW e \in Live(nx)
    PROVE  /\ depth[e] \in T..LongestCode /\ depth[e] \in 0..16 /\ code[e] \in Nat
           /\ code[e] < 2^depth[e] /\ Width(depth[e]) \in Nat \ {0}
           /\ (code[e] + 1) * Width(depth[e]) <= AllRoom
<1> DEFINE d == depth[e]
           c == code[e]
           w == Width(d)
           p == 2^d
<1>1. d \in T..LongestCode /\ c \in Nat /\ c < p  BY DEF Labels
<1> HIDE DEF d, c
<1>2. d \in 0..16  BY <1>1, Sizes
<1>3. w \in Nat \ {0} /\ p \in Nat \ {0} /\ AllRoom = p * w  BY <1>2, WidthFacts
<1> HIDE DEF w, p
<1>4. (c + 1) * w <= p * w
  <2>1. c + 1 \in Nat /\ c + 1 <= p  BY <1>1, <1>3
  <2> QED  BY <1>3, <2>1, Scaled
<1> QED  BY <1>1, <1>2, <1>3, <1>4 DEF d, c, w, p

\* The entry on the way to the next code is a node, or it is free and begins
\* where the code does.
LEMMA WayIsOpen ==
    ASSUME NEW lens \in [Symbols -> 0..LongestCode], NEW tab, NEW nx \in Nat,
           NEW k \in 0..Occurring(lens), NEW depth, NEW code, NEW e, NEW d,
           Tree(lens, tab, nx, k, depth, code), OnTheWay(lens, tab, nx, k, depth, code, e, d)
    PROVE  LET x == Begin(lens, k)
           IN  /\ x \in Nat /\ e \in Live(nx) /\ depth[e] = d /\ d \in T..LongestCode /\ d \in 0..16
               /\ code[e] \in Nat /\ Width(d) \in Nat \ {0} /\ code[e] = x \div Width(d)
               /\ \/ IsNode(tab, nx, depth, code, e) /\ tab[e] # 0
                  \/ tab[e] = 0 /\ code[e] * Width(d) = x
<1> DEFINE x == Begin(lens, k)
           c == code[e]
           w == Width(d)
<1>1. x \in Nat  BY CodedFacts, Tiling
<1>2. Labels(nx, depth, code) /\ e \in Live(nx) /\ depth[e] = d /\ c = x \div w
  BY DEF Tree, OnTheWay
<1>3. d \in T..LongestCode /\ d \in 0..16 /\ c \in Nat /\ w \in Nat \ {0}  BY <1>2, LabelFacts
<1>4. c * w <= x /\ x < (c + 1) * w  BY <1>1, <1>2, <1>3, Inside
<1>5. \/ IsNode(tab, nx, depth, code, e)
      \/ (c + 1) * w <= x
      \/ tab[e] = 0 /\ c * w >= x
  BY <1>2 DEF Tree
<1>6. c * w \in Nat /\ (c + 1) * w \in Nat
  <2>1. c + 1 \in Nat  BY <1>3
  <2> QED  BY <1>3, <2>1, Scaled
<1>7. IsNode(tab, nx, depth, code, e) => tab[e] # 0
  <2>1. \A n \in RootHalf..(nx - 1) : n # 0  BY Sizes
  <2> QED  BY <2>1 DEF IsNode
<1>8. ~((c + 1) * w <= x)
  <2> DEFINE y == (c + 1) * w
  <2>1. y \in Nat /\ x < y  BY <1>4, <1>6
  <2> HIDE DEF y, x
  <2>2. ~(y <= x)  BY <1>1, <2>1
  <2> QED  BY <2>2 DEF y
<1>9. c * w >= x => c * w = x
  <2> DEFINE y == c * w
  <2>1. y \in Nat /\ y <= x  BY <1>4, <1>6
  <2> HIDE DEF y, x
  <2>2. y >= x => y = x  BY <1>1, <2>1
  <2> QED  BY <2>2 DEF y
<1> QED  BY <1>1, <1>2, <1>3, <1>5, <1>7, <1>8, <1>9

\* The free entries that begin at x lie below the entry on the way that is not
\* free, as no other entry of its depth leads to x.
LEMMA FreeIsDeeper ==
    ASSUME NEW lens \in [Symbols -> 0..LongestCode], NEW tab, NEW nx \in Nat,
           NEW k \in 0..Occurring(lens), NEW depth, NEW code, NEW e, NEW d,
           Tree(lens, tab, nx, k, depth, code), OnTheWay(lens, tab, nx, k, depth, code, e, d),
           NEW f \in Live(nx), f # e, tab[f] = 0,
           code[f] * Width(depth[f]) = Begin(lens, k)
    PROVE  depth[f] >= d + 1
<1> DEFINE x == Begin(lens, k)
<1>1. Labels(nx, depth, code) /\ depth[f] >= d  BY DEF Tree, OnTheWay
<1>2. e \in Live(nx) /\ depth[e] = d /\ d \in 0..16 /\ Width(d) \in Nat \ {0}
      /\ code[e] = x \div Width(d)
  BY WayIsOpen
<1>3. depth[f] \in 0..16 /\ code[f] \in Nat  BY <1>1, LabelFacts
<1>4. depth[f] # d
  <2> SUFFICES ASSUME depth[f] = d  PROVE FALSE  OBVIOUS
  <2>1. (code[f] * Width(d)) \div Width(d) = code[f]  BY <1>2, <1>3, Scaled
  <2>2. code[f] = code[e]  BY <1>2, <2>1
  <2>3. f = e  BY <1>1, <1>2, <2>2 DEF Labels
  <2> QED  BY <2>3
<1> QED  BY <1>1, <1>2, <1>3, <1>4

LEMMA StepDown ==
    ASSUME NEW lens \in [Symbols -> 0..LongestCode], NEW tab, NEW nx \in Nat,
           NEW k \in 0..Occurring(lens), NEW depth, NEW code, NEW e, NEW d \in 0..15,
           Tree(lens, tab, nx, k, depth, code), OnTheWay(lens, tab, nx, k, depth, code, e, d),
           tab[e] # 0, NEW b, b = (Begin(lens, k) \div Width(d + 1)) % 2
    PROVE  OnTheWay(lens, tab, nx, k, depth, code, 2 * tab[e] + b, d + 1)
<1> DEFINE x == Begin(lens, k)
           n == tab[e]
           w == Width(d + 1)
<1>1. x \in Nat /\ e \in Live(nx) /\ depth[e] = d /\ code[e] = x \div Width(d)
      /\ IsNode(tab, nx, depth, code, e)
  BY WayIsOpen
<1>2. Width(d) = 2 * w /\ w \in Nat \ {0}  BY NextWidth
<1>3. x \div w = 2 * (x \div Width(d)) + b /\ b \in {0, 1}
  <2>1. x \div w = 2 * (x \div (2 * w)) + ((x \div w) % 2) /\ (x \div w) % 2 \in {0, 1}
    BY <1>1, <1>2, Halves
  <2> QED  BY <1>2, <2>1
<1>4. n \in RootHalf..(nx - 1) /\ depth[2 * n + b] = d + 1 /\ code[2 * n + b] = 2 * code[e] + b
  BY <1>1, <1>3 DEF IsNode
<1>5. 2 * n + b \in Live(nx)
  <2>1. n \in Nat /\ n <= nx - 1  BY <1>4, Sizes
  <2> HIDE DEF n
  <2> QED  BY <1>3, <2>1 DEF Live
<1>6. code[2 * n + b] = x \div w  BY <1>1, <1>3, <1>4
<1>7. ASSUME NEW f \in Live(nx), tab[f] = 0, code[f] * Width(depth[f]) = x
      PROVE  depth[f] >= d + 1
  <2>1. f # e  BY <1>7
  <2> QED  BY <1>7, <2>1, FreeIsDeeper
<1> QED  BY <1>4, <1>5, <1>6, <1>7 DEF OnTheWay

\* A new node where the way ends: its entries get the labels one bit longer,
\* which no entry has yet.
LEMMA Allocate ==
    ASSUME NEW lens \in [Symbols -> 0..LongestCode], NEW nx \in Nat, nx >= RootHalf,
           NEW tab, {2 * nx, 2 * nx + 1} \cup Live(nx) \subseteq DOMAIN tab,
           tab = [i \in DOMAIN tab |-> tab[i]],
           NEW k \in 0..Occurring(lens), k < Occurring(lens),
           NEW depth, NEW code, NEW e, NEW d, d < lens[NextSymbol(lens, k)],
           Tree(lens, tab, nx, k, depth, code), OnTheWay(lens, tab, nx, k, depth, code, e, d),
           tab[e] = 0, NEW b, b = (Begin(lens, k) \div Width(d + 1)) % 2
    PROVE  LET new == [tab EXCEPT ![2 * nx] = 0, ![2 * nx + 1] = 0, ![e] = nx]
           IN  \E depths, codes :
                  /\ Tree(lens, new, nx + 1, k, depths, codes)
                  /\ OnTheWay(lens, new, nx + 1, k, depths, codes, 2 * nx + b, d + 1)
<1> DEFINE x == Begin(lens, k)
           m == Occurring(lens)
           s == NextSymbol(lens, k)
           c == code[e]
           w == Width(d + 1)
           new == [tab EXCEPT ![2 * nx] = 0, ![2 * nx + 1] = 0, ![e] = nx]
           depths == [f \in Live(nx + 1) |-> IF f < 2 * nx THEN depth[f] ELSE d + 1]
           codes == [f \in Live(nx + 1) |-> IF f < 2 * nx THEN code[f] ELSE 2 * c + (f - 2 * nx)]
<1>1. /\ x \in Nat /\ e \in Live(nx) /\ depth[e] = d /\ d \in T..LongestCode /\ d \in 0..16
      /\ c \in Nat /\ c = x \div Width(d) /\ c * Width(d) = x
      /\ ~IsNode(tab, nx, depth, code, e)
  <2>1. IsNode(tab, nx, depth, code, e) => tab[e] # 0
    <3>1. \A n \in RootHalf..(nx - 1) : n # 0  BY Sizes
    <3> QED  BY <3>1 DEF IsNode
  <2> HIDE DEF x, c
  <2>2. /\ x \in Nat /\ e \in Live(nx) /\ depth[e] = d /\ d \in T..LongestCode /\ d \in 0..16
        /\ c \in Nat /\ c = x \div Width(d)
        /\ \/ IsNode(tab, nx, depth, code, e) /\ tab[e] # 0
           \/ tab[e] = 0 /\ c * Width(d) = x
    BY WayIsOpen DEF x, c
  <2> QED  BY <2>1, <2>2
<1>2. /\ m \in Nat /\ k + 1 \in 1..m /\ s \in Coded(lens) /\ lens[s] \in 1..LongestCode
      /\ s = Sorted(lens)[k + 1] /\ k = (k + 1) - 1
  <2>1. m \in Nat /\ \A j \in 1..m : Sorted(lens)[j] \in Coded(lens)  BY CodedFacts, OrderFacts
  <2>2. k + 1 \in 1..m /\ k = (k + 1) - 1  BY <2>1
  <2> QED  BY <2>1, <2>2, CodedFacts DEF NextSymbol
<1>3. d \in 0..15 /\ d + 1 \in T..LongestCode /\ d + 1 <= lens[s] /\ d + 1 > T /\ d + 1 # T
  <2> DEFINE l == lens[s]
  <2>1. l \in 1..LongestCode /\ d < l  BY <1>2
  <2> HIDE DEF l
  <2>2. d \in 0..15 /\ d + 1 \in T..LongestCode /\ d + 1 <= l /\ d + 1 > T
    BY <1>1, <2>1, Sizes
  <2> QED  BY <1>1, <2>2, Sizes DEF l
<1>4. Width(d) = 2 * w /\ w \in Nat \ {0} /\ 2^(d + 1) = 2 * 2^d /\ 2^d \in Nat \ {0}
  BY <1>3, NextWidth
<1>5. /\ Labels(nx, depth, code)
      /\ \A n \in RootHalf..(nx - 1) : \E f \in Live(nx) : tab[f] = n
      /\ \A f \in Live(nx) :
            \/ IsNode(tab, nx, depth, code, f)
            \/ IsSymbol(lens, tab, depth, code, f) /\ (code[f] + 1) * Width(depth[f]) <= x
            \/ tab[f] = 0 /\ code[f] * Width(depth[f]) >= x
      /\ \A f \in Live(nx) : depth[f] > T /\ k < m => depth[f] <= lens[s]
      /\ \A f \in Live(nx) : IsNode(tab, nx, depth, code, f) =>
            \E j \in 1..m : /\ depth[f] < lens[Sorted(lens)[j]]
                            /\ Begin(lens, j - 1) = code[f] * Width(depth[f])
  BY DEF Tree
<1>6. /\ RootHalf \in Nat \ {0} /\ TableMask = 2 * RootHalf
      /\ \A f \in Live(nx) : f \in Live(nx + 1) /\ f \in Nat /\ f < 2 * nx
      /\ \A f \in Live(nx + 1) : f \in Live(nx) \/ f = 2 * nx \/ f = 2 * nx + 1
      /\ 2 * nx \in Live(nx + 1) /\ 2 * nx + 1 \in Live(nx + 1)
      /\ ~(2 * nx < 2 * nx) /\ ~(2 * nx + 1 < 2 * nx) /\ 2 * nx \notin Live(nx)
      /\ 2 * nx + 1 \notin Live(nx)
  BY Sizes DEF Live
<1>7. /\ \A f \in Live(nx) : depths[f] = depth[f] /\ codes[f] = code[f]
      /\ \A y \in {0, 1} : /\ depths[2 * nx + y] = d + 1 /\ codes[2 * nx + y] = 2 * c + y
                           /\ 2 * nx + y \in Live(nx + 1)
  <2>1. \A f \in Live(nx) : depths[f] = depth[f] /\ codes[f] = code[f]  BY <1>6
  <2>2. depths[2 * nx] = d + 1 /\ depths[2 * nx + 1] = d + 1  BY <1>6
  <2>3. codes[2 * nx] = 2 * c + (2 * nx - 2 * nx) /\ codes[2 * nx + 1] = 2 * c + (2 * nx + 1 - 2 * nx)
    BY <1>6
  <2>4. 2 * nx + 0 = 2 * nx /\ 2 * nx - 2 * nx = 0 /\ 2 * nx + 1 - 2 * nx = 1  OBVIOUS
  <2> HIDE DEF depths, codes
  <2> QED  BY <1>6, <2>1, <2>2, <2>3, <2>4
<1>8. /\ depths \in [Live(nx + 1) -> T..LongestCode] /\ codes \in [Live(nx + 1) -> Nat]
  <2>1. \A f \in Live(nx) : depth[f] \in T..LongestCode /\ code[f] \in Nat  BY <1>5, LabelFacts
  <2>2. \A y \in {0, 1} : 2 * c + y \in Nat  BY <1>1
  <2>3. \A f \in Live(nx + 1) : depths[f] \in T..LongestCode /\ codes[f] \in Nat
    <3> SUFFICES ASSUME NEW f \in Live(nx + 1)  PROVE depths[f] \in T..LongestCode /\ codes[f] \in Nat
      OBVIOUS
    <3>1. CASE f \in Live(nx)  BY <1>7, <2>1, <3>1
    <3>2. CASE f = 2 * nx
      <4>1. depths[2 * nx + 0] = d + 1 /\ codes[2 * nx + 0] = 2 * c + 0 /\ 2 * nx + 0 = 2 * nx  BY <1>7
      <4> HIDE DEF depths, codes
      <4> QED  BY <1>3, <2>2, <3>2, <4>1
    <3>3. CASE f = 2 * nx + 1
      <4>1. depths[2 * nx + 1] = d + 1 /\ codes[2 * nx + 1] = 2 * c + 1  BY <1>7
      <4> HIDE DEF depths, codes
      <4> QED  BY <1>3, <2>2, <3>3, <4>1
    <3> HIDE DEF depths, codes
    <3> QED  BY <1>6, <3>1, <3>2, <3>3
  <2>4. depths = [f \in Live(nx + 1) |-> depths[f]] /\ codes = [f \in Live(nx + 1) |-> codes[f]]
    OBVIOUS
  <2> HIDE DEF depths, codes
  <2> QED  BY <2>3, <2>4
<1>9. /\ \A f \in Live(nx) : f # e => new[f] = tab[f]
      /\ new[e] = nx
      /\ \A y \in {0, 1} : new[2 * nx + y] = 0
  <2>0. e # 2 * nx /\ e # 2 * nx + 1 /\ 2 * nx # 2 * nx + 1  BY <1>1, <1>6
  <2>1. new[e] = nx  BY <1>1, <2>0
  <2>2. \A f \in Live(nx) : f # e => new[f] = tab[f]
    <3> SUFFICES ASSUME NEW f \in Live(nx), f # e  PROVE new[f] = tab[f]  OBVIOUS
    <3>1. f # 2 * nx /\ f # 2 * nx + 1 /\ f \in DOMAIN tab  BY <1>6
    <3> QED  BY <3>1
  <2>3. new[2 * nx] = 0 /\ new[2 * nx + 1] = 0  BY <2>0
  <2>4. 2 * nx + 0 = 2 * nx  OBVIOUS
  <2> HIDE DEF new
  <2> QED  BY <2>1, <2>2, <2>3, <2>4
<1> HIDE DEF depths, codes, new
\* No entry has the labels of the new ones: it would hang on this one.
<1>10. ASSUME NEW f \in Live(nx), NEW y \in {0, 1}, depth[f] = d + 1, code[f] = 2 * c + y
       PROVE  FALSE
  <2>1. ~(f \in 0..(TableMask - 1))
    <3> SUFFICES ASSUME f \in 0..(TableMask - 1)  PROVE FALSE  OBVIOUS
    <3>1. depth[f] = T  BY <1>5 DEF Labels
    <3> QED  BY <1>3, <1>10, <3>1
  <2> DEFINE n == f \div 2
             z == f % 2
  <2>2. f \in Nat /\ f >= 2 * RootHalf /\ f < 2 * nx  BY <1>6, <2>1
  <2>3. n \in RootHalf..(nx - 1) /\ z \in {0, 1} /\ f = 2 * n + z  BY <1>6, <2>2, SMT
  <2> HIDE DEF n, z
  <2>4. PICK g \in Live(nx) : tab[g] = n  BY <1>5, <2>3
  <2>5. IsNode(tab, nx, depth, code, g)
    <3>1. n # 0 /\ n >= RootHalf  BY <1>6, <2>3
    <3>2. ~IsSymbol(lens, tab, depth, code, g)
      <4>1. \A t \in Coded(lens) : t \in Nat /\ t < RootHalf  BY CodedFacts
      <4>2. n \notin Coded(lens)  BY <1>6, <2>3, <4>1
      <4> QED  BY <2>4, <4>2 DEF IsSymbol
    <3> QED  BY <1>5, <2>4, <3>1, <3>2
  <2>6. depth[f] = depth[g] + 1 /\ code[f] = 2 * code[g] + z  BY <2>3, <2>4, <2>5 DEF IsNode
  <2>7. depth[g] \in T..LongestCode /\ code[g] \in Nat  BY <1>5, LabelFacts
  <2>8. depth[g] = d /\ code[g] = c
    <3> DEFINE p == depth[g]
               q == code[g]
    <3>1. p + 1 = d + 1 /\ 2 * q + z = 2 * c + y /\ p \in Int /\ q \in Nat  BY <1>10, <2>6, <2>7, Sizes
    <3> HIDE DEF p, q, c
    <3>2. p = d /\ q = c  BY <1>1, <2>3, <3>1
    <3> QED  BY <3>2 DEF p, q
  <2>9. g = e  BY <1>1, <1>5, <2>8 DEF Labels
  <2>10. tab[e] # 0  BY <1>6, <2>3, <2>4, <2>9
  <2> QED  BY <2>10
<1>11. Labels(nx + 1, depths, codes)
  <2>1. \A f \in Live(nx + 1) : codes[f] < 2^depths[f]
    <3> SUFFICES ASSUME NEW f \in Live(nx + 1)  PROVE codes[f] < 2^depths[f]  OBVIOUS
    <3>1. CASE f \in Live(nx)
      <4>1. code[f] < 2^depth[f]  BY <1>5, <3>1 DEF Labels
      <4> QED  BY <1>7, <3>1, <4>1
    <3>2. CASE f \notin Live(nx)
      <4>1. \E y \in {0, 1} : f = 2 * nx + y
        <5>1. 2 * nx = 2 * nx + 0  OBVIOUS
        <5> QED  BY <1>6, <3>2, <5>1
      <4>2. PICK y \in {0, 1} : f = 2 * nx + y  BY <4>1
      <4>3. depths[f] = d + 1 /\ codes[f] = 2 * c + y  BY <1>7, <4>2
      <4>4. c < 2^d  BY <1>1, <1>5 DEF Labels
      <4> DEFINE p == 2^d
      <4>5. p \in Nat /\ c < p /\ 2^(d + 1) = 2 * p  BY <1>4, <4>4
      <4> HIDE DEF p
      <4>6. 2 * c + y < 2 * p  BY <1>1, <4>5
      <4> QED  BY <4>3, <4>5, <4>6
    <3> QED  BY <3>1, <3>2
  <2>2. \A i \in 0..(TableMask - 1) : depths[i] = T /\ codes[i] = ReverseBits(i, T)
    <3> SUFFICES ASSUME NEW i \in 0..(TableMask - 1)
                 PROVE  depths[i] = T /\ codes[i] = ReverseBits(i, T)
      OBVIOUS
    <3>1. i \in Live(nx)  BY <1>6 DEF Live
    <3>2. depth[i] = T /\ code[i] = ReverseBits(i, T)  BY <1>5 DEF Labels
    <3> QED  BY <1>7, <3>1, <3>2
  <2>3. ASSUME NEW f \in Live(nx + 1), NEW g \in Live(nx + 1),
               depths[f] = depths[g], codes[f] = codes[g]
        PROVE  f = g
    <3>1. \A h \in Live(nx + 1) : h \in Live(nx) \/ \E y \in {0, 1} : h = 2 * nx + y
      <4>1. 2 * nx = 2 * nx + 0  OBVIOUS
      <4> QED  BY <1>6, <4>1
    <3>2. CASE f \in Live(nx) /\ g \in Live(nx)
      <4>1. depth[f] = depth[g] /\ code[f] = code[g]  BY <1>7, <2>3, <3>2
      <4> QED  BY <1>5, <3>2, <4>1 DEF Labels
    <3>3. CASE f \in Live(nx) /\ g \notin Live(nx)
      <4>1. PICK y \in {0, 1} : g = 2 * nx + y  BY <3>1, <3>3
      <4>2. depth[f] = d + 1 /\ code[f] = 2 * c + y  BY <1>7, <2>3, <3>3, <4>1
      <4> QED  BY <1>10, <3>3, <4>2
    <3>4. CASE f \notin Live(nx) /\ g \in Live(nx)
      <4>1. PICK y \in {0, 1} : f = 2 * nx + y  BY <3>1, <3>4
      <4>2. depth[g] = d + 1 /\ code[g] = 2 * c + y  BY <1>7, <2>3, <3>4, <4>1
      <4> QED  BY <1>10, <3>4, <4>2
    <3>5. CASE f \notin Live(nx) /\ g \notin Live(nx)
      <4>1. PICK y \in {0, 1} : f = 2 * nx + y  BY <3>1, <3>5
      <4>2. PICK z \in {0, 1} : g = 2 * nx + z  BY <3>1, <3>5
      <4>3. 2 * c + y = 2 * c + z  BY <1>7, <2>3, <4>1, <4>2
      <4>4. y = z
        <5> HIDE DEF c
        <5> QED  BY <1>1, <4>3
      <4> QED  BY <4>1, <4>2, <4>4
    <3> QED  BY <3>2, <3>3, <3>4, <3>5
  <2> QED  BY <1>8, <2>1, <2>2, <2>3 DEF Labels
<1>12. ASSUME NEW f \in Live(nx), f # e, IsNode(tab, nx, depth, code, f)
       PROVE  IsNode(new, nx + 1, depths, codes, f)
  <2> DEFINE n == tab[f]
  <2>1. n \in RootHalf..(nx - 1) /\ n \in Nat  BY <1>6, <1>12 DEF IsNode
  <2>2. \A y \in {0, 1} : 2 * n + y \in Live(nx)
    <3> HIDE DEF n
    <3> QED  BY <2>1 DEF Live
  <2>3. new[f] = n  BY <1>9, <1>12
  <2>4. \A y \in {0, 1} : depths[2 * n + y] = depths[f] + 1 /\ codes[2 * n + y] = 2 * codes[f] + y
    BY <1>7, <1>12, <2>2 DEF IsNode
  <2>5. n \in RootHalf..((nx + 1) - 1)
    <3> HIDE DEF n
    <3> QED  BY <2>1, <1>6
  <2> QED  BY <2>3, <2>4, <2>5 DEF IsNode
<1>13. IsNode(new, nx + 1, depths, codes, e)
  <2>1. nx \in RootHalf..((nx + 1) - 1)  BY <1>6
  <2>2. \A y \in {0, 1} : depths[2 * nx + y] = depths[e] + 1 /\ codes[2 * nx + y] = 2 * codes[e] + y
    BY <1>1, <1>7
  <2> QED  BY <1>9, <2>1, <2>2 DEF IsNode
<1>14. \A n \in RootHalf..((nx + 1) - 1) : \E f \in Live(nx + 1) : new[f] = n
  <2> SUFFICES ASSUME NEW n \in RootHalf..((nx + 1) - 1)  PROVE \E f \in Live(nx + 1) : new[f] = n
    OBVIOUS
  <2>1. CASE n = nx  BY <1>1, <1>6, <1>9, <2>1
  <2>2. CASE n # nx
    <3>1. n \in RootHalf..(nx - 1) /\ n # 0  BY <1>6, <2>2
    <3>2. PICK f \in Live(nx) : tab[f] = n  BY <1>5, <3>1
    <3>3. f # e  BY <3>1, <3>2
    <3> QED  BY <1>6, <1>9, <3>2, <3>3
  <2> QED  BY <2>1, <2>2
<1>15. ASSUME NEW y \in {0, 1}
       PROVE  (2 * c + y) * w >= x
  <2>1. (2 * c) * w = x  BY <1>1, <1>4, SMT
  <2>2. 2 * c \in Nat /\ 2 * c + y \in Nat /\ 2 * c <= 2 * c + y  BY <1>1
  <2>3. (2 * c) * w <= (2 * c + y) * w
    <3> DEFINE p == 2 * c
               q == 2 * c + y
    <3>1. p \in Nat /\ q \in Nat /\ p <= q  BY <2>2
    <3> HIDE DEF p, q
    <3>2. p * w <= q * w  BY <1>4, <3>1, Scaled
    <3> QED  BY <3>2 DEF p, q
  <2>4. (2 * c + y) * w \in Nat  BY <1>4, <2>2, Scaled
  <2> DEFINE u == (2 * c + y) * w
  <2>5. u \in Nat /\ x <= u  BY <2>1, <2>3, <2>4
  <2> HIDE DEF u, x
  <2>6. u >= x  BY <1>1, <2>5
  <2> QED  BY <2>6 DEF u
<1>16. \A f \in Live(nx + 1) :
          \/ IsNode(new, nx + 1, depths, codes, f)
          \/ IsSymbol(lens, new, depths, codes, f) /\ (codes[f] + 1) * Width(depths[f]) <= x
          \/ new[f] = 0 /\ codes[f] * Width(depths[f]) >= x
  <2> SUFFICES ASSUME NEW f \in Live(nx + 1), ~IsNode(new, nx + 1, depths, codes, f)
               PROVE  \/ IsSymbol(lens, new, depths, codes, f) /\ (codes[f] + 1) * Width(depths[f]) <= x
                      \/ new[f] = 0 /\ codes[f] * Width(depths[f]) >= x
    OBVIOUS
  <2>1. f # e  BY <1>13
  <2>2. CASE f \in Live(nx)
    <3>1. ~IsNode(tab, nx, depth, code, f)  BY <1>12, <2>1, <2>2
    <3>2. \/ IsSymbol(lens, tab, depth, code, f) /\ (code[f] + 1) * Width(depth[f]) <= x
          \/ tab[f] = 0 /\ code[f] * Width(depth[f]) >= x
      BY <1>5, <2>2, <3>1
    <3>3. new[f] = tab[f] /\ depths[f] = depth[f] /\ codes[f] = code[f]  BY <1>7, <1>9, <2>1, <2>2
    <3> QED  BY <3>2, <3>3 DEF IsSymbol
  <2>3. CASE f \notin Live(nx)
    <3>1. \E y \in {0, 1} : f = 2 * nx + y
      <4>1. 2 * nx = 2 * nx + 0  OBVIOUS
      <4> QED  BY <1>6, <2>3, <4>1
    <3>2. PICK y \in {0, 1} : f = 2 * nx + y  BY <3>1
    <3>3. new[f] = 0 /\ depths[f] = d + 1 /\ codes[f] = 2 * c + y  BY <1>7, <1>9, <3>2
    <3> QED  BY <1>15, <3>3
  <2> QED  BY <2>2, <2>3
<1>17. \A f \in Live(nx + 1) : depths[f] > T /\ k < m => depths[f] <= lens[s]
  <2> SUFFICES ASSUME NEW f \in Live(nx + 1), depths[f] > T  PROVE depths[f] <= lens[s]  OBVIOUS
  <2>1. CASE f \in Live(nx)  BY <1>5, <1>7, <2>1
  <2>2. CASE f \notin Live(nx)
    <3>1. \E y \in {0, 1} : f = 2 * nx + y
      <4>1. 2 * nx = 2 * nx + 0  OBVIOUS
      <4> QED  BY <1>6, <2>2, <4>1
    <3>2. depths[f] = d + 1  BY <1>7, <3>1
    <3> QED  BY <1>3, <3>2
  <2> QED  BY <2>1, <2>2
<1>18. \A f \in Live(nx + 1) : IsNode(new, nx + 1, depths, codes, f) =>
          \E j \in 1..m : /\ depths[f] < lens[Sorted(lens)[j]]
                          /\ Begin(lens, j - 1) = codes[f] * Width(depths[f])
  <2> SUFFICES ASSUME NEW f \in Live(nx + 1), IsNode(new, nx + 1, depths, codes, f)
               PROVE  \E j \in 1..m : /\ depths[f] < lens[Sorted(lens)[j]]
                                      /\ Begin(lens, j - 1) = codes[f] * Width(depths[f])
    OBVIOUS
  <2>1. CASE f = e
    <3>1. depths[f] = d /\ codes[f] = c  BY <1>1, <1>7, <2>1
    <3>2. d < lens[Sorted(lens)[k + 1]] /\ Begin(lens, (k + 1) - 1) = c * Width(d)
      BY <1>1, <1>2 DEF NextSymbol
    <3> QED  BY <1>2, <3>1, <3>2
  <2>2. CASE f # e /\ f \in Live(nx)
    <3>1. new[f] = tab[f] /\ depths[f] = depth[f] /\ codes[f] = code[f]  BY <1>7, <1>9, <2>2
    <3>2. tab[f] >= RootHalf /\ tab[f] \in Int
      <4>1. tab[f] \in RootHalf..((nx + 1) - 1)  BY <3>1 DEF IsNode
      <4> QED  BY <1>6, <4>1
    <3>3. ~IsSymbol(lens, tab, depth, code, f) /\ tab[f] # 0
      <4>1. \A t \in Coded(lens) : t \in Nat /\ t < RootHalf  BY CodedFacts
      <4>2. tab[f] \notin Coded(lens)  BY <1>6, <3>2, <4>1
      <4> QED  BY <1>6, <3>2, <4>2 DEF IsSymbol
    <3>4. IsNode(tab, nx, depth, code, f)  BY <1>5, <2>2, <3>3
    <3> QED  BY <1>5, <2>2, <3>1, <3>4
  <2>3. CASE f # e /\ f \notin Live(nx)
    <3>1. \E y \in {0, 1} : f = 2 * nx + y
      <4>1. 2 * nx = 2 * nx + 0  OBVIOUS
      <4> QED  BY <1>6, <2>3, <4>1
    <3>2. new[f] = 0  BY <1>9, <3>1
    <3>3. new[f] \in RootHalf..((nx + 1) - 1)  BY DEF IsNode
    <3> QED  BY <1>6, <3>2, <3>3
  <2> QED  BY <2>1, <2>2, <2>3
<1>19. Tree(lens, new, nx + 1, k, depths, codes)
  BY <1>11, <1>14, <1>16, <1>17, <1>18 DEF Tree
<1>20. x \div w = 2 * c + b /\ b \in {0, 1}
  <2>1. x \div w = 2 * (x \div (2 * w)) + ((x \div w) % 2) /\ (x \div w) % 2 \in {0, 1}
    BY <1>1, <1>4, Halves
  <2> QED  BY <1>1, <1>4, <2>1
<1>21. OnTheWay(lens, new, nx + 1, k, depths, codes, 2 * nx + b, d + 1)
  <2>1. /\ 2 * nx + b \in Live(nx + 1) /\ depths[2 * nx + b] = d + 1
        /\ codes[2 * nx + b] = x \div w
    BY <1>7, <1>20
  <2>2. ASSUME NEW f \in Live(nx + 1), new[f] = 0, codes[f] * Width(depths[f]) = x
        PROVE  depths[f] >= d + 1
    <3>1. CASE f \in Live(nx)
      <4>1. f # e  BY <1>6, <1>9, <2>2
      <4>2. tab[f] = 0 /\ code[f] * Width(depth[f]) = x  BY <1>7, <1>9, <2>2, <3>1, <4>1
      <4>3. depth[f] >= d + 1  BY <3>1, <4>1, <4>2, FreeIsDeeper
      <4> QED  BY <1>7, <3>1, <4>3
    <3>2. CASE f \notin Live(nx)
      <4>1. \E y \in {0, 1} : f = 2 * nx + y
        <5>1. 2 * nx = 2 * nx + 0  OBVIOUS
        <5> QED  BY <1>6, <3>2, <5>1
      <4>2. depths[f] = d + 1  BY <1>7, <4>1
      <4> QED  BY <1>3, <4>2, Sizes
    <3> QED  BY <3>1, <3>2
  <2> QED  BY <2>1, <2>2 DEF OnTheWay
<1> QED  BY <1>19, <1>21 DEF new

-----------------------------------------------------------------------------
(* Codes come into the table *)

\* The next code and the one behind it.
LEMMA NextFacts ==
    ASSUME NEW lens \in [Symbols -> 0..LongestCode],
           NEW k \in 0..Occurring(lens), k < Occurring(lens)
    PROVE  LET s == NextSymbol(lens, k)
               v == CanonicalCode(lens, s)
               l == lens[s]
           IN  /\ s \in Coded(lens) /\ s \in Nat /\ s < RootHalf /\ l \in 1..LongestCode /\ l \in 0..16
               /\ k + 1 \in 1..Occurring(lens) /\ k + 1 \in 0..Occurring(lens)
               /\ s = Sorted(lens)[k + 1]
               /\ v \in Nat /\ Width(l) \in Nat \ {0}
               /\ Begin(lens, k) \in Nat /\ Begin(lens, k + 1) \in Nat
               /\ Begin(lens, k) = v * Width(l)
               /\ Begin(lens, k + 1) = Begin(lens, k) + Width(l)
               /\ Begin(lens, k + 1) = (v + 1) * Width(l)
               /\ k + 1 < Occurring(lens) => l <= lens[NextSymbol(lens, k + 1)]
<1> DEFINE m == Occurring(lens)
           s == NextSymbol(lens, k)
           v == CanonicalCode(lens, s)
           l == lens[s]
           w == Width(l)
<1>1. /\ m \in Nat /\ \A j \in 1..m : Sorted(lens)[j] \in Coded(lens)
      /\ \A i, j \in 1..m : i <= j => lens[Sorted(lens)[i]] <= lens[Sorted(lens)[j]]
  BY CodedFacts, OrderFacts
<1>2. k + 1 \in 1..m /\ k + 1 \in 0..m /\ (k + 1) - 1 = k /\ k \in Nat  BY <1>1
<1>3. s = Sorted(lens)[k + 1] /\ s \in Coded(lens)  BY <1>1, <1>2 DEF NextSymbol
<1>4. s \in Nat /\ s < RootHalf /\ l \in 1..LongestCode /\ l \in 1..16  BY <1>3, CodedFacts
<1>5. l \in 0..16  BY <1>4
<1>6. w \in Nat \ {0}  BY <1>5, WidthFacts
<1>7. /\ Begin(lens, k) \in Nat /\ Begin(lens, k + 1) \in Nat
      /\ Begin(lens, k) = v * w /\ Begin(lens, k + 1) = Begin(lens, k) + w
  <2>1. /\ \A i \in 0..m : Begin(lens, i) \in Nat
        /\ \A i \in 1..m : /\ Begin(lens, i - 1) = First(lens, Sorted(lens)[i])
                           /\ Begin(lens, i) = Begin(lens, i - 1) + 2^(16 - lens[Sorted(lens)[i]])
    BY CodedFacts, Tiling
  <2>2. /\ Begin(lens, (k + 1) - 1) = First(lens, Sorted(lens)[k + 1])
        /\ Begin(lens, k + 1) = Begin(lens, (k + 1) - 1) + 2^(16 - lens[Sorted(lens)[k + 1]])
    BY <1>2, <2>1
  <2> QED  BY <1>2, <1>3, <2>1, <2>2 DEF First, Width
<1>8. v \in Nat
  <2>1. Place(lens, s) \in Nat  BY <1>3, CodedFacts, PlaceFacts
  <2>2. NextCode(lens) \in [0..16 -> Nat]
    <3>1. IsFiniteSet(DOMAIN lens)  BY CodedFacts, LengthsAreFreqs
    <3> QED  BY <3>1, NextCodeFacts
  <2>3. l - 1 \in 0..16  BY <1>4
  <2>4. v = NextCode(lens)[l - 1] + Place(lens, s)  BY DEF CanonicalCode, Place
  <2> HIDE DEF v, l
  <2> QED  BY <2>1, <2>2, <2>3, <2>4
<1>9. (v + 1) * w = v * w + w
  <2> HIDE DEF v, w
  <2> QED  BY ONLY <1>6, <1>8, SMT
<1>10. k + 1 < m => l <= lens[NextSymbol(lens, k + 1)]
  <2> SUFFICES ASSUME k + 1 < m  PROVE l <= lens[NextSymbol(lens, k + 1)]  OBVIOUS
  <2>1. (k + 1) + 1 \in 1..m /\ k + 1 <= (k + 1) + 1  BY <1>1, <1>2
  <2> QED  BY <1>1, <1>2, <1>3, <2>1 DEF NextSymbol
<1> QED  BY <1>2, <1>3, <1>4, <1>5, <1>6, <1>7, <1>8, <1>9, <1>10

\* Pass 2 puts the symbol where its way ends.
LEMMA PutSymbol ==
    ASSUME NEW lens \in [Symbols -> 0..LongestCode], NEW nx \in Nat, nx >= RootHalf,
           NEW tab, Live(nx) \subseteq DOMAIN tab, tab = [i \in DOMAIN tab |-> tab[i]],
           NEW k \in 0..Occurring(lens), k < Occurring(lens),
           NEW depth, NEW code, NEW e, lens[NextSymbol(lens, k)] > T,
           Tree(lens, tab, nx, k, depth, code),
           OnTheWay(lens, tab, nx, k, depth, code, e, lens[NextSymbol(lens, k)])
    PROVE  Tree(lens, [tab EXCEPT ![e] = NextSymbol(lens, k)], nx, k + 1, depth, code)
<1> DEFINE x == Begin(lens, k)
           y == Begin(lens, k + 1)
           m == Occurring(lens)
           s == NextSymbol(lens, k)
           l == lens[s]
           v == CanonicalCode(lens, s)
           w == Width(l)
           new == [tab EXCEPT ![e] = s]
<1>1. /\ s \in Coded(lens) /\ s \in Nat /\ s < RootHalf /\ l \in 1..LongestCode /\ l \in 0..16
      /\ v \in Nat /\ w \in Nat \ {0} /\ x \in Nat /\ y \in Nat
      /\ x = v * w /\ y = x + w /\ y = (v + 1) * w
      /\ k + 1 < m => l <= lens[NextSymbol(lens, k + 1)]
      /\ k + 1 \in 0..m
  BY NextFacts
<1>2. /\ Labels(nx, depth, code)
      /\ \A n \in RootHalf..(nx - 1) : \E f \in Live(nx) : tab[f] = n
      /\ \A f \in Live(nx) :
            \/ IsNode(tab, nx, depth, code, f)
            \/ IsSymbol(lens, tab, depth, code, f) /\ (code[f] + 1) * Width(depth[f]) <= x
            \/ tab[f] = 0 /\ code[f] * Width(depth[f]) >= x
      /\ \A f \in Live(nx) : depth[f] > T => depth[f] <= l
      /\ \A f \in Live(nx) : IsNode(tab, nx, depth, code, f) =>
            \E j \in 1..m : /\ depth[f] < lens[Sorted(lens)[j]]
                            /\ Begin(lens, j - 1) = code[f] * Width(depth[f])
  BY DEF Tree
<1>3. /\ e \in Live(nx) /\ depth[e] = l /\ code[e] \in Nat
      /\ \/ IsNode(tab, nx, depth, code, e)
         \/ tab[e] = 0 /\ code[e] * w = x
  BY WayIsOpen
<1>4. RootHalf \in Nat \ {0} /\ T \in 1..12  BY Sizes
<1>5. ~IsNode(tab, nx, depth, code, e)
  <2> SUFFICES ASSUME IsNode(tab, nx, depth, code, e)  PROVE FALSE  OBVIOUS
  <2> DEFINE n == tab[e]
  <2>1. n \in RootHalf..(nx - 1) /\ depth[2 * n + 0] = depth[e] + 1  BY DEF IsNode
  <2> HIDE DEF n
  <2>2. 2 * n + 0 \in Live(nx)  BY <1>4, <2>1 DEF Live
  <2> HIDE DEF l
  <2>3. l + 1 > T /\ ~(l + 1 <= l)  BY <1>1, <1>4 DEF l
  <2> QED  BY <1>2, <1>3, <2>1, <2>2, <2>3
<1>6. tab[e] = 0 /\ code[e] * w = x  BY <1>3, <1>5
<1>7. code[e] = v
  <2>1. code[e] * w = v * w  BY <1>1, <1>6
  <2>2. code[e] \in Nat /\ v \in Nat /\ w \in Nat \ {0}  BY <1>1, <1>3
  <2> DEFINE c == code[e]
  <2> HIDE DEF v, w, c
  <2>3. c * w = v * w <=> c = v  BY <2>2, Scaled DEF c
  <2> QED  BY <2>1, <2>3 DEF c
<1>8. new[e] = s /\ (\A f \in Live(nx) : f # e => new[f] = tab[f])  BY <1>3
<1> HIDE DEF new
<1>9. \A f \in Live(nx) : IsNode(new, nx, depth, code, f) <=> IsNode(tab, nx, depth, code, f)
  <2> SUFFICES ASSUME NEW f \in Live(nx)
               PROVE  IsNode(new, nx, depth, code, f) <=> IsNode(tab, nx, depth, code, f)
    OBVIOUS
  <2>1. CASE f = e
    <3>1. s \notin RootHalf..(nx - 1)
      <4> HIDE DEF s
      <4> QED  BY <1>1, <1>4
    <3>2. ~IsNode(new, nx, depth, code, e)  BY <1>8, <3>1 DEF IsNode
    <3> QED  BY <1>5, <2>1, <3>2
  <2>2. CASE f # e  BY <1>8, <2>2 DEF IsNode
  <2> QED  BY <2>1, <2>2
<1>10. \A n \in RootHalf..(nx - 1) : \E f \in Live(nx) : new[f] = n
  <2> SUFFICES ASSUME NEW n \in RootHalf..(nx - 1)  PROVE \E f \in Live(nx) : new[f] = n  OBVIOUS
  <2>1. n # 0  BY <1>4
  <2>2. PICK f \in Live(nx) : tab[f] = n  BY <1>2
  <2>3. f # e  BY <1>6, <2>1, <2>2
  <2> QED  BY <1>8, <2>2, <2>3
<1>11. IsSymbol(lens, new, depth, code, e) /\ (code[e] + 1) * Width(depth[e]) <= y
  <2>1. l - l = 0 /\ 2^0 = 1 /\ v \div 1 = v /\ l <= l
    <3> HIDE DEF l, v
    <3> QED  BY <1>1, SMT
  <2>2. code[e] \div 2^(depth[e] - lens[new[e]]) = v  BY <1>3, <1>7, <1>8, <2>1
  <2>3. IsSymbol(lens, new, depth, code, e)  BY <1>1, <1>3, <1>8, <2>1, <2>2 DEF IsSymbol
  <2>4. (code[e] + 1) * Width(depth[e]) = y  BY <1>1, <1>3, <1>7
  <2>5. y <= y  BY <1>1
  <2> QED  BY <2>3, <2>4, <2>5
\* What is free and begins at x is this entry: others begin behind the code.
<1>12. ASSUME NEW f \in Live(nx), f # e, tab[f] = 0, code[f] * Width(depth[f]) >= x
       PROVE  code[f] * Width(depth[f]) >= y
  <2> DEFINE c == code[f]
             d == depth[f]
             p == 2^(l - d)
             u == c * p
  <2>1. d \in T..LongestCode /\ d \in 0..16 /\ c \in Nat  BY <1>2, LabelFacts
  <2>2. d <= l
    <3>1. d > T => d <= l  BY <1>2
    <3> HIDE DEF d, l
    <3>2. l > T  BY DEF l
    <3> QED  BY <1>1, <1>4, <2>1, <3>1, <3>2
  <2>3. p \in Nat \ {0} /\ Width(d) = p * w
    <3>1. l \in d..16
      <4> HIDE DEF d, l
      <4> QED  BY <1>1, <2>1, <2>2
    <3> QED  BY <2>1, <3>1, Widths
  <2> HIDE DEF p, c, d
  <2>4. u \in Nat /\ c * Width(d) = u * w
    <3> HIDE DEF w
    <3>1. c * (p * w) = (c * p) * w /\ c * p \in Nat  BY ONLY <1>1, <2>1, <2>3, SMT
    <3> QED  BY <2>3, <3>1
  <2> HIDE DEF u
  <2>5. u * w >= v * w  BY <1>1, <1>12, <2>4 DEF c, d
  <2>6. u * w # v * w
    <3> SUFFICES ASSUME u * w = v * w  PROVE FALSE  OBVIOUS
    <3>1. code[f] * Width(depth[f]) = x  BY <1>1, <2>4 DEF c, d
    <3>2. d >= l + 1  BY <1>12, <3>1, FreeIsDeeper DEF d
    <3> HIDE DEF l
    <3> QED  BY <1>1, <2>1, <2>2, <3>2
  <2>7. u * w >= y
    <3> HIDE DEF v, w, x, y
    <3>1. v < u
      <4>1. u * w \in Nat /\ v * w \in Nat  BY <1>1, <2>4, Scaled
      <4> DEFINE i == u * w
                 j == v * w
      <4>2. i \in Nat /\ j \in Nat /\ i >= j /\ i # j  BY <2>5, <2>6, <4>1
      <4> HIDE DEF i, j
      <4>3. j < i  BY <4>2
      <4> QED  BY <1>1, <2>4, <4>3, Scaled DEF i, j
    <3>2. v * w + w <= u * w  BY <1>1, <2>4, <3>1, Scaled
    <3>3. u * w \in Nat  BY <1>1, <2>4, Scaled
    <3>4. y <= u * w  BY <1>1, <3>2
    <3> DEFINE i == u * w
    <3>5. i \in Nat /\ y <= i  BY <3>3, <3>4
    <3> HIDE DEF i
    <3>6. i >= y  BY <1>1, <3>5
    <3> QED  BY <3>6 DEF i
  <2> QED  BY <2>4, <2>7 DEF c, d
<1>13. \A f \in Live(nx) :
          \/ IsNode(new, nx, depth, code, f)
          \/ IsSymbol(lens, new, depth, code, f) /\ (code[f] + 1) * Width(depth[f]) <= y
          \/ new[f] = 0 /\ code[f] * Width(depth[f]) >= y
  <2> SUFFICES ASSUME NEW f \in Live(nx), ~IsNode(new, nx, depth, code, f), f # e
               PROVE  \/ IsSymbol(lens, new, depth, code, f) /\ (code[f] + 1) * Width(depth[f]) <= y
                      \/ new[f] = 0 /\ code[f] * Width(depth[f]) >= y
    BY <1>11
  <2>1. new[f] = tab[f]  BY <1>8
  <2>2. \/ IsSymbol(lens, tab, depth, code, f) /\ (code[f] + 1) * Width(depth[f]) <= x
        \/ tab[f] = 0 /\ code[f] * Width(depth[f]) >= x
    BY <1>2, <1>9
  <2>3. CASE IsSymbol(lens, tab, depth, code, f) /\ (code[f] + 1) * Width(depth[f]) <= x
    <3>1. IsSymbol(lens, new, depth, code, f)  BY <2>1, <2>3 DEF IsSymbol
    <3>2. (code[f] + 1) * Width(depth[f]) \in Nat
      <4>1. code[f] \in Nat /\ Width(depth[f]) \in Nat \ {0}  BY <1>2, LabelFacts
      <4>2. code[f] + 1 \in Nat  BY <4>1
      <4> QED  BY <4>1, <4>2, Scaled
    <3> DEFINE z == (code[f] + 1) * Width(depth[f])
    <3>3. z \in Nat /\ z <= x  BY <2>3, <3>2
    <3> HIDE DEF z, x, y, w
    <3>4. z <= y  BY <1>1, <3>3
    <3> QED  BY <3>1, <3>4 DEF z, y
  <2>4. CASE tab[f] = 0 /\ code[f] * Width(depth[f]) >= x
    <3>1. code[f] * Width(depth[f]) >= y  BY <1>12, <2>4
    <3> QED  BY <2>1, <2>4, <3>1
  <2> QED  BY <2>2, <2>3, <2>4
<1>14. \A f \in Live(nx) : depth[f] > T /\ k + 1 < m => depth[f] <= lens[NextSymbol(lens, k + 1)]
  <2> SUFFICES ASSUME NEW f \in Live(nx), depth[f] > T, k + 1 < m
               PROVE  depth[f] <= lens[NextSymbol(lens, k + 1)]
    OBVIOUS
  <2> DEFINE d == depth[f]
             z == lens[NextSymbol(lens, k + 1)]
  <2>1. d <= l /\ l <= z  BY <1>1, <1>2
  <2>2. d \in 0..16  BY <1>2, LabelFacts
  <2>3. z \in 0..16
    <3>1. k + 1 \in 0..m  BY <1>1
    <3> QED  BY <3>1, NextFacts
  <2> HIDE DEF d, z, l
  <2>4. d <= z  BY <1>1, <2>1, <2>2, <2>3
  <2> QED  BY <2>4 DEF d, z
<1> QED  BY <1>2, <1>9, <1>10, <1>13, <1>14 DEF Tree, new

-----------------------------------------------------------------------------
(* A complete code has a symbol of its own for every node *)

LEMMA OddPlaces ==
    ASSUME NEW a \in Nat, NEW b \in Nat, NEW d \in 0..16, NEW e \in 0..16,
           (2 * a + 1) * Width(d) = (2 * b + 1) * Width(e)
    PROVE  d = e /\ a = b
<1>1. ASSUME NEW g \in Nat, NEW h \in Nat, NEW i \in 0..16, NEW j \in 0..16, i < j,
             (2 * g + 1) * Width(i) = (2 * h + 1) * Width(j)
      PROVE  FALSE
  <2> DEFINE p == 2^((j - i) - 1)
             w == Width(j)
             y == 2 * g + 1
             z == 2 * h + 1
  <2>1. j \in i..16 /\ (j - i) - 1 \in 0..16 /\ ((j - i) - 1) + 1 = j - i  BY <1>1
  <2>2. w \in Nat \ {0} /\ Width(i) = 2^(j - i) * w  BY <2>1, Widths
  <2>3. p \in Nat \ {0} /\ 2^(j - i) = 2 * p
    <3>1. p \in Nat \ {0} /\ 2^(((j - i) - 1) + 1) = 2 * p  BY <2>1, Doubled
    <3> QED  BY <2>1, <3>1
  <2>4. y \in Nat /\ z \in Nat  OBVIOUS
  <2>5. y * (2 * p * w) = z * w  BY <1>1, <2>2, <2>3
  <2> HIDE DEF p, w
  <2>6. y * (2 * p * w) = (2 * (y * p)) * w /\ y * p \in Nat
    <3> HIDE DEF y
    <3> QED  BY ONLY <2>2, <2>3, <2>4, SMT
  <2> DEFINE u == y * p
  <2>7. u \in Nat /\ (2 * u) * w = z * w  BY <2>5, <2>6
  <2> HIDE DEF u, z
  <2>8. 2 * u = z
    <3> DEFINE v == 2 * u
    <3>1. v \in Nat /\ v * w = z * w  BY <2>7
    <3> HIDE DEF v
    <3>2. v = z  BY <2>2, <2>4, <3>1, Scaled
    <3> QED  BY <3>2 DEF v
  <2> QED  BY <2>7, <2>8 DEF z
<1>2. ~(d < e) /\ ~(e < d)  BY <1>1
<1>3. d = e  BY <1>2
<1> DEFINE y == 2 * a + 1
           z == 2 * b + 1
           w == Width(d)
<1>4. y \in Nat /\ z \in Nat /\ w \in Nat \ {0} /\ y * w = z * w  BY <1>3, WidthFacts
<1>5. y = z
  <2> HIDE DEF y, z, w
  <2> QED  BY <1>4, Scaled
<1> QED  BY <1>3, <1>5

\* The upper half of a node begins with a code, when there are codes all over.
LEMMA HalfBeginsCode ==
    ASSUME NEW lens \in [Symbols -> 0..LongestCode], Room(lens)[16] = AllRoom,
           NEW tab, NEW nx \in Nat, NEW k \in 0..Occurring(lens), NEW depth, NEW code,
           Tree(lens, tab, nx, k, depth, code),
           NEW f \in Live(nx), IsNode(tab, nx, depth, code, f)
    PROVE  /\ depth[f] \in 0..15 /\ depth[f] + 1 \in 0..16 /\ code[f] \in Nat
           /\ \E j \in 1..Occurring(lens) :
                 Begin(lens, j - 1) = (2 * code[f] + 1) * Width(depth[f] + 1)
<1> DEFINE m == Occurring(lens)
           d == depth[f]
           c == code[f]
           n == tab[f]
           w == Width(d + 1)
           W == Width(d)
           x == c * W
           p == (2 * c + 1) * w
<1>1. /\ Labels(nx, depth, code)
      /\ \E j \in 1..m : d < lens[Sorted(lens)[j]] /\ Begin(lens, j - 1) = x
  BY DEF Tree
<1>2. PICK i \in 1..m : d < lens[Sorted(lens)[i]] /\ Begin(lens, i - 1) = x  BY <1>1
<1>3. 2 * n + 1 \in Live(nx) /\ depth[2 * n + 1] = d + 1 /\ code[2 * n + 1] = 2 * c + 1
  <2>1. n \in RootHalf..(nx - 1) /\ depth[2 * n + 1] = d + 1 /\ code[2 * n + 1] = 2 * c + 1
    BY DEF IsNode
  <2>2. n \in Nat /\ n <= nx - 1  BY <2>1, Sizes
  <2> HIDE DEF n
  <2> QED  BY <2>1, <2>2 DEF Live
<1>4. d \in 0..16 /\ c \in Nat /\ d + 1 \in 0..16 /\ ((2 * c + 1) + 1) * w <= AllRoom
  <2>1. d \in 0..16 /\ c \in Nat  BY <1>1, LabelFacts
  <2> HIDE DEF d, c, n
  <2>2. depth[2 * n + 1] \in 0..16
        /\ (code[2 * n + 1] + 1) * Width(depth[2 * n + 1]) <= AllRoom
    BY <1>1, <1>3, LabelFacts
  <2> QED  BY <1>3, <2>1, <2>2
<1> HIDE DEF n, d, c
<1>5. d \in 0..15  BY <1>4
<1>6. W = 2 * w /\ w \in Nat \ {0} /\ W \in Nat \ {0}  BY <1>5, NextWidth
<1> HIDE DEF w, W
<1>7. /\ x \in Nat /\ p \in Nat /\ ((2 * c + 1) + 1) * w = p + w /\ p = x + w
      /\ (c + 1) * W = x + W
  BY ONLY <1>4, <1>6, SMT DEF p, x
<1> HIDE DEF x, p
<1>8. p < AllRoom
  <2>1. AllRoom \in Nat  BY <1>5, WidthFacts
  <2>2. p + w <= AllRoom  BY <1>4, <1>7
  <2> QED  BY <1>6, <1>7, <2>1, <2>2
<1>9. m \in Nat /\ IsLengths(lens)  BY CodedFacts, OrderFacts
<1>10. PICK j \in 1..m : Begin(lens, j - 1) <= p /\ p < Begin(lens, j)
  BY <1>7, <1>8, <1>9, Covered
<1> DEFINE s == NextSymbol(lens, j - 1)
           l == lens[s]
           v == CanonicalCode(lens, s)
           q == Width(l)
<1>11. /\ l \in 0..16 /\ v \in Nat /\ q \in Nat \ {0} /\ s = Sorted(lens)[j]
       /\ Begin(lens, j - 1) = v * q /\ Begin(lens, j) = (v + 1) * q
       /\ Begin(lens, j - 1) \in Nat /\ Begin(lens, j) \in Nat
  <2>1. j - 1 \in 0..m /\ j - 1 < m /\ (j - 1) + 1 = j  BY <1>9
  <2>2. /\ l \in 0..16 /\ v \in Nat /\ q \in Nat \ {0} /\ s = Sorted(lens)[(j - 1) + 1]
        /\ Begin(lens, j - 1) = v * q /\ Begin(lens, (j - 1) + 1) = (v + 1) * q
        /\ Begin(lens, j - 1) \in Nat /\ Begin(lens, (j - 1) + 1) \in Nat
    BY <2>1, NextFacts
  <2> QED  BY <2>1, <2>2
<1> HIDE DEF s, v
<1>12. CASE d + 1 <= l
  <2> DEFINE g == 2^(l - (d + 1))
             u == (2 * c + 1) * g
  <2>1. g \in Nat \ {0} /\ w = g * q
    <3>1. l \in (d + 1)..16
      <4> HIDE DEF l
      <4> QED  BY <1>4, <1>11, <1>12
    <3> QED  BY <1>4, <3>1, Widths DEF w
  <2> HIDE DEF g, q
  <2>2. u \in Nat /\ p = u * q
    <3>1. (2 * c + 1) * (g * q) = ((2 * c + 1) * g) * q /\ (2 * c + 1) * g \in Nat
      BY ONLY <1>4, <1>11, <2>1, SMT
    <3> QED  BY <2>1, <3>1 DEF p
  <2> HIDE DEF u
  <2>3. u = v
    <3>1. v * q <= u * q /\ u * q < (v + 1) * q  BY <1>10, <1>11, <2>2
    <3>2. v + 1 \in Nat  BY <1>11
    <3>3. v <= u  BY <1>11, <2>2, <3>1, Scaled
    <3> DEFINE z == v + 1
    <3>4. z \in Nat /\ u * q < z * q  BY <3>1, <3>2
    <3> HIDE DEF z
    <3>5. u < z  BY <1>11, <2>2, <3>4, Scaled
    <3> QED  BY <1>11, <2>2, <3>3, <3>5 DEF z
  <2>4. Begin(lens, j - 1) = p  BY <1>11, <2>2, <2>3
  <2> QED  BY <1>4, <1>5, <2>4 DEF p, w, c, d
<1>13. CASE ~(d + 1 <= l)
  <2> DEFINE g == 2^(d - l)
             u == v * g
  <2>1. g \in Nat \ {0} /\ q = g * W
    <3>1. d \in l..16
      <4> HIDE DEF l
      <4> QED  BY <1>4, <1>11, <1>13
    <3> QED  BY <1>11, <3>1, Widths DEF W
  <2> HIDE DEF g, q
  <2>2. u \in Nat /\ Begin(lens, j - 1) = u * W
    <3>1. v * (g * W) = (v * g) * W /\ v * g \in Nat
      BY ONLY <1>6, <1>11, <2>1, SMT
    <3> QED  BY <1>11, <2>1, <3>1
  <2> HIDE DEF u
  <2>3. Begin(lens, j - 1) <= x
    <3> DEFINE z == c + 1
    <3>1. z \in Nat /\ z * W = x + W  BY <1>4, <1>7
    <3>2. u * W < z * W
      <4> DEFINE b == Begin(lens, j - 1)
      <4>1. b \in Nat /\ b <= p  BY <1>10, <1>11
      <4> HIDE DEF b, z
      <4>2. b < z * W  BY <1>6, <1>7, <3>1, <4>1
      <4> QED  BY <2>2, <4>2 DEF b
    <3> HIDE DEF z
    <3>3. u < z  BY <1>6, <2>2, <3>1, <3>2, Scaled
    <3>4. u <= c  BY <1>4, <2>2, <3>3 DEF z
    <3>5. u * W <= c * W  BY <1>4, <1>6, <2>2, <3>4, Scaled
    <3> QED  BY <2>2, <3>5 DEF x
  <2>4. Begin(lens, i - 1) < Begin(lens, j)
    <3> DEFINE b == Begin(lens, j)
    <3>1. b \in Nat /\ p < b  BY <1>10, <1>11
    <3> HIDE DEF b
    <3>2. x < b  BY <1>6, <1>7, <3>1
    <3> QED  BY <1>2, <3>2 DEF b
  <2>5. Begin(lens, i - 1) \in Nat  BY <1>2, <1>7
  <2>6. i - 1 \in 0..m /\ j \in 0..m /\ j - 1 \in 0..m  BY <1>9
  <2>7. ~(j <= i - 1)
    <3> SUFFICES ASSUME j <= i - 1  PROVE FALSE  OBVIOUS
    <3>1. j = i - 1 \/ j < i - 1  BY <1>9
    <3>2. j # i - 1  BY <1>11, <2>4
    <3>3. Begin(lens, j) < Begin(lens, i - 1)  BY <1>9, <2>6, <3>1, <3>2, BeginGrows
    <3> QED  BY <1>11, <2>4, <2>5, <3>3
  <2>8. ~(i - 1 < j - 1)
    <3> SUFFICES ASSUME i - 1 < j - 1  PROVE FALSE  OBVIOUS
    <3>1. Begin(lens, i - 1) < Begin(lens, j - 1)  BY <1>9, <2>6, BeginGrows
    <3> QED  BY <1>2, <1>11, <2>3, <2>5, <3>1
  <2>9. i = j  BY <1>9, <2>7, <2>8
  <2>10. d < l  BY <1>2, <1>11, <2>9
  <2> HIDE DEF l
  <2> QED  BY <1>4, <1>11, <1>13, <2>10
<1> QED  BY <1>12, <1>13

\* So the nodes fit behind the root: there are no more than symbols.
LEMMA NodesCounted ==
    ASSUME NEW lens \in [Symbols -> 0..LongestCode], Room(lens)[16] = AllRoom,
           NEW tab, NEW nx \in Nat, nx >= RootHalf, NEW k \in 0..Occurring(lens),
           NEW depth, NEW code, Tree(lens, tab, nx, k, depth, code)
    PROVE  nx <= RootHalf + NumberSymbols
<1> DEFINE m == Occurring(lens)
           N == RootHalf..(nx - 1)
           On(n, j) == \E f \in Live(nx) :
                          /\ tab[f] = n /\ IsNode(tab, nx, depth, code, f)
                          /\ Begin(lens, j - 1) = (2 * code[f] + 1) * Width(depth[f] + 1)
           F == [n \in N |-> CHOOSE j \in 1..m : On(n, j)]
<1>1. Labels(nx, depth, code) /\ \A n \in N : \E f \in Live(nx) : tab[f] = n
  BY DEF Tree
<1>2. ASSUME NEW n \in N
      PROVE  \E j \in 1..m : On(n, j)
  <2>1. PICK f \in Live(nx) : tab[f] = n  BY <1>1
  <2>2. IsNode(tab, nx, depth, code, f)
    <3>1. n # 0 /\ n \in Nat /\ n >= RootHalf  BY Sizes
    <3>2. n \notin Coded(lens)
      <4>1. \A t \in Coded(lens) : t \in Nat /\ t < RootHalf  BY CodedFacts
      <4> QED  BY <3>1, <4>1, Sizes
    <3>3. ~IsSymbol(lens, tab, depth, code, f)  BY <2>1, <3>2 DEF IsSymbol
    <3> QED  BY <2>1, <3>1, <3>3 DEF Tree
  <2>3. PICK j \in 1..m : Begin(lens, j - 1) = (2 * code[f] + 1) * Width(depth[f] + 1)
    BY <2>2, HalfBeginsCode
  <2> QED  BY <2>1, <2>2, <2>3
<1>3. \A n \in N : F[n] \in 1..m /\ On(n, F[n])
  <2> SUFFICES ASSUME NEW n \in N  PROVE F[n] \in 1..m /\ On(n, F[n])  OBVIOUS
  <2>1. \E j \in 1..m : On(n, j)  BY <1>2
  <2>2. F[n] = CHOOSE j \in 1..m : On(n, j)  OBVIOUS
  <2> HIDE DEF F, On
  <2> QED  BY <2>1, <2>2
<1>4. F \in [N -> 1..m]
  <2> DEFINE J(n) == CHOOSE j \in 1..m : On(n, j)
  <2>1. F = [n \in N |-> J(n)]  OBVIOUS
  <2> HIDE DEF F, On, J, N, m
  <2>2. \A n \in N : J(n) \in 1..m  BY <1>3, <2>1
  <2> QED  BY <2>1, <2>2
<1> HIDE DEF F
<1>5. ASSUME NEW n \in N, NEW o \in N, F[n] = F[o]
      PROVE  n = o
  <2>1. PICK f \in Live(nx) :
           /\ tab[f] = n /\ IsNode(tab, nx, depth, code, f)
           /\ Begin(lens, F[n] - 1) = (2 * code[f] + 1) * Width(depth[f] + 1)
    BY <1>3
  <2>2. PICK g \in Live(nx) :
           /\ tab[g] = o /\ IsNode(tab, nx, depth, code, g)
           /\ Begin(lens, F[n] - 1) = (2 * code[g] + 1) * Width(depth[g] + 1)
    BY <1>3, <1>5
  <2>3. /\ depth[f] + 1 \in 0..16 /\ code[f] \in Nat /\ depth[f] \in 0..15
        /\ depth[g] + 1 \in 0..16 /\ code[g] \in Nat /\ depth[g] \in 0..15
    BY <2>1, <2>2, HalfBeginsCode
  <2>4. (2 * code[f] + 1) * Width(depth[f] + 1) = (2 * code[g] + 1) * Width(depth[g] + 1)
    BY <2>1, <2>2
  <2>5. depth[f] + 1 = depth[g] + 1 /\ code[f] = code[g]
    <3> DEFINE d == depth[f] + 1
               e == depth[g] + 1
               a == code[f]
               b == code[g]
    <3>1. d \in 0..16 /\ e \in 0..16 /\ a \in Nat /\ b \in Nat
          /\ (2 * a + 1) * Width(d) = (2 * b + 1) * Width(e)
      BY <2>3, <2>4
    <3> HIDE DEF d, e, a, b
    <3>2. d = e /\ a = b  BY <3>1, OddPlaces
    <3> QED  BY <3>2 DEF d, e, a, b
  <2>6. depth[f] = depth[g]  BY <2>3, <2>5
  <2>7. f = g  BY <1>1, <2>5, <2>6 DEF Labels
  <2> QED  BY <2>1, <2>2, <2>7
<1>6. m \in Nat /\ m <= NumberSymbols
  <2>1. IsFiniteSet(Symbols) /\ Cardinality(Symbols) = NumberSymbols
    <3>1. 0 \in Int /\ NumberSymbols - 1 \in Int /\ ~(0 > NumberSymbols - 1)
          /\ (NumberSymbols - 1) - 0 + 1 = NumberSymbols
      BY Sizes
    <3> QED  BY <3>1, FS_Interval DEF Symbols
  <2>2. Active(lens) \subseteq Symbols  BY DEF Active
  <2>3. Cardinality(Active(lens)) <= Cardinality(Symbols)  BY <2>1, <2>2, FS_Subset
  <2>4. m \in Nat  BY CodedFacts, OrderFacts
  <2> QED  BY <2>1, <2>3, <2>4 DEF Occurring
<1>7. IsFiniteSet(1..m) /\ Cardinality(1..m) = m
  <2>1. m = 0 \/ 1 <= m  BY <1>6
  <2>2. CASE m = 0
    <3>1. 1..m = {}  BY <2>2
    <3> QED  BY <2>2, <3>1, FS_EmptySet
  <2>3. CASE 1 <= m
    <3>1. 1 \in Int /\ m \in Int /\ ~(1 > m) /\ m - 1 + 1 = m  BY <1>6, <2>3
    <3> QED  BY <3>1, FS_Interval
  <2> QED  BY <2>1, <2>2, <2>3
<1>8. F \in Injection(N, 1..m)  BY <1>4, <1>5 DEF Injection, IsInjective
<1>9. IsFiniteSet(N) /\ Cardinality(N) = nx - RootHalf
  <2>1. RootHalf \in Int /\ nx - 1 \in Int  BY Sizes
  <2>2. CASE nx = RootHalf
    <3>1. N = {} /\ nx - RootHalf = 0  BY <2>2, Sizes
    <3> QED  BY <3>1, FS_EmptySet
  <2>3. CASE nx # RootHalf
    <3>1. ~(RootHalf > nx - 1) /\ (nx - 1) - RootHalf + 1 = nx - RootHalf  BY <2>3, Sizes
    <3> QED  BY <2>1, <3>1, FS_Interval
  <2> QED  BY <2>2, <2>3
<1>10. Cardinality(N) <= Cardinality(1..m)
  BY <1>7, <1>8, FS_Injection
<1> HIDE DEF N, m
<1> QED  BY <1>6, <1>7, <1>9, <1>10, Sizes

-----------------------------------------------------------------------------
(* The root alone *)

LEMMA RootEntries ==
    /\ Live(RootHalf) = 0..(TableMask - 1) /\ Live(RootHalf) = 0..(2^T - 1)
    /\ \A depth, code : Labels(RootHalf, depth, code) =>
          \A e \in Live(RootHalf) : depth[e] = T /\ code[e] = ReverseBits(e, T)
    /\ \A tab, depth, code, e : ~IsNode(tab, RootHalf, depth, code, e)
<1>1. Live(RootHalf) = 0..(TableMask - 1) /\ TableMask = 2^T  BY Sizes DEF Live
<1>2. RootHalf..(RootHalf - 1) = {}  BY Sizes
<1> QED  BY <1>1, <1>2 DEF Labels, IsNode

\* Pass 1 fills the entries whose code begins with the new one.
LEMMA FillRoot ==
    ASSUME NEW lens \in [Symbols -> 0..LongestCode], NEW tab, NEW new,
           NEW k \in 0..Occurring(lens), k < Occurring(lens), NEW depth, NEW code,
           lens[NextSymbol(lens, k)] <= T,
           Tree(lens, tab, RootHalf, k, depth, code),
           NEW start \in Nat, Begin(lens, k) = start * Width(T), Begin(lens, k + 1) <= AllRoom,
           NEW fills,
           fills = {ReverseBits(start, T) + i * 2^lens[NextSymbol(lens, k)] :
                       i \in 0..(2^(T - lens[NextSymbol(lens, k)]) - 1)},
           \A i \in Live(RootHalf) : new[i] = IF i \in fills THEN NextSymbol(lens, k) ELSE tab[i]
    PROVE  /\ Tree(lens, new, RootHalf, k + 1, depth, code)
           /\ Begin(lens, k + 1) = (start + 2^(T - lens[NextSymbol(lens, k)])) * Width(T)
<1> DEFINE x == Begin(lens, k)
           y == Begin(lens, k + 1)
           s == NextSymbol(lens, k)
           l == lens[s]
           v == CanonicalCode(lens, s)
           w == Width(l)
           W == Width(T)
           g == 2^(T - l)
<1>1. /\ s \in Coded(lens) /\ l \in 1..LongestCode /\ l \in 0..16 /\ v \in Nat /\ w \in Nat \ {0}
      /\ x \in Nat /\ y \in Nat /\ x = v * w /\ y = (v + 1) * w
      /\ s = NextSymbol(lens, k) /\ l = lens[s]
  BY NextFacts
<1> HIDE DEF s, v
<1>2. T \in 0..16 /\ l \in 0..T /\ T \in l..16
  <2>1. l <= T  BY DEF s
  <2> HIDE DEF l
  <2> QED  BY <1>1, <2>1, Sizes
<1>3. W \in Nat \ {0} /\ w = g * W /\ g \in Nat \ {0}  BY <1>1, <1>2, Widths
<1> HIDE DEF x, y, w, W, g
<1>4. v * g \in Nat /\ x = (v * g) * W /\ (v + 1) * g \in Nat /\ y = ((v + 1) * g) * W
      /\ (v + 1) * g = v * g + g
  <2>1. /\ v * g \in Nat /\ v * (g * W) = (v * g) * W
        /\ (v + 1) * g \in Nat /\ (v + 1) * (g * W) = ((v + 1) * g) * W
        /\ (v + 1) * g = v * g + g
    BY ONLY <1>1, <1>3, SMT
  <2> QED  BY <1>1, <1>3, <2>1
<1>5. start = v * g
  <2> DEFINE u == v * g
  <2>1. u \in Nat /\ start * W = u * W  BY <1>4 DEF x, W
  <2> HIDE DEF u
  <2>2. start = u  BY <1>3, <2>1, Scaled
  <2> QED  BY <2>2 DEF u
<1>6. v \in 0..(2^l - 1)
  <2> DEFINE p == 2^l
             z == v + 1
  <2>1. p \in Nat \ {0} /\ AllRoom = p * w  BY <1>1, WidthFacts DEF w
  <2>2. z \in Nat /\ z * w <= p * w  BY <1>1, <2>1 DEF y
  <2> HIDE DEF p, z
  <2>3. z <= p  BY <1>1, <2>1, <2>2, Scaled
  <2>4. v \in 0..(p - 1)  BY <1>1, <2>1, <2>3 DEF z
  <2> QED  BY <2>4 DEF p
<1>7. fills = {i \in 0..(2^T - 1) : ReverseBits(i, T) \div g = v}
  <2>1. {ReverseBits(v * g, T) + i * 2^l : i \in 0..(g - 1)}
           = {i \in 0..(2^T - 1) : ReverseBits(i, T) \div g = v}
    BY <1>2, <1>6, FilledEntries DEF g
  <2> QED  BY <1>5, <2>1 DEF g, s
<1>8. /\ Labels(RootHalf, depth, code)
      /\ \A e \in Live(RootHalf) :
            \/ IsSymbol(lens, tab, depth, code, e) /\ (code[e] + 1) * Width(depth[e]) <= x
            \/ tab[e] = 0 /\ code[e] * Width(depth[e]) >= x
  BY RootEntries DEF Tree, x
<1>9. ASSUME NEW e \in Live(RootHalf)
      PROVE  \/ IsSymbol(lens, new, depth, code, e) /\ (code[e] + 1) * Width(depth[e]) <= y
             \/ new[e] = 0 /\ code[e] * Width(depth[e]) >= y
  <2> DEFINE c == code[e]
             d == depth[e]
  <2>1. d = T /\ c = ReverseBits(e, T)  BY <1>8, RootEntries
  <2>2. c \in Nat  BY <1>8, LabelFacts, Sizes
  <2>3. e \in fills <=> c \div g = v  BY <1>7, <2>1, RootEntries
  <2>4. c * W \in Nat /\ (c + 1) * W \in Nat
    <3>1. c + 1 \in Nat  BY <2>2
    <3> HIDE DEF c
    <3> QED  BY <1>3, <2>2, <3>1, Scaled
  <2>5. CASE e \in fills
    <3>1. new[e] = s  BY <2>5 DEF s
    <3>2. l <= T  BY <1>2
    <3>3. ~(T > T)  BY <1>2
    <3>4. c \div 2^(d - l) = v  BY <2>1, <2>3, <2>5 DEF g
    <3>5. IsSymbol(lens, new, depth, code, e)  BY <1>1, <2>1, <3>1, <3>2, <3>3, <3>4 DEF IsSymbol, v
    <3>6. (c + 1) * W <= y
      <4>1. c < (c \div g + 1) * g  BY <1>3, <2>2, Inside
      <4>2. c < (v + 1) * g  BY <2>3, <2>5, <4>1
      <4> DEFINE a == c + 1
                 b == (v + 1) * g
      <4>3. a \in Nat /\ b \in Nat /\ a <= b
        <5> HIDE DEF c
        <5> QED  BY <1>4, <2>2, <4>2
      <4> HIDE DEF a, b
      <4>4. a * W <= b * W  BY <1>3, <4>3, Scaled
      <4> QED  BY <1>4, <4>4 DEF a, b
    <3> QED  BY <2>1, <3>5, <3>6 DEF W
  <2>6. CASE e \notin fills
    <3>1. new[e] = tab[e]  BY <2>6
    <3>2. CASE IsSymbol(lens, tab, depth, code, e) /\ (c + 1) * Width(d) <= x
      <4>1. IsSymbol(lens, new, depth, code, e)  BY <3>1, <3>2 DEF IsSymbol
      <4>2. x <= y
        <5> DEFINE i == v * g
                   j == (v + 1) * g
        <5>1. i \in Nat /\ j \in Nat /\ i <= j  BY <1>3, <1>4
        <5> HIDE DEF i, j
        <5>2. i * W <= j * W  BY <1>3, <5>1, Scaled
        <5> QED  BY <1>4, <5>2 DEF i, j
      <4> DEFINE z == (c + 1) * W
      <4>3. z \in Nat /\ z <= x  BY <2>1, <2>4, <3>2 DEF W
      <4> HIDE DEF z
      <4>4. z <= y  BY <1>1, <4>2, <4>3 DEF x, y
      <4> QED  BY <2>1, <4>1, <4>4 DEF z, W
    <3>3. CASE tab[e] = 0 /\ c * Width(d) >= x
      <4> HIDE DEF c
      <4> DEFINE i == v * g
                 j == (v + 1) * g
      <4>1. i \in Nat /\ j \in Nat  BY <1>4
      <4>2. i * W <= c * W
        <5>1. c * W >= i * W  BY <1>4, <2>1, <3>3 DEF W
        <5>2. i * W \in Nat  BY <1>3, <4>1, Scaled
        <5> DEFINE a == c * W
                   b == i * W
        <5>3. a \in Nat /\ b \in Nat /\ a >= b  BY <2>4, <5>1, <5>2
        <5> HIDE DEF a, b
        <5>4. b <= a  BY <5>3
        <5> QED  BY <5>4 DEF a, b
      <4> HIDE DEF i, j
      <4>3. i <= c  BY <1>3, <2>2, <4>1, <4>2, Scaled
      <4>4. ~(c < j)
        <5> SUFFICES ASSUME c < j  PROVE FALSE  OBVIOUS
        <5>1. v * g <= c /\ c < (v + 1) * g  BY <4>3 DEF i, j
        <5>2. c \div g = v  BY <1>1, <1>3, <2>2, <5>1, InsideOne
        <5> QED  BY <2>3, <2>6, <5>2
      <4>5. j <= c  BY <2>2, <4>1, <4>4
      <4>6. j * W <= c * W  BY <1>3, <2>2, <4>1, <4>5, Scaled
      <4>7. y <= c * W  BY <1>4, <4>6 DEF j
      <4> DEFINE a == c * W
      <4>8. a \in Nat /\ y <= a  BY <2>4, <4>7
      <4> HIDE DEF a
      <4>9. a >= y  BY <1>1, <4>8 DEF y
      <4> QED  BY <2>1, <3>1, <3>3, <4>9 DEF a, W, c
    <3> QED  BY <1>8, <3>2, <3>3
  <2> QED  BY <2>5, <2>6
<1>10. \A e \in Live(RootHalf) : ~(depth[e] > T)
  <2>1. ~(T > T)  BY <1>2
  <2> QED  BY <1>8, <2>1, RootEntries
<1>11. RootHalf..(RootHalf - 1) = {}  BY Sizes
<1>12. Tree(lens, new, RootHalf, k + 1, depth, code)
  BY <1>8, <1>9, <1>10, <1>11, RootEntries DEF Tree, y
<1>13. y = (start + g) * W  BY <1>4, <1>5
<1> QED  BY <1>12, <1>13 DEF y, g, W, s

-----------------------------------------------------------------------------
(* The order of the loops *)

LEMMA NextIs ==
    ASSUME lengths \in [Symbols -> 0..LongestCode], placed \in 0..Occurring(lengths)
    PROVE  /\ \A s \in Symbols : IsNext(s) <=>
                 placed < Occurring(lengths) /\ s = NextSymbol(lengths, placed)
           /\ placed < Occurring(lengths) => NextSymbol(lengths, placed) \in Symbols
<1> DEFINE m == Occurring(lengths)
           sorted == Sorted(lengths)
<1>1. IsFreqs(lengths) /\ Active(lengths) = Coded(lengths)  BY CodedFacts, LengthsAreFreqs
<1>2. /\ sorted \in [1..m -> Active(lengths)]
      /\ \A k \in 1..m : Rank(lengths, sorted[k]) = k - 1
      /\ \A s \in Active(lengths) :
            sorted[Rank(lengths, s) + 1] = s /\ Rank(lengths, s) + 1 \in 1..m
  BY <1>1, SortedFacts
<1>3. m \in Nat  BY <1>1, ActiveFacts
<1>4. \A s : Cardinality(Earlier(lengths, s)) = Rank(lengths, s)
  BY <1>1 DEF Earlier, Rank, Before
<1>5. ASSUME NEW s \in Symbols, IsNext(s)
      PROVE  placed < m /\ s = NextSymbol(lengths, placed)
  <2>1. s \in Active(lengths) /\ Rank(lengths, s) = placed  BY <1>1, <1>4, <1>5 DEF IsNext
  <2>2. sorted[placed + 1] = s /\ placed + 1 \in 1..m  BY <1>2, <2>1
  <2> QED  BY <1>3, <2>2 DEF NextSymbol
<1>6. ASSUME placed < m
      PROVE  LET s == NextSymbol(lengths, placed) IN s \in Symbols /\ IsNext(s)
  <2> DEFINE s == sorted[placed + 1]
  <2>1. placed + 1 \in 1..m /\ (placed + 1) - 1 = placed  BY <1>3, <1>6
  <2>2. s \in Active(lengths) /\ Rank(lengths, s) = placed  BY <1>2, <2>1
  <2>3. s \in Symbols  BY <2>2 DEF Active
  <2>4. IsNext(s)  BY <1>1, <1>4, <2>2 DEF IsNext
  <2> QED  BY <2>3, <2>4 DEF NextSymbol
<1> QED  BY <1>5, <1>6

LEMMA NoneLeftIs ==
    ASSUME lengths \in [Symbols -> 0..LongestCode], placed \in 0..Occurring(lengths), NEW l
    PROVE  NoneLeft(l) <=> (placed < Occurring(lengths) => lengths[NextSymbol(lengths, placed)] > l)
BY NextIs DEF NoneLeft

\* Codes that go beyond the room are not complete, nor are those of up to any
\* length that includes them.
LEMMA Overfull ==
    ASSUME NEW lens \in [Symbols -> 0..LongestCode], NEW k \in 0..Occurring(lens),
           ~(Begin(lens, k) <= AllRoom), NEW l \in 0..16,
           \A j \in 1..k : lens[Sorted(lens)[j]] <= l
    PROVE  Room(lens)[l] # AllRoom
<1> DEFINE m == Occurring(lens)
<1>1. IsLengths(lens)  BY CodedFacts
<1>2. PICK c \in 0..m : Cut(lens, c, l)  BY <1>1, CutExists
<1>3. m \in Nat  BY <1>1, OrderFacts
<1>4. k <= c
  <2>1. CASE k = 0  BY <2>1
  <2>2. CASE k # 0
    <3>1. k \in 1..m /\ k \in 1..k  BY <1>3, <2>2
    <3>2. lens[Sorted(lens)[k]] <= l  BY <3>1
    <3> QED  BY <1>2, <3>1, <3>2 DEF Cut
  <2> QED  BY <2>1, <2>2
<1>5. Begin(lens, c) = Room(lens)[l]  BY <1>1, <1>2, BeginAtCut
<1>6. k # c => Begin(lens, k) < Begin(lens, c)
  <2>1. k # c => k < c  BY <1>4
  <2> QED  BY <1>1, <2>1, BeginGrows
<1>7. Begin(lens, k) \in Nat /\ Begin(lens, c) \in Nat  BY <1>1, Tiling
<1>8. AllRoom \in Nat
  <2>1. 0 \in 0..16  OBVIOUS
  <2> QED  BY <2>1, WidthFacts
<1> QED  BY <1>5, <1>6, <1>7, <1>8

LEMMA OverfullAtAll ==
    ASSUME NEW lens \in [Symbols -> 0..LongestCode], NEW k \in 0..Occurring(lens),
           ~(Begin(lens, k) <= AllRoom)
    PROVE  Room(lens)[16] # AllRoom
<1>1. \A j \in 1..k : lens[Sorted(lens)[j]] <= 16
  <2> SUFFICES ASSUME NEW j \in 1..k  PROVE lens[Sorted(lens)[j]] <= 16  OBVIOUS
  <2>1. j \in 1..Occurring(lens)
    <3>1. Occurring(lens) \in Nat  BY CodedFacts, OrderFacts
    <3> QED  BY <3>1
  <2>2. Sorted(lens)[j] \in Coded(lens)  BY <2>1, CodedFacts, OrderFacts
  <2>3. lens[Sorted(lens)[j]] \in 1..16  BY <2>2, CodedFacts
  <2> QED  BY <2>3
<1>2. 16 \in 0..16  OBVIOUS
<1> QED  BY <1>1, <1>2, Overfull

\* Behind all the codes begins what they leave.
LEMMA BeginAtEnd ==
    ASSUME NEW lens \in [Symbols -> 0..LongestCode]
    PROVE  Begin(lens, Occurring(lens)) = Room(lens)[16]
<1>1. Occurring(lens) \in Nat  BY CodedFacts, OrderFacts
<1>2. ~(Occurring(lens) < Occurring(lens))  BY <1>1
<1> QED  BY <1>2 DEF Begin

\* A tree whose codes take all the room has no free entry.
LEMMA FullTree ==
    ASSUME NEW lens \in [Symbols -> 0..LongestCode], NEW tab, NEW nx \in Nat,
           NEW k \in 0..Occurring(lens), NEW depth, NEW code,
           Tree(lens, tab, nx, k, depth, code), Begin(lens, k) = AllRoom
    PROVE  Finished(lens, tab, nx, depth, code)
<1>1. Labels(nx, depth, code)  BY DEF Tree
<1>2. ASSUME NEW e \in Live(nx)
      PROVE  IsNode(tab, nx, depth, code, e) \/ IsSymbol(lens, tab, depth, code, e)
  <2> DEFINE c == code[e]
             w == Width(depth[e])
             x == c * w
  <2>1. c \in Nat /\ w \in Nat \ {0} /\ (c + 1) * w <= AllRoom /\ AllRoom \in Nat
    <3>1. 0 \in 0..16  OBVIOUS
    <3> QED  BY <1>1, <3>1, LabelFacts, WidthFacts
  <2> HIDE DEF c, w
  <2>2. x \in Nat /\ (c + 1) * w = x + w  BY ONLY <2>1, SMT DEF x
  <2> HIDE DEF x
  <2>3. ~(x >= AllRoom)  BY <2>1, <2>2
  <2>4. ~(code[e] * Width(depth[e]) >= Begin(lens, k))  BY <2>3 DEF x, c, w
  <2> QED  BY <2>4 DEF Tree
<1> QED  BY <1>1, <1>2 DEF Finished

\* Only the live entries count.
LEMMA TreeSame ==
    ASSUME NEW lens, NEW tab, NEW new, NEW nx \in Nat, NEW k, NEW depth, NEW code,
           Tree(lens, tab, nx, k, depth, code), \A e \in Live(nx) : new[e] = tab[e]
    PROVE  Tree(lens, new, nx, k, depth, code)
<1>1. \A e \in Live(nx) :
         /\ IsNode(new, nx, depth, code, e) <=> IsNode(tab, nx, depth, code, e)
         /\ IsSymbol(lens, new, depth, code, e) <=> IsSymbol(lens, tab, depth, code, e)
  BY DEF IsNode, IsSymbol
<1> QED  BY <1>1 DEF Tree

-----------------------------------------------------------------------------
(* The invariant holds at first *)

LEMMA SymbolsFacts ==
    /\ IsFiniteSet(Symbols) /\ Cardinality(Symbols) = NumberSymbols
    /\ Symbols \subseteq Int /\ {0, 1} \subseteq Symbols
<1>1. 0 \in Int /\ NumberSymbols - 1 \in Int /\ ~(0 > NumberSymbols - 1)
      /\ (NumberSymbols - 1) - 0 + 1 = NumberSymbols /\ 1 <= NumberSymbols - 1
  BY Sizes
<1> QED  BY <1>1, FS_Interval DEF Symbols

LEMMA BuiltIsComplete ==
    ASSUME freqs \in Frequencies, limit \in Limits, lengths = BuildLengths(freqs, limit)
    PROVE  lengths \in [Symbols -> 0..LongestCode] /\ BuiltComplete
<1>1. /\ freqs \in [Symbols -> Nat] /\ limit \in 1..LongestCode /\ NumberSymbols <= 2^limit
  BY TableAssumption DEF Symbols
<1>2. DOMAIN freqs = Symbols /\ IsFreqs(freqs) /\ {0, 1} \subseteq DOMAIN freqs
  BY <1>1, SymbolsFacts DEF IsFreqs
<1>3. limit \in 1..16 /\ limit \in 0..16  BY <1>1, Sizes
<1>4. Occurring(freqs) <= 2^limit
  <2>1. Active(freqs) \subseteq Symbols  BY <1>2 DEF Active
  <2>2. Occurring(freqs) <= NumberSymbols  BY <2>1, SymbolsFacts, FS_Subset DEF Occurring
  <2>3. Occurring(freqs) \in Nat  BY <1>2, ActiveFacts
  <2>4. 2^limit \in Nat  BY <1>3, Doubled
  <2> DEFINE p == 2^limit
  <2>5. p \in Nat /\ NumberSymbols <= p  BY <1>1, <2>4
  <2> HIDE DEF p
  <2>6. Occurring(freqs) <= p  BY <2>2, <2>3, <2>5, Sizes
  <2> QED  BY <2>6 DEF p
<1>5. /\ lengths \in [Symbols -> 0..limit]
      /\ Active(freqs) # {} => FitsCodes(lengths)
  BY <1>2, <1>3, <1>4, BuildLengthsComplete
<1>6. lengths \in [Symbols -> 0..LongestCode]
  <2>1. \A l \in 0..limit : l \in 0..LongestCode  BY <1>1, Sizes
  <2> QED  BY <1>5, <2>1
<1>7. FitsCodes(lengths) => Room(lengths)[16] = AllRoom
  <2> SUFFICES ASSUME FitsCodes(lengths)  PROVE Room(lengths)[16] = AllRoom  OBVIOUS
  <2>1. 16 \in 0..16 /\ 16 - 16 = 0 /\ 2^0 = 1 /\ 16 + 1 = 17  BY SMT
  <2>2. 2 * Room(lengths)[16] = NextCode(lengths)[16] * 2^(16 - 16)
    BY <1>6, <2>1, CodedFacts, RoomIsNextCode
  <2>3. NextCode(lengths)[16] = 2 * AllRoom /\ AllRoom \in Nat
    <3>1. 2^(16 + 1) = 2 * 2^16 /\ 2^16 \in Nat  BY <2>1, Doubled
    <3> QED  BY <2>1, <3>1 DEF FitsCodes, AllRoom
  <2>4. Room(lengths)[16] \in Nat  BY <1>6, <2>1, CodedFacts, RoomFacts
  <2> DEFINE r == Room(lengths)[16]
             a == AllRoom
  <2>5. 2 * r = (2 * a) * 1 /\ r \in Nat /\ a \in Nat
    BY <2>1, <2>2, <2>3, <2>4
  <2> HIDE DEF r, a
  <2>6. r = a  BY <2>5
  <2> QED  BY <2>6 DEF r, a
<1> QED  BY <1>5, <1>6, <1>7 DEF BuiltComplete

\* The empty root, every entry free.
LEMMA EmptyTree ==
    ASSUME NEW lens \in [Symbols -> 0..LongestCode], NEW tab,
           \A e \in Live(RootHalf) : tab[e] = 0
    PROVE  \E depth, code : Tree(lens, tab, RootHalf, 0, depth, code)
<1> DEFINE L == Live(RootHalf)
           depth == [e \in L |-> T]
           code == [e \in L |-> ReverseBits(e, T)]
<1>1. L = 0..(2^T - 1) /\ L = 0..(TableMask - 1)  BY RootEntries
<1>2. T \in 0..16 /\ T \in T..LongestCode /\ ~(T > T) /\ 2^T \in Nat \ {0}
  BY Sizes, WidthFacts
<1>3. \A e \in L : /\ ReverseBits(e, T) \in 0..(2^T - 1)
                   /\ ReverseBits(ReverseBits(e, T), T) = e
  BY <1>1, <1>2, ReverseRange
<1>4. \A e \in L : ReverseBits(e, T) \in Nat /\ ReverseBits(e, T) < 2^T
  <2> DEFINE p == 2^T
  <2>1. \A v \in 0..(p - 1) : v \in Nat /\ v < p
    <3>1. p \in Nat  BY <1>2
    <3> HIDE DEF p
    <3> QED  BY <3>1
  <2> QED  BY <1>3, <2>1
<1>5. Labels(RootHalf, depth, code)
  <2>1. depth \in [L -> T..LongestCode] /\ code \in [L -> Nat]  BY <1>2, <1>4
  <2>2. \A e \in L : code[e] < 2^depth[e]  BY <1>4
  <2>3. \A i \in 0..(TableMask - 1) : depth[i] = T /\ code[i] = ReverseBits(i, T)  BY <1>1
  <2>4. \A e, f \in L : code[e] = code[f] => e = f
    <3> SUFFICES ASSUME NEW e \in L, NEW f \in L, ReverseBits(e, T) = ReverseBits(f, T)
                 PROVE  e = f
      OBVIOUS
    <3> QED  BY <1>3
  <2> QED  BY <2>1, <2>2, <2>3, <2>4 DEF Labels
<1>6. Begin(lens, 0) = 0  BY CodedFacts, Tiling
<1>7. \A e \in L : code[e] * Width(depth[e]) >= 0
  <2> SUFFICES ASSUME NEW e \in L  PROVE code[e] * Width(depth[e]) >= 0  OBVIOUS
  <2> DEFINE c == code[e]
             w == Width(depth[e])
  <2>1. c \in Nat /\ w \in Nat \ {0}  BY <1>2, <1>4, WidthFacts
  <2> HIDE DEF c, w
  <2>2. c * w \in Nat  BY <2>1, Scaled
  <2>3. c * w >= 0  BY <2>2
  <2> QED  BY <2>3 DEF c, w
<1>8. RootHalf..(RootHalf - 1) = {}  BY Sizes
<1>9. \A e \in L : ~(depth[e] > T)  BY <1>2
<1> HIDE DEF depth, code
<1>10. Tree(lens, tab, RootHalf, 0, depth, code)
  BY <1>5, <1>6, <1>7, <1>8, <1>9, RootEntries DEF Tree
<1> QED  BY <1>10

LEMMA InitInv ==
    ASSUME Init  PROVE Inv
<1>1. lengths \in [Symbols -> 0..LongestCode] /\ BuiltComplete
  <2>1. CASE /\ freqs \in Frequencies /\ limit \in Limits /\ lengths = BuildLengths(freqs, limit)
    BY <2>1, BuiltIsComplete
  <2>2. CASE freqs = << >> /\ limit = 0 /\ lengths \in ReadLengths
    <3>1. lengths \in [Symbols -> 0..LongestCode]  BY <2>2, TableAssumption DEF Symbols
    <3> QED  BY <2>2, <3>1 DEF BuiltComplete
  <2> QED  BY <2>1, <2>2 DEF Init
<1>2. /\ phase = "short" /\ placed = 0 /\ pos = 0
      /\ table = [i \in 0..(Total - 1) |-> 0] /\ next_secondary = TableMask \div 2
  BY DEF Init, Start
<1>3. /\ Occurring(lengths) \in Nat /\ Begin(lengths, 0) = 0
  BY <1>1, CodedFacts, OrderFacts, Tiling
<1>4. next_secondary = RootHalf /\ RootHalf \in RootHalf..(Total \div 2)
  BY <1>2, Sizes
<1>5. 0 <= AllRoom
  <2>1. 0 \in 0..16  OBVIOUS
  <2>2. AllRoom \in Nat  BY <2>1, WidthFacts
  <2> QED  BY <2>2
<1>6. 0 * Width(T) = 0
  <2> DEFINE w == Width(T)
  <2>1. w \in Nat  BY Sizes, WidthFacts
  <2> HIDE DEF w
  <2>2. 0 * w = 0  BY ONLY <2>1, SMT
  <2> QED  BY <2>2 DEF w
<1>7. \E depth, code : Tree(lengths, table, RootHalf, 0, depth, code)
  <2>1. \A e \in Live(RootHalf) : e \in 0..(Total - 1)  BY Sizes DEF Live
  <2>2. \A e \in Live(RootHalf) : table[e] = 0  BY <1>2, <2>1
  <2> QED  BY <1>1, <2>2, EmptyTree
<1>8. placed \in 0..Occurring(lengths) /\ 1..placed = {}  BY <1>2, <1>3
<1>9. table = [i \in 0..(Total - 1) |-> table[i]]  BY <1>2
<1>10. Placing
  BY <1>2, <1>3, <1>4, <1>5, <1>6, <1>7, <1>8, <1>9 DEF Placing
<1> QED  BY <1>1, <1>2, <1>10 DEF Inv

-----------------------------------------------------------------------------
(* Every step keeps the invariant *)

LEMMA PlacingSizes ==
    ASSUME Placing
    PROVE  /\ RootHalf \in Nat \ {0} /\ next_secondary \in Nat /\ next_secondary >= RootHalf
           /\ \A e \in Live(next_secondary) : e \in 0..(Total - 1)
           /\ Live(next_secondary) \subseteq DOMAIN table
           /\ table = [i \in DOMAIN table |-> table[i]] /\ DOMAIN table = 0..(Total - 1)
<1>1. RootHalf \in Nat \ {0} /\ NumberSymbols \in Nat /\ Total = 2 * RootHalf + 4 * NumberSymbols
  BY Sizes
<1>2. next_secondary \in RootHalf..(Total \div 2)  BY DEF Placing
<1>3. next_secondary \in Nat /\ next_secondary >= RootHalf /\ 2 * next_secondary <= Total
  BY <1>1, <1>2
<1>4. \A e \in Live(next_secondary) : e \in 0..(Total - 1)  BY <1>1, <1>3 DEF Live
<1>5. table = [i \in 0..(Total - 1) |-> table[i]]  BY DEF Placing
<1>6. DOMAIN table = 0..(Total - 1)  BY <1>5
<1> QED  BY <1>1, <1>3, <1>4, <1>5, <1>6

\* Where the code behind a short one begins.
LEMMA NextStart ==
    ASSUME NEW lens \in [Symbols -> 0..LongestCode], NEW k \in 0..Occurring(lens),
           k < Occurring(lens), lens[NextSymbol(lens, k)] <= T,
           NEW start \in Nat, Begin(lens, k) = start * Width(T)
    PROVE  LET g == 2^(T - lens[NextSymbol(lens, k)])
           IN  g \in Nat \ {0} /\ Begin(lens, k + 1) = (start + g) * Width(T)
<1> DEFINE l == lens[NextSymbol(lens, k)]
           g == 2^(T - l)
           W == Width(T)
<1>1. /\ l \in 1..LongestCode /\ l \in 0..16 /\ Begin(lens, k + 1) = Begin(lens, k) + Width(l)
  BY NextFacts
<1>2. T \in l..16
  <2> HIDE DEF l
  <2>1. l <= T  BY DEF l
  <2> QED  BY <1>1, <2>1, Sizes
<1>3. g \in Nat \ {0} /\ W \in Nat \ {0} /\ Width(l) = g * W  BY <1>1, <1>2, Widths
<1> HIDE DEF g, W
<1>4. (start + g) * W = start * W + g * W  BY <1>3, Scaled
<1>5. Begin(lens, k + 1) = (start + g) * W  BY <1>1, <1>3, <1>4 DEF W
<1> QED  BY <1>3, <1>5 DEF g, W

\* Positions in the root and places in the room.
LEMMA RootPlaces ==
    ASSUME NEW p \in Nat
    PROVE  /\ TableMask \in Nat /\ (p > TableMask <=> ~(p * Width(T) <= AllRoom))
           /\ (p = TableMask <=> p * Width(T) = AllRoom)
           /\ p * 2^16 = (p * Width(T)) * 2^T
<1> DEFINE M == TableMask
           W == Width(T)
<1>1. M \in Nat \ {0} /\ W \in Nat \ {0} /\ AllRoom = M * W /\ M = 2^T /\ AllRoom = 2^16
  BY Sizes, WidthFacts DEF AllRoom
<1> HIDE DEF M, W
<1>2. (p * W <= M * W <=> p <= M) /\ (p * W = M * W <=> p = M)  BY <1>1, Scaled
<1>3. p * (M * W) = (p * W) * M  BY ONLY <1>1, p \in Nat, SMT
<1>4. p > M <=> ~(p <= M)  BY <1>1
<1> QED  BY <1>1, <1>2, <1>3, <1>4 DEF M, W

LEMMA PlaceShortInv ==
    ASSUME Inv, PlaceShort  PROVE Inv'
<1> DEFINE m == Occurring(lengths)
<1>1. /\ lengths \in [Symbols -> 0..LongestCode] /\ BuiltComplete /\ phase = "short" /\ Placing
      /\ UNCHANGED <<freqs, limit, lengths, next_secondary>>
  BY DEF Inv, PlaceShort
<1>2. PICK s \in Symbols :
         /\ IsNext(s) /\ lengths[s] <= TableSize
         /\ pos' = pos + 2^(TableSize - lengths[s])
         /\ IF pos' > TableMask
            THEN phase' = "bad" /\ UNCHANGED <<table, placed>>
            ELSE /\ table' = [i \in DOMAIN table |-> IF i \in Filled(s) THEN s ELSE table[i]]
                 /\ placed' = placed + 1
                 /\ phase' = phase
  BY DEF PlaceShort
<1>3. /\ placed \in 0..m /\ Begin(lengths, placed) <= AllRoom
      /\ \A j \in 1..placed : lengths[Sorted(lengths)[j]] <= T
      /\ next_secondary = RootHalf /\ pos \in Nat /\ Begin(lengths, placed) = pos * Width(T)
      /\ \E depth, code : Tree(lengths, table, RootHalf, placed, depth, code)
  BY <1>1 DEF Placing
<1>4. placed < m /\ s = NextSymbol(lengths, placed)  BY <1>1, <1>2, <1>3, NextIs
<1>5. /\ placed + 1 \in 0..m /\ s = Sorted(lengths)[placed + 1] /\ lengths[s] \in 0..16
  BY <1>1, <1>3, <1>4, NextFacts
<1>6. pos' \in Nat /\ Begin(lengths, placed + 1) = pos' * Width(T)
  <2> DEFINE g == 2^(T - lengths[s])
  <2>1. pos' = pos + g /\ lengths[s] <= T  BY <1>2 DEF T
  <2>2. g \in Nat \ {0} /\ Begin(lengths, placed + 1) = (pos + g) * Width(T)
    BY <1>1, <1>3, <1>4, <2>1, NextStart
  <2> HIDE DEF g
  <2> QED  BY <1>3, <2>1, <2>2
<1>7. \A j \in 1..(placed + 1) : lengths[Sorted(lengths)[j]] <= T
  <2> SUFFICES ASSUME NEW j \in 1..(placed + 1)  PROVE lengths[Sorted(lengths)[j]] <= T  OBVIOUS
  <2>1. j \in 1..placed \/ j = placed + 1  BY <1>3
  <2>2. j = placed + 1 => lengths[Sorted(lengths)[j]] <= T  BY <1>2, <1>5 DEF T
  <2> QED  BY <1>3, <2>1, <2>2
<1>8. BuiltComplete'  BY <1>1 DEF BuiltComplete
<1>9. CASE pos' > TableMask
  <2>1. phase' = "bad"  BY <1>2, <1>9
  <2>2. ~(Begin(lengths, placed + 1) <= AllRoom)  BY <1>6, <1>9, RootPlaces
  <2>3. Room(lengths)[T] # AllRoom  BY <1>1, <1>5, <1>7, <2>2, Sizes, Overfull
  <2>4. Room(lengths)[16] # AllRoom  BY <1>1, <1>5, <2>2, OverfullAtAll
  <2> QED  BY <1>1, <1>8, <2>1, <2>3, <2>4 DEF Inv
<1>10. CASE ~(pos' > TableMask)
  <2>1. /\ table' = [i \in DOMAIN table |-> IF i \in Filled(s) THEN s ELSE table[i]]
        /\ placed' = placed + 1 /\ phase' = "short"
    BY <1>1, <1>2, <1>10
  <2>2. Begin(lengths, placed + 1) <= AllRoom  BY <1>6, <1>10, RootPlaces
  <2>3. PICK depth, code : Tree(lengths, table, RootHalf, placed, depth, code)  BY <1>3
  <2>4. \A i \in Live(RootHalf) : table'[i] = IF i \in Filled(s) THEN NextSymbol(lengths, placed)
                                              ELSE table[i]
    BY <1>1, <1>3, <1>4, <2>1, PlacingSizes
  <2>5. Filled(s) = {ReverseBits(pos, T) + i * 2^lengths[NextSymbol(lengths, placed)] :
                        i \in 0..(2^(T - lengths[NextSymbol(lengths, placed)]) - 1)}
    BY <1>4 DEF Filled, T
  <2>6. Tree(lengths, table', RootHalf, placed + 1, depth, code)
    <3>1. lengths[NextSymbol(lengths, placed)] <= T  BY <1>2, <1>4 DEF T
    <3> QED  BY <1>1, <1>3, <1>4, <2>2, <2>3, <2>4, <2>5, <3>1, FillRoot
  <2>7. table' = [i \in 0..(Total - 1) |-> table'[i]]
    <3>1. DOMAIN table = 0..(Total - 1)  BY <1>1, PlacingSizes
    <3> QED  BY <2>1, <3>1
  <2>8. next_secondary \in RootHalf..(Total \div 2)  BY <1>1 DEF Placing
  <2>9. Placing'
    BY <1>1, <1>3, <1>5, <1>6, <1>7, <2>1, <2>2, <2>6, <2>7, <2>8 DEF Placing
  <2> QED  BY <1>1, <1>8, <2>1, <2>9 DEF Inv
<1> QED  BY <1>9, <1>10

\* What pass 2 clears of the root was free.
LEMMA UnusedAreFree ==
    ASSUME NEW lens \in [Symbols -> 0..LongestCode], NEW tab, NEW k \in 0..Occurring(lens),
           NEW depth, NEW code, Tree(lens, tab, RootHalf, k, depth, code),
           NEW start \in Nat, Begin(lens, k) = start * Width(T),
           NEW p \in start..(TableMask - 1), NEW e \in Live(RootHalf), e = ReverseBits(p, T)
    PROVE  tab[e] = 0
<1> DEFINE c == code[e]
           W == Width(T)
<1>1. T \in 0..16 /\ TableMask = 2^T /\ TableMask \in Nat
  BY Sizes, WidthFacts
<1>2. p \in 0..(2^T - 1) /\ p \in Nat /\ start <= p
  <2> DEFINE M == 2^T
  <2>1. M \in Nat /\ p \in start..(M - 1)  BY <1>1
  <2> HIDE DEF M
  <2>2. p \in 0..(M - 1) /\ p \in Nat /\ start <= p  BY <2>1
  <2> QED  BY <2>2 DEF M
<1>3. Labels(RootHalf, depth, code)  BY DEF Tree
<1>4. depth[e] = T /\ c = p
  <2>1. depth[e] = T /\ c = ReverseBits(e, T)  BY <1>3, RootEntries
  <2>2. ReverseBits(ReverseBits(p, T), T) = p  BY <1>1, <1>2, ReverseRange
  <2> QED  BY <2>1, <2>2
<1>5. W \in Nat \ {0}  BY <1>1, WidthFacts
<1>6. start * W < (c + 1) * W
  <2> HIDE DEF W
  <2> DEFINE z == c + 1
  <2>1. z \in Nat /\ start < z  BY <1>2, <1>4
  <2> HIDE DEF z
  <2>2. start * W < z * W  BY <1>5, <2>1, Scaled
  <2> QED  BY <2>2 DEF z
<1>7. ~((c + 1) * Width(depth[e]) <= Begin(lens, k))
  <2> DEFINE x == start * W
             y == (c + 1) * W
  <2>1. x \in Nat /\ y \in Nat
    <3> HIDE DEF W
    <3>1. c + 1 \in Nat  BY <1>2, <1>4
    <3> QED  BY <1>5, <3>1, Scaled
  <2>2. x < y  BY <1>6
  <2> HIDE DEF x, y
  <2>3. ~(y <= x)  BY <2>1, <2>2
  <2> QED  BY <1>4, <2>3 DEF x, y
<1> QED  BY <1>7, RootEntries DEF Tree

LEMMA EndShortInv ==
    ASSUME Inv, EndShort  PROVE Inv'
<1> DEFINE m == Occurring(lengths)
<1>1. /\ lengths \in [Symbols -> 0..LongestCode] /\ BuiltComplete /\ phase = "short" /\ Placing
      /\ UNCHANGED <<freqs, limit, lengths, placed, next_secondary, leaf, fill>>
      /\ NoneLeft(T)
  BY DEF Inv, EndShort, T
<1>2. /\ placed \in 0..m /\ Begin(lengths, placed) <= AllRoom
      /\ \A j \in 1..placed : lengths[Sorted(lengths)[j]] <= T
      /\ next_secondary = RootHalf /\ pos \in Nat /\ Begin(lengths, placed) = pos * Width(T)
      /\ \E depth, code : Tree(lengths, table, RootHalf, placed, depth, code)
      /\ next_secondary \in RootHalf..(Total \div 2)
      /\ table = [i \in 0..(Total - 1) |-> table[i]]
  BY <1>1 DEF Placing
<1>3. placed < m => lengths[NextSymbol(lengths, placed)] > T  BY <1>1, <1>2, NoneLeftIs
<1>4. IsLengths(lengths) /\ m \in Nat  BY <1>1, CodedFacts, OrderFacts
<1>5. Cut(lengths, placed, T)
  <2> SUFFICES ASSUME NEW j \in 1..m, ~(j <= placed)  PROVE ~(lengths[Sorted(lengths)[j]] <= T)
    BY <1>2, <1>4 DEF Cut
  <2>1. placed + 1 \in 1..m /\ placed + 1 <= j /\ placed < m  BY <1>2, <1>4
  <2>2. lengths[Sorted(lengths)[placed + 1]] <= lengths[Sorted(lengths)[j]]
    BY <1>4, <2>1, OrderFacts
  <2>3. Sorted(lengths)[placed + 1] \in Coded(lengths) /\ Sorted(lengths)[j] \in Coded(lengths)
    BY <1>4, <2>1, OrderFacts
  <2> DEFINE a == lengths[Sorted(lengths)[placed + 1]]
             b == lengths[Sorted(lengths)[j]]
  <2>4. a \in 1..16 /\ b \in 1..16 /\ a <= b /\ a > T
    BY <1>1, <1>3, <2>1, <2>2, <2>3, CodedFacts DEF NextSymbol
  <2> HIDE DEF a, b
  <2>5. ~(b <= T)  BY <2>4, Sizes
  <2> QED  BY <2>5 DEF b
<1>6. Begin(lengths, placed) = Room(lengths)[T]  BY <1>2, <1>4, <1>5, BeginAtCut, Sizes
<1>7. BuiltComplete'  BY <1>1 DEF BuiltComplete
<1>8. PICK depth, code : Tree(lengths, table, RootHalf, placed, depth, code)  BY <1>2
<1>9. CASE pos = TableMask
  <2>1. phase' = "ready" /\ table' = table  BY <1>9 DEF EndShort
  <2>2. Begin(lengths, placed) = AllRoom  BY <1>2, <1>9, RootPlaces
  <2>3. Finished(lengths, table, RootHalf, depth, code)
    BY <1>1, <1>2, <1>8, <2>2, FullTree, Sizes
  <2>4. Looking'  BY <1>1, <1>2, <1>6, <2>1, <2>2, <2>3 DEF Looking
  <2> QED  BY <1>1, <1>7, <2>1, <2>4 DEF Inv
<1>10. CASE pos # TableMask
  <2>1. /\ phase' = "long" /\ pos' = pos * 2^16
        /\ table' = [i \in DOMAIN table |-> IF i \in Unused THEN 0 ELSE table[i]]
    BY <1>10 DEF EndShort
  <2>2. Room(lengths)[T] # AllRoom  BY <1>2, <1>6, <1>10, RootPlaces
  <2>3. pos' = Begin(lengths, placed) * 2^T  BY <1>2, <2>1, RootPlaces
  <2>4. \A e \in Live(RootHalf) : table'[e] = table[e]
    <3> SUFFICES ASSUME NEW e \in Live(RootHalf)  PROVE table'[e] = table[e]  OBVIOUS
    <3>1. e \in DOMAIN table  BY <1>1, <1>2, PlacingSizes
    <3>2. CASE e \in Unused
      <4>1. PICK p \in pos..(TableMask - 1) : e = ReverseBits(p, T)  BY <3>2 DEF Unused, T
      <4>2. table[e] = 0  BY <1>1, <1>2, <1>8, <4>1, UnusedAreFree
      <4> QED  BY <2>1, <3>1, <3>2, <4>2
    <3>3. CASE e \notin Unused  BY <2>1, <3>1, <3>3
    <3> QED  BY <3>2, <3>3
  <2>5. Tree(lengths, table', RootHalf, placed, depth, code)
    BY <1>8, <2>4, TreeSame, Sizes
  <2>6. table' = [i \in 0..(Total - 1) |-> table'[i]]
    <3>1. DOMAIN table = 0..(Total - 1)  BY <1>1, PlacingSizes
    <3> QED  BY <2>1, <3>1
  <2>7. Placing'
    BY <1>1, <1>2, <1>3, <2>1, <2>2, <2>3, <2>5, <2>6 DEF Placing
  <2> QED  BY <1>1, <1>7, <2>1, <2>7 DEF Inv
<1> QED  BY <1>9, <1>10

\* What pass 2 holds to.
LEMMA LongFacts ==
    ASSUME Inv, phase \in {"long", "descend"}
    PROVE  /\ lengths \in [Symbols -> 0..LongestCode] /\ BuiltComplete /\ Placing
           /\ placed \in 0..Occurring(lengths) /\ Begin(lengths, placed) \in Nat
           /\ Begin(lengths, placed) <= AllRoom /\ pos = Begin(lengths, placed) * 2^T
           /\ Room(lengths)[T] # AllRoom
           /\ placed < Occurring(lengths) => lengths[NextSymbol(lengths, placed)] > T
           /\ next_secondary \in RootHalf..(Total \div 2)
           /\ table = [i \in 0..(Total - 1) |-> table[i]]
           /\ BuiltComplete /\ AllRoom \in Nat
<1>1. lengths \in [Symbols -> 0..LongestCode] /\ BuiltComplete /\ Placing  BY DEF Inv
<1>2. placed \in 0..Occurring(lengths)  BY <1>1 DEF Placing
<1>3. Begin(lengths, placed) \in Nat  BY <1>1, <1>2, CodedFacts, Tiling
<1>4. AllRoom \in Nat
  <2>1. 0 \in 0..16  OBVIOUS
  <2> QED  BY <2>1, WidthFacts
<1> QED  BY <1>1, <1>2, <1>3, <1>4 DEF Placing

\* The place that the shifted position stands for, at a depth.
LEMMA Shifted ==
    ASSUME NEW x \in Nat, NEW d \in T..16
    PROVE  /\ (x * 2^T) \div 2^(16 - (d - T)) = x \div Width(d)
           /\ Width(d) * 2^T = 2^(16 - (d - T)) /\ Width(d) \in Nat \ {0} /\ 2^T \in Nat \ {0}
<1> DEFINE w == Width(d)
           p == 2^T
<1>1. T \in 0..16 /\ d \in 0..16 /\ 16 - d \in 0..16 /\ T \in 0..(16 - (16 - d))
      /\ (16 - d) + T = 16 - (d - T)
  BY Sizes
<1>2. w \in Nat \ {0} /\ p \in Nat \ {0} /\ 2^(16 - (d - T)) = w * p
  <2>1. /\ 2^(16 - d) \in Nat \ {0} /\ 2^T \in Nat \ {0}
        /\ 2^((16 - d) + T) = 2^(16 - d) * 2^T
    BY <1>1, PowerSum
  <2> QED  BY <1>1, <2>1 DEF Width
<1> HIDE DEF w, p
<1>3. p * w = w * p  BY ONLY <1>2, SMT
<1>4. (x * p) \div (p * w) = x \div w  BY <1>2, Rescaled
<1> QED  BY <1>2, <1>3, <1>4 DEF w, p

LEMMA BeginLongInv ==
    ASSUME Inv, BeginLong  PROVE Inv'
<1> DEFINE m == Occurring(lengths)
           x == Begin(lengths, placed)
           a == x \div Width(T)
<1>1. /\ phase = "long" /\ phase' = "descend"
      /\ leaf' = ReverseBits(pos \div 2^16, T) /\ fill' = 0
      /\ UNCHANGED <<freqs, limit, lengths, placed, pos, table, next_secondary>>
      /\ \E s \in Symbols : IsNext(s)
  BY DEF BeginLong, T
<1>2. /\ lengths \in [Symbols -> 0..LongestCode] /\ BuiltComplete /\ Placing
      /\ placed \in 0..m /\ x \in Nat /\ x <= AllRoom /\ pos = x * 2^T
      /\ placed < m => lengths[NextSymbol(lengths, placed)] > T
  BY <1>1, LongFacts
<1>3. placed < m  BY <1>1, <1>2, NextIs
<1>4. 0 \in 0..(lengths[NextSymbol(lengths, placed)] - T)
  <2> DEFINE l == lengths[NextSymbol(lengths, placed)]
  <2>1. l \in 1..LongestCode  BY <1>2, <1>3, NextFacts
  <2>2. l > T  BY <1>2, <1>3
  <2> HIDE DEF l
  <2>3. 0 \in 0..(l - T)  BY <2>1, <2>2, Sizes
  <2> QED  BY <2>3 DEF l
<1>5. pos \div 2^16 = a
  <2>1. T \in T..16 /\ 16 - (T - T) = 16  BY Sizes
  <2>2. (x * 2^T) \div 2^(16 - (T - T)) = a  BY <1>2, <2>1, Shifted
  <2> QED  BY <1>2, <2>1, <2>2
<1>6. PICK depth, code : Tree(lengths, table, next_secondary, placed, depth, code)
  BY <1>1, <1>2 DEF Placing
<1>7. ASSUME x < AllRoom
      PROVE  OnTheWay(lengths, table, next_secondary, placed, depth, code, leaf', T + fill')
  <2> DEFINE W == Width(T)
             p == 2^T
  <2>1. T \in 0..16 /\ W \in Nat \ {0} /\ p \in Nat \ {0} /\ AllRoom = p * W
    BY Sizes, WidthFacts
  <2>2. a \in Nat /\ a * W <= x  BY <1>2, <2>1, Inside
  <2> HIDE DEF a, x, W, p
  <2>3. a < p
    <3> DEFINE z == a * W
    <3>1. z \in Nat /\ z <= x  BY <2>1, <2>2, Scaled
    <3> HIDE DEF z
    <3>2. z < p * W
      <4> DEFINE y == p * W
      <4>1. y \in Nat /\ x < y  BY <1>2, <1>7, <2>1, LongFacts, Scaled
      <4> HIDE DEF y
      <4>2. z < y  BY <1>2, <3>1, <4>1 DEF x
      <4> QED  BY <4>2 DEF y
    <3>3. a * W < p * W  BY <3>2 DEF z
    <3> QED  BY <2>1, <2>2, <3>3, Scaled
  <2>4. a \in 0..(2^T - 1)
    <3>1. a \in 0..(p - 1)  BY <2>1, <2>2, <2>3
    <3> QED  BY <3>1 DEF p
  <2>5. leaf' \in 0..(2^T - 1) /\ ReverseBits(leaf', T) = a
    BY <1>1, <1>5, <2>1, <2>4, ReverseRange
  <2>6. leaf' \in 0..(TableMask - 1)  BY <2>5, Sizes
  <2>7. Labels(next_secondary, depth, code)  BY <1>6 DEF Tree
  <2>8. depth[leaf'] = T /\ code[leaf'] = a  BY <2>5, <2>6, <2>7 DEF Labels
  <2>9. leaf' \in Live(next_secondary)
    <3>1. next_secondary \in Nat /\ next_secondary >= RootHalf  BY <1>2, PlacingSizes
    <3> QED  BY <2>6, <3>1, Sizes DEF Live
  <2>10. \A f \in Live(next_secondary) : depth[f] >= T
    <3>1. \A d \in T..LongestCode : d >= T  BY Sizes
    <3> QED  BY <2>7, <3>1 DEF Labels
  <2>11. T + fill' = T  BY <1>1, Sizes
  <2> QED  BY <2>8, <2>9, <2>10, <2>11 DEF OnTheWay, a, x
<1>8. Placing'
  <2>1. /\ phase' # "short" /\ x <= AllRoom /\ placed' \in 0..Occurring(lengths')
        /\ next_secondary' \in RootHalf..(Total \div 2)
        /\ table' = [i \in 0..(Total - 1) |-> table'[i]]
        /\ pos' = Begin(lengths', placed') * 2^T /\ Room(lengths')[T] # AllRoom
    BY <1>1, LongFacts
  <2>2. fill' \in 0..(lengths'[NextSymbol(lengths', placed')] - T) /\ placed' < Occurring(lengths')
    BY <1>1, <1>3, <1>4
  <2> QED  BY <1>1, <1>2, <1>6, <1>7, <2>1, <2>2 DEF Placing
<1>9. BuiltComplete'  BY <1>1, <1>2 DEF BuiltComplete
<1> QED  BY <1>1, <1>2, <1>8, <1>9 DEF Inv

\* The descent: the next code, the depth come to, and the branch to take.
LEMMA DescentFacts ==
    ASSUME Inv, phase = "descend", \E s \in Symbols : IsNext(s) /\ fill < lengths[s] - T
    PROVE  LET d == T + fill
           IN  /\ placed < Occurring(lengths) /\ d \in 0..15 /\ d \in Nat /\ fill \in Nat
               /\ d < lengths[NextSymbol(lengths, placed)]
               /\ fill + 1 \in 0..(lengths[NextSymbol(lengths, placed)] - T)
               /\ T + (fill + 1) = d + 1
               /\ \A n : Branch(n) =
                     2 * n + ((Begin(lengths, placed) \div Width(d + 1)) % 2)
<1> DEFINE m == Occurring(lengths)
           l == lengths[NextSymbol(lengths, placed)]
           x == Begin(lengths, placed)
           d == T + fill
<1>1. /\ lengths \in [Symbols -> 0..LongestCode] /\ placed \in 0..m /\ x \in Nat
      /\ pos = x * 2^T
  BY LongFacts
<1>2. PICK s \in Symbols : IsNext(s) /\ fill < lengths[s] - T  OBVIOUS
<1>3. placed < m /\ fill < l - T  BY <1>1, <1>2, NextIs
<1>4. l \in 1..LongestCode  BY <1>1, <1>3, NextFacts
<1>5. fill \in 0..(l - T)  BY DEF Inv, Placing
<1>6. l \in 1..16 /\ T \in 1..12  BY <1>4, Sizes
<1> HIDE DEF l
<1>7. /\ d \in 0..15 /\ d \in Nat /\ fill \in Nat /\ d < l /\ fill + 1 \in 0..(l - T)
      /\ T + (fill + 1) = d + 1 /\ d + 1 \in T..16 /\ 16 - ((d + 1) - T) = 15 - fill
  BY <1>3, <1>5, <1>6
<1>8. pos \div 2^(15 - fill) = x \div Width(d + 1)
  <2>1. (x * 2^T) \div 2^(16 - ((d + 1) - T)) = x \div Width(d + 1)  BY <1>1, <1>7, Shifted
  <2> QED  BY <1>1, <1>7, <2>1
<1>9. \A n : Branch(n) = 2 * n + ((x \div Width(d + 1)) % 2)  BY <1>8 DEF Branch
<1> QED  BY <1>3, <1>7, <1>9 DEF l

LEMMA DescendInv ==
    ASSUME Inv, Descend  PROVE Inv'
<1> DEFINE m == Occurring(lengths)
           x == Begin(lengths, placed)
           s == NextSymbol(lengths, placed)
           d == T + fill
           b == (x \div Width(d + 1)) % 2
           nx == next_secondary
<1>1. /\ phase = "descend" /\ UNCHANGED <<freqs, limit, lengths, placed, pos>>
      /\ \E t \in Symbols : IsNext(t) /\ fill < lengths[t] - T
  BY DEF Descend, T
<1>2. /\ lengths \in [Symbols -> 0..LongestCode] /\ BuiltComplete /\ Placing
      /\ placed \in 0..m /\ x \in Nat /\ x <= AllRoom /\ AllRoom \in Nat
      /\ Room(lengths)[T] # AllRoom
      /\ nx \in RootHalf..(Total \div 2)
      /\ table = [i \in 0..(Total - 1) |-> table[i]]
      /\ pos = x * 2^T /\ (placed < m => lengths[s] > T)
  BY <1>1, LongFacts
<1>3. /\ placed < m /\ d \in 0..15 /\ d < lengths[s] /\ fill + 1 \in 0..(lengths[s] - T)
      /\ T + (fill + 1) = d + 1
      /\ \A n : Branch(n) = 2 * n + b
  BY <1>1, DescentFacts
<1>4. /\ RootHalf \in Nat \ {0} /\ nx \in Nat /\ nx >= RootHalf /\ Live(nx) \subseteq DOMAIN table
      /\ table = [i \in DOMAIN table |-> table[i]] /\ DOMAIN table = 0..(Total - 1)
  BY <1>2, PlacingSizes
<1>5. \E depth, code :
         x < AllRoom => /\ Tree(lengths, table, nx, placed, depth, code)
                        /\ OnTheWay(lengths, table, nx, placed, depth, code, leaf, d)
  BY <1>1, <1>2 DEF Placing
<1>6. BuiltComplete'  BY <1>1, <1>2 DEF BuiltComplete
\* What is left to show of a step further down.
<1>7. ASSUME phase' = "descend", fill' = fill + 1,
             next_secondary' \in RootHalf..(Total \div 2),
             table' = [i \in 0..(Total - 1) |-> table'[i]],
             \E depth, code :
                x < AllRoom => /\ Tree(lengths, table', next_secondary', placed, depth, code)
                               /\ OnTheWay(lengths, table', next_secondary', placed, depth, code,
                                           leaf', d + 1)
      PROVE  Inv'
  <2>1. Placing'  BY <1>1, <1>2, <1>3, <1>7 DEF Placing
  <2> QED  BY <1>1, <1>2, <1>6, <1>7, <2>1 DEF Inv
<1>8. CASE table[leaf] # 0
  <2>1. /\ leaf' = Branch(table[leaf]) /\ fill' = fill + 1
        /\ UNCHANGED <<phase, table, next_secondary>>
    BY <1>8 DEF Descend
  <2>2. PICK depth, code :
           x < AllRoom => /\ Tree(lengths, table, nx, placed, depth, code)
                          /\ OnTheWay(lengths, table, nx, placed, depth, code, leaf, d)
    BY <1>5
  <2>3. ASSUME x < AllRoom
        PROVE  OnTheWay(lengths, table, nx, placed, depth, code, leaf', d + 1)
    <3>1. leaf' = 2 * table[leaf] + b  BY <1>3, <2>1
    <3>2. OnTheWay(lengths, table, nx, placed, depth, code, 2 * table[leaf] + b, d + 1)
      BY <1>2, <1>3, <1>4, <1>8, <2>2, <2>3, StepDown
    <3> QED  BY <3>1, <3>2
  <2>4. \E depths, codes :
           x < AllRoom => /\ Tree(lengths, table', next_secondary', placed, depths, codes)
                          /\ OnTheWay(lengths, table', next_secondary', placed, depths, codes,
                                      leaf', d + 1)
    BY <2>1, <2>2, <2>3
  <2>5. /\ phase' = "descend" /\ next_secondary' \in RootHalf..(Total \div 2)
        /\ table' = [i \in 0..(Total - 1) |-> table'[i]]
    BY <1>1, <1>2, <2>1
  <2> QED  BY <1>7, <2>1, <2>4, <2>5
<1>9. CASE table[leaf] = 0 /\ 2 * nx + 1 >= Total
  <2>1. phase' = "bad"  BY <1>9 DEF Descend
  <2>2. Room(lengths)[16] # AllRoom
    <3> SUFFICES ASSUME Room(lengths)[16] = AllRoom  PROVE FALSE  OBVIOUS
    <3>1. CASE x < AllRoom
      <4>1. PICK depth, code : Tree(lengths, table, nx, placed, depth, code)  BY <1>5, <3>1
      <4>2. nx <= RootHalf + NumberSymbols  BY <1>2, <1>4, <4>1, NodesCounted
      <4>3. /\ RootHalf \in Nat /\ NumberSymbols \in Nat \ {0, 1} /\ 2 * nx + 1 >= Total
            /\ Total = 2 * RootHalf + 4 * NumberSymbols
        BY <1>9, Sizes
      <4> HIDE DEF nx
      <4> QED  BY ONLY <1>4, <4>2, <4>3
    <3>2. CASE ~(x < AllRoom)
      <4>1. placed + 1 \in 0..m /\ Begin(lengths, placed) < Begin(lengths, placed + 1)
            /\ Begin(lengths, placed + 1) \in Nat
        <5>1. placed + 1 \in 0..m /\ placed < placed + 1 /\ Begin(lengths, placed + 1) \in Nat
          BY <1>2, <1>3, NextFacts
        <5> QED  BY <1>2, <5>1, CodedFacts, BeginGrows
      <4>2. ~(Begin(lengths, placed + 1) <= AllRoom)  BY <1>2, <3>2, <4>1
      <4> QED  BY <1>2, <4>1, <4>2, OverfullAtAll
    <3> QED  BY <3>1, <3>2
  <2> QED  BY <1>1, <1>2, <1>6, <2>1, <2>2 DEF Inv
<1>10. CASE table[leaf] = 0 /\ ~(2 * nx + 1 >= Total)
  <2>1. /\ table' = Allocated /\ next_secondary' = nx + 1 /\ phase' = phase
        /\ leaf' = Branch(nx) /\ fill' = fill + 1
    BY <1>10 DEF Descend
  <2>2. nx + 1 \in RootHalf..(Total \div 2) /\ {2 * nx, 2 * nx + 1} \subseteq DOMAIN table
    <3>1. /\ RootHalf \in Nat /\ NumberSymbols \in Nat /\ ~(2 * nx + 1 >= Total)
          /\ Total = 2 * RootHalf + 4 * NumberSymbols
      BY <1>10, Sizes
    <3> HIDE DEF nx
    <3>2. 2 * nx \in 0..(Total - 1) /\ 2 * nx + 1 \in 0..(Total - 1)  BY ONLY <1>4, <3>1
    <3>3. nx + 1 \in RootHalf..(Total \div 2)  BY ONLY <1>4, <3>1
    <3> QED  BY <1>4, <3>2, <3>3
  <2>3. table' = [i \in 0..(Total - 1) |-> table'[i]]  BY <1>4, <2>1 DEF Allocated
  <2>4. PICK depth, code :
           x < AllRoom => /\ Tree(lengths, table, nx, placed, depth, code)
                          /\ OnTheWay(lengths, table, nx, placed, depth, code, leaf, d)
    BY <1>5
  <2>5. ASSUME x < AllRoom
        PROVE  \E depths, codes :
                  /\ Tree(lengths, Allocated, nx + 1, placed, depths, codes)
                  /\ OnTheWay(lengths, Allocated, nx + 1, placed, depths, codes, 2 * nx + b, d + 1)
    <3>1. {2 * nx, 2 * nx + 1} \cup Live(nx) \subseteq DOMAIN table  BY <1>4, <2>2
    <3>2. Allocated = [table EXCEPT ![2 * nx] = 0, ![2 * nx + 1] = 0, ![leaf] = nx]
      BY DEF Allocated
    <3>3. PICK depths, codes :
             /\ Tree(lengths, table, nx, placed, depths, codes)
             /\ OnTheWay(lengths, table, nx, placed, depths, codes, leaf, d)
      BY <2>4, <2>5
    <3>4. /\ lengths \in [Symbols -> 0..LongestCode] /\ nx \in Nat /\ nx >= RootHalf
          /\ table = [i \in DOMAIN table |-> table[i]] /\ table[leaf] = 0
          /\ placed \in 0..Occurring(lengths) /\ placed < Occurring(lengths)
          /\ d < lengths[NextSymbol(lengths, placed)]
      BY <1>2, <1>3, <1>4, <1>10
    <3> HIDE DEF nx, d
    <3> QED  BY <3>1, <3>2, <3>3, <3>4, Allocate
  <2>6. leaf' = 2 * nx + b  BY <1>3, <2>1
  <2>7. \E depths, codes :
           x < AllRoom => /\ Tree(lengths, table', next_secondary', placed, depths, codes)
                          /\ OnTheWay(lengths, table', next_secondary', placed, depths, codes,
                                      leaf', d + 1)
    BY <2>1, <2>5, <2>6
  <2>8. phase' = "descend" /\ next_secondary' \in RootHalf..(Total \div 2)  BY <1>1, <2>1, <2>2
  <2> QED  BY <1>7, <2>1, <2>3, <2>7, <2>8
<1> QED  BY <1>8, <1>9, <1>10

LEMMA PlaceLongInv ==
    ASSUME Inv, PlaceLong  PROVE Inv'
<1> DEFINE m == Occurring(lengths)
           x == Begin(lengths, placed)
           y == Begin(lengths, placed + 1)
           s == NextSymbol(lengths, placed)
           l == lengths[s]
           nx == next_secondary
<1>1. /\ phase = "descend" /\ UNCHANGED <<freqs, limit, lengths, next_secondary>>
      /\ phase' = (IF pos' > TableMask * 2^16 THEN "bad" ELSE "long")
      /\ placed' = placed + 1
  BY DEF PlaceLong
<1>2. /\ lengths \in [Symbols -> 0..LongestCode] /\ BuiltComplete /\ Placing
      /\ placed \in 0..m /\ x \in Nat /\ x <= AllRoom /\ AllRoom \in Nat
      /\ Room(lengths)[T] # AllRoom
      /\ nx \in RootHalf..(Total \div 2)
      /\ table = [i \in 0..(Total - 1) |-> table[i]]
      /\ pos = x * 2^T /\ (placed < m => l > T)
  BY <1>1, LongFacts
<1>3. /\ placed < m /\ fill = l - T
      /\ table' = [table EXCEPT ![leaf] = s] /\ pos' = pos + 2^(16 - (l - T))
  <2>1. PICK t \in Symbols :
           /\ IsNext(t) /\ fill = lengths[t] - T
           /\ table' = [table EXCEPT ![leaf] = t] /\ pos' = pos + 2^(16 - (lengths[t] - T))
    BY DEF PlaceLong, T
  <2>2. placed < m /\ t = s  BY <1>2, <2>1, NextIs
  <2> QED  BY <2>1, <2>2
<1>4. /\ l \in 1..LongestCode /\ placed + 1 \in 0..m /\ y \in Nat /\ y = x + Width(l)
      /\ placed + 1 < m => l <= lengths[NextSymbol(lengths, placed + 1)]
  BY <1>2, <1>3, NextFacts
<1>5. l > T /\ l \in T..16 /\ T + fill = l
  <2>1. l > T  BY <1>2, <1>3
  <2> HIDE DEF l
  <2> QED  BY <1>3, <1>4, <2>1, Sizes
<1>6. pos' = y * 2^T /\ (pos' > TableMask * 2^16 <=> ~(y <= AllRoom))
  <2> DEFINE p == 2^T
             w == Width(l)
  <2>1. w * p = 2^(16 - (l - T)) /\ w \in Nat \ {0} /\ p \in Nat \ {0}
    BY <1>2, <1>5, Shifted
  <2>2. pos' = x * p + w * p  BY <1>2, <1>3, <2>1
  <2>3. TableMask = p /\ AllRoom = 2^16  BY Sizes DEF AllRoom
  <2> DEFINE a == AllRoom
  <2>4. y = x + w /\ x \in Nat /\ y \in Nat /\ a \in Nat  BY <1>2, <1>4
  <2>5. pos' = x * p + w * p /\ TableMask * 2^16 = p * a  BY <2>2, <2>3
  <2> HIDE DEF p, w, x, y, a
  <2>6. (x + w) * p = x * p + w * p /\ p * a = a * p  BY ONLY <2>1, <2>4, SMT
  <2>7. pos' = y * p  BY <2>4, <2>5, <2>6
  <2>8. y * p <= a * p <=> y <= a  BY <2>1, <2>4, Scaled
  <2>9. y * p \in Nat /\ a * p \in Nat  BY <2>1, <2>4, Scaled
  <2>10. y * p > a * p <=> ~(y * p <= a * p)
    <3> DEFINE i == y * p
               j == a * p
    <3>1. i \in Nat /\ j \in Nat  BY <2>9
    <3> HIDE DEF i, j
    <3>2. i > j <=> ~(i <= j)  BY <3>1
    <3> QED  BY <3>2 DEF i, j
  <2> QED  BY <2>5, <2>6, <2>7, <2>8, <2>10 DEF p, a
<1>7. BuiltComplete'  BY <1>1, <1>2 DEF BuiltComplete
<1>8. CASE ~(y <= AllRoom)
  <2>1. phase' = "bad"  BY <1>1, <1>6, <1>8
  <2>2. Room(lengths)[16] # AllRoom  BY <1>2, <1>4, <1>8, OverfullAtAll
  <2> QED  BY <1>1, <1>2, <1>7, <2>1, <2>2 DEF Inv
<1>9. CASE y <= AllRoom
  <2>1. phase' = "long"  BY <1>1, <1>6, <1>9
  <2>2. x < AllRoom
    <3>1. x < y  BY <1>2, <1>3, <1>4, CodedFacts, BeginGrows
    <3> QED  BY <1>2, <1>4, <1>9, <3>1
  <2>3. PICK depth, code :
           /\ Tree(lengths, table, nx, placed, depth, code)
           /\ OnTheWay(lengths, table, nx, placed, depth, code, leaf, T + fill)
    BY <1>1, <1>2, <2>2 DEF Placing
  <2>4. Tree(lengths, table', nx, placed + 1, depth, code)
    <3>1. /\ nx \in Nat /\ nx >= RootHalf /\ Live(nx) \subseteq DOMAIN table
          /\ table = [i \in DOMAIN table |-> table[i]]
      BY <1>2, PlacingSizes
    <3>2. /\ placed \in 0..Occurring(lengths) /\ placed < Occurring(lengths)
          /\ lengths[NextSymbol(lengths, placed)] > T
          /\ OnTheWay(lengths, table, nx, placed, depth, code, leaf,
                      lengths[NextSymbol(lengths, placed)])
      BY <1>2, <1>3, <1>5, <2>3
    <3>3. table' = [table EXCEPT ![leaf] = NextSymbol(lengths, placed)]  BY <1>3
    <3> HIDE DEF nx
    <3> QED  BY <1>2, <2>3, <3>1, <3>2, <3>3, PutSymbol
  <2>5. table' = [i \in 0..(Total - 1) |-> table'[i]]  BY <1>2, <1>3
  <2>6. placed + 1 < m => lengths[NextSymbol(lengths, placed + 1)] > T
    <3> SUFFICES ASSUME placed + 1 < m  PROVE lengths[NextSymbol(lengths, placed + 1)] > T
      OBVIOUS
    <3> DEFINE z == lengths[NextSymbol(lengths, placed + 1)]
    <3>1. z \in 1..LongestCode  BY <1>2, <1>4, NextFacts
    <3>2. l <= z  BY <1>4
    <3> HIDE DEF z, l
    <3>3. z > T  BY <1>4, <1>5, <3>1, <3>2, Sizes
    <3> QED  BY <3>3 DEF z
  <2>7. Placing'
    BY <1>1, <1>2, <1>4, <1>6, <1>9, <2>1, <2>4, <2>5, <2>6 DEF Placing
  <2> QED  BY <1>1, <1>2, <1>7, <2>1, <2>7 DEF Inv
<1> QED  BY <1>8, <1>9

LEMMA EndLongInv ==
    ASSUME Inv, EndLong  PROVE Inv'
<1> DEFINE m == Occurring(lengths)
           x == Begin(lengths, placed)
<1>1. /\ phase = "long" /\ NoneLeft(16)
      /\ phase' = (IF pos = TableMask * 2^16 THEN "ready" ELSE "bad")
      /\ UNCHANGED <<freqs, limit, lengths, placed, pos, table, next_secondary>>
  BY DEF EndLong, building
<1>2. /\ lengths \in [Symbols -> 0..LongestCode] /\ BuiltComplete /\ Placing
      /\ placed \in 0..m /\ x \in Nat /\ AllRoom \in Nat /\ pos = x * 2^T
      /\ Room(lengths)[T] # AllRoom /\ next_secondary \in RootHalf..(Total \div 2)
  BY <1>1, LongFacts
<1>3. placed = m
  <2>1. placed < m => lengths[NextSymbol(lengths, placed)] > 16  BY <1>1, <1>2, NoneLeftIs
  <2>2. placed < m => lengths[NextSymbol(lengths, placed)] \in 0..16  BY <1>2, NextFacts
  <2>3. ~(placed < m)
    <3> DEFINE l == lengths[NextSymbol(lengths, placed)]
    <3>1. placed < m => l > 16 /\ l \in 0..16  BY <2>1, <2>2
    <3> HIDE DEF l
    <3> QED  BY <3>1
  <2>4. m \in Nat  BY <1>2, CodedFacts, OrderFacts
  <2> QED  BY <1>2, <2>3, <2>4
<1>4. x = Room(lengths)[16]  BY <1>2, <1>3, BeginAtEnd
<1>5. pos = TableMask * 2^16 <=> x = AllRoom
  <2> DEFINE p == 2^T
             a == AllRoom
  <2>1. p \in Nat \ {0} /\ a \in Nat /\ pos = x * p /\ TableMask * 2^16 = p * a /\ x \in Nat
    BY <1>2, Sizes, WidthFacts DEF AllRoom
  <2> HIDE DEF p, a, x
  <2>2. p * a = a * p  BY ONLY <2>1, SMT
  <2>3. x * p = a * p <=> x = a  BY <2>1, Scaled
  <2> QED  BY <2>1, <2>2, <2>3 DEF a
<1>6. BuiltComplete'  BY <1>1, <1>2 DEF BuiltComplete
<1>7. CASE x = AllRoom
  <2>1. phase' = "ready"  BY <1>1, <1>5, <1>7
  <2>2. PICK depth, code : Tree(lengths, table, next_secondary, placed, depth, code)
    BY <1>1, <1>2 DEF Placing
  <2>3. next_secondary \in Nat  BY <1>2, PlacingSizes
  <2>4. Finished(lengths, table, next_secondary, depth, code)
    BY <1>2, <1>7, <2>2, <2>3, FullTree
  <2>5. Looking'  BY <1>1, <1>2, <1>4, <1>7, <2>1, <2>4 DEF Looking
  <2> QED  BY <1>1, <1>2, <1>6, <2>1, <2>5 DEF Inv
<1>8. CASE x # AllRoom
  <2>1. phase' = "bad"  BY <1>1, <1>5, <1>8
  <2> QED  BY <1>1, <1>2, <1>4, <1>6, <1>8, <2>1 DEF Inv
<1> QED  BY <1>7, <1>8

-----------------------------------------------------------------------------
(* The lookup *)

\* A symbol's entry is reached by the bits that the writer emits for it.
LEMMA SymbolFound ==
    ASSUME NEW lens \in [Symbols -> 0..LongestCode], NEW s \in Coded(lens),
           NEW bits \in Nat, NEW d \in 0..16, lens[s] <= d,
           ReverseBits(bits, d) \div 2^(d - lens[s]) = CanonicalCode(lens, s)
    PROVE  bits % 2^lens[s] = WrittenCode(lens, s)
<1> DEFINE l == lens[s]
<1>1. l \in 1..16 /\ l <= d  BY CodedFacts
<1> HIDE DEF l
<1>2. l \in 0..16 /\ d - l \in 0..(16 - l) /\ l + (d - l) = d  BY <1>1
<1>3. ReverseBits(bits, l + (d - l)) \div 2^(d - l) = ReverseBits(bits, l)  BY <1>2, ReverseFirst
<1>4. CanonicalCode(lens, s) = ReverseBits(bits, l)  BY <1>2, <1>3 DEF l
<1>5. WrittenCode(lens, s) = ReverseBits(ReverseBits(bits, l), l)  BY <1>4 DEF WrittenCode, l
<1>6. ReverseBits(ReverseBits(bits, l), l) = bits % 2^l  BY <1>2, ReverseTwice
<1> QED  BY <1>5, <1>6 DEF l

\* What an entry says of the bits that lead to it.
LEMMA EntryRead ==
    ASSUME NEW lens \in [Symbols -> 0..LongestCode], NEW tab, NEW nx \in Nat, nx >= RootHalf,
           NEW depth, NEW code, Finished(lens, tab, nx, depth, code),
           NEW e \in Live(nx), NEW bits \in Nat, code[e] = ReverseBits(bits, depth[e])
    PROVE  \/ ~(tab[e] < NumberSymbols) /\ IsNode(tab, nx, depth, code, e)
           \/ /\ tab[e] < NumberSymbols /\ tab[e] \in Coded(lens) /\ lens[tab[e]] <= depth[e]
              /\ depth[e] > T => lens[tab[e]] = depth[e]
              /\ bits % 2^lens[tab[e]] = WrittenCode(lens, tab[e])
<1>1. Labels(nx, depth, code)
      /\ (IsNode(tab, nx, depth, code, e) \/ IsSymbol(lens, tab, depth, code, e))
  BY DEF Finished
<1>2. CASE IsNode(tab, nx, depth, code, e)
  <2>1. tab[e] \in RootHalf..(nx - 1)  BY <1>2 DEF IsNode
  <2>2. ~(tab[e] < NumberSymbols)  BY <2>1, Sizes
  <2> QED  BY <1>2, <2>2
<1>3. CASE IsSymbol(lens, tab, depth, code, e)
  <2>1. tab[e] < NumberSymbols  BY <1>3, CodedFacts DEF IsSymbol
  <2>2. depth[e] \in 0..16  BY <1>1, LabelFacts
  <2>3. bits % 2^lens[tab[e]] = WrittenCode(lens, tab[e])
    BY <1>3, <2>2, SymbolFound DEF IsSymbol
  <2> QED  BY <1>3, <2>1, <2>3 DEF IsSymbol
<1> QED  BY <1>1, <1>2, <1>3

LEMMA PeekInv ==
    ASSUME Inv, Peek  PROVE Inv'
<1> DEFINE i == control' % TableMask
           nx == next_secondary
<1>1. /\ phase = "ready" /\ control' \in 0..(2^LongestCode - 1) /\ sym' = table[i]
      /\ IF sym' < NumberSymbols
         THEN consumed' = lengths[sym'] /\ phase' = "decoded"
         ELSE consumed' = T /\ phase' = "walk"
      /\ UNCHANGED <<freqs, limit, lengths, table, next_secondary>>
  BY DEF Peek, building, T
<1>2. lengths \in [Symbols -> 0..LongestCode] /\ BuiltComplete /\ Looking  BY <1>1 DEF Inv
<1>3. /\ nx \in RootHalf..(Total \div 2) /\ (Room(lengths)[T] = AllRoom \/ Room(lengths)[16] = AllRoom)
      /\ \E depth, code : Finished(lengths, table, nx, depth, code)
  BY <1>2 DEF Looking
<1>4. PICK depth, code : Finished(lengths, table, nx, depth, code)  BY <1>3
<1>5. control' \in Nat
  <2>1. LongestCode \in 0..16  BY Sizes
  <2>2. 2^LongestCode \in Nat  BY <2>1, WidthFacts
  <2> DEFINE p == 2^LongestCode
  <2>3. p \in Nat /\ control' \in 0..(p - 1)  BY <1>1, <2>2
  <2> HIDE DEF p
  <2> QED  BY <2>3
<1>6. nx \in Nat /\ nx >= RootHalf  BY <1>3, Sizes
<1>7. i \in 0..(TableMask - 1) /\ i \in Live(nx) /\ i = control' % 2^T
  <2>1. TableMask \in Nat \ {0} /\ TableMask = 2^T /\ TableMask = 2 * RootHalf
        /\ RootHalf \in Nat
    BY Sizes
  <2>2. i \in Nat /\ i < TableMask  BY <1>5, <2>1, Divided
  <2> HIDE DEF i, nx
  <2>3. i \in 0..(TableMask - 1) /\ i \in Live(nx)  BY <1>6, <2>1, <2>2 DEF Live
  <2> QED  BY <2>1, <2>3 DEF i
<1>8. depth[i] = T /\ code[i] = ReverseBits(control', T)
  <2>1. depth[i] = T /\ code[i] = ReverseBits(i, T)  BY <1>4, <1>7 DEF Finished, Labels
  <2> DEFINE r == ReverseBits(control', T)
  <2>2. T \in 0..16 /\ r \in Nat /\ r < 2^T  BY <1>5, Sizes, ReverseType
  <2>3. ReverseBits(r, T) = i  BY <1>5, <1>7, <2>2, ReverseTwice
  <2>4. ReverseBits(ReverseBits(r, T), T) = r
    <3> HIDE DEF r
    <3>1. r \in 0..(2^T - 1)
      <4> DEFINE p == 2^T
      <4>1. p \in Nat /\ r < p  BY <2>2, WidthFacts
      <4> HIDE DEF p
      <4>2. r \in 0..(p - 1)  BY <2>2, <4>1
      <4> QED  BY <4>2 DEF p
    <3> QED  BY <2>2, <3>1, ReverseRange
  <2> QED  BY <2>1, <2>3, <2>4
<1>9. \/ ~(table[i] < NumberSymbols) /\ IsNode(table, nx, depth, code, i)
      \/ /\ table[i] < NumberSymbols /\ table[i] \in Coded(lengths)
         /\ control' % 2^lengths[table[i]] = WrittenCode(lengths, table[i])
  <2>1. code[i] = ReverseBits(control', depth[i])  BY <1>8
  <2> HIDE DEF i, nx
  <2> QED  BY <1>2, <1>4, <1>5, <1>6, <1>7, <2>1, EntryRead
<1>10. BuiltComplete'  BY <1>1, <1>2 DEF BuiltComplete
<1> HIDE DEF i
<1>11. CASE table[i] < NumberSymbols
  <2>1. phase' = "decoded" /\ consumed' = lengths[sym']  BY <1>1, <1>11
  <2>2. /\ sym' \in Coded(lengths)
        /\ control' % 2^consumed' = WrittenCode(lengths, sym')
    BY <1>1, <1>9, <1>11, <2>1
  <2> QED  BY <1>1, <1>2, <1>10, <2>1, <2>2 DEF Inv
<1>12. CASE ~(table[i] < NumberSymbols)
  <2>1. phase' = "walk" /\ consumed' = T  BY <1>1, <1>12
  <2>2. /\ table[i] = sym' /\ IsNode(table, nx, depth, code, i)
        /\ depth[i] = consumed' /\ code[i] = ReverseBits(control', consumed')
    BY <1>1, <1>8, <1>9, <1>12, <2>1
  <2>3. Looking'  BY <1>1, <1>3, <1>4, <1>5, <1>7, <2>2 DEF Looking
  <2> QED  BY <1>1, <1>2, <1>10, <2>1, <2>3 DEF Inv
<1> QED  BY <1>11, <1>12

\* The node that a walk has come to, and its entry for the next bit.
LEMMA WalkFacts ==
    ASSUME Looking, phase = "walk"
    PROVE  /\ control \in Nat /\ next_secondary \in Nat /\ next_secondary >= RootHalf
           /\ 2 * next_secondary <= Total /\ sym \in Nat /\ sym <= next_secondary - 1
           /\ consumed \in 0..15 /\ consumed + 1 \in T..LongestCode /\ consumed + 1 > T
           /\ \E depth, code : \E f \in Live(next_secondary) :
                 /\ Finished(lengths, table, next_secondary, depth, code)
                 /\ f = 2 * sym + ((control \div 2^consumed) % 2)
                 /\ depth[f] = consumed + 1 /\ code[f] = ReverseBits(control, consumed + 1)
<1> DEFINE nx == next_secondary
           b == (control \div 2^consumed) % 2
           f == 2 * sym + b
<1>1. PICK depth, code :
         /\ Finished(lengths, table, nx, depth, code) /\ control \in Nat
         /\ \E e \in Live(nx) :
               /\ table[e] = sym /\ IsNode(table, nx, depth, code, e)
               /\ depth[e] = consumed /\ code[e] = ReverseBits(control, consumed)
  BY DEF Looking
<1>2. PICK e \in Live(nx) :
         /\ table[e] = sym /\ IsNode(table, nx, depth, code, e)
         /\ depth[e] = consumed /\ code[e] = ReverseBits(control, consumed)
  BY <1>1
<1>3. /\ nx \in RootHalf..(Total \div 2) /\ RootHalf \in Nat \ {0} /\ NumberSymbols \in Nat
      /\ Total = 2 * RootHalf + 4 * NumberSymbols
  BY Sizes DEF Looking
<1>4. nx \in Nat /\ nx >= RootHalf /\ 2 * nx <= Total  BY <1>3
<1>5. /\ sym \in RootHalf..(nx - 1)
      /\ \A y \in {0, 1} : depth[2 * sym + y] = consumed + 1 /\ code[2 * sym + y] = 2 * code[e] + y
  BY <1>2 DEF IsNode
<1>6. sym \in Nat /\ sym <= nx - 1  BY <1>3, <1>5
<1>7. \A y \in {0, 1} : 2 * sym + y \in Live(nx)
  <2> HIDE DEF nx
  <2> QED  BY <1>4, <1>6 DEF Live
<1>8. Labels(nx, depth, code)  BY <1>1 DEF Finished
<1>9. consumed \in T..LongestCode /\ consumed \in 0..16 /\ consumed + 1 \in T..LongestCode
  <2>1. depth[e] \in T..LongestCode /\ depth[e] \in 0..16  BY <1>4, <1>8, LabelFacts
  <2>2. 2 * sym + 0 \in Live(nx) /\ depth[2 * sym + 0] = consumed + 1  BY <1>5, <1>7
  <2>3. depth[2 * sym + 0] \in T..LongestCode
    <3> DEFINE g == 2 * sym + 0
    <3>1. g \in Live(nx)  BY <2>2
    <3> HIDE DEF g, nx
    <3>2. depth[g] \in T..LongestCode  BY <1>4, <1>8, <3>1, LabelFacts
    <3> QED  BY <3>2 DEF g
  <2> QED  BY <1>2, <2>1, <2>2, <2>3
<1>10. consumed \in 0..15 /\ consumed + 1 > T /\ consumed + 1 \in 1..16
       /\ (consumed + 1) - 1 = consumed
  BY <1>9, Sizes
<1>11. b \in {0, 1} /\ ReverseBits(control, consumed + 1) = 2 * ReverseBits(control, consumed) + b
  <2>1. ReverseBits(control, consumed + 1)
           = 2 * ReverseBits(control, (consumed + 1) - 1) + Bit(control, consumed + 1)
    BY <1>1, <1>10, ReverseStep
  <2>2. Bit(control, consumed + 1) = b  BY <1>10 DEF Bit
  <2>3. b \in {0, 1}
    <3>1. 2^consumed \in Nat \ {0}  BY <1>9, WidthFacts
    <3> DEFINE p == 2^consumed
    <3>2. p \in Nat \ {0}  BY <3>1
    <3> HIDE DEF p
    <3>3. (control \div p) % 2 \in {0, 1}  BY <1>1, <3>2, Halves
    <3> QED  BY <3>3 DEF p
  <2> QED  BY <1>10, <2>1, <2>2, <2>3
<1>12. /\ f \in Live(nx) /\ depth[f] = consumed + 1
       /\ code[f] = ReverseBits(control, consumed + 1)
  BY <1>2, <1>5, <1>7, <1>11
<1> QED  BY <1>1, <1>4, <1>6, <1>9, <1>10, <1>12

LEMMA WalkBitInv ==
    ASSUME Inv, WalkBit  PROVE Inv'
<1> DEFINE nx == next_secondary
           f == 2 * sym + ((control \div 2^consumed) % 2)
           d == consumed + 1
<1>1. /\ phase = "walk" /\ sym' = table[f] /\ consumed' = d
      /\ phase' = (IF sym' < NumberSymbols THEN "decoded" ELSE phase)
      /\ UNCHANGED <<freqs, limit, lengths, table, next_secondary, control>>
  BY DEF WalkBit, building
<1>2. lengths \in [Symbols -> 0..LongestCode] /\ BuiltComplete /\ Looking  BY <1>1 DEF Inv
<1>3. nx \in Nat /\ nx >= RootHalf /\ control \in Nat /\ d > T  BY <1>1, <1>2, WalkFacts
<1>4. PICK depth, code :
         /\ Finished(lengths, table, nx, depth, code) /\ f \in Live(nx)
         /\ depth[f] = d /\ code[f] = ReverseBits(control, d)
  BY <1>1, <1>2, WalkFacts
<1>5. \/ ~(table[f] < NumberSymbols) /\ IsNode(table, nx, depth, code, f)
      \/ /\ table[f] < NumberSymbols /\ table[f] \in Coded(lengths)
         /\ lengths[table[f]] = d
         /\ control % 2^lengths[table[f]] = WrittenCode(lengths, table[f])
  <2>1. code[f] = ReverseBits(control, depth[f])  BY <1>4
  <2> HIDE DEF f, nx, d
  <2> QED  BY <1>2, <1>3, <1>4, <2>1, EntryRead
<1>6. BuiltComplete'  BY <1>1, <1>2 DEF BuiltComplete
<1> HIDE DEF f
<1>7. CASE table[f] < NumberSymbols
  <2>1. phase' = "decoded"  BY <1>1, <1>7
  <2>2. /\ sym' \in Coded(lengths) /\ consumed' = lengths[sym']
        /\ control' % 2^consumed' = WrittenCode(lengths, sym')
    BY <1>1, <1>5, <1>7
  <2> QED  BY <1>1, <1>2, <1>6, <2>1, <2>2 DEF Inv
<1>8. CASE ~(table[f] < NumberSymbols)
  <2>1. phase' = "walk"  BY <1>1, <1>8
  <2>2. /\ table[f] = sym' /\ IsNode(table, nx, depth, code, f)
        /\ depth[f] = consumed' /\ code[f] = ReverseBits(control, consumed')
    BY <1>1, <1>4, <1>5, <1>8
  <2>3. nx \in RootHalf..(Total \div 2)
        /\ (Room(lengths)[T] = AllRoom \/ Room(lengths)[16] = AllRoom)
    BY <1>2 DEF Looking
  <2>4. Looking'  BY <1>1, <1>3, <1>4, <2>2, <2>3 DEF Looking
  <2> QED  BY <1>1, <1>2, <1>6, <2>1, <2>4 DEF Inv
<1> QED  BY <1>7, <1>8

-----------------------------------------------------------------------------
(* The properties *)

\* make_decode_table keeps to its tree, over every choice of lengths.
THEOREM TableInvariant == Spec => []Inv
<1>1. Init => Inv  BY InitInv
<1>2. Inv /\ [Next]_vars => Inv'
  <2> SUFFICES ASSUME Inv, [Next]_vars  PROVE Inv'  OBVIOUS
  <2>1. CASE PlaceShort  BY <2>1, PlaceShortInv
  <2>2. CASE EndShort  BY <2>2, EndShortInv
  <2>3. CASE BeginLong  BY <2>3, BeginLongInv
  <2>4. CASE Descend  BY <2>4, DescendInv
  <2>5. CASE PlaceLong  BY <2>5, PlaceLongInv
  <2>6. CASE EndLong  BY <2>6, EndLongInv
  <2>7. CASE Peek  BY <2>7, PeekInv
  <2>8. CASE WalkBit  BY <2>8, WalkBitInv
  <2>9. CASE UNCHANGED vars
    BY <2>9 DEF vars, building, lookup, Inv, BuiltComplete, Placing, Looking
  <2> QED  BY <2>1, <2>2, <2>3, <2>4, <2>5, <2>6, <2>7, <2>8, <2>9 DEF Next
<1> QED  BY <1>1, <1>2, PTL DEF Spec

\* decode_symbol reads within the table and finds the symbol that the writer's
\* code stands for.
THEOREM LookupFindsTheSymbol == Spec => []LookupIsCanonical
<1>1. Inv => LookupIsCanonical
  <2> SUFFICES ASSUME Inv  PROVE LookupIsCanonical  OBVIOUS
  <2>1. phase = "walk" => 2 * sym + 1 < Total /\ consumed < LongestCode
    <3> SUFFICES ASSUME phase = "walk"  PROVE 2 * sym + 1 < Total /\ consumed < LongestCode
      OBVIOUS
    <3>1. /\ next_secondary \in Nat /\ 2 * next_secondary <= Total /\ sym \in Nat
          /\ sym <= next_secondary - 1 /\ consumed \in 0..15 /\ consumed + 1 \in T..LongestCode
      BY WalkFacts DEF Inv
    <3>2. Total \in Nat /\ T \in Nat /\ LongestCode \in Nat
      <4>1. /\ RootHalf \in Nat /\ NumberSymbols \in Nat /\ T \in 1..12 /\ LongestCode \in T..16
            /\ Total = 2 * RootHalf + 4 * NumberSymbols
        BY Sizes
      <4> QED  BY <4>1
    <3> QED  BY <3>1, <3>2
  <2> QED  BY <2>1 DEF Inv, LookupIsCanonical
<1> QED  BY <1>1, TableInvariant, PTL

\* make_decode_table refuses no lengths that leave no bits without a symbol, so
\* it takes those of build_lengths, which fill the room; and when the root is
\* not full it takes no others.
THEOREM CompleteCodesAreAccepted == Spec => []AcceptsCompleteCodes
<1>1. Inv => AcceptsCompleteCodes
  BY DEF Inv, BuiltComplete, Looking, AcceptsCompleteCodes, T
<1> QED  BY <1>1, TableInvariant, PTL
=============================================================================
