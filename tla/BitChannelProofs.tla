-------------------------- MODULE BitChannelProofs --------------------------
(***************************************************************************)
(* Proofs about the bit writer, the bit reader and the file between them,  *)
(* for every width of a byte, fields up to a word and a bit, and every     *)
(* sequence of errors and cuts.  Both sides keep the same kind of          *)
(* invariant: the words on the disk, followed by the bits in the register, *)
(* are one stream, and the register is clear above them.                   *)
(***************************************************************************)
EXTENDS BitChannel, TLAPS

Words(d) == Len(d) \div 2
BitsIn(n) == n * WordBits
FieldBits(value, n) == [i \in 1..n |-> value[i - 1]]
WithField(h, value, n) == h \o FieldBits(value, n)
Drained(reg, bytes) == [i \in 1..bytes |-> DrainByte(reg, i)]
AfterDrain(d, reg, bytes) == d \o Drained(reg, bytes)

\* The writer's side: the words of d and then the count low bits of reg are
\* the bits h.
Written(d, reg, count, h) ==
    /\ Len(d) % 2 = 0
    /\ Len(h) = BitsIn(Words(d)) + count
    /\ \A k \in 1..BitsIn(Words(d)) : StreamBits(d)[k] = h[k]
    /\ \A j \in 0..(count - 1) : reg[j] = h[BitsIn(Words(d)) + j + 1]
    /\ \A j \in count..(RegisterBits - 1) : reg[j] = 0

\* The words of d are a prefix of h.
Begins(d, h) ==
    /\ BitsIn(Words(d)) <= Len(h)
    /\ \A k \in 1..BitsIn(Words(d)) : StreamBits(d)[k] = h[k]

\* The reader's side: the bits got and then the count low bits of reg are
\* the first bits of d's stream.
Loaded(d, reg, count, got, n) ==
    /\ Len(got) + count = BitsIn(n)
    /\ \A k \in 1..Len(got) : got[k] = StreamBits(d)[k]
    /\ \A j \in 0..(count - 1) : reg[j] = StreamBits(d)[Len(got) + j + 1]
    /\ \A j \in count..(RegisterBits - 1) : reg[j] = 0

-----------------------------------------------------------------------------
(* Words and bits *)

\* All widths follow from that of a byte.
LEMMA Sizes ==
    /\ ByteBits \in Nat \ {0} /\ WordBits = 2 * ByteBits /\ RegisterBits = 2 * WordBits
    /\ WordBits \in Nat \ {0} /\ RegisterBits \in Nat \ {0}
  BY ByteBitsAssumption DEF WordBits, RegisterBits

LEMMA WordSize == WordBits \in Nat \ {0}
  BY Sizes

\* Quotient and rest are unique.
LEMMA DivUnique ==
    ASSUME NEW w \in Nat \ {0}, NEW q \in Nat, NEW r \in 0..(w - 1)
    PROVE  (q * w + r) \div w = q /\ (q * w + r) % w = r
  OBVIOUS

\* Words are counted in bits.
LEMMA BitsInFacts ==
    /\ BitsIn(0) = 0 /\ BitsIn(1) = WordBits /\ BitsIn(2) = 2 * WordBits
    /\ \A a \in Nat : BitsIn(a) \in Nat /\ BitsIn(a + 1) = BitsIn(a) + WordBits
    /\ \A a, b \in Nat : BitsIn(a + b) = BitsIn(a) + BitsIn(b)
    /\ \A a, b \in Nat : a <= b => BitsIn(a) <= BitsIn(b)
    /\ \A a, b \in Nat : a < b => BitsIn(a) + WordBits <= BitsIn(b)
<1> DEFINE w == WordBits
<1>1. w \in Nat \ {0}  BY WordSize
<1> HIDE DEF w
<1>2. 0 * w = 0 /\ 1 * w = w /\ 2 * w = 2 * w  BY <1>1
<1>3. \A a \in Nat : a * w \in Nat /\ (a + 1) * w = a * w + w  BY <1>1
<1>4. \A a, b \in Nat : (a + b) * w = a * w + b * w  BY <1>1
<1>5. \A a, b \in Nat : a <= b => a * w <= b * w  BY <1>1
<1>6. \A a, b \in Nat : a < b => a * w + w <= b * w  BY <1>1
<1> QED  BY <1>2, <1>3, <1>4, <1>5, <1>6 DEF BitsIn, w

\* Every position is a word and a bit in it.
LEMMA WordAndBit ==
    ASSUME NEW n \in Nat, NEW k \in 1..BitsIn(n)
    PROVE  \E q \in 0..(n - 1), b \in 0..(WordBits - 1) : k = BitsIn(q) + b + 1
<1> DEFINE w == WordBits
           q == (k - 1) \div w
           b == (k - 1) % w
<1>1. w \in Nat \ {0}  BY WordSize
<1>2. BitsIn(n) = n * w /\ BitsIn(q) = q * w  BY DEF BitsIn
<1> HIDE DEF w
<1>3. k - 1 \in Nat /\ k - 1 < n * w  BY <1>1, <1>2
<1>4. k - 1 = q * w + b /\ q \in Nat /\ b \in 0..(w - 1)  BY <1>1, <1>3
<1>5. q < n  BY <1>1, <1>3
<1>6. k = BitsIn(q) + b + 1 /\ q \in 0..(n - 1)  BY <1>2, <1>3, <1>4, <1>5
<1> QED  BY <1>4, <1>6 DEF w

\* A bit of the stream, by its word and its place in it.
LEMMA BitOfWord ==
    ASSUME NEW d \in Seq(Byte), NEW q \in 0..(Words(d) - 1), NEW b \in 0..(WordBits - 1)
    PROVE  /\ BitsIn(q) + b + 1 \in 1..BitsIn(Words(d))
           /\ 2 * q + 1 \in 1..Len(d) /\ 2 * q + 2 \in 1..Len(d)
           /\ StreamBits(d)[BitsIn(q) + b + 1] =
                  IF b < ByteBits THEN d[2 * q + 2][b] ELSE d[2 * q + 1][b - ByteBits]
<1> DEFINE k == BitsIn(q) + b + 1
<1>0. WordBits \in Nat \ {0}  BY WordSize
<1>1. Words(d) \in Nat /\ q \in Nat /\ Len(d) \in Nat /\ 2 * Words(d) <= Len(d) /\ q < Words(d)
  BY DEF Words
<1>2. BitsIn(q) \in Nat /\ BitsIn(q) + WordBits <= BitsIn(Words(d))
      /\ BitsIn(Words(d)) \in Nat
  BY ONLY <1>1, BitsInFacts
<1>3. k \in 1..BitsIn(Words(d))  BY <1>2, Sizes
<1>4. k - 1 = BitsIn(q) + b  BY <1>2, Sizes
<1>5. (k - 1) \div WordBits = q /\ (k - 1) % WordBits = b
  BY <1>0, <1>1, <1>4, DivUnique DEF BitsIn
<1>6. StreamBits(d)[k] = IF b < ByteBits THEN d[2 * q + 2][b] ELSE d[2 * q + 1][b - ByteBits]
  <2> HIDE DEF k
  <2> QED  BY <1>3, <1>5 DEF StreamBits, Words, BitsIn
<1> QED  BY <1>1, <1>3, <1>6

\* The stream of a file is a sequence of bits, a word for every two bytes.
LEMMA StreamFacts ==
    ASSUME NEW d \in Seq(Byte)
    PROVE  /\ StreamBits(d) \in Seq(Bit) /\ Len(StreamBits(d)) = BitsIn(Words(d))
           /\ Words(d) \in Nat /\ BitsIn(Words(d)) \in Nat
<1>1. Words(d) \in Nat  BY DEF Words
<1>2. BitsIn(Words(d)) \in Nat  BY ONLY <1>1, BitsInFacts
<1> DEFINE n == BitsIn(Words(d))
<1>3. \A k \in 1..n : StreamBits(d)[k] \in Bit
  <2> SUFFICES ASSUME NEW k \in 1..n  PROVE StreamBits(d)[k] \in Bit  OBVIOUS
  <2>1. PICK q \in 0..(Words(d) - 1), b \in 0..(WordBits - 1) : k = BitsIn(q) + b + 1
    BY ONLY <1>1, WordSize, WordAndBit
  <2>2. /\ 2 * q + 1 \in 1..Len(d) /\ 2 * q + 2 \in 1..Len(d)
        /\ StreamBits(d)[k] = IF b < ByteBits THEN d[2 * q + 2][b] ELSE d[2 * q + 1][b - ByteBits]
    BY <2>1, BitOfWord
  <2>3. d[2 * q + 1] \in Byte /\ d[2 * q + 2] \in Byte  BY <2>2
  <2>4. CASE b < ByteBits
    <3>1. b \in 0..(ByteBits - 1)  BY <2>4, Sizes
    <3> QED  BY <2>2, <2>3, <2>4, <3>1 DEF Byte
  <2>5. CASE ~(b < ByteBits)
    <3>1. b - ByteBits \in 0..(ByteBits - 1)  BY <2>5, Sizes
    <3> QED  BY <2>2, <2>3, <2>5, <3>1 DEF Byte
  <2> QED  BY <2>4, <2>5
<1>4. StreamBits(d) = [k \in 1..n |-> StreamBits(d)[k]]  BY DEF StreamBits, Words, BitsIn
<1> HIDE DEF n
<1>5. StreamBits(d) \in Seq(Bit) /\ Len(StreamBits(d)) = n  BY <1>2, <1>3, <1>4 DEF n
<1> QED  BY <1>1, <1>2, <1>5 DEF n

\* Bytes that are appended or cut off do not change the words before them.
LEMMA StreamPrefix ==
    ASSUME NEW d \in Seq(Byte), NEW e \in Seq(Byte), Len(d) <= Len(e),
           \A i \in 1..Len(d) : e[i] = d[i]
    PROVE  /\ Words(d) <= Words(e) /\ BitsIn(Words(d)) <= BitsIn(Words(e))
           /\ \A k \in 1..BitsIn(Words(d)) : StreamBits(e)[k] = StreamBits(d)[k]
<1>1. Words(d) \in Nat /\ Words(e) \in Nat /\ Words(d) <= Words(e)  BY DEF Words
<1>2. BitsIn(Words(d)) <= BitsIn(Words(e))
  <2>1. CASE Words(d) = Words(e)  BY <1>1, <2>1, StreamFacts
  <2>2. CASE Words(d) < Words(e)
    <3>1. BitsIn(Words(d)) + WordBits <= BitsIn(Words(e))
          /\ BitsIn(Words(d)) \in Nat /\ BitsIn(Words(e)) \in Nat
      BY ONLY <1>1, <2>2, BitsInFacts
    <3> HIDE DEF Words
    <3> QED  BY <3>1, WordSize
  <2> QED  BY <1>1, <2>1, <2>2
<1>3. \A k \in 1..BitsIn(Words(d)) : StreamBits(e)[k] = StreamBits(d)[k]
  <2> SUFFICES ASSUME NEW k \in 1..BitsIn(Words(d))
               PROVE  StreamBits(e)[k] = StreamBits(d)[k]
    OBVIOUS
  <2>1. PICK q \in 0..(Words(d) - 1), b \in 0..(WordBits - 1) : k = BitsIn(q) + b + 1
    BY ONLY <1>1, WordSize, WordAndBit
  <2>2. q \in 0..(Words(e) - 1)  BY <1>1
  <2>3. /\ 2 * q + 1 \in 1..Len(d) /\ 2 * q + 2 \in 1..Len(d)
        /\ StreamBits(d)[k] = IF b < ByteBits THEN d[2 * q + 2][b] ELSE d[2 * q + 1][b - ByteBits]
    BY <2>1, BitOfWord
  <2>4. StreamBits(e)[k] = IF b < ByteBits THEN e[2 * q + 2][b] ELSE e[2 * q + 1][b - ByteBits]
    BY <2>1, <2>2, BitOfWord
  <2> QED  BY <2>3, <2>4
<1> QED  BY <1>1, <1>2, <1>3

-----------------------------------------------------------------------------
(* The writer *)

\* What is appended does not move what was there.
LEMMA Appended ==
    ASSUME NEW h \in Seq(Bit), NEW tail \in Seq(Bit)
    PROVE  /\ h \o tail \in Seq(Bit) /\ Len(h \o tail) = Len(h) + Len(tail)
           /\ \A i \in 1..Len(h) : (h \o tail)[i] = h[i]
           /\ \A i \in 1..Len(tail) : (h \o tail)[Len(h) + i] = tail[i]
  OBVIOUS

\* A field is or-ed in above the pending bits; it fits in the register.
LEMMA MergeKeeps ==
    ASSUME NEW d \in Seq(Byte), NEW reg \in Register, NEW count \in 0..(WordBits - 1),
           NEW h \in Seq(Bit), Written(d, reg, count, h),
           NEW n \in 1..MaxWidth, NEW value \in [0..(n - 1) -> Bit],
           NEW h2, h2 = WithField(h, value, n)
    PROVE  /\ MergeAt(reg, count, value) \in Register
           /\ count + n \in 0..RegisterBits /\ h2 \in Seq(Bit)
           /\ Len(h2) = Len(h) + n
           /\ Written(d, MergeAt(reg, count, value), count + n, h2)
<1> DEFINE g == MergeAt(reg, count, value)
           tail == FieldBits(value, n)
           base == BitsIn(Words(d))
<1>1. count + n \in 0..RegisterBits /\ n \in Nat /\ count \in Nat
  BY ChannelAssumption, WriterAssumption, Sizes
<1>2. tail \in Seq(Bit) /\ Len(tail) = n /\ \A i \in 1..n : tail[i] = value[i - 1]
  <2>1. \A i \in 1..n : value[i - 1] \in Bit  BY <1>1
  <2> QED  BY <1>1, <2>1 DEF FieldBits
<1>3. base \in Nat /\ Len(h) \in Nat /\ Len(h) = base + count /\ Len(d) % 2 = 0
  BY StreamFacts DEF Written
<1> HIDE DEF tail, base
<1>4. h2 = h \o tail  BY DEF tail, WithField
<1>5. /\ h2 \in Seq(Bit) /\ Len(h2) = Len(h) + n
      /\ \A i \in 1..Len(h) : h2[i] = h[i]
      /\ \A i \in 1..n : h2[Len(h) + i] = value[i - 1]
  <2>1. /\ h \o tail \in Seq(Bit) /\ Len(h \o tail) = Len(h) + Len(tail)
        /\ \A i \in 1..Len(h) : (h \o tail)[i] = h[i]
        /\ \A i \in 1..Len(tail) : (h \o tail)[Len(h) + i] = tail[i]
    <3>1. tail \in Seq(Bit)  BY <1>2
    <3> QED  BY ONLY <3>1, Appended
  <2> QED  BY ONLY <1>2, <1>4, <2>1
<1>6. DOMAIN value = 0..(n - 1)  OBVIOUS
<1>7. g \in Register /\ \A i \in 0..(RegisterBits - 1) :
          g[i] = IF i - count \in 0..(n - 1) /\ value[i - count] = 1 THEN 1 ELSE reg[i]
  BY <1>6 DEF MergeAt, Register, Bit
<1> HIDE DEF g
<1>8. \A j \in 0..(count + n - 1) : g[j] = h2[base + j + 1]
  <2> SUFFICES ASSUME NEW j \in 0..(count + n - 1)  PROVE g[j] = h2[base + j + 1]  OBVIOUS
  <2>1. j \in 0..(RegisterBits - 1)  BY <1>1, Sizes
  <2>2. CASE j < count
    <3>1. g[j] = reg[j]  BY <1>1, <1>7, <2>1, <2>2
    <3>2. j \in 0..(count - 1)  BY <1>1, <2>2
    <3>3. reg[j] = h[base + j + 1]  BY <3>2 DEF Written, base
    <3>4. base + j + 1 \in 1..Len(h)  BY <1>1, <1>3, <3>2
    <3> QED  BY <1>5, <3>1, <3>3, <3>4
  <2>3. CASE j >= count
    <3>1. j - count \in 0..(n - 1) /\ j \in count..(RegisterBits - 1)  BY <1>1, <2>1, <2>3
    <3>2. reg[j] = 0  BY <3>1 DEF Written
    <3>3. value[j - count] \in Bit  BY <3>1
    <3>4. g[j] = value[j - count]  BY <1>7, <2>1, <3>1, <3>2, <3>3 DEF Bit
    <3>5. j - count + 1 \in 1..n /\ Len(h) + (j - count + 1) = base + j + 1
          /\ (j - count + 1) - 1 = j - count
      BY <1>1, <1>3, <3>1
    <3>6. h2[Len(h) + (j - count + 1)] = value[(j - count + 1) - 1]  BY <1>5, <3>5
    <3>7. h2[base + j + 1] = value[j - count]  BY ONLY <3>5, <3>6
    <3> QED  BY ONLY <3>4, <3>7
  <2> QED  BY ONLY <1>1, <2>2, <2>3
<1>9. \A j \in (count + n)..(RegisterBits - 1) : g[j] = 0
  <2> SUFFICES ASSUME NEW j \in (count + n)..(RegisterBits - 1)  PROVE g[j] = 0  OBVIOUS
  <2>1. j \in 0..(RegisterBits - 1) /\ j - count \notin 0..(n - 1) /\ j \in count..(RegisterBits - 1)
    BY <1>1, Sizes
  <2> QED  BY <1>7, <2>1 DEF Written
<1>10. \A k \in 1..base : StreamBits(d)[k] = h2[k]
  <2> SUFFICES ASSUME NEW k \in 1..base  PROVE StreamBits(d)[k] = h2[k]  OBVIOUS
  <2>1. k \in 1..Len(h)  BY <1>1, <1>3
  <2>2. StreamBits(d)[k] = h[k]  BY DEF Written, base
  <2> QED  BY <1>5, <2>1, <2>2
<1>11. Len(h2) = base + (count + n)  BY <1>1, <1>3, <1>5
<1>12. Written(d, g, count + n, h2)
  BY ONLY <1>3, <1>8, <1>9, <1>10, <1>11 DEF Written, base
<1> QED  BY <1>1, <1>5, <1>7, <1>12 DEF g

\* The bytes of the register, in the order they leave.
LEMMA DrainedBytes ==
    ASSUME NEW reg \in Register
    PROVE  /\ \A b \in 0..(ByteBits - 1) :
                 /\ DrainByte(reg, 1)[b] = reg[b + ByteBits]
                 /\ DrainByte(reg, 2)[b] = reg[b]
                 /\ DrainByte(reg, 3)[b] = reg[b + ByteBits + WordBits]
                 /\ DrainByte(reg, 4)[b] = reg[b + WordBits]
           /\ \A i \in 1..4 : DrainByte(reg, i) \in Byte
<1>1. \A b \in 0..(ByteBits - 1) :
          /\ b \in 0..(RegisterBits - 1) /\ b + ByteBits \in 0..(RegisterBits - 1)
          /\ b + WordBits \in 0..(RegisterBits - 1)
          /\ b + ByteBits + WordBits \in 0..(RegisterBits - 1)
  BY Sizes
<1>2. \A b \in 0..(ByteBits - 1) :
          /\ DrainByte(reg, 1)[b] = reg[b + ByteBits]
          /\ DrainByte(reg, 2)[b] = reg[b]
          /\ DrainByte(reg, 3)[b] = reg[b + ByteBits + WordBits]
          /\ DrainByte(reg, 4)[b] = reg[b + WordBits]
  <2> SUFFICES ASSUME NEW b \in 0..(ByteBits - 1)
               PROVE  /\ DrainByte(reg, 1)[b] = reg[b + ByteBits]
                      /\ DrainByte(reg, 2)[b] = reg[b]
                      /\ DrainByte(reg, 3)[b] = reg[b + ByteBits + WordBits]
                      /\ DrainByte(reg, 4)[b] = reg[b + WordBits]
    OBVIOUS
  <2>1. DrainByte(reg, 1)[b] = reg[0 * WordBits + ByteBits + b]  BY DEF DrainByte
  <2>2. DrainByte(reg, 2)[b] = reg[0 * WordBits + 0 + b]  BY DEF DrainByte
  <2>3. DrainByte(reg, 3)[b] = reg[1 * WordBits + ByteBits + b]  BY DEF DrainByte
  <2>4. DrainByte(reg, 4)[b] = reg[1 * WordBits + 0 + b]  BY DEF DrainByte
  <2>5. /\ 0 * WordBits + ByteBits + b = b + ByteBits
        /\ 0 * WordBits + 0 + b = b
        /\ 1 * WordBits + ByteBits + b = b + ByteBits + WordBits
        /\ 1 * WordBits + 0 + b = b + WordBits
    BY Sizes
  <2> QED  BY <2>1, <2>2, <2>3, <2>4, <2>5
<1>3. \A i \in 1..4 : DrainByte(reg, i) \in Byte
  <2> SUFFICES ASSUME NEW i \in 1..4  PROVE DrainByte(reg, i) \in Byte  OBVIOUS
  <2>1. \A b \in 0..(ByteBits - 1) : DrainByte(reg, i)[b] \in Bit
    <3>1. \A j \in 0..(RegisterBits - 1) : reg[j] \in Bit  BY DEF Register
    <3> QED  BY <1>1, <1>2, <3>1
  <2>2. DrainByte(reg, i) = [b \in 0..(ByteBits - 1) |-> DrainByte(reg, i)[b]]  BY DEF DrainByte
  <2> HIDE DEF DrainByte
  <2> QED  BY <2>1, <2>2 DEF Byte
<1> QED  BY <1>2, <1>3

\* However many bytes of the full words leave, the words on the disk are the
\* bits written, as far as they go.
LEMMA DrainPrefix ==
    ASSUME NEW d \in Seq(Byte), NEW reg \in Register, NEW count \in 0..RegisterBits,
           NEW h \in Seq(Bit), Written(d, reg, count, h),
           NEW words \in 0..2, BitsIn(words) <= count,
           NEW bytes \in {2 * words, 2 * words + 1}, bytes \in 0..4,
           NEW g, g = AfterDrain(d, reg, bytes)
    PROVE  /\ g \in Seq(Byte) /\ Len(g) = Len(d) + bytes
           /\ Words(g) = Words(d) + words
           /\ BitsIn(Words(g)) = BitsIn(Words(d)) + BitsIn(words)
           /\ Begins(g, h)
<1> DEFINE out == Drained(reg, bytes)
<1>0. WordBits \in Nat \ {0} /\ WordBits = 2 * ByteBits /\ ByteBits \in Nat \ {0}  BY Sizes
<1>1. out \in Seq(Byte) /\ Len(out) = bytes /\ \A i \in 1..bytes : out[i] = DrainByte(reg, i)
  <2>1. \A i \in 1..bytes : DrainByte(reg, i) \in Byte  BY DrainedBytes
  <2> QED  BY <2>1 DEF Drained
<1> HIDE DEF out
<1>2. /\ g \in Seq(Byte) /\ Len(g) = Len(d) + bytes
      /\ \A i \in 1..Len(d) : g[i] = d[i]
      /\ \A i \in 1..bytes : g[Len(d) + i] = DrainByte(reg, i)
  <2>1. g = d \o out  BY DEF out, AfterDrain
  <2> QED  BY <1>1, <2>1
<1>3. Len(d) \in Nat /\ Len(d) % 2 = 0 /\ Len(d) = 2 * Words(d) /\ Words(d) \in Nat
  <2>0. Len(d) % 2 = 0  BY DEF Written
  <2>1. Len(d) \in Nat /\ Len(d) % 2 = 0  BY ONLY <2>0, d \in Seq(Byte)
  <2> QED  BY ONLY <2>1 DEF Words
<1>4. Words(g) = Words(d) + words
  <2>1. Len(g) = 2 * Words(d) + bytes  BY ONLY <1>2, <1>3
  <2>2. \A x \in Nat : (2 * x + 2 * words) \div 2 = x + words
                        /\ (2 * x + 2 * words + 1) \div 2 = x + words
    OBVIOUS
  <2> QED  BY ONLY <1>3, <2>1, <2>2, bytes \in {2 * words, 2 * words + 1} DEF Words
<1>5. BitsIn(Words(g)) = BitsIn(Words(d)) + BitsIn(words) /\ BitsIn(Words(d)) \in Nat
  <2>1. BitsIn(Words(d) + words) = BitsIn(Words(d)) + BitsIn(words)
    BY ONLY <1>3, words \in Nat, BitsInFacts
  <2> QED  BY <1>4, <2>1, StreamFacts
<1>6. BitsIn(Words(g)) <= Len(h)
  <2>1. Len(h) = BitsIn(Words(d)) + count  BY DEF Written
  <2> HIDE DEF Words
  <2>2. BitsIn(words) \in Nat
    <3>1. words \in Nat  OBVIOUS
    <3> QED  BY ONLY <3>1, BitsInFacts, Zenon
  <2> QED  BY <1>5, <2>1, <2>2
<1>7. \A k \in 1..BitsIn(Words(g)) : StreamBits(g)[k] = h[k]
  <2> SUFFICES ASSUME NEW k \in 1..BitsIn(Words(g))  PROVE StreamBits(g)[k] = h[k]
    OBVIOUS
  <2>1. Words(g) \in Nat  BY <1>3, <1>4
  <2>2. PICK q \in 0..(Words(g) - 1), b \in 0..(WordBits - 1) : k = BitsIn(q) + b + 1
    BY ONLY <2>1, <1>0, WordAndBit
  <2>3. StreamBits(g)[k] = IF b < ByteBits THEN g[2 * q + 2][b] ELSE g[2 * q + 1][b - ByteBits]
    BY <1>2, <2>2, BitOfWord
  <2>4. CASE q < Words(d)
    <3>1. q \in 0..(Words(d) - 1)  BY <1>3, <2>4
    <3>2. /\ k \in 1..BitsIn(Words(d))
          /\ 2 * q + 1 \in 1..Len(d) /\ 2 * q + 2 \in 1..Len(d)
          /\ StreamBits(d)[k] =
                 IF b < ByteBits THEN d[2 * q + 2][b] ELSE d[2 * q + 1][b - ByteBits]
      BY <2>2, <3>1, BitOfWord
    <3>3. StreamBits(g)[k] = StreamBits(d)[k]  BY <1>2, <2>3, <3>2
    <3>4. StreamBits(d)[k] = h[k]  BY <3>2 DEF Written
    <3> QED  BY <3>3, <3>4
  <2>5. CASE q = Words(d)
    <3>1. words >= 1 /\ 2 * q + 1 = Len(d) + 1 /\ 2 * q + 2 = Len(d) + 2
          /\ 1 \in 1..bytes /\ 2 \in 1..bytes
      <4>1. words >= 1 /\ bytes >= 2 /\ bytes \in Nat
        <5>1. words \in Nat /\ (bytes = 2 * words \/ bytes = 2 * words + 1)  OBVIOUS
        <5>2. q < Words(d) + words  BY ONLY <1>4, <2>1, q \in 0..(Words(g) - 1)
        <5>3. words >= 1  BY ONLY <1>3, <2>5, <5>1, <5>2
        <5> QED  BY ONLY <5>1, <5>3
      <4>2. Len(d) = 2 * q /\ q \in Nat  BY ONLY <1>3, <2>5
      <4> QED  BY ONLY <4>1, <4>2
    <3>2. g[2 * q + 1] = DrainByte(reg, 1) /\ g[2 * q + 2] = DrainByte(reg, 2)  BY <1>2, <3>1
    <3>3. StreamBits(g)[k] = reg[b]
      <4>1. CASE b < ByteBits
        <5>1. b \in 0..(ByteBits - 1)  BY <1>0, <4>1
        <5> QED  BY <2>3, <3>2, <4>1, <5>1, DrainedBytes
      <4>2. CASE ~(b < ByteBits)
        <5>1. b - ByteBits \in 0..(ByteBits - 1) /\ (b - ByteBits) + ByteBits = b  BY <1>0, <4>2
        <5> QED  BY <2>3, <3>2, <4>2, <5>1, DrainedBytes
      <4> QED  BY <4>1, <4>2
    <3>4. b \in 0..(count - 1)
      <4>1. words \in {1, 2}  BY <3>1
      <4>2. WordBits <= BitsIn(words)
        <5>1. BitsIn(1) = WordBits /\ BitsIn(2) = 2 * WordBits  BY BitsInFacts
        <5> QED  BY ONLY <1>0, <4>1, <5>1
      <4>3. count \in Nat /\ BitsIn(words) <= count  OBVIOUS
      <4>4. b \in 0..(WordBits - 1)  OBVIOUS
      <4>5. BitsIn(words) \in Nat  BY ONLY <4>1, BitsInFacts
      <4> QED  BY ONLY <1>0, <4>2, <4>3, <4>4, <4>5
    <3>5. reg[b] = h[BitsIn(Words(d)) + b + 1]  BY <3>4 DEF Written
    <3> QED  BY <2>2, <2>5, <3>3, <3>5
  <2>6. CASE q > Words(d)
    <3>1. words = 2 /\ q = Words(d) + 1 /\ bytes = 4
          /\ 2 * q + 1 = Len(d) + 3 /\ 2 * q + 2 = Len(d) + 4
      <4>0. q \in 0..(Words(d) + words - 1) /\ Words(d) \in Nat /\ words \in 0..2
        BY <1>3, <1>4
      <4>1. words = 2 /\ q = Words(d) + 1  BY ONLY <4>0, <2>6
      <4>2. bytes = 4  BY ONLY <4>1, bytes \in {2 * words, 2 * words + 1}, bytes \in 0..4
      <4>3. Len(d) = 2 * Words(d) /\ Words(d) \in Nat  BY <1>3
      <4>4. \A x \in Nat : 2 * (x + 1) + 1 = 2 * x + 3 /\ 2 * (x + 1) + 2 = 2 * x + 4
        BY ONLY Sizes
      <4>5. 2 * (Words(d) + 1) + 1 = Len(d) + 3 /\ 2 * (Words(d) + 1) + 2 = Len(d) + 4
        BY ONLY <4>3, <4>4
      <4> QED  BY <4>1, <4>2, <4>5, Zenon
    <3>2. g[2 * q + 1] = DrainByte(reg, 3) /\ g[2 * q + 2] = DrainByte(reg, 4)
      <4>1. 3 \in 1..bytes /\ 4 \in 1..bytes  BY ONLY <3>1
      <4>2. g[Len(d) + 3] = DrainByte(reg, 3) /\ g[Len(d) + 4] = DrainByte(reg, 4)
        BY ONLY <1>2, <4>1
      <4> QED  BY ONLY <3>1, <4>2
    <3>3. StreamBits(g)[k] = reg[b + WordBits]
      <4>1. CASE b < ByteBits
        <5>1. b \in 0..(ByteBits - 1)  BY <1>0, <4>1
        <5> QED  BY <2>3, <3>2, <4>1, <5>1, DrainedBytes
      <4>2. CASE ~(b < ByteBits)
        <5>1. b - ByteBits \in 0..(ByteBits - 1)
              /\ (b - ByteBits) + ByteBits + WordBits = b + WordBits
          BY <1>0, <4>2
        <5> QED  BY <2>3, <3>2, <4>2, <5>1, DrainedBytes
      <4> QED  BY <4>1, <4>2
    <3>4. b + WordBits \in 0..(count - 1)
      <4>1. BitsIn(words) = 2 * WordBits  BY ONLY <3>1, BitsInFacts
      <4> QED  BY <1>0, <4>1
    <3>5. reg[b + WordBits] = h[BitsIn(Words(d)) + (b + WordBits) + 1]
      BY <3>4 DEF Written
    <3>6. BitsIn(q) = BitsIn(Words(d)) + WordBits
      BY ONLY <1>3, <3>1, BitsInFacts
    <3>7. k = BitsIn(Words(d)) + (b + WordBits) + 1
      <4>1. BitsIn(Words(d)) \in Nat  BY ONLY <1>5
      <4>2. k = (BitsIn(Words(d)) + WordBits) + b + 1  BY ONLY <2>2, <3>6
      <4> QED  BY ONLY <4>1, <4>2, WordSize
    <3> QED  BY <3>3, <3>5, <3>7
  <2> QED  BY ONLY <1>3, <2>1, <2>4, <2>5, <2>6
<1>8. Begins(g, h)  BY ONLY <1>6, <1>7 DEF Begins
<1> QED  BY <1>2, <1>4, <1>5, <1>8

\* When all full words leave, what is pending is the rest.
LEMMA DrainKeeps ==
    ASSUME NEW d \in Seq(Byte), NEW reg \in Register, NEW count \in 0..RegisterBits,
           NEW h \in Seq(Bit), Written(d, reg, count, h),
           NEW words \in 0..2, BitsIn(words) <= count, count < BitsIn(words + 1),
           NEW g, g = AfterDrain(d, reg, 2 * words)
    PROVE  /\ g \in Seq(Byte)
           /\ ShiftDown(reg, BitsIn(words)) \in Register
           /\ count - BitsIn(words) \in 0..(WordBits - 1)
           /\ Written(g, ShiftDown(reg, BitsIn(words)), count - BitsIn(words), h)
<1> DEFINE n == BitsIn(words)
           s == ShiftDown(reg, n)
<1>0. WordBits \in Nat \ {0}  BY WordSize
<1>1. n \in Nat /\ BitsIn(words + 1) = n + WordBits
  <2>1. words \in Nat  OBVIOUS
  <2> QED  BY ONLY <2>1, BitsInFacts, Zenon
<1>2. /\ g \in Seq(Byte) /\ Len(g) = Len(d) + 2 * words
      /\ BitsIn(Words(g)) = BitsIn(Words(d)) + n
      /\ \A k \in 1..BitsIn(Words(g)) : StreamBits(g)[k] = h[k]
  <2> DEFINE bytes == 2 * words
  <2>1. bytes \in 0..4 /\ bytes \in {2 * words, 2 * words + 1}  OBVIOUS
  <2>2. g = AfterDrain(d, reg, bytes)  OBVIOUS
  <2> HIDE DEF bytes
  <2>3. g \in Seq(Byte) /\ Len(g) = Len(d) + bytes
        /\ BitsIn(Words(g)) = BitsIn(Words(d)) + BitsIn(words) /\ Begins(g, h)
    BY <2>1, <2>2, DrainPrefix
  <2> QED  BY ONLY <2>3 DEF bytes, Begins
<1>3. BitsIn(Words(d)) \in Nat /\ Len(d) \in Nat /\ Len(d) % 2 = 0
      /\ Len(h) = BitsIn(Words(d)) + count
  BY StreamFacts DEF Written
<1> HIDE DEF n
<1>4. count - n \in 0..(WordBits - 1)  BY <1>0, <1>1 DEF n
<1>5. RegisterBits \in Nat \ {0}  BY Sizes
<1>6. \A i \in 0..(RegisterBits - 1) :
          s[i] = IF i + n < RegisterBits THEN reg[i + n] ELSE 0
  BY DEF ShiftDown
<1>7. s \in Register
  <2>1. \A i \in 0..(RegisterBits - 1) : s[i] \in Bit
    <3> SUFFICES ASSUME NEW i \in 0..(RegisterBits - 1)  PROVE s[i] \in Bit  OBVIOUS
    <3>1. i + n < RegisterBits => i + n \in 0..(RegisterBits - 1)  BY <1>1, <1>5
    <3> QED  BY <1>6, <3>1 DEF Register, Bit
  <2>2. s = [i \in 0..(RegisterBits - 1) |-> s[i]]  BY DEF ShiftDown
  <2> HIDE DEF s
  <2> QED  BY <2>1, <2>2 DEF Register
<1> HIDE DEF s
<1>8. \A j \in 0..(count - n - 1) : s[j] = h[BitsIn(Words(g)) + j + 1]
  <2> SUFFICES ASSUME NEW j \in 0..(count - n - 1)  PROVE s[j] = h[BitsIn(Words(g)) + j + 1]
    OBVIOUS
  <2>1. j \in 0..(RegisterBits - 1) /\ j + n < RegisterBits /\ j + n \in 0..(count - 1)
    BY <1>1, <1>4, <1>5
  <2>2. s[j] = reg[j + n]  BY <1>6, <2>1
  <2>3. reg[j + n] = h[BitsIn(Words(d)) + (j + n) + 1]  BY <2>1 DEF Written
  <2>4. BitsIn(Words(d)) + (j + n) + 1 = BitsIn(Words(g)) + j + 1  BY <1>1, <1>2, <1>3
  <2> QED  BY <2>2, <2>3, <2>4
<1>9. \A j \in (count - n)..(RegisterBits - 1) : s[j] = 0
  <2> SUFFICES ASSUME NEW j \in (count - n)..(RegisterBits - 1)  PROVE s[j] = 0  OBVIOUS
  <2>1. j \in 0..(RegisterBits - 1)  BY <1>4, <1>5
  <2>2. j + n < RegisterBits => j + n \in count..(RegisterBits - 1)  BY <1>1, <1>4, <1>5
  <2> QED  BY <1>6, <2>1, <2>2 DEF Written
<1>10. Len(h) = BitsIn(Words(g)) + (count - n) /\ Len(g) % 2 = 0
  <2>1. /\ Len(h) = BitsIn(Words(d)) + count /\ BitsIn(Words(g)) = BitsIn(Words(d)) + n
        /\ n \in Nat /\ BitsIn(Words(d)) \in Nat
    BY <1>1, <1>2, <1>3
  <2>2. Len(h) = BitsIn(Words(g)) + (count - n)  BY ONLY <2>1, count \in 0..RegisterBits
  <2>3. Len(g) % 2 = 0
    <3>1. words \in Nat  OBVIOUS
    <3>2. Len(g) = Len(d) + 2 * words  BY <1>2
    <3>3. Len(d) \in Nat /\ Len(d) % 2 = 0  BY <1>3
    <3> QED  BY ONLY <3>1, <3>2, <3>3
  <2> QED  BY <2>2, <2>3
<1>11. Written(g, s, count - n, h)  BY <1>2, <1>8, <1>9, <1>10 DEF Written
<1> QED  BY <1>2, <1>4, <1>7, <1>11 DEF n, s

-----------------------------------------------------------------------------
(* What the writer's steps preserve *)

Zeros(n) == [i \in 1..n |-> 0]
Padded(h, n) == h \o Zeros(n)

\* While the writer is open, nothing is lost; afterwards the file holds a
\* prefix of what was written, or all of it and less than a word of zeros.
WriterInv ==
    /\ written \in Seq(Bit) /\ disk \in Seq(Byte)
    /\ wstate \in {"open", "finished", "failed"}
    /\ wstate = "open" =>
          /\ buffer \in Register /\ pending \in 0..(WordBits - 1)
          /\ Written(disk, buffer, pending, written)
    /\ wstate # "open" =>
          \A k \in 1..BitsIn(Words(disk)) : StreamBits(disk)[k] = ZeroExtended(k)

\* What only holds until the file is cut.
Whole ==
    wstate = "finished" =>
        /\ Len(disk) % 2 = 0
        /\ BitsIn(Words(disk)) - Len(written) \in 0..(WordBits - 1)

\* The register both sides start with.
LEMMA EmptyFacts ==
    /\ EmptyRegister \in Register
    /\ \A j \in 0..(RegisterBits - 1) : EmptyRegister[j] = 0
  BY DEF EmptyRegister, Register, Bit

\* A new writer has written nothing.
LEMMA WriterStarts ==
    ASSUME InitWriter
    PROVE  WriterInv /\ Whole
<1>1. disk \in Seq(Byte) /\ Len(disk) = 0 /\ written \in Seq(Bit) /\ Len(written) = 0
  BY DEF InitWriter
<1>2. Words(disk) = 0 /\ BitsIn(Words(disk)) = 0
  <2>1. Words(disk) = 0  BY ONLY <1>1 DEF Words
  <2> QED  BY ONLY <2>1, BitsInFacts
<1>3. Written(disk, buffer, pending, written)
  <2>1. pending = 0 /\ \A j \in 0..(RegisterBits - 1) : buffer[j] = 0
    BY EmptyFacts DEF InitWriter
  <2> QED  BY ONLY <1>1, <1>2, <2>1 DEF Written
<1>4. buffer \in Register /\ pending \in 0..(WordBits - 1)  BY EmptyFacts, WordSize DEF InitWriter
<1>5. wstate = "open"  BY DEF InitWriter
<1> QED  BY <1>1, <1>3, <1>4, <1>5 DEF WriterInv, Whole

\* The division that says how many words are full.
LEMMA FullWords ==
    ASSUME NEW count \in 0..RegisterBits, NEW words, words = count \div WordBits
    PROVE  words \in 0..2 /\ BitsIn(words) <= count /\ count < BitsIn(words + 1)
<1> DEFINE w == WordBits
<1>1. w \in Nat \ {0} /\ count \in 0..(2 * w)  BY Sizes
<1>2. BitsIn(words) = words * w /\ BitsIn(words + 1) = (words + 1) * w  BY DEF BitsIn
<1> HIDE DEF w
<1>3. words = count \div w  BY DEF w
<1>4. words \in 0..2 /\ words * w <= count /\ count < (words + 1) * w  BY ONLY <1>1, <1>3
<1> QED  BY <1>2, <1>4

\* What a drain leaves in the variables.
LEMMA DrainValues ==
    ASSUME NEW reg, NEW count, NEW words \in 0..2, NEW bytes \in {2 * words, 2 * words + 1},
           Drain(reg, count, bytes)
    PROVE  /\ disk' = AfterDrain(disk, reg, bytes)
           /\ buffer' = ShiftDown(reg, BitsIn(words))
           /\ pending' = count - BitsIn(words)
<1>1. bytes \div 2 = words  OBVIOUS
<1> QED  BY <1>1 DEF Drain, AfterDrain, Drained, BitsIn

\* write_bits, with and without an error.
LEMMA WriteBitsKeeps ==
    ASSUME WriterInv, WriteBits
    PROVE  WriterInv' /\ Whole'
<1>0. PICK n \in 1..MaxWidth : \E value \in [0..(n - 1) -> Bit] :
          Put(value, n) /\ written' = WithField(written, value, n)
  BY DEF WriteBits, FieldBits, WithField
<1>1. wstate = "open"  BY DEF WriteBits
<1>2. /\ buffer \in Register /\ pending \in 0..(WordBits - 1) /\ written \in Seq(Bit)
      /\ disk \in Seq(Byte) /\ Written(disk, buffer, pending, written)
  BY <1>1 DEF WriterInv
<1>3. PICK value \in [0..(n - 1) -> Bit] :
          Put(value, n) /\ written' = WithField(written, value, n)
  BY <1>0
<1> DEFINE reg == MergeAt(buffer, pending, value)
           count == pending + n
           words == count \div WordBits
<1>4. /\ reg \in Register /\ count \in 0..RegisterBits /\ written' \in Seq(Bit)
      /\ Written(disk, reg, count, written')
  BY <1>2, <1>3, MergeKeeps
<1>5. \/ Drain(reg, count, 2 * words) /\ wstate' = "open"
      \/ \E bytes \in 0..(2 * words - 1) : Drain(reg, count, bytes) /\ wstate' = "failed"
  BY <1>3 DEF Put
<1> HIDE DEF reg, count
<1>6. words \in 0..2 /\ BitsIn(words) <= count /\ count < BitsIn(words + 1)
  BY <1>4, FullWords
<1> HIDE DEF words
<1>7. CASE Drain(reg, count, 2 * words) /\ wstate' = "open"
  <2> DEFINE bytes == 2 * words
  <2>1. bytes \in {2 * words, 2 * words + 1} /\ Drain(reg, count, bytes)  BY <1>7
  <2> HIDE DEF bytes
  <2>2. /\ disk' = AfterDrain(disk, reg, bytes)
        /\ buffer' = ShiftDown(reg, BitsIn(words)) /\ pending' = count - BitsIn(words)
    BY ONLY <1>6, <2>1, DrainValues
  <2>3. disk' = AfterDrain(disk, reg, 2 * words)  BY <2>2 DEF bytes
  <2>4. /\ disk' \in Seq(Byte) /\ buffer' \in Register /\ pending' \in 0..(WordBits - 1)
        /\ Written(disk', buffer', pending', written')
    BY ONLY <1>2, <1>4, <1>6, <2>2, <2>3, DrainKeeps
  <2> QED  BY <1>4, <1>7, <2>4 DEF WriterInv, Whole
<1>8. CASE \E bytes \in 0..(2 * words - 1) : Drain(reg, count, bytes) /\ wstate' = "failed"
  <2>1. PICK bytes \in 0..(2 * words - 1) : Drain(reg, count, bytes) /\ wstate' = "failed"
    BY <1>8
  <2> DEFINE gone == bytes \div 2
  <2>2. gone \in 0..2 /\ bytes \in {2 * gone, 2 * gone + 1} /\ bytes \in 0..4 /\ gone <= words
    BY ONLY <1>6, <2>1
  <2> HIDE DEF gone
  <2>3. BitsIn(gone) <= count
    <3>1. BitsIn(gone) <= BitsIn(words) /\ BitsIn(gone) \in Nat /\ BitsIn(words) \in Nat
      <4>1. gone \in Nat /\ words \in Nat /\ gone <= words  BY ONLY <1>6, <2>2
      <4> QED  BY ONLY <4>1, BitsInFacts, Zenon
    <3> QED  BY ONLY <1>4, <1>6, <3>1
  <2>4. disk' = AfterDrain(disk, reg, bytes)  BY ONLY <2>1, <2>2, DrainValues
  <2>5. disk' \in Seq(Byte) /\ Begins(disk', written')
    <3>1. disk \in Seq(Byte)  BY <1>2
    <3>2. gone \in 0..2 /\ bytes \in {2 * gone, 2 * gone + 1} /\ bytes \in 0..4  BY <2>2
    <3> QED  BY ONLY <1>4, <2>3, <2>4, <3>1, <3>2, DrainPrefix
  <2>6. /\ disk' \in Seq(Byte) /\ BitsIn(Words(disk')) <= Len(written')
        /\ \A k \in 1..BitsIn(Words(disk')) : StreamBits(disk')[k] = written'[k]
    BY ONLY <2>5 DEF Begins
  <2>7. \A k \in 1..BitsIn(Words(disk')) : StreamBits(disk')[k] = ZeroExtended(k)'
    <3> SUFFICES ASSUME NEW k \in 1..BitsIn(Words(disk'))
                 PROVE  StreamBits(disk')[k] = ZeroExtended(k)'
      OBVIOUS
    <3>1. BitsIn(Words(disk')) \in Nat /\ Len(written') \in Nat  BY <1>4, <2>6, StreamFacts
    <3>2. k <= Len(written')  BY <2>6, <3>1
    <3> QED  BY <2>6, <3>2 DEF ZeroExtended
  <2> QED  BY <1>4, <2>1, <2>6, <2>7 DEF WriterInv, Whole
<1> QED  BY <1>5, <1>7, <1>8

\* Zeros up to the next word are pending bits like any others.
LEMMA PadKeeps ==
    ASSUME NEW d \in Seq(Byte), NEW reg \in Register, NEW count \in 0..(WordBits - 1),
           NEW h \in Seq(Bit), Written(d, reg, count, h),
           NEW h2, h2 = Padded(h, WordBits - count)
    PROVE  /\ h2 \in Seq(Bit) /\ Written(d, reg, WordBits, h2)
           /\ Len(h2) = BitsIn(Words(d)) + WordBits
           /\ \A k \in 1..Len(h2) : h2[k] = IF k <= Len(h) THEN h[k] ELSE 0
<1> DEFINE n == WordBits - count
           tail == Zeros(n)
           base == BitsIn(Words(d))
<1>1. WordBits \in Nat \ {0} /\ RegisterBits = 2 * WordBits /\ n \in 1..WordBits /\ count \in Nat
  BY Sizes
<1> HIDE DEF n
<1>2. tail \in Seq(Bit) /\ Len(tail) = n /\ \A i \in 1..n : tail[i] = 0
  <2>1. n \in Nat /\ 0 \in Bit  BY <1>1 DEF Bit
  <2> QED  BY ONLY <2>1 DEF Zeros
<1>3. base \in Nat /\ Len(h) \in Nat /\ Len(h) = base + count  BY StreamFacts DEF Written
<1>4. h2 = h \o tail  BY DEF n, Padded
<1> HIDE DEF tail, base
<1>5. /\ h2 \in Seq(Bit) /\ Len(h2) = Len(h) + n
      /\ \A i \in 1..Len(h) : h2[i] = h[i]
      /\ \A i \in 1..n : h2[Len(h) + i] = 0
  <2>1. /\ h \o tail \in Seq(Bit) /\ Len(h \o tail) = Len(h) + Len(tail)
        /\ \A i \in 1..Len(h) : (h \o tail)[i] = h[i]
        /\ \A i \in 1..Len(tail) : (h \o tail)[Len(h) + i] = tail[i]
    <3>1. tail \in Seq(Bit)  BY <1>2
    <3> QED  BY ONLY <3>1, Appended
  <2> QED  BY ONLY <1>2, <1>4, <2>1
<1>6. Len(h2) = base + WordBits  BY ONLY <1>1, <1>3, <1>5 DEF n
<1>7. \A k \in 1..Len(h2) : h2[k] = IF k <= Len(h) THEN h[k] ELSE 0
  <2> SUFFICES ASSUME NEW k \in 1..Len(h2)  PROVE h2[k] = IF k <= Len(h) THEN h[k] ELSE 0
    OBVIOUS
  <2>1. CASE k <= Len(h)
    <3>1. k \in 1..Len(h)  BY <1>3, <2>1
    <3> QED  BY <1>5, <3>1, <2>1
  <2>2. CASE ~(k <= Len(h))
    <3>1. k - Len(h) \in 1..n /\ Len(h) + (k - Len(h)) = k  BY <1>1, <1>3, <1>5, <2>2
    <3>2. h2[Len(h) + (k - Len(h))] = 0  BY <1>5, <3>1
    <3> QED  BY <3>1, <3>2, <2>2
  <2> QED  BY <2>1, <2>2
<1>8. \A j \in 0..(WordBits - 1) : reg[j] = h2[base + j + 1]
  <2> SUFFICES ASSUME NEW j \in 0..(WordBits - 1)  PROVE reg[j] = h2[base + j + 1]  OBVIOUS
  <2>0. base + j + 1 \in 1..Len(h2)  BY ONLY <1>1, <1>3, <1>6
  <2>1. CASE j < count
    <3>1. j \in 0..(count - 1) /\ base + j + 1 <= Len(h)  BY <1>1, <1>3, <2>1
    <3>2. reg[j] = h[base + j + 1]  BY <3>1 DEF Written, base
    <3> QED  BY <1>7, <2>0, <3>1, <3>2
  <2>2. CASE ~(j < count)
    <3>1. j \in count..(RegisterBits - 1) /\ ~(base + j + 1 <= Len(h))  BY <1>1, <1>3, <2>2
    <3>2. reg[j] = 0  BY <3>1 DEF Written
    <3> QED  BY <1>7, <2>0, <3>1, <3>2
  <2> QED  BY <2>1, <2>2
<1>9. \A j \in WordBits..(RegisterBits - 1) : reg[j] = 0
  <2> SUFFICES ASSUME NEW j \in WordBits..(RegisterBits - 1)  PROVE reg[j] = 0  OBVIOUS
  <2>1. j \in count..(RegisterBits - 1)  BY <1>1
  <2> QED  BY <2>1 DEF Written
<1>10. \A k \in 1..base : StreamBits(d)[k] = h2[k]
  <2> SUFFICES ASSUME NEW k \in 1..base  PROVE StreamBits(d)[k] = h2[k]  OBVIOUS
  <2>1. k \in 1..Len(h)  BY <1>1, <1>3
  <2>2. StreamBits(d)[k] = h[k]  BY DEF Written, base
  <2> QED  BY <1>5, <2>1, <2>2
<1>11. Len(d) % 2 = 0  BY DEF Written
<1>12. Written(d, reg, WordBits, h2)
  BY ONLY <1>6, <1>8, <1>9, <1>10, <1>11 DEF Written, base
<1> QED  BY <1>5, <1>6, <1>7, <1>12 DEF base

\* finish, with and without an error.
LEMMA FinishKeeps ==
    ASSUME WriterInv, Finish
    PROVE  WriterInv' /\ Whole'
<1>1. wstate = "open" /\ written' = written  BY DEF Finish
<1>2. /\ buffer \in Register /\ pending \in 0..(WordBits - 1) /\ written \in Seq(Bit)
      /\ disk \in Seq(Byte) /\ Written(disk, buffer, pending, written)
  BY <1>1 DEF WriterInv
<1>3. WordBits \in Nat \ {0} /\ RegisterBits = 2 * WordBits  BY Sizes
<1>4. BitsIn(Words(disk)) \in Nat /\ Len(written) \in Nat
      /\ Len(written) = BitsIn(Words(disk)) + pending
  BY <1>2, StreamFacts DEF Written
<1>5. CASE pending = 0 /\ wstate' = "finished" /\ UNCHANGED <<buffer, pending, disk>>
  <2>1. disk' = disk  BY <1>5
  <2>2. \A k \in 1..BitsIn(Words(disk)) : StreamBits(disk)[k] = ZeroExtended(k)
    <3> SUFFICES ASSUME NEW k \in 1..BitsIn(Words(disk))
                 PROVE  StreamBits(disk)[k] = ZeroExtended(k)
      OBVIOUS
    <3>1. k <= Len(written)  BY <1>4, <1>5
    <3>2. StreamBits(disk)[k] = written[k]  BY <1>2 DEF Written
    <3> QED  BY <3>1, <3>2 DEF ZeroExtended
  <2>3. Len(disk) % 2 = 0  BY <1>2 DEF Written
  <2>4. BitsIn(Words(disk)) - Len(written) = 0  BY <1>4, <1>5
  <2>5. 0 \in 0..(WordBits - 1)  BY <1>3
  <2> QED  BY <1>1, <1>2, <1>5, <2>1, <2>2, <2>3, <2>4, <2>5 DEF WriterInv, Whole, ZeroExtended
<1>6. ASSUME pending > 0, NEW words \in 0..1, NEW bytes \in {2 * words, 2 * words + 1},
             bytes \in 0..2, Drain(buffer, WordBits, bytes),
             wstate' \in {"finished", "failed"}, wstate' = "finished" => words = 1
      PROVE  WriterInv' /\ Whole'
  <2> DEFINE h2 == Padded(written, WordBits - pending)
             count == WordBits
  <2>1. /\ h2 \in Seq(Bit) /\ Written(disk, buffer, count, h2)
        /\ Len(h2) = BitsIn(Words(disk)) + WordBits
        /\ \A k \in 1..Len(h2) : h2[k] = IF k <= Len(written) THEN written[k] ELSE 0
    BY <1>2, PadKeeps
  <2>2. count \in 0..RegisterBits /\ BitsIn(words) <= count /\ words \in 0..2 /\ bytes \in 0..4
    <3>1. BitsIn(0) = 0 /\ BitsIn(1) = WordBits  BY BitsInFacts
    <3> QED  BY ONLY <1>3, <1>6, <3>1
  <2>3. bytes \in {2 * words, 2 * words + 1} /\ Drain(buffer, count, bytes)  BY <1>6
  <2> HIDE DEF h2, count
  <2>4. disk' = AfterDrain(disk, buffer, bytes)  BY ONLY <2>2, <2>3, DrainValues
  <2>5. /\ disk' \in Seq(Byte) /\ Len(disk') = Len(disk) + bytes
        /\ BitsIn(Words(disk')) = BitsIn(Words(disk)) + BitsIn(words)
        /\ Begins(disk', h2)
    BY ONLY <1>2, <2>1, <2>2, <2>3, <2>4, DrainPrefix
  <2>6. /\ BitsIn(Words(disk')) <= Len(h2)
        /\ \A k \in 1..BitsIn(Words(disk')) : StreamBits(disk')[k] = h2[k]
    BY ONLY <2>5 DEF Begins
  <2>7. \A k \in 1..BitsIn(Words(disk')) : StreamBits(disk')[k] = ZeroExtended(k)'
    <3> SUFFICES ASSUME NEW k \in 1..BitsIn(Words(disk'))
                 PROVE  StreamBits(disk')[k] = ZeroExtended(k)'
      OBVIOUS
    <3>1. BitsIn(Words(disk')) \in Nat /\ Len(h2) \in Nat  BY <2>1, <2>5, StreamFacts
    <3>2. k \in 1..Len(h2)  BY ONLY <2>6, <3>1, k \in 1..BitsIn(Words(disk'))
    <3>3. h2[k] = ZeroExtended(k)'  BY <1>1, <2>1, <3>2 DEF ZeroExtended
    <3> QED  BY <2>6, <3>3
  <2>8. ASSUME wstate' = "finished"
        PROVE  /\ Len(disk') % 2 = 0
               /\ BitsIn(Words(disk')) - Len(written') \in 0..(WordBits - 1)
    <3>1. words = 1 /\ bytes = 2  BY <1>6, <2>8
    <3>2. BitsIn(Words(disk')) - Len(written') = WordBits - pending
      <4>1. BitsIn(1) = WordBits  BY BitsInFacts
      <4>2. BitsIn(Words(disk')) = BitsIn(Words(disk)) + WordBits  BY ONLY <2>5, <3>1, <4>1
      <4> QED  BY ONLY <1>1, <1>2, <1>3, <1>4, <4>2
    <3>3. Len(disk) % 2 = 0 /\ Len(disk) \in Nat  BY <1>2 DEF Written
    <3>4. Len(disk') % 2 = 0  BY ONLY <2>5, <3>1, <3>3
    <3>5. WordBits - pending \in 0..(WordBits - 1)  BY ONLY <1>2, <1>3, pending > 0
    <3> QED  BY ONLY <3>2, <3>4, <3>5
  <2>9. wstate' # "open" /\ wstate' \in {"open", "finished", "failed"}  BY <1>6
  <2> QED  BY <1>1, <1>2, <2>5, <2>7, <2>8, <2>9 DEF WriterInv, Whole
<1>7. CASE pending > 0 /\ Drain(buffer, WordBits, 2) /\ wstate' = "finished"
  BY <1>6, <1>7, 1 \in 0..1, 2 \in {2 * 1, 2 * 1 + 1}, 2 \in 0..2
<1>8. CASE pending > 0 /\ \E bytes \in 0..1 : Drain(buffer, WordBits, bytes) /\ wstate' = "failed"
  <2>1. PICK bytes \in 0..1 : Drain(buffer, WordBits, bytes) /\ wstate' = "failed"  BY <1>8
  <2> QED  BY <1>6, <1>8, <2>1, 0 \in 0..1, bytes \in {2 * 0, 2 * 0 + 1}, bytes \in 0..2
<1> QED  BY <1>5, <1>7, <1>8 DEF Finish

\* A file that is cut loses bits at its end only.
LEMMA CutKeeps ==
    ASSUME WriterInv, Open
    PROVE  WriterInv'
<1>1. /\ wstate # "open" /\ wstate' = wstate /\ written' = written /\ disk \in Seq(Byte)
      /\ written \in Seq(Bit) /\ wstate \in {"open", "finished", "failed"}
  BY DEF Open, WriterInv
<1>2. PICK n \in 0..Len(disk) : disk' = SubSeq(disk, 1, n)  BY DEF Open
<1>3. disk' \in Seq(Byte) /\ Len(disk') <= Len(disk) /\ \A i \in 1..Len(disk') : disk[i] = disk'[i]
  <2>1. n <= Len(disk) /\ n \in Nat /\ Len(disk) \in Nat  BY <1>1
  <2>2. Len(SubSeq(disk, 1, n)) = n  BY ONLY <1>1, <2>1
  <2>3. SubSeq(disk, 1, n) \in Seq(Byte)  BY ONLY <1>1, <2>1
  <2>4. \A i \in 1..n : SubSeq(disk, 1, n)[i] = disk[i]  BY ONLY <1>1, <2>1
  <2> QED  BY ONLY <1>2, <2>1, <2>2, <2>3, <2>4
<1>4. /\ BitsIn(Words(disk')) <= BitsIn(Words(disk))
      /\ \A k \in 1..BitsIn(Words(disk')) : StreamBits(disk)[k] = StreamBits(disk')[k]
  BY ONLY <1>1, <1>3, StreamPrefix
<1>5. BitsIn(Words(disk')) \in Nat /\ BitsIn(Words(disk)) \in Nat  BY <1>1, <1>3, StreamFacts
<1>6. \A k \in 1..BitsIn(Words(disk')) : StreamBits(disk')[k] = ZeroExtended(k)'
  <2> SUFFICES ASSUME NEW k \in 1..BitsIn(Words(disk'))
               PROVE  StreamBits(disk')[k] = ZeroExtended(k)'
    OBVIOUS
  <2>1. k \in 1..BitsIn(Words(disk))  BY <1>4, <1>5
  <2>2. StreamBits(disk)[k] = ZeroExtended(k)  BY <1>1, <2>1 DEF WriterInv
  <2>3. ZeroExtended(k)' = ZeroExtended(k)  BY <1>1 DEF ZeroExtended
  <2> QED  BY <1>4, <2>2, <2>3
<1> QED  BY <1>1, <1>3, <1>6 DEF WriterInv

-----------------------------------------------------------------------------
(* What the reader's steps preserve *)

\* What the reader has read of d, and whether it can go on.
ReadSoFar(d, reg, count, got, at, ended) ==
    /\ Loaded(d, reg, count, got, at \div 2)
    /\ ended => at = Len(d)
    /\ ~ended => at % 2 = 0

ReaderTypes ==
    /\ control \in Register /\ bitCount \in 0..(RegisterBits - 1) /\ eof \in BOOLEAN
    /\ pos \in 0..Len(disk) /\ consumed \in Seq(Bit) /\ asked \in Nat /\ skipped \in BOOLEAN
    /\ peeked.at \in Nat /\ peeked.bits \in Seq(Bit)

\* Until an I/O error swallows a byte of a word, what was consumed and what
\* is buffered is the file as far as it was read; the latest answer and the
\* latest lookahead told the truth.
ReaderInv ==
    /\ ReaderTypes
    /\ ~skipped =>
          /\ ReadSoFar(disk, control, bitCount, consumed, pos, eof)
          /\ outcome = "truncated" => Len(consumed) + asked > BitsIn(Words(disk))
          /\ \A i \in 1..Len(peeked.bits) :
                peeked.bits[i] = IF peeked.at + i <= BitsIn(Words(disk))
                                 THEN StreamBits(disk)[peeked.at + i] ELSE 0

\* A new reader has read nothing.
LEMMA ReaderStarts ==
    ASSUME InitReader, disk \in Seq(Byte)
    PROVE  ReaderInv
<1>1. /\ control = EmptyRegister /\ bitCount = 0 /\ eof = FALSE /\ pos = 0 /\ consumed = << >>
      /\ peeked.at = 0 /\ peeked.bits = << >> /\ outcome = "none" /\ asked = 0 /\ skipped = FALSE
  BY DEF InitReader
<1>2. Len(disk) \in Nat /\ RegisterBits \in Nat \ {0}  BY Sizes
<1>3. ReaderTypes
  <2>1. consumed \in Seq(Bit) /\ peeked.bits \in Seq(Bit)  BY <1>1
  <2>2. pos \in 0..Len(disk) /\ bitCount \in 0..(RegisterBits - 1)  BY ONLY <1>1, <1>2
  <2>3. control \in Register  BY <1>1, EmptyFacts
  <2>4. eof \in BOOLEAN /\ skipped \in BOOLEAN  BY <1>1, Zenon
  <2>5. asked \in Nat /\ peeked.at \in Nat  BY <1>1
  <2> QED  BY ONLY <2>1, <2>2, <2>3, <2>4, <2>5 DEF ReaderTypes
<1>4. Loaded(disk, control, bitCount, consumed, pos \div 2)
  <2>1. pos \div 2 = 0 /\ BitsIn(0) = 0  BY <1>1, BitsInFacts
  <2>2. Len(consumed) = 0  BY <1>1
  <2>3. \A j \in 0..(RegisterBits - 1) : control[j] = 0  BY <1>1, EmptyFacts
  <2> QED  BY ONLY <1>1, <2>1, <2>2, <2>3 DEF Loaded
<1>5. ReadSoFar(disk, control, bitCount, consumed, pos, eof)  BY <1>1, <1>4 DEF ReadSoFar
<1>6. Len(peeked.bits) = 0  BY <1>1
<1> QED  BY <1>1, <1>3, <1>5, <1>6 DEF ReaderInv

\* A word is or-ed in above the buffered bits.
LEMMA LoadKeeps ==
    ASSUME disk \in Seq(Byte), control \in Register, bitCount \in 0..(WordBits - 1),
           pos \in 0..Len(disk), Unread >= 2
    PROVE  /\ LoadWord \in Register
           /\ pos + 2 \in 0..Len(disk)
           /\ bitCount + WordBits \in 0..(RegisterBits - 1)
           /\ consumed \in Seq(Bit) /\ pos % 2 = 0
                /\ Loaded(disk, control, bitCount, consumed, pos \div 2)
              => Loaded(disk, LoadWord, bitCount + WordBits, consumed, (pos + 2) \div 2)
<1> DEFINE word == LoadWord
<1>1. /\ WordBits \in Nat \ {0} /\ RegisterBits = 2 * WordBits
      /\ ByteBits \in Nat \ {0} /\ WordBits = 2 * ByteBits
  BY Sizes
<1>2. pos \in Nat /\ Len(disk) \in Nat /\ pos + 2 <= Len(disk)  BY DEF Unread
<1>3. disk[pos + 1] \in Byte /\ disk[pos + 2] \in Byte  BY <1>2
<1>4. \A i \in 0..(RegisterBits - 1) :
          word[i] = IF i - bitCount \in 0..(ByteBits - 1) THEN disk[pos + 2][i - bitCount]
                    ELSE IF i - bitCount \in ByteBits..(WordBits - 1)
                         THEN disk[pos + 1][i - bitCount - ByteBits]
                         ELSE control[i]
  BY DEF LoadWord
<1>5. word = [i \in 0..(RegisterBits - 1) |-> word[i]]  BY DEF LoadWord
<1> HIDE DEF word
<1>6. word \in Register
  <2>1. \A i \in 0..(RegisterBits - 1) : word[i] \in Bit
    <3> SUFFICES ASSUME NEW i \in 0..(RegisterBits - 1)  PROVE word[i] \in Bit  OBVIOUS
    <3>1. CASE i - bitCount \in 0..(ByteBits - 1)  BY <1>3, <1>4, <3>1 DEF Byte
    <3>2. CASE ~(i - bitCount \in 0..(ByteBits - 1)) /\ i - bitCount \in ByteBits..(WordBits - 1)
      <4>1. i - bitCount - ByteBits \in 0..(ByteBits - 1)  BY <1>1, <3>2
      <4> QED  BY <1>3, <1>4, <3>2, <4>1 DEF Byte
    <3>3. CASE ~(i - bitCount \in 0..(ByteBits - 1)) /\ ~(i - bitCount \in ByteBits..(WordBits - 1))
      BY <1>4, <3>3 DEF Register
    <3> QED  BY <3>1, <3>2, <3>3
  <2> QED  BY <1>5, <2>1 DEF Register
<1>7. pos + 2 \in 0..Len(disk) /\ bitCount + WordBits \in 0..(RegisterBits - 1)
  BY <1>1, <1>2
<1>8. ASSUME consumed \in Seq(Bit), pos % 2 = 0,
             Loaded(disk, control, bitCount, consumed, pos \div 2)
      PROVE  Loaded(disk, word, bitCount + WordBits, consumed, (pos + 2) \div 2)
  <2> DEFINE q == pos \div 2
             got == Len(consumed)
  <2>1. q \in Nat /\ pos = 2 * q /\ (pos + 2) \div 2 = q + 1 /\ q \in 0..(Words(disk) - 1)
    BY ONLY <1>2, <1>8 DEF Words
  <2>2. BitsIn(q + 1) = BitsIn(q) + WordBits /\ BitsIn(q) \in Nat  BY ONLY <2>1, BitsInFacts
  <2>3. got \in Nat /\ got + bitCount = BitsIn(q)  BY <1>8 DEF Loaded
  <2>4. /\ \A k \in 1..got : consumed[k] = StreamBits(disk)[k]
        /\ \A j \in 0..(bitCount - 1) : control[j] = StreamBits(disk)[got + j + 1]
        /\ \A j \in bitCount..(RegisterBits - 1) : control[j] = 0
    BY <1>8 DEF Loaded
  <2> HIDE DEF q, got
  <2>5. \A j \in 0..((bitCount + WordBits) - 1) : word[j] = StreamBits(disk)[got + j + 1]
    <3> SUFFICES ASSUME NEW j \in 0..((bitCount + WordBits) - 1)
                 PROVE  word[j] = StreamBits(disk)[got + j + 1]
      OBVIOUS
    <3>1. j \in 0..(RegisterBits - 1)  BY <1>1
    <3>2. CASE j < bitCount
      <4>1. j \in 0..(bitCount - 1) /\ ~(j - bitCount \in 0..(ByteBits - 1))
            /\ ~(j - bitCount \in ByteBits..(WordBits - 1))
        BY <1>1, <3>2
      <4> QED  BY <1>4, <2>4, <3>1, <4>1
    <3>3. CASE ~(j < bitCount)
      <4> DEFINE b == j - bitCount
      <4>1. b \in 0..(WordBits - 1) /\ BitsIn(q) + b + 1 = got + j + 1
        BY <1>1, <2>2, <2>3, <3>3
      <4>2. word[j] = IF b \in 0..(ByteBits - 1) THEN disk[pos + 2][b]
                      ELSE IF b \in ByteBits..(WordBits - 1) THEN disk[pos + 1][b - ByteBits]
                           ELSE control[j]
        BY <1>4, <3>1
      <4> HIDE DEF b
      <4>3. StreamBits(disk)[BitsIn(q) + b + 1] =
                IF b < ByteBits THEN disk[2 * q + 2][b] ELSE disk[2 * q + 1][b - ByteBits]
        BY <2>1, <4>1, BitOfWord
      <4>4. CASE b < ByteBits
        <5>1. b \in 0..(ByteBits - 1)  BY ONLY <1>1, <4>1, <4>4
        <5> QED  BY ONLY <2>1, <4>1, <4>2, <4>3, <4>4, <5>1
      <4>5. CASE ~(b < ByteBits)
        <5>1. b \notin 0..(ByteBits - 1) /\ b \in ByteBits..(WordBits - 1)
          BY ONLY <1>1, <4>1, <4>5
        <5> QED  BY ONLY <2>1, <4>1, <4>2, <4>3, <4>5, <5>1
      <4> QED  BY <4>4, <4>5
    <3> QED  BY <3>2, <3>3
  <2>6. \A j \in (bitCount + WordBits)..(RegisterBits - 1) : word[j] = 0
    <3> SUFFICES ASSUME NEW j \in (bitCount + WordBits)..(RegisterBits - 1)  PROVE word[j] = 0
      OBVIOUS
    <3>1. j \in 0..(RegisterBits - 1) /\ j \in bitCount..(RegisterBits - 1)
          /\ ~(j - bitCount \in 0..(ByteBits - 1)) /\ ~(j - bitCount \in ByteBits..(WordBits - 1))
      BY <1>1
    <3> QED  BY <1>4, <2>4, <3>1
  <2>7. got + (bitCount + WordBits) = BitsIn(q + 1)  BY <1>1, <2>2, <2>3
  <2>8. Loaded(disk, word, bitCount + WordBits, consumed, q + 1)
    BY ONLY <2>4, <2>5, <2>6, <2>7 DEF Loaded, got
  <2> QED  BY <2>1, <2>8
<1> QED  BY <1>6, <1>7, <1>8 DEF word

\* What a refill for n bits may leave behind.
Refilled(r, n) ==
    /\ r.control \in Register /\ r.bitCount \in 0..(RegisterBits - 1) /\ r.eof \in BOOLEAN
    /\ r.pos \in 0..Len(disk) /\ r.skipped \in BOOLEAN
    /\ skipped => r.skipped
    /\ ~r.skipped => ReadSoFar(disk, r.control, r.bitCount, consumed, r.pos, r.eof)
    /\ r.out \in {"ok", "io", "truncated"}
    /\ r.out = "ok" /\ r.bitCount < n => r.eof
    /\ r.out = "truncated" => r.eof /\ r.bitCount < n

\* ensure_bits, whatever the inner reader answers.
LEMMA EnsuredIsRefilled ==
    ASSUME ReaderInv, disk \in Seq(Byte), NEW n \in 1..WordBits, NEW r \in Ensured(n)
    PROVE  Refilled(r, n)
<1>1. /\ WordBits \in Nat \ {0} /\ RegisterBits = 2 * WordBits  BY Sizes
<1>2. /\ control \in Register /\ bitCount \in 0..(RegisterBits - 1) /\ eof \in BOOLEAN
      /\ pos \in 0..Len(disk) /\ consumed \in Seq(Bit) /\ skipped \in BOOLEAN
  BY DEF ReaderInv, ReaderTypes
<1>3. ~skipped => ReadSoFar(disk, control, bitCount, consumed, pos, eof)  BY DEF ReaderInv
<1>4. CASE bitCount >= n \/ eof
  <2>1. r = Buffered  BY <1>4 DEF Ensured
  <2>2. /\ r.control = control /\ r.bitCount = bitCount /\ r.eof = eof /\ r.pos = pos
        /\ r.skipped = skipped /\ r.out = "ok"
    BY <2>1 DEF Buffered
  <2>3. bitCount < n => eof  BY ONLY <1>2, <1>4, n \in 1..WordBits
  <2> QED  BY ONLY <1>2, <1>3, <2>2, <2>3 DEF Refilled
<1>5. CASE ~(bitCount >= n \/ eof)
  <2>1. bitCount \in 0..(WordBits - 1) /\ bitCount < n /\ ~eof  BY <1>1, <1>2, <1>5
  <2>2. r \in Refills  BY <1>5 DEF Ensured
  <2>3. Len(disk) \in Nat /\ pos \in Nat /\ pos <= Len(disk) /\ Unread = Len(disk) - pos
    BY <1>2 DEF Unread
  <2>4. ~skipped => pos % 2 = 0 /\ Loaded(disk, control, bitCount, consumed, pos \div 2)
    BY <1>3, <2>1 DEF ReadSoFar
  <2>5. CASE \E bytes \in 0..(IF Unread >= 1 THEN 1 ELSE 0) :
                 r = [Buffered EXCEPT !.out = "io", !.pos = pos + bytes,
                                      !.skipped = skipped \/ bytes = 1]
    <3>1. PICK bytes \in 0..(IF Unread >= 1 THEN 1 ELSE 0) :
                 r = [Buffered EXCEPT !.out = "io", !.pos = pos + bytes,
                                      !.skipped = skipped \/ bytes = 1]
      BY <2>5
    <3>2. /\ r.control = control /\ r.bitCount = bitCount /\ r.eof = eof
          /\ r.pos = pos + bytes /\ r.skipped = (skipped \/ bytes = 1) /\ r.out = "io"
      BY <3>1 DEF Buffered
    <3>3. pos + bytes \in 0..Len(disk) /\ bytes \in {0, 1}  BY ONLY <2>3, <3>1
    <3>4. ASSUME ~r.skipped  PROVE ~skipped /\ r.pos = pos
      <4>1. ~skipped /\ bytes # 1  BY ONLY <3>2, <3>4, Zenon
      <4> QED  BY ONLY <2>3, <3>2, <3>3, <4>1
    <3>5. r.skipped \in BOOLEAN /\ (skipped => r.skipped)  BY ONLY <3>2
    <3>6. ~r.skipped => ReadSoFar(disk, r.control, r.bitCount, consumed, r.pos, r.eof)
      BY ONLY <1>3, <3>2, <3>4
    <3> QED  BY ONLY <1>2, <3>2, <3>3, <3>5, <3>6 DEF Refilled
  <2>6. CASE Unread >= 2 /\ r = [Buffered EXCEPT !.control = LoadWord,
                                                 !.bitCount = @ + WordBits, !.pos = @ + 2]
    <3>1. /\ r.control = LoadWord /\ r.bitCount = bitCount + WordBits /\ r.eof = eof
          /\ r.pos = pos + 2 /\ r.skipped = skipped /\ r.out = "ok"
      BY <2>6 DEF Buffered
    <3>2. /\ LoadWord \in Register /\ pos + 2 \in 0..Len(disk)
          /\ bitCount + WordBits \in 0..(RegisterBits - 1)
          /\ consumed \in Seq(Bit) /\ pos % 2 = 0
               /\ Loaded(disk, control, bitCount, consumed, pos \div 2)
             => Loaded(disk, LoadWord, bitCount + WordBits, consumed, (pos + 2) \div 2)
      BY <1>2, <2>1, <2>6, LoadKeeps
    <3>3. pos % 2 = 0 => (pos + 2) % 2 = 0  BY ONLY <2>3
    <3>4. ~r.skipped => ReadSoFar(disk, r.control, r.bitCount, consumed, r.pos, r.eof)
      BY ONLY <1>2, <2>1, <2>4, <3>1, <3>2, <3>3 DEF ReadSoFar
    <3>5. ~(r.bitCount < n)  BY ONLY <1>1, <2>1, <3>1, n \in 1..WordBits
    <3> QED  BY ONLY <1>2, <3>1, <3>2, <3>4, <3>5 DEF Refilled
  <2>7. CASE ~(Unread >= 2) /\ r = [Buffered EXCEPT !.eof = TRUE, !.pos = Len(disk),
                                       !.out = IF Unread = 1 THEN "truncated" ELSE "ok"]
    <3>1. /\ r.control = control /\ r.bitCount = bitCount /\ r.eof = TRUE
          /\ r.pos = Len(disk) /\ r.skipped = skipped /\ r.out \in {"ok", "truncated"}
      BY <2>7 DEF Buffered
    <3>2. pos % 2 = 0 => Len(disk) \div 2 = pos \div 2
      <4>1. Len(disk) = pos \/ Len(disk) = pos + 1  BY ONLY <2>3, <2>7
      <4> QED  BY ONLY <2>3, <4>1
    <3>3. ~r.skipped => ReadSoFar(disk, r.control, r.bitCount, consumed, r.pos, r.eof)
      BY ONLY <2>4, <3>1, <3>2 DEF ReadSoFar
    <3>4. Len(disk) \in 0..Len(disk)  BY ONLY <2>3
    <3> QED  BY ONLY <1>2, <2>1, <3>1, <3>3, <3>4 DEF Refilled
  <2> QED  BY <2>2, <2>5, <2>6, <2>7 DEF Refills
<1> QED  BY <1>4, <1>5

\* A shift brings zeros in from above.
LEMMA ShiftFacts ==
    ASSUME NEW reg \in Register, NEW n \in Nat
    PROVE  /\ ShiftDown(reg, n) \in Register
           /\ \A i \in 0..(RegisterBits - 1) :
                 ShiftDown(reg, n)[i] = IF i + n < RegisterBits THEN reg[i + n] ELSE 0
<1> DEFINE s == ShiftDown(reg, n)
<1>1. RegisterBits \in Nat \ {0}  BY Sizes
<1>2. \A i \in 0..(RegisterBits - 1) :
          s[i] = IF i + n < RegisterBits THEN reg[i + n] ELSE 0
  BY DEF ShiftDown
<1>3. s = [i \in 0..(RegisterBits - 1) |-> s[i]]  BY DEF ShiftDown
<1> HIDE DEF s
<1>4. \A i \in 0..(RegisterBits - 1) : s[i] \in Bit
  <2> SUFFICES ASSUME NEW i \in 0..(RegisterBits - 1)  PROVE s[i] \in Bit  OBVIOUS
  <2>1. i + n < RegisterBits => i + n \in 0..(RegisterBits - 1)  BY <1>1
  <2> QED  BY <1>2, <2>1 DEF Register, Bit
<1>5. s \in Register  BY <1>3, <1>4 DEF Register
<1> QED  BY <1>2, <1>5 DEF s

\* The low bits of a register as a sequence.
LEMMA LowBitsFacts ==
    ASSUME NEW reg \in Register, NEW n \in 0..RegisterBits
    PROVE  /\ LowBits(reg, n) \in Seq(Bit) /\ Len(LowBits(reg, n)) = n
           /\ \A i \in 1..n : LowBits(reg, n)[i] = reg[i - 1]
<1>1. RegisterBits \in Nat \ {0}  BY Sizes
<1>2. \A i \in 1..n : reg[i - 1] \in Bit
  <2> SUFFICES ASSUME NEW i \in 1..n  PROVE reg[i - 1] \in Bit  OBVIOUS
  <2>1. i - 1 \in 0..(RegisterBits - 1)  BY <1>1
  <2> QED  BY <2>1 DEF Register
<1> QED  BY <1>2 DEF LowBits

\* Bits that are handed out move from the register to what was consumed.
Handed(got, reg, n) == got \o LowBits(reg, n)

\* A refilled register stays in step with the stream when bits leave it.
LEMMA HandOut ==
    ASSUME NEW got \in Seq(Bit), NEW reg \in Register, NEW count \in 0..(RegisterBits - 1),
           NEW n \in 0..count, NEW d \in Seq(Byte),
           NEW got2, got2 = Handed(got, reg, n)
    PROVE  /\ got2 \in Seq(Bit) /\ Len(got2) = Len(got) + n
           /\ ShiftDown(reg, n) \in Register /\ count - n \in 0..(RegisterBits - 1)
           /\ \A w \in Nat : Loaded(d, reg, count, got, w)
                                => Loaded(d, ShiftDown(reg, n), count - n, got2, w)
<1> DEFINE tail == LowBits(reg, n)
           s == ShiftDown(reg, n)
<1>1. RegisterBits \in Nat \ {0} /\ n \in Nat /\ n \in 0..RegisterBits /\ Len(got) \in Nat
      /\ count \in Nat /\ n <= count /\ count < RegisterBits
  BY Sizes
<1>2. tail \in Seq(Bit) /\ Len(tail) = n /\ \A i \in 1..n : tail[i] = reg[i - 1]
  BY <1>1, LowBitsFacts
<1>3. /\ s \in Register
      /\ \A i \in 0..(RegisterBits - 1) :
            s[i] = IF i + n < RegisterBits THEN reg[i + n] ELSE 0
  BY <1>1, ShiftFacts
<1>4. got2 = got \o tail  BY DEF Handed
<1> HIDE DEF tail, s
<1>5. /\ got2 \in Seq(Bit) /\ Len(got2) = Len(got) + n
      /\ \A i \in 1..Len(got) : got2[i] = got[i]
      /\ \A i \in 1..n : got2[Len(got) + i] = reg[i - 1]
  <2>1. /\ got \o tail \in Seq(Bit) /\ Len(got \o tail) = Len(got) + Len(tail)
        /\ \A i \in 1..Len(got) : (got \o tail)[i] = got[i]
        /\ \A i \in 1..Len(tail) : (got \o tail)[Len(got) + i] = tail[i]
    <3>1. tail \in Seq(Bit)  BY <1>2
    <3> QED  BY ONLY <3>1, got \in Seq(Bit), Appended
  <2> QED  BY ONLY <1>2, <1>4, <2>1
<1>6. count - n \in 0..(RegisterBits - 1)  BY <1>1
<1>7. ASSUME NEW w \in Nat, Loaded(d, reg, count, got, w)
      PROVE  Loaded(d, s, count - n, got2, w)
  <2>1. /\ Len(got) + count = BitsIn(w)
        /\ \A k \in 1..Len(got) : got[k] = StreamBits(d)[k]
        /\ \A j \in 0..(count - 1) : reg[j] = StreamBits(d)[Len(got) + j + 1]
        /\ \A j \in count..(RegisterBits - 1) : reg[j] = 0
    BY <1>7 DEF Loaded
  <2>2. Len(got2) + (count - n) = BitsIn(w)  BY ONLY <1>1, <1>5, <2>1
  <2>3. \A k \in 1..Len(got2) : got2[k] = StreamBits(d)[k]
    <3> SUFFICES ASSUME NEW k \in 1..Len(got2)  PROVE got2[k] = StreamBits(d)[k]  OBVIOUS
    <3>1. CASE k <= Len(got)
      <4>1. k \in 1..Len(got)  BY <1>1, <3>1
      <4> QED  BY <1>5, <2>1, <4>1
    <3>2. CASE ~(k <= Len(got))
      <4> DEFINE i == k - Len(got)
      <4>1. i \in 1..n /\ Len(got) + i = k /\ i - 1 \in 0..(count - 1)
            /\ Len(got) + (i - 1) + 1 = k
        BY <1>1, <1>5, <3>2
      <4> HIDE DEF i
      <4>2. got2[Len(got) + i] = reg[i - 1]  BY <1>5, <4>1
      <4>3. reg[i - 1] = StreamBits(d)[Len(got) + (i - 1) + 1]  BY <2>1, <4>1
      <4> QED  BY ONLY <4>1, <4>2, <4>3
    <3> QED  BY <3>1, <3>2
  <2>4. \A j \in 0..((count - n) - 1) : s[j] = StreamBits(d)[Len(got2) + j + 1]
    <3> SUFFICES ASSUME NEW j \in 0..((count - n) - 1)
                 PROVE  s[j] = StreamBits(d)[Len(got2) + j + 1]
      OBVIOUS
    <3>1. j \in 0..(RegisterBits - 1) /\ j + n < RegisterBits /\ j + n \in 0..(count - 1)
          /\ Len(got) + (j + n) + 1 = Len(got2) + j + 1
      BY ONLY <1>1, <1>5, j \in 0..((count - n) - 1)
    <3>2. s[j] = reg[j + n]  BY <1>3, <3>1
    <3>3. reg[j + n] = StreamBits(d)[Len(got) + (j + n) + 1]  BY <2>1, <3>1
    <3> QED  BY ONLY <3>1, <3>2, <3>3
  <2>5. \A j \in (count - n)..(RegisterBits - 1) : s[j] = 0
    <3> SUFFICES ASSUME NEW j \in (count - n)..(RegisterBits - 1)  PROVE s[j] = 0  OBVIOUS
    <3>1. j \in 0..(RegisterBits - 1)  BY <1>1
    <3>2. j + n < RegisterBits => j + n \in count..(RegisterBits - 1)  BY <1>1
    <3> QED  BY <1>3, <2>1, <3>1, <3>2
  <2> QED  BY ONLY <2>2, <2>3, <2>4, <2>5 DEF Loaded
<1> QED  BY <1>5, <1>3, <1>6, <1>7 DEF s

\* A step of the reader hands out n bits of what a refill for m bits left.
LEMMA SettleKeeps ==
    ASSUME ReaderInv, disk \in Seq(Byte), disk' = disk,
           NEW m \in 1..WordBits, NEW r, Refilled(r, m),
           NEW n \in 0..r.bitCount, NEW out, Settle(r, n, out), asked' \in Nat,
           out = "truncated" => r.eof /\ n = 0 /\ r.bitCount < asked',
           \/ peeked' = peeked
           \/ r.out = "ok" /\ peeked' = [at |-> Len(consumed), bits |-> LowBits(r.control, m)]
    PROVE  ReaderInv'
<1>1. /\ WordBits \in Nat \ {0} /\ RegisterBits = 2 * WordBits /\ m \in 0..RegisterBits
  BY Sizes
<1>2. /\ r.control \in Register /\ r.bitCount \in 0..(RegisterBits - 1) /\ r.eof \in BOOLEAN
      /\ r.pos \in 0..Len(disk) /\ r.skipped \in BOOLEAN
  BY DEF Refilled
<1>3. /\ control' = ShiftDown(r.control, n) /\ bitCount' = r.bitCount - n /\ eof' = r.eof
      /\ pos' = r.pos /\ skipped' = r.skipped /\ outcome' = out
      /\ consumed' = Handed(consumed, r.control, n)
  BY DEF Settle, Handed
<1>4. consumed \in Seq(Bit) /\ peeked.at \in Nat /\ peeked.bits \in Seq(Bit)
  BY DEF ReaderInv, ReaderTypes
<1>5. /\ consumed' \in Seq(Bit) /\ Len(consumed') = Len(consumed) + n
      /\ control' \in Register /\ bitCount' \in 0..(RegisterBits - 1)
      /\ \A w \in Nat : Loaded(disk, r.control, r.bitCount, consumed, w)
                           => Loaded(disk, control', bitCount', consumed', w)
  <2> DEFINE reg == r.control
             count == r.bitCount
             got2 == consumed'
  <2>1. reg \in Register /\ count \in 0..(RegisterBits - 1) /\ n \in 0..count  BY <1>2
  <2>2. got2 = Handed(consumed, reg, n)  BY <1>3
  <2>3. control' = ShiftDown(reg, n) /\ bitCount' = count - n  BY <1>3
  <2> HIDE DEF reg, count, got2
  <2>4. /\ got2 \in Seq(Bit) /\ Len(got2) = Len(consumed) + n
        /\ ShiftDown(reg, n) \in Register /\ count - n \in 0..(RegisterBits - 1)
        /\ \A w \in Nat : Loaded(disk, reg, count, consumed, w)
                             => Loaded(disk, ShiftDown(reg, n), count - n, got2, w)
    BY ONLY <1>4, <2>1, <2>2, disk \in Seq(Byte), HandOut
  <2> QED  BY ONLY <2>3, <2>4 DEF reg, count, got2
<1>6. /\ LowBits(r.control, m) \in Seq(Bit) /\ Len(LowBits(r.control, m)) = m
      /\ \A i \in 1..m : LowBits(r.control, m)[i] = r.control[i - 1]
  BY <1>1, <1>2, LowBitsFacts
<1>7. ReaderTypes'
  <2>1. peeked'.at \in Nat /\ peeked'.bits \in Seq(Bit)
    <3>1. CASE peeked' = peeked  BY <1>4, <3>1
    <3>2. CASE peeked' = [at |-> Len(consumed), bits |-> LowBits(r.control, m)]
      <4>1. peeked'.at = Len(consumed) /\ peeked'.bits = LowBits(r.control, m)  BY <3>2
      <4>2. Len(consumed) \in Nat  BY <1>4
      <4> QED  BY ONLY <1>6, <4>1, <4>2
    <3> QED  BY <3>1, <3>2
  <2>2. /\ eof' \in BOOLEAN /\ skipped' \in BOOLEAN  BY ONLY <1>2, <1>3, Zenon
  <2>3. pos' \in 0..Len(disk')  BY <1>2, <1>3
  <2>4. asked' \in Nat  OBVIOUS
  <2> QED  BY ONLY <1>5, <2>1, <2>2, <2>3, <2>4 DEF ReaderTypes
<1>8. ASSUME ~skipped'
      PROVE  /\ ReadSoFar(disk, control', bitCount', consumed', pos', eof')
             /\ outcome' = "truncated" => Len(consumed') + asked' > BitsIn(Words(disk))
             /\ \A i \in 1..Len(peeked'.bits) :
                   peeked'.bits[i] = IF peeked'.at + i <= BitsIn(Words(disk))
                                     THEN StreamBits(disk)[peeked'.at + i] ELSE 0
  <2>1. ~r.skipped /\ ~skipped  BY <1>3, <1>8 DEF Refilled
  <2>2. ReadSoFar(disk, r.control, r.bitCount, consumed, r.pos, r.eof)  BY <2>1 DEF Refilled
  <2>3. /\ Loaded(disk, r.control, r.bitCount, consumed, r.pos \div 2)
        /\ r.eof => r.pos = Len(disk)
        /\ ~r.eof => r.pos % 2 = 0
    BY ONLY <2>2 DEF ReadSoFar
  <2>4. r.pos \div 2 \in Nat /\ r.pos \div 2 <= Words(disk)
    <3>1. Len(disk) \in Nat  OBVIOUS
    <3> QED  BY ONLY <1>2, <3>1 DEF Words
  <2>5. ReadSoFar(disk, control', bitCount', consumed', pos', eof')
    BY ONLY <1>3, <1>5, <2>3, <2>4 DEF ReadSoFar
  <2>6. /\ Len(consumed) + r.bitCount = BitsIn(r.pos \div 2)
        /\ \A j \in 0..(r.bitCount - 1) : r.control[j] = StreamBits(disk)[Len(consumed) + j + 1]
        /\ \A j \in r.bitCount..(RegisterBits - 1) : r.control[j] = 0
    BY ONLY <2>3 DEF Loaded
  <2>7. /\ BitsIn(r.pos \div 2) <= BitsIn(Words(disk))
        /\ BitsIn(Words(disk)) \in Nat /\ Len(consumed) \in Nat
    <3>1. Words(disk) \in Nat /\ BitsIn(Words(disk)) \in Nat  BY StreamFacts
    <3>2. BitsIn(r.pos \div 2) <= BitsIn(Words(disk))  BY ONLY <2>4, <3>1, BitsInFacts, Zenon
    <3>3. Len(consumed) \in Nat  BY <1>4
    <3> QED  BY ONLY <3>1, <3>2, <3>3
  <2>8. r.eof => Len(consumed) + r.bitCount = BitsIn(Words(disk))
    BY ONLY <2>3, <2>6 DEF Words
  <2>9. ASSUME outcome' = "truncated"
        PROVE  Len(consumed') + asked' > BitsIn(Words(disk))
    <3>1. r.eof /\ n = 0 /\ r.bitCount < asked'  BY <1>3, <2>9
    <3>2. asked' \in Nat  OBVIOUS
    <3> QED  BY ONLY <1>2, <1>5, <2>7, <2>8, <3>1, <3>2
  <2>10. ASSUME NEW i \in 1..Len(peeked'.bits)
         PROVE  peeked'.bits[i] = IF peeked'.at + i <= BitsIn(Words(disk))
                                  THEN StreamBits(disk)[peeked'.at + i] ELSE 0
    <3>1. CASE peeked' = peeked  BY <2>1, <3>1 DEF ReaderInv
    <3>2. CASE r.out = "ok" /\ peeked' = [at |-> Len(consumed), bits |-> LowBits(r.control, m)]
      <4>1. peeked'.at = Len(consumed) /\ peeked'.bits = LowBits(r.control, m)  BY <3>2
      <4>2. i \in 1..m /\ peeked'.bits[i] = r.control[i - 1]
        BY ONLY <1>6, <4>1, i \in 1..Len(peeked'.bits)
      <4>3. CASE i <= r.bitCount
        <5>1. i - 1 \in 0..(r.bitCount - 1) /\ Len(consumed) + (i - 1) + 1 = Len(consumed) + i
              /\ Len(consumed) + i <= BitsIn(Words(disk))
          <6>1. i \in Nat \ {0} /\ r.bitCount \in Nat /\ Len(consumed) \in Nat
            BY <1>1, <1>2, <2>7, <4>2
          <6>2. i - 1 \in 0..(r.bitCount - 1) /\ Len(consumed) + (i - 1) + 1 = Len(consumed) + i
                /\ Len(consumed) + i <= Len(consumed) + r.bitCount
            BY ONLY <4>3, <6>1
          <6>3. /\ Len(consumed) + r.bitCount <= BitsIn(Words(disk))
                /\ Len(consumed) + r.bitCount \in Nat /\ BitsIn(Words(disk)) \in Nat
            BY ONLY <2>6, <2>7, <6>1
          <6> QED  BY ONLY <6>1, <6>2, <6>3
        <5> QED  BY ONLY <2>6, <4>1, <4>2, <5>1
      <4>4. CASE ~(i <= r.bitCount)
        <5>1. i - 1 \in r.bitCount..(RegisterBits - 1) /\ r.bitCount < m
          BY ONLY <1>1, <1>2, <4>2, <4>4
        <5>2. r.eof  BY <3>2, <5>1 DEF Refilled
        <5>3. ~(Len(consumed) + i <= BitsIn(Words(disk)))
          <6>1. i \in Nat \ {0} /\ r.bitCount \in Nat /\ Len(consumed) \in Nat
            BY <1>1, <1>2, <2>7, <4>2
          <6>2. Len(consumed) + r.bitCount = BitsIn(Words(disk))  BY ONLY <2>8, <5>2
          <6> QED  BY ONLY <4>4, <6>1, <6>2
        <5> QED  BY ONLY <2>6, <4>1, <4>2, <5>1, <5>3
      <4> QED  BY <4>3, <4>4
    <3> QED  BY <3>1, <3>2
  <2> QED  BY <2>5, <2>9, <2>10
<1> QED  BY <1>7, <1>8 DEF ReaderInv

\* read_bits.
LEMMA ReadBitsKeeps ==
    ASSUME ReaderInv, disk \in Seq(Byte), disk' = disk, NEW n \in 1..WordBits, ReadBits(n)
    PROVE  ReaderInv'
<1>1. PICK r \in Ensured(n) :
          IF r.out = "ok" THEN Consume(r, n) ELSE Settle(r, 0, r.out)
  BY DEF ReadBits
<1>2. asked' = n /\ peeked' = peeked /\ n \in Nat  BY WordSize DEF ReadBits
<1>3. Refilled(r, n)  BY EnsuredIsRefilled
<1>4. /\ r.bitCount \in 0..(RegisterBits - 1) /\ RegisterBits \in Nat
      /\ r.out = "ok" /\ r.bitCount < n => r.eof
      /\ r.out = "truncated" => r.eof /\ r.bitCount < n
  BY <1>3, Sizes DEF Refilled
<1>5. 0 \in 0..r.bitCount /\ (~(r.bitCount < n) => n \in 0..r.bitCount)  BY ONLY <1>2, <1>4
<1>6. CASE r.out # "ok"
  <2>1. Settle(r, 0, r.out)  BY <1>1, <1>6
  <2>2. r.out = "truncated" => r.eof /\ 0 = 0 /\ r.bitCount < asked'  BY <1>2, <1>4
  <2> QED  BY <1>2, <1>3, <1>5, <2>1, <2>2, SettleKeeps
<1>7. CASE r.out = "ok" /\ r.bitCount < n
  <2>1. Settle(r, 0, "truncated")  BY <1>1, <1>7 DEF Consume
  <2>2. r.eof /\ 0 = 0 /\ r.bitCount < asked'  BY <1>2, <1>4, <1>7
  <2> QED  BY <1>2, <1>3, <1>5, <2>1, <2>2, SettleKeeps
<1>8. CASE r.out = "ok" /\ ~(r.bitCount < n)
  <2>1. Settle(r, n, "ok")  BY <1>1, <1>8 DEF Consume
  <2> QED  BY <1>2, <1>3, <1>5, <1>8, <2>1, SettleKeeps
<1> QED  BY <1>6, <1>7, <1>8

\* decode_symbol.
LEMMA ReadCodeKeeps ==
    ASSUME ReaderInv, disk \in Seq(Byte), disk' = disk, NEW n \in 1..RootBits, ReadCode(n)
    PROVE  ReaderInv'
<1> DEFINE m == RootBits
<1>1. m \in 1..WordBits /\ n \in Nat /\ n <= m /\ m \in Nat  BY ReaderAssumption, WordSize
<1>2. PICK r \in Ensured(m) :
        IF r.out # "ok" THEN Settle(r, 0, r.out) /\ asked' = m /\ peeked' = peeked
        ELSE IF r.bitCount = 0 THEN Settle(r, 0, "truncated") /\ asked' = 1 /\ peeked' = peeked
        ELSE /\ Consume(r, n)
             /\ asked' = n
             /\ peeked' = [at |-> Len(consumed), bits |-> LowBits(r.control, m)]
  BY DEF ReadCode
<1> HIDE DEF m
<1>3. Refilled(r, m)  BY <1>1, EnsuredIsRefilled
<1>4. /\ r.bitCount \in 0..(RegisterBits - 1) /\ RegisterBits \in Nat
      /\ r.out = "ok" /\ r.bitCount < m => r.eof
      /\ r.out = "truncated" => r.eof /\ r.bitCount < m
  BY <1>3, Sizes DEF Refilled
<1>5. 0 \in 0..r.bitCount /\ (~(r.bitCount < n) => n \in 0..r.bitCount)  BY ONLY <1>1, <1>4
<1>6. CASE r.out # "ok"
  <2>1. Settle(r, 0, r.out) /\ asked' = m /\ peeked' = peeked  BY <1>2, <1>6
  <2>2. asked' \in Nat /\ (r.out = "truncated" => r.eof /\ 0 = 0 /\ r.bitCount < asked')
    BY ONLY <1>1, <1>4, <2>1
  <2> QED  BY <1>1, <1>3, <1>5, <2>1, <2>2, SettleKeeps
<1>7. CASE r.out = "ok" /\ r.bitCount = 0
  <2>1. Settle(r, 0, "truncated") /\ asked' = 1 /\ peeked' = peeked  BY <1>2, <1>7
  <2>2. asked' \in Nat /\ r.eof /\ 0 = 0 /\ r.bitCount < asked'
    <3>1. r.bitCount < m  BY ONLY <1>1, <1>7
    <3> QED  BY ONLY <1>4, <1>7, <2>1, <3>1
  <2> QED  BY <1>1, <1>3, <1>5, <2>1, <2>2, SettleKeeps
<1>8. CASE r.out = "ok" /\ r.bitCount # 0 /\ r.bitCount < n
  <2>1. /\ Settle(r, 0, "truncated") /\ asked' = n
        /\ peeked' = [at |-> Len(consumed), bits |-> LowBits(r.control, m)]
    BY <1>2, <1>8 DEF Consume
  <2>2. asked' \in Nat /\ r.eof /\ 0 = 0 /\ r.bitCount < asked'
    <3>1. r.bitCount < m  BY ONLY <1>1, <1>4, <1>8
    <3> QED  BY ONLY <1>1, <1>4, <1>8, <2>1, <3>1
  <2> QED  BY <1>1, <1>3, <1>5, <1>8, <2>1, <2>2, SettleKeeps
<1>9. CASE r.out = "ok" /\ r.bitCount # 0 /\ ~(r.bitCount < n)
  <2>1. /\ Settle(r, n, "ok") /\ asked' = n
        /\ peeked' = [at |-> Len(consumed), bits |-> LowBits(r.control, m)]
    BY <1>2, <1>9 DEF Consume
  <2>2. asked' \in Nat  BY <1>1, <2>1
  <2> QED  BY <1>1, <1>3, <1>5, <1>9, <2>1, <2>2, SettleKeeps
<1> QED  BY <1>6, <1>7, <1>8, <1>9

-----------------------------------------------------------------------------
(* The invariant of the channel *)

\* The reader starts when the writer is done, and until then the file is
\* whole.
ChannelInv ==
    /\ WriterInv /\ ReaderInv
    /\ ~reading => Whole /\ InitReader
    /\ reading => wstate # "open"

\* The reader's variables keep their first values until the file is opened.
LEMMA ReaderStartsNext == InitReader' /\ (disk \in Seq(Byte))' => ReaderInv'
<1>1. InitReader /\ disk \in Seq(Byte) => ReaderInv  BY ReaderStarts
<1> QED  BY <1>1, PTL

\* Every step of either side.
LEMMA ChannelStep == ChannelInv /\ [Next]_vars => ChannelInv'
<1> SUFFICES ASSUME ChannelInv, [Next]_vars  PROVE ChannelInv'  OBVIOUS
<1>1. WriterInv /\ ReaderInv /\ (~reading => Whole /\ InitReader) /\ (reading => wstate # "open")
      /\ disk \in Seq(Byte)
  BY DEF ChannelInv, WriterInv
<1>2. ASSUME UNCHANGED readerVars, InitReader, WriterInv'  PROVE ReaderInv' /\ InitReader'
  <2>1. InitReader'  BY <1>2 DEF InitReader, readerVars
  <2>2. (disk \in Seq(Byte))'  BY <1>2 DEF WriterInv
  <2> QED  BY <2>1, <2>2, ReaderStartsNext
<1>3. CASE Write
  <2>1. ~reading /\ ~reading' /\ UNCHANGED readerVars /\ InitReader  BY <1>1, <1>3 DEF Write
  <2>2. CASE WriteBits
    <3>1. WriterInv' /\ Whole'  BY <1>1, <2>2, WriteBitsKeeps
    <3> QED  BY <1>2, <2>1, <3>1 DEF ChannelInv
  <2>3. CASE Finish
    <3>1. WriterInv' /\ Whole'  BY <1>1, <2>3, FinishKeeps
    <3> QED  BY <1>2, <2>1, <3>1 DEF ChannelInv
  <2> QED  BY <1>3, <2>2, <2>3 DEF Write, NextWriter
<1>4. CASE Open
  <2>1. ~reading /\ reading' /\ UNCHANGED readerVars /\ InitReader /\ wstate' # "open"
    BY <1>1, <1>4 DEF Open, readerVars
  <2>2. WriterInv'  BY <1>1, <1>4, CutKeeps
  <2> QED  BY <1>2, <2>1, <2>2 DEF ChannelInv
<1>5. CASE Read
  <2>1. reading /\ reading' /\ UNCHANGED <<buffer, pending, written, wstate>> /\ disk' = disk
    BY <1>5 DEF Read, NextReader
  <2>2. WriterInv'  BY <1>1, <2>1 DEF WriterInv, ZeroExtended
  <2>3. (\E n \in 1..WordBits : ReadBits(n)) \/ (\E n \in 1..RootBits : ReadCode(n))
    BY <1>5 DEF Read, NextReader
  <2>4. CASE \E n \in 1..WordBits : ReadBits(n)
    <3>1. PICK n \in 1..WordBits : ReadBits(n)  BY <2>4
    <3>2. ReaderInv'  BY <1>1, <2>1, <3>1, ReadBitsKeeps
    <3> QED  BY <1>1, <2>1, <2>2, <3>2 DEF ChannelInv
  <2>5. CASE \E n \in 1..RootBits : ReadCode(n)
    <3>1. PICK n \in 1..RootBits : ReadCode(n)  BY <2>5
    <3>2. ReaderInv'  BY <1>1, <2>1, <3>1, ReadCodeKeeps
    <3> QED  BY <1>1, <2>1, <2>2, <3>2 DEF ChannelInv
  <2> QED  BY <2>3, <2>4, <2>5
<1>6. CASE UNCHANGED vars
  <2>1. UNCHANGED <<writerVars, readerVars, reading>>  BY <1>6 DEF vars
  <2>2. WriterInv'  BY <1>1, <2>1 DEF WriterInv, ZeroExtended, writerVars
  <2>3. ReaderInv'  BY <1>1, <2>1 DEF ReaderInv, ReaderTypes, writerVars, readerVars
  <2>4. ~reading' => Whole' /\ InitReader'
    BY <1>1, <2>1 DEF Whole, InitReader, writerVars, readerVars
  <2>5. reading' => wstate' # "open"  BY <1>1, <2>1 DEF writerVars
  <2> QED  BY <2>2, <2>3, <2>4, <2>5 DEF ChannelInv
<1> QED  BY <1>3, <1>4, <1>5, <1>6 DEF Next

\* The inductive invariant: both ends of the channel keep the one stream of
\* bits, whatever fails and wherever the file is cut.
THEOREM ChannelInvariant == Spec => []ChannelInv
<1>1. Init => ChannelInv
  <2> SUFFICES ASSUME Init  PROVE ChannelInv  OBVIOUS
  <2>1. InitWriter /\ InitReader /\ reading = FALSE  BY DEF Init
  <2>2. WriterInv /\ Whole  BY <2>1, WriterStarts
  <2>3. disk \in Seq(Byte)  BY <2>2 DEF WriterInv
  <2>4. ReaderInv  BY <2>1, <2>3, ReaderStarts
  <2> QED  BY <2>1, <2>2, <2>4 DEF ChannelInv
<1> QED  BY <1>1, ChannelStep, PTL DEF Spec

-----------------------------------------------------------------------------
(* The properties of the run *)

\* Sequences with the same elements are equal.
LEMMA SameSeq ==
    ASSUME NEW s \in Seq(Bit), NEW t \in Seq(Bit), Len(s) = Len(t),
           \A i \in 1..Len(s) : s[i] = t[i]
    PROVE  s = t
  OBVIOUS

\* A stream and the bits behind it.
LEMMA StreamThenRegister ==
    ASSUME NEW front \in Seq(Bit), NEW reg \in Register, NEW count \in 0..RegisterBits,
           NEW h \in Seq(Bit), Len(h) = Len(front) + count,
           \A k \in 1..Len(front) : front[k] = h[k],
           \A j \in 0..(count - 1) : reg[j] = h[Len(front) + j + 1]
    PROVE  front \o LowBits(reg, count) = h
<1> DEFINE tail == LowBits(reg, count)
           s == front \o tail
<1>1. tail \in Seq(Bit) /\ Len(tail) = count /\ \A i \in 1..count : tail[i] = reg[i - 1]
  BY LowBitsFacts
<1>2. Len(front) \in Nat /\ count \in Nat  BY Sizes
<1> HIDE DEF tail
<1>3. /\ s \in Seq(Bit) /\ Len(s) = Len(front) + Len(tail)
      /\ \A i \in 1..Len(front) : s[i] = front[i]
      /\ \A i \in 1..Len(tail) : s[Len(front) + i] = tail[i]
  <2>1. tail \in Seq(Bit)  BY <1>1
  <2> QED  BY ONLY <2>1, front \in Seq(Bit), Appended
<1> HIDE DEF s
<1>4. ASSUME NEW k \in 1..Len(s)  PROVE s[k] = h[k]
  <2>1. CASE k <= Len(front)
    <3>1. k \in 1..Len(front)  BY <1>2, <2>1
    <3> QED  BY <1>3, <3>1
  <2>2. CASE ~(k <= Len(front))
    <3> DEFINE i == k - Len(front)
    <3>1. i \in 1..count /\ Len(front) + i = k /\ i - 1 \in 0..(count - 1)
          /\ Len(front) + (i - 1) + 1 = k
      BY <1>1, <1>2, <1>3, <2>2
    <3> HIDE DEF i
    <3>2. s[Len(front) + i] = reg[i - 1]  BY <1>1, <1>3, <3>1
    <3>3. reg[i - 1] = h[Len(front) + (i - 1) + 1]  BY <3>1
    <3> QED  BY ONLY <3>1, <3>2, <3>3
  <2> QED  BY <2>1, <2>2
<1>5. Len(s) = Len(h)  BY <1>1, <1>3
<1>6. s = h  BY ONLY <1>3, <1>4, <1>5, h \in Seq(Bit), SameSeq
<1> QED  BY <1>6 DEF s, tail

\* Between the calls of write_bits nothing is lost, invented or moved.
THEOREM WriterLosesNoBit == Spec => []NoBitLost
<1>1. ChannelInv => NoBitLost
  <2> SUFFICES ASSUME ChannelInv, wstate = "open"
               PROVE  /\ StreamBits(disk) \o LowBits(buffer, pending) = written
                      /\ \A i \in pending..(RegisterBits - 1) : buffer[i] = 0
    BY DEF NoBitLost
  <2>1. /\ buffer \in Register /\ pending \in 0..(WordBits - 1) /\ written \in Seq(Bit)
        /\ disk \in Seq(Byte) /\ Written(disk, buffer, pending, written)
    BY DEF ChannelInv, WriterInv
  <2>2. StreamBits(disk) \in Seq(Bit) /\ Len(StreamBits(disk)) = BitsIn(Words(disk))
    BY <2>1, StreamFacts
  <2>3. pending \in 0..RegisterBits  BY <2>1, Sizes
  <2>4. /\ Len(written) = Len(StreamBits(disk)) + pending
        /\ \A k \in 1..Len(StreamBits(disk)) : StreamBits(disk)[k] = written[k]
        /\ \A j \in 0..(pending - 1) : buffer[j] = written[Len(StreamBits(disk)) + j + 1]
        /\ \A j \in pending..(RegisterBits - 1) : buffer[j] = 0
    BY ONLY <2>1, <2>2 DEF Written
  <2>5. StreamBits(disk) \o LowBits(buffer, pending) = written
    BY ONLY <2>1, <2>2, <2>3, <2>4, StreamThenRegister
  <2> QED  BY <2>4, <2>5
<1> QED  BY <1>1, ChannelInvariant, PTL

\* The file the writer leaves is what its promise says, until it is cut.
THEOREM FileIsWhatWasWritten == Spec => []OutputBeforeCut
<1>1. ChannelInv => OutputBeforeCut
  <2> SUFFICES ASSUME ChannelInv, ~reading, wstate # "open"
               PROVE  /\ \A i \in DOMAIN StreamBits(disk) : StreamBits(disk)[i] = ZeroExtended(i)
                      /\ wstate = "finished" =>
                            /\ Len(disk) % 2 = 0
                            /\ Len(StreamBits(disk)) - Len(written) \in 0..(WordBits - 1)
    BY DEF OutputBeforeCut, OutputIsWhatWasWritten
  <2>1. disk \in Seq(Byte) /\ Whole
        /\ \A k \in 1..BitsIn(Words(disk)) : StreamBits(disk)[k] = ZeroExtended(k)
    BY DEF ChannelInv, WriterInv
  <2>2. StreamBits(disk) \in Seq(Bit) /\ Len(StreamBits(disk)) = BitsIn(Words(disk))
    BY <2>1, StreamFacts
  <2>3. DOMAIN StreamBits(disk) = 1..BitsIn(Words(disk))  BY ONLY <2>2
  <2> QED  BY ONLY <2>1, <2>2, <2>3 DEF Whole
<1> QED  BY <1>1, ChannelInvariant, PTL

\* What the reader has consumed and buffered is the file's own bits, as far
\* as it was read: its end is not a source of data.
THEOREM EndManufacturesNoBits == Spec => []OnlyRealBits
<1>1. ChannelInv => OnlyRealBits
  <2> SUFFICES ASSUME ChannelInv, ~skipped
               PROVE  consumed \o LowBits(control, bitCount)
                         = SubSeq(StreamBits(disk), 1, (pos \div 2) * WordBits)
    BY DEF OnlyRealBits
  <2>1. /\ disk \in Seq(Byte) /\ control \in Register /\ bitCount \in 0..(RegisterBits - 1)
        /\ consumed \in Seq(Bit) /\ pos \in 0..Len(disk)
        /\ Loaded(disk, control, bitCount, consumed, pos \div 2)
    BY DEF ChannelInv, WriterInv, ReaderInv, ReaderTypes, ReadSoFar
  <2> DEFINE stream == StreamBits(disk)
             n == BitsIn(pos \div 2)
             h == SubSeq(stream, 1, n)
  <2>2. /\ stream \in Seq(Bit) /\ Len(stream) = BitsIn(Words(disk))
        /\ Words(disk) \in Nat /\ BitsIn(Words(disk)) \in Nat
    BY <2>1, StreamFacts
  <2>3. pos \div 2 \in Nat /\ pos \div 2 <= Words(disk)
    <3>1. Len(disk) \in Nat  BY <2>1
    <3> QED  BY ONLY <2>1, <3>1 DEF Words
  <2>4. n \in Nat /\ n <= Len(stream)  BY ONLY <2>2, <2>3, BitsInFacts, Zenon
  <2> HIDE DEF stream, n
  <2>5. h \in Seq(Bit) /\ Len(h) = n /\ \A i \in 1..n : h[i] = stream[i]
    <3>1. stream \in Seq(Bit) /\ Len(stream) \in Nat  BY <2>2
    <3> QED  BY ONLY <2>4, <3>1
  <2> HIDE DEF h
  <2>6. /\ Len(consumed) + bitCount = n
        /\ \A k \in 1..Len(consumed) : consumed[k] = stream[k]
        /\ \A j \in 0..(bitCount - 1) : control[j] = stream[Len(consumed) + j + 1]
    BY ONLY <2>1 DEF Loaded, n, stream
  <2>7. Len(consumed) \in Nat /\ bitCount \in Nat /\ bitCount \in 0..RegisterBits
    BY <2>1, Sizes
  <2>8. \A k \in 1..Len(consumed) : consumed[k] = h[k]
    <3>1. \A k \in 1..Len(consumed) : k \in 1..n  BY ONLY <2>6, <2>7
    <3> QED  BY ONLY <2>5, <2>6, <3>1
  <2>9. \A j \in 0..(bitCount - 1) : control[j] = h[Len(consumed) + j + 1]
    <3>1. \A j \in 0..(bitCount - 1) : Len(consumed) + j + 1 \in 1..n  BY ONLY <2>6, <2>7
    <3> QED  BY ONLY <2>5, <2>6, <3>1
  <2>10. Len(h) = Len(consumed) + bitCount  BY ONLY <2>5, <2>6
  <2>11. consumed \o LowBits(control, bitCount) = h
    BY ONLY <2>1, <2>5, <2>7, <2>8, <2>9, <2>10, StreamThenRegister
  <2> QED  BY <2>11 DEF h, n, stream, BitsIn
<1> QED  BY <1>1, ChannelInvariant, PTL

\* "truncated" is never answered while enough bits are left.
THEOREM TruncationIsReal == Spec => []TruncatedOnlyAtEnd
<1>1. ChannelInv => TruncatedOnlyAtEnd
  <2> SUFFICES ASSUME ChannelInv, outcome = "truncated", ~skipped
               PROVE  Len(consumed) + asked > Len(StreamBits(disk))
    BY DEF TruncatedOnlyAtEnd
  <2>1. disk \in Seq(Byte) /\ Len(consumed) + asked > BitsIn(Words(disk))
    BY DEF ChannelInv, WriterInv, ReaderInv
  <2>2. Len(StreamBits(disk)) = BitsIn(Words(disk))  BY <2>1, StreamFacts
  <2> QED  BY ONLY <2>1, <2>2
<1> QED  BY <1>1, ChannelInvariant, PTL

\* An index into a Huffman table is made of the bits that come next.
THEOREM LookaheadIsAlwaysTrue == Spec => []LookaheadIsTrue
<1>1. ChannelInv => LookaheadIsTrue
  <2> SUFFICES ASSUME ChannelInv, ~skipped, NEW i \in DOMAIN peeked.bits
               PROVE  peeked.bits[i] = IF peeked.at + i <= Len(StreamBits(disk))
                                       THEN StreamBits(disk)[peeked.at + i] ELSE 0
    BY DEF LookaheadIsTrue
  <2>1. /\ disk \in Seq(Byte) /\ peeked.bits \in Seq(Bit)
        /\ \A k \in 1..Len(peeked.bits) :
              peeked.bits[k] = IF peeked.at + k <= BitsIn(Words(disk))
                               THEN StreamBits(disk)[peeked.at + k] ELSE 0
    BY DEF ChannelInv, WriterInv, ReaderInv, ReaderTypes
  <2>2. Len(StreamBits(disk)) = BitsIn(Words(disk))  BY <2>1, StreamFacts
  <2>3. i \in 1..Len(peeked.bits)  BY <2>1
  <2> QED  BY ONLY <2>1, <2>2, <2>3
<1> QED  BY <1>1, ChannelInvariant, PTL

\* End to end: the reader hands out the bits that were written, in order, and
\* after them only padding, whatever failed and wherever the file was cut.
THEOREM BitsSurviveTheFile == Spec => []RoundTrip
<1>1. ChannelInv => RoundTrip
  <2> SUFFICES ASSUME ChannelInv, ~skipped, NEW i \in DOMAIN consumed
               PROVE  consumed[i] = ZeroExtended(i)
    BY DEF RoundTrip
  <2>1. /\ disk \in Seq(Byte) /\ consumed \in Seq(Bit) /\ pos \in 0..Len(disk)
        /\ bitCount \in 0..(RegisterBits - 1)
        /\ Loaded(disk, control, bitCount, consumed, pos \div 2)
    BY DEF ChannelInv, WriterInv, ReaderInv, ReaderTypes, ReadSoFar
  <2>2. i \in 1..Len(consumed)  BY <2>1
  <2>3. reading
    <3>1. CASE ~reading
      <4>1. consumed = << >>  BY <3>1 DEF ChannelInv, InitReader
      <4> QED  BY <2>2, <4>1
    <3> QED  BY <3>1
  <2>4. \A k \in 1..BitsIn(Words(disk)) : StreamBits(disk)[k] = ZeroExtended(k)
    BY <2>3 DEF ChannelInv, WriterInv
  <2>5. consumed[i] = StreamBits(disk)[i] /\ Len(consumed) + bitCount = BitsIn(pos \div 2)
    BY <2>1, <2>2 DEF Loaded
  <2>6. BitsIn(pos \div 2) <= BitsIn(Words(disk)) /\ BitsIn(pos \div 2) \in Nat
        /\ BitsIn(Words(disk)) \in Nat
    <3>1. Len(disk) \in Nat  BY <2>1
    <3>2. pos \div 2 \in Nat /\ pos \div 2 <= Words(disk) /\ Words(disk) \in Nat
      BY ONLY <2>1, <3>1 DEF Words
    <3> QED  BY ONLY <3>2, BitsInFacts, Zenon
  <2>7. i \in 1..BitsIn(Words(disk))
    <3>1. Len(consumed) \in Nat /\ bitCount \in Nat  BY <2>1, Sizes
    <3> QED  BY ONLY <2>2, <2>5, <2>6, <3>1
  <2> QED  BY <2>4, <2>5, <2>7
<1> QED  BY <1>1, ChannelInvariant, PTL
=============================================================================
