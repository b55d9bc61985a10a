------------------------- MODULE ArchiveReaderProofs -------------------------
(***************************************************************************)
(* Proofs about ArchiveReader, for archives of any length, damaged, cut    *)
(* and read with failures in every way the model knows.  The invariant     *)
(* follows one sequence: the entries returned, those queued, and those     *)
(* collected for a group.  It only ever grows by the entry at the reader's *)
(* position, or loses its end.                                             *)
(***************************************************************************)
EXTENDS ArchiveReader, WellFoundedInduction, TLAPS

Line(d, q, g) == d \o q \o g

\* Behind which every entry of the sequence s begins.
Ascending(s, p) ==
    /\ \A k \in 1..(Len(s) - 1) : s[k] < s[k + 1]
    /\ \A k \in 1..Len(s) : 3 * s[k] - 1 <= p
CountsUp(s) == \A k \in 1..Len(s) : s[k] = k

Prefix(s, t) == Len(s) <= Len(t) /\ \A k \in 1..Len(s) : s[k] = t[k]

ReaderTypes ==
    /\ Len(entries) \in Nat
    /\ end \in Positions /\ pos \in Positions /\ pos <= end
    /\ delivered \in Seq(Nat) /\ queue \in Seq(Nat) /\ group \in Seq(Nat)

\* A group is collected with nothing queued, up to the reader's position.
GroupIsLast == group # << >> => queue = << >> /\ pos = Behind(group[Len(group)])

\* Until a call fails, nothing is passed over.
NoneMissing ==
    ~failed =>
        /\ CountsUp(Line(delivered, queue, group))
        /\ group = << >> => pos = 3 * Len(Line(delivered, queue, group))
        /\ last = "none" => pos = end /\ queue = << >> /\ group = << >>

Sound(s) == \A k \in 1..Len(s) : entries[s[k]].fault \notin {"header", "data"}
GroupHeadersSound == \A k \in 1..Len(group) : entries[group[k]].fault # "header"

IInv ==
    /\ ReaderTypes
    /\ GroupIsLast
    /\ Ascending(Line(delivered, queue, group), pos)
    /\ NoneMissing
    /\ Sound(delivered) /\ Sound(queue) /\ GroupHeadersSound

-----------------------------------------------------------------------------
(* Sequences *)

\* What is appended does not move what was there.
LEMMA Joined ==
    ASSUME NEW s \in Seq(Nat), NEW t \in Seq(Nat)
    PROVE  /\ s \o t \in Seq(Nat) /\ Len(s \o t) = Len(s) + Len(t)
           /\ \A i \in 1..Len(s) : (s \o t)[i] = s[i]
           /\ \A i \in 1..Len(t) : (s \o t)[Len(s) + i] = t[i]
  OBVIOUS

\* Sequences with the same elements are equal.
LEMMA SameSeq ==
    ASSUME NEW s \in Seq(Nat), NEW t \in Seq(Nat), Len(s) = Len(t),
           \A i \in 1..Len(s) : s[i] = t[i]
    PROVE  s = t
<1>1. s = [i \in 1..Len(s) |-> s[i]] /\ t = [i \in 1..Len(t) |-> t[i]]
  <2>1. s = [i \in 1..Len(s) |-> s[i]]  BY ONLY s \in Seq(Nat)
  <2>2. t = [i \in 1..Len(t) |-> t[i]]  BY ONLY t \in Seq(Nat)
  <2> QED  BY ONLY <2>1, <2>2
<1> QED  BY <1>1, Zenon

\* The three parts of the sequence, element by element.
Parts(d, q, g, all) ==
    /\ all \in Seq(Nat) /\ Len(all) = Len(d) + Len(q) + Len(g)
    /\ \A i \in 1..Len(d) : all[i] = d[i]
    /\ \A i \in 1..Len(q) : all[Len(d) + i] = q[i]
    /\ \A i \in 1..Len(g) : all[Len(d) + Len(q) + i] = g[i]

LEMMA LineFacts ==
    ASSUME NEW d \in Seq(Nat), NEW q \in Seq(Nat), NEW g \in Seq(Nat)
    PROVE  Parts(d, q, g, Line(d, q, g))
<1> DEFINE s == d \o q
           all == s \o g
<1>1. /\ s \in Seq(Nat) /\ Len(s) = Len(d) + Len(q)
      /\ \A i \in 1..Len(d) : s[i] = d[i]
      /\ \A i \in 1..Len(q) : s[Len(d) + i] = q[i]
  BY Joined
<1>2. Len(d) \in Nat /\ Len(q) \in Nat /\ Len(g) \in Nat  OBVIOUS
<1> HIDE DEF s
<1>3. /\ all \in Seq(Nat) /\ Len(all) = Len(s) + Len(g)
      /\ \A i \in 1..Len(s) : all[i] = s[i]
      /\ \A i \in 1..Len(g) : all[Len(s) + i] = g[i]
  BY <1>1, Joined
<1> HIDE DEF all
<1>4. \A i \in 1..Len(d) : all[i] = d[i]
  <2>1. \A i \in 1..Len(d) : i \in 1..Len(s)  BY ONLY <1>1, <1>2
  <2> QED  BY ONLY <1>1, <1>3, <2>1
<1>5. \A i \in 1..Len(q) : all[Len(d) + i] = q[i]
  <2>1. \A i \in 1..Len(q) : Len(d) + i \in 1..Len(s)  BY ONLY <1>1, <1>2
  <2> QED  BY ONLY <1>1, <1>3, <2>1
<1>6. Line(d, q, g) = all  BY DEF Line, all, s
<1> QED  BY ONLY <1>1, <1>3, <1>4, <1>5, <1>6 DEF Parts

\* A set of numbers has a smallest one.
LEMMA MinFacts ==
    ASSUME NEW S \in SUBSET Nat, S # {}
    PROVE  Min(S) \in S /\ \A y \in S : Min(S) <= y
<1> DEFINE R == OpToRel(<, Nat)
<1>1. R = {ss \in Nat \X Nat : ss[1] < ss[2]}  BY DEF OpToRel
<1>2. IsWellFoundedOn(R, Nat)  BY NatLessThanWellFounded
<1> HIDE DEF R
<1>3. PICK x \in S : \A y \in S : ~(<<y, x>> \in R)  BY ONLY <1>2, S \subseteq Nat, S # {}, WFMin
<1>4. \A y \in S : x <= y
  <2> SUFFICES ASSUME NEW y \in S  PROVE x <= y  OBVIOUS
  <2>1. x \in Nat /\ y \in Nat  OBVIOUS
  <2>2. ~(y < x)  BY <1>1, <1>3, <2>1
  <2> QED  BY ONLY <2>1, <2>2
<1> QED  BY <1>4 DEF Min

Extends(s, t, e) ==
    /\ t \in Seq(Nat) /\ Len(t) = Len(s) + 1
    /\ \A k \in 1..Len(s) : t[k] = s[k]
    /\ t[Len(s) + 1] = e

LEMMA AppendFacts ==
    ASSUME NEW s \in Seq(Nat), NEW e \in Nat
    PROVE  /\ Append(s, e) \in Seq(Nat) /\ Len(Append(s, e)) = Len(s) + 1
           /\ \A k \in 1..Len(s) : Append(s, e)[k] = s[k]
           /\ Append(s, e)[Len(s) + 1] = e
  OBVIOUS

LEMMA HeadTailFacts ==
    ASSUME NEW s \in Seq(Nat), s # << >>
    PROVE  /\ Len(s) \in Nat \ {0} /\ Head(s) \in Nat /\ Head(s) = s[1]
           /\ Tail(s) \in Seq(Nat) /\ Len(Tail(s)) = Len(s) - 1
           /\ \A k \in 1..(Len(s) - 1) : Tail(s)[k] = s[k + 1]
  OBVIOUS

LEMMA SubSeqFacts ==
    ASSUME NEW s \in Seq(Nat), NEW n \in 0..Len(s)
    PROVE  /\ SubSeq(s, 1, n) \in Seq(Nat) /\ Len(SubSeq(s, 1, n)) = n
           /\ \A k \in 1..n : SubSeq(s, 1, n)[k] = s[k]
  OBVIOUS

LEMMA EmptySeq == << >> \in Seq(Nat) /\ Len(<< >>) = 0
  OBVIOUS

\* One entry more: it is returned, or joins a group.
LEMMA LineGrows ==
    ASSUME NEW d \in Seq(Nat), NEW g \in Seq(Nat), NEW e \in Nat
    PROVE  /\ Extends(Line(d, << >>, << >>), Line(Append(d, e), << >>, << >>), e)
           /\ Extends(Line(d, << >>, g), Line(d, << >>, Append(g, e)), e)
<1> DEFINE none == << >>
           d2 == Append(d, e)
           g2 == Append(g, e)
<1>1. /\ d2 \in Seq(Nat) /\ Len(d2) = Len(d) + 1
      /\ \A k \in 1..Len(d) : d2[k] = d[k]
      /\ d2[Len(d) + 1] = e
  BY AppendFacts
<1>2. /\ g2 \in Seq(Nat) /\ Len(g2) = Len(g) + 1
      /\ \A k \in 1..Len(g) : g2[k] = g[k]
      /\ g2[Len(g) + 1] = e
  BY AppendFacts
<1>3. none \in Seq(Nat) /\ Len(none) = 0 /\ Len(d) \in Nat /\ Len(g) \in Nat  BY EmptySeq
<1> HIDE DEF none, d2, g2
<1>4. Extends(Line(d, none, none), Line(d2, none, none), e)
  <2> DEFINE s == Line(d, none, none)
             t == Line(d2, none, none)
  <2>1. Len(s) = Len(d) + Len(none) + Len(none) /\ \A i \in 1..Len(d) : s[i] = d[i]
    <3>1. d \in Seq(Nat) /\ none \in Seq(Nat)  BY <1>3
    <3>2. Parts(d, none, none, Line(d, none, none))  BY ONLY <3>1, LineFacts
    <3> QED  BY ONLY <3>2 DEF Parts, s
  <2>2. t \in Seq(Nat) /\ Len(t) = Len(d2) + Len(none) + Len(none)
        /\ \A i \in 1..Len(d2) : t[i] = d2[i]
    <3>1. d2 \in Seq(Nat) /\ none \in Seq(Nat)  BY <1>1, <1>3
    <3>2. Parts(d2, none, none, Line(d2, none, none))  BY ONLY <3>1, LineFacts
    <3> QED  BY ONLY <3>2 DEF Parts, t
  <2> HIDE DEF s, t
  <2>3. Len(s) = Len(d) /\ Len(t) = Len(s) + 1  BY ONLY <1>1, <1>3, <2>1, <2>2
  <2>4. \A k \in 1..Len(s) : k \in 1..Len(d) /\ k \in 1..Len(d2)  BY ONLY <1>1, <1>3, <2>3
  <2>5. \A k \in 1..Len(s) : t[k] = s[k]  BY ONLY <1>1, <2>1, <2>2, <2>4
  <2>6. t[Len(s) + 1] = e
    <3>1. Len(s) + 1 \in 1..Len(d2)  BY ONLY <1>1, <1>3, <2>3
    <3> QED  BY ONLY <1>1, <2>2, <2>3, <3>1
  <2>7. Extends(s, t, e)  BY ONLY <2>2, <2>3, <2>5, <2>6 DEF Extends
  <2> QED  BY <2>7 DEF s, t
<1>5. Extends(Line(d, none, g), Line(d, none, g2), e)
  <2> DEFINE s == Line(d, none, g)
             t == Line(d, none, g2)
  <2>1. /\ Len(s) = Len(d) + Len(none) + Len(g)
        /\ \A i \in 1..Len(d) : s[i] = d[i]
        /\ \A i \in 1..Len(g) : s[Len(d) + Len(none) + i] = g[i]
    <3>1. d \in Seq(Nat) /\ g \in Seq(Nat) /\ none \in Seq(Nat)  BY <1>3
    <3>2. Parts(d, none, g, Line(d, none, g))  BY ONLY <3>1, LineFacts
    <3> QED  BY ONLY <3>2 DEF Parts, s
  <2>2. /\ t \in Seq(Nat) /\ Len(t) = Len(d) + Len(none) + Len(g2)
        /\ \A i \in 1..Len(d) : t[i] = d[i]
        /\ \A i \in 1..Len(g2) : t[Len(d) + Len(none) + i] = g2[i]
    <3>1. d \in Seq(Nat) /\ g2 \in Seq(Nat) /\ none \in Seq(Nat)  BY <1>2, <1>3
    <3>2. Parts(d, none, g2, Line(d, none, g2))  BY ONLY <3>1, LineFacts
    <3> QED  BY ONLY <3>2 DEF Parts, t
  <2> HIDE DEF s, t
  <2>3. Len(s) = Len(d) + Len(g) /\ Len(t) = Len(s) + 1 /\ Len(d) + Len(none) = Len(d)
    BY ONLY <1>2, <1>3, <2>1, <2>2
  <2>4. \A k \in 1..Len(s) : t[k] = s[k]
    <3> SUFFICES ASSUME NEW k \in 1..Len(s)  PROVE t[k] = s[k]  OBVIOUS
    <3>1. CASE k <= Len(d)
      <4>1. k \in 1..Len(d)  BY ONLY <1>3, <3>1, k \in 1..Len(s), <2>3
      <4> QED  BY ONLY <2>1, <2>2, <4>1
    <3>2. CASE ~(k <= Len(d))
      <4> DEFINE i == k - Len(d)
      <4>1. i \in 1..Len(g) /\ i \in 1..Len(g2) /\ Len(d) + i = k
        BY ONLY <1>2, <1>3, <3>2, k \in 1..Len(s), <2>3
      <4> HIDE DEF i
      <4>2. s[Len(d) + i] = g[i] /\ t[Len(d) + i] = g2[i]  BY ONLY <2>1, <2>2, <2>3, <4>1
      <4> QED  BY ONLY <1>2, <4>1, <4>2
    <3> QED  BY <3>1, <3>2
  <2>5. t[Len(s) + 1] = e
    <3>1. Len(g) + 1 \in 1..Len(g2) /\ Len(d) + (Len(g) + 1) = Len(s) + 1
      BY ONLY <1>2, <1>3, <2>3
    <3>2. t[Len(d) + (Len(g) + 1)] = g2[Len(g) + 1]  BY ONLY <2>2, <2>3, <3>1
    <3> QED  BY ONLY <1>2, <3>1, <3>2
  <2>6. Extends(s, t, e)  BY ONLY <2>2, <2>3, <2>4, <2>5 DEF Extends
  <2> QED  BY <2>6 DEF s, t
<1> QED  BY <1>4, <1>5 DEF none, d2, g2

\* The head of what waits is returned: the sequence stays.
LEMMA LineMoves ==
    ASSUME NEW d \in Seq(Nat), NEW w \in Seq(Nat), w # << >>,
           NEW before \in {Line(d, w, << >>), Line(d, << >>, w)}
    PROVE  Line(Append(d, Head(w)), Tail(w), << >>) = before
<1> DEFINE none == << >>
           e == Head(w)
           d2 == Append(d, e)
           w2 == Tail(w)
           t == Line(d2, w2, none)
<1>1. /\ Len(w) \in Nat \ {0} /\ e \in Nat /\ e = w[1]
      /\ w2 \in Seq(Nat) /\ Len(w2) = Len(w) - 1
      /\ \A k \in 1..(Len(w) - 1) : w2[k] = w[k + 1]
  BY HeadTailFacts
<1>2. /\ d2 \in Seq(Nat) /\ Len(d2) = Len(d) + 1
      /\ \A k \in 1..Len(d) : d2[k] = d[k]
      /\ d2[Len(d) + 1] = e
  BY <1>1, AppendFacts
<1>3. none \in Seq(Nat) /\ Len(none) = 0 /\ Len(d) \in Nat  BY EmptySeq
<1> HIDE DEF none, e, d2, w2
<1>4. /\ before \in Seq(Nat) /\ Len(before) = Len(d) + Len(w)
      /\ \A i \in 1..Len(d) : before[i] = d[i]
      /\ \A i \in 1..Len(w) : before[Len(d) + i] = w[i]
  <2>1. before = Line(d, w, none) \/ before = Line(d, none, w)  BY DEF none
  <2>2. CASE before = Line(d, w, none)
    <3>1. /\ before \in Seq(Nat) /\ Len(before) = Len(d) + Len(w) + Len(none)
          /\ \A i \in 1..Len(d) : before[i] = d[i]
          /\ \A i \in 1..Len(w) : before[Len(d) + i] = w[i]
      <4>1. d \in Seq(Nat) /\ none \in Seq(Nat) /\ w \in Seq(Nat)  BY <1>3
      <4>2. Parts(d, w, none, Line(d, w, none))  BY ONLY <4>1, LineFacts
      <4> QED  BY ONLY <4>2, <2>2 DEF Parts
    <3>2. Len(before) = Len(d) + Len(w)  BY ONLY <1>1, <1>3, <3>1
    <3> QED  BY ONLY <3>1, <3>2
  <2>3. CASE before = Line(d, none, w)
    <3>1. /\ before \in Seq(Nat) /\ Len(before) = Len(d) + Len(none) + Len(w)
          /\ \A i \in 1..Len(d) : before[i] = d[i]
          /\ \A i \in 1..Len(w) : before[Len(d) + Len(none) + i] = w[i]
      <4>1. d \in Seq(Nat) /\ none \in Seq(Nat) /\ w \in Seq(Nat)  BY <1>3
      <4>2. Parts(d, none, w, Line(d, none, w))  BY ONLY <4>1, LineFacts
      <4> QED  BY ONLY <4>2, <2>3 DEF Parts
    <3>2. Len(d) + Len(none) = Len(d) /\ Len(before) = Len(d) + Len(w)
      BY ONLY <1>1, <1>3, <3>1
    <3> QED  BY ONLY <3>1, <3>2
  <2> QED  BY <2>1, <2>2, <2>3
<1>5. /\ t \in Seq(Nat) /\ Len(t) = Len(d2) + Len(w2) + Len(none)
      /\ \A i \in 1..Len(d2) : t[i] = d2[i]
      /\ \A i \in 1..Len(w2) : t[Len(d2) + i] = w2[i]
  <2>1. d2 \in Seq(Nat) /\ none \in Seq(Nat) /\ w2 \in Seq(Nat)  BY <1>1, <1>2, <1>3
  <2>2. Parts(d2, w2, none, Line(d2, w2, none))  BY ONLY <2>1, LineFacts
  <2> QED  BY ONLY <2>2 DEF Parts, t
<1> HIDE DEF t
<1>6. Len(t) = Len(before)  BY ONLY <1>1, <1>2, <1>3, <1>4, <1>5
<1>7. ASSUME NEW k \in 1..Len(t)  PROVE t[k] = before[k]
  <2>1. k \in 1..(Len(d) + Len(w))  BY ONLY <1>4, <1>6, k \in 1..Len(t)
  <2>2. CASE k <= Len(d)
    <3>1. k \in 1..Len(d) /\ k \in 1..Len(d2)  BY ONLY <1>2, <1>3, <2>1, <2>2
    <3> QED  BY ONLY <1>2, <1>4, <1>5, <3>1
  <2>3. CASE k = Len(d) + 1
    <3>1. k \in 1..Len(d2) /\ 1 \in 1..Len(w)  BY ONLY <1>1, <1>2, <1>3, <2>3
    <3>2. t[k] = d2[k] /\ before[Len(d) + 1] = w[1]  BY ONLY <1>4, <1>5, <3>1
    <3> QED  BY ONLY <1>1, <1>2, <2>3, <3>2
  <2>4. CASE k > Len(d) + 1
    <3> DEFINE i == k - Len(d) - 1
    <3>1. /\ i \in 1..Len(w2) /\ i \in 1..(Len(w) - 1) /\ i + 1 \in 1..Len(w)
          /\ Len(d2) + i = k /\ Len(d) + (i + 1) = k
      <4>1. /\ Len(d) \in Nat /\ Len(w) \in Nat \ {0}
            /\ Len(d2) = Len(d) + 1 /\ Len(w2) = Len(w) - 1
        BY ONLY <1>1, <1>2, <1>3
      <4> QED  BY ONLY <4>1, <2>1, <2>4
    <3> HIDE DEF i
    <3>2. t[Len(d2) + i] = w2[i] /\ before[Len(d) + (i + 1)] = w[i + 1] /\ w2[i] = w[i + 1]
      BY ONLY <1>1, <1>4, <1>5, <3>1
    <3> QED  BY ONLY <3>1, <3>2
  <2> QED  BY ONLY <1>3, <2>1, <2>2, <2>3, <2>4
<1>8. t = before  BY ONLY <1>4, <1>5, <1>6, <1>7, SameSeq
<1> QED  BY <1>8 DEF t, none, e, d2, w2

\* A group that is given up, or of which only a part is queued: the sequence
\* loses its end.
LEMMA LineLoses ==
    ASSUME NEW d \in Seq(Nat), NEW q \in Seq(Nat), NEW g \in Seq(Nat), NEW n \in 0..Len(g)
    PROVE  /\ Prefix(Line(d, q, << >>), Line(d, q, g))
           /\ Prefix(Line(d, SubSeq(g, 1, n), << >>), Line(d, << >>, g))
<1> DEFINE none == << >>
           g2 == SubSeq(g, 1, n)
<1>1. none \in Seq(Nat) /\ Len(none) = 0 /\ Len(d) \in Nat /\ Len(q) \in Nat /\ Len(g) \in Nat
      /\ n \in Nat /\ n <= Len(g)
  BY EmptySeq
<1>2. g2 \in Seq(Nat) /\ Len(g2) = n /\ \A k \in 1..n : g2[k] = g[k]  BY SubSeqFacts
<1> HIDE DEF none, g2
<1>3. Prefix(Line(d, q, none), Line(d, q, g))
  <2> DEFINE s == Line(d, q, none)
             t == Line(d, q, g)
  <2>1. /\ Len(s) = Len(d) + Len(q) + Len(none)
        /\ \A i \in 1..Len(d) : s[i] = d[i]
        /\ \A i \in 1..Len(q) : s[Len(d) + i] = q[i]
    <3>1. d \in Seq(Nat) /\ none \in Seq(Nat) /\ q \in Seq(Nat)  BY <1>1
    <3>2. Parts(d, q, none, Line(d, q, none))  BY ONLY <3>1, LineFacts
    <3> QED  BY ONLY <3>2 DEF Parts, s
  <2>2. /\ Len(t) = Len(d) + Len(q) + Len(g)
        /\ \A i \in 1..Len(d) : t[i] = d[i]
        /\ \A i \in 1..Len(q) : t[Len(d) + i] = q[i]
    <3>1. d \in Seq(Nat) /\ g \in Seq(Nat) /\ q \in Seq(Nat)  OBVIOUS
    <3>2. Parts(d, q, g, Line(d, q, g))  BY ONLY <3>1, LineFacts
    <3> QED  BY ONLY <3>2 DEF Parts, t
  <2> HIDE DEF s, t
  <2>3. Len(s) = Len(d) + Len(q) /\ Len(s) <= Len(t)  BY ONLY <1>1, <2>1, <2>2
  <2>4. ASSUME NEW k \in 1..Len(s)  PROVE s[k] = t[k]
    <3>1. CASE k <= Len(d)
      <4>1. k \in 1..Len(d)  BY ONLY <1>1, <2>3, <3>1, k \in 1..Len(s)
      <4> QED  BY ONLY <2>1, <2>2, <4>1
    <3>2. CASE ~(k <= Len(d))
      <4> DEFINE i == k - Len(d)
      <4>1. i \in 1..Len(q) /\ Len(d) + i = k  BY ONLY <1>1, <2>3, <3>2, k \in 1..Len(s)
      <4> HIDE DEF i
      <4>2. s[Len(d) + i] = q[i] /\ t[Len(d) + i] = q[i]  BY ONLY <2>1, <2>2, <4>1
      <4> QED  BY ONLY <4>1, <4>2
    <3> QED  BY <3>1, <3>2
  <2>5. Prefix(s, t)  BY ONLY <2>3, <2>4 DEF Prefix
  <2> QED  BY <2>5 DEF s, t
<1>4. Prefix(Line(d, g2, none), Line(d, none, g))
  <2> DEFINE s == Line(d, g2, none)
             t == Line(d, none, g)
  <2>1. /\ Len(s) = Len(d) + Len(g2) + Len(none)
        /\ \A i \in 1..Len(d) : s[i] = d[i]
        /\ \A i \in 1..Len(g2) : s[Len(d) + i] = g2[i]
    <3>1. d \in Seq(Nat) /\ g2 \in Seq(Nat) /\ none \in Seq(Nat)  BY <1>1, <1>2
    <3>2. Parts(d, g2, none, Line(d, g2, none))  BY ONLY <3>1, LineFacts
    <3> QED  BY ONLY <3>2 DEF Parts, s
  <2>2. /\ Len(t) = Len(d) + Len(none) + Len(g)
        /\ \A i \in 1..Len(d) : t[i] = d[i]
        /\ \A i \in 1..Len(g) : t[Len(d) + Len(none) + i] = g[i]
    <3>1. d \in Seq(Nat) /\ g \in Seq(Nat) /\ none \in Seq(Nat)  BY <1>1
    <3>2. Parts(d, none, g, Line(d, none, g))  BY ONLY <3>1, LineFacts
    <3> QED  BY ONLY <3>2 DEF Parts, t
  <2> HIDE DEF s, t
  <2>3. Len(s) = Len(d) + n /\ Len(s) <= Len(t) /\ Len(d) + Len(none) = Len(d)
    BY ONLY <1>1, <1>2, <2>1, <2>2
  <2>4. ASSUME NEW k \in 1..Len(s)  PROVE s[k] = t[k]
    <3>1. CASE k <= Len(d)
      <4>1. k \in 1..Len(d)  BY ONLY <1>1, <2>3, <3>1, k \in 1..Len(s)
      <4> QED  BY ONLY <2>1, <2>2, <4>1
    <3>2. CASE ~(k <= Len(d))
      <4> DEFINE i == k - Len(d)
      <4>1. i \in 1..n /\ i \in 1..Len(g2) /\ i \in 1..Len(g) /\ Len(d) + i = k
        BY ONLY <1>1, <1>2, <2>3, <3>2, k \in 1..Len(s)
      <4> HIDE DEF i
      <4>2. s[Len(d) + i] = g2[i] /\ t[Len(d) + i] = g[i] /\ g2[i] = g[i]
        BY ONLY <1>2, <2>1, <2>2, <2>3, <4>1
      <4> QED  BY ONLY <4>1, <4>2
    <3> QED  BY <3>1, <3>2
  <2>5. Prefix(s, t)  BY ONLY <2>3, <2>4 DEF Prefix
  <2> QED  BY <2>5 DEF s, t
<1> QED  BY <1>3, <1>4 DEF none, g2
\* Without what the sequence has lost, and further on, it still ascends.
LEMMA AscendingPrefix ==
    ASSUME NEW s \in Seq(Nat), NEW t \in Seq(Nat), Prefix(s, t),
           NEW p \in Int, NEW p2 \in Int, p <= p2, Ascending(t, p)
    PROVE  Ascending(s, p2)
<1>1. Len(s) \in Nat /\ Len(t) \in Nat /\ \A k \in 1..Len(s) : s[k] \in Nat  OBVIOUS
<1>2. \A k \in 1..Len(s) : k \in 1..Len(t) /\ s[k] = t[k]  BY <1>1 DEF Prefix
<1>3. \A k \in 1..(Len(s) - 1) : s[k] < s[k + 1]
  <2> SUFFICES ASSUME NEW k \in 1..(Len(s) - 1)  PROVE s[k] < s[k + 1]  OBVIOUS
  <2>1. k \in 1..Len(s) /\ k + 1 \in 1..Len(s)  BY ONLY <1>1, k \in 1..(Len(s) - 1)
  <2>2. k \in 1..(Len(t) - 1)  BY ONLY <1>1, <1>2, <2>1
  <2>3. t[k] < t[k + 1]  BY <2>2 DEF Ascending
  <2> QED  BY ONLY <1>2, <2>1, <2>3
<1>4. \A k \in 1..Len(s) : 3 * s[k] - 1 <= p2
  <2> SUFFICES ASSUME NEW k \in 1..Len(s)  PROVE 3 * s[k] - 1 <= p2  OBVIOUS
  <2>1. 3 * t[k] - 1 <= p  BY <1>2 DEF Ascending
  <2>2. t[k] = s[k] /\ s[k] \in Int  BY <1>1, <1>2
  <2> QED  BY ONLY <2>1, <2>2, p \in Int, p2 \in Int, p <= p2
<1> QED  BY <1>3, <1>4 DEF Ascending

\* The entry that begins at the reader's position is behind all the others.
LEMMA AscendingExtends ==
    ASSUME NEW s \in Seq(Nat), NEW t, NEW e \in Nat, Extends(s, t, e),
           NEW p \in Int, NEW p2 \in Int, p = 3 * (e - 1), p2 >= 3 * e - 1, Ascending(s, p)
    PROVE  Ascending(t, p2)
<1>1. Len(s) \in Nat /\ \A k \in 1..Len(s) : s[k] \in Nat  OBVIOUS
<1>2. /\ Len(t) = Len(s) + 1 /\ t[Len(s) + 1] = e
      /\ \A k \in 1..Len(s) : t[k] = s[k]
  BY DEF Extends
<1>3. \A k \in 1..Len(s) : s[k] < e
  <2> SUFFICES ASSUME NEW k \in 1..Len(s)  PROVE s[k] < e  OBVIOUS
  <2>1. 3 * s[k] - 1 <= p  BY DEF Ascending
  <2> QED  BY ONLY <1>1, <2>1, k \in 1..Len(s), e \in Nat, p = 3 * (e - 1)
<1>4. \A k \in 1..(Len(t) - 1) : t[k] < t[k + 1]
  <2> SUFFICES ASSUME NEW k \in 1..(Len(t) - 1)  PROVE t[k] < t[k + 1]  OBVIOUS
  <2>1. k \in 1..Len(s)  BY ONLY <1>1, <1>2, k \in 1..(Len(t) - 1)
  <2>2. CASE k = Len(s)
    BY ONLY <1>2, <1>3, <2>1, <2>2
  <2>3. CASE k # Len(s)
    <3>1. k \in 1..(Len(s) - 1) /\ k + 1 \in 1..Len(s)  BY ONLY <1>1, <2>1, <2>3
    <3>2. s[k] < s[k + 1]  BY <3>1 DEF Ascending
    <3> QED  BY ONLY <1>2, <2>1, <3>1, <3>2
  <2> QED  BY <2>2, <2>3
<1>5. \A k \in 1..Len(t) : 3 * t[k] - 1 <= p2
  <2> SUFFICES ASSUME NEW k \in 1..Len(t)  PROVE 3 * t[k] - 1 <= p2  OBVIOUS
  <2>1. CASE k = Len(s) + 1
    BY ONLY <1>2, <2>1, e \in Nat, p2 \in Int, p2 >= 3 * e - 1
  <2>2. CASE k # Len(s) + 1
    <3>1. k \in 1..Len(s)  BY ONLY <1>1, <1>2, <2>2, k \in 1..Len(t)
    <3>2. t[k] = s[k] /\ s[k] \in Int /\ s[k] < e  BY ONLY <1>1, <1>2, <1>3, <3>1
    <3> QED  BY ONLY <3>2, e \in Nat, p2 \in Int, p2 >= 3 * e - 1
  <2> QED  BY <2>1, <2>2
<1> QED  BY <1>4, <1>5 DEF Ascending

LEMMA CountsUpExtends ==
    ASSUME NEW s \in Seq(Nat), NEW t, Extends(s, t, Len(s) + 1), CountsUp(s)
    PROVE  CountsUp(t)
<1>1. Len(s) \in Nat  OBVIOUS
<1> SUFFICES ASSUME NEW k \in 1..Len(t)  PROVE t[k] = k  BY DEF CountsUp
<1>2. CASE k = Len(s) + 1  BY <1>2 DEF Extends
<1>3. CASE k # Len(s) + 1
  <2>1. k \in 1..Len(s)  BY <1>1, <1>3 DEF Extends
  <2> QED  BY <2>1 DEF Extends, CountsUp
<1> QED  BY <1>2, <1>3

-----------------------------------------------------------------------------
(* Positions *)

\* The reader stands behind an entry that is whole.
LEMMA BehindFacts ==
    ASSUME ReaderTypes, NEW i \in 1..Len(entries)
    PROVE  /\ Behind(i) \in {3 * i - 1, 3 * i} /\ Behind(i) \in Positions /\ 3 * i \in Positions
           /\ 3 * i - 1 <= end => Behind(i) <= end
<1>1. Len(entries) \in Nat /\ i \in Int /\ 1 <= i /\ i <= Len(entries)  BY DEF ReaderTypes
<1>2. end \in Int /\ (end % 3 = 2 => entries[(end + 1) \div 3].packed)  BY DEF ReaderTypes, Positions
<1>3. 3 * i \in Positions  BY <1>1 DEF Positions
<1>4. CASE entries[i].packed
  <2>1. Behind(i) = 3 * i - 1  BY <1>4 DEF Behind
  <2>2. ((3 * i - 1) + 1) \div 3 = i /\ 3 * i - 1 \in 0..(3 * Len(entries))  BY ONLY <1>1
  <2>3. 3 * i - 1 \in Positions  BY <1>4, <2>2 DEF Positions
  <2> QED  BY <1>1, <1>3, <2>1, <2>3
<1>5. CASE ~entries[i].packed
  <2>1. Behind(i) = 3 * i  BY <1>5 DEF Behind
  <2>2. end # 3 * i - 1
    <3>1. (3 * i - 1) % 3 = 2 /\ ((3 * i - 1) + 1) \div 3 = i  BY ONLY <1>1
    <3> QED  BY ONLY <1>2, <1>5, <3>1
  <2> QED  BY <1>1, <1>2, <1>3, <2>1, <2>2
<1> QED  BY <1>4, <1>5

\* What reading a header leaves.
MetaSound(m) ==
    /\ m.id \in Int /\ m.id >= -1
    /\ m.pos \in Positions /\ pos <= m.pos /\ m.pos <= end
    /\ m.id = 0 => m.pos = pos /\ pos = end
    /\ m.id > 0 => /\ m.id \in 1..Len(entries) /\ pos = 3 * (m.id - 1)
                   /\ m.pos = Behind(m.id) /\ entries[m.id].fault # "header"

LEMMA MetaFacts ==
    ASSUME ReaderTypes, NEW m \in EntryMeta
    PROVE  MetaSound(m)
<1> DEFINE i == (pos \div 3) + 1
<1>1. /\ Len(entries) \in Nat /\ pos \in Positions /\ end \in Positions
      /\ pos \in Int /\ 0 <= pos /\ end \in Int /\ end <= 3 * Len(entries) /\ pos <= end
  BY DEF ReaderTypes, Positions
<1>2. CASE pos = end
  <2>1. m = [id |-> 0, pos |-> pos]  BY <1>2 DEF EntryMeta
  <2> QED  BY <1>1, <1>2, <2>1 DEF MetaSound
<1>3. CASE pos # end /\ (pos % 3 # 0 \/ entries[i].fault = "header")
  <2>1. m \in {[id |-> -1, pos |-> p] : p \in Anywhere}  BY <1>3 DEF EntryMeta
  <2>2. PICK p \in Anywhere : m = [id |-> -1, pos |-> p]  BY <2>1
  <2>3. p \in Positions /\ pos < p /\ p <= end  BY DEF Anywhere
  <2>4. p \in Int  BY <2>3 DEF Positions
  <2> QED  BY <1>1, <2>2, <2>3, <2>4 DEF MetaSound
<1>4. CASE pos # end /\ pos % 3 = 0 /\ entries[i].fault # "header" /\ end < pos + 2
  <2>1. m = [id |-> -1, pos |-> end]  BY <1>4 DEF EntryMeta
  <2> QED  BY <1>1, <2>1 DEF MetaSound
<1>5. CASE pos # end /\ pos % 3 = 0 /\ entries[i].fault # "header" /\ ~(end < pos + 2)
  <2>1. m = [id |-> i, pos |-> Behind(i)]  BY <1>5 DEF EntryMeta
  <2>2. i \in 1..Len(entries) /\ pos = 3 * (i - 1) /\ 3 * i - 1 <= end  BY <1>1, <1>5
  <2> HIDE DEF i
  <2>3. Behind(i) \in {3 * i - 1, 3 * i} /\ Behind(i) \in Positions /\ Behind(i) <= end
    BY <2>2, BehindFacts
  <2>4. m.id = i /\ m.pos = Behind(i) /\ entries[i].fault # "header"  BY <1>5, <2>1 DEF i
  <2>5. i \in Int /\ i > 0 /\ pos <= Behind(i)  BY ONLY <1>1, <2>2, <2>3
  <2> QED  BY ONLY <2>2, <2>3, <2>4, <2>5 DEF MetaSound
<1> QED  BY <1>2, <1>3, <1>4, <1>5
-----------------------------------------------------------------------------
(* The steps *)

\* What a step other than a change of the file leaves.
Fixed == entries' = entries /\ end' = end

LEMMA FixedFacts ==
    ASSUME Fixed
    PROVE  /\ Positions' = Positions
           /\ \A i : Behind(i)' = Behind(i)
           /\ \A s : Sound(s)' = Sound(s)
  BY DEF Fixed, Positions, Behind, Sound

\* A call that ends in an error, wherever it leaves the reader.
LEMMA ErrStep ==
    ASSUME IInv, Fixed, Err, group' = << >>,
           pos' \in Positions, pos <= pos', pos' <= end,
           queue' \in Seq(Nat), Sound(queue'),
           Prefix(Line(delivered, queue', << >>), Line(delivered, queue, group))
    PROVE  IInv'
<1> DEFINE s == Line(delivered, queue', << >>)
           t == Line(delivered, queue, group)
<1>1. delivered' = delivered /\ failed' = TRUE  BY DEF Err
<1>2. ReaderTypes'
  <2>1. << >> \in Seq(Nat)  BY EmptySeq
  <2> QED  BY <1>1, <2>1, FixedFacts DEF IInv, ReaderTypes, Fixed
<1>3. GroupIsLast'  BY DEF GroupIsLast
<1>4. Ascending(Line(delivered, queue, group), pos)'
  <2>1. delivered \in Seq(Nat) /\ queue \in Seq(Nat) /\ group \in Seq(Nat) /\ << >> \in Seq(Nat)
    BY EmptySeq DEF IInv, ReaderTypes
  <2>2. Parts(delivered, queue', << >>, s) /\ Parts(delivered, queue, group, t)
    BY <2>1, LineFacts
  <2>3. s \in Seq(Nat) /\ t \in Seq(Nat)  BY <2>2 DEF Parts
  <2>4. pos \in Int /\ pos' \in Int  BY DEF IInv, ReaderTypes, Positions
  <2>5. Ascending(t, pos) /\ Prefix(s, t)  BY DEF IInv
  <2> HIDE DEF s, t
  <2>6. Ascending(s, pos')
    BY ONLY <2>3, <2>4, <2>5, pos <= pos', AscendingPrefix
  <2> QED  BY <1>1, <2>6 DEF s
<1>5. NoneMissing'  BY <1>1 DEF NoneMissing
<1>6. Sound(delivered)' /\ Sound(queue)'
  BY <1>1, FixedFacts DEF IInv
<1>7. GroupHeadersSound'
  <2>1. Len(group') = 0  BY EmptySeq
  <2> QED  BY <2>1 DEF GroupHeadersSound
<1> QED  BY <1>2, <1>3, <1>4, <1>5, <1>6, <1>7 DEF IInv

\* A call that gives up what it had collected.
LEMMA GiveUp ==
    ASSUME IInv, Fixed, Err, group' = << >>, queue' = queue,
           pos' \in Positions, pos <= pos', pos' <= end
    PROVE  IInv'
<1>1. delivered \in Seq(Nat) /\ queue \in Seq(Nat) /\ group \in Seq(Nat)
  BY DEF IInv, ReaderTypes
<1>2. Len(group) \in 0..Len(group)  BY <1>1
<1>3. Prefix(Line(delivered, queue', << >>), Line(delivered, queue, group))
  BY <1>1, <1>2, LineLoses
<1>4. queue' \in Seq(Nat) /\ Sound(queue')  BY <1>1 DEF IInv
<1> QED  BY <1>3, <1>4, ErrStep

\* What was collected or queued is kept, and its first entry returned.
LEMMA EntryStep ==
    ASSUME IInv, Fixed, NEW w \in Seq(Nat), w # << >>, Entry(Head(w)),
           (queue = w /\ group = << >>) \/ (queue = << >> /\ group = w),
           queue' = Tail(w), group' = << >>, Sound(w),
           pos' \in Positions, pos <= pos', pos' <= end,
           ~failed => pos' = 3 * Len(Line(delivered, queue, group))
    PROVE  IInv'
<1> DEFINE t == Line(delivered, queue, group)
<1>1. delivered' = Append(delivered, Head(w)) /\ last' = "entry" /\ failed' = failed
  BY DEF Entry
<1>2. delivered \in Seq(Nat) /\ queue \in Seq(Nat) /\ group \in Seq(Nat)
  BY DEF IInv, ReaderTypes
<1>3. /\ Len(w) \in Nat \ {0} /\ Head(w) \in Nat /\ Head(w) = w[1]
      /\ Tail(w) \in Seq(Nat) /\ Len(Tail(w)) = Len(w) - 1
      /\ \A k \in 1..(Len(w) - 1) : Tail(w)[k] = w[k + 1]
  BY HeadTailFacts
<1>4. /\ Append(delivered, Head(w)) \in Seq(Nat)
      /\ Len(Append(delivered, Head(w))) = Len(delivered) + 1
      /\ \A k \in 1..Len(delivered) : Append(delivered, Head(w))[k] = delivered[k]
      /\ Append(delivered, Head(w))[Len(delivered) + 1] = Head(w)
  BY <1>2, <1>3, AppendFacts
<1>5. Line(delivered, queue, group)' = t
  <2>1. t \in {Line(delivered, w, << >>), Line(delivered, << >>, w)}  OBVIOUS
  <2>2. Line(Append(delivered, Head(w)), Tail(w), << >>) = t
    BY ONLY <1>2, <2>1, w \in Seq(Nat), w # << >>, LineMoves
  <2> QED  BY <1>1, <2>2
<1>6. ReaderTypes'
  <2>1. << >> \in Seq(Nat)  BY EmptySeq
  <2> QED  BY <1>1, <1>3, <1>4, <2>1, FixedFacts DEF IInv, ReaderTypes, Fixed
<1>7. GroupIsLast'  BY DEF GroupIsLast
<1>8. Ascending(t, pos')
  <2>1. Parts(delivered, queue, group, t)  BY <1>2, LineFacts
  <2>2. t \in Seq(Nat) /\ Ascending(t, pos)  BY <2>1 DEF Parts, IInv
  <2>3. pos \in Int /\ pos' \in Int  BY DEF IInv, ReaderTypes, Positions
  <2> HIDE DEF t
  <2>4. Prefix(t, t)  BY <2>2 DEF Prefix
  <2> QED  BY ONLY <2>2, <2>3, <2>4, pos <= pos', AscendingPrefix
<1>9. NoneMissing'
  <2>1. ~failed => CountsUp(t) /\ pos' = 3 * Len(t)  BY DEF IInv, NoneMissing
  <2> HIDE DEF t
  <2> QED  BY <1>1, <1>5, <2>1 DEF NoneMissing
<1>10. Sound(delivered)'
  <2>1. Sound(delivered)  BY DEF IInv
  <2>2. Sound(Append(delivered, Head(w)))
    <3> SUFFICES ASSUME NEW k \in 1..Len(Append(delivered, Head(w)))
                 PROVE  entries[Append(delivered, Head(w))[k]].fault \notin {"header", "data"}
      BY DEF Sound
    <3>1. CASE k = Len(delivered) + 1
      <4>1. 1 \in 1..Len(w)  BY <1>3
      <4> QED  BY <1>3, <1>4, <3>1, <4>1 DEF Sound
    <3>2. CASE k # Len(delivered) + 1
      <4>1. k \in 1..Len(delivered)
        <5>1. Len(delivered) \in Nat  BY <1>2
        <5> QED  BY ONLY <5>1, <1>4, <3>2, k \in 1..Len(Append(delivered, Head(w)))
      <4> QED  BY <1>4, <2>1, <4>1 DEF Sound
    <3> QED  BY <3>1, <3>2
  <2> QED  BY <1>1, <2>2, FixedFacts
<1>11. Sound(queue)'
  <2>1. Sound(Tail(w))
    <3> SUFFICES ASSUME NEW k \in 1..Len(Tail(w))
                 PROVE  entries[Tail(w)[k]].fault \notin {"header", "data"}
      BY DEF Sound
    <3>1. k \in 1..(Len(w) - 1) /\ k + 1 \in 1..Len(w)  BY <1>3
    <3> QED  BY <1>3, <3>1 DEF Sound
  <2> QED  BY <2>1, FixedFacts
<1>12. GroupHeadersSound'
  <2>1. Len(group') = 0  BY EmptySeq
  <2> QED  BY <2>1 DEF GroupHeadersSound
<1> QED  BY <1>1, <1>5, <1>6, <1>7, <1>8, <1>9, <1>10, <1>11, <1>12 DEF IInv
\* The entry at the reader's position is the one behind the sequence.
LEMMA NextIsNew ==
    ASSUME IInv, NEW i \in 1..Len(entries), pos = 3 * (i - 1), ~failed,
           group = << >> \/ ~entries[Last(group)].packed
    PROVE  i = Len(Line(delivered, queue, group)) + 1
<1> DEFINE t == Line(delivered, queue, group)
<1>1. delivered \in Seq(Nat) /\ queue \in Seq(Nat) /\ group \in Seq(Nat)
  BY DEF IInv, ReaderTypes
<1>2. Parts(delivered, queue, group, t)  BY <1>1, LineFacts
<1>3. CountsUp(t) /\ (group = << >> => pos = 3 * Len(t))  BY DEF IInv, NoneMissing
<1>4. i \in Int /\ Len(t) \in Nat  BY <1>2 DEF Parts, IInv, ReaderTypes
<1> HIDE DEF t
<1>5. CASE group = << >>
  <2>1. 3 * Len(t) = 3 * (i - 1)  BY <1>3, <1>5
  <2> QED  BY ONLY <1>4, <2>1 DEF t
<1>6. CASE group # << >>
  <2> DEFINE n == Len(group)
             j == group[n]
  <2>1. n \in Nat \ {0} /\ j \in Nat  BY <1>1, <1>6
  <2>2. pos = 3 * j  BY <1>6 DEF IInv, GroupIsLast, Behind, Last
  <2>3. Len(t) = Len(delivered) + Len(queue) + n /\ t[Len(delivered) + Len(queue) + n] = j
    BY <1>2, <2>1 DEF Parts
  <2> HIDE DEF n, j
  <2>4. Len(delivered) \in Nat /\ Len(queue) \in Nat  BY <1>1
  <2>5. Len(t) \in 1..Len(t)  BY ONLY <2>1, <2>3, <2>4
  <2>6. t[Len(t)] = Len(t)  BY ONLY <1>3, <2>5 DEF CountsUp
  <2>7. j = Len(t)  BY ONLY <2>3, <2>6
  <2>8. 3 * j = 3 * (i - 1)  BY <2>2
  <2> QED  BY ONLY <1>4, <2>1, <2>7, <2>8 DEF t
<1> QED  BY <1>5, <1>6

\* An entry on its own is returned.
LEMMA SingleStep ==
    ASSUME IInv, Fixed, queue = << >>, group = << >>, queue' = queue, group' = group,
           NEW i \in 1..Len(entries), pos = 3 * (i - 1), Behind(i) <= end,
           entries[i].fault # "header", Single(i, Behind(i))
    PROVE  IInv'
<1> DEFINE s == Line(delivered, queue, group)
           t == Line(Append(delivered, i), << >>, << >>)
<1>1. /\ Len(entries) \in Nat /\ i \in Nat /\ i \in Int
      /\ pos \in Int /\ end \in Int /\ pos <= end /\ end \in Positions
      /\ delivered \in Seq(Nat) /\ queue \in Seq(Nat) /\ group \in Seq(Nat)
  BY DEF IInv, ReaderTypes, Positions
<1>2. Behind(i) \in {3 * i - 1, 3 * i} /\ 3 * i \in Positions  BY BehindFacts DEF IInv
<1>3. CASE entries[i].packed /\ end < 3 * i
  <2>1. Err /\ pos' = end  BY <1>3 DEF Single
  <2> QED  BY <1>1, <2>1, GiveUp
<1>4. CASE ~(entries[i].packed /\ end < 3 * i)
  <2>1. pos' = 3 * i  BY <1>4 DEF Single
  <2>2. 3 * i <= end
    <3>1. CASE entries[i].packed  BY <1>1, <1>4, <3>1
    <3>2. CASE ~entries[i].packed  BY <3>2 DEF Behind
    <3> QED  BY <3>1, <3>2
  <2>3. pos' \in Positions /\ pos <= pos' /\ pos' <= end  BY <1>1, <1>2, <2>1, <2>2
  <2>4. CASE Err
    BY <1>1, <2>3, <2>4, GiveUp
  <2>5. CASE Entry(i) /\ entries[i].fault # "data"
    <3>1. delivered' = Append(delivered, i) /\ last' = "entry" /\ failed' = failed
      BY <2>5 DEF Entry
    <3>2. Extends(s, t, i)  BY <1>1, LineGrows
    <3>3. Line(delivered, queue, group)' = t  BY <3>1
    <3>4. Parts(delivered, queue, group, s)  BY <1>1, LineFacts
    <3>5. s \in Seq(Nat) /\ Ascending(s, pos)  BY <3>4 DEF Parts, IInv
    <3>6. Ascending(t, pos')
      <4>1. pos' \in Int /\ pos' >= 3 * i - 1  BY <1>1, <2>1
      <4> HIDE DEF s, t
      <4> QED  BY ONLY <1>1, <3>2, <3>5, <4>1, pos = 3 * (i - 1), AscendingExtends
    <3>7. ReaderTypes'
      <4>1. Append(delivered, i) \in Seq(Nat)  BY <1>1, AppendFacts
      <4> QED  BY <1>1, <2>3, <3>1, <4>1, FixedFacts DEF IInv, ReaderTypes, Fixed
    <3>8. GroupIsLast'  BY DEF GroupIsLast
    <3>9. NoneMissing'
      <4>1. SUFFICES ASSUME ~failed  PROVE CountsUp(t) /\ pos' = 3 * Len(t)
        BY <3>1, <3>3 DEF NoneMissing
      <4>2. i = Len(s) + 1  BY <4>1, NextIsNew
      <4>3. CountsUp(s)  BY <4>1 DEF IInv, NoneMissing
      <4>4. Len(t) = Len(s) + 1  BY <3>2 DEF Extends
      <4> HIDE DEF s, t
      <4>5. CountsUp(t)  BY ONLY <3>2, <3>5, <4>2, <4>3, CountsUpExtends
      <4> QED  BY ONLY <2>1, <4>2, <4>4, <4>5
    <3>10. Sound(delivered)'
      <4>1. /\ Len(Append(delivered, i)) = Len(delivered) + 1
            /\ \A k \in 1..Len(delivered) : Append(delivered, i)[k] = delivered[k]
            /\ Append(delivered, i)[Len(delivered) + 1] = i
            /\ Len(delivered) \in Nat
        BY <1>1, AppendFacts
      <4>2. Sound(Append(delivered, i))
        <5> SUFFICES ASSUME NEW k \in 1..Len(Append(delivered, i))
                     PROVE  entries[Append(delivered, i)[k]].fault \notin {"header", "data"}
          BY DEF Sound
        <5>1. CASE k = Len(delivered) + 1  BY <2>5, <4>1, <5>1
        <5>2. CASE k # Len(delivered) + 1
          <6>1. k \in 1..Len(delivered)
            BY ONLY <4>1, <5>2, k \in 1..Len(Append(delivered, i))
          <6> QED  BY <4>1, <6>1 DEF IInv, Sound
        <5> QED  BY <5>1, <5>2
      <4> QED  BY <3>1, <4>2, FixedFacts
    <3>11. Sound(queue)' /\ GroupHeadersSound'
      <4>1. Len(group') = 0  BY EmptySeq
      <4> QED  BY <4>1, FixedFacts DEF IInv, GroupHeadersSound
    <3> QED  BY <3>3, <3>6, <3>7, <3>8, <3>9, <3>10, <3>11 DEF IInv
  <2> QED  BY <1>4, <2>4, <2>5 DEF Single
<1> QED  BY <1>3, <1>4
\* An entry joins the group that is collected, or is its first.
LEMMA JoinStep ==
    ASSUME IInv, Fixed, queue = << >>, queue' = queue,
           group = << >> \/ ~entries[Last(group)].packed,
           NEW i \in 1..Len(entries), pos = 3 * (i - 1), Behind(i) <= end,
           entries[i].fault # "header",
           pos' = Behind(i), group' = Append(group, i), UNCHANGED <<delivered, failed>>,
           last' = last
    PROVE  IInv'
<1> DEFINE s == Line(delivered, queue, group)
           t == Line(delivered, << >>, Append(group, i))
<1>1. /\ Len(entries) \in Nat /\ i \in Nat /\ i \in Int
      /\ pos \in Int /\ end \in Int /\ pos <= end /\ end \in Positions
      /\ delivered \in Seq(Nat) /\ queue \in Seq(Nat) /\ group \in Seq(Nat)
  BY DEF IInv, ReaderTypes, Positions
<1>2. Behind(i) \in {3 * i - 1, 3 * i} /\ Behind(i) \in Positions  BY BehindFacts DEF IInv
<1>3. Extends(s, t, i)  BY <1>1, LineGrows
<1>4. Line(delivered, queue, group)' = t  OBVIOUS
<1>5. Parts(delivered, queue, group, s)  BY <1>1, LineFacts
<1>6. s \in Seq(Nat) /\ Ascending(s, pos)  BY <1>5 DEF Parts, IInv
<1>7. /\ Append(group, i) \in Seq(Nat) /\ Len(Append(group, i)) = Len(group) + 1
      /\ \A k \in 1..Len(group) : Append(group, i)[k] = group[k]
      /\ Append(group, i)[Len(group) + 1] = i
      /\ Len(group) \in Nat
  BY <1>1, AppendFacts
<1>8. pos' \in Positions /\ pos <= pos' /\ pos' <= end /\ pos' \in Int /\ pos' >= 3 * i - 1
  BY <1>1, <1>2
<1>9. ReaderTypes'  BY <1>1, <1>7, <1>8, FixedFacts DEF IInv, ReaderTypes, Fixed
<1>10. GroupIsLast'
  <2>1. group'[Len(group')] = i  BY <1>7
  <2>2. Behind(i)' = Behind(i)  BY FixedFacts
  <2>3. pos' = Behind(group[Len(group)])'  BY <2>1, <2>2
  <2> QED  BY <2>3 DEF GroupIsLast
<1>11. Ascending(t, pos')
  <2> HIDE DEF s, t
  <2> QED  BY ONLY <1>1, <1>3, <1>6, <1>8, pos = 3 * (i - 1), AscendingExtends
<1>12. NoneMissing'
  <2>1. group' # << >>
    <3>1. Len(group') # 0  BY <1>7
    <3> QED  BY <3>1, EmptySeq
  <2>2. SUFFICES ASSUME ~failed  PROVE CountsUp(t) /\ last # "none"
    BY <1>4, <2>1 DEF NoneMissing
  <2>3. i = Len(s) + 1  BY <2>2, NextIsNew
  <2>4. CountsUp(s) /\ (last = "none" => pos = end)  BY <2>2 DEF IInv, NoneMissing
  <2>5. pos # end  BY <1>1, <1>2
  <2> HIDE DEF s, t
  <2>6. CountsUp(t)  BY ONLY <1>3, <1>6, <2>3, <2>4, CountsUpExtends
  <2> QED  BY <2>4, <2>5, <2>6
<1>13. GroupHeadersSound'
  <2> SUFFICES ASSUME NEW k \in 1..Len(Append(group, i))
               PROVE  entries[Append(group, i)[k]].fault # "header"
    BY DEF GroupHeadersSound, Fixed
  <2>1. CASE k = Len(group) + 1  BY <1>7, <2>1
  <2>2. CASE k # Len(group) + 1
    <3>1. k \in 1..Len(group)  BY ONLY <1>7, <2>2, k \in 1..Len(Append(group, i))
    <3> QED  BY <1>7, <3>1 DEF IInv, GroupHeadersSound
  <2> QED  BY <2>1, <2>2
<1>14. Sound(delivered)' /\ Sound(queue)'  BY FixedFacts DEF IInv
<1> QED  BY <1>4, <1>9, <1>10, <1>11, <1>12, <1>13, <1>14 DEF IInv

\* The header with which a call begins.
LEMMA StartStep ==
    ASSUME IInv, Start
    PROVE  IInv'
<1> USE DEF Start, FirstHeader
<1>1. Fixed /\ queue = << >> /\ group = << >> /\ queue' = queue  BY DEF Fixed
<1>2. PICK m \in EntryMeta :
          \/ m.id = 0  /\ None /\ pos' = m.pos /\ group' = group
          \/ m.id = -1 /\ Err /\ pos' = m.pos /\ group' = group
          \/ m.id > 0 /\ ~entries[m.id].merged /\ Single(m.id, m.pos) /\ group' = group
          \/ /\ m.id > 0 /\ entries[m.id].merged
             /\ group' = <<m.id>> /\ pos' = m.pos
             /\ UNCHANGED <<delivered, last, failed>>
  OBVIOUS
<1>3. MetaSound(m)  BY MetaFacts DEF IInv
<1>4. CASE m.id = 0 /\ None /\ pos' = m.pos /\ group' = group
  <2>1. /\ pos' = pos /\ pos = end /\ last' = "none"
        /\ delivered' = delivered /\ failed' = failed
    BY <1>3, <1>4 DEF MetaSound, None
  <2>2. ReaderTypes' /\ GroupIsLast'
    BY <1>1, <1>4, <2>1, FixedFacts DEF IInv, ReaderTypes, GroupIsLast, Fixed
  <2>3. Ascending(Line(delivered, queue, group), pos)'  BY <1>1, <1>4, <2>1 DEF IInv
  <2>4. NoneMissing'  BY <1>1, <1>4, <2>1 DEF IInv, NoneMissing, Fixed
  <2>5. Sound(delivered)' /\ Sound(queue)' /\ GroupHeadersSound'
    BY <1>1, <1>4, <2>1, FixedFacts DEF IInv, GroupHeadersSound, Fixed
  <2> QED  BY <2>2, <2>3, <2>4, <2>5 DEF IInv
<1>5. CASE m.id = -1 /\ Err /\ pos' = m.pos /\ group' = group
  BY <1>1, <1>3, <1>5, GiveUp DEF MetaSound
<1>6. CASE m.id > 0 /\ ~entries[m.id].merged /\ Single(m.id, m.pos) /\ group' = group
  <2>1. /\ m.id \in 1..Len(entries) /\ pos = 3 * (m.id - 1) /\ m.pos = Behind(m.id)
        /\ Behind(m.id) <= end /\ entries[m.id].fault # "header"
    BY <1>3, <1>6 DEF MetaSound
  <2> QED  BY <1>1, <1>6, <2>1, SingleStep
<1>7. CASE /\ m.id > 0 /\ entries[m.id].merged
           /\ group' = <<m.id>> /\ pos' = m.pos
           /\ UNCHANGED <<delivered, last, failed>>
  <2>1. /\ m.id \in 1..Len(entries) /\ pos = 3 * (m.id - 1) /\ m.pos = Behind(m.id)
        /\ Behind(m.id) <= end /\ entries[m.id].fault # "header"
    BY <1>3, <1>7 DEF MetaSound
  <2>2. group' = Append(group, m.id)  BY <1>1, <1>7
  <2> QED  BY <1>1, <1>7, <2>1, <2>2, JoinStep
<1> QED  BY <1>2, <1>4, <1>5, <1>6, <1>7

\* A header looked at for the payload of a group.
LEMMA CollectStep ==
    ASSUME IInv, Collect
    PROVE  IInv'
<1> USE DEF Collect
<1>1. Fixed /\ queue = << >> /\ queue' = queue /\ ~entries[Last(group)].packed
  BY DEF Fixed, IInv, GroupIsLast
<1>2. PICK m \in EntryMeta :
          /\ pos' = m.pos
          /\ \/ Err /\ group' = << >>
             \/ /\ m.id > 0
                /\ group' = Append(group, m.id)
                /\ UNCHANGED <<delivered, last, failed>>
  OBVIOUS
<1>3. MetaSound(m)  BY MetaFacts DEF IInv
<1>4. CASE Err /\ group' = << >>
  BY <1>1, <1>2, <1>3, <1>4, GiveUp DEF MetaSound
<1>5. CASE m.id > 0 /\ group' = Append(group, m.id) /\ UNCHANGED <<delivered, last, failed>>
  <2>1. /\ m.id \in 1..Len(entries) /\ pos = 3 * (m.id - 1) /\ m.pos = Behind(m.id)
        /\ Behind(m.id) <= end /\ entries[m.id].fault # "header"
    BY <1>3, <1>5 DEF MetaSound
  <2> QED  BY <1>1, <1>2, <1>5, <2>1, JoinStep
<1> QED  BY <1>2, <1>4, <1>5

\* The payload of a group is read, and its stream cut into slices.
LEMMA UnpackStep ==
    ASSUME IInv, Unpack
    PROVE  IInv'
<1> USE DEF Unpack
<1> DEFINE n == Len(group)
           tail == Last(group)
<1>1. Fixed /\ queue = << >> /\ group # << >> /\ group' = << >> /\ entries[tail].packed
  BY DEF Fixed, IInv, GroupIsLast
<1>2. /\ Len(entries) \in Nat /\ pos \in Int /\ 0 <= pos /\ pos <= 3 * Len(entries)
      /\ end \in Int /\ end \in Positions /\ pos <= end
      /\ delivered \in Seq(Nat) /\ queue \in Seq(Nat) /\ group \in Seq(Nat)
  BY DEF IInv, ReaderTypes, Positions
<1>3. n \in Nat \ {0} /\ tail = group[n] /\ tail \in Nat
  <2>1. n \in Nat \ {0}  BY ONLY <1>1, <1>2
  <2>2. tail = group[n]  BY DEF Last
  <2> QED  BY ONLY <1>2, <2>1, <2>2
<1>4. pos = 3 * tail - 1  BY <1>1, <1>3 DEF IInv, GroupIsLast, Behind
<1>5. tail \in 1..Len(entries) /\ pos <= 3 * tail
  <2> DEFINE m == Len(entries)
  <2>1. m \in Nat /\ pos \in Int /\ 0 <= pos /\ pos <= 3 * m /\ tail \in Int  BY <1>2, <1>3
  <2> HIDE DEF n, tail, m
  <2>2. 1 <= tail /\ tail <= m /\ pos <= 3 * tail  BY ONLY <1>4, <2>1
  <2>3. tail \in 1..m  BY ONLY <2>1, <2>2
  <2> QED  BY <2>2, <2>3 DEF m
<1>6. 3 * tail \in Positions  BY <1>5, BehindFacts DEF IInv
<1>7. CASE end < 3 * tail
  <2>1. Err /\ pos' = end /\ queue' = queue  BY <1>7
  <2> QED  BY <1>1, <1>2, <2>1, GiveUp
<1>8. CASE ~(end < 3 * tail)
  <2>1. pos' = 3 * tail /\ (Demux(group) \/ (Err /\ queue' = queue))  BY <1>8
  <2>2. pos' \in Positions /\ pos <= pos' /\ pos' <= end
    <3> HIDE DEF n, tail
    <3>1. pos \in Int /\ end \in Int /\ tail \in Int  BY ONLY <1>2, <1>3
    <3>2. 3 * tail <= end  BY ONLY <1>8, <3>1
    <3> QED  BY ONLY <1>5, <1>6, <2>1, <3>2
  <2>3. CASE Err /\ queue' = queue
    BY <1>1, <2>2, <2>3, GiveUp
  <2>4. CASE Demux(group)
    <3> DEFINE bad == {k \in DOMAIN group : ~Verified(group, k)}
    <3>1. DOMAIN group = 1..n  BY <1>2
    <3>2. \A k \in 1..n : k \notin bad =>
              entries[group[k]].fault \notin {"header", "data"}
      BY <3>1 DEF Verified, IInv, GroupHeadersSound
    <3>3. CASE bad = {}
      <4>1. Entry(Head(group)) /\ queue' = Tail(group)  BY <2>4, <3>3 DEF Demux
      <4>2. Sound(group)  BY <3>2, <3>3 DEF Sound
      <4>3. ~failed => pos' = 3 * Len(Line(delivered, queue, group))
        <5> DEFINE t == Line(delivered, queue, group)
        <5>1. SUFFICES ASSUME ~failed  PROVE tail = Len(t)  BY <2>1
        <5>2. CountsUp(t)  BY <5>1 DEF IInv, NoneMissing
        <5>3. Parts(delivered, queue, group, t)  BY <1>2, LineFacts
        <5>4. /\ Len(t) = Len(delivered) + Len(queue) + n
              /\ t[Len(delivered) + Len(queue) + n] = tail
          BY <1>3, <5>3 DEF Parts
        <5>5. Len(delivered) \in Nat /\ Len(queue) \in Nat  BY <1>2
        <5> HIDE DEF n, tail, t
        <5>6. Len(t) \in 1..Len(t)  BY ONLY <1>3, <5>4, <5>5
        <5> QED  BY ONLY <5>2, <5>4, <5>6 DEF CountsUp
      <4> QED  BY <1>1, <1>2, <2>2, <4>1, <4>2, <4>3, EntryStep
    <3>4. CASE bad # {}
      <4> DEFINE b == Min(bad)
      <4>1. Err /\ queue' = SubSeq(group, 1, b - 1)  BY <2>4, <3>4 DEF Demux
      <4>2. bad \in SUBSET Nat  BY <3>1
      <4>3. b \in bad /\ \A y \in bad : b <= y
        <5> HIDE DEF bad
        <5> QED  BY <3>4, <4>2, MinFacts
      <4>4. b \in 1..n /\ b - 1 \in 0..n /\ b \in Int  BY <1>3, <3>1, <4>3
      <4>5. /\ SubSeq(group, 1, b - 1) \in Seq(Nat) /\ Len(SubSeq(group, 1, b - 1)) = b - 1
            /\ \A k \in 1..(b - 1) : SubSeq(group, 1, b - 1)[k] = group[k]
        <5> HIDE DEF b
        <5> QED  BY <1>2, <4>4, SubSeqFacts
      <4>6. Sound(SubSeq(group, 1, b - 1))
        <5> HIDE DEF b
        <5> SUFFICES ASSUME NEW k \in 1..Len(SubSeq(group, 1, b - 1))
                     PROVE  entries[SubSeq(group, 1, b - 1)[k]].fault \notin {"header", "data"}
          BY DEF Sound
        <5>1. k \in 1..(b - 1) /\ k \in 1..n /\ ~(b <= k)  BY <1>3, <4>4, <4>5
        <5>2. k \notin bad  BY ONLY <4>3, <5>1
        <5> QED  BY <3>2, <4>5, <5>1, <5>2
      <4>7. Prefix(Line(delivered, SubSeq(group, 1, b - 1), << >>), Line(delivered, << >>, group))
        <5> HIDE DEF b
        <5> QED  BY <1>2, <4>4, LineLoses
      <4> HIDE DEF b
      <4> QED  BY <1>1, <2>2, <4>1, <4>5, <4>6, <4>7, ErrStep
    <3> QED  BY <3>3, <3>4
  <2> QED  BY <2>1, <2>3, <2>4
<1> QED  BY <1>7, <1>8

LEMMA InitFacts ==
    ASSUME Init
    PROVE  IInv
<1>1. PICK n \in 0..MaxEntries : entries \in [1..n -> Entries]  BY DEF Init
<1>2. /\ end \in Positions /\ pos = 0 /\ queue = << >> /\ group = << >> /\ delivered = << >>
  BY DEF Init
<1>3. ReaderTypes
  <2>1. n \in Nat  BY ReaderAssumption
  <2>2. DOMAIN entries = 1..n /\ entries \in Seq(Entries)  BY ONLY <1>1, <2>1
  <2>3. Len(entries) \in Nat  BY ONLY <2>2
  <2>4. end \in 0..(3 * Len(entries))  BY <1>2 DEF Positions
  <2>5. 0 \in Positions
    <3>1. 0 \in 0..(3 * Len(entries)) /\ 0 % 3 # 2  BY ONLY <2>3
    <3> QED  BY <3>1 DEF Positions
  <2>6. pos \in Positions /\ pos <= end  BY ONLY <1>2, <2>3, <2>4, <2>5
  <2> QED  BY ONLY <1>2, <2>3, <2>6, EmptySeq DEF ReaderTypes
<1>4. Parts(delivered, queue, group, Line(delivered, queue, group))
  BY <1>3, LineFacts DEF ReaderTypes
<1>5. Len(Line(delivered, queue, group)) = 0  BY ONLY <1>2, <1>4, EmptySeq DEF Parts
<1>6. Ascending(Line(delivered, queue, group), pos)
  <2> DEFINE t == Line(delivered, queue, group)
  <2> HIDE DEF t
  <2>1. 1..Len(t) = {} /\ 1..(Len(t) - 1) = {}  BY <1>5 DEF t
  <2>2. Ascending(t, pos)  BY ONLY <2>1 DEF Ascending
  <2> QED  BY <2>2 DEF t
<1>7. NoneMissing
  <2> DEFINE t == Line(delivered, queue, group)
  <2> HIDE DEF t
  <2>1. CountsUp(t)
    <3>1. 1..Len(t) = {}  BY <1>5 DEF t
    <3> QED  BY ONLY <3>1 DEF CountsUp
  <2>2. pos = 3 * Len(t)
    <3>1. Len(t) = 0  BY <1>5 DEF t
    <3> QED  BY ONLY <1>2, <3>1
  <2>3. last # "none"  BY Zenon DEF Init
  <2> QED  BY <2>1, <2>2, <2>3 DEF NoneMissing, t
<1>8. Sound(delivered) /\ Sound(queue) /\ GroupHeadersSound
  BY ONLY <1>2, EmptySeq DEF Sound, GroupHeadersSound
<1> QED  BY <1>2, <1>3, <1>6, <1>7, <1>8 DEF IInv, GroupIsLast

LEMMA NextFacts ==
    ASSUME IInv, [Next]_vars
    PROVE  IInv'
<1>1. CASE ReturnQueued
  <2>1. Fixed /\ pos' = pos /\ group' = group  BY <1>1 DEF ReturnQueued, Fixed
  <2>2. pos \in Positions /\ pos \in Int /\ pos <= end /\ queue \in Seq(Nat)
    BY DEF IInv, ReaderTypes, Positions
  <2>3. ~failed => pos' = 3 * Len(Line(delivered, queue, group))
    BY <1>1, <2>1 DEF ReturnQueued, IInv, NoneMissing
  <2>4. Sound(queue) /\ pos <= pos  BY <2>2 DEF IInv
  <2> QED  BY <1>1, <2>1, <2>2, <2>3, <2>4, EntryStep DEF ReturnQueued
<1>2. CASE Start
  BY <1>2, StartStep
<1>3. CASE Collect
  BY <1>3, CollectStep
<1>4. CASE Unpack
  BY <1>4, UnpackStep
<1>5. CASE ReadFails
  BY <1>5, GiveUp DEF ReadFails, Fixed
<1>6. CASE UNCHANGED vars
  <2>1. Fixed  BY <1>6 DEF vars, Fixed
  <2> QED
    BY <1>6, <2>1, FixedFacts
    DEF vars, IInv, ReaderTypes, GroupIsLast, NoneMissing, GroupHeadersSound
<1> QED  BY <1>1, <1>2, <1>3, <1>4, <1>5, <1>6 DEF Next

-----------------------------------------------------------------------------
(* What can be recovered *)

\* What has come out or waits, and what of the first n entries should have.
Handled == Range(delivered) \cup Range(queue)
Good(n) == {i \in 1..n : Recoverable(i)}

\* No group is open behind the first n entries.
Closed(n) == n \in 0..Len(entries) /\ (n = 0 \/ ~entries[n].merged \/ entries[n].packed)

\* The entries behind the first n, of one group.
RunsOn(g, n) ==
    \A k \in 1..Len(g) :
        g[k] = n + k /\ entries[n + k].merged /\ (k < Len(g) => ~entries[n + k].packed)

\* In step the reader stands between two entries or groups, in a group it has
\* collected from its first entry on, or at the end of the file.
Between(n) == group = << >> /\ pos = 3 * n /\ Closed(n) /\ Handled = Good(n)
Collecting(n) ==
    /\ group # << >> /\ queue = << >>
    /\ Closed(n) /\ n + Len(group) <= Len(entries) /\ RunsOn(group, n)
    /\ pos = Behind(n + Len(group)) /\ Handled = Good(n)
AtEnd == group = << >> /\ pos = end /\ Handled = Good(Len(entries))
NothingLost == InStep => AtEnd \/ \E n \in 0..Len(entries) : Between(n) \/ Collecting(n)
EndIsEnd == last = "none" => pos = end /\ queue = << >> /\ group = << >>

\* Of damage that leaves the headers readable: nothing that could be recovered
\* is lost between the entries handled and the position of the reader.
RInv ==
    /\ IInv
    /\ DOMAIN entries = 1..Len(entries) /\ hiccups \in Nat
    /\ EndIsEnd
    /\ NothingLost

LEMMA RangeFacts ==
    ASSUME NEW s \in Seq(Nat)
    PROVE  Range(s) = {s[k] : k \in 1..Len(s)}
  BY DEF Range

LEMMA RangeEmpty == Range(<< >>) = {}
<1>1. Range(<< >>) = {<< >>[k] : k \in 1..Len(<< >>)}  BY ONLY EmptySeq, RangeFacts
<1>2. 1..Len(<< >>) = {}  BY EmptySeq
<1> QED  BY ONLY <1>1, <1>2

LEMMA RangeAppend ==
    ASSUME NEW s \in Seq(Nat), NEW e \in Nat
    PROVE  Range(Append(s, e)) = Range(s) \cup {e}
<1> DEFINE t == Append(s, e)
           n == Len(s)
<1>1. t \in Seq(Nat) /\ Len(t) = n + 1 /\ (\A k \in 1..n : t[k] = s[k]) /\ t[n + 1] = e
      /\ n \in Nat
  BY AppendFacts
<1>2. Range(s) = {s[k] : k \in 1..n} /\ Range(t) = {t[k] : k \in 1..(n + 1)}
  BY <1>1, RangeFacts
<1> HIDE DEF t, n
<1>3. 1..(n + 1) = (1..n) \cup {n + 1}  BY <1>1
<1>4. Range(t) = {t[k] : k \in 1..n} \cup {t[n + 1]}  BY ONLY <1>2, <1>3
<1>5. {t[k] : k \in 1..n} = {s[k] : k \in 1..n}  BY ONLY <1>1
<1> QED  BY ONLY <1>1, <1>2, <1>4, <1>5 DEF t

LEMMA RangeHeadTail ==
    ASSUME NEW s \in Seq(Nat), s # << >>
    PROVE  Range(s) = {Head(s)} \cup Range(Tail(s))
<1> DEFINE t == Tail(s)
           n == Len(s)
<1>1. /\ n \in Nat \ {0} /\ Head(s) = s[1] /\ t \in Seq(Nat) /\ Len(t) = n - 1
      /\ \A k \in 1..(n - 1) : t[k] = s[k + 1]
  BY HeadTailFacts
<1>2. Range(s) = {s[k] : k \in 1..n} /\ Range(t) = {t[k] : k \in 1..(n - 1)}
  BY <1>1, RangeFacts
<1> HIDE DEF t, n
<1>3. {t[k] : k \in 1..(n - 1)} = {s[k + 1] : k \in 1..(n - 1)}  BY ONLY <1>1
<1>4. {s[k] : k \in 1..n} = {s[1]} \cup {s[k + 1] : k \in 1..(n - 1)}
  <2>1. ASSUME NEW k \in 1..n  PROVE s[k] \in {s[1]} \cup {s[j + 1] : j \in 1..(n - 1)}
    <3>1. CASE k = 1  BY <3>1
    <3>2. CASE k # 1
      <4>1. k - 1 \in 1..(n - 1) /\ (k - 1) + 1 = k  BY <1>1, <3>2
      <4> QED  BY ONLY <4>1
    <3> QED  BY <3>1, <3>2
  <2>2. \A k \in 1..(n - 1) : k + 1 \in 1..n  BY <1>1
  <2>3. 1 \in 1..n  BY <1>1
  <2> QED  BY ONLY <2>1, <2>2, <2>3
<1> QED  BY ONLY <1>1, <1>2, <1>3, <1>4 DEF t

\* A run of entries is an interval.
LEMMA RangeOfRun ==
    ASSUME NEW g \in Seq(Nat), NEW n \in Nat, \A k \in 1..Len(g) : g[k] = n + k
    PROVE  Range(g) = (n + 1)..(n + Len(g))
<1> DEFINE l == Len(g)
<1>1. l \in Nat /\ Range(g) = {g[k] : k \in 1..l}  BY RangeFacts
<1>2. {g[k] : k \in 1..l} = {n + k : k \in 1..l}  OBVIOUS
<1> HIDE DEF l
<1>3. {n + k : k \in 1..l} = (n + 1)..(n + l)
  <2>1. ASSUME NEW x \in (n + 1)..(n + l)  PROVE x \in {n + k : k \in 1..l}
    <3>1. x - n \in 1..l /\ n + (x - n) = x  BY <1>1
    <3> QED  BY ONLY <3>1
  <2>2. \A k \in 1..l : n + k \in (n + 1)..(n + l)  BY <1>1
  <2> QED  BY ONLY <2>1, <2>2
<1> QED  BY ONLY <1>1, <1>2, <1>3 DEF l

\* An entry whose payload is not in the file is not recovered.
LEMMA PayloadMissing ==
    ASSUME RInv, NEW i \in 1..Len(entries),
           \A t \in i..Len(entries) : entries[t].packed => end < 3 * t, end < 3 * i \/ entries[i].merged
    PROVE  ~Recoverable(i)
<1> SUFFICES ASSUME Recoverable(i)  PROVE FALSE  OBVIOUS
<1>1. end \in Int /\ Len(entries) \in Nat  BY DEF RInv, IInv, ReaderTypes, Positions
<1>2. CASE ~entries[i].merged
  <2>1. end >= 3 * i  BY <1>2 DEF Recoverable
  <2> QED  BY <1>1, <1>2, <2>1
<1>3. CASE entries[i].merged
  <2>1. PICK t \in GroupOf(i) : entries[t].packed /\ end >= 3 * t  BY <1>3 DEF Recoverable
  <2>2. t \in 1..Len(entries) /\ SameGroup(i, t)  BY <2>1 DEF GroupOf, RInv
  <2>3. ~(t < i)
    <3> SUFFICES ASSUME t < i  PROVE FALSE  OBVIOUS
    <3>1. t \in t..(i - 1)  BY <2>2
    <3>2. ~entries[t].packed  BY <2>2, <3>1 DEF SameGroup
    <3> QED  BY <2>1, <3>2
  <2>4. t \in i..Len(entries) /\ t \in Int  BY <2>2, <2>3
  <2>5. end < 3 * t  BY <2>1, <2>4
  <2> QED  BY ONLY <1>1, <2>1, <2>4, <2>5
<1> QED  BY <1>2, <1>3

\* Once no payload is left in the file, nothing more can be recovered.
LEMMA NothingBeyond ==
    ASSUME RInv, NEW n \in 0..Len(entries),
           \A t \in (n + 1)..Len(entries) :
               (entries[t].packed => end < 3 * t) /\ (end < 3 * t \/ entries[t].merged)
    PROVE  Good(n) = Good(Len(entries))
<1>1. n \in Nat /\ Len(entries) \in Nat /\ n <= Len(entries)
  BY DEF RInv, IInv, ReaderTypes
<1>2. ASSUME NEW i \in 1..Len(entries), i > n  PROVE ~Recoverable(i)
  <2>1. i \in (n + 1)..Len(entries)  BY <1>1, <1>2
  <2>2. \A t \in i..Len(entries) : t \in (n + 1)..Len(entries)  BY <1>1, <1>2
  <2> QED  BY <2>1, <2>2, PayloadMissing
<1>3. \A i \in 1..Len(entries) : Recoverable(i) => i \in 1..n  BY <1>1, <1>2
<1>4. \A i \in 1..n : i \in 1..Len(entries)  BY <1>1
<1> QED  BY <1>3, <1>4 DEF Good

\* A group that was collected from its first entry to its payload is the
\* group of each of its entries.
LEMMA GroupIsRun ==
    ASSUME RInv, NEW n \in Nat, Closed(n), NEW t \in (n + 1)..Len(entries),
           \A k \in (n + 1)..t : entries[k].merged,
           \A k \in (n + 1)..(t - 1) : ~entries[k].packed,
           entries[t].packed, NEW i \in (n + 1)..t
    PROVE  GroupOf(i) = (n + 1)..t
<1>1. t \in Nat /\ i \in Nat /\ n + 1 <= i /\ i <= t /\ Len(entries) \in Nat /\ t <= Len(entries)
  BY DEF RInv, IInv, ReaderTypes
<1>2. DOMAIN entries = 1..Len(entries)  BY DEF RInv
<1>3. ASSUME NEW j \in (n + 1)..t  PROVE j \in GroupOf(i)
  <2>1. \A k \in (i..(j - 1)) \cup (j..(i - 1)) : k \in (n + 1)..(t - 1) /\ k \in (n + 1)..t
    BY <1>1
  <2>2. SameGroup(i, j)  BY <2>1 DEF SameGroup
  <2>3. j \in 1..Len(entries)  BY <1>1
  <2> QED  BY <1>2, <2>2, <2>3 DEF GroupOf
<1>4. ASSUME NEW j \in GroupOf(i)  PROVE j \in (n + 1)..t
  <2>1. j \in 1..Len(entries) /\ SameGroup(i, j)  BY <1>2 DEF GroupOf
  <2>2. ~(j > t)
    <3> SUFFICES ASSUME j > t  PROVE FALSE  OBVIOUS
    <3>1. t \in i..(j - 1)  BY <1>1, <2>1
    <3> QED  BY <2>1, <3>1 DEF SameGroup
  <2>3. ~(j <= n)
    <3> SUFFICES ASSUME j <= n  PROVE FALSE  OBVIOUS
    <3>1. n \in j..(i - 1) /\ n # 0  BY <1>1, <2>1
    <3>2. entries[n].merged /\ ~entries[n].packed  BY <2>1, <3>1 DEF SameGroup
    <3> QED  BY <3>1, <3>2 DEF Closed
  <2> QED  BY ONLY <1>1, <2>1, <2>2, <2>3, n \in Nat
<1> QED  BY <1>3, <1>4

\* Entries n + 1 to t are one group.
Whole(n, t) ==
    /\ n \in Nat /\ Closed(n) /\ t \in (n + 1)..Len(entries)
    /\ \A k \in (n + 1)..t : entries[k].merged
    /\ \A k \in (n + 1)..(t - 1) : ~entries[k].packed
    /\ entries[t].packed

\* What can be recovered of it: everything before the first damaged slice.
LEMMA GroupRecoverable ==
    ASSUME RInv, NEW n, NEW t, Whole(n, t), NEW i \in (n + 1)..t
    PROVE  Recoverable(i) <=>
               /\ \A j \in (n + 1)..i : entries[j].fault # "data"
               /\ end >= 3 * t
               /\ (SizeOf((n + 1)..t) = 0 \/ entries[t].fault # "payload")
<1> DEFINE G == (n + 1)..t
<1>1. n \in Nat /\ t \in Int /\ n + 1 <= t /\ i \in Int /\ n + 1 <= i /\ i <= t  BY DEF Whole
<1>2. GroupOf(i) = G  BY GroupIsRun DEF Whole
<1>3. entries[i].merged  BY DEF Whole
<1>4. t \in G /\ entries[t].packed /\ \A k \in G : entries[k].packed => k = t
  <2>1. \A k \in G : k = t \/ k \in (n + 1)..(t - 1)  BY <1>1
  <2> QED  BY <1>1, <2>1 DEF Whole
<1>5. \A j : j \in (n + 1)..i <=> (j \in G /\ j <= i)  BY <1>1
<1> HIDE DEF G
<1>6. Recoverable(i) <=>
          /\ \A j \in G : j <= i => entries[j].fault # "data"
          /\ \E k \in G : /\ entries[k].packed /\ end >= 3 * k
                          /\ (SizeOf(G) = 0 \/ entries[k].fault # "payload")
  BY <1>2, <1>3 DEF Recoverable
<1>7. (\E k \in G : /\ entries[k].packed /\ end >= 3 * k
                     /\ (SizeOf(G) = 0 \/ entries[k].fault # "payload"))
      <=> (end >= 3 * t /\ (SizeOf(G) = 0 \/ entries[t].fault # "payload"))
  BY <1>4
<1>8. (\A j \in G : j <= i => entries[j].fault # "data")
      <=> (\A j \in (n + 1)..i : entries[j].fault # "data")
  BY <1>5
<1> QED  BY <1>6, <1>7, <1>8 DEF G

\* A group collected from its first entry on is cut where it was joined.
LEMMA SlicesFit ==
    ASSUME RInv, NEW n, NEW g \in Seq(Nat), Whole(n, n + Len(g)), RunsOn(g, n),
           NEW k \in 1..Len(g)
    PROVE  Verified(g, k) <=> entries[n + k].fault # "data"
<1> DEFINE i == n + k
           t == n + Len(g)
<1>1. n \in Nat /\ Len(g) \in Nat /\ k \in Int /\ 1 <= k /\ k <= Len(g)  BY DEF Whole
<1>2. i \in (n + 1)..t /\ t \in Int  BY <1>1
<1>3. GroupOf(i) = (n + 1)..t
  <2> HIDE DEF i, t
  <2> QED  BY <1>2, GroupIsRun DEF Whole, t
<1>4. g[k] = i  BY DEF RunsOn
<1>5. {g[j] : j \in 1..(k - 1)} = {j \in GroupOf(i) : j < i}
  <2>1. \A j \in 1..(k - 1) : g[j] = n + j  BY <1>1 DEF RunsOn
  <2>2. {g[j] : j \in 1..(k - 1)} = {n + j : j \in 1..(k - 1)}  BY ONLY <2>1
  <2>3. {n + j : j \in 1..(k - 1)} = {j \in (n + 1)..t : j < i}
    <3>1. ASSUME NEW x \in (n + 1)..t, x < i  PROVE x \in {n + j : j \in 1..(k - 1)}
      <4>1. x - n \in 1..(k - 1) /\ n + (x - n) = x  BY <1>1, <3>1
      <4> QED  BY ONLY <4>1
    <3>2. \A j \in 1..(k - 1) : n + j \in (n + 1)..t /\ n + j < i  BY <1>1
    <3> QED  BY ONLY <3>1, <3>2
  <2> QED  BY ONLY <1>3, <2>2, <2>3
<1>6. SizeOf({g[j] : j \in 1..(k - 1)}) = OffsetInStream(i)  BY <1>5 DEF OffsetInStream
<1> HIDE DEF i
<1> QED  BY <1>4, <1>6 DEF Verified, i

\* In step, the next header is whole and sound, or the end cuts it off.
LEMMA MetaInStep ==
    ASSUME RInv, InStep, NEW n \in 0..Len(entries), pos = 3 * n, NEW m \in EntryMeta
    PROVE  \/ m.id = 0 /\ pos = end /\ m.pos = pos
           \/ m.id = -1 /\ m.pos = end /\ end < 3 * n + 2
           \/ /\ m.id = n + 1 /\ n + 1 \in 1..Len(entries)
              /\ m.pos = Behind(n + 1) /\ Behind(n + 1) <= end
<1>1. /\ Len(entries) \in Nat /\ n \in Nat /\ end \in Int /\ end <= 3 * Len(entries)
      /\ pos <= end /\ n <= Len(entries) /\ DOMAIN entries = 1..Len(entries)
  BY DEF RInv, IInv, ReaderTypes, Positions
<1>2. pos \div 3 = n /\ pos % 3 = 0  BY <1>1
<1>3. CASE pos = end
  <2>1. m = [id |-> 0, pos |-> pos]  BY <1>3 DEF EntryMeta
  <2> QED  BY <1>3, <2>1
<1>4. CASE pos # end
  <2>1. n + 1 \in 1..Len(entries)  BY <1>1, <1>4
  <2>2. entries[n + 1].fault # "header"  BY <1>1, <2>1 DEF InStep
  <2>3. CASE end < pos + 2
    <3>1. m = [id |-> -1, pos |-> end]  BY <1>2, <1>4, <2>2, <2>3 DEF EntryMeta
    <3> QED  BY <2>3, <3>1
  <2>4. CASE ~(end < pos + 2)
    <3>1. m = [id |-> n + 1, pos |-> Behind(n + 1)]  BY <1>2, <1>4, <2>2, <2>4 DEF EntryMeta
    <3>2. 3 * (n + 1) - 1 <= end  BY <1>1, <2>4
    <3>3. Behind(n + 1) <= end  BY <2>1, <3>2, BehindFacts DEF RInv, IInv
    <3> QED  BY <2>1, <3>1, <3>3
  <2> QED  BY <2>3, <2>4
<1> QED  BY <1>3, <1>4

\* What is said of the file stays true of it.
LEMMA FileStays ==
    ASSUME Fixed
    PROVE  /\ \A n : Closed(n)' = Closed(n)
           /\ \A n : Good(n)' = Good(n)
           /\ \A g, n : RunsOn(g, n)' = RunsOn(g, n)
           /\ hiccups' = hiccups => InStep' = InStep
<1>1. entries' = entries /\ end' = end  BY DEF Fixed
<1>2. \A S : SizeOf(S)' = SizeOf(S)  BY <1>1 DEF SizeOf, MapThenSumSet, MapThenFoldSet
<1>3. \A i : GroupOf(i)' = GroupOf(i)  BY <1>1 DEF GroupOf, SameGroup
<1>4. \A i : Recoverable(i)' = Recoverable(i)  BY <1>1, <1>2, <1>3 DEF Recoverable
<1>5. \A n : Good(n)' = Good(n)  BY <1>4 DEF Good
<1>6. \A n : Closed(n)' = Closed(n)  BY <1>1 DEF Closed
<1>7. \A g, n : RunsOn(g, n)' = RunsOn(g, n)  BY <1>1 DEF RunsOn
<1>8. hiccups' = hiccups => InStep' = InStep  BY <1>1 DEF InStep
<1> QED  BY <1>5, <1>6, <1>7, <1>8

LEMMA GoodSplit ==
    ASSUME NEW n \in Nat, NEW t \in Nat, n <= t
    PROVE  Good(t) = Good(n) \cup {i \in (n + 1)..t : Recoverable(i)}
<1>1. 1..t = (1..n) \cup ((n + 1)..t)  OBVIOUS
<1> QED  BY ONLY <1>1 DEF Good

\* None is the last word: only an error moves the reader from the end.
LEMMA EndStep ==
    ASSUME RInv, [Next]_vars
    PROVE  EndIsEnd'
<1>1. EndIsEnd  BY DEF RInv
<1>2. CASE ReturnQueued \/ Unpack \/ ReadFails
  <2>1. last' \in {"entry", "error"}  BY <1>2 DEF ReturnQueued, Unpack, ReadFails, Demux, Entry, Err
  <2> QED  BY <2>1 DEF EndIsEnd
<1>3. CASE Start
  <2>1. PICK m \in EntryMeta :
            \/ m.id = 0 /\ None /\ pos' = m.pos /\ group' = group
            \/ last' \in {"entry", "error"}
            \/ m.id > 0 /\ last' = last
    BY <1>3 DEF Start, FirstHeader, Single, Entry, Err
  <2>2. MetaSound(m)  BY MetaFacts DEF RInv, IInv
  <2>3. queue = << >> /\ group = << >> /\ queue' = queue /\ end' = end
    BY <1>3 DEF Start, FirstHeader
  <2>4. CASE m.id = 0 /\ None /\ pos' = m.pos /\ group' = group
    <3>1. pos' = end' /\ queue' = << >> /\ group' = << >>
      BY <2>2, <2>3, <2>4 DEF MetaSound
    <3> QED  BY <3>1 DEF EndIsEnd
  <2>5. CASE last' \in {"entry", "error"}  BY <2>5 DEF EndIsEnd
  <2>6. CASE m.id > 0 /\ last' = last
    <3>1. /\ m.id \in 1..Len(entries) /\ pos = 3 * (m.id - 1) /\ Behind(m.id) <= end
      BY <2>2, <2>6 DEF MetaSound
    <3>2. Behind(m.id) \in {3 * m.id - 1, 3 * m.id}  BY <3>1, BehindFacts DEF RInv, IInv
    <3>3. Len(entries) \in Nat /\ end \in Int  BY DEF RInv, IInv, ReaderTypes, Positions
    <3>4. pos # end  BY ONLY <3>1, <3>2, <3>3
    <3> QED  BY <1>1, <2>6, <3>4 DEF EndIsEnd
  <2> QED  BY <2>1, <2>4, <2>5, <2>6
<1>4. CASE Collect
  <2>1. last' = "error" \/ last' = last  BY <1>4 DEF Collect, Err
  <2>2. group # << >>  BY <1>4 DEF Collect
  <2> QED  BY <1>1, <2>1, <2>2 DEF EndIsEnd
<1>5. CASE UNCHANGED vars  BY <1>1, <1>5 DEF vars, EndIsEnd
<1> QED  BY <1>2, <1>3, <1>4, <1>5 DEF Next

\* A call for what is queued changes only where an entry is kept.
LEMMA QueuedInStep ==
    ASSUME RInv, ReturnQueued
    PROVE  NothingLost'
<1>1. /\ Fixed /\ hiccups' = hiccups /\ pos' = pos /\ group' = group /\ group = << >>
      /\ queue # << >> /\ delivered' = Append(delivered, Head(queue)) /\ queue' = Tail(queue)
  BY DEF ReturnQueued, Entry, Fixed
<1>2. delivered \in Seq(Nat) /\ queue \in Seq(Nat)  BY DEF RInv, IInv, ReaderTypes
<1>3. Handled' = Handled
  <2>1. Range(queue) = {Head(queue)} \cup Range(Tail(queue))  BY <1>1, <1>2, RangeHeadTail
  <2>2. Range(Append(delivered, Head(queue))) = Range(delivered) \cup {Head(queue)}
    BY <1>1, <1>2, HeadTailFacts, RangeAppend
  <2> QED  BY <1>1, <2>1, <2>2 DEF Handled
<1>4. SUFFICES ASSUME InStep
               PROVE  (AtEnd \/ \E n \in 0..Len(entries) : Between(n) \/ Collecting(n))'
  BY <1>1, FileStays DEF NothingLost
<1>5. AtEnd \/ \E n \in 0..Len(entries) : Between(n)
  BY <1>1, <1>4 DEF RInv, NothingLost, Collecting
<1>6. CASE AtEnd
  <2>1. AtEnd'  BY <1>1, <1>3, <1>6, FileStays DEF AtEnd, Fixed
  <2> QED  BY <2>1
<1>7. CASE \E n \in 0..Len(entries) : Between(n)
  <2>1. PICK n \in 0..Len(entries) : Between(n)  BY <1>7
  <2>2. Between(n)'  BY <1>1, <1>3, <2>1, FileStays DEF Between
  <2> QED  BY <1>1, <2>2 DEF Fixed
<1> QED  BY <1>5, <1>6, <1>7

\* A call that comes to the end of the file leaves nothing behind.
LEMMA ToTheEnd ==
    ASSUME RInv, Fixed, hiccups' = hiccups, NEW n \in 0..Len(entries), Handled = Good(n),
           delivered' = delivered, queue' = queue, group' = << >>, pos' = end,
           \A t \in (n + 1)..Len(entries) :
               (entries[t].packed => end < 3 * t) /\ (end < 3 * t \/ entries[t].merged)
    PROVE  NothingLost'
<1>1. Good(n) = Good(Len(entries))  BY NothingBeyond
<1>2. Handled' = Good(Len(entries))  BY <1>1 DEF Handled
<1>3. AtEnd'  BY <1>2, FileStays DEF AtEnd, Fixed
<1> QED  BY <1>3 DEF NothingLost

\* An entry on its own comes out if it can.
LEMMA SingleInStep ==
    ASSUME RInv, Fixed, hiccups' = hiccups, queue = << >>, queue' = queue,
           group = << >>, group' = group, NEW n \in 0..Len(entries), Between(n),
           n + 1 \in 1..Len(entries), Behind(n + 1) <= end, ~entries[n + 1].merged,
           Single(n + 1, Behind(n + 1))
    PROVE  NothingLost'
<1> DEFINE i == n + 1
<1>1. /\ Len(entries) \in Nat /\ n \in Nat /\ i \in Nat /\ end \in Int
      /\ delivered \in Seq(Nat) /\ Handled = Good(n)
  BY DEF RInv, IInv, ReaderTypes, Positions, Between
<1>2. CASE entries[i].packed /\ end < 3 * i
  <2>1. Err /\ pos' = end  BY <1>2 DEF Single
  <2>2. \A t \in (n + 1)..Len(entries) : end < 3 * t  BY <1>1, <1>2
  <2> QED  BY <1>1, <2>1, <2>2, ToTheEnd DEF Err
<1>3. CASE ~(entries[i].packed /\ end < 3 * i)
  <2>1. pos' = 3 * i  BY <1>3 DEF Single
  <2>2. end >= 3 * i
    <3>1. CASE entries[i].packed  BY <1>1, <1>3, <3>1
    <3>2. CASE ~entries[i].packed  BY <1>1, <3>2 DEF Behind
    <3> QED  BY <3>1, <3>2
  <2>3. Recoverable(i) <=> /\ entries[i].fault # "data"
                           /\ (entries[i].size = 0
                                 \/ (entries[i].packed /\ entries[i].fault # "payload"))
    BY <2>2 DEF Recoverable
  <2>4. IF Recoverable(i) THEN delivered' = Append(delivered, i) ELSE delivered' = delivered
    BY <1>3, <2>3 DEF Single, Entry, Err
  <2>5. Good(i) = Good(n) \cup (IF Recoverable(i) THEN {i} ELSE {})
    <3>1. (n + 1)..i = {i}  BY <1>1
    <3>2. n <= i  BY <1>1
    <3>3. Good(i) = Good(n) \cup {j \in (n + 1)..i : Recoverable(j)}  BY <1>1, <3>2, GoodSplit
    <3> HIDE DEF i
    <3> QED  BY <3>1, <3>3
  <2>6. Handled' = Good(i)
    <3>1. Range(Append(delivered, i)) = Range(delivered) \cup {i}  BY <1>1, RangeAppend
    <3> HIDE DEF i
    <3> QED  BY <1>1, <2>4, <2>5, <3>1 DEF Handled
  <2>7. Closed(i) /\ i \in 0..Len(entries)  BY <1>1 DEF Closed
  <2>8. Between(i)'  BY <2>1, <2>6, <2>7, FileStays DEF Between
  <2>9. \E k \in 0..Len(entries)' : Between(k)'  BY <2>7, <2>8 DEF Fixed
  <2> QED  BY <2>9 DEF NothingLost
<1> QED  BY <1>2, <1>3

LEMMA StartInStep ==
    ASSUME RInv, Start
    PROVE  NothingLost'
<1>1. /\ Fixed /\ hiccups' = hiccups /\ queue = << >> /\ group = << >> /\ queue' = queue
  BY DEF Start, FirstHeader, Fixed
<1>2. PICK m \in EntryMeta :
          \/ m.id = 0  /\ None /\ pos' = m.pos /\ group' = group
          \/ m.id = -1 /\ Err /\ pos' = m.pos /\ group' = group
          \/ m.id > 0 /\ ~entries[m.id].merged /\ Single(m.id, m.pos) /\ group' = group
          \/ /\ m.id > 0 /\ entries[m.id].merged
             /\ group' = <<m.id>> /\ pos' = m.pos
             /\ UNCHANGED <<delivered, last, failed>>
  BY DEF Start, FirstHeader
<1>3. SUFFICES ASSUME InStep  PROVE NothingLost'
  BY <1>1, FileStays DEF NothingLost
<1>4. AtEnd \/ \E n \in 0..Len(entries) : Between(n)
  BY <1>1, <1>3 DEF RInv, NothingLost, Collecting
<1>5. CASE pos = end
  <2>1. m = [id |-> 0, pos |-> pos]  BY <1>5 DEF EntryMeta
  <2>2. pos' = pos /\ group' = group /\ delivered' = delivered  BY <1>2, <2>1 DEF None
  <2>3. Handled' = Handled  BY <1>1, <2>2 DEF Handled
  <2>4. CASE AtEnd
    <3>1. AtEnd'  BY <1>1, <2>2, <2>3, <2>4, FileStays DEF AtEnd, Fixed
    <3> QED  BY <3>1 DEF NothingLost
  <2>5. CASE \E n \in 0..Len(entries) : Between(n)
    <3>1. PICK n \in 0..Len(entries) : Between(n)  BY <2>5
    <3>2. Between(n)'  BY <1>1, <2>2, <2>3, <3>1, FileStays DEF Between
    <3>3. \E k \in 0..Len(entries)' : Between(k)'  BY <1>1, <3>2 DEF Fixed
    <3> QED  BY <3>3 DEF NothingLost
  <2> QED  BY <1>4, <2>4, <2>5
<1>6. CASE pos # end
  <2>1. PICK n \in 0..Len(entries) : Between(n)  BY <1>4, <1>6 DEF AtEnd
  <2>2. /\ pos = 3 * n /\ Handled = Good(n) /\ Closed(n) /\ n \in Nat
        /\ Len(entries) \in Nat /\ end \in Int /\ n <= Len(entries)
    BY <2>1 DEF Between, RInv, IInv, ReaderTypes, Positions
  <2>3. \/ m.id = -1 /\ m.pos = end /\ end < 3 * n + 2
        \/ /\ m.id = n + 1 /\ n + 1 \in 1..Len(entries)
           /\ m.pos = Behind(n + 1) /\ Behind(n + 1) <= end
    BY <1>3, <1>6, <2>2, MetaInStep
  <2>4. CASE m.id = -1 /\ m.pos = end /\ end < 3 * n + 2
    <3>1. Err /\ pos' = end /\ group' = << >>  BY <1>1, <1>2, <2>4
    <3>2. \A t \in (n + 1)..Len(entries) : end < 3 * t  BY <2>2, <2>4
    <3> QED  BY <1>1, <2>2, <3>1, <3>2, ToTheEnd DEF Err
  <2>5. CASE /\ m.id = n + 1 /\ n + 1 \in 1..Len(entries)
             /\ m.pos = Behind(n + 1) /\ Behind(n + 1) <= end
    <3>1. m.id # 0 /\ m.id # -1  BY <2>2, <2>5
    <3>2. CASE ~entries[n + 1].merged
      <4>1. Single(n + 1, Behind(n + 1)) /\ group' = group  BY <1>2, <2>5, <3>1, <3>2
      <4> QED  BY <1>1, <2>1, <2>5, <3>2, <4>1, SingleInStep
    <3>3. CASE entries[n + 1].merged
      <4>1. group' = <<n + 1>> /\ pos' = Behind(n + 1) /\ delivered' = delivered
        BY <1>2, <2>5, <3>1, <3>3
      <4>2. Len(<<n + 1>>) = 1 /\ <<n + 1>>[1] = n + 1 /\ <<n + 1>> # << >>  OBVIOUS
      <4>3. RunsOn(<<n + 1>>, n)  BY <3>3, <4>2 DEF RunsOn
      <4>4. Handled' = Good(n)  BY <1>1, <2>2, <4>1 DEF Handled
      <4>5. n + 1 <= Len(entries)  BY <2>2, <2>5
      <4>6. Collecting(n)'
        BY <1>1, <2>2, <4>1, <4>2, <4>3, <4>4, <4>5, FileStays, FixedFacts DEF Collecting, Fixed
      <4>7. \E k \in 0..Len(entries)' : Collecting(k)'  BY <1>1, <4>6 DEF Fixed
      <4> QED  BY <4>7 DEF NothingLost
    <3> QED  BY <3>2, <3>3
  <2> QED  BY <2>3, <2>4, <2>5
<1> QED  BY <1>5, <1>6

\* A group grows by the next entry, or is given up at the end of the file.
LEMMA CollectInStep ==
    ASSUME RInv, Collect
    PROVE  NothingLost'
<1> DEFINE l == Len(group)
<1>1. /\ Fixed /\ hiccups' = hiccups /\ queue' = queue /\ group # << >>
      /\ ~entries[Last(group)].packed
  BY DEF Collect, Fixed
<1>2. PICK m \in EntryMeta :
          /\ pos' = m.pos
          /\ \/ m.id <= 0 /\ Err /\ group' = << >>
             \/ m.id > 0 /\ ~entries[m.id].merged /\ Err /\ group' = << >>
             \/ /\ m.id > 0 /\ entries[m.id].merged
                /\ group' = Append(group, m.id)
                /\ UNCHANGED <<delivered, last, failed>>
  BY DEF Collect
<1>3. SUFFICES ASSUME InStep  PROVE NothingLost'
  BY <1>1, FileStays DEF NothingLost
<1>4. PICK n \in 0..Len(entries) : Collecting(n)
  BY <1>1, <1>3 DEF RInv, NothingLost, AtEnd, Between
<1>5. /\ Len(entries) \in Nat /\ n \in Nat /\ l \in Nat \ {0} /\ end \in Int /\ group \in Seq(Nat)
      /\ n + l <= Len(entries) /\ RunsOn(group, n) /\ Handled = Good(n) /\ Closed(n)
      /\ queue = << >> /\ pos = Behind(n + l) /\ DOMAIN entries = 1..Len(entries)
  <2>1. Len(entries) \in Nat /\ end \in Int /\ group \in Seq(Nat) /\ DOMAIN entries = 1..Len(entries)
    BY DEF RInv, IInv, ReaderTypes, Positions
  <2>2. n \in Nat /\ l \in Nat \ {0}  BY <1>1, <2>1
  <2> QED  BY <1>4, <2>1, <2>2 DEF Collecting
<1>6. Last(group) = n + l
  <2>1. l \in 1..Len(group)  BY <1>5
  <2> QED  BY <1>5, <2>1 DEF RunsOn, Last
<1>7. ~entries[n + l].packed /\ entries[n + l].merged /\ pos = 3 * (n + l)
  <2>1. l \in 1..Len(group)  BY <1>5
  <2> QED  BY <1>1, <1>5, <1>6, <2>1 DEF RunsOn, Behind
<1> HIDE DEF l
<1>8. \A k \in (n + 1)..(n + l) : entries[k].merged /\ ~entries[k].packed
  <2> SUFFICES ASSUME NEW k \in (n + 1)..(n + l)  PROVE entries[k].merged /\ ~entries[k].packed
    OBVIOUS
  <2>1. k - n \in 1..l /\ n + (k - n) = k  BY <1>5
  <2>2. entries[n + (k - n)].merged /\ (k - n < l => ~entries[n + (k - n)].packed)
    BY <1>5, <2>1 DEF RunsOn, l
  <2>3. k = n + l \/ k - n < l  BY <1>5, <2>1
  <2> QED  BY ONLY <1>7, <2>1, <2>2, <2>3
<1>9. \/ m.id = 0 /\ pos = end /\ m.pos = pos
      \/ m.id = -1 /\ m.pos = end /\ end < 3 * (n + l) + 2
      \/ /\ m.id = (n + l) + 1 /\ (n + l) + 1 \in 1..Len(entries)
         /\ m.pos = Behind((n + l) + 1) /\ Behind((n + l) + 1) <= end
  <2>1. n + l \in 0..Len(entries)  BY <1>5
  <2> QED  BY <1>3, <1>7, <2>1, MetaInStep
<1>10. CASE m.id \in {0, -1}
  <2>1. Err /\ group' = << >> /\ pos' = end  BY <1>2, <1>9, <1>10
  <2>2. end < 3 * (n + l) + 2  BY <1>5, <1>7, <1>9, <1>10
  <2>3. \A t \in (n + 1)..Len(entries) : t \in (n + 1)..(n + l) \/ end < 3 * t
    BY <1>5, <2>2
  <2>4. \A t \in (n + 1)..Len(entries) :
            (entries[t].packed => end < 3 * t) /\ (end < 3 * t \/ entries[t].merged)
    BY ONLY <1>8, <2>3
  <2> QED  BY <1>1, <1>5, <2>1, <2>4, ToTheEnd DEF Err
<1>11. CASE /\ m.id = (n + l) + 1 /\ (n + l) + 1 \in 1..Len(entries)
            /\ m.pos = Behind((n + l) + 1) /\ Behind((n + l) + 1) <= end
  <2> DEFINE i == (n + l) + 1
             g == Append(group, i)
  <2>1. entries[i].merged
    <3>1. n + l \in 1..(Len(entries) - 1)  BY <1>5, <1>11
    <3> QED  BY <1>3, <1>7, <3>1 DEF InStep
  <2>2. m.id > 0 /\ i \in Nat  BY <1>5, <1>11
  <2>3. group' = g /\ pos' = Behind(i) /\ delivered' = delivered  BY <1>2, <1>11, <2>1, <2>2
  <2> HIDE DEF i
  <2>4. g \in Seq(Nat) /\ Len(g) = l + 1 /\ (\A k \in 1..l : g[k] = group[k]) /\ g[l + 1] = i
    BY <1>5, <2>2, AppendFacts DEF l
  <2> HIDE DEF g
  <2>5. RunsOn(g, n)
    <3> SUFFICES ASSUME NEW k \in 1..(l + 1)
                 PROVE  /\ g[k] = n + k /\ entries[n + k].merged
                        /\ k < l + 1 => ~entries[n + k].packed
      BY <2>4 DEF RunsOn
    <3>1. CASE k = l + 1
      <4>1. n + k = i  BY <1>5, <3>1 DEF i
      <4> QED  BY <1>5, <2>1, <2>4, <3>1, <4>1
    <3>2. CASE k # l + 1
      <4>1. k \in 1..l /\ n + k \in (n + 1)..(n + l)  BY <1>5, <3>2
      <4>2. group[k] = n + k  BY <1>5, <4>1 DEF RunsOn, l
      <4> QED  BY <1>8, <2>4, <4>1, <4>2
    <3> QED  BY <3>1, <3>2
  <2>6. Handled' = Good(n)  BY <1>1, <1>5, <2>3 DEF Handled
  <2>7. /\ group' # << >> /\ Len(group') = l + 1 /\ n + (l + 1) = i /\ n + (l + 1) <= Len(entries)
    <3>1. n + (l + 1) = i /\ n + (l + 1) <= Len(entries)  BY <1>5, <1>11 DEF i
    <3>2. l + 1 # 0  BY <1>5
    <3> QED  BY <2>3, <2>4, <3>1, <3>2, EmptySeq
  <2>8. Collecting(n)'
    <3>1. pos' = Behind(n + Len(group'))  BY <2>3, <2>7
    <3>2. (pos = Behind(n + Len(group)))'  BY <1>1, <3>1, FixedFacts
    <3>3. RunsOn(group', n)  BY <2>3, <2>5
    <3>4. RunsOn(group, n)'  BY <1>1, <3>3, FileStays
    <3> QED
      BY <1>1, <1>5, <2>6, <2>7, <3>2, <3>4, FileStays DEF Collecting, Fixed
  <2>9. \E k \in 0..Len(entries)' : Collecting(k)'  BY <1>1, <2>8 DEF Fixed
  <2> QED  BY <2>9 DEF NothingLost
<1> QED  BY <1>9, <1>10, <1>11

\* The payload of a group settles all of its entries.
LEMMA UnpackInStep ==
    ASSUME RInv, Unpack
    PROVE  NothingLost'
<1> DEFINE l == Len(group)
           bad == {k \in DOMAIN group : ~Verified(group, k)}
<1>1. /\ Fixed /\ hiccups' = hiccups /\ group' = << >> /\ group # << >>
      /\ entries[Last(group)].packed
  BY DEF Unpack, Fixed
<1>2. SUFFICES ASSUME InStep  PROVE NothingLost'
  BY <1>1, FileStays DEF NothingLost
<1>3. PICK n \in 0..Len(entries) : Collecting(n)
  BY <1>1, <1>2 DEF RInv, NothingLost, AtEnd, Between
<1> DEFINE t == n + l
           G == (n + 1)..t
<1>4. /\ Len(entries) \in Nat /\ n \in Nat /\ l \in Nat \ {0} /\ t \in Nat /\ end \in Int
      /\ group \in Seq(Nat) /\ delivered \in Seq(Nat)
      /\ t <= Len(entries) /\ RunsOn(group, n) /\ Handled = Good(n) /\ Closed(n) /\ queue = << >>
  <2>1. Len(entries) \in Nat /\ end \in Int /\ group \in Seq(Nat) /\ delivered \in Seq(Nat)
    BY DEF RInv, IInv, ReaderTypes, Positions
  <2>2. n \in Nat /\ l \in Nat \ {0}  BY <1>1, <2>1
  <2> QED  BY <1>3, <2>1, <2>2 DEF Collecting
<1>5. Last(group) = t /\ entries[t].packed
  <2>1. l \in 1..Len(group)  BY <1>4
  <2> QED  BY <1>1, <1>4, <2>1 DEF RunsOn, Last
<1>6. Range(group) = G
  <2>1. \A k \in 1..Len(group) : group[k] = n + k  BY <1>4 DEF RunsOn
  <2> QED  BY <1>4, <2>1, RangeOfRun
<1>7. Whole(n, t)
  <2>1. ASSUME NEW k \in G  PROVE entries[k].merged /\ (k # t => ~entries[k].packed)
    <3>1. k \in Int /\ n + 1 <= k /\ k <= t /\ t = n + l /\ n \in Nat /\ l \in Nat
      BY <1>4
    <3>2. k - n \in 1..l /\ n + (k - n) = k /\ (k # t => k - n < l)
      <4> HIDE DEF t, l
      <4> QED  BY ONLY <3>1
    <3>3. entries[n + (k - n)].merged /\ (k - n < l => ~entries[n + (k - n)].packed)
      BY <1>4, <3>2 DEF RunsOn
    <3> QED  BY ONLY <3>2, <3>3
  <2>2. \A k \in (n + 1)..(t - 1) : k \in G /\ k # t  BY <1>4
  <2>3. t \in (n + 1)..Len(entries)  BY <1>4
  <2> HIDE DEF t
  <2> QED  BY <1>4, <1>5, <2>1, <2>2, <2>3 DEF Whole
<1>8. GroupOf(t) = G
  <2>1. t \in (n + 1)..t  BY <1>4
  <2> HIDE DEF t
  <2> QED  BY <1>7, <2>1, GroupIsRun DEF Whole
<1>9. \A i \in G : Recoverable(i) <=>
          /\ \A j \in (n + 1)..i : entries[j].fault # "data"
          /\ end >= 3 * t
          /\ (SizeOf(G) = 0 \/ entries[t].fault # "payload")
  <2> HIDE DEF t
  <2> QED  BY <1>7, GroupRecoverable
<1>10. \A k \in 1..l : k \in bad <=> entries[n + k].fault = "data"
  <2>1. DOMAIN group = 1..l  BY <1>4
  <2>2. \A k \in 1..l : Verified(group, k) <=> entries[n + k].fault # "data"
    BY <1>4, <1>7, SlicesFit
  <2> QED  BY <2>1, <2>2
<1>11. bad \subseteq 1..l
  <2>1. DOMAIN group = 1..l  BY <1>4
  <2> QED  BY <2>1
<1>12. Good(t) = Good(n) \cup {i \in G : Recoverable(i)}
  <2>1. n <= t  BY <1>4
  <2> HIDE DEF t
  <2> QED  BY <1>4, <2>1, GoodSplit
<1>13. \/ end < 3 * t /\ Err /\ pos' = end /\ queue' = queue
       \/ /\ ~(end < 3 * t) /\ pos' = 3 * t
          /\ \/ (SizeOf(G) = 0 \/ entries[t].fault # "payload") /\ Demux(group)
             \/ SizeOf(G) > 0 /\ entries[t].fault = "payload" /\ Err /\ queue' = queue
  <2> HIDE DEF t, G
  <2> QED  BY <1>5, <1>6, <1>8 DEF Unpack
<1> HIDE DEF bad
<1>14. CASE end < 3 * t /\ Err /\ pos' = end /\ queue' = queue
  <2>1. \A k \in (n + 1)..Len(entries) : k \in (n + 1)..(t - 1) \/ (k >= t /\ end < 3 * k)
    BY <1>4, <1>14
  <2>2. \A k \in (n + 1)..Len(entries) :
            (entries[k].packed => end < 3 * k) /\ (end < 3 * k \/ entries[k].merged)
    <3>1. \A k \in (n + 1)..(t - 1) : entries[k].merged /\ ~entries[k].packed
      <4>1. \A k \in (n + 1)..(t - 1) : k \in G  BY <1>4
      <4> QED  BY <1>7, <4>1 DEF Whole
    <3> QED  BY ONLY <2>1, <3>1
  <2> HIDE DEF t
  <2> QED  BY <1>1, <1>4, <1>14, <2>2, ToTheEnd DEF Err
<1>15. CASE ~(end < 3 * t) /\ pos' = 3 * t
  <2>1. end >= 3 * t  BY <1>4, <1>15
  <2>2. SUFFICES Handled' = Good(t)
    <3> HIDE DEF t
    <3>1. Closed(t) /\ t \in 0..Len(entries)  BY <1>4, <1>5 DEF Closed
    <3>2. \A k : Closed(k)' = Closed(k) /\ Good(k)' = Good(k)  BY <1>1, FileStays
    <3> SUFFICES ASSUME Handled' = Good(t)  PROVE NothingLost'  OBVIOUS
    <3>3. PICK k \in 0..Len(entries) : k = t  BY <3>1
    <3>4. pos' = 3 * k /\ Closed(k) /\ Handled' = Good(k)  BY <1>15, <3>1, <3>3
    <3>5. Between(k)'  BY <1>1, <3>2, <3>4 DEF Between
    <3>6. \E j \in 0..Len(entries)' : Between(j)'  BY <1>1, <3>5 DEF Fixed
    <3> QED  BY <3>6 DEF NothingLost
  <2>3. CASE SizeOf(G) > 0 /\ entries[t].fault = "payload" /\ Err /\ queue' = queue
    <3>1. SizeOf(G) # 0  BY <2>3
    <3>2. {i \in G : Recoverable(i)} = {}  BY <1>9, <2>3, <3>1
    <3>3. delivered' = delivered /\ queue' = queue  BY <2>3 DEF Err
    <3> HIDE DEF t, G
    <3> QED  BY <1>4, <1>12, <3>2, <3>3 DEF Handled
  <2>4. CASE (SizeOf(G) = 0 \/ entries[t].fault # "payload") /\ Demux(group)
    <3>1. \A i \in G : Recoverable(i) <=> \A j \in (n + 1)..i : entries[j].fault # "data"
      BY <1>9, <2>1, <2>4
    <3>2. CASE bad = {}
      <4>1. delivered' = Append(delivered, Head(group)) /\ queue' = Tail(group)
        BY <2>4, <3>2 DEF Demux, Entry, bad
      <4>2. Range(delivered') \cup Range(queue') = Range(delivered) \cup G
        <5>1. Range(group) = {Head(group)} \cup Range(Tail(group))  BY <1>1, <1>4, RangeHeadTail
        <5>2. Range(Append(delivered, Head(group))) = Range(delivered) \cup {Head(group)}
          BY <1>1, <1>4, HeadTailFacts, RangeAppend
        <5> HIDE DEF G
        <5> QED  BY <1>6, <4>1, <5>1, <5>2
      <4>3. \A i \in G : Recoverable(i)
        <5> SUFFICES ASSUME NEW i \in G, NEW j \in (n + 1)..i  PROVE entries[j].fault # "data"
          BY <3>1
        <5>1. j - n \in 1..l /\ n + (j - n) = j  BY <1>4
        <5>2. entries[n + (j - n)].fault # "data"  BY <1>10, <3>2, <5>1
        <5> QED  BY ONLY <5>1, <5>2
      <4>4. Range(delivered) = Good(n)  BY <1>4, RangeEmpty DEF Handled
      <4> HIDE DEF t, G
      <4> QED  BY <1>12, <4>2, <4>3, <4>4 DEF Handled
    <3>3. CASE bad # {}
      <4> DEFINE b == Min(bad)
                 q == SubSeq(group, 1, b - 1)
      <4>1. delivered' = delivered /\ queue' = q  BY <2>4, <3>3 DEF Demux, Err, bad
      <4>2. b \in bad /\ \A y \in bad : b <= y
        <5>1. bad \in SUBSET Nat  BY <1>4, <1>11
        <5> QED  BY <3>3, <5>1, MinFacts
      <4> HIDE DEF b
      <4>3. b \in 1..l /\ b \in Nat /\ b - 1 \in 0..Len(group)  BY <1>4, <1>11, <4>2
      <4>4. q \in Seq(Nat) /\ Len(q) = b - 1 /\ \A k \in 1..(b - 1) : q[k] = group[k]
        BY <1>4, <4>3, SubSeqFacts
      <4> HIDE DEF q
      <4>5. Range(q) = (n + 1)..(n + (b - 1))
        <5>1. \A k \in 1..(b - 1) : k \in 1..Len(group)  BY <4>3
        <5>2. \A k \in 1..Len(q) : q[k] = n + k  BY <1>4, <4>4, <5>1 DEF RunsOn
        <5>3. Range(q) = (n + 1)..(n + Len(q))  BY <1>4, <4>4, <5>2, RangeOfRun
        <5> QED  BY <4>4, <5>3
      <4>6. {i \in G : Recoverable(i)} = (n + 1)..(n + (b - 1))
        <5>1. entries[n + b].fault = "data"  BY <1>10, <4>2, <4>3
        <5>2. ASSUME NEW i \in G, i >= n + b  PROVE ~Recoverable(i)
          <6>1. n + b \in (n + 1)..i  BY <1>4, <4>3, <5>2
          <6> QED  BY <3>1, <5>1, <6>1
        <5>3. ASSUME NEW i \in (n + 1)..(n + (b - 1))  PROVE i \in G /\ Recoverable(i)
          <6>1. i \in G  BY <1>4, <4>3
          <6>2. ASSUME NEW j \in (n + 1)..i  PROVE entries[j].fault # "data"
            <7>1. j - n \in 1..l /\ n + (j - n) = j /\ ~(b <= j - n)  BY <1>4, <4>3
            <7>2. j - n \notin bad  BY ONLY <4>2, <7>1
            <7>3. entries[n + (j - n)].fault # "data"  BY <1>10, <7>1, <7>2
            <7> QED  BY ONLY <7>1, <7>3
          <6> QED  BY <3>1, <6>1, <6>2
        <5>4. \A i \in G : i >= n + b \/ i \in (n + 1)..(n + (b - 1))  BY <1>4, <4>3
        <5> HIDE DEF G
        <5> QED  BY ONLY <5>2, <5>3, <5>4
      <4>7. Range(delivered) = Good(n)  BY <1>4, RangeEmpty DEF Handled
      <4> HIDE DEF t, G
      <4> QED  BY <1>12, <4>1, <4>5, <4>6, <4>7 DEF Handled
    <3> QED  BY <3>2, <3>3
  <2> QED  BY <1>13, <1>15, <2>3, <2>4
<1> QED  BY <1>13, <1>14, <1>15

LEMMA InitInStep ==
    ASSUME Init
    PROVE  RInv
<1>1. IInv  BY InitFacts
<1>2. PICK n \in 0..MaxEntries : entries \in [1..n -> Entries]  BY DEF Init
<1>3. DOMAIN entries = 1..Len(entries) /\ Len(entries) \in Nat
  <2>1. n \in Nat  BY ReaderAssumption
  <2>2. entries \in Seq(Entries)  BY ONLY <1>2, <2>1
  <2> QED  BY ONLY <2>2
<1>4. pos = 0 /\ queue = << >> /\ group = << >> /\ delivered = << >> /\ hiccups = 0  BY DEF Init
<1>5. EndIsEnd
  <2>1. last # "none"  BY Zenon DEF Init
  <2> QED  BY <2>1 DEF EndIsEnd
<1>6. Between(0)
  <2>1. Handled = {}  BY <1>4, RangeEmpty DEF Handled
  <2>2. Good(0) = {}  BY DEF Good
  <2>3. Closed(0)  BY <1>3 DEF Closed
  <2> QED  BY <1>4, <2>1, <2>2, <2>3 DEF Between
<1>7. NothingLost
  <2>1. 0 \in 0..Len(entries)  BY <1>3
  <2> QED  BY <1>6, <2>1 DEF NothingLost
<1> QED  BY <1>1, <1>3, <1>4, <1>5, <1>7 DEF RInv

LEMMA NextInStep ==
    ASSUME RInv, [Next]_vars
    PROVE  RInv'
<1>1. IInv'  BY NextFacts DEF RInv
<1>2. EndIsEnd'  BY EndStep
<1>3. entries' = entries /\ end' = end /\ hiccups' \in Nat
  BY DEF Next, ReturnQueued, Start, FirstHeader, Collect, Unpack, ReadFails, vars, RInv
<1>4. (DOMAIN entries = 1..Len(entries))'  BY <1>3 DEF RInv
<1>5. NothingLost'
  <2>1. CASE ReturnQueued  BY <2>1, QueuedInStep
  <2>2. CASE Start  BY <2>2, StartInStep
  <2>3. CASE Collect  BY <2>3, CollectInStep
  <2>4. CASE Unpack  BY <2>4, UnpackInStep
  <2>5. CASE ReadFails
    <3>1. hiccups' # 0  BY <2>5 DEF ReadFails, RInv
    <3> QED  BY <3>1 DEF NothingLost, InStep
  <2>6. CASE UNCHANGED vars
    <3>1. /\ Fixed /\ hiccups' = hiccups /\ pos' = pos /\ queue' = queue /\ group' = group
          /\ delivered' = delivered /\ Handled' = Handled
      BY <2>6 DEF vars, Fixed, Handled
    <3>2. AtEnd' <=> AtEnd  BY <3>1, FileStays DEF AtEnd, Fixed
    <3>3. \A n : Between(n)' <=> Between(n)  BY <3>1, FileStays DEF Between
    <3>4. \A n : Collecting(n)' <=> Collecting(n)
      BY <3>1, FileStays, FixedFacts DEF Collecting, Fixed
    <3> QED  BY <3>1, <3>2, <3>3, <3>4, FileStays DEF RInv, NothingLost, Fixed
  <2> QED  BY <2>1, <2>2, <2>3, <2>4, <2>5, <2>6 DEF Next
<1> QED  BY <1>1, <1>2, <1>3, <1>4, <1>5 DEF RInv

-----------------------------------------------------------------------------
(* Theorems *)

\* The reader and what it has given out stay in step, whatever is damaged.
THEOREM ReaderInvariant == Spec => []IInv
<1>1. Init => IInv  BY InitFacts
<1>2. IInv /\ [Next]_vars => IInv'  BY NextFacts
<1> QED  BY <1>1, <1>2, PTL DEF Spec

\* next_entry returns the entries in the order of the file and none twice,
\* for archives of any length, through any errors (reader.rs:118).
THEOREM ReturnedInOrder == Spec => []DeliveredInOrder
<1>1. IInv => DeliveredInOrder
  <2>1. Line(delivered, queue, group) = delivered \o queue \o group  BY DEF Line
  <2> QED  BY <2>1 DEF IInv, Ascending, DeliveredInOrder
<1> QED  BY <1>1, ReaderInvariant, PTL

\* No entry comes out of next_entry or out of its queue with a damaged
\* header or damaged data (reader.rs:32).
THEOREM ReturnedSound == Spec => []OnlySound
<1>1. IInv => OnlySound
  <2>1. IInv => DOMAIN delivered = 1..Len(delivered)  BY DEF IInv, ReaderTypes
  <2> QED  BY <2>1 DEF IInv, Sound, OnlySound
<1> QED  BY <1>1, ReaderInvariant, PTL

\* As long as no call fails every entry comes out, and the end is only
\* reported behind the last one.
THEOREM NothingPassedOver == Spec => []NothingLeftOut
<1>1. ASSUME IInv  PROVE NothingLeftOut
  <2> DEFINE t == Line(delivered, queue, group)
  <2>1. t = delivered \o queue \o group  BY DEF Line
  <2>2. SUFFICES ASSUME ~failed
                 PROVE  t = [k \in 1..Len(t) |-> k] /\ (last = "none" => end = 3 * Len(delivered))
    BY <2>1 DEF NothingLeftOut
  <2>3. /\ CountsUp(t) /\ (group = << >> => pos = 3 * Len(t))
        /\ last = "none" => (pos = end /\ queue = << >> /\ group = << >>)
    <3>1. NoneMissing  BY <1>1 DEF IInv
    <3> QED  BY ONLY <2>2, <3>1 DEF NoneMissing, t
  <2>4. delivered \in Seq(Nat) /\ queue \in Seq(Nat) /\ group \in Seq(Nat)
    BY <1>1 DEF IInv, ReaderTypes
  <2>5. Parts(delivered, queue, group, t)  BY <2>4, LineFacts
  <2>6. t \in Seq(Nat) /\ Len(t) = Len(delivered) + Len(queue) + Len(group)  BY <2>5 DEF Parts
  <2> HIDE DEF t
  <2>7. t = [k \in 1..Len(t) |-> k]
    <3>1. t = [k \in 1..Len(t) |-> t[k]]  BY ONLY <2>6
    <3> QED  BY ONLY <2>3, <3>1 DEF CountsUp
  <2>8. last = "none" => end = 3 * Len(delivered)
    <3>1. SUFFICES ASSUME last = "none"  PROVE end = 3 * Len(delivered)  OBVIOUS
    <3>2. pos = end /\ pos = 3 * Len(t) /\ Len(queue) = 0 /\ Len(group) = 0
      BY <2>3, <3>1, EmptySeq
    <3>3. Len(delivered) \in Nat  BY <2>4
    <3>4. Len(t) = Len(delivered)  BY ONLY <2>6, <3>2, <3>3
    <3> QED  BY ONLY <3>2, <3>4
  <2> QED  BY <2>7, <2>8
<1> QED  BY <1>1, ReaderInvariant, PTL

\* Nothing that can be recovered is lost on the way.
THEOREM RecoveryInvariant == Spec => []RInv
<1>1. Init => RInv  BY InitInStep
<1>2. RInv /\ [Next]_vars => RInv'  BY NextInStep
<1> QED  BY <1>1, <1>2, PTL DEF Spec

\* With readable headers and unbroken groups, damaged data and cut files cost
\* only the entries that cannot be recovered: a caller that goes on after every
\* error has all the others when next_entry answers None (reader.rs:83).
THEOREM DamageStaysLocal == Spec => []RecoversTheRest
<1>1. ASSUME RInv  PROVE RecoversTheRest
  <2>1. SUFFICES ASSUME last = "none", InStep
                 PROVE  Range(delivered) = {i \in DOMAIN entries : Recoverable(i)}
    BY DEF RecoversTheRest
  <2>2. pos = end /\ queue = << >> /\ group = << >>  BY <1>1, <2>1 DEF RInv, EndIsEnd
  <2>3. Handled = Range(delivered)  BY <2>2, RangeEmpty DEF Handled
  <2>4. Good(Len(entries)) = {i \in DOMAIN entries : Recoverable(i)}
    BY <1>1 DEF RInv, Good
  <2>5. Handled = Good(Len(entries))
    <3>1. CASE AtEnd  BY <3>1 DEF AtEnd
    <3>2. CASE ~AtEnd
      <4>1. PICK n \in 0..Len(entries) : Between(n)
        BY <1>1, <2>1, <2>2, <3>2 DEF RInv, NothingLost, Collecting
      <4>2. Len(entries) \in Nat /\ end = 3 * n /\ Handled = Good(n)
        BY <1>1, <2>2, <4>1 DEF RInv, IInv, ReaderTypes, Between
      <4>3. \A t \in (n + 1)..Len(entries) : end < 3 * t  BY <4>2
      <4> QED  BY <1>1, <4>2, <4>3, NothingBeyond
    <3> QED  BY <3>1, <3>2
  <2> QED  BY <2>3, <2>4, <2>5
<1> QED  BY <1>1, RecoveryInvariant, PTL
=============================================================================
