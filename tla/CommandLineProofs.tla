-------------------------- MODULE CommandLineProofs --------------------------
(***************************************************************************)
(* Proofs about ArchiveWriter and CommandLine, for every tree of files,    *)
(* every sizes of names and payloads, any number of entries and failures   *)
(* anywhere, and about the times that DateTime gives the files:            *)
(*                                                                         *)
(*   - the writer never writes before the end of a finished entry: the     *)
(*     position and the header of the open entry lie behind all of them;   *)
(*   - collect_inputs finds the files under its arguments and no other.    *)
(*     FlattenSeq and WalkDir are recursive; what they compute is shown    *)
(*     with a smallest counterexample: of the front parts of a sequence,   *)
(*     or of the directories, none of which is below itself;               *)
(*   - at every step create knows what is on disk and what its BufWriter   *)
(*     holds (Stage), and when it stops in the middle of an entry, nothing *)
(*     of the header is on disk, or all of the payload is (Torn);          *)
(*   - extract reads the entries in their order, and outdir grows by       *)
(*     nothing but them and their directories (Reading);                   *)
(*   - a time of modification comes back as it was, or as the nearest.     *)
(***************************************************************************)
EXTENDS CommandLine, DateTime, WellFoundedInduction, TLAPS

-----------------------------------------------------------------------------
(* The archive writer *)

\* What a header and a payload in a file are, cell by cell.
HeaderIn(f, a) ==
    /\ PayloadAt(a) <= Len(f)
    /\ \A i \in 1..HeaderLen(a.names) : f[a.at + i] = HeaderCell(a.id, i)
PayloadIn(f, a) ==
    /\ EndOf(a) <= Len(f)
    /\ \A i \in 1..a.size : f[PayloadAt(a) + i] = PayloadCell(a.id, i)

\* The open entry has blank room for its header, and its payload goes behind.
OpenEntryIsBlank ==
    entry # NoEntry =>
        /\ position = entry.at + HeaderLen(entry.names)
        /\ \A i \in 1..HeaderLen(entry.names) : file[entry.at + i] = Blank

\* Whatever is written next goes behind every finished entry.
WritesBehind ==
    \A k \in 1..Len(attempts) : attempts[k].ok =>
        /\ EndOf(attempts[k]) <= position
        /\ entry # NoEntry => EndOf(attempts[k]) <= entry.at
        /\ HeaderIn(file, attempts[k]) /\ PayloadIn(file, attempts[k])

\* Only a call that failed leaves an attempt without Ok, and no entry is open
\* after it until the caller goes on.
FailuresShow ==
    /\ ~failed => \A k \in 1..Len(attempts) : attempts[k].ok
    /\ failed /\ ~resumed => entry = NoEntry
    /\ ~resumed => \A k \in 1..Len(attempts) :
                       HeaderIn(file, attempts[k]) => PayloadIn(file, attempts[k])

\* Where the next entry begins, when all before it are finished.
ChainEnd == IF Len(attempts) = 0 THEN 1 ELSE EndOf(attempts[Len(attempts)])
BackToBack ==
    ~failed /\ ~dropped =>
        /\ position = Len(file)
        /\ entry = NoEntry => Len(attempts) = begun /\ position = ChainEnd
        /\ entry # NoEntry => Len(attempts) = begun - 1 /\ entry.at = ChainEnd
        /\ \A k \in 1..Len(attempts) :
              attempts[k].at = IF k = 1 THEN 1 ELSE EndOf(attempts[k - 1])

IInv ==
    /\ TypeOK
    /\ OpenEntryIsBlank
    /\ WritesBehind
    /\ FailuresShow
    /\ BackToBack

Attempts == [id : 1..MaxEntries, names : 0..MaxNames, at : Nat, size : 0..MaxPayload, ok : BOOLEAN]
Recorded == [id : Nat, names : Nat, at : Nat, size : Nat, ok : BOOLEAN]

-----------------------------------------------------------------------------
(* Writing into a sequence *)

\* Overwrite keeps what it does not reach, and puts s where it does.
LEMMA OverwriteFacts ==
    ASSUME NEW T, NEW f \in Seq(T), NEW s \in Seq(T), NEW p \in 0..Len(f)
    PROVE  /\ Overwrite(f, p, s) \in Seq(T)
           /\ Len(Overwrite(f, p, s)) = IF p + Len(s) > Len(f) THEN p + Len(s) ELSE Len(f)
           /\ \A i \in 1..Len(f) : i <= p \/ i > p + Len(s) => Overwrite(f, p, s)[i] = f[i]
           /\ \A i \in 1..Len(s) : Overwrite(f, p, s)[p + i] = s[i]
<1> DEFINE n == IF p + Len(s) > Len(f) THEN p + Len(s) ELSE Len(f)
           g == [i \in 1..n |-> IF i \in (p + 1)..(p + Len(s)) THEN s[i - p] ELSE f[i]]
<1>1. Overwrite(f, p, s) = g  BY DEF Overwrite
<1>2. Len(f) \in Nat /\ Len(s) \in Nat /\ n \in Nat /\ Len(f) <= n /\ p + Len(s) <= n
  OBVIOUS
<1>3. \A i \in 1..n : g[i] \in T
  <2> SUFFICES ASSUME NEW i \in 1..n  PROVE g[i] \in T  OBVIOUS
  <2>1. CASE i \in (p + 1)..(p + Len(s))
    <3>1. i - p \in 1..Len(s)  BY <1>2, <2>1
    <3> QED  BY <2>1, <3>1
  <2>2. CASE i \notin (p + 1)..(p + Len(s))
    <3>1. i \in 1..Len(f)  BY <1>2, <2>2
    <3> QED  BY <2>2, <3>1
  <2> QED  BY <2>1, <2>2
<1>4. g \in Seq(T) /\ Len(g) = n
  BY <1>2, <1>3
<1>5. \A i \in 1..Len(f) : i <= p \/ i > p + Len(s) => g[i] = f[i]
  BY <1>2
<1>6. \A i \in 1..Len(s) : g[p + i] = s[i]
  <2> SUFFICES ASSUME NEW i \in 1..Len(s)  PROVE g[p + i] = s[i]  OBVIOUS
  <2>1. p + i \in 1..n /\ p + i \in (p + 1)..(p + Len(s)) /\ (p + i) - p = i  BY <1>2
  <2> HIDE DEF n
  <2> QED  BY <2>1
<1> QED  BY <1>1, <1>4, <1>5, <1>6

Overwritten(f, p, s) ==
    /\ Overwrite(f, p, s) \in Seq(Cells)
    /\ Len(Overwrite(f, p, s)) = IF p + Len(s) > Len(f) THEN p + Len(s) ELSE Len(f)
    /\ \A i \in 1..Len(f) : i <= p \/ i > p + Len(s) => Overwrite(f, p, s)[i] = f[i]
    /\ \A i \in 1..Len(s) : Overwrite(f, p, s)[p + i] = s[i]

LEMMA OverwriteKnown ==
    \A f \in Seq(Cells), s \in Seq(Cells) : \A p \in 0..Len(f) : Overwritten(f, p, s)
<1> SUFFICES ASSUME NEW f \in Seq(Cells), NEW s \in Seq(Cells), NEW p \in 0..Len(f)
             PROVE  Overwritten(f, p, s)
  OBVIOUS
<1> QED  BY OverwriteFacts DEF Overwritten

\* The front of a sequence.
LEMMA PrefixFacts ==
    ASSUME NEW T, NEW s \in Seq(T), NEW n \in 0..Len(s)
    PROVE  /\ Prefix(s, n) \in Seq(T) /\ Len(Prefix(s, n)) = n
           /\ \A i \in 1..n : Prefix(s, n)[i] = s[i]
  BY DEF Prefix

\* The cells the writer writes.
LEMMA WrittenCells ==
    ASSUME NEW id \in 1..MaxEntries, NEW names \in 0..MaxNames, NEW size \in 0..MaxPayload
    PROVE  /\ HeaderLen(names) \in Nat \ {0} /\ HeaderLen(names) <= HeaderLen(MaxNames)
           /\ Placeholder(names) \in Seq(Cells) /\ Len(Placeholder(names)) = HeaderLen(names)
           /\ \A i \in 1..HeaderLen(names) : Placeholder(names)[i] = Blank
           /\ Header(id, names) \in Seq(Cells) /\ Len(Header(id, names)) = HeaderLen(names)
           /\ \A i \in 1..HeaderLen(names) : Header(id, names)[i] = HeaderCell(id, i)
           /\ Payload(id, size) \in Seq(Cells) /\ Len(Payload(id, size)) = size
           /\ \A i \in 1..size : Payload(id, size)[i] = PayloadCell(id, i)
<1>1. HeaderLen(names) \in Nat \ {0} /\ HeaderLen(names) <= HeaderLen(MaxNames)
  BY ArchiveAssumption DEF HeaderLen
<1>2. Blank \in Cells  BY DEF Cells
<1>3. \A i \in 1..HeaderLen(names) : HeaderCell(id, i) \in Cells
  <2> SUFFICES ASSUME NEW i \in 1..HeaderLen(names)  PROVE HeaderCell(id, i) \in Cells  OBVIOUS
  <2>1. i \in 1..HeaderLen(MaxNames)  BY <1>1, ArchiveAssumption DEF HeaderLen
  <2> QED  BY <2>1 DEF Cells, HeaderCell
<1>4. \A i \in 1..size : PayloadCell(id, i) \in Cells
  <2> SUFFICES ASSUME NEW i \in 1..size  PROVE PayloadCell(id, i) \in Cells  OBVIOUS
  <2>1. i \in 1..MaxPayload  BY ArchiveAssumption
  <2> QED  BY <2>1 DEF Cells, PayloadCell
<1> QED  BY <1>1, <1>2, <1>3, <1>4 DEF Placeholder, Header, Payload

\* A comparison of subsequences is one of cells.
LEMMA OnDiskIsThere ==
    ASSUME NEW T, file \in Seq(T), NEW a \in Recorded
    PROVE  /\ HeaderOnDisk(a) <=> HeaderIn(file, a)
           /\ PayloadOnDisk(a) <=> PayloadIn(file, a)
<1>1. a.at \in Nat /\ HeaderLen(a.names) \in Nat \ {0} /\ a.size \in Nat
  BY ArchiveAssumption DEF Recorded, HeaderLen
<1>2. PayloadAt(a) = a.at + HeaderLen(a.names) /\ EndOf(a) = PayloadAt(a) + a.size
  BY DEF PayloadAt, EndOf
<1>3. file \in Seq(T)  OBVIOUS
<1>4. HeaderOnDisk(a) <=> HeaderIn(file, a)
  <2>1. CASE PayloadAt(a) <= Len(file)
    <3>1. SubSeq(file, a.at + 1, PayloadAt(a)) =
              [i \in 1..HeaderLen(a.names) |-> file[a.at + i]]
      BY <1>1, <1>2, <1>3, <2>1
    <3> QED  BY <2>1, <3>1 DEF HeaderOnDisk, HeaderIn, Header
  <2> QED  BY <2>1 DEF HeaderOnDisk, HeaderIn
<1>5. PayloadOnDisk(a) <=> PayloadIn(file, a)
  <2>1. CASE EndOf(a) <= Len(file)
    <3>1. SubSeq(file, PayloadAt(a) + 1, EndOf(a)) =
              [i \in 1..a.size |-> file[PayloadAt(a) + i]]
      BY SMTT(30), <1>1, <1>2, <1>3, <2>1
    <3> QED  BY <2>1, <3>1 DEF PayloadOnDisk, PayloadIn, Payload
  <2> QED  BY <2>1 DEF PayloadOnDisk, PayloadIn
<1> QED  BY <1>4, <1>5

\* A finished entry is not touched by what is written behind it.
LEMMA Kept ==
    ASSUME NEW T, NEW f \in Seq(T), NEW g \in Seq(T), NEW a \in Recorded, NEW w \in Nat,
           Len(f) <= Len(g), \A i \in 1..Len(f) : i <= w => g[i] = f[i],
           EndOf(a) <= w, HeaderIn(f, a), PayloadIn(f, a)
    PROVE  HeaderIn(g, a) /\ PayloadIn(g, a)
<1>1. /\ a.at \in Nat /\ HeaderLen(a.names) \in Nat /\ a.size \in Nat
      /\ PayloadAt(a) = a.at + HeaderLen(a.names) /\ EndOf(a) = PayloadAt(a) + a.size
      /\ Len(f) \in Nat /\ Len(g) \in Nat
  BY ArchiveAssumption DEF Recorded, HeaderLen, PayloadAt, EndOf
<1>2. \A i \in 1..HeaderLen(a.names) : g[a.at + i] = HeaderCell(a.id, i)
  <2> SUFFICES ASSUME NEW i \in 1..HeaderLen(a.names)  PROVE g[a.at + i] = HeaderCell(a.id, i)
    OBVIOUS
  <2>1. f[a.at + i] = HeaderCell(a.id, i) /\ PayloadAt(a) <= Len(f)  BY DEF HeaderIn
  <2>2. a.at + i \in 1..Len(f) /\ a.at + i <= w  BY SMTT(30), <1>1, <2>1
  <2> QED  BY <2>1, <2>2
<1>3. \A i \in 1..a.size : g[PayloadAt(a) + i] = PayloadCell(a.id, i)
  <2> SUFFICES ASSUME NEW i \in 1..a.size  PROVE g[PayloadAt(a) + i] = PayloadCell(a.id, i)
    OBVIOUS
  <2>1. f[PayloadAt(a) + i] = PayloadCell(a.id, i) /\ EndOf(a) <= Len(f)  BY DEF PayloadIn
  <2>2. PayloadAt(a) + i \in 1..Len(f) /\ PayloadAt(a) + i <= w  BY <1>1, <2>1
  <2> QED  BY <2>1, <2>2
<1>4. PayloadAt(a) <= Len(g) /\ EndOf(a) <= Len(g)  BY <1>1 DEF HeaderIn, PayloadIn
<1> QED  BY <1>2, <1>3, <1>4 DEF HeaderIn, PayloadIn

-----------------------------------------------------------------------------
(* The steps *)

OpenEntries == [id : 1..MaxEntries, names : 0..MaxNames, at : Nat]

LEMMA Types ==
    ASSUME IInv
    PROVE  /\ file \in Seq(Cells) /\ Len(file) \in Nat /\ position \in 0..Len(file)
           /\ attempts \in Seq(Attempts) /\ Len(attempts) \in Nat
           /\ \A k \in 1..Len(attempts) : /\ attempts[k] \in Attempts /\ attempts[k] \in Recorded
                                         /\ EndOf(attempts[k]) \in Nat
           /\ entry # NoEntry => entry \in OpenEntries /\ entry.at \in Nat
           /\ begun \in 0..MaxEntries
<1>1. TypeOK  BY DEF IInv
<1>2. attempts \in Seq(Attempts)  BY <1>1 DEF TypeOK, Attempts
<1>3. \A k \in 1..Len(attempts) : attempts[k] \in Attempts  BY <1>2
<1>a. \A a \in Attempts : a \in Recorded  BY ArchiveAssumption DEF Attempts, Recorded
<1>4. \A a \in Attempts : EndOf(a) \in Nat
  BY ArchiveAssumption DEF Attempts, EndOf, PayloadAt, HeaderLen
<1>5. entry # NoEntry => entry \in OpenEntries /\ entry.at \in Nat
  BY <1>1 DEF TypeOK, OpenEntries
<1>6. file \in Seq(Cells) /\ position \in 0..Len(file) /\ begun \in 0..MaxEntries
  BY <1>1 DEF TypeOK
<1>7. Len(file) \in Nat /\ Len(attempts) \in Nat  BY <1>2, <1>6
<1> QED  BY <1>2, <1>3, <1>a, <1>4, <1>5, <1>6, <1>7

\* finish, however it ends: what it writes begins at the entry, and the
\* attempt it records is whole if it is Ok, and else torn or whole.
LEMMA AnswerKeepsInvariant ==
    ASSUME IInv, entry # NoEntry, NEW size \in 0..MaxPayload, NEW ok \in BOOLEAN,
           NEW a, a = [id |-> entry.id, names |-> entry.names, at |-> entry.at,
                       size |-> size, ok |-> ok],
           Answer(size, ok),
           file' \in Seq(Cells), position' \in 0..Len(file'), Len(file) <= Len(file'),
           \A i \in 1..Len(file) : i <= entry.at => file'[i] = file[i],
           entry.at <= position',
           ok => /\ EndOf(a) <= position' /\ HeaderIn(file', a) /\ PayloadIn(file', a)
                 /\ position = Len(file) => position' = Len(file') /\ position' = EndOf(a),
           HeaderIn(file', a) => PayloadIn(file', a)
    PROVE  IInv'
<1>1. /\ file \in Seq(Cells) /\ attempts \in Seq(Attempts) /\ entry \in OpenEntries
      /\ entry.at \in Nat /\ Len(attempts) \in Nat /\ Len(file) \in Nat
      /\ \A k \in 1..Len(attempts) : attempts[k] \in Recorded /\ EndOf(attempts[k]) \in Nat
  BY Types
<1>2. a \in Attempts  BY <1>1 DEF Attempts, OpenEntries
<1>a. a.ok = ok /\ a.at = entry.at  OBVIOUS
<1>3. /\ attempts' = Append(attempts, a) /\ entry' = NoEntry /\ failed' = (failed \/ ~ok)
      /\ begun' = begun /\ resumed' = resumed /\ dropped' = dropped
  BY DEF Answer
<1>4. /\ attempts' \in Seq(Attempts) /\ Len(attempts') = Len(attempts) + 1
      /\ \A k \in 1..Len(attempts) : attempts'[k] = attempts[k]
      /\ attempts'[Len(attempts) + 1] = a
  BY <1>1, <1>2, <1>3
<1>5. \A k \in 1..Len(attempts) : attempts[k].ok =>
          EndOf(attempts[k]) <= entry.at /\ HeaderIn(file', attempts[k]) /\ PayloadIn(file', attempts[k])
  <2> SUFFICES ASSUME NEW k \in 1..Len(attempts), attempts[k].ok
               PROVE  /\ EndOf(attempts[k]) <= entry.at
                      /\ HeaderIn(file', attempts[k]) /\ PayloadIn(file', attempts[k])
    OBVIOUS
  <2>1. /\ EndOf(attempts[k]) <= entry.at
        /\ HeaderIn(file, attempts[k]) /\ PayloadIn(file, attempts[k])
    BY DEF IInv, WritesBehind
  <2> QED  BY <1>1, <2>1, Kept
<1>6. TypeOK'
  BY <1>3, <1>4 DEF IInv, TypeOK, Attempts
<1>7. OpenEntryIsBlank'  BY <1>3 DEF OpenEntryIsBlank
<1>8. WritesBehind'
  <2> SUFFICES ASSUME NEW k \in 1..Len(attempts'), attempts'[k].ok
               PROVE  /\ EndOf(attempts'[k]) <= position'
                      /\ HeaderIn(file', attempts'[k]) /\ PayloadIn(file', attempts'[k])
    BY <1>3 DEF WritesBehind
  <2>1. CASE k = Len(attempts) + 1
    <3>1. attempts'[k] = a  BY <1>4, <2>1
    <3>2. ok  BY <1>a, <3>1
    <3> QED  BY <3>1, <3>2
  <2>2. CASE k \in 1..Len(attempts)
    <3>1. attempts'[k] = attempts[k]  BY <1>4, <2>2
    <3>2. position' \in Nat  OBVIOUS
    <3> QED  BY <1>1, <1>5, <2>2, <3>1, <3>2
  <2> QED  BY <1>1, <1>4, <2>1, <2>2
<1>9. FailuresShow'
  <2>1. ~failed' => \A k \in 1..Len(attempts') : attempts'[k].ok
    <3> SUFFICES ASSUME ~failed', NEW k \in 1..Len(attempts')  PROVE attempts'[k].ok  OBVIOUS
    <3>1. ok /\ ~failed  BY <1>3
    <3>2. CASE k = Len(attempts) + 1  BY <1>4, <1>a, <3>1, <3>2
    <3>3. CASE k \in 1..Len(attempts)
      <4>1. attempts[k].ok  BY <3>1, <3>3 DEF IInv, FailuresShow
      <4> QED  BY <1>4, <3>3, <4>1
    <3> QED  BY <1>1, <1>4, <3>2, <3>3
  <2>2. ~resumed' => \A k \in 1..Len(attempts') :
            HeaderIn(file', attempts'[k]) => PayloadIn(file', attempts'[k])
    <3> SUFFICES ASSUME ~resumed, NEW k \in 1..Len(attempts')
                 PROVE  HeaderIn(file', attempts'[k]) => PayloadIn(file', attempts'[k])
      BY <1>3
    <3>1. CASE k = Len(attempts) + 1  BY <1>4, <3>1
    <3>2. CASE k \in 1..Len(attempts)
      <4>1. ~failed  BY DEF IInv, FailuresShow
      <4>2. attempts[k].ok  BY <3>2, <4>1 DEF IInv, FailuresShow
      <4> QED  BY <1>4, <1>5, <3>2, <4>2
    <3> QED  BY <1>1, <1>4, <3>1, <3>2
  <2> QED  BY <1>3, <2>1, <2>2 DEF FailuresShow
<1>10. BackToBack'
  <2> SUFFICES ASSUME ~failed', ~dropped'
               PROVE  /\ position' = Len(file') /\ Len(attempts') = begun' /\ position' = ChainEnd'
                      /\ \A k \in 1..Len(attempts') :
                            attempts'[k].at = IF k = 1 THEN 1 ELSE EndOf(attempts'[k - 1])
    BY <1>3 DEF BackToBack
  <2>1. ~failed /\ ok /\ ~dropped  BY <1>3
  <2>2. /\ position = Len(file) /\ Len(attempts) = begun - 1 /\ entry.at = ChainEnd
        /\ \A k \in 1..Len(attempts) :
              attempts[k].at = IF k = 1 THEN 1 ELSE EndOf(attempts[k - 1])
    BY <2>1 DEF IInv, BackToBack
  <2>3. position' = Len(file') /\ position' = EndOf(a)  BY <2>1, <2>2
  <2>4. ChainEnd' = EndOf(a)  BY <1>1, <1>4 DEF ChainEnd
  <2>5. Len(attempts') = begun'
    BY <1>3, <1>4, <2>2, Types
  <2>6. \A k \in 1..Len(attempts') :
            attempts'[k].at = IF k = 1 THEN 1 ELSE EndOf(attempts'[k - 1])
    <3> SUFFICES ASSUME NEW k \in 1..Len(attempts')
                 PROVE  attempts'[k].at = IF k = 1 THEN 1 ELSE EndOf(attempts'[k - 1])
      OBVIOUS
    <3>1. CASE k = Len(attempts) + 1
      <4>1. attempts'[k].at = ChainEnd  BY <1>4, <1>a, <2>2, <3>1
      <4>2. CASE k = 1
        <5>1. Len(attempts) = 0  BY <1>1, <3>1, <4>2
        <5> QED  BY <4>1, <4>2, <5>1 DEF ChainEnd
      <4>3. CASE k # 1
        <5>1. Len(attempts) # 0 /\ k - 1 = Len(attempts) /\ k - 1 \in 1..Len(attempts)
          BY <1>1, <3>1, <4>3
        <5>2. attempts'[k - 1] = attempts[Len(attempts)]  BY <1>4, <5>1
        <5> QED  BY <4>1, <4>3, <5>1, <5>2 DEF ChainEnd
      <4> QED  BY <4>2, <4>3
    <3>2. CASE k \in 1..Len(attempts)
      <4>1. attempts'[k] = attempts[k]  BY <1>4, <3>2
      <4>2. k # 1 => attempts'[k - 1] = attempts[k - 1]
        <5>1. k # 1 => k - 1 \in 1..Len(attempts)  BY <1>1, <3>2
        <5> QED  BY <1>4, <5>1
      <4> QED  BY <2>2, <3>2, <4>1, <4>2
    <3> QED  BY <1>1, <1>4, <3>1, <3>2
  <2> QED  BY <2>3, <2>4, <2>5, <2>6
<1> QED  BY <1>6, <1>7, <1>8, <1>9, <1>10 DEF IInv

\* finish writes the payload at the position, behind the blank header of the
\* open entry, and then n cells of the header: the file is longer by the
\* payload if the position was its end, and nothing before the entry changed.
LEMMA PayloadWritten ==
    ASSUME IInv, entry # NoEntry, NEW n \in 0..MaxPayload
    PROVE  /\ WithPayload(n) \in Seq(Cells)
           /\ Len(WithPayload(n)) \in Nat /\ Len(file) <= Len(WithPayload(n))
           /\ position + n \in 0..Len(WithPayload(n))
           /\ position = Len(file) => Len(WithPayload(n)) = position + n
           /\ \A i \in 1..Len(file) : i <= position => WithPayload(n)[i] = file[i]
           /\ \A i \in 1..n : WithPayload(n)[position + i] = PayloadCell(entry.id, i)
<1>1. /\ file \in Seq(Cells) /\ Len(file) \in Nat /\ position \in 0..Len(file)
      /\ entry \in OpenEntries
  BY Types
<1>2. entry.id \in 1..MaxEntries /\ entry.names \in 0..MaxNames  BY <1>1 DEF OpenEntries
<1> DEFINE s == Payload(entry.id, n)
<1>3. s \in Seq(Cells) /\ Len(s) = n /\ \A i \in 1..n : s[i] = PayloadCell(entry.id, i)
  BY <1>2, WrittenCells
<1> HIDE DEF s
<1>4. WithPayload(n) = Overwrite(file, position, s)  BY DEF WithPayload, s
<1>5. /\ WithPayload(n) \in Seq(Cells)
      /\ Len(WithPayload(n)) = IF position + n > Len(file) THEN position + n ELSE Len(file)
      /\ \A i \in 1..Len(file) : i <= position \/ i > position + n => WithPayload(n)[i] = file[i]
      /\ \A i \in 1..n : WithPayload(n)[position + i] = s[i]
  <2>1. /\ Overwrite(file, position, s) \in Seq(Cells)
        /\ Len(Overwrite(file, position, s)) =
               IF position + Len(s) > Len(file) THEN position + Len(s) ELSE Len(file)
        /\ \A i \in 1..Len(file) :
              i <= position \/ i > position + Len(s) => Overwrite(file, position, s)[i] = file[i]
        /\ \A i \in 1..Len(s) : Overwrite(file, position, s)[position + i] = s[i]
    <3>1. file \in Seq(Cells) /\ s \in Seq(Cells) /\ position \in 0..Len(file)  BY <1>1, <1>3
    <3> QED  BY ONLY <3>1, OverwriteFacts
  <2> QED  BY <1>3, <1>4, <2>1
<1>6. n \in Nat  BY ArchiveAssumption
<1> QED  BY <1>1, <1>3, <1>5, <1>6

LEMMA PatchWritten ==
    ASSUME IInv, entry # NoEntry, NEW size \in 0..MaxPayload,
           NEW n \in 0..HeaderLen(entry.names), NEW g,
           g = Overwrite(WithPayload(size), entry.at, Prefix(Header(entry.id, entry.names), n))
    PROVE  /\ g \in Seq(Cells) /\ Len(g) = Len(WithPayload(size))
           /\ \A i \in 1..Len(file) : i <= entry.at => g[i] = file[i]
           /\ \A i \in 1..n : g[entry.at + i] = HeaderCell(entry.id, i)
           /\ \A i \in 1..size : g[position + i] = PayloadCell(entry.id, i)
           /\ entry.at + n <= position /\ entry.at + n \in 0..Len(g)
<1>1. /\ file \in Seq(Cells) /\ Len(file) \in Nat /\ position \in 0..Len(file)
      /\ entry \in OpenEntries /\ entry.at \in Nat
  BY Types
<1>2. entry.id \in 1..MaxEntries /\ entry.names \in 0..MaxNames  BY <1>1 DEF OpenEntries
<1>3. position = entry.at + HeaderLen(entry.names)  BY DEF IInv, OpenEntryIsBlank
<1>4. size \in Nat  BY ArchiveAssumption
<1> DEFINE h == Header(entry.id, entry.names)
           s == Prefix(h, n)
           f == WithPayload(size)
<1>5. /\ h \in Seq(Cells) /\ Len(h) = HeaderLen(entry.names) /\ HeaderLen(entry.names) \in Nat
      /\ \A i \in 1..HeaderLen(entry.names) : h[i] = HeaderCell(entry.id, i)
  BY <1>2, <1>4, WrittenCells
<1> HIDE DEF h
<1>6. s \in Seq(Cells) /\ Len(s) = n /\ \A i \in 1..n : s[i] = h[i]
  BY <1>5, PrefixFacts
<1> HIDE DEF s
<1>7. /\ f \in Seq(Cells) /\ Len(f) \in Nat /\ Len(file) <= Len(f)
      /\ position + size \in 0..Len(f)
      /\ \A i \in 1..Len(file) : i <= position => f[i] = file[i]
      /\ \A i \in 1..size : f[position + i] = PayloadCell(entry.id, i)
  BY PayloadWritten
<1> HIDE DEF f
<1>8. g = Overwrite(f, entry.at, s)  BY DEF f, s, h
<1>9. entry.at \in 0..Len(f) /\ n \in Nat /\ entry.at + n <= position /\ position <= Len(f)
  BY SMTT(30), <1>1, <1>3, <1>4, <1>5, <1>7
<1>10. /\ g \in Seq(Cells) /\ Len(g) = IF entry.at + n > Len(f) THEN entry.at + n ELSE Len(f)
       /\ \A i \in 1..Len(f) : i <= entry.at \/ i > entry.at + n => g[i] = f[i]
       /\ \A i \in 1..n : g[entry.at + i] = s[i]
  <2>1. /\ Overwrite(f, entry.at, s) \in Seq(Cells)
        /\ Len(Overwrite(f, entry.at, s)) =
               IF entry.at + Len(s) > Len(f) THEN entry.at + Len(s) ELSE Len(f)
        /\ \A i \in 1..Len(f) :
              i <= entry.at \/ i > entry.at + Len(s) => Overwrite(f, entry.at, s)[i] = f[i]
        /\ \A i \in 1..Len(s) : Overwrite(f, entry.at, s)[entry.at + i] = s[i]
    <3> DEFINE p == entry.at
    <3>1. f \in Seq(Cells) /\ s \in Seq(Cells) /\ p \in 0..Len(f)  BY <1>6, <1>7, <1>9
    <3> HIDE DEF p, s
    <3>2. Overwritten(f, p, s)  BY ONLY <3>1, OverwriteKnown
    <3> QED  BY <3>2 DEF Overwritten, p
  <2> QED  BY <1>6, <1>8, <2>1
<1>11. Len(g) = Len(f)  BY <1>1, <1>7, <1>9, <1>10
<1>12. \A i \in 1..Len(file) : i <= entry.at => g[i] = file[i]
  BY <1>1, <1>7, <1>9, <1>10
<1>13. \A i \in 1..n : g[entry.at + i] = HeaderCell(entry.id, i)
  BY <1>5, <1>6, <1>9, <1>10
<1>14. \A i \in 1..size : g[position + i] = PayloadCell(entry.id, i)
  <2> SUFFICES ASSUME NEW i \in 1..size  PROVE g[position + i] = PayloadCell(entry.id, i)
    OBVIOUS
  <2>1. position + i \in 1..Len(f) /\ position + i > entry.at + n
    BY <1>1, <1>4, <1>7, <1>9
  <2> QED  BY <1>7, <1>10, <2>1
<1>15. entry.at + n \in 0..Len(g)  BY <1>1, <1>7, <1>9, <1>11
<1>16. Len(g) = Len(WithPayload(size))  BY <1>11 DEF f
<1> QED  BY <1>9, <1>10, <1>12, <1>13, <1>14, <1>15, <1>16

\* The entry that is answered, and that it starts where the open entry did.
LEMMA AnsweredEntry ==
    ASSUME IInv, entry # NoEntry, NEW size \in 0..MaxPayload, NEW ok \in BOOLEAN, NEW a,
           a = [id |-> entry.id, names |-> entry.names, at |-> entry.at, size |-> size, ok |-> ok]
    PROVE  /\ PayloadAt(a) = position /\ EndOf(a) = position + size
           /\ a.id = entry.id /\ a.names = entry.names /\ a.at = entry.at /\ a.size = size
           /\ entry.at \in Nat /\ position \in Nat /\ size \in Nat
           /\ HeaderLen(entry.names) \in Nat \ {0}
           /\ position = entry.at + HeaderLen(entry.names)
<1>1. a.id = entry.id /\ a.names = entry.names /\ a.at = entry.at /\ a.size = size  OBVIOUS
<1>2. position = entry.at + HeaderLen(entry.names)  BY DEF IInv, OpenEntryIsBlank
<1>3. /\ entry \in OpenEntries /\ entry.at \in Nat
      /\ position \in 0..Len(file) /\ Len(file) \in Nat
  BY Types
<1>4. entry.names \in 0..MaxNames /\ size \in Nat /\ position \in Nat
  BY <1>3, ArchiveAssumption DEF OpenEntries
<1>5. HeaderLen(entry.names) \in Nat \ {0}  BY <1>4, ArchiveAssumption DEF HeaderLen
<1>6. PayloadAt(a) = position  BY <1>1, <1>2 DEF PayloadAt
<1>7. EndOf(a) = position + size  BY <1>1, <1>6 DEF EndOf
<1> QED  BY <1>1, <1>2, <1>3, <1>4, <1>5, <1>6, <1>7

LEMMA FinishKeeps == IInv /\ Finish => IInv'
<1> SUFFICES ASSUME IInv, Finish  PROVE IInv'  OBVIOUS
<1>1. entry # NoEntry  BY DEF Finish
<1>2. PICK size \in 0..MaxPayload :
          file' = WithHeader(size) /\ position' = position + size /\ Answer(size, TRUE)
  BY DEF Finish
<1> DEFINE a == [id |-> entry.id, names |-> entry.names, at |-> entry.at,
                 size |-> size, ok |-> TRUE]
           h == Header(entry.id, entry.names)
<1>3. /\ PayloadAt(a) = position /\ EndOf(a) = position + size
      /\ a.id = entry.id /\ a.names = entry.names /\ a.at = entry.at /\ a.size = size
      /\ entry.at \in Nat /\ position \in Nat /\ size \in Nat
      /\ HeaderLen(entry.names) \in Nat \ {0}
      /\ position = entry.at + HeaderLen(entry.names)
  BY <1>1, AnsweredEntry
<1>4. Prefix(h, HeaderLen(entry.names)) = h
  <2>1. h \in Seq(Cells) /\ Len(h) = HeaderLen(entry.names)
    <3>1. entry \in OpenEntries  BY <1>1, Types
    <3>2. entry.id \in 1..MaxEntries /\ entry.names \in 0..MaxNames  BY <3>1 DEF OpenEntries
    <3> QED  BY <3>2, WrittenCells
  <2> HIDE DEF h
  <2> QED  BY <2>1 DEF Prefix
<1>5. file' = Overwrite(WithPayload(size), entry.at, Prefix(h, HeaderLen(entry.names)))
  BY <1>2, <1>4 DEF WithHeader
<1>6. HeaderLen(entry.names) \in 0..HeaderLen(entry.names)  BY <1>3
<1>7. /\ file' \in Seq(Cells) /\ Len(file') = Len(WithPayload(size))
      /\ \A i \in 1..Len(file) : i <= entry.at => file'[i] = file[i]
      /\ \A i \in 1..HeaderLen(entry.names) : file'[entry.at + i] = HeaderCell(entry.id, i)
      /\ \A i \in 1..size : file'[position + i] = PayloadCell(entry.id, i)
  <2>1. IInv /\ size \in 0..MaxPayload  OBVIOUS
  <2> DEFINE n == HeaderLen(entry.names)
             g == file'
  <2>2. n \in 0..HeaderLen(entry.names)  BY <1>6
  <2>3. g = Overwrite(WithPayload(size), entry.at, Prefix(Header(entry.id, entry.names), n))
    BY <1>5
  <2> HIDE DEF n, g
  <2>4. /\ g \in Seq(Cells) /\ Len(g) = Len(WithPayload(size))
        /\ \A i \in 1..Len(file) : i <= entry.at => g[i] = file[i]
        /\ \A i \in 1..n : g[entry.at + i] = HeaderCell(entry.id, i)
        /\ \A i \in 1..size : g[position + i] = PayloadCell(entry.id, i)
    BY ONLY <1>1, <2>1, <2>2, <2>3, PatchWritten
  <2> QED  BY <2>4 DEF n, g
<1>8. /\ Len(WithPayload(size)) \in Nat /\ Len(file) <= Len(WithPayload(size))
      /\ position + size \in 0..Len(WithPayload(size))
      /\ position = Len(file) => Len(WithPayload(size)) = position + size
  BY <1>1, PayloadWritten
<1> HIDE DEF a
<1>9. HeaderIn(file', a)
  <2>1. PayloadAt(a) <= Len(file')
    <3>1. position <= position + size /\ position + size <= Len(file')  BY ONLY <1>3, <1>7, <1>8
    <3> QED  BY ONLY <1>3, <1>7, <1>8, <3>1
  <2>2. \A i \in 1..HeaderLen(a.names) : file'[a.at + i] = HeaderCell(a.id, i)
    BY ONLY <1>3, <1>7
  <2> QED  BY ONLY <2>1, <2>2 DEF HeaderIn
<1>10. PayloadIn(file', a)
  <2>1. EndOf(a) <= Len(file')  BY ONLY <1>3, <1>7, <1>8
  <2>2. \A i \in 1..a.size : file'[PayloadAt(a) + i] = PayloadCell(a.id, i)
    BY ONLY <1>3, <1>7
  <2> QED  BY ONLY <2>1, <2>2 DEF PayloadIn
<1>11. /\ position' \in 0..Len(file') /\ Len(file) <= Len(file') /\ entry.at <= position'
       /\ EndOf(a) <= position'
       /\ position = Len(file) => position' = Len(file') /\ position' = EndOf(a)
  BY <1>2, <1>3, <1>7, <1>8
<1> QED
  BY <1>1, <1>2, <1>7, <1>9, <1>10, <1>11, AnswerKeepsInvariant DEF a

LEMMA PayloadFailsKeeps == IInv /\ PayloadFails => IInv'
<1> SUFFICES ASSUME IInv, PayloadFails  PROVE IInv'  OBVIOUS
<1>1. entry # NoEntry  BY DEF PayloadFails
<1>2. PICK size \in 0..MaxPayload :
          \E n \in 0..size :
              file' = WithPayload(n) /\ position' = position + n /\ Answer(size, FALSE)
  BY DEF PayloadFails
<1>3. PICK n \in 0..size :
          file' = WithPayload(n) /\ position' = position + n /\ Answer(size, FALSE)
  BY <1>2
<1>4. n \in 0..MaxPayload /\ n \in Nat  BY ArchiveAssumption
<1> DEFINE a == [id |-> entry.id, names |-> entry.names, at |-> entry.at,
                 size |-> size, ok |-> FALSE]
<1>5. /\ a.id = entry.id /\ a.names = entry.names /\ a.at = entry.at
      /\ entry.at \in Nat /\ position \in Nat
      /\ HeaderLen(entry.names) \in Nat \ {0}
      /\ position = entry.at + HeaderLen(entry.names)
  BY <1>1, AnsweredEntry
<1>6. /\ WithPayload(n) \in Seq(Cells)
      /\ Len(WithPayload(n)) \in Nat /\ Len(file) <= Len(WithPayload(n))
      /\ position + n \in 0..Len(WithPayload(n))
      /\ \A i \in 1..Len(file) : i <= position => WithPayload(n)[i] = file[i]
  BY <1>1, <1>4, PayloadWritten
<1>7. /\ file' \in Seq(Cells) /\ position' \in 0..Len(file') /\ Len(file) <= Len(file')
      /\ \A i \in 1..Len(file) : i <= entry.at => file'[i] = file[i]
      /\ entry.at <= position'
  <2>1. file' \in Seq(Cells) /\ position' \in 0..Len(file') /\ Len(file) <= Len(file')
    BY <1>3, <1>6
  <2>2. entry.at <= position /\ entry.at <= position'
    BY <1>3, <1>4, <1>5
  <2>3. \A i \in 1..Len(file) : i <= entry.at => file'[i] = file[i]
    BY <1>3, <1>5, <1>6, <2>2
  <2> QED  BY <2>1, <2>2, <2>3
<1> HIDE DEF a
<1>8. ~HeaderIn(file', a)
  <2>1. position \in 0..Len(file) /\ Len(file) \in Nat  BY Types
  <2>2. 1 \in 1..HeaderLen(entry.names) /\ entry.at + 1 \in 1..Len(file)
        /\ entry.at + 1 <= position
    BY <1>5, <2>1
  <2>3. file[entry.at + 1] = Blank  BY <1>1, <2>2 DEF IInv, OpenEntryIsBlank
  <2>4. file'[entry.at + 1] = Blank  BY <1>3, <1>6, <2>2, <2>3
  <2>5. Blank # HeaderCell(entry.id, 1)  BY DEF Blank, HeaderCell
  <2> QED  BY <1>5, <2>2, <2>4, <2>5 DEF HeaderIn
<1> QED
  BY <1>1, <1>3, <1>7, <1>8, AnswerKeepsInvariant DEF a

LEMMA PatchFailsKeeps == IInv /\ PatchFails => IInv'
<1> SUFFICES ASSUME IInv, PatchFails  PROVE IInv'  OBVIOUS
<1>1. entry # NoEntry  BY DEF PatchFails
<1>2. PICK size \in 0..MaxPayload, n \in 0..HeaderLen(entry.names) :
          /\ file' = Overwrite(WithPayload(size), entry.at,
                               Prefix(Header(entry.id, entry.names), n))
          /\ position' = entry.at + n
          /\ Answer(size, FALSE)
  BY DEF PatchFails
<1> DEFINE a == [id |-> entry.id, names |-> entry.names, at |-> entry.at,
                 size |-> size, ok |-> FALSE]
<1>3. /\ PayloadAt(a) = position /\ EndOf(a) = position + size
      /\ a.id = entry.id /\ a.size = size
      /\ entry.at \in Nat /\ position \in Nat /\ size \in Nat
      /\ HeaderLen(entry.names) \in Nat \ {0}
  BY <1>1, AnsweredEntry
<1>4. /\ file' \in Seq(Cells) /\ Len(file') = Len(WithPayload(size))
      /\ \A i \in 1..Len(file) : i <= entry.at => file'[i] = file[i]
      /\ \A i \in 1..size : file'[position + i] = PayloadCell(entry.id, i)
      /\ entry.at + n \in 0..Len(file')
  BY <1>1, <1>2, PatchWritten
<1>5. /\ Len(WithPayload(size)) \in Nat /\ Len(file) <= Len(WithPayload(size))
      /\ position + size \in 0..Len(WithPayload(size))
  BY <1>1, PayloadWritten
<1> HIDE DEF a
<1>6. PayloadIn(file', a)  BY <1>3, <1>4, <1>5 DEF PayloadIn
<1>7. position' \in 0..Len(file') /\ Len(file) <= Len(file') /\ entry.at <= position'
  BY <1>2, <1>3, <1>4, <1>5
<1> QED
  BY <1>1, <1>2, <1>4, <1>6, <1>7, AnswerKeepsInvariant DEF a

\* Room for a header is written in full or in part at the position: nothing
\* before the position changes.
LEMMA RoomWritten ==
    ASSUME IInv, NEW names \in 0..MaxNames, NEW n \in 0..HeaderLen(names), NEW g,
           g = Overwrite(file, position, Prefix(Placeholder(names), n))
    PROVE  /\ g \in Seq(Cells) /\ Len(g) \in Nat /\ Len(file) <= Len(g)
           /\ position + n \in 0..Len(g) /\ position \in Nat /\ n \in Nat
           /\ position = Len(file) => Len(g) = position + n
           /\ \A i \in 1..Len(file) : i <= position => g[i] = file[i]
           /\ \A i \in 1..n : g[position + i] = Blank
<1>1. file \in Seq(Cells) /\ Len(file) \in Nat /\ position \in 0..Len(file) /\ position \in Nat
  BY Types
<1> DEFINE b == Placeholder(names)
           s == Prefix(b, n)
<1>2. HeaderLen(names) \in Nat  BY ArchiveAssumption DEF HeaderLen
<1>3. /\ b \in Seq(Cells) /\ Len(b) = HeaderLen(names)
      /\ \A i \in 1..HeaderLen(names) : b[i] = Blank
  <2>1. Blank \in Cells  BY DEF Cells
  <2> QED  BY <1>2, <2>1 DEF Placeholder
<1> HIDE DEF b
<1>4. s \in Seq(Cells) /\ Len(s) = n /\ \A i \in 1..n : s[i] = b[i]
  BY <1>2, <1>3, PrefixFacts
<1> HIDE DEF s
<1>5. g = Overwrite(file, position, s)  BY DEF s, b
<1>6. /\ Overwrite(file, position, s) \in Seq(Cells)
      /\ Len(Overwrite(file, position, s)) =
             IF position + Len(s) > Len(file) THEN position + Len(s) ELSE Len(file)
      /\ \A i \in 1..Len(file) :
            i <= position \/ i > position + Len(s) => Overwrite(file, position, s)[i] = file[i]
      /\ \A i \in 1..Len(s) : Overwrite(file, position, s)[position + i] = s[i]
  <2>1. file \in Seq(Cells) /\ s \in Seq(Cells) /\ position \in 0..Len(file)  BY <1>1, <1>4
  <2> QED  BY ONLY <2>1, OverwriteFacts
<1>7. n \in Nat /\ n <= HeaderLen(names)  BY <1>2
<1>8. \A i \in 1..n : s[i] = Blank  BY <1>3, <1>4, <1>7, <1>2
<1>9. /\ g \in Seq(Cells)
      /\ Len(g) = IF position + n > Len(file) THEN position + n ELSE Len(file)
      /\ \A i \in 1..Len(file) : i <= position => g[i] = file[i]
      /\ \A i \in 1..n : g[position + i] = Blank
  BY <1>4, <1>5, <1>6, <1>8
<1>10. /\ Len(g) \in Nat /\ Len(file) <= Len(g) /\ position + n \in 0..Len(g)
       /\ position = Len(file) => Len(g) = position + n
  BY ONLY <1>1, <1>7, <1>9
<1> QED  BY ONLY <1>1, <1>7, <1>9, <1>10

\* add_entry, however it ends: what was finished is not touched.
LEMMA FinishedKept ==
    ASSUME IInv, entry = NoEntry, UNCHANGED attempts,
           file' \in Seq(Cells), position' \in Nat, position <= position', Len(file) <= Len(file'),
           \A i \in 1..Len(file) : i <= position => file'[i] = file[i],
           entry' # NoEntry => entry'.at = position
    PROVE  WritesBehind'
<1>1. /\ file \in Seq(Cells) /\ Len(attempts) \in Nat /\ position \in Nat
      /\ \A k \in 1..Len(attempts) : attempts[k] \in Recorded /\ EndOf(attempts[k]) \in Nat
  BY Types
<1>2. SUFFICES ASSUME NEW k \in 1..Len(attempts), attempts[k].ok
               PROVE  /\ EndOf(attempts[k]) <= position'
                      /\ entry' # NoEntry => EndOf(attempts[k]) <= entry'.at
                      /\ HeaderIn(file', attempts[k]) /\ PayloadIn(file', attempts[k])
  BY DEF WritesBehind
<1>3. /\ EndOf(attempts[k]) <= position
      /\ HeaderIn(file, attempts[k]) /\ PayloadIn(file, attempts[k])
  BY <1>2 DEF IInv, WritesBehind
<1>4. HeaderIn(file', attempts[k]) /\ PayloadIn(file', attempts[k])
  BY <1>1, <1>2, <1>3, Kept
<1> QED  BY <1>1, <1>2, <1>3, <1>4

LEMMA AddEntryKeeps == IInv /\ AddEntry => IInv'
<1> SUFFICES ASSUME IInv, AddEntry  PROVE IInv'  OBVIOUS
<1>1. /\ entry = NoEntry /\ begun < MaxEntries /\ begun' = begun + 1
      /\ resumed' = (resumed \/ failed) /\ attempts' = attempts
      /\ failed' = failed /\ dropped' = dropped
  BY DEF AddEntry
<1>2. PICK names \in 0..MaxNames :
          Reserve(names) /\ entry' = [id |-> begun + 1, names |-> names, at |-> position]
  BY DEF AddEntry
<1> DEFINE b == Placeholder(names)
<1>3. HeaderLen(names) \in Nat \ {0} /\ HeaderLen(names) \in 0..HeaderLen(names)
  BY ArchiveAssumption DEF HeaderLen
<1>4. Prefix(b, HeaderLen(names)) = b
  <2>1. b \in Seq(Cells) /\ Len(b) = HeaderLen(names)
    <3>1. Blank \in Cells  BY DEF Cells
    <3> QED  BY <1>3, <3>1 DEF Placeholder
  <2> HIDE DEF b
  <2> QED  BY <2>1 DEF Prefix
<1>5. /\ file' = Overwrite(file, position, Prefix(b, HeaderLen(names)))
      /\ position' = position + HeaderLen(names)
  BY <1>2, <1>4 DEF Reserve
<1>6. /\ file' \in Seq(Cells) /\ Len(file') \in Nat /\ Len(file) <= Len(file')
      /\ position + HeaderLen(names) \in 0..Len(file') /\ position \in Nat
      /\ position = Len(file) => Len(file') = position + HeaderLen(names)
      /\ \A i \in 1..Len(file) : i <= position => file'[i] = file[i]
      /\ \A i \in 1..HeaderLen(names) : file'[position + i] = Blank
  BY <1>3, <1>5, RoomWritten
<1>7. /\ entry'.id = begun + 1 /\ entry'.names = names /\ entry'.at = position
      /\ begun \in 0..MaxEntries /\ MaxEntries \in Nat
  BY <1>2, Types, ArchiveAssumption
<1>8. begun + 1 \in 1..MaxEntries /\ begun' \in 0..MaxEntries  BY <1>1, <1>7
<1>9. entry' # NoEntry  BY <1>7, <1>8 DEF NoEntry
<1>10. TypeOK'
  <2>1. entry' \in OpenEntries  BY <1>2, <1>6, <1>8 DEF OpenEntries
  <2>2. failed \in BOOLEAN /\ resumed \in BOOLEAN /\ dropped \in BOOLEAN
        /\ attempts \in Seq(Attempts)
    BY DEF IInv, TypeOK, Attempts
  <2>3. position' \in 0..Len(file')  BY <1>5, <1>6
  <2> QED  BY <1>1, <1>6, <1>8, <2>1, <2>2, <2>3 DEF TypeOK, OpenEntries, Attempts
<1>11. OpenEntryIsBlank'
  BY <1>5, <1>6, <1>7 DEF OpenEntryIsBlank
<1>12. WritesBehind'
  <2>1. position' \in Nat /\ position <= position'  BY <1>3, <1>5, <1>6
  <2> QED  BY <1>1, <1>6, <1>7, <2>1, FinishedKept
<1>13. FailuresShow'
  <2>1. ~failed => \A k \in 1..Len(attempts) : attempts[k].ok  BY DEF IInv, FailuresShow
  <2>2. ~resumed' => ~failed  BY <1>1
  <2>3. \A k \in 1..Len(attempts) : attempts[k].ok => PayloadIn(file', attempts[k])
    BY <1>1, <1>12 DEF WritesBehind
  <2> QED  BY <1>1, <2>1, <2>2, <2>3 DEF FailuresShow
<1>14. BackToBack'
  <2> SUFFICES ASSUME ~failed, ~dropped
               PROVE  /\ position' = Len(file') /\ Len(attempts) = begun' - 1
                      /\ entry'.at = ChainEnd'
                      /\ \A k \in 1..Len(attempts) :
                            attempts[k].at = IF k = 1 THEN 1 ELSE EndOf(attempts[k - 1])
    BY <1>1, <1>9 DEF BackToBack
  <2>1. /\ position = Len(file) /\ Len(attempts) = begun /\ position = ChainEnd
        /\ \A k \in 1..Len(attempts) :
              attempts[k].at = IF k = 1 THEN 1 ELSE EndOf(attempts[k - 1])
    BY <1>1 DEF IInv, BackToBack
  <2>2. ChainEnd' = ChainEnd  BY <1>1 DEF ChainEnd
  <2>3. begun' - 1 = begun  BY <1>1, <1>7
  <2> QED  BY <1>5, <1>6, <1>7, <2>1, <2>2, <2>3
<1> QED  BY <1>10, <1>11, <1>12, <1>13, <1>14 DEF IInv

LEMMA AddEntryFailsKeeps == IInv /\ AddEntryFails => IInv'
<1> SUFFICES ASSUME IInv, AddEntryFails  PROVE IInv'  OBVIOUS
<1>1. /\ entry = NoEntry /\ begun < MaxEntries /\ begun' = begun + 1
      /\ resumed' = (resumed \/ failed) /\ attempts' = attempts
      /\ failed' = TRUE /\ entry' = entry /\ dropped' = dropped
  BY DEF AddEntryFails
<1>2. PICK names \in 0..MaxNames :
          \E n \in 0..(HeaderLen(names) - 1) :
             /\ file' = Overwrite(file, position, Prefix(Placeholder(names), n))
             /\ position' = position + n
  BY DEF AddEntryFails
<1>3. PICK n \in 0..(HeaderLen(names) - 1) :
          /\ file' = Overwrite(file, position, Prefix(Placeholder(names), n))
          /\ position' = position + n
  BY <1>2
<1>4. n \in 0..HeaderLen(names)  BY ArchiveAssumption DEF HeaderLen
<1>5. /\ file' \in Seq(Cells) /\ Len(file') \in Nat /\ Len(file) <= Len(file')
      /\ position + n \in 0..Len(file') /\ position \in Nat /\ n \in Nat
      /\ \A i \in 1..Len(file) : i <= position => file'[i] = file[i]
  BY <1>3, <1>4, RoomWritten
<1>6. begun' \in 0..MaxEntries  BY <1>1, Types, ArchiveAssumption
<1>7. TypeOK'
  <2>1. failed' \in BOOLEAN /\ resumed' \in BOOLEAN /\ dropped \in BOOLEAN
        /\ attempts \in Seq(Attempts)
    BY <1>1 DEF IInv, TypeOK, Attempts
  <2>2. position' \in 0..Len(file')  BY <1>3, <1>5
  <2> QED  BY <1>1, <1>5, <1>6, <2>1, <2>2 DEF TypeOK, Attempts
<1>8. OpenEntryIsBlank'  BY <1>1 DEF OpenEntryIsBlank
<1>9. WritesBehind'
  <2>1. position' \in Nat /\ position <= position'  BY <1>3, <1>5
  <2> QED  BY <1>1, <1>5, <2>1, FinishedKept
<1>10. FailuresShow'
  <2>1. ~failed => \A k \in 1..Len(attempts) : attempts[k].ok  BY DEF IInv, FailuresShow
  <2>2. ~resumed' => ~failed  BY <1>1
  <2>3. \A k \in 1..Len(attempts) : attempts[k].ok => PayloadIn(file', attempts[k])
    BY <1>1, <1>9 DEF WritesBehind
  <2> QED  BY <1>1, <2>1, <2>2, <2>3 DEF FailuresShow
<1>11. BackToBack'  BY <1>1 DEF BackToBack
<1> QED  BY <1>7, <1>8, <1>9, <1>10, <1>11 DEF IInv

LEMMA DropKeeps == IInv /\ Drop => IInv'
<1> SUFFICES ASSUME IInv, Drop  PROVE IInv'  OBVIOUS
<1>1. /\ entry # NoEntry /\ entry' = NoEntry /\ dropped' = TRUE
      /\ UNCHANGED <<file, position, begun, attempts, failed, resumed>>
  BY DEF Drop
<1>2. TypeOK'  BY <1>1 DEF IInv, TypeOK
<1>3. OpenEntryIsBlank' /\ BackToBack'  BY <1>1 DEF OpenEntryIsBlank, BackToBack
<1>4. WritesBehind' /\ FailuresShow'  BY <1>1 DEF IInv, WritesBehind, FailuresShow
<1> QED  BY <1>2, <1>3, <1>4 DEF IInv

LEMMA InitIInv == Init => IInv
<1> SUFFICES ASSUME Init  PROVE IInv  OBVIOUS
<1>1. /\ file = <<Info>> /\ position = 1 /\ entry = NoEntry /\ begun = 0 /\ attempts = << >>
      /\ failed = FALSE /\ resumed = FALSE /\ dropped = FALSE /\ Len(attempts) = 0
      /\ Len(file) = 1
  BY DEF Init
<1>2. TypeOK
  <2>1. Info \in Cells  BY DEF Cells
  <2>2. file \in Seq(Cells)  BY <1>1, <2>1
  <2>3. 0 \in 0..MaxEntries  BY ArchiveAssumption
  <2>4. attempts \in Seq([id : 1..MaxEntries, names : 0..MaxNames, at : Nat,
                          size : 0..MaxPayload, ok : BOOLEAN])
    BY <1>1
  <2>5. position \in 0..Len(file)  BY <1>1
  <2> QED  BY <1>1, <2>2, <2>3, <2>4, <2>5 DEF TypeOK
<1>3. OpenEntryIsBlank  BY <1>1 DEF OpenEntryIsBlank
<1>4. WritesBehind /\ FailuresShow  BY <1>1 DEF WritesBehind, FailuresShow
<1>5. BackToBack  BY <1>1 DEF BackToBack, ChainEnd
<1> QED  BY <1>2, <1>3, <1>4, <1>5 DEF IInv

LEMMA StepIInv == IInv /\ [Next]_vars => IInv'
<1> SUFFICES ASSUME IInv, [Next]_vars  PROVE IInv'  OBVIOUS
<1>1. CASE AddEntry  BY <1>1, AddEntryKeeps
<1>2. CASE AddEntryFails  BY <1>2, AddEntryFailsKeeps
<1>3. CASE Finish  BY <1>3, FinishKeeps
<1>4. CASE PayloadFails  BY <1>4, PayloadFailsKeeps
<1>5. CASE PatchFails  BY <1>5, PatchFailsKeeps
<1>6. CASE Drop  BY <1>6, DropKeeps
<1>7. CASE UNCHANGED vars
  <2>1. TypeOK'  BY <1>7 DEF IInv, TypeOK, vars
  <2>2. OpenEntryIsBlank' /\ WritesBehind' /\ FailuresShow'
    BY <1>7 DEF IInv, OpenEntryIsBlank, WritesBehind, FailuresShow, vars
  <2>3. BackToBack'  BY <1>7 DEF IInv, BackToBack, ChainEnd, vars
  <2> QED  BY <2>1, <2>2, <2>3 DEF IInv
<1> QED  BY <1>1, <1>2, <1>3, <1>4, <1>5, <1>6, <1>7 DEF Next

-----------------------------------------------------------------------------
(* What the invariant says *)

LEMMA InvKeepsFinished == IInv => CommittedIntact
<1> SUFFICES ASSUME IInv, NEW k \in DOMAIN attempts, attempts[k].ok
             PROVE  HeaderOnDisk(attempts[k]) /\ PayloadOnDisk(attempts[k])
  BY DEF CommittedIntact
<1>2. k \in 1..Len(attempts) /\ attempts[k] \in Recorded /\ file \in Seq(Cells)  BY Types
<1>3. HeaderIn(file, attempts[k]) /\ PayloadIn(file, attempts[k])
  BY <1>2 DEF IInv, WritesBehind
<1> QED  BY ONLY <1>2, <1>3, OnDiskIsThere

LEMMA InvMakesArchive == IInv => FileIsArchive
<1> SUFFICES ASSUME IInv, ~failed, ~dropped, entry = NoEntry, begun > 0
             PROVE  /\ position = Len(file) /\ Len(file) = EndOf(attempts[begun])
                    /\ Len(attempts) = begun
                    /\ \A k \in DOMAIN attempts :
                          attempts[k].at = IF k = 1 THEN 1 ELSE EndOf(attempts[k - 1])
  BY DEF FileIsArchive
<1>1. /\ position = Len(file) /\ Len(attempts) = begun /\ position = ChainEnd
      /\ \A k \in 1..Len(attempts) :
            attempts[k].at = IF k = 1 THEN 1 ELSE EndOf(attempts[k - 1])
  BY DEF IInv, BackToBack
<1>2. DOMAIN attempts = 1..Len(attempts) /\ begun \in 0..MaxEntries  BY Types
<1>3. ChainEnd = EndOf(attempts[begun])  BY <1>1, <1>2 DEF ChainEnd
<1> QED  BY <1>1, <1>2, <1>3

LEMMA InvShowsTorn == IInv => HeaderImpliesPayload
<1> SUFFICES ASSUME IInv, ~resumed, NEW k \in DOMAIN attempts, HeaderOnDisk(attempts[k])
             PROVE  PayloadOnDisk(attempts[k])
  BY DEF HeaderImpliesPayload
<1>2. k \in 1..Len(attempts) /\ attempts[k] \in Recorded /\ file \in Seq(Cells)  BY Types
<1>3. HeaderIn(file, attempts[k]) => PayloadIn(file, attempts[k])
  BY <1>2 DEF IInv, FailuresShow
<1>4. HeaderOnDisk(attempts[k])  OBVIOUS
<1> QED  BY ONLY <1>2, <1>3, <1>4, OnDiskIsThere

-----------------------------------------------------------------------------
(* The theorems *)

\* Nothing is written before the end of a finished entry.
THEOREM Invariant == Spec => []IInv
<1>1. Init => IInv  BY InitIInv
<1>2. IInv /\ [Next]_vars => IInv'  BY StepIInv
<1> QED  BY <1>1, <1>2, PTL DEF Spec

\* An entry whose finish returned Ok stays whole on disk, whatever fails in
\* later calls and wherever they leave the file position.
THEOREM FinishedStayWhole == Spec => []CommittedIntact
  BY InvKeepsFinished, Invariant, PTL

\* Until a call fails or an entry is dropped, the file is the info header and
\* the finished entries back to back.
THEOREM FilesAreArchives == Spec => []FileIsArchive
  BY InvMakesArchive, Invariant, PTL

\* Wherever finish stops, a complete header on disk has its payload behind it.
THEOREM HeadersHavePayloads == Spec => []HeaderImpliesPayload
  BY InvShowsTorn, Invariant, PTL

-----------------------------------------------------------------------------
(* Flattening *)

LEMMA LeastNat ==
    ASSUME NEW S \in SUBSET Nat, S # {}
    PROVE  \E x \in S : \A y \in S : x <= y
<1> DEFINE R == OpToRel(<, Nat)
<1>1. R = {ss \in Nat \X Nat : ss[1] < ss[2]}  BY DEF OpToRel
<1>2. IsWellFoundedOn(R, Nat)  BY NatLessThanWellFounded
<1> HIDE DEF R
<1>3. PICK x \in S : \A y \in S : ~(<<y, x>> \in R)  BY ONLY <1>2, S \subseteq Nat, S # {}, WFMin
<1>4. \A y \in S : x <= y
  <2> SUFFICES ASSUME NEW y \in S  PROVE x <= y  OBVIOUS
  <2>1. x \in Nat /\ y \in Nat  OBVIOUS
  <2>2. ~(y < x)  BY <1>1, <1>3, <2>1
  <2> QED  BY ONLY <2>1, <2>2
<1> QED  BY <1>4

Flattens(f, s, m) == f = [i \in 1..m |-> IF i = 1 THEN s[1] ELSE f[i - 1] \o s[i]]

\* The recursion of FlattenSeq has a solution: of the front parts of s, there
\* is no shortest one on which it has none.
LEMMA FlattenExists ==
    ASSUME NEW s, NEW n \in Nat, NEW m \in 0..n
    PROVE  \E f : Flattens(f, s, m)
<1> DEFINE Bad == {k \in 0..n : ~ \E f : Flattens(f, s, k)}
<1>1. SUFFICES ASSUME Bad # {}  PROVE FALSE  OBVIOUS
<1>2. PICK k \in Bad : \A j \in Bad : k <= j
  <2>1. Bad \in SUBSET Nat  OBVIOUS
  <2> HIDE DEF Bad
  <2> QED  BY <1>1, <2>1, LeastNat
<1>3. k \in 0..n /\ ~ \E f : Flattens(f, s, k)  OBVIOUS
<1>4. CASE k = 0
  <2>1. Flattens([i \in 1..0 |-> IF i = 1 THEN s[1] ELSE << >>[i - 1] \o s[i]], s, 0)  BY DEF Flattens
  <2> QED  BY <1>3, <1>4, <2>1
<1>5. CASE k # 0
  <2>1. k - 1 \in 0..n /\ ~(k <= k - 1) /\ k \in Nat  BY <1>3, <1>5
  <2>2. PICK f : Flattens(f, s, k - 1)  BY <1>2, <2>1
  <2> DEFINE g == [i \in 1..k |-> IF i = 1 THEN s[1] ELSE f[i - 1] \o s[i]]
  <2>3. \A i \in 1..(k - 1) : f[i] = IF i = 1 THEN s[1] ELSE f[i - 1] \o s[i]
    BY <2>2 DEF Flattens
  <2>4. \A i \in 1..(k - 1) : i \in 1..k  BY <2>1
  <2>5. \A i \in 1..(k - 1) : g[i] = f[i]  BY <2>3, <2>4
  <2>6. \A i \in 1..k : i # 1 => i - 1 \in 1..(k - 1)  BY <2>1
  <2>7. \A i \in 1..k : g[i] = IF i = 1 THEN s[1] ELSE f[i - 1] \o s[i]  OBVIOUS
  <2>8. g = [i \in 1..k |-> g[i]]  OBVIOUS
  <2> HIDE DEF g
  <2>9. \A i \in 1..k : g[i] = IF i = 1 THEN s[1] ELSE g[i - 1] \o s[i]
    BY <2>5, <2>6, <2>7
  <2>10. Flattens(g, s, k)  BY ONLY <2>8, <2>9 DEF Flattens
  <2> QED  BY <1>3, <2>10
<1> QED  BY <1>4, <1>5

\* Something is an element of s.
In(x, s) == \E k \in 1..Len(s) : s[k] = x

LEMMA InJoined ==
    ASSUME NEW T, NEW s \in Seq(T), NEW t \in Seq(T)
    PROVE  s \o t \in Seq(T) /\ \A x : In(x, s \o t) <=> In(x, s) \/ In(x, t)
<1> DEFINE m == Len(s)
           n == Len(t)
           u == s \o t
<1>1. /\ u \in Seq(T) /\ Len(u) = m + n /\ m \in Nat /\ n \in Nat
      /\ \A k \in 1..m : u[k] = s[k]
      /\ \A k \in (m + 1)..(m + n) : u[k] = t[k - m]
  OBVIOUS
<1> HIDE DEF m, n, u
<1>2. ASSUME NEW x, In(x, u)  PROVE In(x, s) \/ In(x, t)
  <2>1. PICK k \in 1..(m + n) : u[k] = x  BY <1>1, <1>2 DEF In
  <2>2. CASE k \in 1..m  BY <1>1, <2>1, <2>2 DEF In, m
  <2>3. CASE k \notin 1..m
    <3>1. k \in (m + 1)..(m + n) /\ k - m \in 1..n  BY <1>1, <2>3
    <3> QED  BY <1>1, <2>1, <3>1 DEF In, n
  <2> QED  BY <2>2, <2>3
<1>3. ASSUME NEW x, In(x, s)  PROVE In(x, u)
  <2>1. PICK k \in 1..m : s[k] = x  BY <1>3 DEF In, m
  <2>2. k \in 1..Len(u)  BY <1>1
  <2> QED  BY <1>1, <2>1, <2>2 DEF In
<1>4. ASSUME NEW x, In(x, t)  PROVE In(x, u)
  <2>1. PICK k \in 1..n : t[k] = x  BY <1>4 DEF In, n
  <2>2. m + k \in 1..Len(u) /\ m + k \in (m + 1)..(m + n) /\ (m + k) - m = k  BY <1>1
  <2> QED  BY <1>1, <2>1, <2>2 DEF In
<1> QED  BY <1>1, <1>2, <1>3, <1>4 DEF u

\* A flattened sequence has the elements of its parts.
LEMMA FlattenFacts ==
    ASSUME NEW T, NEW s \in Seq(Seq(T))
    PROVE  /\ FlattenSeq(s) \in Seq(T)
           /\ \A x : In(x, FlattenSeq(s)) <=> \E k \in 1..Len(s) : In(x, s[k])
<1> DEFINE n == Len(s)
<1>1. n \in Nat /\ \A k \in 1..n : s[k] \in Seq(T)  OBVIOUS
<1>2. CASE n = 0
  <2>1. FlattenSeq(s) = s  BY <1>2 DEF FlattenSeq
  <2>2. s = << >>  BY <1>2
  <2>3. << >> \in Seq(T) /\ \A x : ~In(x, << >>)  BY DEF In
  <2>4. 1..Len(s) = {}  BY <1>2
  <2>5. FlattenSeq(s) \in Seq(T)  BY <2>1, <2>2, <2>3
  <2> QED  BY ONLY <2>1, <2>2, <2>3, <2>4, <2>5, Zenon
<1>3. CASE n # 0
  <2> DEFINE f == CHOOSE g : g = [i \in 1..n |-> IF i = 1 THEN s[1] ELSE g[i - 1] \o s[i]]
  <2>1. FlattenSeq(s) = f[n]  BY <1>3 DEF FlattenSeq
  <2>2. Flattens(f, s, n)
    <3> HIDE DEF f, n
    <3>0. n \in Nat /\ n \in 0..n  BY <1>1
    <3>1. \E g : Flattens(g, s, n)  BY <3>0, FlattenExists
    <3> USE DEF f
    <3> QED  BY <3>1, Zenon DEF Flattens
  <2> HIDE DEF f, n
  <2>3. \A i \in 1..n : f[i] = IF i = 1 THEN s[1] ELSE f[i - 1] \o s[i]
    BY <2>2 DEF Flattens
  <2> DEFINE Good(i) == f[i] \in Seq(T) /\ \A x : In(x, f[i]) <=> \E k \in 1..i : In(x, s[k])
             Bad == {i \in 1..n : ~Good(i)}
  <2>4. Bad = {}
    <3> SUFFICES ASSUME Bad # {}  PROVE FALSE  OBVIOUS
    <3>1. PICK i \in Bad : \A j \in Bad : i <= j
      <4>1. Bad \in SUBSET Nat  OBVIOUS
      <4> HIDE DEF Bad
      <4> QED  BY <4>1, LeastNat
    <3>2. i \in 1..n /\ ~Good(i)  OBVIOUS
    <3>3. CASE i = 1
      <4>1. f[1] = s[1] /\ s[1] \in Seq(T)  BY <1>1, <2>3, <3>2, <3>3
      <4>2. 1..1 = {1}  OBVIOUS
      <4>3. Good(1)  BY <4>1, <4>2
      <4> QED  BY <3>2, <3>3, <4>3
    <3>4. CASE i # 1
      <4>1. i - 1 \in 1..n /\ ~(i <= i - 1) /\ i \in Nat  BY <1>1, <3>2, <3>4
      <4>2. Good(i - 1)  BY <3>1, <4>1
      <4>3. f[i] = f[i - 1] \o s[i] /\ s[i] \in Seq(T)  BY <1>1, <2>3, <3>2, <3>4
      <4>4. /\ f[i] \in Seq(T)
            /\ \A x : In(x, f[i]) <=> In(x, f[i - 1]) \/ In(x, s[i])
        BY <4>2, <4>3, InJoined
      <4>5. 1..i = (1..(i - 1)) \cup {i}  BY <4>1
      <4>6. \A x : (\E k \in 1..i : In(x, s[k])) <=> (\E k \in 1..(i - 1) : In(x, s[k])) \/ In(x, s[i])
        BY ONLY <4>5
      <4>7. Good(i)  BY <4>2, <4>4, <4>6
      <4> QED  BY <3>2, <4>7
    <3> QED  BY <3>3, <3>4
  <2>5. Good(n)
    <3>1. n \in 1..n  BY <1>1, <1>3
    <3> HIDE DEF Good
    <3> QED  BY <2>4, <3>1
  <2> QED  BY <2>1, <2>5 DEF n
<1> QED  BY <1>2, <1>3

-----------------------------------------------------------------------------
(* Collecting the inputs *)

Nodes == DOMAIN Tree
Inside(d) == ToSet(Tree[d].children)
Files == {n \in Nodes : Tree[n].kind = "file"}
Bases == {Tree[n].base : n \in Nodes}
Found == [node : Files, name : Seq(Bases) \ {<< >>}]

\* WalkDir, taken apart: what the children of a directory contribute, and the
\* recursion as an equation.
Parts(w, lost, d) == [k \in DOMAIN Tree[d].children |->
    Prefixed(Tree[d].base, Below(w, lost, Tree[d].children[k]))]
Walks(w, lost, S) == w = [d \in S |-> FlattenSeq(Parts(w, lost, d))]
\* A set of nodes with everything inside.
Down(S) == S \subseteq Nodes /\ \A d \in S : Inside(d) \subseteq S

LEMMA InsideFacts ==
    ASSUME NEW d \in Nodes
    PROVE  /\ Tree[d].children \in Seq(Nodes) /\ Len(Tree[d].children) \in Nat
           /\ DOMAIN Tree[d].children = 1..Len(Tree[d].children)
           /\ Inside(d) = {Tree[d].children[k] : k \in 1..Len(Tree[d].children)}
           /\ Inside(d) \subseteq Nodes
<1>1. Tree[d].children \in Seq(Nodes)  BY TreeAssumption DEF Nodes
<1> DEFINE c == Tree[d].children
<1>2. Len(c) \in Nat /\ DOMAIN c = 1..Len(c) /\ \A k \in 1..Len(c) : c[k] \in Nodes
  BY <1>1
<1>3. Inside(d) = {c[k] : k \in DOMAIN c}  BY DEF Inside, ToSet
<1> QED  BY <1>1, <1>2, <1>3

\* Of any set of nodes, some node has none of them inside.
LEMMA Lowest ==
    ASSUME NEW S \in SUBSET Nodes, S # {}
    PROVE  \E d \in S : \A c \in Inside(d) : c \notin S
<1>1. PICK d \in S : ToSet(Tree[d].children) \cap S = {}  BY TreeAssumption DEF Nodes
<1> QED  BY <1>1 DEF Inside

\* A directory's listing depends only on those of the nodes inside.
LEMMA PartsLocal ==
    ASSUME NEW lost, NEW d \in Nodes, NEW v, NEW w, \A c \in Inside(d) : v[c] = w[c]
    PROVE  Parts(v, lost, d) = Parts(w, lost, d)
<1> DEFINE c == Tree[d].children
<1>1. \A k \in DOMAIN c : c[k] \in Inside(d)  BY DEF Inside, ToSet
<1>2. \A k \in DOMAIN c : Below(v, lost, c[k]) = Below(w, lost, c[k])  BY <1>1 DEF Below
<1> QED  BY <1>2 DEF Parts

LEMMA WalksAgree ==
    ASSUME NEW lost, NEW S, NEW U, Down(S), Down(U), NEW v, NEW w, Walks(v, lost, S), Walks(w, lost, U)
    PROVE  \A d \in S \cap U : v[d] = w[d]
<1> DEFINE Bad == {d \in S \cap U : v[d] # w[d]}
<1>1. SUFFICES ASSUME Bad # {}  PROVE FALSE  OBVIOUS
<1>2. PICK d \in Bad : \A c \in Inside(d) : c \notin Bad
  <2>1. Bad \in SUBSET Nodes  BY DEF Down
  <2> HIDE DEF Bad
  <2> QED  BY <1>1, <2>1, Lowest
<1>3. \A c \in Inside(d) : v[c] = w[c]  BY <1>2 DEF Down
<1>4. Parts(v, lost, d) = Parts(w, lost, d)
  <2>1. d \in Nodes  BY DEF Down
  <2> QED  BY <1>3, <2>1, PartsLocal
<1>5. v[d] = FlattenSeq(Parts(v, lost, d)) /\ w[d] = FlattenSeq(Parts(w, lost, d))
  <2>1. d \in S /\ d \in U  OBVIOUS
  <2> QED  BY <2>1 DEF Walks
<1> QED  BY <1>4, <1>5

\* The recursion of walk_dir has a solution: the nodes on which it has one are
\* closed downwards, and a lowest node without would have one as well.
LEMMA WalkExists ==
    ASSUME NEW lost
    PROVE  \E w : Walks(w, lost, Nodes)
<1> DEFINE Ok(S) == Down(S) /\ \E w : Walks(w, lost, S)
           U == {d \in Nodes : \E S \in SUBSET Nodes : d \in S /\ Ok(S)}
           W(d) == CHOOSE w : \E S \in SUBSET Nodes : d \in S /\ Down(S) /\ Walks(w, lost, S)
           g == [d \in U |-> FlattenSeq(Parts(W(d), lost, d))]
<1>1. ASSUME NEW d \in U  PROVE \E S \in SUBSET Nodes : d \in S /\ Down(S) /\ Walks(W(d), lost, S)
  <2>1. PICK S \in SUBSET Nodes : d \in S /\ Ok(S)  OBVIOUS
  <2>2. PICK w : Walks(w, lost, S)  BY <2>1
  <2>3. \E x : \E R \in SUBSET Nodes : d \in R /\ Down(R) /\ Walks(x, lost, R)  BY <2>1, <2>2
  <2> QED  BY ONLY <2>3
<1>2. Down(U)
  <2> SUFFICES ASSUME NEW d \in U, NEW c \in Inside(d)  PROVE c \in U  BY DEF Down
  <2>1. PICK S \in SUBSET Nodes : d \in S /\ Ok(S)  OBVIOUS
  <2>2. c \in S  BY <2>1 DEF Down
  <2> QED  BY <2>1, <2>2
<1> HIDE DEF W
<1>3. ASSUME NEW S \in SUBSET Nodes, Down(S), NEW w, Walks(w, lost, S)
      PROVE  S \subseteq U /\ \A d \in S : g[d] = w[d]
  <2>1. S \subseteq U  BY <1>3
  <2>2. ASSUME NEW d \in S  PROVE g[d] = w[d]
    <3>1. d \in U  BY <2>1
    <3>2. PICK R \in SUBSET Nodes : d \in R /\ Down(R) /\ Walks(W(d), lost, R)  BY <1>1, <3>1
    <3>3. W(d)[d] = w[d]  BY <1>3, <3>2, WalksAgree
    <3>4. W(d)[d] = FlattenSeq(Parts(W(d), lost, d))  BY <3>2 DEF Walks
    <3>5. g[d] = FlattenSeq(Parts(W(d), lost, d))  BY <3>1
    <3> QED  BY <3>3, <3>4, <3>5
  <2> QED  BY <2>1, <2>2
<1>4. \A d \in U : g[d] = FlattenSeq(Parts(g, lost, d))
  <2> SUFFICES ASSUME NEW d \in U  PROVE g[d] = FlattenSeq(Parts(g, lost, d))  OBVIOUS
  <2>1. PICK S \in SUBSET Nodes : d \in S /\ Down(S) /\ Walks(W(d), lost, S)  BY <1>1
  <2>2. \A c \in S : g[c] = W(d)[c]  BY <1>3, <2>1
  <2> DEFINE v == W(d)
  <2>3. d \in Nodes /\ \A c \in Inside(d) : v[c] = g[c]  BY <2>1, <2>2 DEF Down
  <2>4. g[d] = FlattenSeq(Parts(v, lost, d))  OBVIOUS
  <2> HIDE DEF g, v
  <2>5. Parts(v, lost, d) = Parts(g, lost, d)  BY <2>3, PartsLocal
  <2> QED  BY <2>4, <2>5
<1>5. g = [d \in U |-> g[d]]  OBVIOUS
<1> HIDE DEF g
<1>6. Walks(g, lost, U)  BY <1>4, <1>5 DEF Walks
<1>7. U = Nodes
  <2> SUFFICES ASSUME Nodes \ U # {}  PROVE FALSE  OBVIOUS
  <2>1. PICK d \in Nodes \ U : \A c \in Inside(d) : c \notin Nodes \ U
    <3>1. Nodes \ U \in SUBSET Nodes  OBVIOUS
    <3> HIDE DEF U
    <3> QED  BY <3>1, Lowest
  <2>2. Inside(d) \subseteq U /\ d \in Nodes /\ d \notin U
    <3> HIDE DEF U
    <3> QED  BY <2>1, InsideFacts
  <2> DEFINE S == U \cup {d}
             h == [x \in S |-> FlattenSeq(Parts(g, lost, x))]
  <2>3. Down(S)  BY <1>2, <2>2 DEF Down
  <2>4. \A x \in U : h[x] = g[x]  BY <1>4
  <2>5. \A x \in S : x \in Nodes /\ \A c \in Inside(x) : g[c] = h[c]
    <3>1. \A x \in S : x \in Nodes /\ Inside(x) \subseteq U
      <4> HIDE DEF U
      <4> QED  BY <1>2, <2>2 DEF Down
    <3> HIDE DEF h, U
    <3> QED  BY <2>4, <3>1
  <2>6. h = [x \in S |-> FlattenSeq(Parts(g, lost, x))]  OBVIOUS
  <2> HIDE DEF h, U
  <2>7. \A x \in S : Parts(g, lost, x) = Parts(h, lost, x)  BY <2>5, PartsLocal
  <2>8. Walks(h, lost, S)  BY <2>6, <2>7 DEF Walks
  <2>9. S \in SUBSET Nodes /\ d \in S  BY <2>2 DEF U
  <2> HIDE DEF S
  <2>10. d \in U  BY <2>2, <2>3, <2>8, <2>9 DEF U
  <2> QED  BY <2>2, <2>10
<1> QED  BY <1>6, <1>7

LEMMA WalkFacts ==
    ASSUME NEW lost, NEW d \in Nodes
    PROVE  WalkDir(lost)[d] = FlattenSeq(Parts(WalkDir(lost), lost, d))
<1>1. WalkDir(lost) = CHOOSE w : Walks(w, lost, Nodes)
  BY DEF WalkDir, Walks, Nodes, Parts
<1>2. Walks(WalkDir(lost), lost, Nodes)  BY <1>1, WalkExists
<1> QED  BY <1>2 DEF Walks

\* The nodes a listing names.
NodesOf(s) == {s[k].node : k \in 1..Len(s)}

LEMMA NodeIsIn ==
    ASSUME NEW s, NEW x
    PROVE  x \in NodesOf(s) <=> \E e : In(e, s) /\ e.node = x
  BY DEF NodesOf, In

LEMMA FlattenNodes ==
    ASSUME NEW s \in Seq(Seq(Found))
    PROVE  /\ FlattenSeq(s) \in Seq(Found)
           /\ \A x : x \in NodesOf(FlattenSeq(s)) <=> \E k \in 1..Len(s) : x \in NodesOf(s[k])
<1>1. /\ FlattenSeq(s) \in Seq(Found)
      /\ \A e : In(e, FlattenSeq(s)) <=> \E k \in 1..Len(s) : In(e, s[k])
  BY FlattenFacts
<1>2. ASSUME NEW x
      PROVE  x \in NodesOf(FlattenSeq(s)) <=> \E k \in 1..Len(s) : x \in NodesOf(s[k])
  <2>1. x \in NodesOf(FlattenSeq(s)) <=> \E e : In(e, FlattenSeq(s)) /\ e.node = x  BY NodeIsIn
  <2>2. \A k \in 1..Len(s) : x \in NodesOf(s[k]) <=> \E e : In(e, s[k]) /\ e.node = x
    BY NodeIsIn
  <2> QED  BY ONLY <1>1, <2>1, <2>2
<1> QED  BY <1>1, <1>2

LEMMA ListingFacts ==
    /\ << >> \in Seq(Found) /\ NodesOf(<< >>) = {}
    /\ \A c \in Files : /\ <<[node |-> c, name |-> <<Tree[c].base>>]>> \in Seq(Found)
                        /\ NodesOf(<<[node |-> c, name |-> <<Tree[c].base>>]>>) = {c}
<1>1. << >> \in Seq(Found) /\ NodesOf(<< >>) = {}
  <2>1. 1..Len(<< >>) = {}  OBVIOUS
  <2> QED  BY <2>1 DEF NodesOf
<1>2. ASSUME NEW c \in Files
      PROVE  /\ <<[node |-> c, name |-> <<Tree[c].base>>]>> \in Seq(Found)
             /\ NodesOf(<<[node |-> c, name |-> <<Tree[c].base>>]>>) = {c}
  <2> DEFINE e == [node |-> c, name |-> <<Tree[c].base>>]
  <2>1. Tree[c].base \in Bases  BY DEF Bases, Files
  <2>2. <<Tree[c].base>> \in Seq(Bases) \ {<< >>}  BY <2>1
  <2>3. e \in Found /\ e.node = c  BY <2>2 DEF Found
  <2> HIDE DEF e
  <2>4. <<e>> \in Seq(Found) /\ Len(<<e>>) = 1 /\ <<e>>[1] = e  BY <2>3
  <2>5. 1..1 = {1}  OBVIOUS
  <2>6. NodesOf(<<e>>) = {e.node}  BY ONLY <2>4, <2>5 DEF NodesOf
  <2> QED  BY <2>3, <2>4, <2>6 DEF e
<1> QED  BY <1>1, <1>2

LEMMA PrefixedFacts ==
    ASSUME NEW s \in Seq(Found), NEW base \in Bases
    PROVE  Prefixed(base, s) \in Seq(Found) /\ NodesOf(Prefixed(base, s)) = NodesOf(s)
<1> DEFINE n == Len(s)
           t == [j \in 1..n |-> [node |-> s[j].node, name |-> <<base>> \o s[j].name]]
<1>1. n \in Nat /\ DOMAIN s = 1..n /\ \A j \in 1..n : s[j] \in Found  OBVIOUS
<1>2. Prefixed(base, s) = t  BY <1>1 DEF Prefixed
<1> HIDE DEF n
<1>3. ASSUME NEW j \in 1..n  PROVE t[j] \in Found /\ t[j].node = s[j].node
  <2> DEFINE m == s[j].name
  <2>1. s[j].node \in Files /\ m \in Seq(Bases)  BY <1>1 DEF Found
  <2>2. <<base>> \o m \in Seq(Bases) \ {<< >>}
    <3> HIDE DEF m
    <3>1. /\ <<base>> \o m \in Seq(Bases) /\ Len(<<base>> \o m) = 1 + Len(m) /\ Len(m) \in Nat
      BY <2>1
    <3>2. Len(<<base>> \o m) # 0  BY ONLY <3>1
    <3>3. Len(<< >>) = 0  OBVIOUS
    <3> QED  BY ONLY <3>1, <3>2, <3>3
  <2>3. t[j] = [node |-> s[j].node, name |-> <<base>> \o m]  OBVIOUS
  <2> HIDE DEF t, m
  <2> QED  BY <2>1, <2>2, <2>3 DEF Found
<1>4. t \in Seq(Found) /\ Len(t) = n
  <2>1. t = [j \in 1..n |-> t[j]]  OBVIOUS
  <2> HIDE DEF t
  <2> QED  BY <1>1, <1>3, <2>1
<1> HIDE DEF t
<1> QED  BY <1>2, <1>3, <1>4 DEF NodesOf, n

\* What a child contributes, once the listings below it are known.
LEMMA BelowFacts ==
    ASSUME NEW lost, NEW c \in Nodes, NEW w, w[c] \in Seq(Found)
    PROVE  /\ Below(w, lost, c) \in Seq(Found)
           /\ NodesOf(Below(w, lost, c)) =
                  IF ~Seen(lost, c) THEN {}
                  ELSE IF Tree[c].kind = "file" THEN {c}
                  ELSE IF Tree[c].kind = "dir" THEN NodesOf(w[c]) ELSE {}
<1>1. CASE ~Seen(lost, c)
  <2>1. Below(w, lost, c) = << >>  BY <1>1 DEF Below
  <2> QED  BY <1>1, <2>1, ListingFacts
<1>2. CASE Seen(lost, c) /\ Tree[c].kind = "file"
  <2>1. c \in Files  BY <1>2 DEF Files
  <2>2. Below(w, lost, c) = <<[node |-> c, name |-> <<Tree[c].base>>]>>
    BY <1>2, Tree[c].kind # "dir" DEF Below
  <2> QED  BY <1>2, <2>1, <2>2, ListingFacts
<1>3. CASE Seen(lost, c) /\ Tree[c].kind = "dir"
  <2>1. Below(w, lost, c) = w[c]
    <3>1. Tree[c].kind # "file"  BY <1>3
    <3> QED  BY <1>3, <3>1 DEF Below
  <2>2. Tree[c].kind # "file"  BY <1>3
  <2> QED  BY <1>3, <2>1, <2>2
<1>4. CASE Seen(lost, c) /\ Tree[c].kind \notin {"file", "dir"}
  <2>1. Below(w, lost, c) = << >>  BY <1>4 DEF Below
  <2> QED  BY <1>4, <2>1, ListingFacts
<1> QED  BY <1>1, <1>2, <1>3, <1>4

LEMMA PartsFacts ==
    ASSUME NEW lost, NEW d \in Nodes, NEW w, \A c \in Inside(d) : w[c] \in Seq(Found)
    PROVE  /\ FlattenSeq(Parts(w, lost, d)) \in Seq(Found)
           /\ \A x : x \in NodesOf(FlattenSeq(Parts(w, lost, d))) <=>
                         \E c \in Inside(d) : x \in NodesOf(Below(w, lost, c))
<1> DEFINE ch == Tree[d].children
           p == Parts(w, lost, d)
           n == Len(ch)
<1>1. n \in Nat /\ DOMAIN ch = 1..n /\ Inside(d) = {ch[k] : k \in 1..n} /\ Inside(d) \subseteq Nodes
  BY InsideFacts
<1>2. Tree[d].base \in Bases  BY DEF Bases
<1>3. ASSUME NEW k \in 1..n
      PROVE  Prefixed(Tree[d].base, Below(w, lost, ch[k])) \in Seq(Found)
             /\ NodesOf(Prefixed(Tree[d].base, Below(w, lost, ch[k]))) = NodesOf(Below(w, lost, ch[k]))
  <2>1. ch[k] \in Inside(d) /\ ch[k] \in Nodes  BY <1>1
  <2>2. w[ch[k]] \in Seq(Found)  BY <2>1
  <2>3. Below(w, lost, ch[k]) \in Seq(Found)  BY <2>1, <2>2, BelowFacts
  <2> QED  BY <1>2, <2>3, PrefixedFacts
<1>4. p = [k \in 1..n |-> Prefixed(Tree[d].base, Below(w, lost, ch[k]))]  BY <1>1 DEF Parts
<1> HIDE DEF p, n, ch
<1>5. p \in Seq(Seq(Found)) /\ Len(p) = n  BY <1>1, <1>3, <1>4
<1>6. \A k \in 1..n : NodesOf(p[k]) = NodesOf(Below(w, lost, ch[k]))  BY <1>3, <1>4
<1>7. /\ FlattenSeq(p) \in Seq(Found)
      /\ \A x : x \in NodesOf(FlattenSeq(p)) <=> \E k \in 1..n : x \in NodesOf(p[k])
  BY <1>5, FlattenNodes
<1> QED  BY <1>1, <1>6, <1>7 DEF p

\* walk_dir lists files with the names that lead to them.
LEMMA WalkTyped ==
    ASSUME NEW lost
    PROVE  \A d \in Nodes : WalkDir(lost)[d] \in Seq(Found)
<1> DEFINE Bad == {d \in Nodes : WalkDir(lost)[d] \notin Seq(Found)}
<1>1. SUFFICES ASSUME Bad # {}  PROVE FALSE  OBVIOUS
<1>2. PICK d \in Bad : \A c \in Inside(d) : c \notin Bad
  <2>1. Bad \in SUBSET Nodes  OBVIOUS
  <2> HIDE DEF Bad
  <2> QED  BY <1>1, <2>1, Lowest
<1>3. d \in Nodes /\ WalkDir(lost)[d] \notin Seq(Found)  OBVIOUS
<1>4. \A c \in Inside(d) : WalkDir(lost)[c] \in Seq(Found)  BY <1>2, <1>3, InsideFacts
<1>5. WalkDir(lost)[d] \in Seq(Found)  BY <1>3, <1>4, PartsFacts, WalkFacts
<1> QED  BY <1>3, <1>5

LEMMA WalkLists ==
    ASSUME NEW lost, NEW d \in Nodes
    PROVE  \A x : x \in NodesOf(WalkDir(lost)[d]) <=>
                      \E c \in Inside(d) : x \in NodesOf(Below(WalkDir(lost), lost, c))
<1>1. \A c \in Inside(d) : WalkDir(lost)[c] \in Seq(Found)  BY WalkTyped, InsideFacts
<1> QED  BY <1>1, PartsFacts, WalkFacts

\* What an argument contributes.
Given(c, lost) ==
    CASE Tree[c].kind = "file" -> <<[node |-> c, name |-> <<Tree[c].base>>]>>
      [] Tree[c].kind = "dir" -> WalkDir(lost)[c]
      [] OTHER -> << >>

LEMMA GivenFacts ==
    ASSUME NEW lost, NEW c \in Nodes
    PROVE  /\ Given(c, lost) \in Seq(Found)
           /\ NodesOf(Given(c, lost)) = IF Tree[c].kind = "file" THEN {c}
                                  ELSE IF Tree[c].kind = "dir" THEN NodesOf(WalkDir(lost)[c]) ELSE {}
<1>1. CASE Tree[c].kind = "file"
  <2>1. c \in Files  BY <1>1 DEF Files
  <2>2. Given(c, lost) = <<[node |-> c, name |-> <<Tree[c].base>>]>>
    BY <1>1, Tree[c].kind # "dir" DEF Given
  <2> QED  BY <1>1, <2>1, <2>2, ListingFacts
<1>2. CASE Tree[c].kind = "dir"
  <2>1. Tree[c].kind # "file"  BY <1>2
  <2>2. Given(c, lost) = WalkDir(lost)[c]  BY <1>2, <2>1 DEF Given
  <2> QED  BY <1>2, <2>1, <2>2, WalkTyped
<1>3. CASE Tree[c].kind \notin {"file", "dir"}
  <2>1. Given(c, lost) = << >>  BY <1>3 DEF Given
  <2> QED  BY <1>3, <2>1, ListingFacts
<1> QED  BY <1>1, <1>2, <1>3

LEMMA CollectedFacts ==
    ASSUME NEW args \in Seq(Nodes), NEW losses
    PROVE  /\ CollectInputs(args, losses) \in Seq(Found)
           /\ \A x : x \in NodesOf(CollectInputs(args, losses)) <=>
                         \E k \in 1..Len(args) : x \in NodesOf(Given(args[k], losses[k]))
<1> DEFINE n == Len(args)
           p == [k \in 1..n |-> Given(args[k], losses[k])]
<1>1. n \in Nat /\ DOMAIN args = 1..n /\ \A k \in 1..n : args[k] \in Nodes  OBVIOUS
<1>2. CollectInputs(args, losses) = FlattenSeq(p)  BY <1>1 DEF CollectInputs, Given
<1> HIDE DEF n
<1>3. \A k \in 1..n : Given(args[k], losses[k]) \in Seq(Found)  BY <1>1, GivenFacts
<1>4. p \in Seq(Seq(Found)) /\ Len(p) = n /\ \A k \in 1..n : p[k] = Given(args[k], losses[k])
  <2>1. p = [k \in 1..n |-> p[k]] /\ \A k \in 1..n : p[k] = Given(args[k], losses[k])  OBVIOUS
  <2> HIDE DEF p
  <2> QED  BY <1>1, <1>3, <2>1
<1> HIDE DEF p
<1>5. /\ FlattenSeq(p) \in Seq(Found)
      /\ \A x : x \in NodesOf(FlattenSeq(p)) <=> \E k \in 1..Len(p) : x \in NodesOf(p[k])
  BY <1>4, FlattenNodes
<1> QED  BY ONLY <1>2, <1>4, <1>5 DEF n

\* An argument contributes the files it leads to, no other ones and no fewer.
LEMMA GivenExpected ==
    ASSUME NEW lost, NEW r \in Nodes
    PROVE  NodesOf(Given(r, lost)) = LedTo(r, lost)
<1> DEFINE N == NodesOf(Given(r, lost))
<1>1. N = IF Tree[r].kind = "file" THEN {r}
          ELSE IF Tree[r].kind = "dir" THEN NodesOf(WalkDir(lost)[r]) ELSE {}
  BY GivenFacts
<1>2. \A x : x \in N => x \in Files
  <2>1. Given(r, lost) \in Seq(Found)  BY GivenFacts
  <2>2. \A k \in 1..Len(Given(r, lost)) : Given(r, lost)[k] \in Found  BY <2>1
  <2> QED  BY <2>2 DEF NodesOf, Found
<1> HIDE DEF N
<1>3. ASSUME NEW S \in ClosedSets(lost), r \in S, NEW x \in N  PROVE x \in S
  <2> DEFINE Bad == {d \in Nodes : /\ Tree[d].kind = "dir" /\ d \in S
                                   /\ ~(NodesOf(WalkDir(lost)[d]) \subseteq S)}
  <2>1. Bad = {}
    <3> SUFFICES ASSUME Bad # {}  PROVE FALSE  OBVIOUS
    <3>1. PICK d \in Bad : \A c \in Inside(d) : c \notin Bad
      <4>1. Bad \in SUBSET Nodes  OBVIOUS
      <4> HIDE DEF Bad
      <4> QED  BY <4>1, Lowest
    <3>2. d \in Nodes /\ Tree[d].kind = "dir" /\ d \in S /\ ~(NodesOf(WalkDir(lost)[d]) \subseteq S)
      OBVIOUS
    <3>3. PICK y \in NodesOf(WalkDir(lost)[d]) : y \notin S  BY <3>2
    <3>4. PICK c \in Inside(d) : y \in NodesOf(Below(WalkDir(lost), lost, c))
      BY <3>2, <3>3, WalkLists
    <3>5. c \in Nodes  BY <3>2, InsideFacts
    <3>6. /\ Seen(lost, c)
          /\ y = c \/ (Tree[c].kind = "dir" /\ y \in NodesOf(WalkDir(lost)[c]))
      BY <3>4, <3>5, WalkTyped, BelowFacts
    <3>7. c \in S  BY <3>2, <3>6 DEF ClosedSets, Inside
    <3>8. c \notin Bad  BY <3>1
    <3> QED  BY <3>3, <3>5, <3>6, <3>7, <3>8
  <2>2. x = r \/ (Tree[r].kind = "dir" /\ x \in NodesOf(WalkDir(lost)[r]))  BY <1>1
  <2>3. r \notin Bad
    <3> HIDE DEF Bad
    <3> QED  BY <2>1
  <2> QED  BY <1>3, <2>2, <2>3
\* The nodes that N covers are closed.
<1> DEFINE C == {n \in Nodes : /\ Tree[n].kind = "file" => n \in N
                               /\ Tree[n].kind = "dir" => NodesOf(WalkDir(lost)[n]) \subseteq N}
<1>4. C \in ClosedSets(lost)
  <2>1. SUFFICES ASSUME NEW d \in C, Tree[d].kind = "dir", NEW c \in Inside(d), Seen(lost, c)
                 PROVE  c \in C
    BY DEF ClosedSets, Inside, Nodes
  <2>2. d \in Nodes /\ NodesOf(WalkDir(lost)[d]) \subseteq N  BY <2>1
  <2>3. c \in Nodes  BY <2>2, InsideFacts
  <2>4. NodesOf(Below(WalkDir(lost), lost, c)) \subseteq N  BY <2>2, WalkLists
  <2>5. Tree[c].kind = "file" => c \in N  BY <2>1, <2>3, <2>4, WalkTyped, BelowFacts
  <2>6. Tree[c].kind = "dir" => NodesOf(WalkDir(lost)[c]) \subseteq N
    <3> SUFFICES ASSUME Tree[c].kind = "dir"  PROVE NodesOf(WalkDir(lost)[c]) \subseteq N  OBVIOUS
    <3>1. Tree[c].kind # "file"  OBVIOUS
    <3>2. NodesOf(Below(WalkDir(lost), lost, c)) = NodesOf(WalkDir(lost)[c])
      BY <2>1, <2>3, <3>1, WalkTyped, BelowFacts
    <3> QED  BY <2>4, <3>2
  <2> QED  BY <2>3, <2>5, <2>6
<1>5. r \in C
  <2>1. Tree[r].kind = "file" => r \in N  BY <1>1
  <2>2. Tree[r].kind = "dir" => NodesOf(WalkDir(lost)[r]) \subseteq N
    <3> SUFFICES ASSUME Tree[r].kind = "dir"  PROVE NodesOf(WalkDir(lost)[r]) \subseteq N  OBVIOUS
    <3>1. Tree[r].kind # "file"  OBVIOUS
    <3> QED  BY <1>1, <3>1
  <2> QED  BY <2>1, <2>2
<1>6. \A x \in Files : (\A S \in ClosedSets(lost) : r \in S => x \in S) => x \in N
  BY <1>4, <1>5 DEF Files
<1>7. LedTo(r, lost) = {x \in Files : \A S \in ClosedSets(lost) : r \in S => x \in S}
  BY DEF LedTo, Files, Nodes
<1> HIDE DEF C
<1> QED  BY <1>2, <1>3, <1>6, <1>7 DEF N

\* collect_inputs finds the files its arguments lead to, as far as the walks
\* see them: those the properties speak of.
LEMMA CollectsExpected ==
    ASSUME roots \in RootLists, unread \in Losses[roots]
    PROVE  NodesOf(CollectInputs(roots, unread)) = Expected
<1>1. roots \in Seq(Nodes)  BY TreeAssumption DEF Nodes
<1>2. DOMAIN roots = 1..Len(roots) /\ \A k \in 1..Len(roots) : roots[k] \in Nodes  BY <1>1
<1>3. \A x : x \in NodesOf(CollectInputs(roots, unread)) <=>
                 \E k \in 1..Len(roots) : x \in LedTo(roots[k], unread[k])
  <2>1. \A k \in 1..Len(roots) : NodesOf(Given(roots[k], unread[k])) = LedTo(roots[k], unread[k])
    BY <1>2, GivenExpected
  <2> QED  BY <1>1, <2>1, CollectedFacts
<1>4. \A x : x \in SeenBy(roots, unread) <=> \E k \in 1..Len(roots) : x \in LedTo(roots[k], unread[k])
  BY <1>2 DEF SeenBy
<1>5. SeenBy(roots, unread) \subseteq DOMAIN Tree  BY <1>4 DEF LedTo
<1>6. ASSUME NEW n  PROVE <<<<roots, unread>>, n>> \in Leads <=> n \in SeenBy(roots, unread)
  <2>1. ASSUME <<<<roots, unread>>, n>> \in Leads  PROVE n \in SeenBy(roots, unread)
    <3>1. PICK args \in RootLists : \E losses \in Losses[args] :
              <<<<roots, unread>>, n>> \in {<<args, losses>>} \X SeenBy(args, losses)
      BY <2>1 DEF Leads
    <3> PICK losses \in Losses[args] :
              <<<<roots, unread>>, n>> \in {<<args, losses>>} \X SeenBy(args, losses)
      BY <3>1
    <3>2. <<roots, unread>> = <<args, losses>> /\ n \in SeenBy(args, losses)  OBVIOUS
    <3>3. roots = args /\ unread = losses  BY <3>2
    <3> QED  BY <3>2, <3>3
  <2>2. ASSUME n \in SeenBy(roots, unread)  PROVE <<<<roots, unread>>, n>> \in Leads
    <3>1. <<<<roots, unread>>, n>> \in {<<roots, unread>>} \X SeenBy(roots, unread)  BY <2>2
    <3> QED  BY <3>1 DEF Leads
  <2> QED  BY <2>1, <2>2
<1>7. Expected = SeenBy(roots, unread)  BY <1>5, <1>6 DEF Expected
<1> QED  BY <1>3, <1>4, <1>7

-----------------------------------------------------------------------------
(* What create knows of the disk *)

DiskCells == {Info, Blank} \cup [kind : {"header", "payload"}, id : Nat, part : Nat]

\* An attempt as create makes it: the k-th input, right behind the one before.
AttemptIsInput(k) ==
    /\ attempts[k] \in Recorded
    /\ attempts[k].id = k /\ attempts[k].names = NameCells(k) /\ attempts[k].size = Node(k).size
    /\ attempts[k].at = IF k = 1 THEN 1 ELSE EndOf(attempts[k - 1])
    /\ \A j \in 1..(k - 1) : attempts[j].ok /\ EndOf(attempts[j]) <= attempts[k].at
    /\ attempts[k].at <= position
    /\ attempts[k].ok =>
          EndOf(attempts[k]) <= position /\ HeaderIn(file, attempts[k]) /\ PayloadIn(file, attempts[k])

Orderly ==
    /\ Len(attempts) <= Len(inputs)
    /\ \A k \in 1..Len(attempts) : AttemptIsInput(k)

AllOk == \A k \in 1..Len(attempts) : attempts[k].ok

\* The info header is in its place.
InfoThere == file # << >> /\ file[1] = Info

\* Between two entries: the file and what is buffered end with the last one.
Between ==
    /\ entry = NoEntry /\ Len(attempts) = begun /\ AllOk
    /\ position = Len(file)
    /\ IF begun = 0 THEN file = << >> /\ buffer = <<Info>>
                    ELSE InfoThere /\ position = ChainEnd /\ buffer = << >>

\* In an entry: its header is reserved in the buffer, or its payload written
\* and the header waits.
Opened ==
    /\ begun \in 1..Len(inputs) /\ Len(attempts) = begun - 1 /\ AllOk
    /\ entry = [id |-> begun, names |-> NameCells(begun), at |-> ChainEnd]
    /\ InfoThere /\ position = ChainEnd
InReserve == Opened /\ position = Len(file) /\ buffer = Placeholder(NameCells(begun))
Pending(ok) == [id |-> begun, names |-> NameCells(begun), at |-> ChainEnd,
                size |-> Node(begun).size, ok |-> ok]
InPatch ==
    /\ Opened /\ buffer = Header(begun, NameCells(begun))
    /\ end_pos = Len(file) /\ end_pos = EndOf(Pending(TRUE)) /\ PayloadIn(file, Pending(TRUE))

\* All inputs are entries of the file.
Complete ==
    /\ entry = NoEntry /\ begun = Len(inputs) /\ Len(attempts) = begun /\ AllOk
    /\ InfoThere /\ position = Len(file) /\ position = ChainEnd /\ buffer = << >>

\* An entry that was not finished: nothing of its header is on disk or will
\* be, or its payload is and will not be touched.
TornIn(f, p, b, a) ==
    \/ /\ \A i \in 1..HeaderLen(a.names) : a.at + i <= Len(f) => f[a.at + i] = Blank
       /\ \A j \in 1..Len(b) : p + j <= PayloadAt(a) => b[j] = Blank
    \/ PayloadIn(f, a) /\ p + Len(b) <= PayloadAt(a)
Torn(a) == TornIn(file, position, buffer, a)
Halted ==
    /\ entry = NoEntry
    /\ \A k \in 1..Len(attempts) : attempts[k].ok \/ Torn(attempts[k])
    /\ Len(attempts) > 0 => InfoThere

DiskTypes ==
    /\ roots \in RootLists /\ inputs \in Seq(Found)
    /\ file \in Seq(DiskCells) /\ buffer \in Seq(DiskCells) /\ position \in 0..Len(file)
    /\ attempts \in Seq(Recorded) /\ begun \in Nat /\ end_pos \in Nat

Unopened ==
    /\ file = <<Info>> /\ position = 1 /\ entry = NoEntry /\ begun = 0 /\ attempts = << >>
    /\ inputs = << >> /\ truncated = {} /\ buffer = << >>

\* What holds at each step of create, and after it.
Stage ==
    \/ step = "start" /\ created = "running" /\ Unopened
    \/ step = "next" /\ created = "running" /\ Between
    \/ step = "add" /\ created = "running" /\ Between /\ begun < Len(inputs)
    \/ step = "payload" /\ created = "running" /\ InReserve
    \/ step = "patch" /\ created = "running" /\ InPatch
    \/ step = "drop" /\ created = "stopped" /\ Halted
    \/ step = "drop" /\ created = "ok" /\ Complete
    \/ step \in {"exit", "extract", "end"} /\ created = "stopped" /\ Halted /\ buffer = << >>
    \/ step \in {"exit", "extract", "end"} /\ created = "ok" /\ Complete
    \/ step = "exit" /\ created = "refused" /\ Unopened

OnDisk ==
    /\ DiskTypes /\ Orderly /\ Stage
    /\ failed = (created = "stopped") /\ resumed = FALSE /\ dropped = FALSE

\* What create has collected, and what it may have truncated.
Collected ==
    /\ unread \in Losses[roots]
    /\ IF step = "start" \/ created = "refused" THEN inputs = << >> /\ truncated = {}
       ELSE /\ inputs = CollectInputs(roots, unread) /\ inputs # << >> /\ ~ArchiveMatchesInput(inputs)
            /\ truncated = IF archive = Missing THEN {} ELSE {Tree[archive].inode}

-----------------------------------------------------------------------------
(* Lemmas *)

LEMMA RecordedFacts ==
    ASSUME NEW a \in Recorded
    PROVE  /\ a.id \in Nat /\ a.at \in Nat /\ a.names \in Nat /\ a.size \in Nat /\ a.ok \in BOOLEAN
           /\ HeaderLen(a.names) \in Nat \ {0}
           /\ PayloadAt(a) = a.at + HeaderLen(a.names) /\ PayloadAt(a) \in Nat
           /\ EndOf(a) = PayloadAt(a) + a.size /\ EndOf(a) \in Nat /\ EndOf(a) # 0
           /\ a.at < PayloadAt(a) /\ PayloadAt(a) <= EndOf(a) /\ a.at < EndOf(a)
<1>1. a.id \in Nat /\ a.at \in Nat /\ a.names \in Nat /\ a.size \in Nat /\ a.ok \in BOOLEAN
  BY DEF Recorded
<1>2. HeaderLen(a.names) \in Nat \ {0}  BY <1>1, ArchiveAssumption DEF HeaderLen
<1> QED  BY <1>1, <1>2 DEF PayloadAt, EndOf

\* The inputs have names and sizes.
LEMMA InputFacts ==
    ASSUME inputs \in Seq(Found), NEW k \in 1..Len(inputs)
    PROVE  NameCells(k) \in Nat /\ Node(k).size \in Nat /\ HeaderLen(NameCells(k)) \in Nat \ {0}
<1>1. inputs[k] \in Found  OBVIOUS
<1>2. inputs[k].node \in Nodes /\ inputs[k].name \in Seq(Bases) \ {<< >>}
  BY <1>1 DEF Found, Files
<1>3. Node(k).size \in Nat  BY <1>2, TreeAssumption DEF Node, Nodes
<1>4. NameCells(k) \in Nat
  <2> DEFINE m == inputs[k].name
  <2>1. m \in Seq(Bases) /\ m # << >>  BY <1>2
  <2> HIDE DEF m
  <2>2. Len(m) \in Nat \ {0}  BY <2>1
  <2>3. NameCells(k) = Len(m) - 1  BY DEF NameCells, Name, m
  <2> QED  BY <2>2, <2>3
<1> QED  BY <1>3, <1>4, ArchiveAssumption DEF HeaderLen

\* The cells create writes.
LEMMA CellFacts ==
    ASSUME NEW id \in Nat, NEW names \in Nat, NEW size \in Nat
    PROVE  /\ Info \in DiskCells /\ Blank \in DiskCells
           /\ Placeholder(names) \in Seq(DiskCells) /\ Len(Placeholder(names)) = HeaderLen(names)
           /\ \A i \in 1..HeaderLen(names) : Placeholder(names)[i] = Blank
           /\ Header(id, names) \in Seq(DiskCells) /\ Len(Header(id, names)) = HeaderLen(names)
           /\ \A i \in 1..HeaderLen(names) : Header(id, names)[i] = HeaderCell(id, i)
           /\ Payload(id, size) \in Seq(DiskCells) /\ Len(Payload(id, size)) = size
           /\ \A i \in 1..size : Payload(id, size)[i] = PayloadCell(id, i)
<1>1. HeaderLen(names) \in Nat  BY ArchiveAssumption DEF HeaderLen
<1>2. Info \in DiskCells /\ Blank \in DiskCells  BY DEF DiskCells
<1>3. \A i \in Nat : HeaderCell(id, i) \in DiskCells /\ PayloadCell(id, i) \in DiskCells
  BY DEF DiskCells, HeaderCell, PayloadCell
<1> QED  BY <1>1, <1>2, <1>3 DEF Placeholder, Header, Payload

LEMMA CellsDiffer == \A id, i : HeaderCell(id, i) # Blank
  BY DEF HeaderCell, Blank

\* Where the next entry begins, and that nothing lies behind it.
LEMMA ChainFacts ==
    ASSUME attempts \in Seq(Recorded), Orderly, AllOk
    PROVE  /\ ChainEnd \in Nat \ {0} /\ (Len(attempts) > 0 => ChainEnd <= position)
           /\ \A k \in 1..Len(attempts) : EndOf(attempts[k]) <= ChainEnd
<1> DEFINE n == Len(attempts)
<1>1. n \in Nat /\ \A k \in 1..n : attempts[k] \in Recorded  OBVIOUS
<1>2. CASE n = 0  BY <1>2 DEF ChainEnd
<1>3. CASE n # 0
  <2>1. n \in 1..n /\ n > 0  BY <1>1, <1>3
  <2>2. ChainEnd = EndOf(attempts[n])  BY <1>3 DEF ChainEnd
  <2> HIDE DEF n
  <2>3. EndOf(attempts[n]) \in Nat /\ EndOf(attempts[n]) # 0
    <3>1. attempts[n] \in Recorded  BY <1>1, <2>1
    <3> QED  BY ONLY <3>1, RecordedFacts
  <2>4. AttemptIsInput(n) /\ attempts[n].ok  BY <2>1 DEF Orderly, AllOk, n
  <2>5. ASSUME NEW k \in 1..n  PROVE EndOf(attempts[k]) <= EndOf(attempts[n])
    <3>1. CASE k = n  BY <2>3, <3>1
    <3>2. CASE k # n
      <4>1. k \in 1..(n - 1)  BY <1>1, <3>2
      <4>2. EndOf(attempts[k]) <= attempts[n].at  BY <2>4, <4>1 DEF AttemptIsInput
      <4>3. attempts[k] \in Recorded /\ attempts[n] \in Recorded  BY <1>1, <2>1
      <4>4. EndOf(attempts[k]) \in Nat  BY ONLY <4>3, RecordedFacts
      <4>5. attempts[n].at \in Nat /\ EndOf(attempts[n]) \in Nat /\ attempts[n].at < EndOf(attempts[n])
        BY ONLY <4>3, RecordedFacts
      <4> QED  BY ONLY <4>2, <4>4, <4>5
    <3> QED  BY <3>1, <3>2
  <2>6. EndOf(attempts[n]) <= position  BY <2>4 DEF AttemptIsInput
  <2> QED  BY <2>2, <2>3, <2>5, <2>6 DEF n
<1> QED  BY <1>2, <1>3

\* What is written from the position on does not disturb what was recorded.
Behind(g, p) ==
    /\ g \in Seq(DiskCells) /\ p \in Nat /\ position <= p /\ Len(file) <= Len(g)
    /\ \A i \in 1..Len(file) : i <= position => g[i] = file[i]

LEMMA AttemptKept ==
    ASSUME DiskTypes, NEW k \in 1..Len(attempts), AttemptIsInput(k), Behind(file', position'),
           inputs' = inputs, \A j \in 1..k : attempts'[j] = attempts[j]
    PROVE  AttemptIsInput(k)'
<1>1. /\ file \in Seq(DiskCells) /\ position \in Nat /\ k \in Nat /\ k \in 1..k
      /\ attempts[k] \in Recorded /\ attempts'[k] = attempts[k]
  BY DEF DiskTypes
<1>2. attempts[k].at \in Nat /\ EndOf(attempts[k]) \in Nat  BY <1>1, RecordedFacts
<1>3. NameCells(k)' = NameCells(k) /\ Node(k)' = Node(k)
  BY DEF NameCells, Name, Node
<1>4. attempts[k].at <= position'  BY <1>1, <1>2 DEF AttemptIsInput, Behind
<1>5. ASSUME attempts[k].ok
      PROVE  /\ EndOf(attempts[k]) <= position'
             /\ HeaderIn(file', attempts[k]) /\ PayloadIn(file', attempts[k])
  <2>1. /\ EndOf(attempts[k]) <= position
        /\ HeaderIn(file, attempts[k]) /\ PayloadIn(file, attempts[k])
    BY <1>5 DEF AttemptIsInput
  <2>2. HeaderIn(file', attempts[k]) /\ PayloadIn(file', attempts[k])
    BY <1>1, <2>1, Kept DEF Behind
  <2> QED  BY <1>1, <1>2, <2>1, <2>2 DEF Behind
<1>6. /\ k # 1 => attempts'[k - 1] = attempts[k - 1]
      /\ \A j \in 1..(k - 1) : attempts'[j] = attempts[j]
  BY <1>1
<1> QED  BY <1>1, <1>3, <1>4, <1>5, <1>6 DEF AttemptIsInput

LEMMA OrderlyKept ==
    ASSUME OnDisk, UNCHANGED <<attempts, inputs>>, Behind(file', position')
    PROVE  Orderly'
<1>1. DiskTypes /\ Orderly /\ attempts' = attempts /\ inputs' = inputs  BY DEF OnDisk
<1>2. \A k \in 1..Len(attempts) : AttemptIsInput(k)'  BY <1>1, AttemptKept DEF Orderly
<1> QED  BY <1>1, <1>2 DEF Orderly

\* The attempt that ends the open entry.
LEMMA OrderlyAnswered ==
    ASSUME OnDisk, Opened, NEW ok \in BOOLEAN, Answer(Node(entry.id).size, ok),
           inputs' = inputs, Behind(file', position'),
           ok => /\ EndOf(Pending(TRUE)) <= position'
                 /\ HeaderIn(file', Pending(TRUE)) /\ PayloadIn(file', Pending(TRUE))
    PROVE  /\ Orderly' /\ attempts' \in Seq(Recorded) /\ Len(attempts') = begun
           /\ attempts'[begun] = Pending(ok) /\ Pending(ok) \in Recorded
           /\ \A k \in 1..(begun - 1) : attempts'[k] = attempts[k] /\ attempts'[k].ok
           /\ ok => AllOk' /\ ChainEnd' = EndOf(Pending(TRUE))
<1>1. /\ DiskTypes /\ Orderly /\ begun \in 1..Len(inputs) /\ Len(attempts) = begun - 1 /\ AllOk
      /\ entry = [id |-> begun, names |-> NameCells(begun), at |-> ChainEnd]
      /\ position = ChainEnd
  BY DEF OnDisk, Opened
<1>2. /\ inputs \in Seq(Found) /\ attempts \in Seq(Recorded) /\ begun \in Nat
      /\ position \in Nat /\ Len(inputs) \in Nat
  BY <1>1 DEF DiskTypes
<1>3. /\ NameCells(begun) \in Nat /\ Node(begun).size \in Nat /\ ChainEnd \in Nat
      /\ \A k \in 1..Len(attempts) : EndOf(attempts[k]) <= ChainEnd
  BY <1>1, <1>2, InputFacts, ChainFacts
<1> DEFINE a == Pending(ok)
<1>4. /\ a \in Recorded /\ a.id = begun /\ a.names = NameCells(begun) /\ a.size = Node(begun).size
      /\ a.at = ChainEnd /\ a.ok = ok
  BY <1>2, <1>3 DEF Recorded, Pending
<1>5. attempts' = Append(attempts, a)  BY <1>1 DEF Answer, Pending
<1>6. /\ EndOf(Pending(TRUE)) = EndOf(a)
      /\ HeaderIn(file', Pending(TRUE)) = HeaderIn(file', a)
      /\ PayloadIn(file', Pending(TRUE)) = PayloadIn(file', a)
  BY DEF Pending, EndOf, PayloadAt, HeaderIn, PayloadIn
<1> HIDE DEF a
<1>7. /\ attempts' \in Seq(Recorded) /\ Len(attempts') = begun /\ attempts'[begun] = a
      /\ \A k \in 1..(begun - 1) : attempts'[k] = attempts[k]
  BY <1>1, <1>2, <1>4, <1>5
<1>8. \A k \in 1..(begun - 1) : attempts'[k].ok  BY <1>1, <1>7 DEF AllOk
<1>9. ASSUME NEW k \in 1..begun  PROVE AttemptIsInput(k)'
  <2>1. CASE k = begun
    <3>1. attempts'[k] = a  BY <1>7, <2>1
    <3>2. NameCells(k)' = NameCells(begun) /\ Node(k)' = Node(begun)
      BY <2>1 DEF NameCells, Name, Node
    <3>3. a.at = IF k = 1 THEN 1 ELSE EndOf(attempts'[k - 1])
      <4>1. CASE k = 1  BY <1>1, <1>4, <2>1, <4>1 DEF ChainEnd
      <4>2. CASE k # 1
        <5>1. k - 1 \in 1..(begun - 1) /\ Len(attempts) = k - 1 /\ k - 1 # 0
          BY <1>1, <1>2, <2>1, <4>2
        <5> QED  BY <1>4, <1>7, <4>2, <5>1 DEF ChainEnd
      <4> QED  BY <4>1, <4>2
    <3>4. \A j \in 1..(k - 1) : attempts'[j].ok /\ EndOf(attempts'[j]) <= a.at
      BY <1>1, <1>3, <1>4, <1>7, <1>8, <2>1
    <3>5. a.at <= position'  BY <1>1, <1>4 DEF Behind
    <3>6. a.ok => EndOf(a) <= position' /\ HeaderIn(file', a) /\ PayloadIn(file', a)
      BY <1>4, <1>6
    <3> QED  BY <1>4, <2>1, <3>1, <3>2, <3>3, <3>4, <3>5, <3>6 DEF AttemptIsInput
  <2>2. CASE k # begun
    <3>1. k \in 1..Len(attempts) /\ \A j \in 1..k : j \in 1..(begun - 1)  BY <1>1, <1>2, <2>2
    <3>2. AttemptIsInput(k)  BY <1>1, <3>1 DEF Orderly
    <3> QED  BY <1>1, <1>7, <3>1, <3>2, AttemptKept
  <2> QED  BY <2>1, <2>2
<1>10. Orderly'
  <2>1. begun <= Len(inputs)  BY <1>1, <1>2
  <2> QED  BY <1>7, <1>9, <2>1 DEF Orderly
<1>11. ok => AllOk' /\ ChainEnd' = EndOf(a)
  <2> SUFFICES ASSUME ok  PROVE AllOk' /\ ChainEnd' = EndOf(a)  OBVIOUS
  <2>1. \A k \in 1..begun : k = begun \/ k \in 1..(begun - 1)  BY <1>2
  <2>2. AllOk'  BY <1>4, <1>7, <1>8, <2>1 DEF AllOk
  <2>3. begun # 0  BY <1>1
  <2>4. ChainEnd' = EndOf(a)  BY <1>7, <2>3 DEF ChainEnd, EndOf, PayloadAt, HeaderLen
  <2> QED  BY <2>2, <2>4
<1> QED  BY <1>4, <1>6, <1>7, <1>8, <1>10, <1>11 DEF a

\* What a flush of n cells does to the file.
LEMMA FlushFacts ==
    ASSUME DiskTypes, NEW s \in Seq(DiskCells), NEW n \in 0..Len(s),
           file' = Overwrite(file, position, Prefix(s, n))
    PROVE  /\ file' \in Seq(DiskCells) /\ Len(file') \in Nat /\ n \in Nat
           /\ Len(file') = IF position + n > Len(file) THEN position + n ELSE Len(file)
           /\ \A i \in 1..Len(file) : i <= position \/ i > position + n => file'[i] = file[i]
           /\ \A i \in 1..n : file'[position + i] = s[i]
           /\ Behind(file', position + n) /\ position + n \in 0..Len(file')
<1>1. file \in Seq(DiskCells) /\ position \in 0..Len(file) /\ position \in Nat /\ Len(file) \in Nat
  BY DEF DiskTypes
<1> DEFINE t == Prefix(s, n)
<1>2. t \in Seq(DiskCells) /\ Len(t) = n /\ \A i \in 1..n : t[i] = s[i]  BY PrefixFacts
<1> HIDE DEF t
<1>3. n \in Nat /\ file' = Overwrite(file, position, t)  BY DEF t
<1> DEFINE o == Overwrite(file, position, t)
<1>4. /\ o \in Seq(DiskCells)
      /\ Len(o) = IF position + n > Len(file) THEN position + n ELSE Len(file)
      /\ \A i \in 1..Len(file) : i <= position \/ i > position + n => o[i] = file[i]
      /\ \A i \in 1..n : o[position + i] = t[i]
  <2>1. file \in Seq(DiskCells) /\ t \in Seq(DiskCells) /\ position \in 0..Len(file)  BY <1>1, <1>2
  <2>2. o \in Seq(DiskCells)  BY <2>1, OverwriteFacts
  <2>3. Len(o) = IF position + Len(t) > Len(file) THEN position + Len(t) ELSE Len(file)
    BY <2>1, OverwriteFacts
  <2>4. \A i \in 1..Len(file) : i <= position \/ i > position + Len(t) => o[i] = file[i]
    BY <2>1, OverwriteFacts
  <2>5. \A i \in 1..Len(t) : o[position + i] = t[i]  BY <2>1, OverwriteFacts
  <2> QED  BY <1>2, <2>2, <2>3, <2>4, <2>5
<1> HIDE DEF o
<1>5. /\ file' \in Seq(DiskCells)
      /\ Len(file') = IF position + n > Len(file) THEN position + n ELSE Len(file)
      /\ \A i \in 1..Len(file) : i <= position \/ i > position + n => file'[i] = file[i]
      /\ \A i \in 1..n : file'[position + i] = s[i]
  BY <1>2, <1>3, <1>4 DEF o
<1>6. Len(file') \in Nat /\ Len(file) <= Len(file') /\ position + n <= Len(file') /\ position <= position + n
      /\ position + n \in Nat
  BY ONLY <1>1, <1>3, <1>5
<1> QED  BY <1>1, <1>3, <1>5, <1>6 DEF Behind

LEMMA WholeFlush ==
    ASSUME NEW T, NEW s \in Seq(T)
    PROVE  Prefix(s, Len(s)) = s
  BY DEF Prefix

\* What a flush leaves in the buffer, or a drop does not.
Leaves(n) ==
    /\ buffer' \in Seq(DiskCells) /\ n + Len(buffer') <= Len(buffer)
    /\ \A j \in 1..Len(buffer') : buffer'[j] = buffer[n + j]

LEMMA FlushLeaves ==
    ASSUME DiskTypes, NEW n \in 0..Len(buffer),
           buffer' = SubSeq(buffer, n + 1, Len(buffer)) \/ (buffer' = << >>)
    PROVE  Leaves(n)
<1>1. buffer \in Seq(DiskCells) /\ Len(buffer) \in Nat /\ n \in Nat  BY DEF DiskTypes
<1>2. CASE buffer' = << >>  BY <1>1, <1>2 DEF Leaves
<1>3. CASE buffer' = SubSeq(buffer, n + 1, Len(buffer))
  <2>1. /\ SubSeq(buffer, n + 1, Len(buffer)) \in Seq(DiskCells)
        /\ Len(SubSeq(buffer, n + 1, Len(buffer))) = Len(buffer) - n
        /\ \A j \in 1..(Len(buffer) - n) : SubSeq(buffer, n + 1, Len(buffer))[j] = buffer[n + j]
    BY <1>1
  <2> QED  BY <1>1, <1>3, <2>1 DEF Leaves
<1> QED  BY <1>2, <1>3

\* A torn entry stays torn while the rest of the buffer goes out.
LEMMA TornKept ==
    ASSUME DiskTypes, NEW a \in Recorded, Torn(a), a.at <= position, NEW n \in 0..Len(buffer),
           Flushed(n), Leaves(n)
    PROVE  Torn(a)'
<1>1. /\ position \in Nat /\ Len(file) \in Nat /\ n \in Nat /\ position' = position + n
      /\ buffer \in Seq(DiskCells) /\ Len(buffer) \in Nat /\ position <= Len(file)
      /\ file' = Overwrite(file, position, Prefix(buffer, n))
  BY DEF DiskTypes, Flushed
<1>2. /\ Len(file') = IF position + n > Len(file) THEN position + n ELSE Len(file)
      /\ \A i \in 1..Len(file) : i <= position \/ i > position + n => file'[i] = file[i]
      /\ \A i \in 1..n : file'[position + i] = buffer[i]
  BY ONLY <1>1, DiskTypes, n \in 0..Len(buffer), FlushFacts
<1>3. /\ a.at \in Nat /\ HeaderLen(a.names) \in Nat /\ PayloadAt(a) = a.at + HeaderLen(a.names)
      /\ EndOf(a) = PayloadAt(a) + a.size /\ a.size \in Nat
  BY RecordedFacts
<1>4. /\ Len(buffer') \in Nat /\ n + Len(buffer') <= Len(buffer)
      /\ \A j \in 1..Len(buffer') : buffer'[j] = buffer[n + j]
  BY DEF Leaves
<1>5. CASE /\ \A i \in 1..HeaderLen(a.names) : a.at + i <= Len(file) => file[a.at + i] = Blank
           /\ \A j \in 1..Len(buffer) : position + j <= PayloadAt(a) => buffer[j] = Blank
  <2>1. ASSUME NEW i \in 1..HeaderLen(a.names), a.at + i <= Len(file')
        PROVE  file'[a.at + i] = Blank
    <3> DEFINE x == a.at + i
    <3>1. x \in Nat \ {0} /\ x <= PayloadAt(a) /\ x <= Len(file')  BY <1>3, <2>1
    <3>2. x <= Len(file) => file[x] = Blank  BY <1>5
    <3> HIDE DEF x
    <3>3. CASE x <= position \/ x > position + n
      <4>1. x \in 1..Len(file)  BY <1>1, <1>2, <3>1, <3>3
      <4> QED  BY <1>2, <3>2, <3>3, <4>1 DEF x
    <3>4. CASE position < x /\ x <= position + n
      <4>1. x - position \in 1..n /\ position + (x - position) = x  BY <1>1, <3>1, <3>4
      <4>2. x - position \in 1..Len(buffer)  BY <1>1, <4>1
      <4>3. buffer[x - position] = Blank  BY <1>5, <3>1, <4>1, <4>2
      <4> QED  BY <1>2, <4>1, <4>3 DEF x
    <3> QED  BY <1>1, <3>1, <3>3, <3>4
  <2>2. ASSUME NEW j \in 1..Len(buffer'), position' + j <= PayloadAt(a)
        PROVE  buffer'[j] = Blank
    <3>1. n + j \in 1..Len(buffer) /\ position + (n + j) <= PayloadAt(a)  BY <1>1, <1>3, <1>4, <2>2
    <3> QED  BY <1>4, <1>5, <3>1
  <2> QED  BY <2>1, <2>2 DEF Torn, TornIn, PayloadAt, HeaderLen
<1>6. CASE PayloadIn(file, a) /\ position + Len(buffer) <= PayloadAt(a)
  <2>1. PayloadIn(file', a)
    <3>1. EndOf(a) <= Len(file) /\ \A i \in 1..a.size : file[PayloadAt(a) + i] = PayloadCell(a.id, i)
      BY <1>6 DEF PayloadIn
    <3>2. EndOf(a) <= Len(file')  BY <1>1, <1>2, <1>3, <3>1
    <3>3. ASSUME NEW i \in 1..a.size  PROVE file'[PayloadAt(a) + i] = PayloadCell(a.id, i)
      <4>1. /\ position \in Nat /\ n \in Nat /\ Len(file) \in Nat /\ Len(buffer) \in Nat /\ a.size \in Nat
            /\ PayloadAt(a) \in Nat /\ i \in Nat /\ 1 <= i /\ i <= a.size /\ n <= Len(buffer)
            /\ PayloadAt(a) + a.size <= Len(file) /\ position + Len(buffer) <= PayloadAt(a)
        <5>1. /\ position \in Nat /\ n \in Nat /\ Len(file) \in Nat /\ Len(buffer) \in Nat
              /\ position + Len(buffer) <= PayloadAt(a) /\ n <= Len(buffer)
          BY <1>1, <1>6
        <5>2. a.size \in Nat /\ PayloadAt(a) \in Nat /\ PayloadAt(a) + a.size <= Len(file)
          BY <1>3, <3>1
        <5>3. i \in Nat /\ 1 <= i /\ i <= a.size  BY <5>2
        <5> QED  BY <5>1, <5>2, <5>3
      <4>2. PayloadAt(a) + i \in 1..Len(file) /\ PayloadAt(a) + i > position + n
        BY ONLY <4>1
      <4>3. file'[PayloadAt(a) + i] = file[PayloadAt(a) + i]  BY ONLY <1>2, <4>2
      <4> QED  BY <3>1, <4>3
    <3> QED  BY <3>2, <3>3 DEF PayloadIn
  <2>2. position' + Len(buffer') <= PayloadAt(a)  BY <1>1, <1>3, <1>4, <1>6
  <2> QED  BY <2>1, <2>2 DEF Torn, TornIn, PayloadAt, HeaderLen
<1> QED  BY <1>5, <1>6 DEF Torn, TornIn

-----------------------------------------------------------------------------
(* The steps of create *)

LEMMA RefuseKeeps == OnDisk /\ Refuse => OnDisk'
<1> SUFFICES ASSUME OnDisk, Refuse  PROVE OnDisk'  OBVIOUS
<1>1. /\ step = "start" /\ step' = "exit" /\ created' = "refused"
      /\ file' = file /\ position' = position /\ entry' = entry /\ begun' = begun
      /\ attempts' = attempts /\ failed' = failed /\ resumed' = resumed /\ dropped' = dropped
      /\ roots' = roots /\ inputs' = inputs /\ truncated' = truncated /\ buffer' = buffer
      /\ end_pos' = end_pos
  BY DEF Refuse, vars
<1>2. Unopened /\ failed = FALSE /\ resumed = FALSE /\ dropped = FALSE /\ DiskTypes
  BY <1>1 DEF OnDisk, Stage
<1>3. Unopened'  BY <1>1, <1>2 DEF Unopened
<1>4. Stage'  BY <1>1, <1>3 DEF Stage
<1>5. DiskTypes'  BY <1>1, <1>2 DEF DiskTypes
<1>6. Orderly'
  <2>1. Len(attempts') = 0 /\ 1..Len(attempts') = {} /\ Len(inputs') = 0  BY <1>3 DEF Unopened
  <2> QED  BY <2>1 DEF Orderly
<1> QED  BY <1>1, <1>2, <1>4, <1>5, <1>6 DEF OnDisk

LEMMA OpenKeeps == OnDisk /\ Open => OnDisk'
<1> SUFFICES ASSUME OnDisk, Open  PROVE OnDisk'  OBVIOUS
<1>1. /\ step = "start" /\ step' = "next" /\ created' = created
      /\ file' = << >> /\ position' = 0 /\ entry' = entry /\ begun' = begun
      /\ attempts' = attempts /\ failed' = failed /\ resumed' = resumed /\ dropped' = dropped
      /\ roots' = roots /\ inputs' = CollectInputs(roots, unread) /\ buffer' = <<Info>>
      /\ end_pos' = end_pos
  BY DEF Open
<1>2. /\ created = "running" /\ Unopened /\ failed = FALSE /\ resumed = FALSE /\ dropped = FALSE
      /\ DiskTypes
  BY <1>1 DEF OnDisk, Stage
<1>3. entry' = NoEntry /\ begun' = 0 /\ attempts' = << >>  BY <1>1, <1>2 DEF Unopened
<1>4. inputs' \in Seq(Found)
  <2>1. roots \in Seq(Nodes)  BY <1>2, TreeAssumption DEF DiskTypes, Nodes
  <2> QED  BY <1>1, <2>1, CollectedFacts
<1>5. Len(attempts') = 0 /\ 1..Len(attempts') = {} /\ Len(inputs') \in Nat  BY <1>3, <1>4
<1>6. DiskTypes'
  <2>1. Info \in DiskCells  BY DEF DiskCells
  <2>2. <<Info>> \in Seq(DiskCells) /\ << >> \in Seq(DiskCells) /\ << >> \in Seq(Recorded)
        /\ Len(<< >>) = 0
    BY <2>1
  <2>3. position' \in 0..Len(file')  BY <1>1, <2>2
  <2> QED  BY <1>1, <1>2, <1>3, <1>4, <2>2, <2>3 DEF DiskTypes
<1>7. Between'  BY <1>1, <1>3, <1>5 DEF Between, AllOk
<1> QED  BY <1>1, <1>2, <1>5, <1>6, <1>7 DEF OnDisk, Stage, Orderly

\* A step of create that leaves the disk alone.
LEMMA DiskLeft ==
    ASSUME OnDisk, UNCHANGED <<file, position, entry, begun, attempts, buffer, roots, inputs>>,
           end_pos' \in Nat
    PROVE  /\ DiskTypes' /\ Orderly'
           /\ AllOk' = AllOk /\ Between' = Between /\ Halted' = Halted /\ Complete' = Complete
<1>1. DiskTypes'  BY DEF OnDisk, DiskTypes
<1>2. \A k \in 1..Len(attempts) : AttemptIsInput(k)' = AttemptIsInput(k)
  BY DEF AttemptIsInput, HeaderIn, PayloadIn, NameCells, Name, Node, EndOf, PayloadAt
<1>3. Orderly'  BY <1>2 DEF OnDisk, Orderly
<1>4. AllOk' = AllOk /\ InfoThere' = InfoThere /\ ChainEnd' = ChainEnd
  BY DEF AllOk, InfoThere, ChainEnd, EndOf, PayloadAt
<1>5. \A k \in 1..Len(attempts) : Torn(attempts[k])' = Torn(attempts[k])
  BY DEF Torn, TornIn, PayloadIn, EndOf, PayloadAt
<1> QED  BY <1>1, <1>3, <1>4, <1>5 DEF Between, Halted, Complete

LEMMA ReadInputKeeps == OnDisk /\ ReadInput => OnDisk'
<1> SUFFICES ASSUME OnDisk, ReadInput  PROVE OnDisk'  OBVIOUS
<1>1. /\ step = "next" /\ begun < Len(inputs)
      /\ UNCHANGED <<file, position, entry, begun, attempts, buffer, end_pos, roots, inputs,
                     resumed, dropped>>
      /\ \/ step' = "add" /\ created' = created /\ failed' = failed
         \/ step' = "drop" /\ created' = "stopped" /\ failed' = TRUE
  BY DEF ReadInput, createUnchanged, Go, Stop, Return
<1>2. Between /\ created = "running" /\ failed = FALSE /\ resumed = FALSE /\ dropped = FALSE
      /\ end_pos \in Nat
  BY <1>1 DEF OnDisk, Stage, DiskTypes
<1>3. DiskTypes' /\ Orderly' /\ Between' = Between /\ Halted' = Halted  BY <1>1, <1>2, DiskLeft
<1>4. Halted
  <2>1. Len(attempts) \in Nat  BY DEF OnDisk, DiskTypes
  <2>2. Len(attempts) > 0 => begun # 0  BY <1>2 DEF Between
  <2> QED  BY <1>2, <2>2 DEF Between, Halted, AllOk
<1> QED  BY <1>1, <1>2, <1>3, <1>4 DEF OnDisk, Stage

LEMMA AllDoneKeeps == OnDisk /\ Collected /\ AllDone => OnDisk'
<1> SUFFICES ASSUME OnDisk, Collected, AllDone  PROVE OnDisk'  OBVIOUS
<1>1. /\ step = "next" /\ begun = Len(inputs) /\ step' = "drop" /\ created' = "ok" /\ failed' = failed
      /\ UNCHANGED <<file, position, entry, begun, attempts, buffer, end_pos, roots, inputs,
                     resumed, dropped>>
  BY DEF AllDone, createUnchanged, Return
<1>2. Between /\ created = "running" /\ failed = FALSE /\ resumed = FALSE /\ dropped = FALSE
      /\ end_pos \in Nat /\ inputs \in Seq(Found)
  BY <1>1 DEF OnDisk, Stage, DiskTypes
<1>3. DiskTypes' /\ Orderly' /\ Complete' = Complete  BY <1>1, <1>2, DiskLeft
<1>4. inputs # << >>  BY <1>1, <1>2 DEF Collected
<1>5. begun # 0  BY <1>1, <1>2, <1>4
<1>6. Complete  BY <1>1, <1>2, <1>5 DEF Between, Complete
<1> QED  BY <1>1, <1>2, <1>3, <1>6 DEF OnDisk, Stage

\* A flush that fails, or the drop of the writer, with nothing new recorded.
LEMMA HaltKeeps ==
    ASSUME OnDisk, Halted, NEW n \in 0..Len(buffer), Flushed(n), Leaves(n),
           entry' = NoEntry, UNCHANGED <<attempts, inputs, roots>>, end_pos' \in Nat, begun' \in Nat
    PROVE  DiskTypes' /\ Orderly' /\ Halted'
<1>1. /\ DiskTypes /\ buffer \in Seq(DiskCells) /\ file \in Seq(DiskCells) /\ position \in Nat
      /\ file' = Overwrite(file, position, Prefix(buffer, n)) /\ position' = position + n
      /\ Len(attempts) \in Nat /\ \A k \in 1..Len(attempts) : attempts[k] \in Recorded
  BY DEF OnDisk, DiskTypes, Flushed
<1>2. /\ file' \in Seq(DiskCells) /\ Len(file') \in Nat /\ Behind(file', position')
      /\ position' \in 0..Len(file')
  BY ONLY <1>1, n \in 0..Len(buffer), FlushFacts
<1>3. Orderly'  BY <1>2, OrderlyKept
<1>4. DiskTypes'  BY <1>1, <1>2 DEF DiskTypes, Leaves
<1>5. ASSUME NEW k \in 1..Len(attempts), ~attempts[k].ok  PROVE Torn(attempts[k])'
  <2>1. Torn(attempts[k]) /\ attempts[k] \in Recorded /\ attempts[k].at <= position
    BY <1>1, <1>5 DEF Halted, OnDisk, Orderly, AttemptIsInput
  <2> DEFINE a == attempts[k]
  <2>2. Torn(a)'
    <3>1. a' = a  OBVIOUS
    <3>2. a \in Recorded /\ Torn(a) /\ a.at <= position  BY <2>1
    <3> HIDE DEF a
    <3> QED  BY <1>1, <3>1, <3>2, TornKept DEF Torn, TornIn, PayloadIn, EndOf, PayloadAt
  <2> QED  BY <2>2
<1>6. Len(attempts) > 0 => InfoThere'
  <2> SUFFICES ASSUME Len(attempts) > 0  PROVE InfoThere'  OBVIOUS
  <2>1. file # << >> /\ file[1] = Info  BY DEF Halted, InfoThere
  <2>2. 1 \in 1..Len(attempts)  BY <1>1
  <2>3. AttemptIsInput(1)  BY <2>2 DEF OnDisk, Orderly
  <2>4. 1 <= position  BY <2>3 DEF AttemptIsInput
  <2>5. Len(file) \in Nat \ {0} /\ 1 \in 1..Len(file)  BY <1>1, <2>1
  <2>6. file'[1] = Info /\ Len(file') # 0  BY <1>2, <2>1, <2>4, <2>5 DEF Behind
  <2> QED  BY <2>6 DEF InfoThere
<1> QED  BY <1>3, <1>4, <1>5, <1>6 DEF Halted

LEMMA CreateEntryKeeps == OnDisk /\ CreateEntry => OnDisk'
<1> SUFFICES ASSUME OnDisk, CreateEntry  PROVE OnDisk'  OBVIOUS
<1>1. /\ step = "add" /\ Flushed(Len(buffer)) /\ begun' = begun + 1
      /\ entry' = [id |-> begun + 1, names |-> NameCells(begun + 1), at |-> position']
      /\ buffer' = Placeholder(NameCells(begun + 1))
      /\ step' = "payload"
      /\ UNCHANGED <<attempts, end_pos, inputs, roots, created, failed, resumed, dropped>>
  BY DEF CreateEntry, Go, createUnchanged
<1>2. /\ Between /\ begun < Len(inputs) /\ created = "running" /\ failed = FALSE
      /\ resumed = FALSE /\ dropped = FALSE
      /\ DiskTypes /\ Orderly /\ buffer \in Seq(DiskCells) /\ begun \in Nat
      /\ inputs \in Seq(Found) /\ attempts \in Seq(Recorded)
  BY <1>1 DEF OnDisk, Stage, DiskTypes
<1>3. Len(attempts) = begun /\ AllOk /\ position = Len(file) /\ Len(file) \in Nat
  BY <1>2 DEF Between, DiskTypes
<1>4. begun + 1 \in 1..Len(inputs) /\ begun' \in Nat  BY <1>1, <1>2
<1>5. NameCells(begun + 1) \in Nat  BY <1>2, <1>4, InputFacts
<1>6. file' = Overwrite(file, position, Prefix(buffer, Len(buffer)))
      /\ position' = position + Len(buffer) /\ Len(buffer) \in 0..Len(buffer)
  BY <1>1, <1>2 DEF Flushed
<1>7. /\ file' \in Seq(DiskCells) /\ Len(file') \in Nat /\ Behind(file', position')
      /\ Len(file') = IF position + Len(buffer) > Len(file) THEN position + Len(buffer) ELSE Len(file)
      /\ \A i \in 1..Len(buffer) : file'[position + i] = buffer[i]
  <2>1. DiskTypes /\ buffer \in Seq(DiskCells)  BY <1>2
  <2> QED  BY ONLY <1>6, <2>1, FlushFacts
<1>8. position' = Len(file')  BY <1>2, <1>3, <1>6, <1>7
<1>9. position' = ChainEnd /\ InfoThere'
  <2>1. CASE begun = 0
    <3>1. file = << >> /\ buffer = <<Info>>  BY <1>2, <2>1 DEF Between
    <3>2. Len(buffer) = 1 /\ buffer[1] = Info /\ position = 0  BY <1>3, <3>1
    <3>3. position' = 1 /\ file'[1] = Info  BY <1>6, <1>7, <3>2
    <3>4. ChainEnd = 1  BY <1>3, <2>1 DEF ChainEnd
    <3>5. Len(file') # 0  BY <1>8, <3>3
    <3> QED  BY <3>3, <3>4, <3>5 DEF InfoThere
  <2>2. CASE begun # 0
    <3>1. InfoThere /\ position = ChainEnd /\ Len(buffer) = 0
      BY <1>2, <2>2 DEF Between
    <3>2. file # << >> /\ file[1] = Info  BY <3>1 DEF InfoThere
    <3>3. Len(file) \in Nat \ {0}  BY <1>2, <3>2 DEF DiskTypes
    <3>4. 1 \in 1..Len(file) /\ 1 <= position  BY <1>3, <3>3
    <3>5. file'[1] = Info /\ Len(file') # 0  BY <1>7, <3>2, <3>3, <3>4 DEF Behind
    <3>6. position' = position  BY <1>3, <1>6, <3>1
    <3> QED  BY <3>1, <3>5, <3>6 DEF InfoThere
  <2> QED  BY <2>1, <2>2
<1>10. Orderly'  BY <1>1, <1>7, OrderlyKept
<1>11. DiskTypes'
  <2>1. Placeholder(NameCells(begun + 1)) \in Seq(DiskCells)  BY <1>5, CellFacts
  <2>2. position' \in 0..Len(file')  BY <1>7, <1>8
  <2> QED  BY <1>1, <1>2, <1>4, <1>7, <2>1, <2>2 DEF DiskTypes
<1>12. InReserve'
  <2>1. AllOk' /\ ChainEnd' = ChainEnd  BY <1>1, <1>3 DEF AllOk, ChainEnd
  <2>2. Len(attempts') = begun' - 1 /\ begun' \in 1..Len(inputs')  BY <1>1, <1>2, <1>3, <1>4
  <2>3. NameCells(begun)' = NameCells(begun + 1)  BY <1>1 DEF NameCells, Name
  <2> QED  BY <1>1, <1>8, <1>9, <2>1, <2>2, <2>3 DEF InReserve, Opened
<1>13. Stage'  BY <1>1, <1>2, <1>12 DEF Stage
<1> QED  BY <1>1, <1>2, <1>10, <1>11, <1>13 DEF OnDisk

LEMMA CreateEntryFailsKeeps == OnDisk /\ CreateEntryFails => OnDisk'
<1> SUFFICES ASSUME OnDisk, CreateEntryFails  PROVE OnDisk'  OBVIOUS
<1>1. /\ step = "add" /\ step' = "drop" /\ created' = "stopped" /\ failed' = TRUE
      /\ UNCHANGED <<entry, begun, attempts, end_pos, roots, inputs, resumed, dropped>>
      /\ FlushFails \/ UNCHANGED <<file, position, buffer>>
  BY DEF CreateEntryFails, Stop, Return, createUnchanged
<1>2. /\ Between /\ resumed = FALSE /\ dropped = FALSE /\ end_pos \in Nat /\ DiskTypes
      /\ begun \in Nat
  BY <1>1 DEF OnDisk, Stage, DiskTypes
<1>3. Halted
  <2>1. Len(attempts) > 0 => begun # 0  BY <1>2 DEF Between
  <2> QED  BY <1>2, <2>1 DEF Between, Halted, AllOk
<1>4. DiskTypes' /\ Orderly' /\ Halted'
  <2>1. CASE UNCHANGED <<file, position, buffer>>
    BY <1>1, <1>2, <1>3, <2>1, DiskLeft
  <2>2. CASE FlushFails
    <3>1. PICK n \in 0..Len(buffer) :
              Flushed(n) /\ buffer' = SubSeq(buffer, n + 1, Len(buffer))
      BY <2>2 DEF FlushFails
    <3>2. Leaves(n)  BY <1>2, <3>1, FlushLeaves
    <3>3. entry' = NoEntry  BY <1>1, <1>3 DEF Halted
    <3> QED  BY <1>1, <1>2, <1>3, <3>1, <3>2, <3>3, HaltKeeps
  <2> QED  BY <1>1, <2>1, <2>2
<1> QED  BY <1>1, <1>2, <1>4 DEF OnDisk, Stage

LEMMA DropWriterKeeps == OnDisk /\ DropWriter => OnDisk'
<1> SUFFICES ASSUME OnDisk, DropWriter  PROVE OnDisk'  OBVIOUS
<1>1. /\ step = "drop" /\ step' = "exit" /\ buffer' = << >>
      /\ UNCHANGED <<entry, begun, attempts, end_pos, created, failed, roots, inputs, resumed, dropped>>
  BY DEF DropWriter, createUnchanged
<1>2. PICK n \in 0..Len(buffer) : Flushed(n)  BY DEF DropWriter
<1>3. /\ resumed = FALSE /\ dropped = FALSE /\ end_pos \in Nat /\ DiskTypes /\ begun \in Nat
      /\ failed = (created = "stopped")
      /\ (created = "stopped" /\ Halted) \/ (created = "ok" /\ Complete)
  BY <1>1 DEF OnDisk, Stage, DiskTypes
<1>4. CASE created = "stopped" /\ Halted
  <2>1. Leaves(n)  BY <1>1, <1>3, FlushLeaves
  <2>2. entry' = NoEntry  BY <1>1, <1>4 DEF Halted
  <2>3. DiskTypes' /\ Orderly' /\ Halted'  BY <1>1, <1>2, <1>3, <1>4, <2>1, <2>2, HaltKeeps
  <2> QED  BY <1>1, <1>3, <1>4, <2>3 DEF OnDisk, Stage
<1>5. CASE created = "ok" /\ Complete
  <2>1. buffer = << >> /\ n = 0 /\ Len(buffer) = 0  BY <1>5 DEF Complete
  <2>2. file' = file /\ position' = position
    <3>1. /\ file \in Seq(DiskCells) /\ position \in Nat /\ Len(file) \in Nat /\ position <= Len(file)
          /\ Prefix(buffer, n) = << >>
      BY <1>3, <2>1 DEF DiskTypes, Prefix
    <3>2. file' = Overwrite(file, position, << >>) /\ position' = position
      BY <1>2, <2>1, <3>1 DEF Flushed
    <3>3. Overwrite(file, position, << >>) = [i \in 1..Len(file) |-> file[i]]
      <4>1. Len(<< >>) = 0 /\ ~(position + 0 > Len(file)) /\ (position + 1)..(position + 0) = {}
        BY <3>1
      <4> QED  BY <4>1 DEF Overwrite
    <3>4. file = [i \in 1..Len(file) |-> file[i]]  BY <3>1
    <3> QED  BY <3>2, <3>3, <3>4
  <2>3. buffer' = buffer  BY <1>1, <2>1
  <2>4. DiskTypes' /\ Orderly' /\ Complete'  BY <1>1, <1>3, <1>5, <2>2, <2>3, DiskLeft
  <2> QED  BY <1>1, <1>3, <1>5, <2>4 DEF OnDisk, Stage
<1> QED  BY <1>3, <1>4, <1>5

\* The entry that is open.
LEMMA OpenedFacts ==
    ASSUME OnDisk, Opened, NEW ok \in BOOLEAN
    PROVE  /\ begun \in Nat \ {0} /\ ChainEnd \in Nat \ {0} /\ position = ChainEnd
           /\ entry.id = begun /\ entry.names = NameCells(begun) /\ entry.at = ChainEnd
           /\ NameCells(begun) \in Nat /\ Node(begun).size \in Nat
           /\ HeaderLen(NameCells(begun)) \in Nat \ {0}
           /\ Pending(ok) \in Recorded /\ Pending(ok).at = ChainEnd
           /\ PayloadAt(Pending(ok)) = ChainEnd + HeaderLen(NameCells(begun))
           /\ EndOf(Pending(ok)) = ChainEnd + HeaderLen(NameCells(begun)) + Node(begun).size
           /\ OpenPayload = Payload(begun, Node(begun).size)
<1>1. /\ inputs \in Seq(Found) /\ attempts \in Seq(Recorded) /\ begun \in Nat
      /\ begun \in 1..Len(inputs) /\ Orderly /\ AllOk
      /\ entry = [id |-> begun, names |-> NameCells(begun), at |-> ChainEnd]
      /\ position = ChainEnd
  BY DEF OnDisk, DiskTypes, Opened
<1>2. NameCells(begun) \in Nat /\ Node(begun).size \in Nat /\ HeaderLen(NameCells(begun)) \in Nat \ {0}
  BY <1>1, InputFacts
<1>3. ChainEnd \in Nat \ {0}  BY <1>1, ChainFacts
<1>4. Pending(ok) \in Recorded  BY <1>1, <1>2, <1>3 DEF Pending, Recorded
<1>5. /\ Pending(ok).at = ChainEnd
      /\ PayloadAt(Pending(ok)) = ChainEnd + HeaderLen(NameCells(begun))
      /\ EndOf(Pending(ok)) = ChainEnd + HeaderLen(NameCells(begun)) + Node(begun).size
  BY DEF Pending, PayloadAt, EndOf
<1> QED  BY <1>1, <1>2, <1>3, <1>4, <1>5 DEF OpenPayload

\* What waits when the payload is written: blanks, and the payload behind them.
LEMMA ReservedFacts ==
    ASSUME OnDisk, InReserve, NEW s, s = buffer \o OpenPayload
    PROVE  /\ s \in Seq(DiskCells) /\ Len(buffer) = HeaderLen(NameCells(begun))
           /\ Len(OpenPayload) = Node(begun).size
           /\ Len(s) = HeaderLen(NameCells(begun)) + Node(begun).size
           /\ \A i \in 1..HeaderLen(NameCells(begun)) : s[i] = Blank
           /\ \A i \in 1..Node(begun).size :
                 s[HeaderLen(NameCells(begun)) + i] = PayloadCell(begun, i)
<1>1. Opened /\ buffer = Placeholder(NameCells(begun))  BY DEF InReserve
<1>2. /\ begun \in Nat /\ NameCells(begun) \in Nat /\ Node(begun).size \in Nat
      /\ HeaderLen(NameCells(begun)) \in Nat
      /\ OpenPayload = Payload(begun, Node(begun).size)
  BY <1>1, OpenedFacts
<1> DEFINE n == NameCells(begun)
           z == Node(begun).size
           h == HeaderLen(n)
           p == Placeholder(n)
           q == Payload(begun, z)
<1>3. /\ p \in Seq(DiskCells) /\ Len(p) = h /\ \A i \in 1..h : p[i] = Blank
      /\ q \in Seq(DiskCells) /\ Len(q) = z /\ \A i \in 1..z : q[i] = PayloadCell(begun, i)
  <2> HIDE DEF z
  <2>1. begun \in Nat /\ n \in Nat /\ z \in Nat  BY <1>2 DEF z
  <2> QED  BY ONLY <2>1, CellFacts
<1>4. s = p \o q /\ h \in Nat /\ z \in Nat /\ buffer = p /\ OpenPayload = q  BY <1>1, <1>2
<1> HIDE DEF p, q, h, z
<1>5. /\ s \in Seq(DiskCells) /\ Len(s) = h + z
      /\ \A i \in 1..h : s[i] = Blank
      /\ \A i \in 1..z : s[h + i] = PayloadCell(begun, i)
  <2>1. p \in Seq(DiskCells) /\ Len(p) = h /\ q \in Seq(DiskCells) /\ Len(q) = z /\ s = p \o q
    BY <1>3, <1>4
  <2>2. s \in Seq(DiskCells) /\ Len(s) = h + z
    <3>1. p \in Seq(DiskCells) /\ q \in Seq(DiskCells)  BY <2>1
    <3>2. p \o q \in Seq(DiskCells)  BY ONLY <3>1
    <3>3. Len(p \o q) = Len(p) + Len(q)  BY ONLY <3>1
    <3> QED  BY <2>1, <3>2, <3>3
  <2>3. \A i \in 1..h : s[i] = p[i]  BY ONLY <2>1
  <2>4. \A i \in 1..z : s[h + i] = q[i]
    <3> TAKE i \in 1..z
    <3>1. i \in 1..Len(q) /\ p \in Seq(DiskCells) /\ q \in Seq(DiskCells)  BY <2>1
    <3>2. (p \o q)[Len(p) + i] = q[i]  BY ONLY <3>1
    <3> QED  BY <2>1, <3>2
  <2> QED  BY ONLY <1>3, <2>2, <2>3, <2>4
<1> QED  BY <1>3, <1>4, <1>5 DEF h, z

LEMMA InfoKept ==
    ASSUME DiskTypes, InfoThere, 1 <= position, Behind(file', position')
    PROVE  InfoThere'
<1>1. file # << >> /\ file[1] = Info /\ file \in Seq(DiskCells)  BY DEF DiskTypes, InfoThere
<1>2. Len(file) \in Nat \ {0} /\ 1 \in 1..Len(file)  BY <1>1
<1>3. file'[1] = Info /\ Len(file') # 0  BY <1>1, <1>2 DEF Behind
<1> QED  BY <1>3 DEF InfoThere

LEMMA WritePayloadKeeps == OnDisk /\ WritePayload => OnDisk'
<1> SUFFICES ASSUME OnDisk, WritePayload  PROVE OnDisk'  OBVIOUS
<1> DEFINE s == buffer \o OpenPayload
           h == HeaderLen(NameCells(begun))
           z == Node(begun).size
           a == Pending(TRUE)
<1>1. /\ step = "payload" /\ step' = "patch"
      /\ file' = Overwrite(file, position, s) /\ end_pos' = position + Len(s)
      /\ position' = entry.at /\ buffer' = Header(entry.id, entry.names)
      /\ UNCHANGED <<entry, begun, attempts, inputs, roots, created, failed, resumed, dropped>>
  BY DEF WritePayload, Go, createUnchanged
<1>2. /\ InReserve /\ Opened /\ created = "running" /\ failed = FALSE
      /\ resumed = FALSE /\ dropped = FALSE /\ DiskTypes
  BY <1>1 DEF OnDisk, Stage, InReserve
<1>3. /\ begun \in Nat \ {0} /\ ChainEnd \in Nat \ {0} /\ position = ChainEnd
      /\ entry.id = begun /\ entry.names = NameCells(begun) /\ entry.at = ChainEnd
      /\ NameCells(begun) \in Nat /\ z \in Nat /\ h \in Nat \ {0}
      /\ PayloadAt(a) = ChainEnd + h /\ EndOf(a) = ChainEnd + h + z
  BY <1>2, OpenedFacts
<1>4. /\ s \in Seq(DiskCells) /\ Len(s) = h + z
      /\ \A i \in 1..z : s[h + i] = PayloadCell(begun, i)
  BY <1>2, ReservedFacts
<1> HIDE DEF s, a
<1>5. Prefix(s, Len(s)) = s /\ Len(s) \in 0..Len(s)  BY <1>3, <1>4, WholeFlush
<1>6. file' = Overwrite(file, position, Prefix(s, Len(s)))  BY <1>1, <1>5
<1>7. /\ file' \in Seq(DiskCells) /\ Len(file') \in Nat
      /\ Len(file') = IF position + Len(s) > Len(file) THEN position + Len(s) ELSE Len(file)
      /\ \A i \in 1..Len(s) : file'[position + i] = s[i]
      /\ Behind(file', position + Len(s)) /\ position + Len(s) \in 0..Len(file')
  <2>1. DiskTypes /\ s \in Seq(DiskCells) /\ Len(s) \in 0..Len(s)  BY <1>2, <1>4, <1>5
  <2> QED  BY ONLY <1>6, <2>1, FlushFacts
<1> HIDE DEF h, z
<1>8. position' = position /\ Behind(file', position') /\ position' \in 0..Len(file')
  <2>1. position' = position /\ position \in Nat  BY <1>1, <1>3
  <2>2. Behind(file', position)  BY <1>7, <2>1 DEF Behind
  <2>3. position \in 0..Len(file')
    <3>1. position <= Len(file) /\ Len(file) <= Len(file') /\ Len(file) \in Nat
      BY <1>2, <1>7 DEF DiskTypes, Behind
    <3> QED  BY <1>7, <2>1, <3>1
  <2> QED  BY <2>1, <2>2, <2>3
<1>9. position = Len(file) /\ Len(file) \in Nat  BY <1>2 DEF InReserve, DiskTypes
<1>10. end_pos' = Len(file') /\ end_pos' = EndOf(a)
  <2>1. Len(s) = h + z /\ h \in Nat /\ z \in Nat /\ position \in Nat /\ position = ChainEnd
    BY <1>3, <1>4
  <2>2. Len(file') = position + Len(s)  BY <1>7, <1>9, <2>1
  <2>3. end_pos' = position + Len(s)  BY <1>1
  <2>4. EndOf(a) = ChainEnd + h + z  BY <1>3
  <2> QED  BY ONLY <2>1, <2>2, <2>3, <2>4
<1>11. PayloadIn(file', a)
  <2>1. ASSUME NEW i \in 1..z  PROVE file'[(ChainEnd + h) + i] = PayloadCell(begun, i)
    <3>1. h + i \in 1..Len(s) /\ (ChainEnd + h) + i = position + (h + i)  BY <1>3, <1>4
    <3> QED  BY <1>4, <1>7, <3>1
  <2>2. a.size = z /\ a.id = begun  BY DEF a, Pending, z
  <2>3. EndOf(a) <= Len(file')  BY ONLY <1>7, <1>10
  <2> QED  BY <1>3, <2>1, <2>2, <2>3 DEF PayloadIn
<1>12. InfoThere'  BY <1>2, <1>3, <1>8, InfoKept DEF Opened
<1>13. Orderly'  BY <1>1, <1>8, OrderlyKept
<1>14. DiskTypes'
  <2>1. Header(entry.id, entry.names) \in Seq(DiskCells)  BY <1>3, CellFacts
  <2> QED  BY <1>1, <1>2, <1>3, <1>4, <1>7, <1>8, <2>1 DEF DiskTypes
<1>15. InPatch'
  <2>1. AllOk' /\ ChainEnd' = ChainEnd  BY <1>1, <1>2 DEF Opened, AllOk, ChainEnd, EndOf, PayloadAt
  <2>2. NameCells(begun)' = NameCells(begun) /\ Node(begun)' = Node(begun)
    BY <1>1 DEF NameCells, Name, Node
  <2>3. Opened'  BY <1>1, <1>2, <1>3, <1>8, <1>12, <2>1, <2>2 DEF Opened
  <2>4. Pending(TRUE)' = Pending(TRUE)  BY <1>1, <2>1, <2>2 DEF Pending
  <2>5. PayloadIn(file, Pending(TRUE))'
    BY <1>11, <2>4 DEF a, PayloadIn, EndOf, PayloadAt, HeaderLen
  <2>6. (end_pos = EndOf(Pending(TRUE)))'  BY <1>10, <2>4 DEF a, EndOf, PayloadAt, HeaderLen
  <2> QED  BY <1>1, <1>3, <1>10, <2>2, <2>3, <2>5, <2>6 DEF InPatch
<1> QED  BY <1>1, <1>2, <1>13, <1>14, <1>15 DEF OnDisk, Stage

\* The payload, or the header, fails: what is on disk and what is left.
LEMMA PendingTorn ==
    ASSUME OnDisk, Opened, Answer(Node(entry.id).size, FALSE), inputs' = inputs, roots' = roots,
           end_pos' = end_pos, Behind(file', position'), position' \in 0..Len(file'),
           buffer' \in Seq(DiskCells), TornIn(file', position', buffer', Pending(FALSE))
    PROVE  DiskTypes' /\ Orderly' /\ Halted'
<1>1. /\ Orderly' /\ attempts' \in Seq(Recorded) /\ Len(attempts') = begun
      /\ attempts'[begun] = Pending(FALSE)
      /\ \A k \in 1..(begun - 1) : attempts'[k] = attempts[k] /\ attempts'[k].ok
  BY OrderlyAnswered
<1>2. DiskTypes /\ begun \in Nat \ {0} /\ 1 <= position /\ InfoThere
  <2>1. begun \in Nat \ {0} /\ ChainEnd \in Nat \ {0} /\ position = ChainEnd  BY OpenedFacts
  <2> QED  BY <2>1 DEF OnDisk, Opened
<1>3. entry' = NoEntry /\ begun' = begun  BY DEF Answer
<1>4. DiskTypes'  BY <1>1, <1>2, <1>3 DEF DiskTypes, Behind
<1>5. InfoThere'  BY <1>2, InfoKept
<1>6. ASSUME NEW k \in 1..begun  PROVE attempts'[k].ok \/ Torn(attempts[k])'
  <2>1. CASE k = begun
    <3>1. attempts'[k] = Pending(FALSE)  BY <1>1, <2>1
    <3> QED  BY <3>1 DEF Torn
  <2>2. CASE k # begun
    <3>1. k \in 1..(begun - 1)  BY <1>2, <2>2
    <3> QED  BY <1>1, <3>1
  <2> QED  BY <2>1, <2>2
<1> QED  BY <1>1, <1>3, <1>4, <1>5, <1>6 DEF Halted

LEMMA WritePayloadFailsKeeps == OnDisk /\ WritePayloadFails => OnDisk'
<1> SUFFICES ASSUME OnDisk, WritePayloadFails  PROVE OnDisk'  OBVIOUS
<1> DEFINE s == buffer \o OpenPayload
           h == HeaderLen(NameCells(begun))
           a == Pending(FALSE)
<1>1. /\ step = "payload" /\ step' = "drop" /\ created' = "stopped"
      /\ Answer(Node(entry.id).size, FALSE)
      /\ UNCHANGED <<end_pos, inputs, roots>>
  BY DEF WritePayloadFails, Return
<1> DEFINE left(m) == IF Len(s) <= Capacity THEN Len(s)
                      ELSE IF m < Len(buffer) THEN Len(buffer)
                      ELSE IF Len(OpenPayload) < Capacity THEN Len(s) ELSE m
<1>2. PICK n \in 0..Len(s) :
          /\ file' = Overwrite(file, position, Prefix(s, n))
          /\ position' = position + n
          /\ buffer' = SubSeq(s, n + 1, left(n))
  BY DEF WritePayloadFails
<1> DEFINE kept == left(n)
<1>3. /\ InReserve /\ Opened /\ failed = FALSE /\ resumed = FALSE /\ dropped = FALSE /\ DiskTypes
  BY <1>1 DEF OnDisk, Stage, InReserve
<1>4. /\ begun \in Nat \ {0} /\ position \in Nat /\ position = ChainEnd
      /\ h \in Nat \ {0} /\ Node(begun).size \in Nat
      /\ a.at = ChainEnd /\ PayloadAt(a) = ChainEnd + h
  BY <1>3, OpenedFacts
<1>5. /\ s \in Seq(DiskCells) /\ Len(buffer) = h /\ Len(OpenPayload) \in Nat
      /\ Len(s) = h + Node(begun).size /\ Len(s) \in Nat
      /\ \A i \in 1..h : s[i] = Blank
  <2>1. /\ s \in Seq(DiskCells) /\ Len(buffer) = h /\ Len(OpenPayload) = Node(begun).size
        /\ Len(s) = h + Node(begun).size /\ \A i \in 1..h : s[i] = Blank
    BY <1>3, ReservedFacts
  <2>2. h \in Nat /\ Node(begun).size \in Nat  BY <1>4
  <2> QED  BY ONLY <2>1, <2>2
<1>6. a.names = NameCells(begun)  BY DEF Pending
<1> HIDE DEF s, h, a
<1>7. kept \in n..Len(s) /\ n \in Nat /\ n <= Len(s)
  BY <1>4, <1>5, CapacityAssumption
<1>a. buffer' = SubSeq(s, n + 1, kept)  BY <1>2
<1> HIDE DEF kept
<1>8. /\ buffer' \in Seq(DiskCells) /\ Len(buffer') = kept - n
      /\ \A j \in 1..(kept - n) : buffer'[j] = s[n + j]
  <2>1. s \in Seq(DiskCells) /\ kept \in Nat /\ n <= kept /\ kept <= Len(s) /\ n \in Nat
    BY <1>5, <1>7
  <2>2. /\ SubSeq(s, n + 1, kept) \in Seq(DiskCells)
        /\ Len(SubSeq(s, n + 1, kept)) = kept - n
        /\ \A j \in 1..(kept - n) : SubSeq(s, n + 1, kept)[j] = s[n + j]
    BY ONLY <2>1
  <2> QED  BY <1>a, <2>2
<1>9. /\ file' \in Seq(DiskCells) /\ Len(file') \in Nat
      /\ Len(file') = IF position + n > Len(file) THEN position + n ELSE Len(file)
      /\ \A i \in 1..n : file'[position + i] = s[i]
      /\ Behind(file', position') /\ position' \in 0..Len(file')
  <2>1. s \in Seq(DiskCells) /\ file' = Overwrite(file, position, Prefix(s, n))
        /\ position' = position + n /\ DiskTypes /\ n \in 0..Len(s)
    BY <1>2, <1>3, <1>5
  <2> QED  BY ONLY <2>1, FlushFacts
<1>10. Len(file') = position + n
  <2>1. position = Len(file)  BY <1>3 DEF InReserve
  <2> QED  BY <1>4, <1>7, <1>9, <2>1
<1>11. TornIn(file', position', buffer', a)
  <2>1. ASSUME NEW i \in 1..h, a.at + i <= Len(file')  PROVE file'[a.at + i] = Blank
    <3>1. i \in 1..n  BY <1>4, <1>7, <1>10, <2>1
    <3> QED  BY <1>4, <1>5, <1>9, <3>1
  <2>2. ASSUME NEW j \in 1..Len(buffer'), position' + j <= PayloadAt(a)  PROVE buffer'[j] = Blank
    <3>1. n + j \in 1..h /\ j \in 1..(kept - n)
      BY <1>2, <1>4, <1>7, <1>8, <2>2
    <3> QED  BY <1>5, <1>8, <3>1
  <2> QED  BY <1>6, <2>1, <2>2 DEF TornIn, h
<1>12. DiskTypes' /\ Orderly' /\ Halted'
  BY <1>1, <1>3, <1>8, <1>9, <1>11, PendingTorn DEF a
<1>13. failed' = TRUE /\ resumed' = FALSE /\ dropped' = FALSE  BY <1>1, <1>3 DEF Answer
<1> QED  BY <1>1, <1>12, <1>13 DEF OnDisk, Stage

\* What the patch of a header does: it stays in front of the payload.
LEMMA PatchFacts ==
    ASSUME OnDisk, InPatch, NEW n \in 0..Len(buffer),
           file' = Overwrite(file, position, Prefix(buffer, n)), NEW ok \in BOOLEAN
    PROVE  /\ file' \in Seq(DiskCells) /\ Len(file') = Len(file) /\ Len(file) \in Nat
           /\ \A i \in 1..n : file'[position + i] = HeaderCell(begun, i)
           /\ Behind(file', position + n) /\ position + n \in 0..Len(file')
           /\ Len(buffer) = HeaderLen(NameCells(begun)) /\ PayloadIn(file', Pending(ok))
<1> DEFINE h == HeaderLen(NameCells(begun))
           z == Node(begun).size
           a == Pending(ok)
<1>1. /\ Opened /\ DiskTypes /\ buffer = Header(begun, NameCells(begun)) /\ end_pos = Len(file)
      /\ end_pos = EndOf(Pending(TRUE)) /\ PayloadIn(file, Pending(TRUE))
  BY DEF InPatch, OnDisk
<1>2. PayloadIn(file, Pending(TRUE)) = PayloadIn(file, a) /\ EndOf(Pending(TRUE)) = EndOf(a)
  BY DEF Pending, PayloadIn, EndOf, PayloadAt
<1>3. /\ begun \in Nat /\ position \in Nat /\ position = ChainEnd /\ NameCells(begun) \in Nat
      /\ h \in Nat \ {0} /\ z \in Nat
      /\ PayloadAt(a) = ChainEnd + h /\ EndOf(a) = ChainEnd + h + z
  BY <1>1, OpenedFacts
<1>4. a.size = z /\ a.id = begun  BY DEF Pending
<1>5. Len(buffer) = h /\ buffer \in Seq(DiskCells) /\ \A i \in 1..h : buffer[i] = HeaderCell(begun, i)
  BY <1>1, <1>3, CellFacts
<1>a. Len(file) = EndOf(a) /\ PayloadIn(file, a)  BY <1>1, <1>2
<1> HIDE DEF a, h, z
<1>6. n \in 0..h /\ n \in Nat /\ Len(file) \in Nat /\ Len(file) = EndOf(a) /\ PayloadIn(file, a)
  <2>1. n \in 0..h  BY <1>5
  <2>2. file \in Seq(DiskCells)  BY <1>1 DEF DiskTypes
  <2> QED  BY <1>3, <1>a, <2>1, <2>2
<1>7. /\ file' \in Seq(DiskCells)
      /\ Len(file') = IF position + n > Len(file) THEN position + n ELSE Len(file)
      /\ \A i \in 1..Len(file) : i <= position \/ i > position + n => file'[i] = file[i]
      /\ \A i \in 1..n : file'[position + i] = buffer[i]
      /\ Behind(file', position + n) /\ position + n \in 0..Len(file')
  <2>1. /\ DiskTypes /\ buffer \in Seq(DiskCells) /\ n \in 0..Len(buffer)
        /\ file' = Overwrite(file, position, Prefix(buffer, n))
    BY <1>1, <1>5
  <2> QED  BY ONLY <2>1, FlushFacts
<1>8. Len(file') = Len(file)  BY <1>3, <1>6, <1>7
<1>9. \A i \in 1..n : file'[position + i] = HeaderCell(begun, i)
  <2> TAKE i \in 1..n
  <2>1. i \in 1..h  BY <1>3, <1>6
  <2> QED  BY <1>5, <1>7, <2>1
<1>10. PayloadIn(file', a)
  <2>1. ASSUME NEW i \in 1..z  PROVE file'[PayloadAt(a) + i] = PayloadCell(begun, i)
    <3>1. PayloadAt(a) + i \in 1..Len(file) /\ PayloadAt(a) + i > position + n
      BY <1>3, <1>6
    <3>2. file[PayloadAt(a) + i] = PayloadCell(begun, i)  BY <1>4, <1>6 DEF PayloadIn
    <3> QED  BY <1>7, <3>1, <3>2
  <2>2. EndOf(a) <= Len(file')  BY <1>3, <1>6, <1>8
  <2> QED  BY <1>4, <2>1, <2>2 DEF PayloadIn
<1> QED  BY <1>5, <1>6, <1>7, <1>8, <1>9, <1>10 DEF a, h

LEMMA PatchHeaderKeeps == OnDisk /\ PatchHeader => OnDisk'
<1> SUFFICES ASSUME OnDisk, PatchHeader  PROVE OnDisk'  OBVIOUS
<1> DEFINE h == HeaderLen(NameCells(begun))
           a == Pending(TRUE)
<1>1. /\ step = "patch" /\ step' = "next" /\ created' = created
      /\ file' = Overwrite(file, position, buffer) /\ position' = end_pos /\ buffer' = << >>
      /\ UNCHANGED <<end_pos, inputs, roots>>
  BY DEF PatchHeader
<1>a. Answer(Node(entry.id).size, TRUE)  BY DEF PatchHeader
<1>2. /\ InPatch /\ Opened /\ created = "running" /\ failed = FALSE /\ resumed = FALSE
      /\ dropped = FALSE /\ DiskTypes /\ end_pos = Len(file) /\ end_pos = EndOf(a)
  BY <1>1 DEF OnDisk, Stage, InPatch
<1>3. /\ buffer \in Seq(DiskCells) /\ Len(buffer) \in 0..Len(buffer)
      /\ file' = Overwrite(file, position, Prefix(buffer, Len(buffer)))
  BY <1>1, <1>2, WholeFlush DEF DiskTypes
<1>4. /\ file' \in Seq(DiskCells) /\ Len(file') = Len(file) /\ Len(file) \in Nat
      /\ \A i \in 1..Len(buffer) : file'[position + i] = HeaderCell(begun, i)
      /\ Behind(file', position + Len(buffer)) /\ position + Len(buffer) \in 0..Len(file')
      /\ Len(buffer) = h /\ PayloadIn(file', a)
  BY <1>2, <1>3, PatchFacts
<1>5. /\ begun \in Nat \ {0} /\ position \in Nat \ {0} /\ position = ChainEnd
      /\ h \in Nat \ {0} /\ Node(begun).size \in Nat /\ EndOf(a) = ChainEnd + h + Node(begun).size
      /\ a.at = ChainEnd /\ PayloadAt(a) = ChainEnd + h
  BY <1>2, OpenedFacts
<1>6. a.names = NameCells(begun) /\ a.id = begun  BY DEF Pending
<1>7. position' = Len(file') /\ position <= position' /\ position' \in Nat /\ position' = EndOf(a)
  <2> HIDE DEF a, h
  <2>1. position' = end_pos /\ end_pos = Len(file) /\ end_pos = EndOf(a)  BY <1>1, <1>2
  <2>2. Len(file') = Len(file) /\ Len(file) \in Nat  BY <1>4
  <2>3. position <= Len(file)  BY <1>2 DEF DiskTypes
  <2> QED  BY ONLY <2>1, <2>2, <2>3
<1>8. Behind(file', position')  BY <1>4, <1>7 DEF Behind
<1>9. HeaderIn(file', a)
  <2> HIDE DEF a
  <2>1. PayloadAt(a) <= Len(file')  BY <1>4, <1>5
  <2> QED  BY <1>4, <1>5, <1>6, <2>1 DEF HeaderIn, h
<1>10. EndOf(a) <= position'
  <2> HIDE DEF a
  <2> QED  BY <1>7
<1>11. /\ Orderly' /\ attempts' \in Seq(Recorded) /\ Len(attempts') = begun
       /\ AllOk' /\ ChainEnd' = EndOf(a)
  BY <1>1, <1>a, <1>2, <1>4, <1>8, <1>9, <1>10, OrderlyAnswered
<1>12. InfoThere'
  <2> HIDE DEF a
  <2>1. InfoThere  BY <1>2 DEF Opened
  <2>2. 1 <= position  BY <1>5
  <2> QED  BY <1>2, <1>8, <2>1, <2>2, InfoKept
<1> HIDE DEF a
<1>13. /\ entry' = NoEntry /\ begun' = begun /\ failed' = FALSE /\ resumed' = FALSE /\ dropped' = FALSE
  <2>1. entry' = NoEntry /\ begun' = begun /\ resumed' = resumed /\ dropped' = dropped
    BY <1>a DEF Answer
  <2>2. failed' = (failed \/ ~TRUE)  BY <1>a DEF Answer
  <2> QED  BY <1>2, <2>1, <2>2
<1>14. Between'  BY <1>1, <1>5, <1>7, <1>11, <1>12, <1>13 DEF Between
<1>15. DiskTypes'
  <2>1. position' \in 0..Len(file') /\ << >> \in Seq(DiskCells)  BY <1>7
  <2> QED  BY <1>1, <1>2, <1>4, <1>5, <1>11, <1>13, <2>1 DEF DiskTypes
<1> QED  BY <1>1, <1>2, <1>11, <1>13, <1>14, <1>15 DEF OnDisk, Stage

LEMMA PatchHeaderFailsKeeps == OnDisk /\ PatchHeaderFails => OnDisk'
<1> SUFFICES ASSUME OnDisk, PatchHeaderFails  PROVE OnDisk'  OBVIOUS
<1> DEFINE h == HeaderLen(NameCells(begun))
           a == Pending(FALSE)
<1>1. /\ step = "patch" /\ step' = "drop" /\ created' = "stopped"
      /\ Answer(Node(entry.id).size, FALSE) /\ FlushFails
      /\ UNCHANGED <<end_pos, inputs, roots>>
  BY DEF PatchHeaderFails, Return
<1>2. /\ InPatch /\ Opened /\ failed = FALSE /\ resumed = FALSE /\ dropped = FALSE /\ DiskTypes
  BY <1>1 DEF OnDisk, Stage, InPatch
<1>3. PICK n \in 0..Len(buffer) : Flushed(n) /\ buffer' = SubSeq(buffer, n + 1, Len(buffer))
  BY <1>1 DEF FlushFails
<1>4. file' = Overwrite(file, position, Prefix(buffer, n)) /\ position' = position + n
  BY <1>3 DEF Flushed
<1>5. /\ Behind(file', position') /\ position' \in 0..Len(file')
      /\ Len(buffer) = h /\ PayloadIn(file', a)
  BY <1>2, <1>4, PatchFacts
<1>6. position \in Nat /\ position = ChainEnd /\ h \in Nat /\ PayloadAt(a) = ChainEnd + h
  BY <1>2, OpenedFacts
<1>7. Leaves(n)  BY <1>2, <1>3, FlushLeaves
<1> HIDE DEF a, h
<1>8. buffer' \in Seq(DiskCells) /\ position' + Len(buffer') <= PayloadAt(a)
  <2>1. n + Len(buffer') <= Len(buffer) /\ buffer' \in Seq(DiskCells)  BY <1>7 DEF Leaves
  <2>2. Len(buffer') \in Nat /\ n \in Nat  BY <2>1
  <2> QED  BY <1>4, <1>5, <1>6, <2>1, <2>2
<1>9. TornIn(file', position', buffer', a)  BY <1>5, <1>8 DEF TornIn
<1>10. DiskTypes' /\ Orderly' /\ Halted'  BY <1>1, <1>2, <1>5, <1>8, <1>9, PendingTorn DEF a
<1>11. failed' = TRUE /\ resumed' = FALSE /\ dropped' = FALSE  BY <1>1, <1>2 DEF Answer
<1> QED  BY <1>1, <1>10, <1>11 DEF OnDisk, Stage

-----------------------------------------------------------------------------
(* All steps of the command *)

\* A step of extract only reads the archive.
LEMMA ExtractKeeps ==
    ASSUME OnDisk, NextExtract
    PROVE  /\ OnDisk' /\ step \in {"exit", "extract"} /\ created # "refused"
           /\ step' \in {"extract", "end"}
           /\ extractUnchanged
<1>1. /\ extractUnchanged /\ step \in {"exit", "extract"} /\ step' \in {"extract", "end"}
      /\ step = "exit" => created # "refused"
      /\ \/ end_pos' = end_pos \/ end_pos' = 1
         \/ \E k \in DOMAIN attempts : end_pos' = EndOf(attempts[k])
  BY DEF NextExtract, OpenReader, ExtractEntry, ExtractRefuses, ExtractFails, ExtractEnds, ExtractStops
<1>2. /\ UNCHANGED <<file, position, entry, begun, attempts, buffer, roots, inputs>>
      /\ failed' = failed /\ resumed' = resumed /\ dropped' = dropped /\ created' = created
  BY <1>1 DEF extractUnchanged, vars
<1>3. end_pos' \in Nat
  <2>1. end_pos \in Nat /\ attempts \in Seq(Recorded)  BY DEF OnDisk, DiskTypes
  <2>2. ASSUME NEW k \in DOMAIN attempts  PROVE EndOf(attempts[k]) \in Nat
    <3>1. attempts[k] \in Recorded  BY <2>1
    <3> QED  BY ONLY <3>1, RecordedFacts
  <2> QED  BY <1>1, <2>1, <2>2
<1>4. /\ DiskTypes' /\ Orderly' /\ Halted' = Halted /\ Complete' = Complete
  BY <1>2, <1>3, DiskLeft
<1>5. \/ created = "stopped" /\ Halted /\ buffer = << >>
      \/ created = "ok" /\ Complete
  BY <1>1 DEF OnDisk, Stage
<1>6. /\ created # "refused" /\ failed' = (created' = "stopped") /\ resumed' = FALSE /\ dropped' = FALSE
  BY <1>2, <1>5 DEF OnDisk
<1>7. Stage'  BY <1>1, <1>2, <1>4, <1>5 DEF Stage
<1> QED  BY <1>1, <1>4, <1>6, <1>7 DEF OnDisk

\* Where the steps of create begin and lead.
LEMMA CreateSteps ==
    ASSUME NextCreate
    PROVE  /\ step \in {"start", "next", "add", "payload", "patch", "drop"}
           /\ step' \in {"next", "add", "payload", "patch", "drop", "exit"}
           /\ UNCHANGED <<client, archive, roots, unread, before, outdir, extracted>>
<1>1. CASE Refuse  BY <1>1 DEF Refuse
<1>2. CASE Open  BY <1>2 DEF Open
<1>3. CASE ReadInput \/ AllDone
  BY <1>3 DEF ReadInput, AllDone, createUnchanged, Return, Stop, Go
<1>4. CASE CreateEntry \/ CreateEntryFails
  BY <1>4 DEF CreateEntry, CreateEntryFails, createUnchanged, Return, Stop, Go
<1>5. CASE WritePayload \/ WritePayloadFails
  BY <1>5 DEF WritePayload, WritePayloadFails, createUnchanged, Return, Go
<1>6. CASE PatchHeader \/ PatchHeaderFails
  BY <1>6 DEF PatchHeader, PatchHeaderFails, Return
<1>7. CASE DropWriter  BY <1>7 DEF DropWriter, createUnchanged
<1> QED  BY <1>1, <1>2, <1>3, <1>4, <1>5, <1>6, <1>7 DEF NextCreate

LEMMA CreateKeeps == OnDisk /\ Collected /\ NextCreate => OnDisk'
<1> SUFFICES ASSUME OnDisk, Collected, NextCreate  PROVE OnDisk'  OBVIOUS
<1>1. CASE Refuse  BY <1>1, RefuseKeeps
<1>2. CASE Open  BY <1>2, OpenKeeps
<1>3. CASE ReadInput  BY <1>3, ReadInputKeeps
<1>4. CASE AllDone  BY <1>4, AllDoneKeeps
<1>5. CASE CreateEntry  BY <1>5, CreateEntryKeeps
<1>6. CASE CreateEntryFails  BY <1>6, CreateEntryFailsKeeps
<1>7. CASE WritePayload  BY <1>7, WritePayloadKeeps
<1>8. CASE WritePayloadFails  BY <1>8, WritePayloadFailsKeeps
<1>9. CASE PatchHeader  BY <1>9, PatchHeaderKeeps
<1>10. CASE PatchHeaderFails  BY <1>10, PatchHeaderFailsKeeps
<1>11. CASE DropWriter  BY <1>11, DropWriterKeeps
<1> QED
  BY <1>1, <1>2, <1>3, <1>4, <1>5, <1>6, <1>7, <1>8, <1>9, <1>10, <1>11 DEF NextCreate

\* Only Open collects and truncates.
LEMMA CollectedKept == OnDisk /\ Collected /\ (NextCreate \/ NextExtract) => Collected'
<1> SUFFICES ASSUME OnDisk, Collected, NextCreate \/ NextExtract  PROVE Collected'  OBVIOUS
<1>1. CASE Refuse  BY <1>1 DEF Refuse, Collected
<1>2. CASE Open
  <2>1. /\ step = "start" /\ step' = "next" /\ created' = created /\ roots' = roots
        /\ unread' = unread /\ archive' = archive
        /\ inputs' = CollectInputs(roots, unread) /\ inputs' # << >> /\ ~ArchiveMatchesInput(inputs')
        /\ truncated' = IF archive = Missing THEN {} ELSE {Tree[archive].inode}
    BY <1>2 DEF Open
  <2>2. created = "running"  BY <2>1 DEF OnDisk, Stage
  <2>3. ArchiveMatchesInput(inputs)' = ArchiveMatchesInput(inputs')
    BY <2>1 DEF ArchiveMatchesInput
  <2> QED  BY <2>1, <2>2, <2>3 DEF Collected
<1>3. CASE NextCreate /\ ~Refuse /\ ~Open
  <2>1. /\ UNCHANGED <<archive, roots, unread, inputs, truncated>>
        /\ step # "start" /\ created' \in {created, "stopped", "ok"}
    <3>1. CASE ReadInput \/ AllDone
      BY <3>1 DEF ReadInput, AllDone, createUnchanged, Return, Stop, Go
    <3>2. CASE CreateEntry \/ CreateEntryFails
      BY <3>2 DEF CreateEntry, CreateEntryFails, createUnchanged, Return, Stop, Go
    <3>3. CASE WritePayload \/ WritePayloadFails
      BY <3>3 DEF WritePayload, WritePayloadFails, createUnchanged, Return, Go
    <3>4. CASE PatchHeader \/ PatchHeaderFails
      BY <3>4 DEF PatchHeader, PatchHeaderFails, Return
    <3>5. CASE DropWriter  BY <3>5 DEF DropWriter, createUnchanged
    <3> QED  BY <1>3, <3>1, <3>2, <3>3, <3>4, <3>5 DEF NextCreate
  <2>2. created # "refused"
    <3>1. step \in {"next", "add", "payload", "patch", "drop"}  BY <1>3, <2>1, CreateSteps
    <3> QED  BY <3>1 DEF OnDisk, Stage
  <2>3. step' # "start"  BY <1>3, CreateSteps
  <2>4. ArchiveMatchesInput(inputs)' = ArchiveMatchesInput(inputs)  BY <2>1 DEF ArchiveMatchesInput
  <2>5. CollectInputs(roots, unread)' = CollectInputs(roots, unread)  BY <2>1
  <2> QED  BY <2>1, <2>2, <2>3, <2>4, <2>5 DEF Collected
<1>4. CASE NextExtract
  <2>1. /\ step # "start" /\ step' # "start" /\ created' = created
        /\ UNCHANGED <<archive, roots, unread, inputs, truncated>>
    BY <1>4, ExtractKeeps DEF extractUnchanged
  <2>2. ArchiveMatchesInput(inputs)' = ArchiveMatchesInput(inputs)  BY <2>1 DEF ArchiveMatchesInput
  <2>3. CollectInputs(roots, unread)' = CollectInputs(roots, unread)  BY <2>1
  <2> QED  BY <2>1, <2>2, <2>3 DEF Collected
<1> QED  BY <1>1, <1>2, <1>3, <1>4

-----------------------------------------------------------------------------
(* Extraction *)

\* Where the reader is when it has read m entries.
After(m) == IF m = 0 THEN 1 ELSE EndOf(attempts[m])

\* The first m entries are extracted, and the directory has grown by nothing
\* but them and the directories they are in.
Restored(m) ==
    \A k \in 1..m : \E j \in k..m :
        Name(j) = Name(k) /\ Name(k) \in DOMAIN outdir /\ outdir[Name(k)] = Contents(Data(j))
Grown(m) ==
    \A n \in DOMAIN outdir :
        \/ KindOf(outdir, n) = KindOf(before, n)
        \/ KindOf(outdir, n) = "dir" /\ \E j \in 1..m : n \in Parents(Name(j))
        \/ KindOf(outdir, n) = "file" /\ \E j \in 1..m : n = Name(j)
Reading(m) == end_pos = After(m) /\ Restored(m) /\ Grown(m)

Unpacked ==
    /\ step = "extract" => extracted = "running" /\ \E m \in 0..Len(attempts) : Reading(m)
    /\ step = "end" => ExtractRestores
    /\ step \notin {"extract", "end"} => extracted = "running" /\ outdir = before

\* Entries lie one behind the other.
LEMMA EntryOrder ==
    ASSUME DiskTypes, Orderly, NEW j \in 1..Len(attempts), NEW k \in 1..Len(attempts), j < k
    PROVE  /\ attempts[j].at \in Nat /\ attempts[k].at \in Nat /\ EndOf(attempts[j]) \in Nat
           /\ attempts[j].at < EndOf(attempts[j]) /\ EndOf(attempts[j]) <= attempts[k].at
<1>1. attempts[j] \in Recorded /\ attempts[k] \in Recorded  BY DEF DiskTypes
<1>2. j \in 1..(k - 1) /\ AttemptIsInput(k)  BY DEF Orderly
<1>3. EndOf(attempts[j]) <= attempts[k].at  BY <1>2 DEF AttemptIsInput
<1>4. /\ attempts[j].at \in Nat /\ EndOf(attempts[j]) \in Nat /\ attempts[j].at < EndOf(attempts[j])
      /\ attempts[k].at \in Nat
  BY ONLY <1>1, RecordedFacts
<1> QED  BY <1>3, <1>4

\* The reader goes on with the entry behind those it has read.
LEMMA NextIsRead ==
    ASSUME DiskTypes, Orderly, NEW m \in 0..Len(attempts), end_pos = After(m)
    PROVE  /\ m < Len(attempts) => attempts[m + 1].at = end_pos
           /\ \A k \in 1..Len(attempts) : attempts[k].at = end_pos => k = m + 1
<1>1. /\ Len(attempts) \in Nat /\ m \in Nat /\ m <= Len(attempts)
      /\ \A k \in 1..Len(attempts) : attempts[k] \in Recorded
  BY DEF DiskTypes
<1>2. ASSUME m < Len(attempts)  PROVE attempts[m + 1].at = end_pos
  <2>1. m + 1 \in 1..Len(attempts) /\ (m + 1 = 1 <=> m = 0) /\ (m + 1) - 1 = m  BY <1>1, <1>2
  <2>2. AttemptIsInput(m + 1)  BY <2>1 DEF Orderly
  <2> QED  BY <2>1, <2>2 DEF AttemptIsInput, After
<1>3. ASSUME NEW k \in 1..Len(attempts), attempts[k].at = end_pos  PROVE k = m + 1
  <2>1. CASE k <= m
    <3>1. m # 0 /\ m \in 1..Len(attempts) /\ end_pos = EndOf(attempts[m])
      BY <1>1, <2>1 DEF After
    <3>2. attempts[k] \in Recorded /\ attempts[m] \in Recorded  BY <1>1, <3>1
    <3>3. /\ attempts[k].at \in Nat /\ EndOf(attempts[k]) \in Nat
          /\ attempts[k].at < EndOf(attempts[k])
          /\ attempts[m].at \in Nat /\ EndOf(attempts[m]) \in Nat
          /\ attempts[m].at < EndOf(attempts[m])
      BY ONLY <3>2, RecordedFacts
    <3>4. k # m  BY <1>3, <3>1, <3>3
    <3>5. EndOf(attempts[k]) <= attempts[m].at  BY <1>1, <2>1, <3>1, <3>4, EntryOrder
    <3> QED  BY <1>3, <3>1, <3>3, <3>5
  <2>2. CASE k > m + 1
    <3>1. m < Len(attempts) /\ m + 1 \in 1..Len(attempts) /\ m + 1 < k  BY <1>1, <2>2
    <3>2. attempts[m + 1].at = end_pos  BY <1>2, <3>1
    <3>3. /\ attempts[m + 1].at \in Nat /\ EndOf(attempts[m + 1]) \in Nat /\ attempts[k].at \in Nat
          /\ attempts[m + 1].at < EndOf(attempts[m + 1])
          /\ EndOf(attempts[m + 1]) <= attempts[k].at
      BY <3>1, EntryOrder
    <3> QED  BY <1>3, <3>2, <3>3
  <2> QED  BY <1>1, <2>1, <2>2
<1> QED  BY <1>2, <1>3

\* What is stored, and that nothing else is replaced.
LEMMA StoreFacts ==
    ASSUME NEW k, outdir' = Store(outdir, k)
    PROVE  /\ DOMAIN outdir' = DOMAIN outdir \cup Parents(Name(k)) \cup {Name(k)}
           /\ outdir'[Name(k)] = Contents(Data(k))
           /\ \A n \in DOMAIN outdir : n # Name(k) => outdir'[n] = outdir[n]
           /\ \A n \in Parents(Name(k)) :
                 n \notin DOMAIN outdir /\ n # Name(k) => outdir'[n] = Directory
  BY DEF Store, WithFile, WithParents

\* One more entry extracted.
LEMMA StoredFacts ==
    ASSUME NEW m \in Nat, Restored(m), Grown(m), outdir' = Store(outdir, m + 1),
           UNCHANGED <<inputs, before>>
    PROVE  Restored(m + 1)' /\ Grown(m + 1)'
<1> DEFINE k == m + 1
<1>1. k \in Nat /\ k \in 1..k /\ \A j \in 1..k : j = k \/ j \in 1..m  OBVIOUS
<1>2. outdir' = Store(outdir, k)  OBVIOUS
<1> HIDE DEF k
<1>3. /\ DOMAIN outdir' = DOMAIN outdir \cup Parents(Name(k)) \cup {Name(k)}
      /\ outdir'[Name(k)] = Contents(Data(k))
      /\ \A n \in DOMAIN outdir : n # Name(k) => outdir'[n] = outdir[n]
      /\ \A n \in Parents(Name(k)) : n \notin DOMAIN outdir /\ n # Name(k) => outdir'[n] = Directory
  BY <1>2, StoreFacts
<1>4. /\ \A j : Name(j)' = Name(j) /\ Data(j)' = Data(j)
      /\ before' = before
  BY DEF Name, Data, Node
<1>5. ASSUME NEW i \in 1..k
      PROVE  \E j \in i..k : /\ Name(j) = Name(i) /\ Name(i) \in DOMAIN outdir'
                             /\ outdir'[Name(i)] = Contents(Data(j))
  <2>1. k \in i..k  BY <1>1
  <2>2. CASE Name(i) = Name(k)  BY <1>3, <2>1, <2>2
  <2>3. CASE Name(i) # Name(k)
    <3>1. i \in 1..m  BY <1>1, <2>3
    <3>2. PICK j \in i..m : /\ Name(j) = Name(i) /\ Name(i) \in DOMAIN outdir
                            /\ outdir[Name(i)] = Contents(Data(j))
      BY <3>1 DEF Restored
    <3>3. j \in i..k  BY <3>2 DEF k
    <3> QED  BY <1>3, <2>3, <3>2, <3>3
  <2> QED  BY <2>2, <2>3
<1>6. ASSUME NEW n \in DOMAIN outdir'
      PROVE  \/ KindOf(outdir', n) = KindOf(before, n)
             \/ KindOf(outdir', n) = "dir" /\ \E j \in 1..k : n \in Parents(Name(j))
             \/ KindOf(outdir', n) = "file" /\ \E j \in 1..k : n = Name(j)
  <2>1. CASE n = Name(k)
    <3>1. KindOf(outdir', n) = "file"  BY <1>3, <2>1 DEF KindOf, Contents
    <3> QED  BY <1>1, <2>1, <3>1
  <2>2. CASE n # Name(k) /\ n \in DOMAIN outdir
    <3>1. KindOf(outdir', n) = KindOf(outdir, n)  BY <1>3, <2>2 DEF KindOf
    <3>2. \A j \in 1..m : j \in 1..k  BY DEF k
    <3>3. \/ KindOf(outdir, n) = KindOf(before, n)
          \/ KindOf(outdir, n) = "dir" /\ \E j \in 1..m : n \in Parents(Name(j))
          \/ KindOf(outdir, n) = "file" /\ \E j \in 1..m : n = Name(j)
      BY <2>2 DEF Grown
    <3> QED  BY <3>1, <3>2, <3>3
  <2>3. CASE n # Name(k) /\ n \notin DOMAIN outdir
    <3>1. n \in Parents(Name(k))  BY <1>3, <2>3
    <3>2. KindOf(outdir', n) = "dir"  BY <1>3, <2>3, <3>1 DEF KindOf, Directory
    <3> QED  BY <1>1, <3>1, <3>2
  <2> QED  BY <2>1, <2>2, <2>3
<1>7. Restored(k)'  BY <1>4, <1>5 DEF Restored
<1>8. Grown(k)'  BY <1>4, <1>6 DEF Grown
<1> QED  BY <1>7, <1>8 DEF k

LEMMA OpenReaderUnpacks == OnDisk /\ Unpacked /\ OpenReader => Unpacked'
<1> SUFFICES ASSUME OnDisk, Unpacked, OpenReader  PROVE Unpacked'  OBVIOUS
<1>1. /\ step = "exit" /\ created # "refused" /\ outdir' = outdir
      /\ UNCHANGED <<file, attempts, inputs, created, before>>
      /\ IF file # << >> /\ file[1] = Info
         THEN step' = "extract" /\ end_pos' = 1 /\ extracted' = extracted
         ELSE step' = "end" /\ extracted' = "damaged"
  BY DEF OpenReader, extractUnchanged, vars
<1>2. extracted = "running" /\ outdir = before  BY <1>1 DEF Unpacked
<1>3. attempts \in Seq(Recorded) /\ Len(attempts) \in Nat  BY DEF OnDisk, DiskTypes
<1>4. CASE file # << >> /\ file[1] = Info
  <2>1. step' = "extract" /\ end_pos' = 1 /\ extracted' = "running" /\ 0 \in 0..Len(attempts')
    BY <1>1, <1>2, <1>3, <1>4
  <2>2. After(0)' = 1  BY DEF After
  <2>3. Restored(0)'
    <3>1. 1..0 = {}  OBVIOUS
    <3> QED  BY <3>1 DEF Restored
  <2>4. Grown(0)'
    <3>1. outdir' = before'  BY <1>1, <1>2
    <3> QED  BY <3>1 DEF Grown
  <2>5. Reading(0)'  BY <2>1, <2>2, <2>3, <2>4 DEF Reading
  <2> QED  BY <2>1, <2>5 DEF Unpacked
<1>5. CASE ~(file # << >> /\ file[1] = Info)
  <2>1. step' = "end" /\ extracted' = "damaged" /\ ~InfoThere  BY <1>1, <1>5 DEF InfoThere
  <2>2. \/ created = "stopped" /\ Halted
        \/ created = "ok" /\ Complete
    BY <1>1 DEF OnDisk, Stage
  <2>3. created = "stopped" /\ Halted  BY <2>1, <2>2 DEF Complete
  <2>4. Len(attempts) = 0  BY <1>3, <2>1, <2>3 DEF Halted
  <2>5. DOMAIN attempts' = {}
    <3>1. DOMAIN attempts = 1..Len(attempts) /\ 1..0 = {}  BY <1>3
    <3> QED  BY <1>1, <2>4, <3>1
  <2>6. created' # "ok" /\ extracted' # "refused"  BY <1>1, <2>1, <2>3
  <2>7. ExtractRestores'  BY <2>5, <2>6 DEF ExtractRestores
  <2> QED  BY <2>1, <2>7 DEF Unpacked
<1> QED  BY <1>4, <1>5

\* What the reader finds next.
LEMMA ReadableFacts ==
    ASSUME OnDisk, NEW m \in 0..Len(attempts), Reading(m), NEW k \in DOMAIN attempts,
           Readable(attempts[k])
    PROVE  k = m + 1 /\ k \in 1..Len(attempts) /\ k \in DOMAIN inputs
           /\ \A j \in 1..k : j \in DOMAIN inputs
<1>1. /\ DiskTypes /\ Orderly /\ attempts \in Seq(Recorded) /\ inputs \in Seq(Found)
      /\ Len(attempts) <= Len(inputs)
  BY DEF OnDisk, DiskTypes, Orderly
<1>2. k \in 1..Len(attempts) /\ end_pos = After(m) /\ attempts[k].at = end_pos
  BY <1>1 DEF Reading, Readable
<1>3. k = m + 1  BY <1>1, <1>2, NextIsRead
<1>4. DOMAIN inputs = 1..Len(inputs) /\ Len(inputs) \in Nat /\ Len(attempts) \in Nat  BY <1>1
<1> QED  BY <1>1, <1>2, <1>3, <1>4

LEMMA ExtractEntryUnpacks == OnDisk /\ Unpacked /\ ExtractEntry => Unpacked'
<1> SUFFICES ASSUME OnDisk, Unpacked, ExtractEntry  PROVE Unpacked'  OBVIOUS
<1>1. /\ step = "extract" /\ step' = "extract" /\ extracted' = extracted
      /\ UNCHANGED <<attempts, inputs, before>>
  BY DEF ExtractEntry, extractUnchanged, vars
<1>2. PICK m \in 0..Len(attempts) : Reading(m)  BY <1>1 DEF Unpacked
<1>3. PICK k \in DOMAIN attempts :
          /\ Readable(attempts[k]) /\ outdir' = Store(outdir, k) /\ end_pos' = EndOf(attempts[k])
  BY DEF ExtractEntry
<1>4. k = m + 1 /\ k \in 1..Len(attempts)  BY <1>2, <1>3, ReadableFacts
<1>5. m \in Nat /\ m + 1 # 0 /\ m + 1 \in 0..Len(attempts')  BY <1>1, <1>4
<1>6. Restored(m + 1)' /\ Grown(m + 1)'
  BY <1>1, <1>2, <1>3, <1>4, <1>5, StoredFacts DEF Reading
<1>7. (end_pos = After(m + 1))'
  BY <1>1, <1>3, <1>4, <1>5 DEF After, EndOf, PayloadAt
<1>8. Reading(m + 1)'  BY <1>6, <1>7 DEF Reading
<1>9. extracted' = "running"  BY <1>1 DEF Unpacked
<1> QED  BY <1>1, <1>5, <1>8, <1>9 DEF Unpacked

\* The directory was in the way already, or an entry's name is.
LEMMA WayFacts ==
    ASSUME NEW m \in Nat, Grown(m), NEW k, InTheWay(outdir, Name(k))
    PROVE  \/ InTheWay(before, Name(k))
           \/ \E j \in 1..m : Name(j) \in Parents(Name(k)) \/ Name(k) \in Parents(Name(j))
<1>1. \A n : KindOf(outdir, n) # "nothing" =>
          \/ KindOf(outdir, n) = KindOf(before, n)
          \/ KindOf(outdir, n) = "dir" /\ \E j \in 1..m : n \in Parents(Name(j))
          \/ KindOf(outdir, n) = "file" /\ \E j \in 1..m : n = Name(j)
  BY DEF Grown, KindOf
<1>2. CASE KindOf(outdir, Name(k)) \in {"link", "dir"}
  <2>1. \/ KindOf(outdir, Name(k)) = KindOf(before, Name(k))
        \/ \E j \in 1..m : Name(k) \in Parents(Name(j))
    BY <1>1, <1>2
  <2> QED  BY <1>2, <2>1 DEF InTheWay
<1>3. CASE \E parent \in Parents(Name(k)) : KindOf(outdir, parent) \in {"link", "file"}
  <2>1. PICK parent \in Parents(Name(k)) : KindOf(outdir, parent) \in {"link", "file"}
    BY <1>3
  <2>2. \/ KindOf(outdir, parent) = KindOf(before, parent)
        \/ \E j \in 1..m : parent = Name(j)
    BY <1>1, <2>1
  <2> QED  BY <2>1, <2>2 DEF InTheWay
<1> QED  BY <1>2, <1>3 DEF InTheWay

LEMMA ExtractRefusesUnpacks == OnDisk /\ Unpacked /\ ExtractRefuses => Unpacked'
<1> SUFFICES ASSUME OnDisk, Unpacked, ExtractRefuses  PROVE Unpacked'  OBVIOUS
<1>1. /\ step = "extract" /\ step' = "end" /\ extracted' = "refused"
      /\ UNCHANGED <<attempts, inputs, before>>
  BY DEF ExtractRefuses, ExtractStops, extractUnchanged, vars
<1>2. PICK m \in 0..Len(attempts) : Reading(m)  BY <1>1 DEF Unpacked
<1>3. PICK k \in DOMAIN attempts :
          Readable(attempts[k]) /\ (~Sanitized(Name(k)) \/ InTheWay(outdir, Name(k)))
  BY DEF ExtractRefuses
<1>4. /\ k = m + 1 /\ k \in DOMAIN inputs /\ \A j \in 1..k : j \in DOMAIN inputs
  BY <1>2, <1>3, ReadableFacts
<1>5. m \in Nat /\ \A j \in 1..m : j \in DOMAIN inputs  BY <1>4
<1>6. \E i \in DOMAIN inputs :
          \/ ~Sanitized(Name(i)) \/ InTheWay(before, Name(i))
          \/ \E j \in DOMAIN inputs : Name(j) \in Parents(Name(i))
  <2>1. CASE ~Sanitized(Name(k))  BY <1>4, <2>1
  <2>2. CASE InTheWay(outdir, Name(k))
    <3>1. \/ InTheWay(before, Name(k))
          \/ \E j \in 1..m : Name(j) \in Parents(Name(k)) \/ Name(k) \in Parents(Name(j))
      BY <1>2, <1>5, <2>2, WayFacts DEF Reading
    <3> QED  BY <1>4, <1>5, <3>1
  <2> QED  BY <1>3, <2>1, <2>2
<1>7. /\ inputs' = inputs /\ before' = before /\ \A j : Name(j)' = Name(j)
  BY <1>1 DEF Name
<1>8. ExtractRestores'  BY <1>1, <1>6, <1>7 DEF ExtractRestores
<1> QED  BY <1>1, <1>8 DEF Unpacked

LEMMA ExtractFailsUnpacks == OnDisk /\ Unpacked /\ ExtractFails => Unpacked'
<1> SUFFICES ASSUME OnDisk, Unpacked, ExtractFails  PROVE Unpacked'  OBVIOUS
<1>1. step' = "end" /\ extracted' = "failed"  BY DEF ExtractFails, ExtractStops
<1>2. ExtractRestores'  BY <1>1 DEF ExtractRestores
<1> QED  BY <1>1, <1>2 DEF Unpacked

LEMMA ExtractEndsUnpacks == OnDisk /\ Unpacked /\ ExtractEnds => Unpacked'
<1> SUFFICES ASSUME OnDisk, Unpacked, ExtractEnds  PROVE Unpacked'  OBVIOUS
<1>1. /\ step = "extract" /\ step' = "end" /\ outdir' = outdir
      /\ UNCHANGED <<file, attempts, inputs, before, created>>
      /\ \A k \in DOMAIN attempts : ~Readable(attempts[k])
      /\ extracted' = IF end_pos = Len(file) THEN "ok" ELSE "damaged"
  BY DEF ExtractEnds, ExtractStops, extractUnchanged, vars
<1>2. PICK m \in 0..Len(attempts) : Reading(m)  BY <1>1 DEF Unpacked
<1>3. /\ DiskTypes /\ Orderly /\ attempts \in Seq(Recorded) /\ file \in Seq(DiskCells)
      /\ Len(attempts) <= Len(inputs) /\ inputs \in Seq(Found)
      /\ DOMAIN attempts = 1..Len(attempts) /\ Len(attempts) \in Nat /\ Len(inputs) \in Nat
      /\ m \in Nat /\ m <= Len(attempts)
  BY DEF OnDisk, DiskTypes, Orderly
<1>4. m < Len(attempts) => ~attempts[m + 1].ok
  <2> SUFFICES ASSUME m < Len(attempts), attempts[m + 1].ok  PROVE FALSE  OBVIOUS
  <2>1. m + 1 \in 1..Len(attempts)  BY <1>3
  <2>2. attempts[m + 1].at = end_pos  BY <1>2, <1>3, NextIsRead DEF Reading
  <2>3. HeaderIn(file, attempts[m + 1]) /\ PayloadIn(file, attempts[m + 1])
    BY <1>3, <2>1 DEF Orderly, AttemptIsInput
  <2>4. attempts[m + 1] \in Recorded  BY <1>3, <2>1
  <2>5. HeaderOnDisk(attempts[m + 1]) /\ PayloadOnDisk(attempts[m + 1])
    BY <1>3, <2>3, <2>4, OnDiskIsThere
  <2> QED  BY <1>1, <1>3, <2>1, <2>2, <2>5 DEF Readable
<1>5. ASSUME NEW k \in DOMAIN attempts, attempts[k].ok  PROVE k \in 1..m
  <2> SUFFICES ASSUME k > m  PROVE FALSE  BY <1>3
  <2>1. m + 1 \in 1..Len(attempts) /\ k \in 1..Len(attempts) /\ m < Len(attempts)  BY <1>3
  <2>2. CASE k = m + 1  BY <1>4, <1>5, <2>1, <2>2
  <2>3. CASE k # m + 1
    <3>1. m + 1 \in 1..(k - 1)  BY <1>3, <2>1, <2>3
    <3>2. attempts[m + 1].ok  BY <1>3, <2>1, <3>1 DEF Orderly, AttemptIsInput
    <3> QED  BY <1>4, <2>1, <3>2
  <2> QED  BY <2>2, <2>3
<1>6. /\ inputs' = inputs /\ \A j : Name(j)' = Name(j) /\ Data(j)' = Data(j)
  BY <1>1 DEF Name, Data, Node
<1>7. \A k \in DOMAIN attempts : attempts[k].ok =>
          \E j \in k..Len(inputs) : Name(j) = Name(k) /\ outdir[Name(k)] = Contents(Data(j))
  <2> SUFFICES ASSUME NEW k \in DOMAIN attempts, attempts[k].ok
               PROVE  \E j \in k..Len(inputs) :
                          Name(j) = Name(k) /\ outdir[Name(k)] = Contents(Data(j))
    OBVIOUS
  <2>1. k \in 1..m  BY <1>5
  <2>2. PICK j \in k..m : Name(j) = Name(k) /\ outdir[Name(k)] = Contents(Data(j))
    BY <1>2, <2>1 DEF Reading, Restored
  <2>3. j \in k..Len(inputs)  BY <1>3, <2>1
  <2> QED  BY <2>2, <2>3
<1>8. created = "ok" => end_pos = Len(file)
  <2> SUFFICES ASSUME created = "ok"  PROVE end_pos = Len(file)  OBVIOUS
  <2>1. Complete  BY <1>1 DEF OnDisk, Stage
  <2>2. AllOk /\ position = Len(file) /\ position = ChainEnd  BY <2>1 DEF Complete
  <2>3. m = Len(attempts)
    <3>1. m < Len(attempts) => m + 1 \in 1..Len(attempts)  BY <1>3
    <3>2. ~(m < Len(attempts))  BY <1>4, <2>2, <3>1 DEF AllOk
    <3>3. m \in Nat /\ Len(attempts) \in Nat /\ m <= Len(attempts)  BY <1>3
    <3> QED  BY ONLY <3>2, <3>3
  <2>4. end_pos = ChainEnd  BY <1>2, <2>3 DEF Reading, After, ChainEnd
  <2> QED  BY <2>2, <2>4
<1>9. extracted' # "refused" /\ (created' = "ok" => extracted' # "damaged")  BY <1>1, <1>8
<1>10. ExtractRestores'  BY <1>1, <1>6, <1>7, <1>9 DEF ExtractRestores
<1> QED  BY <1>1, <1>10 DEF Unpacked

-----------------------------------------------------------------------------
(* The invariant of both clients *)

\* The library's client leaves the command's variables alone.
AtRest ==
    /\ step = "start" /\ created = "running" /\ extracted = "running"
    /\ inputs = << >> /\ truncated = {}

CInv ==
    /\ client \in {"library", "create"}
    /\ client = "library" => IInv /\ AtRest
    /\ client = "create" => OnDisk /\ Collected /\ Unpacked

LEMMA InitCInv == InitCommandLine => CInv
<1> SUFFICES ASSUME InitCommandLine  PROVE CInv  OBVIOUS
<1>1. /\ Init /\ step = "start" /\ inputs = << >> /\ truncated = {} /\ buffer = << >>
      /\ end_pos = 0 /\ created = "running" /\ extracted = "running" /\ before = outdir
      /\ client \in {"library", "create"} /\ (client = "create" => roots \in RootLists /\ unread \in Losses[roots])
  BY DEF InitCommandLine
<1>2. IInv /\ AtRest  BY <1>1, InitIInv DEF AtRest
<1>3. Unopened /\ failed = FALSE /\ resumed = FALSE /\ dropped = FALSE
  BY <1>1 DEF Init, Unopened
<1>4. ASSUME client = "create"  PROVE OnDisk
  <2>1. Info \in DiskCells  BY DEF DiskCells
  <2>2. <<Info>> \in Seq(DiskCells) /\ Len(<<Info>>) = 1 /\ Len(<< >>) = 0  BY <2>1
  <2>3. DiskTypes  BY <1>1, <1>3, <1>4, <2>2 DEF DiskTypes, Unopened
  <2>4. Len(attempts) = 0 /\ Len(inputs) = 0 /\ 1..0 = {}  BY <1>3, <2>2 DEF Unopened
  <2>5. Orderly  BY <2>4 DEF Orderly
  <2> QED  BY <1>1, <1>3, <2>3, <2>5 DEF OnDisk, Stage
<1>5. client = "create" => Collected /\ Unpacked  BY <1>1 DEF Collected, Unpacked
<1> QED  BY <1>1, <1>2, <1>4, <1>5 DEF CInv

LEMMA StepCInv == CInv /\ [NextCommand]_allVars => CInv'
<1> SUFFICES ASSUME CInv, [NextCommand]_allVars  PROVE CInv'  OBVIOUS
<1>1. CASE client = "library" /\ Next /\ UNCHANGED commandVars
  <2>1. IInv' /\ client' = "library"  BY <1>1, StepIInv DEF CInv, commandVars
  <2>2. AtRest'  BY <1>1 DEF CInv, AtRest, commandVars
  <2> QED  BY <2>1, <2>2 DEF CInv
<1>2. CASE client = "create" /\ NextCreate
  <2>1. OnDisk /\ Collected /\ Unpacked  BY <1>2 DEF CInv
  <2>2. OnDisk' /\ Collected'  BY <1>2, <2>1, CreateKeeps, CollectedKept
  <2>3. /\ step \notin {"extract", "end"} /\ step' \notin {"extract", "end"}
        /\ client' = client /\ before' = before /\ outdir' = outdir /\ extracted' = extracted
    BY <1>2, CreateSteps
  <2>4. Unpacked'  BY <2>1, <2>3 DEF Unpacked
  <2> QED  BY <1>2, <2>2, <2>3, <2>4 DEF CInv
<1>3. CASE client = "create" /\ NextExtract
  <2>1. OnDisk /\ Collected /\ Unpacked  BY <1>3 DEF CInv
  <2>2. OnDisk' /\ Collected'  BY <1>3, <2>1, ExtractKeeps, CollectedKept
  <2>3. client' = client  BY <1>3, <2>1, ExtractKeeps DEF extractUnchanged
  <2>4. Unpacked'
    BY <1>3, <2>1, OpenReaderUnpacks, ExtractEntryUnpacks, ExtractRefusesUnpacks,
       ExtractFailsUnpacks, ExtractEndsUnpacks DEF NextExtract
  <2> QED  BY <1>3, <2>2, <2>3, <2>4 DEF CInv
<1>4. CASE UNCHANGED allVars
  <2>1. UNCHANGED vars /\ UNCHANGED commandVars  BY <1>4 DEF allVars
  <2>2. CASE client = "library"
    <3>1. IInv' /\ AtRest'  BY <2>1, <2>2, StepIInv DEF CInv, AtRest, commandVars
    <3> QED  BY <2>1, <2>2, <3>1 DEF CInv, commandVars
  <2>3. CASE client = "create"
    <3>1. OnDisk /\ Collected /\ Unpacked  BY <2>3 DEF CInv
    <3>2. OnDisk'
      <4>1. /\ UNCHANGED <<file, position, entry, begun, attempts, buffer, roots, inputs>>
            /\ end_pos' = end_pos /\ step' = step /\ created' = created /\ truncated' = truncated
            /\ failed' = failed /\ resumed' = resumed /\ dropped' = dropped
        BY <2>1 DEF vars, commandVars
      <4>2. end_pos' \in Nat  BY <3>1, <4>1 DEF OnDisk, DiskTypes
      <4>3. DiskTypes' /\ Orderly'  BY <3>1, <4>1, <4>2, DiskLeft
      <4>4. Stage' = Stage
        <5>1. Unopened' = Unopened  BY <4>1 DEF Unopened
        <5>2. /\ Between' = Between /\ Halted' = Halted /\ Complete' = Complete
          BY <3>1, <4>1, <4>2, DiskLeft
        <5>3. /\ AllOk' = AllOk /\ InfoThere' = InfoThere /\ ChainEnd' = ChainEnd
              /\ NameCells(begun)' = NameCells(begun) /\ Node(begun)' = Node(begun)
          BY <4>1 DEF AllOk, InfoThere, ChainEnd, EndOf, PayloadAt, NameCells, Name, Node
        <5>4. Opened' = Opened  BY <4>1, <5>3 DEF Opened
        <5>5. InReserve' = InReserve  BY <4>1, <5>3, <5>4 DEF InReserve
        <5>6. InPatch' = InPatch
          BY <4>1, <5>3, <5>4 DEF InPatch, Pending, PayloadIn, EndOf, PayloadAt
        <5> QED  BY <4>1, <5>1, <5>2, <5>5, <5>6 DEF Stage
      <4> QED  BY <3>1, <4>1, <4>3, <4>4 DEF OnDisk
    <3>3. Collected'
      BY <2>1, <3>1 DEF Collected, commandVars, ArchiveMatchesInput
    <3>4. Unpacked'
      <4>1. /\ UNCHANGED <<step, end_pos, attempts, inputs, outdir, before, created, extracted>>
        BY <2>1 DEF vars, commandVars
      <4>2. /\ \A j : Name(j)' = Name(j) /\ Data(j)' = Data(j)
        BY <4>1 DEF Name, Data, Node
      <4>3. ExtractRestores' = ExtractRestores  BY <4>1, <4>2 DEF ExtractRestores
      <4>4. ASSUME NEW m \in 0..Len(attempts), Reading(m)  PROVE Reading(m)'
        BY <4>1, <4>2, <4>4 DEF Reading, After, Restored, Grown, EndOf, PayloadAt
      <4> QED  BY <3>1, <4>1, <4>3, <4>4 DEF Unpacked
    <3> QED  BY <2>1, <2>3, <3>2, <3>3, <3>4 DEF CInv, commandVars
  <2> QED  BY <2>2, <2>3 DEF CInv
<1> QED  BY <1>1, <1>2, <1>3, <1>4 DEF NextCommand

-----------------------------------------------------------------------------
(* What the invariant says *)

\* What is truncated is behind none of the collected inputs, and those are all
\* the files the arguments lead to.
LEMMA InvLeavesInputs == CInv => InputsIntact
<1> SUFFICES ASSUME CInv, NEW n \in Expected  PROVE Tree[n].inode \notin truncated
  BY DEF InputsIntact
<1>1. CASE truncated = {}  BY <1>1
<1>2. CASE truncated # {}
  <2>1. client = "create" /\ OnDisk /\ Collected  BY <1>2 DEF CInv, AtRest
  <2>2. /\ inputs = CollectInputs(roots, unread) /\ ~ArchiveMatchesInput(inputs)
        /\ archive # Missing /\ truncated = {Tree[archive].inode} /\ unread \in Losses[roots]
    BY <1>2, <2>1 DEF Collected
  <2>3. roots \in RootLists /\ inputs \in Seq(Found)  BY <2>1 DEF OnDisk, DiskTypes
  <2>4. n \in NodesOf(inputs)  BY <2>2, <2>3, CollectsExpected
  <2>5. PICK k \in DOMAIN inputs : inputs[k].node = n  BY <2>3, <2>4 DEF NodesOf
  <2> QED  BY <2>2, <2>5 DEF ArchiveMatchesInput
<1> QED  BY <1>1, <1>2

LEMMA InvStoresAll == CInv => OkMeansOnDisk
<1> SUFFICES ASSUME CInv, created = "ok"
             PROVE  /\ {inputs[k].node : k \in DOMAIN inputs} = Expected
                    /\ Len(attempts) = Len(inputs) /\ buffer = << >>
                    /\ file[1] = Info /\ Len(file) = EndOf(Last(attempts))
                    /\ \A k \in DOMAIN attempts :
                          /\ attempts[k].at = IF k = 1 THEN 1 ELSE EndOf(attempts[k - 1])
                          /\ HeaderOnDisk(attempts[k]) /\ PayloadOnDisk(attempts[k])
  BY DEF OkMeansOnDisk
<1>1. OnDisk /\ Collected  BY DEF CInv, AtRest
<1>2. /\ Complete /\ step # "start" /\ Orderly
      /\ roots \in RootLists /\ inputs \in Seq(Found) /\ attempts \in Seq(Recorded)
      /\ file \in Seq(DiskCells)
  BY <1>1 DEF OnDisk, Stage, DiskTypes
<1>3. inputs = CollectInputs(roots, unread) /\ inputs # << >> /\ unread \in Losses[roots]
  BY <1>1, <1>2 DEF Collected
<1>4. {inputs[k].node : k \in DOMAIN inputs} = Expected
  <2>1. DOMAIN inputs = 1..Len(inputs)  BY <1>2
  <2>2. {inputs[k].node : k \in DOMAIN inputs} = NodesOf(inputs)  BY <2>1 DEF NodesOf
  <2> QED  BY <1>2, <1>3, <2>2, CollectsExpected
<1>5. /\ Len(attempts) = Len(inputs) /\ AllOk /\ InfoThere /\ position = Len(file)
      /\ position = ChainEnd /\ buffer = << >>
  BY <1>2 DEF Complete
<1>6. Len(file) = EndOf(Last(attempts))
  <2>1. Len(attempts) # 0  BY <1>2, <1>3, <1>5
  <2> QED  BY <1>5, <2>1 DEF ChainEnd, Last
<1>7. ASSUME NEW k \in DOMAIN attempts
      PROVE  /\ attempts[k].at = IF k = 1 THEN 1 ELSE EndOf(attempts[k - 1])
             /\ HeaderOnDisk(attempts[k]) /\ PayloadOnDisk(attempts[k])
  <2>1. k \in 1..Len(attempts)  BY <1>2
  <2>2. AttemptIsInput(k) /\ attempts[k].ok  BY <1>2, <1>5, <2>1 DEF Orderly, AllOk
  <2>3. /\ attempts[k] \in Recorded /\ HeaderIn(file, attempts[k]) /\ PayloadIn(file, attempts[k])
        /\ attempts[k].at = IF k = 1 THEN 1 ELSE EndOf(attempts[k - 1])
    BY <2>2 DEF AttemptIsInput
  <2>4. HeaderOnDisk(attempts[k]) /\ PayloadOnDisk(attempts[k])  BY <1>2, <2>3, OnDiskIsThere
  <2> QED  BY <2>3, <2>4
<1> QED  BY <1>4, <1>5, <1>6, <1>7 DEF InfoThere

LEMMA InvRestores == CInv => ExtractRestores
<1> SUFFICES ASSUME CInv  PROVE ExtractRestores  OBVIOUS
<1>1. CASE client = "library"  BY <1>1 DEF CInv, AtRest, ExtractRestores
<1>2. CASE client = "create"
  <2>1. CASE step = "end"  BY <1>2, <2>1 DEF CInv, Unpacked
  <2>2. CASE step # "end"
    <3>1. extracted = "running"  BY <1>2, <2>2 DEF CInv, Unpacked
    <3> QED  BY <3>1 DEF ExtractRestores
  <2> QED  BY <2>1, <2>2
<1> QED  BY <1>1, <1>2 DEF CInv

LEMMA InvCommits == CInv => CommittedIntact
<1> SUFFICES ASSUME CInv  PROVE CommittedIntact  OBVIOUS
<1>1. CASE client = "library"  BY <1>1, InvKeepsFinished DEF CInv
<1>2. CASE client = "create"
  <2>1. OnDisk /\ attempts \in Seq(Recorded) /\ file \in Seq(DiskCells)
    BY <1>2 DEF CInv, OnDisk, DiskTypes
  <2>2. SUFFICES ASSUME NEW k \in DOMAIN attempts, attempts[k].ok
                 PROVE  HeaderOnDisk(attempts[k]) /\ PayloadOnDisk(attempts[k])
    BY DEF CommittedIntact
  <2>3. k \in 1..Len(attempts) /\ attempts[k] \in Recorded  BY <2>1
  <2>4. HeaderIn(file, attempts[k]) /\ PayloadIn(file, attempts[k])
    BY <2>1, <2>2, <2>3 DEF OnDisk, Orderly, AttemptIsInput
  <2> QED  BY <2>1, <2>3, <2>4, OnDiskIsThere
<1> QED  BY <1>1, <1>2 DEF CInv

LEMMA InvChains == CInv => FileIsArchive
<1> SUFFICES ASSUME CInv  PROVE FileIsArchive  OBVIOUS
<1>1. CASE client = "library"  BY <1>1, InvMakesArchive DEF CInv
<1>2. CASE client = "create"
  <2>1. OnDisk /\ attempts \in Seq(Recorded)  BY <1>2 DEF CInv, OnDisk, DiskTypes
  <2>2. SUFFICES ASSUME ~failed, entry = NoEntry, begun > 0
                 PROVE  /\ position = Len(file) /\ Len(file) = EndOf(attempts[begun])
                        /\ Len(attempts) = begun
                        /\ \A k \in DOMAIN attempts :
                              attempts[k].at = IF k = 1 THEN 1 ELSE EndOf(attempts[k - 1])
    BY DEF FileIsArchive
  <2>3. begun \in Nat /\ begun # 0  BY <2>1, <2>2 DEF OnDisk, DiskTypes
  <2>4. created # "stopped"  BY <2>1, <2>2 DEF OnDisk
  <2>5. ~Opened
    <3>1. Opened => entry.id = begun  BY <2>1, OpenedFacts
    <3>2. entry.id = 0  BY <2>2 DEF NoEntry
    <3> QED  BY <2>3, <3>1, <3>2
  <2>6. Between \/ Complete
    BY <2>1, <2>3, <2>4, <2>5 DEF OnDisk, Stage, Unopened, InReserve, InPatch
  <2>7. position = Len(file) /\ Len(attempts) = begun /\ position = ChainEnd
    BY <2>3, <2>6 DEF Between, Complete
  <2>8. \A k \in DOMAIN attempts :
            attempts[k].at = IF k = 1 THEN 1 ELSE EndOf(attempts[k - 1])
    <3>1. DOMAIN attempts = 1..Len(attempts)  BY <2>1
    <3> QED  BY <2>1, <3>1 DEF OnDisk, Orderly, AttemptIsInput
  <2> QED  BY <2>3, <2>7, <2>8 DEF ChainEnd
<1> QED  BY <1>1, <1>2 DEF CInv

LEMMA InvTears == CInv => HeaderImpliesPayload
<1> SUFFICES ASSUME CInv  PROVE HeaderImpliesPayload  OBVIOUS
<1>1. CASE client = "library"  BY <1>1, InvShowsTorn DEF CInv
<1>2. CASE client = "create"
  <2>1. OnDisk /\ attempts \in Seq(Recorded) /\ file \in Seq(DiskCells)
    BY <1>2 DEF CInv, OnDisk, DiskTypes
  <2>2. SUFFICES ASSUME NEW k \in DOMAIN attempts, HeaderOnDisk(attempts[k])
                 PROVE  PayloadOnDisk(attempts[k])
    BY DEF HeaderImpliesPayload
  <2> DEFINE a == attempts[k]
  <2>3. k \in 1..Len(attempts) /\ a \in Recorded /\ Len(attempts) # 0  BY <2>1
  <2>4. a.ok \/ Torn(a)
    <3>1. \/ Len(attempts) = 0 \/ AllOk
          \/ \A j \in 1..Len(attempts) : attempts[j].ok \/ Torn(attempts[j])
      <4>1. Unopened => Len(attempts) = 0  BY DEF Unopened
      <4>2. Between \/ InReserve \/ InPatch \/ Complete => AllOk
        BY DEF Between, InReserve, InPatch, Opened, Complete
      <4>3. Halted => \A j \in 1..Len(attempts) : attempts[j].ok \/ Torn(attempts[j])
        BY DEF Halted
      <4> QED  BY <2>1, <4>1, <4>2, <4>3 DEF OnDisk, Stage
    <3> QED  BY <2>3, <3>1 DEF AllOk
  <2>5. a.ok => PayloadIn(file, a)  BY <2>1, <2>3 DEF OnDisk, Orderly, AttemptIsInput
  <2>6. HeaderOnDisk(a) /\ (HeaderOnDisk(a) <=> HeaderIn(file, a))
        /\ (PayloadOnDisk(a) <=> PayloadIn(file, a))
    BY <2>1, <2>2, <2>3, OnDiskIsThere
  <2> HIDE DEF a
  <2>7. ASSUME Torn(a), ~PayloadIn(file, a)  PROVE FALSE
    <3>1. /\ a.at \in Nat /\ HeaderLen(a.names) \in Nat \ {0}
          /\ PayloadAt(a) = a.at + HeaderLen(a.names)
      BY <2>3, RecordedFacts
    <3>2. 1 \in 1..HeaderLen(a.names)  BY <3>1
    <3>3. file[a.at + 1] = HeaderCell(a.id, 1) /\ PayloadAt(a) <= Len(file)
      BY <2>6, <3>2 DEF HeaderIn
    <3>4. a.at + 1 <= Len(file)
      <4>1. Len(file) \in Nat  BY <2>1
      <4> QED  BY <3>1, <3>3, <4>1
    <3>5. file[a.at + 1] = Blank  BY <2>7, <3>2, <3>4 DEF Torn, TornIn
    <3> QED  BY <3>3, <3>5, CellsDiffer
  <2> QED  BY <2>4, <2>5, <2>6, <2>7 DEF a
<1> QED  BY <1>1, <1>2 DEF CInv

-----------------------------------------------------------------------------
(* The theorems *)

\* At every step create knows what is on disk and what waits in the buffer,
\* and extract what it has restored.
THEOREM CommandInvariant == SpecCommandLine => []CInv
<1>1. InitCommandLine => CInv  BY InitCInv
<1>2. CInv /\ [NextCommand]_allVars => CInv'  BY StepCInv
<1> QED  BY <1>1, <1>2, PTL DEF SpecCommandLine

\* create never truncates a file its arguments lead to, in any directory and
\* whatever links the archive path goes through: collect_inputs finds them all,
\* up to those behind an entry that read_dir fails to read.
THEOREM InputsStayIntact == SpecCommandLine => []InputsIntact
  BY InvLeavesInputs, CommandInvariant, PTL

\* When create answers Ok, every file under its arguments that the walks got to
\* see, whichever entries read_dir failed to read, and nothing else, is a whole
\* entry on disk, and nothing is left to the drop of the writer.
THEOREM OkIsOnDisk == SpecCommandLine => []OkMeansOnDisk
  BY InvStoresAll, CommandInvariant, PTL

\* extract restores every entry that was finished, also of a torn archive,
\* reports no damage after a create that answered Ok, and refuses only names
\* that cannot be stored.
THEOREM FinishedAreRestored == SpecCommandLine => []ExtractRestores
  BY InvRestores, CommandInvariant, PTL

\* The three properties of the writer hold as well when it writes through the
\* command's BufWriter, which sends cells to disk later and not all of them.
THEOREM BufferedStayWhole == SpecCommandLine => []CommittedIntact
  BY InvCommits, CommandInvariant, PTL

\* Until something fails, the archive is its entries back to back.
THEOREM BufferedAreArchives == SpecCommandLine => []FileIsArchive
  BY InvChains, CommandInvariant, PTL

\* However much of the buffer is written when create stops, a whole header on
\* disk has its payload behind it.
THEOREM BufferedHavePayloads == SpecCommandLine => []HeaderImpliesPayload
  BY InvTears, CommandInvariant, PTL

-----------------------------------------------------------------------------
(* Proofs about DateTime, for every time from the epoch on and every choice *)
(* of the clock's days and seconds.  A day is named by its era of 400       *)
(* years, its year of the era and its day of the year, years beginning on   *)
(* the first of March.                                                      *)


\* The days of the first y years of an era, and of the first m months of a year.
YearDays(y) == 365 * y + y \div 4 - y \div 100
MonthDays(m) == (153 * m + 2) \div 5

YearOfEra(doe) == (doe - doe \div 1460 + doe \div 36524 - doe \div 146096) \div 365
MonthOfYear(doy) == (5 * doy + 2) \div 153

\* The year y of the era ends with a leap day.
LongYear(y) == Leap(y + 1)
YearLength(y) == IF LongYear(y) THEN 366 ELSE 365

\* The date of a day named in this way.
Civil(era, yoe, doy) ==
    LET mp == MonthOfYear(doy)
    IN  [year |-> yoe + 400 * era + IF mp < 10 THEN 0 ELSE 1,
         month |-> IF mp < 10 THEN mp + 3 ELSE mp - 9,
         day |-> doy - MonthDays(mp) + 1]

Names(z, era, yoe, doy) ==
    /\ era \in Nat /\ yoe \in Nat /\ yoe < 400 /\ doy \in Nat /\ doy < YearLength(yoe)
    /\ z + 719468 = 146097 * era + YearDays(yoe) + doy

-----------------------------------------------------------------------------
(* Years and months *)

LEMMA LongFacts == \A y \in Nat : YearLength(y) \in {365, 366} /\ YearDays(y) \in Nat
BY SMT DEF YearLength, LongYear, Leap, YearDays

LEMMA EraLength == \A y \in Nat : y < 399 => YearDays(y + 1) = YearDays(y) + YearLength(y)
BY SMT DEF YearDays, YearLength, LongYear, Leap

LEMMA LastYear == YearDays(399) + YearLength(399) = 146097
BY SMT DEF YearDays, YearLength, LongYear, Leap

\* The formula of days_to_civil finds the year a day of the era lies in.
LEMMA YearFound ==
    ASSUME NEW doe \in Nat, doe < 146097
    PROVE  /\ YearOfEra(doe) \in Nat /\ YearOfEra(doe) < 400
           /\ YearDays(YearOfEra(doe)) <= doe
           /\ doe < YearDays(YearOfEra(doe)) + YearLength(YearOfEra(doe))
<1> DEFINE y == YearOfEra(doe)
<1>1. y \in Nat /\ y < 400 /\ YearDays(y) <= doe /\ (doe < YearDays(y + 1) \/ y = 399)
  BY SMTT(60) DEF YearDays, YearOfEra
<1> HIDE DEF y
<1>2. doe < YearDays(y) + YearLength(y)
  <2>1. CASE y = 399  BY SMT, <1>1, <2>1, LastYear, LongFacts
  <2>2. CASE y # 399
    <3>1. YearDays(y + 1) = YearDays(y) + YearLength(y)  BY SMT, <1>1, <2>2, EraLength
    <3> QED  BY SMT, <1>1, <2>2, <3>1, LongFacts
  <2> QED  BY <2>1, <2>2
<1> QED  BY <1>1, <1>2 DEF y

LEMMA YearIsUnique ==
    ASSUME NEW y \in Nat, y < 400, NEW doy \in Nat, doy < YearLength(y)
    PROVE  YearOfEra(YearDays(y) + doy) = y
BY SMTT(60) DEF YearOfEra, YearDays, YearLength, LongYear, Leap

\* The months from March on have 31, 30, 31, 30, 31, 31, 30, 31, 30, 31, 31 days.
LEMMA MonthFound ==
    ASSUME NEW doy \in Nat, doy < 366
    PROVE  /\ MonthOfYear(doy) \in 0..11
           /\ MonthDays(MonthOfYear(doy)) <= doy
           /\ doy < MonthDays(MonthOfYear(doy) + 1)
           /\ doy - MonthDays(MonthOfYear(doy)) + 1 \in 1..31
BY SMT DEF MonthOfYear, MonthDays

LEMMA MonthIsUnique ==
    ASSUME NEW m \in 0..11, NEW doy \in Nat, doy < 366, MonthDays(m) <= doy, doy < MonthDays(m + 1)
    PROVE  MonthOfYear(doy) = m
BY SMT DEF MonthOfYear, MonthDays

-----------------------------------------------------------------------------
(* Days and dates *)

\* Every day has a name.
LEMMA Named ==
    ASSUME NEW z \in Nat
    PROVE  \E era, yoe, doy : Names(z, era, yoe, doy)
<1> DEFINE era == (z + 719468) \div 146097
           doe == (z + 719468) % 146097
           yoe == YearOfEra(doe)
<1>1. era \in Nat /\ doe \in Nat /\ doe < 146097 /\ z + 719468 = 146097 * era + doe  BY SMT
<1> HIDE DEF era, doe
<1>2. yoe \in Nat /\ yoe < 400 /\ YearDays(yoe) <= doe /\ doe < YearDays(yoe) + YearLength(yoe)
  BY SMT, <1>1, YearFound
<1> HIDE DEF yoe
<1>3. doe - YearDays(yoe) \in Nat /\ doe - YearDays(yoe) < YearLength(yoe)  BY SMT, <1>1, <1>2, LongFacts
<1>4. Names(z, era, yoe, doe - YearDays(yoe))  BY SMT, <1>1, <1>2, <1>3, LongFacts DEF Names
<1> QED  BY SMT, <1>4

\* days_to_civil finds the name of a day, and so its date.
LEMMA CivilOfName ==
    ASSUME NEW z \in Nat, NEW era, NEW yoe, NEW doy, Names(z, era, yoe, doy)
    PROVE  DaysToCivil(z) = Civil(era, yoe, doy)
<1> DEFINE doe == YearDays(yoe) + doy
<1>1. era \in Nat /\ yoe \in Nat /\ yoe < 400 /\ doy \in Nat /\ doy < 366 /\ doy < YearLength(yoe)
  BY SMT, LongFacts DEF Names
<1>2. doe \in Nat /\ doe < 146097
  <2>1. CASE yoe = 399  BY SMT, <1>1, <2>1, LastYear, LongFacts
  <2>2. CASE yoe # 399
    <3>1. YearDays(yoe + 1) <= 146097 - 365  BY SMT, <1>1, <2>2 DEF YearDays
    <3> QED  BY SMT, <1>1, <2>2, <3>1, EraLength, LongFacts
  <2> QED  BY SMT, <2>1, <2>2
<1>3. YearOfEra(doe) = yoe  BY SMT, <1>1, YearIsUnique
<1>4. z + 719468 = 146097 * era + doe  BY SMT, <1>1, LongFacts DEF Names
<1>5. doe - YearDays(yoe) = doy  BY SMT, <1>1, LongFacts
<1> HIDE DEF doe
<1>6. (z + 719468) \div 146097 = era /\ (z + 719468) % 146097 = doe  BY SMT, <1>1, <1>2, <1>4
<1>7. MonthOfYear(doy) \in 0..11  BY SMT, <1>1, MonthFound
<1>8. doe - (365 * yoe + yoe \div 4 - yoe \div 100) = doy  BY SMT, <1>5 DEF YearDays
<1>9. (doe - doe \div 1460 + doe \div 36524 - doe \div 146096) \div 365 = yoe  BY SMT, <1>3 DEF YearOfEra
<1> DEFINE mp == MonthOfYear(doy)
           m == IF mp < 10 THEN mp + 3 ELSE mp - 9
<1>10. DaysToCivil(z) = [year |-> IF m <= 2 THEN yoe + 400 * era + 1 ELSE yoe + 400 * era, month |-> m,
                         day |-> doy - (153 * mp + 2) \div 5 + 1]
  BY SMT, <1>1, <1>2, <1>6, <1>8, <1>9 DEF DaysToCivil, MonthOfYear
<1>11. m <= 2 <=> ~(mp < 10)  BY SMT, <1>7
<1>12. (IF m <= 2 THEN yoe + 400 * era + 1 ELSE yoe + 400 * era)
          = yoe + 400 * era + IF mp < 10 THEN 0 ELSE 1
  BY SMT, <1>1, <1>7, <1>11
<1> QED  BY SMT, <1>10, <1>12 DEF Civil, MonthDays

-----------------------------------------------------------------------------
(* The calendar *)

LEMMA NameFacts ==
    ASSUME NEW z \in Nat, NEW era, NEW yoe, NEW doy, Names(z, era, yoe, doy)
    PROVE  /\ era \in Nat /\ yoe \in Nat /\ yoe < 400 /\ doy \in Nat /\ doy < 366
           /\ MonthOfYear(doy) \in 0..11
           /\ MonthDays(MonthOfYear(doy)) \in Nat /\ MonthDays(MonthOfYear(doy)) <= doy
           /\ MonthDays(MonthOfYear(doy) + 1) \in Nat /\ doy < MonthDays(MonthOfYear(doy) + 1)
           /\ doy - MonthDays(MonthOfYear(doy)) + 1 \in 1..31
<1>1. era \in Nat /\ yoe \in Nat /\ yoe < 400 /\ doy \in Nat /\ doy < 366
  BY SMT, LongFacts DEF Names
<1>2. \A m \in 0..12 : MonthDays(m) \in Nat  BY SMT DEF MonthDays
<1>3. MonthOfYear(doy) \in 0..12 /\ MonthOfYear(doy) + 1 \in 0..12  BY <1>1, MonthFound
<1> QED  BY <1>1, <1>2, <1>3, MonthFound

\* civil_to_days is the inverse of days_to_civil.
LEMMA DaysComeBack ==
    ASSUME NEW z \in Nat
    PROVE  /\ CivilToDays(DaysToCivil(z)) = z
           /\ DaysToCivil(z).month \in 1..12 /\ DaysToCivil(z).day \in 1..31
           /\ DaysToCivil(z) \in [year : Nat, month : Nat, day : Nat]
<1>1. PICK era, yoe, doy : Names(z, era, yoe, doy)  BY Named
<1> DEFINE mp == MonthOfYear(doy)
           d == Civil(era, yoe, doy)
<1>2. DaysToCivil(z) = d  BY <1>1, CivilOfName
<1>3. /\ era \in Nat /\ yoe \in Nat /\ yoe < 400 /\ doy \in Nat
      /\ mp \in 0..11 /\ MonthDays(mp) \in Nat /\ MonthDays(mp) <= doy /\ doy - MonthDays(mp) + 1 \in 1..31
  BY <1>1, NameFacts
<1> HIDE DEF mp
<1>4. /\ d.year = yoe + 400 * era + IF mp < 10 THEN 0 ELSE 1
      /\ d.month = IF mp < 10 THEN mp + 3 ELSE mp - 9
      /\ d.day = doy - MonthDays(mp) + 1
      /\ d \in [year : Nat, month : Nat, day : Nat]
  BY <1>3 DEF Civil, mp
<1> HIDE DEF d
<1>5. d.month \in 1..12 /\ d.day \in 1..31  BY SMT, <1>3, <1>4
<1>6. (IF d.month <= 2 THEN d.year - 1 ELSE d.year) = yoe + 400 * era  BY SMT, <1>3, <1>4
<1>7. (yoe + 400 * era) \div 400 = era /\ (yoe + 400 * era) % 400 = yoe  BY SMT, <1>3
<1>8. MonthStart(d.month) = MonthDays(mp)  BY SMT, <1>3, <1>4 DEF MonthStart, MonthDays
<1>9. MonthStart(d.month) + d.day - 1 = doy  BY SMT, <1>3, <1>4, <1>8
<1>10. CivilToDays(d) = era * 146097 + yoe * 365 + yoe \div 4 - yoe \div 100 + doy - 719468
  BY SMT, <1>6, <1>7, <1>9 DEF CivilToDays
<1>11. z + 719468 = 146097 * era + (365 * yoe + yoe \div 4 - yoe \div 100) + doy
  BY SMT, <1>1 DEF Names, YearDays
<1>12. CivilToDays(d) = z  BY SMT, <1>3, <1>10, <1>11
<1> QED  BY <1>2, <1>4, <1>5, <1>12

\* The next date of the calendar is the date of the next day.
LEMMA NextDay ==
    ASSUME NEW z \in Nat
    PROVE  NextDate(DaysToCivil(z)) = DaysToCivil(z + 1)
<1>1. PICK era, yoe, doy : Names(z, era, yoe, doy)  BY Named
<1> DEFINE mp == MonthOfYear(doy)
           y == yoe + 400 * era
           d == Civil(era, yoe, doy)
<1>2. DaysToCivil(z) = d  BY <1>1, CivilOfName
<1>3. /\ era \in Nat /\ yoe \in Nat /\ yoe < 400 /\ doy \in Nat /\ doy < 366
      /\ mp \in 0..11 /\ MonthDays(mp) \in Nat /\ MonthDays(mp) <= doy
      /\ MonthDays(mp + 1) \in Nat /\ doy < MonthDays(mp + 1)
      /\ doy < YearLength(yoe) /\ YearLength(yoe) \in {365, 366}
  <2>1. /\ era \in Nat /\ yoe \in Nat /\ yoe < 400 /\ doy \in Nat /\ doy < 366
        /\ mp \in 0..11 /\ MonthDays(mp) \in Nat /\ MonthDays(mp) <= doy
        /\ MonthDays(mp + 1) \in Nat /\ doy < MonthDays(mp + 1)
    BY <1>1, NameFacts
  <2>2. doy < YearLength(yoe)  BY SMT, <1>1 DEF Names
  <2> QED  BY <2>1, <2>2, LongFacts
<1>4. d = [year |-> y + IF mp < 10 THEN 0 ELSE 1, month |-> IF mp < 10 THEN mp + 3 ELSE mp - 9,
           day |-> doy - MonthDays(mp) + 1]
  BY DEF Civil
<1> HIDE DEF mp, d
<1>5. y \in Nat /\ (Leap(y + 1) <=> LongYear(yoe))
  BY SMT, <1>3 DEF LongYear, Leap
<1> HIDE DEF y
<1>6. CASE doy + 1 < YearLength(yoe) /\ doy + 1 < MonthDays(mp + 1)
  <2>1. Names(z + 1, era, yoe, doy + 1)  BY SMT, <1>1, <1>3, <1>6, LongFacts DEF Names
  <2>2. MonthOfYear(doy + 1) = mp  BY SMT, <1>3, <1>6, MonthIsUnique
  <2>3. DaysToCivil(z + 1) = [d EXCEPT !.day = @ + 1]
    <3>1. DaysToCivil(z + 1) = Civil(era, yoe, doy + 1)  BY SMT, <2>1, CivilOfName
    <3> QED  BY SMT, <3>1, <2>2, <1>3, <1>4 DEF Civil, y
  <2>4. d.day < DaysIn(d.year, d.month)
    BY SMT, <1>3, <1>4, <1>5, <1>6 DEF DaysIn, MonthDays, YearLength
  <2> QED  BY <1>2, <2>3, <2>4 DEF NextDate
<1>7. CASE doy + 1 < YearLength(yoe) /\ doy + 1 = MonthDays(mp + 1)
  <2>1. Names(z + 1, era, yoe, doy + 1)  BY SMT, <1>1, <1>3, <1>7, LongFacts DEF Names
  <2>2. mp < 11  BY SMT, <1>3, <1>7 DEF MonthDays
  <2>3. MonthOfYear(doy + 1) = mp + 1
    <3>1. doy + 1 < MonthDays(mp + 1 + 1)  BY SMT, <1>3, <1>7, <2>2 DEF MonthDays
    <3> QED  BY SMT, <1>3, <1>7, <2>2, <3>1, MonthIsUnique
  <2>4. DaysToCivil(z + 1) = [year |-> y + IF mp + 1 < 10 THEN 0 ELSE 1,
                              month |-> IF mp + 1 < 10 THEN mp + 1 + 3 ELSE mp + 1 - 9, day |-> 1]
    <3>1. DaysToCivil(z + 1) = Civil(era, yoe, doy + 1)  BY SMT, <2>1, CivilOfName
    <3>2. doy + 1 - MonthDays(mp + 1) + 1 = 1  BY SMT, <1>3, <1>7
    <3> QED  BY SMT, <1>3, <3>1, <3>2, <2>3 DEF Civil, y
  <2>5. ~(d.day < DaysIn(d.year, d.month))
    BY SMT, <1>3, <1>4, <1>7, <2>2 DEF DaysIn, MonthDays
  <2>6. NextDate(d) = IF d.month < 12 THEN [year |-> d.year, month |-> d.month + 1, day |-> 1]
                      ELSE [year |-> d.year + 1, month |-> 1, day |-> 1]
    BY <2>5 DEF NextDate
  <2>7. CASE mp = 9
    <3>1. d.month = 12 /\ d.year = y  BY SMT, <1>4, <1>5, <2>7
    <3>2. NextDate(d) = [year |-> y + 1, month |-> 1, day |-> 1]  BY SMT, <2>6, <3>1
    <3>3. DaysToCivil(z + 1) = [year |-> y + 1, month |-> 1, day |-> 1]  BY SMT, <2>4, <2>7
    <3> QED  BY <1>2, <3>2, <3>3
  <2>8. CASE mp # 9
    <3>1. d.month < 12 /\ d.month + 1 = (IF mp + 1 < 10 THEN mp + 1 + 3 ELSE mp + 1 - 9)
      BY SMT, <1>3, <1>4, <2>2, <2>8
    <3>2. d.year = y + IF mp + 1 < 10 THEN 0 ELSE 1  BY SMT, <1>3, <1>4, <1>5, <2>8
    <3>3. NextDate(d) = [year |-> d.year, month |-> d.month + 1, day |-> 1]  BY SMT, <2>6, <3>1
    <3> QED  BY <1>2, <2>4, <3>1, <3>2, <3>3
  <2> QED  BY <2>7, <2>8
<1>8. CASE doy + 1 = YearLength(yoe)
  <2>1. mp = 11  BY SMT, <1>3, <1>8 DEF MonthDays
  <2>2. DaysToCivil(z + 1) = [year |-> y + 1, month |-> 3, day |-> 1]
    <3>1. MonthOfYear(0) = 0 /\ MonthDays(0) = 0  BY SMT DEF MonthOfYear, MonthDays
    <3>2. YearDays(0) = 0 /\ YearLength(0) > 0  BY SMT, LongFacts DEF YearDays
    <3>3. CASE yoe = 399
      <4>1. Names(z + 1, era + 1, 0, 0)
        BY SMT, <1>1, <1>3, <1>8, <3>2, <3>3, LastYear, LongFacts DEF Names
      <4>2. DaysToCivil(z + 1) = Civil(era + 1, 0, 0)  BY SMT, <4>1, CivilOfName
      <4> QED  BY SMT, <4>2, <3>1, <3>3, <1>3 DEF Civil, y
    <3>4. CASE yoe # 399
      <4>1. Names(z + 1, era, yoe + 1, 0)
        BY SMT, <1>1, <1>3, <1>8, <3>4, EraLength, LongFacts DEF Names
      <4>2. DaysToCivil(z + 1) = Civil(era, yoe + 1, 0)  BY SMT, <4>1, CivilOfName
      <4> QED  BY SMT, <4>2, <3>1, <3>4, <1>3 DEF Civil, y
    <3> QED  BY <3>3, <3>4
  <2>3. d = [year |-> y + 1, month |-> 2, day |-> DaysIn(y + 1, 2)]
    BY SMT, <1>3, <1>4, <1>5, <1>8, <2>1 DEF DaysIn, MonthDays, YearLength
  <2>4. ~(DaysIn(y + 1, 2) < DaysIn(y + 1, 2))  BY SMT DEF DaysIn
  <2>5. d.month = 2 /\ d.year = y + 1  BY <2>3
  <2>6. NextDate(d) = [year |-> y + 1, month |-> 3, day |-> 1]  BY SMT, <2>3, <2>4, <2>5 DEF NextDate
  <2> QED  BY <1>2, <2>2, <2>6
<1> QED  BY SMT, <1>3, <1>6, <1>7, <1>8

-----------------------------------------------------------------------------
(* The packed word *)

\* The days the format can hold are those of its years.
LEMMA YearsInRange ==
    ASSUME NEW z \in Nat
    PROVE  InRange(z) => DaysToCivil(z).year \in Nat /\ MinYear <= DaysToCivil(z).year /\ DaysToCivil(z).year <= MaxYear
<1> DEFINE d == DaysToCivil(z)
<1>1. CivilToDays(d) = z /\ d.month \in 1..12 /\ d.day \in 1..31 /\ d.year \in Nat
  BY DaysComeBack
<1> HIDE DEF d
<1>2. MonthStart(d.month) \in Nat /\ MonthStart(d.month) <= 337  BY SMT, <1>1 DEF MonthStart
<1>3. /\ d.month <= 2 => MonthStart(d.month) >= 306
      /\ ~(d.month <= 2) => MonthStart(d.month) <= 275
  BY SMT, <1>1 DEF MonthStart
<1> DEFINE y == IF d.month <= 2 THEN d.year - 1 ELSE d.year
<1>4. z = (y \div 400) * 146097 + (y % 400) * 365 + (y % 400) \div 4 - (y % 400) \div 100
             + (MonthStart(d.month) + d.day - 1) - 719468
  BY SMT, <1>1, <1>2 DEF CivilToDays
<1>5. y \in Int /\ y >= d.year - 1 /\ y <= d.year /\ (y < d.year => MonthStart(d.month) >= 306)
      /\ (y = d.year => MonthStart(d.month) <= 275)
  BY SMT, <1>1, <1>3
<1> HIDE DEF y
<1>6. InRange(z) => d.year >= MinYear
  BY SMTT(60), <1>1, <1>2, <1>4, <1>5 DEF InRange, MinDay, MaxDay, MinYear
<1>7. InRange(z) => d.year <= MaxYear
  BY SMTT(60), <1>1, <1>2, <1>4, <1>5 DEF InRange, MinDay, MaxDay, MaxYear
<1> QED  BY <1>1, <1>6, <1>7 DEF d

\* The four windows of the year field are apart and cover the years.
LEMMA YearComesBack ==
    ASSUME NEW y \in Nat, MinYear <= y, y <= MaxYear
    PROVE  YearField(y) \in 0..63 /\ YearOf(YearField(y)) = y
BY SMT DEF MinYear, MaxYear, YearField, YearOf

\* What is packed is what is unpacked, and no field spills into another.
LEMMA WordComesBack ==
    ASSUME NEW dt \in [year : Nat, month : 1..12, day : 1..31, hour : 0..23, minute : 0..59, second : 0..59],
           MinYear <= dt.year, dt.year <= MaxYear
    PROVE  Pack(dt) \in Words /\ Unpack(Pack(dt)) = dt
<1> DEFINE w == [dt EXCEPT !.year = YearField(dt.year), !.month = dt.month - 1]
<1>1. YearField(dt.year) \in 0..63 /\ YearOf(YearField(dt.year)) = dt.year  BY YearComesBack
<1>2. dt.month - 1 \in 0..15 /\ dt.day \in 0..31 /\ dt.hour \in 0..31 /\ dt.minute \in 0..63
      /\ dt.second \in 0..63 /\ dt.month - 1 + 1 = dt.month
  OBVIOUS
<1>3. w \in Words
  <2> DEFINE y == YearField(dt.year)
             m == dt.month - 1
  <2>1. y \in 0..63 /\ m \in 0..15  BY <1>1, <1>2
  <2>2. w = [dt EXCEPT !.year = y, !.month = m]  OBVIOUS
  <2> HIDE DEF y, m, w
  <2>3. w \in [year : 0..63, month : 0..15, day : 1..31, hour : 0..23, minute : 0..59, second : 0..59]
    BY <2>1, <2>2, ZenonT(60)
  <2> QED  BY ONLY <2>3, SMTT(30) DEF Words
<1>4. w.year = YearField(dt.year) /\ w.month = dt.month - 1  OBVIOUS
<1>5. [w EXCEPT !.year = dt.year, !.month = dt.month] = dt  OBVIOUS
<1> HIDE DEF w
<1>6. Unpack(w) = dt  BY <1>1, <1>2, <1>4, <1>5 DEF Unpack
<1>7. Pack(dt) = w  BY DEF Pack, w
<1> QED  BY <1>3, <1>6, <1>7

\* The date in the header and the date and time it stands for, in all cases.
LEMMA StampFacts ==
    ASSUME NEW z \in Nat, NEW s \in Nat, s < 86400
    PROVE  LET w == Pack(FromSystemTime(z, s))
               dt == Unpack(w)
           IN  /\ w \in Words
               /\ InRange(z) => [year |-> dt.year, month |-> dt.month, day |-> dt.day] = DaysToCivil(z)
               /\ ~InRange(z) => dt.year = IF z < MinDay THEN MinYear ELSE MaxYear
               /\ ToSystemTime(dt) = IF z < MinDay THEN <<MinDay, 0>>
                                     ELSE IF z > MaxDay THEN <<MaxDay, 86399>>
                                     ELSE <<z, s>>
<1> DEFINE Zero == [year |-> MinYear, month |-> 1, day |-> 1, hour |-> 0, minute |-> 0, second |-> 0]
           At(x, t) == [year |-> DaysToCivil(x).year, month |-> DaysToCivil(x).month, day |-> DaysToCivil(x).day,
                        hour |-> t \div 3600, minute |-> (t % 3600) \div 60, second |-> t % 60]
<1>1. ASSUME NEW x \in Nat, InRange(x), NEW t \in Nat, t < 86400
      PROVE  /\ Pack(At(x, t)) \in Words /\ Unpack(Pack(At(x, t))) = At(x, t)
             /\ ToSystemTime(At(x, t)) = <<x, t>>
             /\ [year |-> At(x, t).year, month |-> At(x, t).month, day |-> At(x, t).day] = DaysToCivil(x)
  <2> DEFINE d == DaysToCivil(x)
  <2>1. /\ CivilToDays(d) = x
        /\ d.month \in 1..12 /\ d.day \in 1..31
        /\ d \in [year : Nat, month : Nat, day : Nat]
    BY DaysComeBack
  <2>2. d.year \in Nat /\ MinYear <= d.year /\ d.year <= MaxYear  BY <1>1, YearsInRange
  <2> HIDE DEF d
  <2>3. /\ t \div 3600 \in 0..23 /\ (t % 3600) \div 60 \in 0..59 /\ t % 60 \in 0..59
        /\ (t \div 3600) * 3600 + ((t % 3600) \div 60) * 60 + (t % 60) = t
    <3>1. PICK h \in Nat, r \in Nat : h = t \div 3600 /\ r = t % 3600 /\ t = 3600 * h + r /\ r < 3600 /\ h < 24
      BY SMT, <1>1
    <3>2. PICK m \in Nat, u \in Nat : m = r \div 60 /\ u = r % 60 /\ r = 60 * m + u /\ u < 60 /\ m < 60
      BY SMT, <3>1
    <3>3. t % 60 = u  BY SMT, <1>1, <3>1, <3>2
    <3>4. (t % 3600) \div 60 = m  BY SMT, <3>1, <3>2
    <3>5. t \div 3600 = h  BY SMT, <3>1
    <3>6. h \in 0..23 /\ m \in 0..59 /\ u \in 0..59  BY SMT, <3>1, <3>2
    <3>7. h * 3600 + m * 60 + u = t  BY SMT, <3>1, <3>2
    <3>8. (t \div 3600) * 3600 + ((t % 3600) \div 60) * 60 + (t % 60) = t
      BY SMT, <3>3, <3>7, <3>4, <3>5
    <3>9. t \div 3600 \in 0..23 /\ (t % 3600) \div 60 \in 0..59 /\ t % 60 \in 0..59
      BY SMT, <3>3, <3>6, <3>4, <3>5
    <3> QED  BY SMT, <3>8, <3>9
  <2> DEFINE a == [year |-> d.year, month |-> d.month, day |-> d.day,
                   hour |-> t \div 3600, minute |-> (t % 3600) \div 60, second |-> t % 60]
  <2>4. a \in [year : Nat, month : 1..12, day : 1..31, hour : 0..23, minute : 0..59, second : 0..59]
    BY <2>1, <2>2, <2>3
  <2>5. a.year = d.year  OBVIOUS
  <2>6. [year |-> a.year, month |-> a.month, day |-> a.day] = d  BY <2>1
  <2>7. CivilToDays(a) = CivilToDays(d)  BY DEF CivilToDays
  <2>8. ToSystemTime(a) = <<x, t>>  BY <2>1, <2>3, <2>7 DEF ToSystemTime
  <2>9. At(x, t) = a  BY DEF d
  <2> HIDE DEF a, At
  <2>10. Pack(a) \in Words /\ Unpack(Pack(a)) = a  BY <2>2, <2>4, <2>5, WordComesBack
  <2> QED  BY <2>6, <2>8, <2>9, <2>10 DEF d
<1>2. MinDay \in Nat /\ MaxDay \in Nat /\ InRange(MinDay) /\ InRange(MaxDay)  BY SMT DEF InRange, MinDay, MaxDay
<1>3. 0 \in Nat /\ 0 < 86400 /\ 86399 \in Nat /\ 86399 < 86400  BY SMT
<1> DEFINE w == Pack(FromSystemTime(z, s))
           dt == Unpack(w)
           Stamped(x, t) == /\ w \in Words /\ dt = At(x, t) /\ ToSystemTime(dt) = <<x, t>>
                            /\ [year |-> dt.year, month |-> dt.month, day |-> dt.day] = DaysToCivil(x)
<1>4. ASSUME NEW x \in Nat, InRange(x), NEW t \in Nat, t < 86400, FromSystemTime(z, s) = At(x, t)
      PROVE  Stamped(x, t) /\ dt.year = DaysToCivil(x).year
  <2>1. (At(x, t)).year = DaysToCivil(x).year  BY SMT
  <2> HIDE DEF At
  <2> QED  BY <1>1, <1>4, <2>1
<1>5. z < MinDay => Stamped(MinDay, 0) /\ dt.year = MinYear
  <2>1. DaysToCivil(MinDay) = [year |-> MinYear, month |-> 1, day |-> 1]
    BY SMT DEF DaysToCivil, MinDay, MinYear
  <2>2. At(MinDay, 0) = Zero  BY SMT, <2>1
  <2>3. DaysToCivil(MinDay).year = MinYear  BY SMT, <2>1
  <2>4. z < MinDay => FromSystemTime(z, s) = Zero  BY SMT DEF FromSystemTime
  <2> HIDE DEF At, Zero, Stamped, dt
  <2> QED  BY <1>2, <1>3, <1>4, <2>2, <2>3, <2>4
<1>6. z > MaxDay => Stamped(MaxDay, 86399) /\ dt.year = MaxYear
  <2>1. z > MaxDay => FromSystemTime(z, s) = At(MaxDay, 86399)
    BY SMT DEF FromSystemTime, MinDay, MaxDay
  <2>2. DaysToCivil(MaxDay).year = MaxYear
    BY SMT DEF DaysToCivil, MaxDay, MaxYear
  <2> HIDE DEF At, Stamped, dt
  <2> QED  BY SMT, <1>2, <1>3, <1>4, <2>1, <2>2
<1>7. InRange(z) => Stamped(z, s)
  <2>1. InRange(z) => FromSystemTime(z, s) = At(z, s)
    BY SMT DEF InRange, FromSystemTime, MinDay, MaxDay
  <2> HIDE DEF At, Stamped, dt
  <2> QED  BY SMT, <1>4, <2>1
<1>8. /\ z < MinDay \/ z > MaxDay \/ InRange(z)
      /\ InRange(z) => ~(z < MinDay) /\ ~(z > MaxDay)
      /\ z < MinDay => ~(z > MaxDay)
  BY SMT DEF InRange, MinDay, MaxDay
<1> HIDE DEF At, Zero
<1> QED  BY SMT, <1>5, <1>6, <1>7, <1>8

-----------------------------------------------------------------------------
(* The clock *)

\* The clock shows a time, the calendar names its day as days_to_civil does,
\* and the word in the header is the one that is written for this time.
ClockInv ==
    /\ day \in Nat /\ sec \in Seconds
    /\ date = DaysToCivil(day)
    /\ word = Pack(FromSystemTime(day, sec))

THEOREM ClockIsCivil == SpecClock => []ClockInv
<1>1. InitClock => ClockInv
  <2>1. DaysToCivil(0) = [year |-> 1970, month |-> 1, day |-> 1]  BY SMT DEF DaysToCivil
  <2> QED  BY <2>1, ClockAssumption DEF InitClock, Epoch, ClockInv
<1>2. ClockInv /\ [Tick]_clockVars => ClockInv'
  <2> SUFFICES ASSUME ClockInv, Tick  PROVE ClockInv'
    BY DEF ClockInv, clockVars
  <2>1. word' = Pack(FromSystemTime(day', sec'))  BY DEF Tick
  <2>2. CASE sec' \in Seconds /\ UNCHANGED <<day, date>>  BY <2>1, <2>2 DEF ClockInv
  <2>3. CASE day' = day + 1 /\ sec' = 0 /\ date' = NextDate(date)
    <3>1. day \in Nat /\ date = DaysToCivil(day)  BY DEF ClockInv
    <3>2. date' = DaysToCivil(day')  BY <2>3, <3>1, NextDay
    <3>3. day' \in Nat  BY <2>3, <3>1
    <3> QED  BY <2>1, <2>3, <3>2, <3>3, ClockAssumption DEF ClockInv
  <2> QED  BY <2>2, <2>3 DEF Tick
<1> QED  BY <1>1, <1>2, PTL DEF SpecClock

LEMMA StampOfClock ==
    ASSUME ClockInv
    PROVE  StampIsCalendarDate /\ TimeSurvivesArchive
<1>1. day \in Nat /\ sec \in Nat /\ sec < 86400  BY ClockAssumption DEF ClockInv
<1>2. date = DaysToCivil(day) /\ word = Pack(FromSystemTime(day, sec))  BY DEF ClockInv
<1>3. StampIsCalendarDate  BY <1>1, <1>2, StampFacts DEF StampIsCalendarDate
<1>4. TimeSurvivesArchive  BY <1>1, <1>2, StampFacts DEF TimeSurvivesArchive
<1> QED  BY <1>3, <1>4

\* The word in an entry header names the calendar's date of the time of
\* modification (days_to_civil, pack, unpack), at whatever time from the epoch on.
THEOREM StampsAreDates == SpecClock => []StampIsCalendarDate
<1>1. ClockInv => StampIsCalendarDate  BY StampOfClock
<1> QED  BY <1>1, ClockIsCivil, PTL

\* Archiving and extracting keeps the time of modification to the second within
\* the years of the format, and takes it to their nearest end outside.
THEOREM TimesSurvive == SpecClock => []TimeSurvivesArchive
<1>1. ClockInv => TimeSurvivesArchive  BY StampOfClock
<1> QED  BY <1>1, ClockIsCivil, PTL
=============================================================================
