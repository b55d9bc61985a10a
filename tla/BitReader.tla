----------------------------- MODULE BitReader -----------------------------
(***************************************************************************)
(* bitio/reader.rs over a file that no longer changes: words are loaded    *)
(* into a register and consumed from its low end.  A lookahead for a       *)
(* Huffman table may be padded with zeros at the end of the file, but only *)
(* real bits may be consumed.  The caller may go on after an error.        *)
(***************************************************************************)
EXTENDS BitStream

CONSTANT RootBits   \* index width of the Huffman table

ASSUME ReaderAssumption == RootBits \in 1..WordBits

VARIABLES
    control, bitCount, eof,   \* the fields of the same names
    pos,       \* bytes taken from the inner reader
    consumed,  \* history: every bit handed to the caller
    peeked,    \* history: the latest padded lookahead, and where it began
    outcome,   \* how the latest operation ended
    asked,     \* history: how many bits the latest operation looked for
    skipped    \* history: an I/O error swallowed one byte of a word

readerVars == <<control, bitCount, eof, pos, consumed, peeked, outcome, asked, skipped>>

InitReader ==
    /\ control = EmptyRegister /\ bitCount = 0 /\ eof = FALSE /\ pos = 0
    /\ consumed = << >> /\ peeked = [at |-> 0, bits |-> << >>]
    /\ outcome = "none" /\ asked = 0 /\ skipped = FALSE

Unread == Len(disk) - pos

\* control |= word << bit_count
LoadWord ==
    [i \in 0..(RegisterBits - 1) |->
        LET k == i - bitCount
        IN  IF k \in 0..(ByteBits - 1) THEN disk[pos + 2][k]
            ELSE IF k \in ByteBits..(WordBits - 1) THEN disk[pos + 1][k - ByteBits]
            ELSE control[i]]

\* The fields of the reader after a refill that leaves the caller with `out`.
Buffered == [control |-> control, bitCount |-> bitCount, eof |-> eof, pos |-> pos,
             skipped |-> skipped, out |-> "ok"]

\* Faulty: a lone last byte is taken for a whole word of zeros.
RefillsWithHalfWord ==
    IF Unread >= 2
    THEN {[Buffered EXCEPT !.control = LoadWord, !.bitCount = @ + WordBits, !.pos = @ + 2]}
    ELSE {[Buffered EXCEPT !.eof = TRUE, !.pos = Len(disk),
                           !.bitCount = IF Unread = 1 THEN @ + WordBits ELSE @]}

\* refill, when eof is not set: a word, the end of the file (an error when
\* one byte is left over), or an I/O error, which loses the byte of a word
\* that had already been read.
Refills ==
    {[Buffered EXCEPT !.out = "io", !.pos = pos + bytes, !.skipped = skipped \/ bytes = 1] :
        bytes \in 0..(IF Unread >= 1 THEN 1 ELSE 0)}
    \cup
    IF Unread >= 2
    THEN {[Buffered EXCEPT !.control = LoadWord, !.bitCount = @ + WordBits, !.pos = @ + 2]}
    ELSE {[Buffered EXCEPT !.eof = TRUE, !.pos = Len(disk),
                           !.out = IF Unread = 1 THEN "truncated" ELSE "ok"]}

\* Faulty: the register is refilled only when it is empty.
EnsuredWhenEmpty(n) == IF bitCount > 0 \/ eof THEN {Buffered} ELSE Refills

\* ensure_bits(n): n is at most a word, so one refill is enough.
Ensured(n) == IF bitCount >= n \/ eof THEN {Buffered} ELSE Refills

\* The caller gets n bits (none on an error) and the answer out.
Settle(r, n, out) ==
    /\ control' = ShiftDown(r.control, n)
    /\ bitCount' = r.bitCount - n
    /\ eof' = r.eof /\ pos' = r.pos /\ skipped' = r.skipped
    /\ consumed' = consumed \o LowBits(r.control, n)
    /\ outcome' = out

\* consume_bits(n), once the register was filled for n bits.
Consume(r, n) ==
    IF r.bitCount < n THEN Settle(r, 0, "truncated") ELSE Settle(r, n, "ok")

\* read_bits(n); a width of 0 does nothing and is left out.
ReadBits(n) ==
    /\ \E r \in Ensured(n) :
          IF r.out = "ok" THEN Consume(r, n) ELSE Settle(r, 0, r.out)
    /\ asked' = n
    /\ peeked' = peeked

\* Faulty: the lookahead must consist of real bits.
ReadCodeUnpadded(n) ==
    /\ \E r \in Ensured(RootBits) :
          IF r.out = "ok" /\ r.bitCount >= RootBits THEN Consume(r, n)
          ELSE Settle(r, 0, IF r.out = "ok" THEN "truncated" ELSE r.out)
    /\ asked' = n
    /\ peeked' = peeked

\* decode_symbol for a code of n bits that fits in the root table: look at
\* RootBits bits, then consume n.  (A longer code goes on with ReadBits(1).)
ReadCode(n) ==
    \E r \in Ensured(RootBits) :
        IF r.out # "ok" THEN Settle(r, 0, r.out) /\ asked' = RootBits /\ peeked' = peeked
        ELSE IF r.bitCount = 0 THEN Settle(r, 0, "truncated") /\ asked' = 1 /\ peeked' = peeked
        ELSE /\ Consume(r, n)
             /\ asked' = n
             /\ peeked' = [at |-> Len(consumed), bits |-> LowBits(r.control, RootBits)]

NextReader ==
    /\ \/ \E n \in 1..WordBits : ReadBits(n)
       \/ \E n \in 1..RootBits : ReadCode(n)
    /\ UNCHANGED disk

-----------------------------------------------------------------------------
(* Properties *)

\* "EOF cannot manufacture data" (reader.rs:4): what has been consumed,
\* followed by what is buffered, is the file's bits as far as it was read,
\* after any number of errors that did not lose a byte.
OnlyRealBits ==
    ~skipped =>
        consumed \o LowBits(control, bitCount) = SubSeq(StreamBits(disk), 1, (pos \div 2) * WordBits)

\* The answer "truncated" is given only when fewer bits are left than were
\* looked for: the last code of a file of whole words is decoded although
\* its lookahead is padded.  (Behind a lone last byte the padded lookahead
\* fails once, because refill reports that byte.)
TruncatedOnlyAtEnd ==
    outcome = "truncated" /\ ~skipped => Len(consumed) + asked > Len(StreamBits(disk))

\* A table index shows the bits that come next, and zeros only where the
\* file has ended (reader.rs:87-89).
LookaheadIsTrue ==
    ~skipped =>
        \A i \in DOMAIN peeked.bits :
            peeked.bits[i] = IF peeked.at + i <= Len(StreamBits(disk))
                             THEN StreamBits(disk)[peeked.at + i] ELSE 0
=============================================================================
