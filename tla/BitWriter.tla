----------------------------- MODULE BitWriter -----------------------------
(***************************************************************************)
(* bitio/writer.rs: bits gather in a register of two words, and every full *)
(* word goes to the file through the inner writer, which may fail between  *)
(* two bytes.  Callers give the writer up after an error.                  *)
(***************************************************************************)
EXTENDS BitStream

CONSTANTS MaxWidth,  \* the widest field a caller writes
          MaxBits    \* bound: bits written in all

ASSUME WriterAssumption == MaxWidth \in 1..RegisterBits /\ MaxBits \in Nat

VARIABLES
    buffer,    \* the u32 register
    pending,   \* bit_count
    written,   \* history: every bit handed to write_bits
    wstate     \* "open", "finished", or "failed" after an I/O error

writerVars == <<buffer, pending, disk, written, wstate>>

InitWriter ==
    /\ buffer = EmptyRegister /\ pending = 0
    /\ disk = << >> /\ written = << >> /\ wstate = "open"

\* reg | value << count: what lands beyond the register is lost.
MergeAt(reg, count, value) ==
    [i \in 0..(RegisterBits - 1) |->
        IF i - count \in DOMAIN value /\ value[i - count] = 1 THEN 1 ELSE reg[i]]

\* Faulty: words are stored low byte first.
LittleEndianByte(reg, i) ==
    LET low == ((i - 1) \div 2) * WordBits + (IF i % 2 = 1 THEN 0 ELSE ByteBits)
    IN  [b \in 0..(ByteBits - 1) |-> reg[low + b]]

\* The i-th byte that leaves when the register is drained word by word.
DrainByte(reg, i) ==
    LET low == ((i - 1) \div 2) * WordBits + (IF i % 2 = 1 THEN ByteBits ELSE 0)
    IN  [b \in 0..(ByteBits - 1) |-> reg[low + b]]

\* Faulty: the register keeps the word it has written.
DrainWithoutShift(reg, count, bytes) ==
    /\ disk' = disk \o [i \in 1..bytes |-> DrainByte(reg, i)]
    /\ buffer' = reg
    /\ pending' = count - (bytes \div 2) * WordBits

\* The loop that writes full words, after the inner writer took `bytes`.
Drain(reg, count, bytes) ==
    /\ disk' = disk \o [i \in 1..bytes |-> DrainByte(reg, i)]
    /\ buffer' = ShiftDown(reg, (bytes \div 2) * WordBits)
    /\ pending' = count - (bytes \div 2) * WordBits

\* write_bits(value, n) but for its last line: all full words go out, or an
\* error stops the loop.
Put(value, n) ==
    LET reg  == MergeAt(buffer, pending, value)
        full == 2 * ((pending + n) \div WordBits)
    IN  \/ Drain(reg, pending + n, full) /\ wstate' = "open"
        \/ \E bytes \in 0..(full - 1) : Drain(reg, pending + n, bytes) /\ wstate' = "failed"

WriteBits ==
    /\ wstate = "open"
    /\ \E n \in 1..MaxWidth :
          /\ Len(written) + n <= MaxBits
          /\ \E value \in [0..(n - 1) -> Bit] :
                /\ Put(value, n)
                /\ written' = written \o [i \in 1..n |-> value[i - 1]]

\* Faulty: a stream that ends on a word gets a word of padding.
FinishAlwaysPads ==
    /\ wstate = "open"
    /\ Drain(buffer, WordBits, 2) /\ wstate' = "finished"
    /\ written' = written

\* flush_to_word inside finish: zeros up to the next word, none when aligned.
Finish ==
    /\ wstate = "open"
    /\ \/ /\ pending = 0
          /\ wstate' = "finished"
          /\ UNCHANGED <<buffer, pending, disk>>
       \/ /\ pending > 0
          /\ \/ Drain(buffer, WordBits, 2) /\ wstate' = "finished"
             \/ \E bytes \in 0..1 : Drain(buffer, WordBits, bytes) /\ wstate' = "failed"
    /\ written' = written

NextWriter == WriteBits \/ Finish

-----------------------------------------------------------------------------
(* Properties *)

\* No bit is lost, invented or moved (writer.rs:43-62): the words on disk
\* followed by the pending bits are what was written, and the register is
\* clear above them, so that the next value can be or-ed in.
NoBitLost ==
    wstate = "open" =>
        /\ StreamBits(disk) \o LowBits(buffer, pending) = written
        /\ \A i \in pending..(RegisterBits - 1) : buffer[i] = 0

\* What was written, continued with zeros.
ZeroExtended(i) == IF i <= Len(written) THEN written[i] ELSE 0

\* A finished stream holds everything that was written and less than a word
\* of padding; one an I/O error cut off holds a prefix of it.
OutputIsWhatWasWritten ==
    wstate # "open" =>
        /\ \A i \in DOMAIN StreamBits(disk) : StreamBits(disk)[i] = ZeroExtended(i)
        /\ wstate = "finished" =>
              /\ Len(disk) % 2 = 0
              /\ Len(StreamBits(disk)) - Len(written) \in 0..(WordBits - 1)
=============================================================================
