----------------------------- MODULE BitStream -----------------------------
(***************************************************************************)
(* What the bit writer and the bit reader share: the 32-bit register, and  *)
(* the order of bits in a file.  Bits fill a 16-bit word from its least    *)
(* significant end, and words are stored high byte first.  A byte is a     *)
(* function from bit positions to bits.                                    *)
(***************************************************************************)
EXTENDS Integers, Sequences

CONSTANT ByteBits  \* 8 in the code

ASSUME ByteBitsAssumption == ByteBits \in Nat \ {0}

VARIABLE disk  \* the bytes of the file

Bit == {0, 1}
WordBits == 2 * ByteBits
RegisterBits == 2 * WordBits
Byte == [0..(ByteBits - 1) -> Bit]
Register == [0..(RegisterBits - 1) -> Bit]
EmptyRegister == [i \in 0..(RegisterBits - 1) |-> 0]

\* reg >> n
ShiftDown(reg, n) ==
    [i \in 0..(RegisterBits - 1) |-> IF i + n < RegisterBits THEN reg[i + n] ELSE 0]

\* The low n bits of a register, first bit first.
LowBits(reg, n) == [i \in 1..n |-> reg[i - 1]]

\* The bits of the whole words in the file d, in stream order.
StreamBits(d) ==
    [k \in 1..((Len(d) \div 2) * WordBits) |->
        LET word == (k - 1) \div WordBits
            bit  == (k - 1) % WordBits
        IN  IF bit < ByteBits THEN d[2 * word + 2][bit] ELSE d[2 * word + 1][bit - ByteBits]]
=============================================================================
