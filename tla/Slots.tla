------------------------------- MODULE Slots -------------------------------
(***************************************************************************)
(* The slot tables of constants.rs, and what block.rs writes and           *)
(* decoder.rs reads for a distance or a length: a slot, which is part of   *)
(* the match symbol, and a footer of TableOne[slot] bits.                  *)
(*                                                                         *)
(* The two sides do not use the same numbers.  The writer masks the low    *)
(* bits of the value, the reader adds the footer to the base of the slot:  *)
(* they agree only because every base is a multiple of its slot's width.   *)
(***************************************************************************)
EXTENDS Integers

MinMatch == 3
PositionSlots == 0..31
LengthSlots == 0..15

TableOne == [slot \in PositionSlots |->
    <<0, 0, 0, 0, 1, 1, 2, 2, 3, 3, 4, 4, 5, 5, 6, 6, 7, 7, 8, 8, 9, 9, 10, 10,
      11, 11, 12, 12, 13, 13, 14, 14>>[slot + 1]]

TableTwo == [slot \in PositionSlots |->
    <<0, 1, 2, 3, 4, 6, 8, 12, 16, 24, 32, 48, 64, 96, 128, 192, 256, 384, 512,
      768, 1024, 1536, 2048, 3072, 4096, 6144, 8192, 12288, 16384, 24576, 32768,
      49152>>[slot + 1]]

TableThree == [bits \in 0..15 |->
    <<0, 1, 3, 7, 15, 31, 63, 127, 255, 511, 1023, 2047, 4095, 8191, 16383,
      32767>>[bits + 1]]

\* 1 << TABLE_ONE[slot], the number of values a slot stands for.
Width(slot) == TableThree[TableOne[slot]] + 1

\* build_slot_lookup: the first four values are their own slots, each later
\* slot fills its range as far as the table goes.
Covers(slot, value) == TableTwo[slot] <= value /\ value < TableTwo[slot] + Width(slot)
Filled(value) == IF value < 4 THEN value ELSE CHOOSE slot \in 4..31 : Covers(slot, value)
SlotLookup == [value \in 0..511 |-> Filled(value)]

\* Faulty: the slots of the upper table are not biased.
PositionSlotWithoutBias(distance) ==
    IF distance < 512 THEN SlotLookup[distance] ELSE SlotLookup[distance \div 256]

PositionSlot(distance) ==
    IF distance < 512 THEN SlotLookup[distance] ELSE SlotLookup[distance \div 256] + 16

LengthSlot(length) == SlotLookup[length - MinMatch]

\* The low bits of a value, as the writer masks them.
Footer(slot, value) == value % (TableThree[TableOne[slot]] + 1)

\* The reader's value of a slot and its footer.
Value(slot, footer) == TableTwo[slot] + footer

\* In a block of type 3 the footer of a wide slot comes in two parts: its
\* upper bits, and the low three through the aligned tree.
AlignedValue(slot, top, aligned) == TableTwo[slot] + 8 * top + aligned

\* 256 + (length_slot << 5) + position_slot, and back.
MatchSymbol(literals, length, distance) ==
    literals + 32 * LengthSlot(length) + PositionSlot(distance)
SymbolPosition(literals, symbol) == (symbol - literals) % 32
SymbolLength(literals, symbol) == ((symbol - literals) \div 32) % 16
=============================================================================
