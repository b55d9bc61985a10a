---------------------------- MODULE BlocksProofs ----------------------------
(***************************************************************************)
(* Proofs about Slots, Pretree and Blocks.                                 *)
(*                                                                         *)
(*   - Slots: every distance and every length comes back from its slot and *)
(*     its footer.                                                         *)
(*   - Pretree: for all sizes of the sections and all sequences of code    *)
(*     lengths the reader's array is the writer's after each block.  The   *)
(*     operations planned, or still in the stream, stand end to end for    *)
(*     the entries between the reader's index and the writer's, and each   *)
(*     is right when its first entry still has the value of the block      *)
(*     before (Chained).  The reader's array is the new one below its      *)
(*     index and the old one above (HalfDone).                             *)
(*   - Blocks: for all token lists the tokens survive.  The lengths of a   *)
(*     block make a complete code, so a code of the body has one symbol,   *)
(*     and the codes left in the body are those of the tokens the reader   *)
(*     has not made (Reading).                                             *)
(***************************************************************************)
EXTENDS Blocks, HuffmanCodesProofs

-----------------------------------------------------------------------------
(* The slots *)

LEMMA TypeOfTables ==
    ASSUME NEW slot \in PositionSlots
    PROVE  TableTwo[slot] \in Nat /\ Width(slot) \in Nat \ {0}
  BY DEF TableOne, TableTwo, TableThree, PositionSlots, Width

\* No value from 4 to 511 is left out by the slots of the table.
LEMMA TableHasNoGap ==
    ASSUME NEW value \in Nat, 4 <= value, value < 512
    PROVE  \E slot \in 4..31 : Covers(slot, value)
<1>1. \/ Covers(4, value) \/ Covers(5, value) \/ Covers(6, value) \/ Covers(7, value)
      \/ Covers(8, value) \/ Covers(9, value) \/ Covers(10, value) \/ Covers(11, value)
      \/ Covers(12, value) \/ Covers(13, value) \/ Covers(14, value) \/ Covers(15, value)
      \/ Covers(16, value) \/ Covers(17, value)
  BY DEF Covers, TableOne, TableTwo, TableThree, PositionSlots, Width
<1> QED  BY <1>1

\* The filled table gives every value the slot that covers it.
LEMMA LookupCovers ==
    ASSUME NEW value \in Nat, value < 512
    PROVE  SlotLookup[value] \in PositionSlots /\ Covers(SlotLookup[value], value)
<1>1. SlotLookup[value] = Filled(value)  BY DEF SlotLookup
<1>2. CASE value < 4
  <2>1. Filled(value) = value  BY <1>2 DEF Filled
  <2>2. value = 0 \/ value = 1 \/ value = 2 \/ value = 3  BY <1>2
  <2>3. Covers(0, 0) /\ Covers(1, 1) /\ Covers(2, 2) /\ Covers(3, 3)
    BY DEF Covers, TableOne, TableTwo, TableThree, PositionSlots, Width
  <2> QED  BY <1>1, <2>1, <2>2, <2>3 DEF PositionSlots
<1>3. CASE ~(value < 4)
  <2>1. 4 <= value  BY <1>3
  <2>2. \E slot \in 4..31 : Covers(slot, value)  BY <2>1, TableHasNoGap
  <2>3. Filled(value) = CHOOSE slot \in 4..31 : Covers(slot, value)  BY <1>3 DEF Filled
  <2>4. Filled(value) \in 4..31 /\ Covers(Filled(value), value)  BY <2>2, <2>3
  <2> QED  BY <1>1, <2>4 DEF PositionSlots
<1> QED  BY <1>2, <1>3

\* Sixteen slots further on, bases and widths are 256 times as large.
LEMMA BiasScales ==
    ASSUME NEW slot \in 2..15
    PROVE  /\ TableTwo[slot + 16] = 256 * TableTwo[slot]
           /\ Width(slot + 16) = 256 * Width(slot)
  BY DEF TableOne, TableTwo, TableThree, PositionSlots, Width

\* Only the slots from 2 to 15 cover values from 2 to 255.
LEMMA LowValuesLowSlots ==
    ASSUME NEW slot \in PositionSlots, NEW value \in Nat, 2 <= value, value < 256, Covers(slot, value)
    PROVE  slot \in 2..15
  BY DEF Covers, TableOne, TableTwo, TableThree, PositionSlots, Width

\* A slot that covers the upper byte of a distance, biased, covers it.
LEMMA BiasedSlotCovers ==
    ASSUME NEW slot \in PositionSlots, NEW high \in Nat, 2 <= high, high < 256, Covers(slot, high),
           NEW distance \in Nat, 256 * high <= distance, distance < 256 * high + 256
    PROVE  slot + 16 \in PositionSlots /\ Covers(slot + 16, distance)
<1>1. slot \in 2..15  BY LowValuesLowSlots
<1>2. /\ TableTwo[slot + 16] = 256 * TableTwo[slot]
      /\ Width(slot + 16) = 256 * Width(slot)
  BY <1>1, BiasScales
<1>3. TableTwo[slot] \in Nat /\ Width(slot) \in Nat  BY TypeOfTables
<1> QED  BY <1>1, <1>2, <1>3 DEF Covers, PositionSlots

\* position_slot gives every distance, the biased ones included, the slot
\* that covers it.
LEMMA PositionSlotCovers ==
    ASSUME NEW distance \in Nat, distance < 65536
    PROVE  PositionSlot(distance) \in PositionSlots /\ Covers(PositionSlot(distance), distance)
<1>1. CASE distance < 512
  <2>1. PositionSlot(distance) = SlotLookup[distance]  BY <1>1 DEF PositionSlot
  <2> QED  BY <1>1, <2>1, LookupCovers
<1>2. CASE ~(distance < 512)
  <2> DEFINE high == distance \div 256
  <2>1. high \in Nat /\ 2 <= high /\ high < 256  BY <1>2
  <2>2. 256 * high <= distance /\ distance < 256 * high + 256  OBVIOUS
  <2>3. SlotLookup[high] \in PositionSlots /\ Covers(SlotLookup[high], high)
    BY <2>1, LookupCovers
  <2>4. PositionSlot(distance) = SlotLookup[high] + 16  BY <1>2 DEF PositionSlot
  <2> HIDE DEF high
  <2> QED  BY <2>1, <2>2, <2>3, <2>4, BiasedSlotCovers
<1> QED  BY <1>1, <1>2

\* Every base is a multiple of its slot's width.
LEMMA BasesAreAligned ==
    ASSUME NEW slot \in PositionSlots
    PROVE  \/ TableTwo[slot] = 0 * Width(slot) \/ TableTwo[slot] = Width(slot)
           \/ TableTwo[slot] = 2 * Width(slot) \/ TableTwo[slot] = 3 * Width(slot)
  BY DEF TableOne, TableTwo, TableThree, PositionSlots, Width

LEMMA WidthIsPower ==
    ASSUME NEW slot \in PositionSlots
    PROVE  Width(slot) \in {1, 2, 4, 8, 16, 32, 64, 128, 256, 512, 1024, 2048, 4096, 8192, 16384}
  BY DEF TableOne, TableThree, PositionSlots, Width

LEMMA MaskTakesBaseAway ==
    ASSUME NEW width \in {1, 2, 4, 8, 16, 32, 64, 128, 256, 512, 1024, 2048, 4096, 8192, 16384},
           NEW base \in Nat, NEW value \in Nat,
           base = 0 * width \/ base = width \/ base = 2 * width \/ base = 3 * width,
           base <= value, value < base + width
    PROVE  value % width = value - base
<1>1. CASE width \in {1, 2, 4, 8, 16}  BY <1>1
<1>2. CASE width \in {32, 64, 128, 256, 512}  BY <1>2
<1>3. CASE width \in {1024, 2048, 4096, 8192, 16384}  BY <1>3
<1> QED  BY <1>1, <1>2, <1>3

\* Masking the low bits of a value takes the base of its slot away.
LEMMA FooterIsOffset ==
    ASSUME NEW slot \in PositionSlots, NEW value \in Nat, Covers(slot, value)
    PROVE  Footer(slot, value) = value - TableTwo[slot]
<1>1. Footer(slot, value) = value % Width(slot)  BY DEF Footer, Width
<1>2. TableTwo[slot] <= value /\ value < TableTwo[slot] + Width(slot)  BY DEF Covers
<1>3. TableTwo[slot] \in Nat  BY TypeOfTables
<1>4. Width(slot) \in {1, 2, 4, 8, 16, 32, 64, 128, 256, 512, 1024, 2048, 4096, 8192, 16384}
  BY WidthIsPower
<1>5. \/ TableTwo[slot] = 0 * Width(slot) \/ TableTwo[slot] = Width(slot)
      \/ TableTwo[slot] = 2 * Width(slot) \/ TableTwo[slot] = 3 * Width(slot)
  BY BasesAreAligned
<1>6. value % Width(slot) = value - TableTwo[slot]
  <2> DEFINE width == Width(slot)
             base == TableTwo[slot]
  <2>1. /\ base \in Nat /\ base <= value /\ value < base + width
        /\ width \in {1, 2, 4, 8, 16, 32, 64, 128, 256, 512, 1024, 2048, 4096, 8192, 16384}
        /\ base = 0 * width \/ base = width \/ base = 2 * width \/ base = 3 * width
    BY <1>2, <1>3, <1>4, <1>5
  <2> HIDE DEF width, base
  <2>2. value % width = value - base  BY <2>1, MaskTakesBaseAway
  <2> QED  BY <2>2 DEF width, base
<1> QED  BY <1>1, <1>6

\* Every distance the writer can emit comes back from its slot and its
\* footer, and the footer fits the bits the slot has for it.
THEOREM DistanceSurvives ==
    ASSUME NEW distance \in Nat, distance < 65536
    PROVE  LET slot == PositionSlot(distance) IN
           /\ slot \in PositionSlots
           /\ Footer(slot, distance) \in 0..(Width(slot) - 1)
           /\ Value(slot, Footer(slot, distance)) = distance
<1> DEFINE slot == PositionSlot(distance)
<1>1. slot \in PositionSlots /\ Covers(slot, distance)  BY PositionSlotCovers
<1> HIDE DEF slot
<1>2. Footer(slot, distance) = distance - TableTwo[slot]  BY <1>1, FooterIsOffset
<1>3. TableTwo[slot] \in Nat /\ Width(slot) \in Nat  BY <1>1, TypeOfTables
<1>4. TableTwo[slot] <= distance /\ distance < TableTwo[slot] + Width(slot)  BY <1>1 DEF Covers
<1>5. Footer(slot, distance) \in 0..(Width(slot) - 1)  BY <1>2, <1>3, <1>4
<1>6. Value(slot, Footer(slot, distance)) = distance  BY <1>2, <1>3 DEF Value
<1> QED  BY <1>1, <1>5, <1>6 DEF slot

\* Only the first sixteen slots cover values below 256: a length has one of
\* them, which is what the four bits of the match symbol have room for.
LEMMA LengthsHaveLowSlots ==
    ASSUME NEW slot \in PositionSlots, NEW value \in Nat, value < 256, Covers(slot, value)
    PROVE  slot \in LengthSlots
  BY DEF Covers, TableOne, TableTwo, TableThree, PositionSlots, LengthSlots, Width

\* The same for every match length.
THEOREM LengthSurvives ==
    ASSUME NEW length \in Nat, MinMatch <= length, length <= 258
    PROVE  LET slot == LengthSlot(length)
               value == length - MinMatch IN
           /\ slot \in LengthSlots
           /\ Footer(slot, value) \in 0..(Width(slot) - 1)
           /\ Value(slot, Footer(slot, value)) + MinMatch = length
<1> DEFINE slot == LengthSlot(length)
           value == length - MinMatch
<1>1. value \in Nat /\ value < 256  BY DEF MinMatch
<1>2. slot = SlotLookup[value]  BY DEF LengthSlot
<1> HIDE DEF slot, value
<1>3. slot \in PositionSlots /\ Covers(slot, value)  BY <1>1, <1>2, LookupCovers
<1>4. Footer(slot, value) = value - TableTwo[slot]  BY <1>1, <1>3, FooterIsOffset
<1>5. TableTwo[slot] \in Nat /\ Width(slot) \in Nat  BY <1>3, TypeOfTables
<1>6. TableTwo[slot] <= value /\ value < TableTwo[slot] + Width(slot)  BY <1>3 DEF Covers
<1>7. Footer(slot, value) \in 0..(Width(slot) - 1)  BY <1>1, <1>4, <1>5, <1>6
<1>8. Value(slot, Footer(slot, value)) = value  BY <1>1, <1>4, <1>5 DEF Value
<1>9. slot \in LengthSlots  BY <1>1, <1>3, LengthsHaveLowSlots
<1>10. value + MinMatch = length  BY DEF value, MinMatch
<1> QED  BY <1>7, <1>8, <1>9, <1>10 DEF slot, value

\* The aligned path reads the same range in two parts: it stays inside the
\* slot, so no distance of a type 3 block reaches beyond the window.
THEOREM AlignedStaysInSlot ==
    ASSUME NEW slot \in PositionSlots, TableOne[slot] >= 3,
           NEW top \in Nat, 8 * top < Width(slot), NEW aligned \in 0..7
    PROVE  /\ Covers(slot, AlignedValue(slot, top, aligned))
           /\ AlignedValue(slot, top, aligned) < 65536
<1>1. Width(slot) \in {8, 16, 32, 64, 128, 256, 512, 1024, 2048, 4096, 8192, 16384}
  BY DEF TableOne, TableThree, PositionSlots, Width
<1>2. TableTwo[slot] \in Nat /\ TableTwo[slot] + Width(slot) <= 65536
  BY DEF TableOne, TableTwo, TableThree, PositionSlots, Width
<1>3. 8 * top + aligned < Width(slot)  BY <1>1
<1> QED  BY <1>1, <1>2, <1>3 DEF Covers, AlignedValue

-----------------------------------------------------------------------------
(* The pretree *)

OpType == [sym : PretreeSymbols, extra : Nat, delta : 0..16, at : Entries]

TypeOK ==
    /\ prev_lengths \in CodeLengths /\ new_lengths \in CodeLengths /\ literal_len \in CodeLengths
    /\ section \in {"literal", "match"} /\ phase \in {"idle", "analyse", "decode", "body"}
    /\ index \in First(section)..End(section) /\ filled \in First(section)..End(section)
    /\ ops \in Seq(OpType)
    /\ freqs \in [PretreeSymbols -> Nat]

\* The entry behind the last one an operation stands for.
Behind(op) == op.at + RunOf(op)

\* An operation stands for entries of its section, and gives each its new
\* length if the first of them still has its old one.
Right(op) ==
    /\ First(section) <= op.at /\ Behind(op) <= End(section)
    /\ RunOf(op) \in Nat \ {0}
    /\ \A k \in Entries : op.at <= k /\ k < Behind(op) =>
          new_lengths[k] = LengthOf(op, prev_lengths[op.at])

\* The operations stand end to end for the entries between two indices.
Chained(from, to) ==
    /\ ops = << >> => from = to
    /\ ops # << >> => ops[1].at = from /\ Behind(ops[Len(ops)]) = to
    /\ \A k \in 1..Len(ops) : Right(ops[k])
    /\ \A k \in 1..(Len(ops) - 1) : ops[k + 1].at = Behind(ops[k])

\* Below the index the array holds the new lengths, from there on the old.
HalfDone(i) ==
    \A k \in Entries : literal_len[k] = IF k < i THEN new_lengths[k] ELSE prev_lengths[k]

IInv ==
    /\ TypeOK
    /\ phase = "analyse" => filled = First(section) /\ Chained(filled, index) /\ HalfDone(filled)
    /\ phase = "decode" => Chained(filled, End(section)) /\ HalfDone(filled)
    /\ phase \in {"body", "idle"} => literal_len = new_lengths /\ ops = << >>

-----------------------------------------------------------------------------
(* The operations *)

\* A difference modulo 17 gives the new length back.
LEMMA DeltaInverse ==
    ASSUME NEW p \in 0..16, NEW c \in 0..16
    PROVE  DeltaSymbol(p, c) \in 0..16 /\ ApplyDelta(p, DeltaSymbol(p, c)) = c
  BY DEF DeltaSymbol, ApplyDelta

\* The extra bits have room for every run of their symbol.
LEMMA ExtraFits ==
    ASSUME NEW sec \in {"literal", "match"}, NEW run \in Nat, run >= RunThreshold(sec)
    PROVE  /\ run <= Sym17Max(sec) =>
                 Sym17Base(sec) + ((run - Sym17Base(sec)) % Sym17Values(sec)) = run
           /\ run > Sym17Max(sec) /\ run <= Sym18Max(sec) =>
                 Sym18Base(sec) + ((run - Sym18Base(sec)) % Sym18Values(sec)) = run
           /\ run <= Sym19Max(sec) =>
                 Sym19Base(sec) + ((run - Sym19Base(sec)) % Sym19Values(sec)) = run
           /\ Sym19Max(sec) >= RunThreshold(sec) /\ Sym18Max(sec) \in Nat
  BY DEF RunThreshold, Sym17Base, Sym18Base, Sym19Base, Sym17Values, Sym18Values, Sym19Values,
         Sym17Max, Sym18Max, Sym19Max

\* Wherever a section ends, its entries are entries of the array.
LEMMA Bounds ==
    ASSUME NEW sec \in {"literal", "match"}
    PROVE  First(sec) \in Nat /\ End(sec) \in Nat /\ First(sec) < End(sec) /\ End(sec) <= MainSymbols
           /\ MainSymbols \in Nat
  BY SizesAssumption DEF First, End

\* What a round of the analysis plans: one operation, right, that begins at
\* the old index and ends at the new one.
Planned(op) ==
    /\ op \in OpType /\ op.at = index /\ Right(op)
    /\ ops' = Append(ops, op) /\ index' = Behind(op)

LEMMA SinglePlanned ==
    ASSUME IInv, phase = "analyse", index < End(section), Single
    PROVE  \E op : Planned(op)
<1> DEFINE op == [sym |-> Delta, extra |-> 0, delta |-> 0, at |-> index]
<1>1. index \in Entries /\ index \in Nat
  BY Bounds DEF IInv, TypeOK, Entries
<1>2. prev_lengths[index] \in 0..16 /\ new_lengths[index] \in 0..16
  BY <1>1 DEF IInv, TypeOK, CodeLengths
<1>3. Delta \in 0..16 /\ ApplyDelta(prev_lengths[index], Delta) = new_lengths[index]
  BY <1>2, DeltaInverse DEF Delta
<1>4. op \in OpType  BY <1>1, <1>3 DEF OpType, PretreeSymbols
<1>5. RunOf(op) = 1  BY <1>3 DEF RunOf
<1>6. LengthOf(op, prev_lengths[op.at]) = new_lengths[index]  BY <1>3 DEF LengthOf
<1>7. Behind(op) = index + 1  BY <1>5 DEF Behind
<1>8. Right(op)
  <2>1. First(section) <= op.at /\ Behind(op) <= End(section)
    BY <1>1, <1>7, Bounds DEF IInv, TypeOK
  <2>2. \A k \in Entries : op.at <= k /\ k < Behind(op) => k = index
    BY <1>1, <1>7 DEF Entries
  <2> QED  BY <1>5, <1>6, <2>1, <2>2 DEF Right
<1>9. ops' = Append(ops, op) /\ index' = Behind(op)  BY <1>7 DEF Single, Plan
<1> QED  BY <1>4, <1>8, <1>9 DEF Planned

\* An operation for a run, capped or not, that gives all of it the length of
\* its first entry.
LEMMA RunPlanned ==
    ASSUME IInv, phase = "analyse", index < End(section),
           NEW run \in Nat \ {0}, IsRun(run), NEW taken \in 1..run,
           NEW op \in OpType, op.at = index, RunOf(op) = taken,
           LengthOf(op, prev_lengths[index]) = new_lengths[index]
    PROVE  Right(op) /\ Behind(op) = index + taken
<1>1. index \in Entries /\ index \in Nat
  BY Bounds DEF IInv, TypeOK, Entries
<1>2. Behind(op) = index + taken  BY DEF Behind
<1>3. First(section) <= op.at /\ Behind(op) <= End(section)
  BY <1>1, <1>2, Bounds DEF IInv, TypeOK, IsRun
<1>4. \A k \in Entries : op.at <= k /\ k < Behind(op) => new_lengths[k] = new_lengths[index]
  BY <1>1, <1>2 DEF Entries, IsRun
<1> QED  BY <1>2, <1>3, <1>4 DEF Right

LEMMA RunCases ==
    ASSUME IInv, phase = "analyse", index < End(section),
           NEW run \in 1..Sym18Max(section), IsRun(run), run >= RunThreshold(section),
           ShortZeroRun(run) \/ LongZeroRun(run) \/ SameRun(run)
    PROVE  \E op : Planned(op)
<1>1. section \in {"literal", "match"}  BY DEF IInv, TypeOK
<1>2. run \in Nat \ {0} /\ run <= Sym18Max(section)  BY <1>1, ExtraFits
<1>3. index \in Entries /\ index \in Nat
  BY <1>1, Bounds DEF IInv, TypeOK, Entries
<1>4. prev_lengths[index] \in 0..16 /\ new_lengths[index] \in 0..16
  BY <1>3 DEF IInv, TypeOK, CodeLengths
<1>5. CASE ShortZeroRun(run)
  <2> DEFINE extra == (run - Sym17Base(section)) % Sym17Values(section)
             op == [sym |-> 17, extra |-> extra, delta |-> 0, at |-> index]
  <2>1. extra \in Nat
    BY <1>1, <1>2 DEF Sym17Base, Sym17Values
  <2>2. op \in OpType  BY <1>3, <2>1 DEF OpType, PretreeSymbols
  <2>3. RunOf(op) = run
    BY <1>1, <1>2, <1>5, ExtraFits DEF RunOf, ShortZeroRun
  <2>4. LengthOf(op, prev_lengths[index]) = new_lengths[index]
    BY <1>5 DEF LengthOf, ShortZeroRun
  <2>5. Right(op) /\ Behind(op) = index + run
    <3>1. run \in 1..run  BY <1>2
    <3> HIDE DEF op
    <3>2. op.at = index  BY DEF op
    <3> QED  BY <1>2, <2>2, <2>3, <2>4, <3>1, <3>2, RunPlanned
  <2>6. ops' = Append(ops, op) /\ index' = index + run  BY <1>5 DEF ShortZeroRun, Plan
  <2> QED  BY <2>2, <2>5, <2>6 DEF Planned
<1>6. CASE LongZeroRun(run)
  <2> DEFINE extra == (run - Sym18Base(section)) % Sym18Values(section)
             op == [sym |-> 18, extra |-> extra, delta |-> 0, at |-> index]
  <2>1. extra \in Nat
    BY <1>1, <1>2 DEF Sym18Base, Sym18Values
  <2>2. op \in OpType  BY <1>3, <2>1 DEF OpType, PretreeSymbols
  <2>3. RunOf(op) = run
    BY <1>1, <1>2, <1>6, ExtraFits DEF RunOf, LongZeroRun
  <2>4. LengthOf(op, prev_lengths[index]) = new_lengths[index]
    BY <1>6 DEF LengthOf, LongZeroRun
  <2>5. Right(op) /\ Behind(op) = index + run
    <3>1. run \in 1..run  BY <1>2
    <3> HIDE DEF op
    <3>2. op.at = index  BY DEF op
    <3> QED  BY <1>2, <2>2, <2>3, <2>4, <3>1, <3>2, RunPlanned
  <2>6. ops' = Append(ops, op) /\ index' = index + run  BY <1>6 DEF LongZeroRun, Plan
  <2> QED  BY <2>2, <2>5, <2>6 DEF Planned
<1>7. CASE SameRun(run)
  <2> DEFINE taken == AtMost(run, Sym19Max(section))
             extra == (taken - Sym19Base(section)) % Sym19Values(section)
             op == [sym |-> 19, extra |-> extra, delta |-> Delta, at |-> index]
  <2>1. taken \in 1..run /\ taken >= RunThreshold(section) /\ taken <= Sym19Max(section)
    BY <1>1, <1>2, ExtraFits DEF AtMost, RunThreshold, Sym19Max, Sym19Base, Sym19Values
  <2>2. extra \in Nat
    BY <1>1, <2>1 DEF Sym19Base, Sym19Values
  <2>3. Delta \in 0..16 /\ ApplyDelta(prev_lengths[index], Delta) = new_lengths[index]
    BY <1>4, DeltaInverse DEF Delta
  <2>4. op \in OpType  BY <1>3, <2>2, <2>3 DEF OpType, PretreeSymbols
  <2>5. Sym19Base(section) + extra = taken
    <3> HIDE DEF taken
    <3> QED  BY <1>1, <2>1, ExtraFits
  <2>6. RunOf(op) = taken  BY <2>5 DEF RunOf
  <2>7. LengthOf(op, prev_lengths[index]) = new_lengths[index]  BY <2>3 DEF LengthOf
  <2>8. Right(op) /\ Behind(op) = index + taken
    <3> HIDE DEF op, taken
    <3>1. op.at = index  BY DEF op
    <3> QED  BY <1>2, <2>1, <2>4, <2>6, <2>7, <3>1, RunPlanned
  <2>9. ops' = Append(ops, op) /\ index' = index + taken  BY <1>7 DEF SameRun, Plan
  <2> QED  BY <2>4, <2>8, <2>9 DEF Planned
<1> QED  BY <1>5, <1>6, <1>7

\* A planned operation goes to the end of the chain.
LEMMA ChainGrows ==
    ASSUME IInv, phase = "analyse", NEW op, Planned(op),
           UNCHANGED <<prev_lengths, new_lengths, section, filled>>
    PROVE  Chained(filled, index)' /\ ops' \in Seq(OpType)
<1>1. ops \in Seq(OpType) /\ op \in OpType /\ Chained(filled, index)
  BY DEF IInv, TypeOK, Planned
<1>2. /\ ops' \in Seq(OpType) /\ Len(ops') = Len(ops) + 1 /\ ops' # << >>
      /\ ops'[Len(ops')] = op
      /\ \A k \in 1..Len(ops) : ops'[k] = ops[k]
  BY <1>1 DEF Planned
<1>3. Len(ops) \in Nat /\ (Len(ops) = 0 <=> ops = << >>)  BY <1>1
<1>5. \A k \in 1..Len(ops') : Right(ops'[k])
  BY <1>1, <1>2, <1>3 DEF Chained, Planned
<1>6. \A k \in 1..(Len(ops') - 1) : ops'[k + 1].at = Behind(ops'[k])
  <2> SUFFICES ASSUME NEW k \in 1..Len(ops)  PROVE ops'[k + 1].at = Behind(ops'[k])
    BY <1>2, <1>3
  <2>1. CASE k = Len(ops)
    BY <1>1, <1>2, <1>3, <2>1 DEF Chained, Planned
  <2>2. CASE k # Len(ops)
    BY <1>1, <1>2, <1>3, <2>2 DEF Chained
  <2> QED  BY <2>1, <2>2
<1>7. ops'[1].at = filled
  BY <1>1, <1>2, <1>3 DEF Chained, Planned
<1>8. Behind(ops'[Len(ops')]) = index'  BY <1>2 DEF Planned
<1>9. (\A k \in 1..Len(ops) : Right(ops[k]))'
  BY <1>5 DEF Right, Behind, RunOf, LengthOf
<1>10. (\A k \in 1..(Len(ops) - 1) : ops[k + 1].at = Behind(ops[k]))'
  BY <1>6 DEF Behind, RunOf
<1>11. Behind(ops[Len(ops)])' = index'
  BY <1>8 DEF Behind, RunOf
<1> QED  BY <1>2, <1>7, <1>9, <1>10, <1>11 DEF Chained

-----------------------------------------------------------------------------
(* The steps *)

LEMMA EmptyByLength ==
    ASSUME NEW S, NEW seq \in Seq(S)
    PROVE  Len(seq) = 0 <=> seq = << >>
  OBVIOUS

\* The reader executes the first operation of the chain.
LEMMA DecodeKeepsInvariant ==
    ASSUME IInv, Decode
    PROVE  IInv'
<1> DEFINE op == ops[1]
<1>1. phase = "decode" /\ ops # << >> /\ filled < End(section)  BY DEF Decode
<1>2. Chained(filled, End(section)) /\ HalfDone(filled) /\ TypeOK  BY <1>1 DEF IInv
<1>3. ops \in Seq(OpType) /\ Len(ops) \in Nat \ {0} /\ Head(ops) = op /\ op \in OpType
  BY <1>1, <1>2 DEF TypeOK
<1>4. section \in {"literal", "match"}  BY <1>2 DEF TypeOK
<1>5. filled \in Nat /\ First(section) <= filled /\ filled \in Entries
  BY <1>1, <1>2, <1>4, Bounds DEF TypeOK, Entries
<1>6. op.at = filled /\ Right(op)  BY <1>1, <1>2, <1>3 DEF Chained
<1>7. RunOf(op) \in Nat \ {0} /\ Behind(op) = filled + RunOf(op) /\ Behind(op) <= End(section)
  BY <1>6 DEF Right, Behind
<1> DEFINE end == AtMost(filled + RunOf(Head(ops)), End(section))
<1>8. end = Behind(op) /\ filled < end /\ end <= End(section) /\ end \in Nat
  BY <1>3, <1>4, <1>5, <1>7, Bounds DEF AtMost
<1>9. /\ filled' = end
      /\ ops' = Tail(ops)
      /\ literal_len' = [k \in Entries |->
            IF filled <= k /\ k < end THEN LengthOf(Head(ops), literal_len[filled])
            ELSE literal_len[k]]
      /\ UNCHANGED <<prev_lengths, new_lengths, section, phase, index, freqs>>
  BY DEF Decode
<1> HIDE DEF op, end
<1>10. literal_len[filled] = prev_lengths[filled]  BY <1>2, <1>5 DEF HalfDone, Entries
<1>11. \A k \in Entries : filled <= k /\ k < end =>
           new_lengths[k] = LengthOf(Head(ops), literal_len[filled])
  BY <1>3, <1>6, <1>8, <1>10 DEF Right
<1>12. \A k \in Entries : literal_len'[k] = IF k < end THEN new_lengths[k] ELSE prev_lengths[k]
  <2> SUFFICES ASSUME NEW k \in Entries
               PROVE  literal_len'[k] = IF k < end THEN new_lengths[k] ELSE prev_lengths[k]
    OBVIOUS
  <2>1. k \in Int /\ filled \in Int /\ end \in Int  BY <1>5, <1>8 DEF Entries
  <2>2. CASE k < filled
    BY <1>2, <1>8, <1>9, <2>1, <2>2 DEF HalfDone
  <2>3. CASE filled <= k /\ k < end
    BY <1>9, <1>11, <2>3
  <2>4. CASE end <= k
    BY <1>2, <1>8, <1>9, <2>1, <2>4 DEF HalfDone
  <2> QED  BY <2>1, <2>2, <2>3, <2>4
<1>13. HalfDone(filled)'  BY <1>9, <1>12 DEF HalfDone
<1>14. literal_len' \in CodeLengths
  <2>1. \A k \in Entries : new_lengths[k] \in 0..16 /\ prev_lengths[k] \in 0..16
    BY <1>2 DEF TypeOK, CodeLengths
  <2>2. \A k \in Entries : literal_len'[k] \in 0..16  BY <1>12, <2>1
  <2> QED  BY <1>9, <2>2 DEF CodeLengths
<1>15. /\ ops' \in Seq(OpType) /\ Len(ops') = Len(ops) - 1
       /\ \A k \in 1..Len(ops') : ops'[k] = ops[k + 1]
       /\ (Len(ops') = 0 <=> ops' = << >>)
  <2>1. ops' = Tail(ops)  BY <1>9
  <2>2. Tail(ops) \in Seq(OpType)  BY <1>1, <1>3
  <2>3. Len(Tail(ops)) = Len(ops) - 1  BY <1>1, <1>3
  <2>4. \A k \in 1..Len(Tail(ops)) : Tail(ops)[k] = ops[k + 1]  BY <1>1, <1>3, <2>3
  <2>5. Len(Tail(ops)) = 0 <=> Tail(ops) = << >>  BY <2>2, EmptyByLength
  <2> QED  BY <2>1, <2>2, <2>3, <2>4, <2>5
<1>16. \A k \in 1..Len(ops') : Right(ops'[k])
  BY <1>2, <1>3, <1>15 DEF Chained
<1>17. \A k \in 1..(Len(ops') - 1) : ops'[k + 1].at = Behind(ops'[k])
  <2> SUFFICES ASSUME NEW k \in 1..(Len(ops') - 1)  PROVE ops'[k + 1].at = Behind(ops'[k])
    OBVIOUS
  <2>1. k + 1 \in 1..(Len(ops) - 1) /\ k + 1 \in 1..Len(ops') /\ k \in 1..Len(ops')
    BY <1>3, <1>15
  <2>2. ops[k + 2].at = Behind(ops[k + 1])
    <3>1. ops[(k + 1) + 1].at = Behind(ops[k + 1])  BY <1>2, <2>1 DEF Chained
    <3> QED  BY <3>1
  <2>3. ops'[k] = ops[k + 1] /\ ops'[k + 1] = ops[k + 2]
    <3>1. ops'[k + 1] = ops[(k + 1) + 1]  BY <1>15, <2>1
    <3> QED  BY <1>15, <2>1, <3>1
  <2> QED  BY <2>2, <2>3
<1>18. CASE ops' = << >>
  <2>1. Len(ops) = 1  BY <1>3, <1>15, <1>18
  <2>2. Behind(op) = End(section)  BY <1>1, <1>2, <2>1 DEF Chained, op
  <2>3. (filled = End(section))'  BY <1>8, <1>9, <2>2 DEF End
  <2>4. TypeOK'
    BY <1>2, <1>4, <1>5, <1>8, <1>9, <1>14, <1>15, Bounds DEF TypeOK, First, End
  <2>5. (Len(ops) = 0)'  BY <1>15, <1>18
  <2>6. Chained(filled, End(section))'  BY <1>18, <2>3, <2>5 DEF Chained
  <2> QED  BY <1>1, <1>9, <1>13, <2>4, <2>6 DEF IInv
<1>19. CASE ops' # << >>
  <2>1. Len(ops') \in Nat \ {0} /\ 1 \in 1..Len(ops') /\ Len(ops') \in 1..Len(ops')
    BY <1>3, <1>15, <1>19
  <2>2. 1 \in 1..(Len(ops) - 1)  BY <1>3, <1>15, <2>1
  <2>3. ops[1 + 1].at = Behind(ops[1])  BY <1>2, <2>2 DEF Chained
  <2>4. ops'[1].at = end  BY <1>8, <1>15, <2>1, <2>3 DEF op
  <2>5. ops'[Len(ops')] = ops[Len(ops)]
    <3>1. ops'[Len(ops')] = ops[Len(ops') + 1]  BY <1>15, <2>1
    <3> QED  BY <1>3, <1>15, <3>1
  <2>6. Behind(ops'[Len(ops')]) = End(section)  BY <1>1, <1>2, <2>5 DEF Chained
  <2>7. (\A k \in 1..Len(ops) : Right(ops[k]))'
    BY <1>9, <1>16 DEF Right, Behind, RunOf, LengthOf
  <2>8. (\A k \in 1..(Len(ops) - 1) : ops[k + 1].at = Behind(ops[k]))'
    BY <1>9, <1>17 DEF Behind, RunOf
  <2>9. (Behind(ops[Len(ops)]) = End(section))'
    BY <1>9, <2>6 DEF Behind, RunOf, End
  <2>10. (ops[1].at = filled)'  BY <1>9, <2>4
  <2>11. Chained(filled, End(section))'  BY <1>19, <2>7, <2>8, <2>9, <2>10 DEF Chained
  <2>12. TypeOK'
    BY <1>2, <1>4, <1>5, <1>8, <1>9, <1>14, <1>15, Bounds DEF TypeOK, First, End
  <2> QED  BY <1>1, <1>9, <1>13, <2>11, <2>12 DEF IInv
<1> QED  BY <1>18, <1>19

\* The writer begins a section: no operation yet, nothing filled.
LEMMA SectionBegins ==
    ASSUME NEW sec \in {"literal", "match"}, BeginSection(sec),
           (prev_lengths \in CodeLengths /\ new_lengths \in CodeLengths /\ literal_len \in CodeLengths)',
           (\A k \in Entries : literal_len[k] =
               IF k < First(sec) THEN new_lengths[k] ELSE prev_lengths[k])'
    PROVE  IInv'
<1>1. /\ section' = sec /\ phase' = "analyse" /\ ops' = << >>
      /\ index' = First(sec) /\ filled' = First(sec)
      /\ freqs' = [s \in PretreeSymbols |-> 0]
  BY DEF BeginSection
<1>2. First(sec) \in First(sec)..End(sec)  BY Bounds
<1>3. ops' \in Seq(OpType) /\ Len(ops') = 0  BY <1>1
<1>4. freqs' \in [PretreeSymbols -> Nat]  BY <1>1
<1>5. TypeOK'  BY <1>1, <1>2, <1>3, <1>4 DEF TypeOK, First, End
<1>6. Chained(filled, index)'  BY <1>1, <1>3 DEF Chained
<1>7. HalfDone(filled)'  BY <1>1 DEF HalfDone, First
<1>8. (filled = First(section))'  BY <1>1 DEF First
<1> QED  BY <1>1, <1>5, <1>6, <1>7, <1>8 DEF IInv

LEMMA BeginBlockEstablishes ==
    ASSUME IInv, NEW lengths \in CodeLengths, BeginBlock(lengths)
    PROVE  IInv'
<1>1. /\ prev_lengths' = new_lengths /\ new_lengths' = lengths /\ literal_len' = literal_len
      /\ BeginSection("literal") /\ phase = "idle"
  BY DEF BeginBlock
<1>2. literal_len = new_lengths /\ TypeOK  BY <1>1 DEF IInv
<1>3. (prev_lengths \in CodeLengths /\ new_lengths \in CodeLengths /\ literal_len \in CodeLengths)'
  BY <1>1, <1>2 DEF TypeOK
<1>4. (\A k \in Entries : literal_len[k] =
          IF k < First("literal") THEN new_lengths[k] ELSE prev_lengths[k])'
  BY <1>1, <1>2 DEF First, Entries
<1> QED  BY <1>1, <1>3, <1>4, SectionBegins

LEMMA AnalyseKeepsInvariant ==
    ASSUME IInv, Analyse
    PROVE  IInv'
<1>1. /\ phase = "analyse" /\ index < End(section)
      /\ UNCHANGED <<prev_lengths, new_lengths, literal_len, section, phase, filled>>
  BY DEF Analyse
<1>2. section \in {"literal", "match"} /\ TypeOK  BY DEF IInv, TypeOK
<1>3. PICK run \in 1..Sym18Max(section) :
          /\ IsRun(run)
          /\ IF run < RunThreshold(section) THEN Single
             ELSE ShortZeroRun(run) \/ LongZeroRun(run) \/ SameRun(run)
  BY DEF Analyse
<1>4. \E op : Planned(op)
  <2>1. CASE run < RunThreshold(section)  BY <1>1, <1>3, <2>1, SinglePlanned
  <2>2. CASE ~(run < RunThreshold(section))
    <3>1. run >= RunThreshold(section)
      BY <1>2, <2>2, ExtraFits DEF RunThreshold
    <3> QED  BY <1>1, <1>3, <2>2, <3>1, RunCases
  <2> QED  BY <2>1, <2>2
<1>5. PICK op : Planned(op)  BY <1>4
<1>6. Chained(filled, index)' /\ ops' \in Seq(OpType)  BY <1>1, <1>5, ChainGrows
<1>7. index' = op.at + RunOf(op) /\ op.at = index /\ RunOf(op) \in Nat \ {0} /\ index' <= End(section)
  BY <1>5 DEF Planned, Right, Behind
<1>8. index' \in First(section)..End(section)  BY <1>2, <1>7, Bounds DEF TypeOK
<1>9. \E syms : Count(syms)
  BY <1>3 DEF Single, ShortZeroRun, LongZeroRun, SameRun
<1>10. freqs' \in [PretreeSymbols -> Nat]  BY <1>2, <1>9 DEF Count, TypeOK
<1>11. TypeOK'  BY <1>1, <1>2, <1>6, <1>8, <1>10 DEF TypeOK, First, End
<1>12. HalfDone(filled)'  BY <1>1 DEF IInv, HalfDone
<1>13. (filled = First(section))'  BY <1>1 DEF IInv, First
<1> QED  BY <1>1, <1>6, <1>11, <1>12, <1>13 DEF IInv

LEMMA EmitKeepsInvariant ==
    ASSUME IInv, Emit
    PROVE  IInv'
<1>1. /\ phase = "analyse" /\ index = End(section) /\ phase' = "decode"
      /\ UNCHANGED <<prev_lengths, new_lengths, literal_len, section, index, ops, freqs, filled>>
  BY DEF Emit
<1>2. TypeOK /\ Chained(filled, End(section)) /\ HalfDone(filled)  BY <1>1 DEF IInv
<1>3. TypeOK'  BY <1>1, <1>2 DEF TypeOK, First, End
<1>4. Chained(filled, End(section))'
  BY <1>1, <1>2 DEF Chained, Right, Behind, RunOf, LengthOf, First, End
<1>5. HalfDone(filled)'  BY <1>1, <1>2 DEF HalfDone
<1> QED  BY <1>1, <1>3, <1>4, <1>5 DEF IInv

\* An operation in the stream stands for entries the reader has not filled.
LEMMA FullSectionIsRead ==
    ASSUME IInv, phase = "decode"
    PROVE  filled = End(section) <=> ops = << >>
<1>1. Chained(filled, End(section)) /\ TypeOK  BY DEF IInv
<1>2. CASE ops # << >>
  <2>1. ops \in Seq(OpType) /\ 1 \in 1..Len(ops) /\ ops[1] \in OpType
    BY <1>1, <1>2 DEF TypeOK
  <2>2. ops[1].at = filled /\ Right(ops[1])  BY <1>1, <1>2, <2>1 DEF Chained
  <2>3. filled \in Nat /\ End(section) \in Nat
    BY <1>1, Bounds DEF TypeOK
  <2>4. filled + RunOf(ops[1]) <= End(section) /\ RunOf(ops[1]) \in Nat \ {0}
    BY <2>2 DEF Right, Behind
  <2> QED  BY <1>2, <2>3, <2>4
<1> QED  BY <1>1, <1>2 DEF Chained

LEMMA EndSectionKeepsInvariant ==
    ASSUME IInv, EndSection
    PROVE  IInv'
<1>1. /\ phase = "decode" /\ filled = End(section)
      /\ UNCHANGED <<prev_lengths, new_lengths, literal_len>>
  BY DEF EndSection
<1>2. TypeOK /\ HalfDone(End(section))  BY <1>1 DEF IInv
<1>3. CASE section = "literal"
  <2>1. BeginSection("match")  BY <1>3 DEF EndSection
  <2>2. (prev_lengths \in CodeLengths /\ new_lengths \in CodeLengths /\ literal_len \in CodeLengths)'
    BY <1>1, <1>2 DEF TypeOK
  <2>3. (\A k \in Entries : literal_len[k] =
            IF k < First("match") THEN new_lengths[k] ELSE prev_lengths[k])'
    BY <1>1, <1>2, <1>3 DEF HalfDone, First, End
  <2> QED  BY <2>1, <2>2, <2>3, SectionBegins
<1>4. CASE section # "literal"
  <2>1. phase' = "body" /\ UNCHANGED <<section, index, ops, freqs, filled>>
    BY <1>4 DEF EndSection
  <2>2. TypeOK'  BY <1>1, <1>2, <2>1 DEF TypeOK, First, End
  <2>3. End(section) = MainSymbols  BY <1>4 DEF End
  <2>4. \A k \in Entries : literal_len[k] = new_lengths[k]
    BY <1>2, <2>3, SizesAssumption DEF HalfDone, Entries
  <2>5. literal_len = new_lengths  BY <1>2, <2>4 DEF TypeOK, CodeLengths
  <2>6. (literal_len = new_lengths)'  BY <1>1, <2>5
  <2>7. ops' = << >>  BY <1>1, <2>1, FullSectionIsRead
  <2> QED  BY <2>1, <2>2, <2>6, <2>7 DEF IInv
<1> QED  BY <1>3, <1>4

LEMMA EndBlockKeepsInvariant ==
    ASSUME IInv, EndBlock
    PROVE  IInv'
<1>1. /\ phase = "body" /\ phase' = "idle"
      /\ UNCHANGED <<prev_lengths, new_lengths, literal_len, section, index, ops, freqs, filled>>
  BY DEF EndBlock
<1>2. TypeOK /\ literal_len = new_lengths /\ ops = << >>  BY <1>1 DEF IInv
<1>3. TypeOK'  BY <1>1, <1>2 DEF TypeOK, First, End
<1> QED  BY <1>1, <1>2, <1>3 DEF IInv

LEMMA StutterKeepsInvariant ==
    ASSUME IInv, UNCHANGED pretreeVars
    PROVE  IInv'
<1>1. UNCHANGED <<prev_lengths, new_lengths, literal_len, section, phase, index, ops, freqs, filled>>
  BY DEF pretreeVars
<1>2. TypeOK'  BY <1>1 DEF IInv, TypeOK, First, End
<1>3. CASE phase = "analyse"
  <2>1. filled = First(section) /\ Chained(filled, index) /\ HalfDone(filled)  BY <1>3 DEF IInv
  <2>2. (filled = First(section))' /\ HalfDone(filled)'  BY <1>1, <2>1 DEF First, HalfDone
  <2>3. Chained(filled, index)'
    BY <1>1, <2>1 DEF Chained, Right, Behind, RunOf, LengthOf, First, End
  <2> QED  BY <1>1, <1>2, <1>3, <2>2, <2>3 DEF IInv
<1>4. CASE phase = "decode"
  <2>1. Chained(filled, End(section)) /\ HalfDone(filled)  BY <1>4 DEF IInv
  <2>2. Chained(filled, End(section))' /\ HalfDone(filled)'
    BY <1>1, <2>1 DEF Chained, Right, Behind, RunOf, LengthOf, HalfDone, First, End
  <2> QED  BY <1>1, <1>2, <1>4, <2>2 DEF IInv
<1>5. CASE phase \in {"body", "idle"}
  BY <1>1, <1>2, <1>5 DEF IInv
<1> QED  BY <1>3, <1>4, <1>5 DEF IInv, TypeOK

LEMMA InitEstablishes == Init => IInv
<1> SUFFICES ASSUME Init  PROVE IInv  OBVIOUS
<1>1. prev_lengths \in CodeLengths /\ new_lengths \in CodeLengths /\ literal_len \in CodeLengths
  BY DEF Init, CodeLengths
<1>2. 0 \in First("literal")..End("literal")  BY SizesAssumption DEF First, End
<1>3. ops \in Seq(OpType)  BY DEF Init
<1>4. freqs \in [PretreeSymbols -> Nat]  BY DEF Init
<1>5. TypeOK  BY <1>1, <1>2, <1>3, <1>4 DEF Init, TypeOK
<1> QED  BY <1>5 DEF Init, IInv

LEMMA StepKeepsInvariant == IInv /\ [Next]_pretreeVars => IInv'
<1> SUFFICES ASSUME IInv, [Next]_pretreeVars  PROVE IInv'  OBVIOUS
<1>1. CASE \E lengths \in CodeLengths : BeginBlock(lengths)  BY <1>1, BeginBlockEstablishes
<1>2. CASE Analyse  BY <1>2, AnalyseKeepsInvariant
<1>3. CASE Emit  BY <1>3, EmitKeepsInvariant
<1>4. CASE Decode  BY <1>4, DecodeKeepsInvariant
<1>5. CASE EndSection  BY <1>5, EndSectionKeepsInvariant
<1>6. CASE EndBlock  BY <1>6, EndBlockKeepsInvariant
<1>7. CASE UNCHANGED pretreeVars  BY <1>7, StutterKeepsInvariant
<1> QED  BY <1>1, <1>2, <1>3, <1>4, <1>5, <1>6, <1>7 DEF Next, SectionStep

\* The inductive invariant.
THEOREM Invariant == Spec => []IInv
  BY InitEstablishes, StepKeepsInvariant, PTL DEF Spec

\* After every block, and while its body is decoded, the reader holds the
\* writer's code lengths, for all sizes of the sections.
THEOREM LengthsAreInStep == Spec => []LengthsInStep
<1>1. IInv => LengthsInStep  BY DEF IInv, LengthsInStep
<1> QED  BY <1>1, Invariant, PTL

\* The operations in the stream end exactly where the section does.
THEOREM StreamEndsWithSection == Spec => []NothingLeftOver
<1>1. IInv => NothingLeftOver
  BY FullSectionIsRead DEF IInv, NothingLeftOver
<1> QED  BY <1>1, Invariant, PTL

-----------------------------------------------------------------------------
(* The counts *)

\* A round of the analysis counts the symbols of the operation it plans.
LEMMA AnalyseCounts ==
    ASSUME IInv, Analyse
    PROVE  \E op, syms : /\ ops' = Append(ops, op) /\ Count(syms)
                         /\ op.sym \in PretreeSymbols \cap syms
                         /\ op.sym = 19 => op.delta \in PretreeSymbols \cap syms
<1>1. index \in Entries /\ section \in {"literal", "match"}
  BY Bounds DEF IInv, TypeOK, Entries, Analyse
<1>2. Delta \in PretreeSymbols /\ Delta # 19
  <2>1. prev_lengths[index] \in 0..16 /\ new_lengths[index] \in 0..16
    BY <1>1 DEF IInv, TypeOK, CodeLengths
  <2>2. Delta \in 0..16  BY <2>1, DeltaInverse DEF Delta
  <2> QED  BY <2>2 DEF PretreeSymbols
<1>3. 17 \in PretreeSymbols /\ 18 \in PretreeSymbols /\ 19 \in PretreeSymbols
  BY DEF PretreeSymbols
<1>4. PICK run \in 1..Sym18Max(section) :
          Single \/ ShortZeroRun(run) \/ LongZeroRun(run) \/ SameRun(run)
  BY DEF Analyse
<1>5. CASE Single
  <2> DEFINE op == [sym |-> Delta, extra |-> 0,
                    delta |-> 0, at |-> index]
  <2>1. ops' = Append(ops, op) /\ Count({Delta})  BY <1>5 DEF Single, Plan
  <2>2. op.sym = Delta /\ op.delta = 0  OBVIOUS
  <2>3. op.sym \in PretreeSymbols \cap {Delta}  BY <1>2, <1>3, <2>2
  <2>4. op.sym = 19 => op.delta \in PretreeSymbols \cap {Delta}  BY <1>2, <1>3, <2>2
  <2> HIDE DEF op
  <2> QED  BY <2>1, <2>3, <2>4
<1>6. CASE ShortZeroRun(run)
  <2> DEFINE op == [sym |-> 17, extra |-> (run - Sym17Base(section)) % Sym17Values(section),
                    delta |-> 0, at |-> index]
  <2>1. ops' = Append(ops, op) /\ Count({17})  BY <1>6 DEF ShortZeroRun, Plan
  <2>2. op.sym = 17 /\ op.delta = 0  OBVIOUS
  <2>3. op.sym \in PretreeSymbols \cap {17}  BY <1>2, <1>3, <2>2
  <2>4. op.sym = 19 => op.delta \in PretreeSymbols \cap {17}  BY <1>2, <1>3, <2>2
  <2> HIDE DEF op
  <2> QED  BY <2>1, <2>3, <2>4
<1>7. CASE LongZeroRun(run)
  <2> DEFINE op == [sym |-> 18, extra |-> (run - Sym18Base(section)) % Sym18Values(section),
                    delta |-> 0, at |-> index]
  <2>1. ops' = Append(ops, op) /\ Count({18})  BY <1>7 DEF LongZeroRun, Plan
  <2>2. op.sym = 18 /\ op.delta = 0  OBVIOUS
  <2>3. op.sym \in PretreeSymbols \cap {18}  BY <1>2, <1>3, <2>2
  <2>4. op.sym = 19 => op.delta \in PretreeSymbols \cap {18}  BY <1>2, <1>3, <2>2
  <2> HIDE DEF op
  <2> QED  BY <2>1, <2>3, <2>4
<1>8. CASE SameRun(run)
  <2> DEFINE capped == AtMost(run, Sym19Max(section))
             op == [sym |-> 19, extra |-> (capped - Sym19Base(section)) % Sym19Values(section),
                    delta |-> Delta, at |-> index]
  <2>1. ops' = Append(ops, op) /\ Count({19, Delta})  BY <1>8 DEF SameRun, Plan
  <2>2. op.sym = 19 /\ op.delta = Delta  OBVIOUS
  <2>3. op.sym \in PretreeSymbols \cap {19, Delta}  BY <1>2, <1>3, <2>2
  <2>4. op.sym = 19 => op.delta \in PretreeSymbols \cap {19, Delta}  BY <1>2, <1>3, <2>2
  <2> HIDE DEF op
  <2> QED  BY <2>1, <2>3, <2>4
<1> QED  BY <1>4, <1>5, <1>6, <1>7, <1>8

LEMMA StepKeepsCounts ==
    ASSUME IInv, PlanIsCounted, [Next]_pretreeVars
    PROVE  PlanIsCounted'
<1>1. ops \in Seq(OpType) /\ freqs \in [PretreeSymbols -> Nat]  BY DEF IInv, TypeOK
<1>2. \A k \in 1..Len(ops) : ops[k].sym \in PretreeSymbols /\ ops[k].delta \in PretreeSymbols
  <2> SUFFICES ASSUME NEW k \in 1..Len(ops)
               PROVE  ops[k].sym \in PretreeSymbols /\ ops[k].delta \in PretreeSymbols
    OBVIOUS
  <2>1. ops[k] \in OpType  BY <1>1
  <2> QED  BY <2>1 DEF OpType, PretreeSymbols
<1>3. CASE Analyse
  <2>1. PICK op, syms : /\ ops' = Append(ops, op) /\ Count(syms)
                        /\ op.sym \in PretreeSymbols \cap syms
                        /\ op.sym = 19 => op.delta \in PretreeSymbols \cap syms
    BY <1>3, AnalyseCounts
  <2>2. \A s \in PretreeSymbols : freqs'[s] >= freqs[s] /\ (s \in syms => freqs'[s] > 0)
    BY <1>1, <2>1 DEF Count
  <2>3. /\ DOMAIN ops' = 1..(Len(ops) + 1)
        /\ \A k \in 1..Len(ops) : ops'[k] = ops[k]
        /\ ops'[Len(ops) + 1] = op
    BY <1>1, <2>1
  <2>4. \A s \in PretreeSymbols : freqs[s] \in Nat /\ freqs'[s] \in Nat
    BY <1>1, <2>1 DEF Count
  <2>5. \A k \in 1..Len(ops) :
            freqs'[ops[k].sym] > 0 /\ (ops[k].sym = 19 => freqs'[ops[k].delta] > 0)
    BY <1>1, <1>2, <2>2, <2>4 DEF PlanIsCounted
  <2> QED  BY <1>1, <2>1, <2>2, <2>3, <2>5 DEF PlanIsCounted
<1>4. CASE Decode
  <2>1. ops # << >> /\ ops' = Tail(ops) /\ freqs' = freqs  BY <1>4 DEF Decode
  <2>2. DOMAIN ops' = 1..(Len(ops) - 1) /\ \A k \in DOMAIN ops' : ops'[k] = ops[k + 1]
    BY <1>1, <2>1
  <2>3. \A k \in DOMAIN ops' : k + 1 \in DOMAIN ops
    BY <1>1, <2>2
  <2> QED  BY <2>1, <2>2, <2>3 DEF PlanIsCounted
<1>5. CASE \E lengths \in CodeLengths : BeginBlock(lengths)
  BY <1>5 DEF BeginBlock, BeginSection, PlanIsCounted
<1>6. CASE Emit \/ EndBlock \/ UNCHANGED pretreeVars
  BY <1>6 DEF Emit, EndBlock, pretreeVars, PlanIsCounted
<1>7. CASE EndSection
  BY <1>7 DEF EndSection, BeginSection, PlanIsCounted
<1> QED  BY <1>3, <1>4, <1>5, <1>6, <1>7 DEF Next, SectionStep

\* Whatever is written has been counted, so the pretree has a code for it.
THEOREM PlanHasCounts == Spec => []PlanIsCounted
<1>1. Init => PlanIsCounted
  BY DEF Init, PlanIsCounted
<1> QED  BY <1>1, StepKeepsCounts, Invariant, PTL DEF Spec

-----------------------------------------------------------------------------
(* Tokens and their symbols *)

LEMMA MatchParts ==
    ASSUME NEW token \in Tokens, token.kind = "match"
    PROVE  /\ token.length \in Nat /\ MinMatch <= token.length /\ token.length <= 258
           /\ token.distance \in Nat /\ token.distance < 65536
           /\ token = Match(token.length, token.distance)
<1>1. token \in [kind : {"match"}, byte : {0}, length : MinMatch..MaxMatch, distance : 1..MaxDistance]
  BY DEF Tokens
<1>2. token.length \in MinMatch..MaxMatch /\ token.distance \in 1..MaxDistance
  BY ONLY <1>1
<1>3. token = Match(token.length, token.distance)  BY ONLY <1>1 DEF Match
<1> DEFINE l == token.length
           d == token.distance
<1>4. l \in MinMatch..MaxMatch /\ d \in 1..MaxDistance  BY <1>2
<1> HIDE DEF l, d
<1>5. l \in Nat /\ MinMatch <= l /\ l <= 258  BY ONLY <1>4, SMT DEF MinMatch, MaxMatch
<1>6. d \in Nat /\ d < 65536
  <2>1. MaxDistance \in Nat  BY SMT DEF MaxDistance
  <2>2. MaxDistance < 65536  BY SMT DEF MaxDistance
  <2>3. d \in 1..MaxDistance  BY ONLY <1>4
  <2> QED  BY ONLY <2>1, <2>2, <2>3, SMT
<1> QED  BY <1>3, <1>5, <1>6 DEF l, d

LEMMA MatchSymbolInverse ==
    ASSUME NEW token \in Tokens, token.kind = "match"
    PROVE  LET symbol == Symbol(token)
           IN  /\ symbol \in Entries /\ ~(symbol < LiteralSymbols)
               /\ SymbolLength(LiteralSymbols, symbol) = LengthSlot(token.length)
               /\ SymbolPosition(LiteralSymbols, symbol) = PositionSlot(token.distance)
<1> DEFINE p == PositionSlot(token.distance)
           l == LengthSlot(token.length)
           symbol == Symbol(token)
<1>1. token.length \in Nat /\ MinMatch <= token.length /\ token.length <= 258
      /\ token.distance \in Nat /\ token.distance < 65536
  BY MatchParts
<1>2. p \in 0..31  BY <1>1, DistanceSurvives DEF PositionSlots
<1>3. l \in 0..15  BY <1>1, LengthSurvives DEF LengthSlots
<1>4. symbol = LiteralSymbols + 32 * l + p  BY DEF Symbol, MatchSymbol
<1>5. LiteralSymbols \in Nat /\ MainSymbols = LiteralSymbols + 512
  BY SizesAssumption, BlocksAssumption
<1> HIDE DEF p, l, symbol
<1>6. symbol \in Entries /\ ~(symbol < LiteralSymbols)  BY <1>2, <1>3, <1>4, <1>5 DEF Entries
<1>7. symbol - LiteralSymbols = 32 * l + p  BY <1>2, <1>3, <1>4, <1>5
<1>8. (32 * l + p) % 32 = p /\ (32 * l + p) \div 32 = l /\ l % 16 = l  BY ONLY <1>2, <1>3, SMT
<1> QED  BY <1>6, <1>7, <1>8 DEF SymbolLength, SymbolPosition, symbol, p, l

LEMMA LiteralSymbol ==
    ASSUME NEW token \in Tokens, token.kind # "match"
    PROVE  /\ Symbol(token) = token.byte /\ token.byte \in 0..(LiteralSymbols - 1)
           /\ token = Literal(token.byte)
<1>1. token.kind = "literal"
      /\ token \in [kind : {"literal"}, byte : 0..(LiteralSymbols - 1), length : {1}, distance : {0}]
  BY DEF Tokens
<1> QED  BY <1>1 DEF Symbol, Literal

LEMMA SymbolType ==
    ASSUME NEW token \in Tokens
    PROVE  Symbol(token) \in Entries /\ token.length \in Nat \ {0}
<1>1. CASE token.kind = "match"
  <2>1. token.length \in Nat \ {0}  BY <1>1 DEF Tokens, MinMatch, MaxMatch
  <2> QED  BY <1>1, <2>1, MatchSymbolInverse
<1>2. CASE token.kind # "match"
  <2>1. token.length = 1  BY <1>2 DEF Tokens
  <2>2. LiteralSymbols \in Nat /\ MainSymbols = LiteralSymbols + 512
    BY SizesAssumption, BlocksAssumption
  <2> QED  BY <1>2, <2>1, <2>2, LiteralSymbol DEF Entries
<1> QED  BY <1>1, <1>2

\* From its symbol and footers a token comes back.
LEMMA TokenComesBack ==
    ASSUME NEW token \in Tokens
    PROVE  TokenOf(Symbol(token), Coding(token)) = token
<1> DEFINE code == Coding(token)
           symbol == Symbol(token)
<1>1. CASE token.kind = "match"
  <2> DEFINE p == PositionSlot(token.distance)
             l == LengthSlot(token.length)
  <2>1. token.length \in Nat /\ MinMatch <= token.length /\ token.length <= 258
        /\ token.distance \in Nat /\ token.distance < 65536
    BY <1>1, MatchParts
  <2>2. Value(p, Footer(p, token.distance)) = token.distance  BY <2>1, DistanceSurvives
  <2>3. Value(l, Footer(l, token.length - MinMatch)) + MinMatch = token.length
    BY <2>1, LengthSurvives
  <2>4. code.position = Footer(p, token.distance) /\ code.length = Footer(l, token.length - MinMatch)
    BY <1>1 DEF Coding
  <2>5. ~(symbol < LiteralSymbols) /\ SymbolLength(LiteralSymbols, symbol) = l
        /\ SymbolPosition(LiteralSymbols, symbol) = p
    BY <1>1, MatchSymbolInverse
  <2>6. token = Match(token.length, token.distance)
    BY <1>1, MatchParts
  <2> HIDE DEF code, symbol, p, l
  <2> QED  BY <2>2, <2>3, <2>4, <2>5, <2>6 DEF TokenOf, code, symbol
<1>2. CASE token.kind # "match"
  <2>1. symbol = token.byte /\ token.byte \in 0..(LiteralSymbols - 1) /\ token = Literal(token.byte)
    BY <1>2, LiteralSymbol
  <2>2. LiteralSymbols \in Nat  BY SizesAssumption
  <2>3. symbol < LiteralSymbols  BY <2>1, <2>2
  <2> HIDE DEF code, symbol
  <2> QED  BY <2>1, <2>3 DEF TokenOf, code, symbol
<1> QED  BY <1>1, <1>2

-----------------------------------------------------------------------------
(* Counts and lengths of a block *)

LEMMA ListFacts ==
    ASSUME NEW list \in TokenLists
    PROVE  /\ list \in Seq(Tokens) /\ Len(list) \in Nat /\ DOMAIN list = 1..Len(list)
           /\ Len(list) <= 32760 /\ \A k \in 1..Len(list) : list[k] \in Tokens
<1>1. list \in Seq(Tokens) /\ Len(list) <= 32760  BY BlocksAssumption DEF BlockTokenLimit
<1> QED  BY <1>1

\* Every symbol of a list is counted, and there are no more symbols than
\* tokens.
LEMMA CountsOfTokens ==
    ASSUME NEW list \in TokenLists
    PROVE  LET counts == CollectFreqs(list)
           IN  /\ IsFreqs(counts) /\ DOMAIN counts = Entries
               /\ Occurring(counts) <= 32760
               /\ \A k \in 1..Len(list) : Symbol(list[k]) \in Active(counts)
<1> DEFINE counts == CollectFreqs(list)
           used == {Symbol(list[k]) : k \in DOMAIN list}
           n == Len(list)
<1>1. n \in Nat /\ DOMAIN list = 1..n /\ n <= 32760 /\ \A k \in 1..n : list[k] \in Tokens
  BY ListFacts
<1>2. counts = [s \in Entries |-> IF s \in used THEN Occurrences(list, s) ELSE 0]
  BY DEF CollectFreqs
<1>3. IsFiniteSet(1..n) /\ Cardinality(1..n) = n
  <2> HIDE DEF n
  <2>1. 0 \in Int /\ 1 \in Int /\ n \in Int /\ (1 > n => n = 0)  BY <1>1
  <2> QED  BY <1>1, <2>1, FS_Interval
<1>4. \A s : Occurrences(list, s) \in Nat /\ (s \in used => Occurrences(list, s) > 0)
  <2> SUFFICES ASSUME NEW s
               PROVE  Occurrences(list, s) \in Nat /\ (s \in used => Occurrences(list, s) > 0)
    OBVIOUS
  <2> DEFINE K == {k \in DOMAIN list : Symbol(list[k]) = s}
  <2>1. K \in SUBSET (1..n)  BY <1>1
  <2>2. s \in used => K # {}  OBVIOUS
  <2> HIDE DEF K, n
  <2>3. IsFiniteSet(K) /\ Cardinality(K) \in Nat /\ (Cardinality(K) = 0 <=> K = {})
    BY <1>3, <2>1, FS_Subset, FS_CardinalityType, FS_EmptySet
  <2>4. Cardinality(K) = Occurrences(list, s)  BY DEF Occurrences, K
  <2> QED  BY <2>2, <2>3, <2>4
<1> HIDE DEF counts
<1>5. DOMAIN counts = Entries /\ \A s \in Entries :
          counts[s] \in Nat /\ (counts[s] > 0 => s \in used) /\ (s \in used => counts[s] > 0)
  BY <1>2, <1>4
<1>6. IsFiniteSet(Entries) /\ Entries \subseteq Int
  <2>1. MainSymbols - 1 \in Int  BY SizesAssumption
  <2> QED  BY <2>1, FS_Interval DEF Entries
<1>7. IsFreqs(counts)  BY <1>5, <1>6 DEF IsFreqs
<1>8. Active(counts) \in SUBSET used  BY <1>5 DEF Active
<1>9. \A k \in 1..n : Symbol(list[k]) \in Active(counts)
  <2> SUFFICES ASSUME NEW k \in 1..n  PROVE Symbol(list[k]) \in Active(counts)  OBVIOUS
  <2>1. Symbol(list[k]) \in Entries /\ Symbol(list[k]) \in used  BY <1>1, SymbolType
  <2> QED  BY <1>5, <2>1 DEF Active
<1>10. IsFiniteSet(used) /\ Cardinality(used) <= n
  <2> DEFINE f == [k \in 1..n |-> Symbol(list[k])]
  <2>1. f \in Surjection(1..n, used)
    <3>1. f \in [1..n -> used]  BY <1>1
    <3>2. \A s \in used : \E k \in 1..n : f[k] = s  BY <1>1
    <3> QED  BY <3>1, <3>2 DEF Surjection
  <2> HIDE DEF f, used, n
  <2> QED  BY <1>3, <2>1, FS_Surjection
<1>11. Occurring(counts) <= n /\ Occurring(counts) \in Nat
  <2>1. Cardinality(Active(counts)) <= Cardinality(used) /\ IsFiniteSet(Active(counts))
    BY <1>8, <1>10, FS_Subset
  <2>2. Cardinality(used) \in Nat /\ Cardinality(Active(counts)) \in Nat
    BY <1>10, <2>1, FS_CardinalityType
  <2> QED  BY <1>1, <1>10, <2>1, <2>2 DEF Occurring
<1> HIDE DEF n
<1>12. Occurring(counts) <= 32760  BY <1>1, <1>11
<1> QED  BY <1>5, <1>7, <1>9, <1>12 DEF counts, n

\* The code lengths of a block: one for every symbol of its tokens, and codes
\* that no two symbols share.
LEMMA LengthsOfTokens ==
    ASSUME NEW list \in TokenLists, list # << >>
    PROVE  LET lengths == BuildLengths(CollectFreqs(list), 16)
           IN  /\ lengths \in CodeLengths /\ IsTree(lengths)
               /\ \A k \in 1..Len(list) : Symbol(list[k]) \in Entries /\ lengths[Symbol(list[k])] \in 1..16
<1> DEFINE counts == CollectFreqs(list)
           lengths == BuildLengths(counts, 16)
<1>1. /\ IsFreqs(counts) /\ DOMAIN counts = Entries /\ Occurring(counts) <= 32760
      /\ \A k \in 1..Len(list) : Symbol(list[k]) \in Active(counts)
  BY CountsOfTokens
<1>2. Len(list) \in Nat /\ 1 \in 1..Len(list)
  <2>1. list \in Seq(Tokens)  BY ListFacts
  <2> QED  BY <2>1
<1>3. Active(counts) # {}  BY <1>1, <1>2
<1> HIDE DEF counts
<1>4. {0, 1} \subseteq DOMAIN counts
  <2>1. 0 \in Entries /\ 1 \in Entries  BY SizesAssumption, BlocksAssumption DEF Entries
  <2> QED  BY <1>1, <2>1
<1>5. Occurring(counts) <= 2^16
  <2>1. 2^16 = 65536  BY SMT
  <2>2. Occurring(counts) \in Nat  BY <1>1, ActiveFacts DEF Occurring
  <2> QED  BY <1>1, <2>1, <2>2, SMT
<1>6. 16 \in 1..16  OBVIOUS
<1>7. /\ lengths \in [Entries -> 0..16]
      /\ \A s \in Active(counts) : lengths[s] \in 1..16
      /\ FitsCodes(lengths)
  BY <1>1, <1>3, <1>4, <1>5, <1>6, BuildLengthsComplete
<1> HIDE DEF lengths
<1>8. IsFiniteSet(Entries) /\ Entries \subseteq Nat
  <2>1. MainSymbols - 1 \in Int  BY SizesAssumption
  <2> QED  BY <2>1, FS_Interval DEF Entries
<1>9. IsTree(lengths)  BY <1>7, <1>8 DEF IsTree, IsLengths
<1>10. \A k \in 1..Len(list) : Symbol(list[k]) \in Entries
  BY <1>1 DEF Active
<1> QED  BY <1>1, <1>7, <1>9, <1>10 DEF CodeLengths, lengths, counts

\* The pretree of a section has a code for every symbol that was counted.
LEMMA LengthsOfPretree ==
    ASSUME NEW counts \in [PretreeSymbols -> Nat]
    PROVE  LET lengths == BuildLengths(counts, 15)
           IN  \A s \in PretreeSymbols : counts[s] > 0 => lengths[s] \in 1..15
<1>1. IsFiniteSet(PretreeSymbols) /\ Cardinality(PretreeSymbols) = 20 /\ PretreeSymbols \subseteq Int
  <2>1. 0 \in Int /\ 19 \in Int /\ ~(0 > 19) /\ 19 - 0 + 1 = 20  OBVIOUS
  <2>2. IsFiniteSet(0..19) /\ Cardinality(0..19) = 20  BY <2>1, FS_Interval
  <2> QED  BY <2>2 DEF PretreeSymbols
<1>2. DOMAIN counts = PretreeSymbols /\ IsFreqs(counts)  BY <1>1 DEF IsFreqs
<1>3. Occurring(counts) <= 2^15
  <2>1. Active(counts) \in SUBSET PretreeSymbols  BY DEF Active
  <2>2. Cardinality(Active(counts)) <= 20 /\ Cardinality(Active(counts)) \in Nat
    BY <1>1, <2>1, FS_Subset, FS_CardinalityType
  <2>3. 2^15 = 32768  BY SMT
  <2> QED  BY <2>2, <2>3, SMT DEF Occurring
<1>4. 15 \in 1..16 /\ {0, 1} \subseteq DOMAIN counts  BY <1>2 DEF PretreeSymbols
<1>5. \A s \in Active(counts) : BuildLengths(counts, 15)[s] \in 1..15
  BY <1>2, <1>3, <1>4, BuildLengthsComplete
<1> QED  BY <1>2, <1>5 DEF Active

-----------------------------------------------------------------------------
(* The source length *)

LEMMA SourceFacts ==
    ASSUME NEW list \in TokenLists
    PROVE  LET source == SourceLengths(list)
               n == Len(list)
           IN  /\ source \in [0..n -> Nat] /\ source[0] = 0
               /\ \A k \in 1..n : source[k] = source[k - 1] + list[k].length
               /\ source[n] < 2^24
<1> DEFINE n == Len(list)
           step == [p \in (1..n) \X Nat |-> p[2] + list[p[1]].length]
           Is(f) == f = [k \in 0..n |-> IF k = 0 THEN 0 ELSE f[k - 1] + list[k].length]
           source == SourceLengths(list)
<1>1. n \in Nat /\ n <= 32760 /\ \A k \in 1..n : list[k] \in Tokens  BY ListFacts
<1>2. \A k \in 1..n : list[k].length \in Nat /\ list[k].length <= 258
  <2> SUFFICES ASSUME NEW k \in 1..n  PROVE list[k].length \in Nat /\ list[k].length <= 258
    OBVIOUS
  <2>1. list[k] \in Tokens  BY <1>1
  <2>2. CASE list[k].kind = "match"  BY <2>1, <2>2, MatchParts
  <2>3. CASE list[k].kind # "match"
    <3>1. list[k].length = 1  BY <2>1, <2>3 DEF Tokens
    <3> QED  BY <3>1
  <2> QED  BY <2>2, <2>3
<1>3. source = CHOOSE f : Is(f)  BY DEF SourceLengths
<1> HIDE DEF n
<1>4. step \in [(1..n) \X Nat -> Nat]
  <2> SUFFICES ASSUME NEW p \in (1..n) \X Nat  PROVE p[2] + list[p[1]].length \in Nat  OBVIOUS
  <2>1. p[1] \in 1..n /\ p[2] \in Nat  OBVIOUS
  <2>2. list[p[1]].length \in Nat  BY <1>2, <2>1
  <2> QED  BY <2>1, <2>2
<1>5. \A k \in 1..n, x \in Nat : step[<<k, x>>] = x + list[k].length  OBVIOUS
<1> HIDE DEF step, source
<1>17. n \in Nat /\ 0 \in Nat  BY <1>1
<1>6. PICK g : Recurs(g, 0, step, Nat, n)  BY ONLY <1>4, <1>17, Recursion
<1>7. g \in [0..n -> Nat] /\ g[0] = 0 /\ \A k \in 1..n : g[k] = step[<<k, g[k - 1]>>]
  BY <1>6 DEF Recurs
<1>8. \A k \in 0..n : k # 0 => k \in 1..n /\ k - 1 \in 0..n  BY <1>1
<1>9. \A k \in 0..n : g[k] = IF k = 0 THEN 0 ELSE g[k - 1] + list[k].length  BY <1>5, <1>7, <1>8
<1>10. g = [k \in 0..n |-> g[k]]  BY <1>7
<1>11. Is(g)  BY <1>9, <1>10
<1>12. Is(source)  BY <1>3, <1>11
<1>13. source[0] = 0 /\ \A k \in 1..n : source[k] = source[k - 1] + list[k].length
  <2>1. 0 \in 0..n /\ \A k \in 1..n : k \in 0..n /\ k # 0  BY <1>1
  <2> QED  BY <1>12, <2>1
<1> DEFINE Bad == {k \in 0..n : ~(source[k] \in Nat /\ source[k] <= 258 * k)}
<1>14. Bad = {}
  <2> SUFFICES ASSUME Bad # {}  PROVE FALSE  OBVIOUS
  <2>1. PICK k \in Bad : \A j \in Bad : k <= j
    <3>1. Bad \in SUBSET Nat  BY <1>1
    <3> HIDE DEF Bad
    <3> QED  BY <3>1, LeastNat
  <2>2. k \in 0..n /\ ~(source[k] \in Nat /\ source[k] <= 258 * k)  OBVIOUS
  <2>3. k # 0  BY <1>13, <2>2
  <2>4. k \in 1..n /\ k - 1 \in 0..n /\ ~(k <= k - 1)  BY <1>1, <2>2, <2>3
  <2>5. source[k - 1] \in Nat /\ source[k - 1] <= 258 * (k - 1)  BY <2>1, <2>4
  <2>6. source[k] = source[k - 1] + list[k].length  BY <1>13, <2>4
  <2>7. list[k].length \in Nat /\ list[k].length <= 258  BY <1>2, <2>4
  <2> QED  BY <2>2, <2>4, <2>5, <2>6, <2>7
<1>15. source \in [0..n -> Nat]
  <2>1. \A k \in 0..n : source[k] \in Nat  BY <1>14
  <2>2. DOMAIN source = 0..n /\ source = [k \in DOMAIN source |-> source[k]]  BY <1>12
  <2> QED  BY <2>1, <2>2
<1>16. source[n] < 2^24
  <2>1. n \in 0..n  BY <1>1
  <2>2. source[n] \in Nat /\ source[n] <= 258 * n  BY <1>14, <2>1
  <2> DEFINE x == source[n]
  <2>3. x \in Nat /\ x <= 258 * n  BY <2>2
  <2> HIDE DEF x
  <2>4. 2^24 = 16777216  BY SMT
  <2>5. x < 2^24  BY ONLY <1>1, <2>3, <2>4, SMT
  <2> QED  BY <2>5 DEF x
<1> QED  BY <1>13, <1>15, <1>16 DEF source, n

\* As long as tokens are to come there are bytes to come.
LEMMA SourceGrows ==
    ASSUME NEW list \in TokenLists, NEW k \in 0..Len(list)
    PROVE  LET source == SourceLengths(list)
               n == Len(list)
           IN  source[n] - source[k] >= 0 /\ (source[n] - source[k] = 0 <=> k = n)
<1> DEFINE source == SourceLengths(list)
           n == Len(list)
           Bad == {j \in 0..n : ~(source[n] >= source[n - j] /\ (j # 0 => source[n] > source[n - j]))}
<1>1. /\ source \in [0..n -> Nat]
      /\ \A j \in 1..n : source[j] = source[j - 1] + list[j].length
  BY SourceFacts
<1>2. n \in Nat /\ \A j \in 1..n : list[j].length \in Nat \ {0}
  <2>1. n \in Nat /\ \A j \in 1..n : list[j] \in Tokens  BY ListFacts
  <2> QED  BY <2>1, SymbolType
<1>3. k \in 0..n  OBVIOUS
<1> HIDE DEF source, n
<1>4. Bad = {}
  <2> SUFFICES ASSUME Bad # {}  PROVE FALSE  OBVIOUS
  <2>1. PICK j \in Bad : \A x \in Bad : j <= x
    <3>1. Bad \in SUBSET Nat  BY <1>2
    <3> HIDE DEF Bad
    <3> QED  BY <3>1, LeastNat
  <2>2. j \in 0..n /\ ~(source[n] >= source[n - j] /\ (j # 0 => source[n] > source[n - j]))
    OBVIOUS
  <2>3. source[n] \in Nat  BY <1>1, <1>2
  <2>4. j # 0
    <3>1. n - 0 = n  BY <1>2
    <3> QED  BY <2>2, <2>3, <3>1
  <2> DEFINE i == n - (j - 1)
  <2>5. j - 1 \in 0..n /\ ~(j <= j - 1) /\ i \in 1..n /\ i \in 0..n /\ i - 1 = n - j /\ n - j \in 0..n
    BY <1>2, <2>2, <2>4
  <2>6. source[n] >= source[i]  BY <2>1, <2>5
  <2> HIDE DEF i
  <2>7. source[i] = source[n - j] + list[i].length  BY <1>1, <2>5
  <2>8. source[n - j] \in Nat /\ source[i] \in Nat /\ list[i].length \in Nat \ {0}
    BY <1>1, <1>2, <2>5
  <2>9. source[n] > source[n - j]  BY <2>3, <2>6, <2>7, <2>8
  <2> QED  BY <2>2, <2>3, <2>8, <2>9
<1>5. n - k \in 0..n /\ n - (n - k) = k /\ (n - k = 0 <=> k = n) /\ n \in 0..n  BY <1>2, <1>3
<1>6. source[n] >= source[k] /\ (n - k # 0 => source[n] > source[k])  BY <1>4, <1>5
<1>7. source[n] \in Nat /\ source[k] \in Nat  BY <1>1, <1>3, <1>5
<1> QED  BY <1>5, <1>6, <1>7 DEF source, n

-----------------------------------------------------------------------------
(* The body of a block *)

\* The codes that stand for the tokens of the block.
InStream == {Coding(tokens[k]) : k \in DOMAIN tokens}

\* The reader has made the first r tokens, and the codes of the others follow.
Reading(r) ==
    /\ r \in 0..Len(tokens)
    /\ received \in Seq(Tokens) /\ Len(received) = r
    /\ \A k \in 1..r : received[k] = tokens[k]
    /\ body \in Seq(InStream) /\ Len(body) = Len(tokens) - r
    /\ \A k \in 1..Len(body) : body[k] = Coding(tokens[r + k])
    /\ remaining = SourceLengths(tokens)[Len(tokens)] - SourceLengths(tokens)[r]

\* The main tree is the one of the tokens.
Underway ==
    /\ tokens \in TokenLists /\ tokens # << >>
    /\ new_lengths = BuildLengths(CollectFreqs(tokens), 16)

BlocksInv ==
    /\ IInv /\ PlanIsCounted
    /\ phase # "idle" => Underway
    /\ phase \in {"analyse", "decode"} =>
          received = << >> /\ body = << >> /\ remaining = SourceLengths(tokens)[Len(tokens)]
    /\ phase = "decode" => pretree_lengths = BuildLengths(freqs, 15)
    /\ phase = "body" => \E r \in Nat : Reading(r)
    /\ phase = "idle" => received = tokens /\ body = << >>

LEMMA InitBlocksEstablishes == InitBlocks => BlocksInv
<1> SUFFICES ASSUME InitBlocks  PROVE BlocksInv  OBVIOUS
<1>1. Init /\ received = tokens /\ body = << >>  BY DEF InitBlocks
<1>2. IInv  BY <1>1, InitEstablishes
<1>3. PlanIsCounted /\ phase = "idle"  BY <1>1 DEF Init, PlanIsCounted
<1> QED  BY <1>1, <1>2, <1>3 DEF BlocksInv

LEMMA WriteBlockKeeps ==
    ASSUME BlocksInv, NEW list \in TokenLists, WriteBlock(list)
    PROVE  BlocksInv'
<1> DEFINE lengths == BuildLengths(CollectFreqs(list), 16)
<1>1. /\ list # << >> /\ BeginBlock(lengths) /\ tokens' = list /\ received' = << >>
      /\ remaining' = SourceLengths(list)[Len(list)] % 2^24 /\ body' = body
  BY DEF WriteBlock
<1>2. lengths \in CodeLengths  BY <1>1, LengthsOfTokens
<1> HIDE DEF lengths
<1>3. phase = "idle" /\ phase' = "analyse" /\ new_lengths' = lengths
  BY <1>1 DEF BeginBlock, BeginSection
<1>4. Next  BY <1>1, <1>2 DEF Next
<1>5. IInv' /\ PlanIsCounted'
  BY <1>4, StepKeepsInvariant, StepKeepsCounts DEF BlocksInv
<1>6. remaining' = SourceLengths(list)[Len(list)]
  <2> DEFINE x == SourceLengths(list)[Len(list)]
             m == 2^24
  <2>1. x \in Nat /\ x < m
    <3>1. Len(list) \in 0..Len(list)
      <4>1. Len(list) \in Nat  BY ListFacts
      <4> QED  BY <4>1
    <3> QED  BY <3>1, SourceFacts
  <2>2. m = 16777216  BY SMT
  <2>3. remaining' = x % m  BY <1>1
  <2> HIDE DEF x, m
  <2>4. x % m = x  BY <2>1, <2>2, SMT
  <2> QED  BY <2>3, <2>4 DEF x
<1>7. body = << >>  BY <1>3 DEF BlocksInv
<1>8. Underway'  BY <1>1, <1>3 DEF Underway, lengths
<1> QED  BY <1>1, <1>3, <1>5, <1>6, <1>7, <1>8 DEF BlocksInv

\* A step of the trees leaves the block as it is.
LEMMA TreeStepKeeps ==
    ASSUME BlocksInv, Next, phase # "idle", phase' # "body", phase' # "idle", phase # "body",
           UNCHANGED <<tokens, new_lengths, remaining, body, received>>,
           phase' = "decode" => pretree_lengths' = BuildLengths(freqs', 15)
    PROVE  BlocksInv'
<1>1. IInv' /\ PlanIsCounted'  BY StepKeepsInvariant, StepKeepsCounts DEF BlocksInv
<1>2. Underway'  BY DEF BlocksInv, Underway
<1>3. phase \in {"analyse", "decode"}  BY DEF BlocksInv, IInv, TypeOK
<1>4. received = << >> /\ body = << >> /\ remaining = SourceLengths(tokens)[Len(tokens)]
  BY <1>3 DEF BlocksInv
<1> QED  BY <1>1, <1>2, <1>4 DEF BlocksInv

LEMMA SectionKeeps ==
    ASSUME BlocksInv, EmitSection \/ OtherSectionStep
    PROVE  BlocksInv'
<1>1. CASE EmitSection
  <2>1. Emit /\ pretree_lengths' = BuildLengths(freqs, 15)
        /\ UNCHANGED <<tokens, remaining, body, received>>
    BY <1>1 DEF EmitSection
  <2>2. phase = "analyse" /\ phase' = "decode" /\ UNCHANGED <<new_lengths, freqs>>
    BY <2>1 DEF Emit
  <2>3. Next  BY <2>1 DEF Next, SectionStep
  <2> QED  BY <2>1, <2>2, <2>3, TreeStepKeeps
<1>2. CASE OtherSectionStep
  <2>1. Analyse \/ Decode \/ (section = "literal" /\ EndSection)  BY <1>2 DEF OtherSectionStep
  <2>2. UNCHANGED <<tokens, pretree_lengths, remaining, body, received>>
    BY <1>2 DEF OtherSectionStep, bodyVars
  <2>3. Next  BY <2>1 DEF Next, SectionStep
  <2>4. CASE Analyse
    <3>1. phase = "analyse" /\ phase' = "analyse" /\ new_lengths' = new_lengths  BY <2>4 DEF Analyse
    <3> QED  BY <2>2, <2>3, <3>1, TreeStepKeeps
  <2>5. CASE Decode
    <3>1. phase = "decode" /\ phase' = "decode" /\ UNCHANGED <<new_lengths, freqs>>
      BY <2>5 DEF Decode
    <3>2. pretree_lengths' = BuildLengths(freqs', 15)  BY <2>2, <3>1 DEF BlocksInv
    <3> QED  BY <2>2, <2>3, <3>1, <3>2, TreeStepKeeps
  <2>6. CASE section = "literal" /\ EndSection
    <3>1. phase = "decode" /\ phase' = "analyse" /\ new_lengths' = new_lengths
      BY <2>6 DEF EndSection, BeginSection
    <3> QED  BY <2>2, <2>3, <3>1, TreeStepKeeps
  <2> QED  BY <2>1, <2>4, <2>5, <2>6
<1> QED  BY <1>1, <1>2

LEMMA WriteBodyKeeps ==
    ASSUME BlocksInv, WriteBody
    PROVE  BlocksInv'
<1>1. /\ section = "match" /\ EndSection
      /\ body' = [k \in DOMAIN tokens |-> Coding(tokens[k])]
      /\ UNCHANGED <<tokens, remaining, received>>
  BY DEF WriteBody
<1>2. phase = "decode" /\ phase' = "body" /\ new_lengths' = new_lengths
  BY <1>1 DEF EndSection
<1>3. Next  BY <1>1 DEF Next, SectionStep
<1>4. IInv' /\ PlanIsCounted'  BY <1>3, StepKeepsInvariant, StepKeepsCounts DEF BlocksInv
<1>5. Underway /\ received = << >> /\ remaining = SourceLengths(tokens)[Len(tokens)]
  BY <1>2 DEF BlocksInv
<1>6. Underway'  BY <1>1, <1>2, <1>5 DEF Underway
<1> DEFINE n == Len(tokens)
<1>7. n \in Nat /\ DOMAIN tokens = 1..n  BY <1>5, ListFacts DEF Underway
<1>8. SourceLengths(tokens)[0] = 0 /\ SourceLengths(tokens)[n] \in Nat
  <2>1. n \in 0..n  BY <1>7
  <2> QED  BY <1>5, <2>1, SourceFacts DEF Underway
<1>9. /\ body' \in Seq(InStream) /\ Len(body') = n
      /\ \A k \in 1..n : body'[k] = Coding(tokens[k])
  <2>1. body' = [k \in 1..n |-> Coding(tokens[k])]  BY <1>1, <1>7
  <2>2. \A k \in 1..n : Coding(tokens[k]) \in InStream  BY <1>7 DEF InStream
  <2> HIDE DEF n
  <2>3. body' \in [1..n -> InStream]  BY <2>1, <2>2
  <2>4. body' \in Seq(InStream)  BY <1>7, <2>3
  <2> QED  BY <1>7, <2>1, <2>3, <2>4
<1>10. InStream' = InStream /\ \A k : Coding(tokens[k])' = Coding(tokens[k])
  BY <1>1, <1>2 DEF InStream, Coding
<1>11. Reading(0)'
  <2>1. received' \in Seq(Tokens) /\ Len(received') = 0  BY <1>1, <1>5
  <2>2. Len(body') = n - 0 /\ 0 \in 0..n /\ \A k \in 1..n : 0 + k = k  BY <1>7, <1>9
  <2>3. \A k \in 1..Len(body') : body'[k] = Coding(tokens[0 + k])'  BY <1>9, <1>10, <2>2
  <2>4. remaining' = SourceLengths(tokens')[Len(tokens')] - SourceLengths(tokens')[0]
    BY <1>1, <1>5, <1>8
  <2>5. \A k \in 1..0 : received'[k] = tokens'[k]  OBVIOUS
  <2>6. body' \in Seq(InStream)'  BY <1>9, <1>10
  <2>7. 0 \in 0..Len(tokens')  BY <1>1, <2>2
  <2>8. Len(body') = Len(tokens') - 0  BY <1>1, <2>2
  <2> QED  BY <2>1, <2>3, <2>4, <2>5, <2>6, <2>7, <2>8 DEF Reading
<1> QED  BY <1>2, <1>4, <1>6, <1>11 DEF BlocksInv

\* The code in front stands for the next token and no other.
LEMMA NextTokenIsRight ==
    ASSUME BlocksInv, phase = "body", NEW r \in Nat, Reading(r), body # << >>,
           NEW symbol \in SymbolsOf(Head(body))
    PROVE  /\ r + 1 \in 1..Len(tokens) /\ tokens[r + 1] \in Tokens
           /\ TokenOf(symbol, Head(body)) = tokens[r + 1]
<1>1. Underway /\ literal_len = new_lengths  BY DEF BlocksInv, IInv
<1>2. tokens \in TokenLists /\ tokens # << >> /\ new_lengths = BuildLengths(CollectFreqs(tokens), 16)
  BY <1>1 DEF Underway
<1>3. /\ IsTree(new_lengths) /\ DOMAIN new_lengths = Entries
      /\ \A k \in 1..Len(tokens) : Symbol(tokens[k]) \in Entries /\ new_lengths[Symbol(tokens[k])] \in 1..16
  BY <1>2, LengthsOfTokens DEF CodeLengths
<1>4. body \in Seq(InStream) /\ Len(body) = Len(tokens) - r /\ r \in 0..Len(tokens)
  BY DEF Reading
<1>5. Len(tokens) \in Nat /\ \A k \in 1..Len(tokens) : tokens[k] \in Tokens  BY <1>2, ListFacts
<1>6. Len(body) \in Nat \ {0} /\ Head(body) = body[1]  BY <1>4
<1>7. r + 1 \in 1..Len(tokens) /\ 1 \in 1..Len(body)  BY <1>4, <1>5, <1>6
<1> DEFINE token == tokens[r + 1]
           own == Symbol(token)
           code == Coding(token)
<1>8. body[1] = code
  <2>1. \A k \in 1..Len(body) : body[k] = Coding(tokens[r + k])  BY DEF Reading
  <2> QED  BY <1>7, <2>1
<1>9. token \in Tokens  BY <1>5, <1>7
<1>10. own \in Entries /\ new_lengths[own] \in 1..16  BY <1>3, <1>7
<1>11. code.bits = WrittenCode(new_lengths, own) /\ code.width = new_lengths[own]  BY DEF Coding
<1>12. Head(body) = code  BY <1>6, <1>8
<1> HIDE DEF token, own, code
<1>13. symbol \in Coded(new_lengths) /\ new_lengths[symbol] = code.width
       /\ WrittenCode(new_lengths, symbol) = code.bits
  BY <1>1, <1>12 DEF SymbolsOf
<1>14. own \in Coded(new_lengths)  BY <1>3, <1>10 DEF Coded
<1>15. symbol = own  BY <1>3, <1>11, <1>13, <1>14, WrittenCodesDiffer
<1>16. TokenOf(symbol, Head(body)) = token
  BY <1>9, <1>12, <1>15, TokenComesBack DEF own, code
<1> QED  BY <1>7, <1>9, <1>16 DEF token

LEMMA ReadTokenKeeps ==
    ASSUME BlocksInv, ReadToken
    PROVE  BlocksInv'
<1>1. /\ phase = "body" /\ body # << >> /\ body' = Tail(body)
      /\ UNCHANGED <<prev_lengths, new_lengths, literal_len, section, phase, index, ops, freqs, filled>>
      /\ UNCHANGED pretreeVars /\ tokens' = tokens
  BY DEF ReadToken, pretreeVars
<1>2. PICK symbol \in SymbolsOf(Head(body)) :
          LET token == TokenOf(symbol, Head(body))
          IN  received' = Append(received, token) /\ remaining' = remaining - token.length
  BY DEF ReadToken
<1>3. PICK r \in Nat : Reading(r)  BY <1>1 DEF BlocksInv
<1> DEFINE token == tokens[r + 1]
<1>4. r + 1 \in 1..Len(tokens) /\ token \in Tokens /\ TokenOf(symbol, Head(body)) = token
  BY <1>1, <1>3, NextTokenIsRight
<1>5. received' = Append(received, token) /\ remaining' = remaining - token.length
  BY <1>2, <1>4
<1>6. Underway /\ tokens \in TokenLists  BY <1>1 DEF BlocksInv, Underway
<1>7. Underway'  BY <1>1, <1>6 DEF Underway
<1>8. IInv' /\ PlanIsCounted'  BY <1>1, StepKeepsInvariant, StepKeepsCounts DEF BlocksInv
<1>9. InStream' = InStream /\ \A k : Coding(tokens[k])' = Coding(tokens[k])
  BY <1>1 DEF InStream, Coding
<1> DEFINE n == Len(tokens)
           q == r + 1
           source == SourceLengths(tokens)
<1>10. /\ n \in Nat /\ r \in 0..n /\ q \in 1..n /\ q \in Nat /\ q - 1 = r
       /\ body \in Seq(InStream) /\ Len(body) = n - r
  <2>1. n \in Nat  BY <1>6, ListFacts
  <2> QED  BY <1>3, <1>4, <2>1 DEF Reading
<1>11. /\ received' \in Seq(Tokens) /\ Len(received') = q
       /\ \A k \in 1..q : received'[k] = tokens'[k]
  <2>1. received \in Seq(Tokens) /\ Len(received) = r /\ \A k \in 1..r : received[k] = tokens[k]
    BY <1>3 DEF Reading
  <2> HIDE DEF token
  <2>2. /\ received' \in Seq(Tokens) /\ Len(received') = r + 1
        /\ \A k \in 1..r : received'[k] = received[k] /\ received'[r + 1] = token
    BY <1>4, <1>5, <2>1, AppendProperties
  <2>3. \A k \in 1..q : k \in 1..r \/ k = r + 1  BY <1>10
  <2>4. received'[r + 1] = token  BY <1>4, <1>5, <2>1, AppendProperties
  <2> QED  BY <1>1, <2>1, <2>2, <2>3, <2>4 DEF token
<1>12. /\ body' \in Seq(InStream) /\ Len(body') = n - q
       /\ \A k \in 1..Len(body') : body'[k] = body[k + 1]
  <2> HIDE DEF n
  <2>1. body' \in Seq(InStream) /\ Len(body') = Len(body) - 1
        /\ \A k \in 1..Len(body') : body'[k] = body[k + 1]
    BY <1>1, <1>10, HeadTailProperties
  <2> QED  BY <1>10, <2>1
<1>13. \A k \in 1..Len(body') : body'[k] = Coding(tokens[q + k])'
  <2> SUFFICES ASSUME NEW k \in 1..Len(body')  PROVE body'[k] = Coding(tokens[q + k])'
    OBVIOUS
  <2>1. k + 1 \in 1..Len(body) /\ r + (k + 1) = q + k  BY <1>10, <1>12
  <2>2. \A j \in 1..Len(body) : body[j] = Coding(tokens[r + j])  BY <1>3 DEF Reading
  <2>3. body[k + 1] = Coding(tokens[q + k])  BY <2>1, <2>2
  <2> QED  BY <1>9, <1>12, <2>3
<1>14. remaining' = source[n] - source[q]
  <2>1. remaining = source[n] - source[r]  BY <1>3 DEF Reading
  <2>2. source \in [0..n -> Nat] /\ source[q] = source[q - 1] + tokens[q].length
    BY <1>6, <1>10, SourceFacts
  <2>3. token.length \in Nat  BY <1>4, SymbolType
  <2> HIDE DEF source, n
  <2>4. source[n] \in Nat /\ source[r] \in Nat
    <3>1. n \in 0..n  BY <1>10
    <3> QED  BY <1>10, <2>2, <3>1
  <2>5. source[q] = source[r] + token.length  BY <1>10, <2>2
  <2> HIDE DEF token, q
  <2> QED  BY <1>5, <2>1, <2>3, <2>4, <2>5
<1>15. Reading(q)'
  <2>1. q \in 0..Len(tokens') /\ Len(body') = Len(tokens') - q  BY <1>1, <1>10, <1>12
  <2>2. remaining' = SourceLengths(tokens')[Len(tokens')] - SourceLengths(tokens')[q]
    BY <1>1, <1>14
  <2>3. body' \in Seq(InStream)'  BY <1>9, <1>12
  <2> HIDE DEF q
  <2> QED  BY <1>11, <1>13, <2>1, <2>2, <2>3 DEF Reading
<1>16. \E x \in Nat : Reading(x)'  BY <1>10, <1>15
<1> QED  BY <1>1, <1>7, <1>8, <1>16 DEF BlocksInv

LEMMA EndOfBlockKeeps ==
    ASSUME BlocksInv, EndOfBlock
    PROVE  BlocksInv'
<1>1. remaining = 0 /\ EndBlock /\ UNCHANGED <<tokens, pretree_lengths, remaining, body, received>>
  BY DEF EndOfBlock, bodyVars
<1>2. phase = "body" /\ phase' = "idle"  BY <1>1 DEF EndBlock
<1>3. Next  BY <1>1 DEF Next
<1>4. IInv' /\ PlanIsCounted'  BY <1>3, StepKeepsInvariant, StepKeepsCounts DEF BlocksInv
<1>5. PICK r \in Nat : Reading(r)  BY <1>2 DEF BlocksInv
<1>6. tokens \in TokenLists  BY <1>2 DEF BlocksInv, Underway
<1>7. Len(tokens) \in Nat /\ tokens \in Seq(Tokens)  BY <1>6, ListFacts
<1>8. r \in 0..Len(tokens) /\ remaining = SourceLengths(tokens)[Len(tokens)] - SourceLengths(tokens)[r]
  BY <1>5 DEF Reading
<1>9. r = Len(tokens)  BY <1>1, <1>6, <1>8, SourceGrows
<1>10. received = tokens
  <2>1. received \in Seq(Tokens) /\ Len(received) = r /\ \A k \in 1..r : received[k] = tokens[k]
    BY <1>5 DEF Reading
  <2> QED  BY <1>7, <1>9, <2>1, SeqEqual
<1>11. body = << >>
  <2>1. body \in Seq(InStream) /\ Len(body) = Len(tokens) - r  BY <1>5 DEF Reading
  <2>2. Len(body) = 0  BY <1>7, <1>9, <2>1
  <2> QED  BY <2>1, <2>2, EmptyByLength
<1> QED  BY <1>1, <1>2, <1>4, <1>10, <1>11 DEF BlocksInv

LEMMA BlocksStutterKeeps ==
    ASSUME BlocksInv, UNCHANGED vars
    PROVE  BlocksInv'
<1>1. /\ UNCHANGED <<prev_lengths, new_lengths, literal_len, section, phase, index, ops, freqs, filled>>
      /\ UNCHANGED pretreeVars
      /\ UNCHANGED <<tokens, pretree_lengths, remaining, body, received>>
  BY DEF vars, pretreeVars, bodyVars
<1>2. IInv' /\ PlanIsCounted'  BY <1>1, StepKeepsInvariant, StepKeepsCounts DEF BlocksInv
<1>3. Underway' <=> Underway  BY <1>1 DEF Underway
<1>4. \A r \in Nat : Reading(r)' <=> Reading(r)  BY <1>1 DEF Reading, InStream, Coding
<1> QED  BY <1>1, <1>2, <1>3, <1>4 DEF BlocksInv

\* The inductive invariant of the blocks.
THEOREM BlocksInvariant == SpecBlocks => []BlocksInv
<1>1. BlocksInv /\ [NextBlocks]_vars => BlocksInv'
  <2> SUFFICES ASSUME BlocksInv, [NextBlocks]_vars  PROVE BlocksInv'  OBVIOUS
  <2>1. CASE \E list \in TokenLists : WriteBlock(list)  BY <2>1, WriteBlockKeeps
  <2>2. CASE EmitSection \/ OtherSectionStep  BY <2>2, SectionKeeps
  <2>3. CASE WriteBody  BY <2>3, WriteBodyKeeps
  <2>4. CASE ReadToken  BY <2>4, ReadTokenKeeps
  <2>5. CASE EndOfBlock  BY <2>5, EndOfBlockKeeps
  <2>6. CASE UNCHANGED vars  BY <2>6, BlocksStutterKeeps
  <2> QED  BY <2>1, <2>2, <2>3, <2>4, <2>5, <2>6 DEF NextBlocks
<1> QED  BY <1>1, InitBlocksEstablishes, PTL DEF SpecBlocks

\* Whatever token lists the blocks are written for, one after another, the
\* reader makes the tokens they were written for.
THEOREM TokensComeBack == SpecBlocks => []TokensSurvive
<1>1. BlocksInv => TokensSurvive  BY DEF BlocksInv, IInv, TokensSurvive
<1> QED  BY <1>1, BlocksInvariant, PTL

\* With the real package-merge and the real counts every symbol that is
\* written has a code, in the pretree and in the main tree.
THEOREM SymbolsHaveCodes == SpecBlocks => []EverySymbolHasACode
<1>1. BlocksInv => EverySymbolHasACode
  <2> SUFFICES ASSUME BlocksInv  PROVE EverySymbolHasACode  OBVIOUS
  <2>1. ASSUME phase = "decode", NEW k \in DOMAIN ops
        PROVE  /\ pretree_lengths[ops[k].sym] \in 1..15
               /\ ops[k].sym = 19 => pretree_lengths[ops[k].delta] \in 1..15
    <3>1. pretree_lengths = BuildLengths(freqs, 15)  BY <2>1 DEF BlocksInv
    <3>2. ops \in Seq(OpType) /\ freqs \in [PretreeSymbols -> Nat]  BY DEF BlocksInv, IInv, TypeOK
    <3>3. ops[k] \in OpType  BY <3>2
    <3>4. ops[k].sym \in PretreeSymbols /\ ops[k].delta \in PretreeSymbols
      BY <3>3 DEF OpType, PretreeSymbols
    <3>5. freqs[ops[k].sym] > 0 /\ (ops[k].sym = 19 => freqs[ops[k].delta] > 0)
      BY DEF BlocksInv, PlanIsCounted
    <3> QED  BY <3>1, <3>2, <3>4, <3>5, LengthsOfPretree
  <2>2. ASSUME phase = "body", NEW k \in DOMAIN body
        PROVE  body[k].width \in 1..16
    <3>1. Underway /\ \E r \in Nat : Reading(r)  BY <2>2 DEF BlocksInv
    <3>2. body[k] \in InStream
      <4>1. body \in Seq(InStream)  BY <3>1 DEF Reading
      <4> QED  BY <4>1
    <3>3. PICK j \in DOMAIN tokens : body[k] = Coding(tokens[j])  BY <3>2 DEF InStream
    <3>4. j \in 1..Len(tokens) /\ new_lengths[Symbol(tokens[j])] \in 1..16
      BY SMTT(30), <3>1, ListFacts, LengthsOfTokens DEF Underway
    <3> QED  BY <3>3, <3>4 DEF Coding
  <2> QED  BY <2>1, <2>2 DEF EverySymbolHasACode
<1> QED  BY <1>1, BlocksInvariant, PTL

\* The two sides hold the same lengths when real blocks are written as well.
THEOREM BlocksAreInStep == SpecBlocks => []LengthsInStep
<1>1. BlocksInv => LengthsInStep  BY DEF BlocksInv, IInv, LengthsInStep
<1> QED  BY <1>1, BlocksInvariant, PTL
=============================================================================
