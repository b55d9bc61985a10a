------------------------------ MODULE Pretree ------------------------------
(***************************************************************************)
(* huffman/pretree.rs: the code lengths of a block, written as differences *)
(* and runs against those of the block before, and read back in place.     *)
(*                                                                         *)
(* The main tree has two sections with parameters of their own.  For each  *)
(* the writer plans the operations (analyse_section), one per step; then   *)
(* they are in the stream, and the reader executes them (decode_section),  *)
(* one per step, on the array that still holds the lengths of the previous *)
(* block.  The two sides share nothing but the stream, so it is enough to  *)
(* let the reader finish a section before the writer begins the next.      *)
(***************************************************************************)
EXTENDS Integers, Sequences

CONSTANTS LiteralSymbols, MainSymbols

ASSUME SizesAssumption ==
    /\ LiteralSymbols \in Nat /\ MainSymbols \in Nat
    /\ 0 < LiteralSymbols /\ LiteralSymbols < MainSymbols

VARIABLES
    prev_lengths,   \* the writer's baseline
    new_lengths,    \* lengths of the block being written: main_lengths
    literal_len,    \* the reader's array
    section,        \* "literal" or "match"
    phase,          \* "idle", "analyse", "decode", "body"
    index,          \* the writer's i, counted from the start of the array
    ops,            \* operations planned, then those still in the stream
    freqs,          \* how often each pretree symbol is planned
    filled          \* the reader's i

pretreeVars == <<prev_lengths, new_lengths, literal_len, section, phase, index, ops, freqs, filled>>

Entries == 0..(MainSymbols - 1)
CodeLengths == [Entries -> 0..16]
PretreeSymbols == 0..19

First(sec) == IF sec = "literal" THEN 0 ELSE LiteralSymbols
End(sec)   == IF sec = "literal" THEN LiteralSymbols ELSE MainSymbols

\* impl Section.
RunThreshold(sec) == IF sec = "literal" THEN 4 ELSE 3
Sym17Base(sec) == IF sec = "literal" THEN 4 ELSE 3
Sym18Base(sec) == IF sec = "literal" THEN 20 ELSE 19
Sym19Base(sec) == IF sec = "literal" THEN 4 ELSE 3
Sym17Values(sec) == 16
Sym18Values(sec) == IF sec = "literal" THEN 32 ELSE 64
Sym19Values(sec) == 2
Sym17Max(sec) == Sym17Base(sec) + Sym17Values(sec) - 1
Sym18Max(sec) == Sym18Base(sec) + Sym18Values(sec) - 1
Sym19Max(sec) == Sym19Base(sec) + Sym19Values(sec) - 1

DeltaSymbol(prev, curr) == (prev - curr) % 17
ApplyDelta(prev, sym) == (prev - sym) % 17

AtMost(a, b) == IF a < b THEN a ELSE b

Init ==
    /\ prev_lengths = [s \in Entries |-> 0]
    /\ new_lengths = prev_lengths /\ literal_len = prev_lengths
    /\ section = "literal" /\ phase = "idle"
    /\ index = 0 /\ ops = << >> /\ filled = 0
    /\ freqs = [s \in PretreeSymbols |-> 0]

-----------------------------------------------------------------------------
(* The writer *)

\* The writer of a section starts over, with counts of zero.
BeginSection(sec) ==
    /\ section' = sec /\ phase' = "analyse"
    /\ index' = First(sec) /\ ops' = << >> /\ filled' = First(sec)
    /\ freqs' = [s \in PretreeSymbols |-> 0]

\* Faulty: the differences are taken to the lengths the block replaces one
\* block late.
BeginBlockOnOldBaseline(lengths) ==
    /\ phase = "idle"
    /\ prev_lengths' = prev_lengths
    /\ new_lengths' = lengths
    /\ BeginSection("literal")
    /\ UNCHANGED literal_len

\* write_block with these new lengths: main_lengths is replaced before
\* anything is written.
BeginBlock(lengths) ==
    /\ phase = "idle"
    /\ prev_lengths' = new_lengths
    /\ new_lengths' = lengths
    /\ BeginSection("literal")
    /\ UNCHANGED literal_len

\* run entries from index on are equal, and either the next one is not or the
\* scan stops there.
IsRun(run) ==
    /\ index + run <= End(section)
    /\ \A k \in index..(index + run - 1) : new_lengths[k] = new_lengths[index]
    /\ run < Sym18Max(section) /\ index + run < End(section) =>
          new_lengths[index + run] # new_lengths[index]

\* One operation with the entries it stands for.  "at" is history: the entry
\* it begins at.  The extra bits carry the run less its base.
Plan(sym, extra, delta, run) ==
    /\ ops' = Append(ops, [sym |-> sym, extra |-> extra, delta |-> delta, at |-> index])
    /\ index' = index + run

Count(syms) == freqs' = [s \in PretreeSymbols |-> freqs[s] + (IF s \in syms THEN 1 ELSE 0)]

Delta == DeltaSymbol(prev_lengths[index], new_lengths[index])

ShortZeroRun(run) ==
    /\ new_lengths[index] = 0 /\ run <= Sym17Max(section)
    /\ Plan(17, (run - Sym17Base(section)) % Sym17Values(section), 0, run)
    /\ Count({17})

LongZeroRun(run) ==
    /\ new_lengths[index] = 0 /\ run > Sym17Max(section)
    /\ Plan(18, (run - Sym18Base(section)) % Sym18Values(section), 0, run)
    /\ Count({18})

\* Faulty: the symbol of the difference is not counted.
SameRunUncounted(run) ==
    /\ new_lengths[index] # 0
    /\ LET capped == AtMost(run, Sym19Max(section))
       IN  Plan(19, (capped - Sym19Base(section)) % Sym19Values(section), Delta, capped)
    /\ Count({19})

\* Equal lengths other than zero: one difference for all of them.
SameRun(run) ==
    /\ new_lengths[index] # 0
    /\ LET capped == AtMost(run, Sym19Max(section))
       IN  Plan(19, (capped - Sym19Base(section)) % Sym19Values(section), Delta, capped)
    /\ Count({19, Delta})

Single == Plan(Delta, 0, 0, 1) /\ Count({Delta})

\* One round of analyse_section.
Analyse ==
    /\ phase = "analyse" /\ index < End(section)
    /\ \E run \in 1..Sym18Max(section) :
          /\ IsRun(run)
          /\ IF run < RunThreshold(section) THEN Single
             ELSE ShortZeroRun(run) \/ LongZeroRun(run) \/ SameRun(run)
    /\ UNCHANGED <<prev_lengths, new_lengths, literal_len, section, phase, filled>>

\* emit_section.
Emit ==
    /\ phase = "analyse" /\ index = End(section)
    /\ phase' = "decode"
    /\ UNCHANGED <<prev_lengths, new_lengths, literal_len, section, index, ops, freqs, filled>>

-----------------------------------------------------------------------------
(* The reader *)

\* The entries an operation makes the reader fill, and with what.
RunOf(op) ==
    CASE op.sym = 17 -> Sym17Base(section) + op.extra
      [] op.sym = 18 -> Sym18Base(section) + op.extra
      [] op.sym = 19 -> Sym19Base(section) + op.extra
      [] OTHER -> 1
LengthOf(op, old) ==
    CASE op.sym \in {17, 18} -> 0
      [] op.sym = 19 -> ApplyDelta(old, op.delta)
      [] OTHER -> ApplyDelta(old, op.sym)

\* One round of decode_section.
Decode ==
    /\ phase = "decode" /\ filled < End(section) /\ ops # << >>
    /\ LET op == Head(ops)
           end == AtMost(filled + RunOf(op), End(section))
       IN  /\ literal_len' = [k \in Entries |->
                  IF filled <= k /\ k < end THEN LengthOf(op, literal_len[filled])
                  ELSE literal_len[k]]
           /\ filled' = end
    /\ ops' = Tail(ops)
    /\ UNCHANGED <<prev_lengths, new_lengths, section, phase, index, freqs>>

\* The section is full: the other one follows, or the body of the block.
EndSection ==
    /\ phase = "decode" /\ filled = End(section)
    /\ IF section = "literal"
       THEN BeginSection("match")
       ELSE phase' = "body" /\ UNCHANGED <<section, index, ops, freqs, filled>>
    /\ UNCHANGED <<prev_lengths, new_lengths, literal_len>>

SectionStep == Analyse \/ Emit \/ Decode \/ EndSection

EndBlock ==
    /\ phase = "body"
    /\ phase' = "idle"
    /\ UNCHANGED <<prev_lengths, new_lengths, literal_len, section, index, ops, freqs, filled>>

Next == (\E lengths \in CodeLengths : BeginBlock(lengths)) \/ SectionStep \/ EndBlock

Spec == Init /\ [][Next]_pretreeVars

-----------------------------------------------------------------------------
(* Properties *)

\* Whenever a block's trees are read, writer and reader hold the same lengths:
\* the symbols of the body, and the differences of the next block, mean the
\* same to both.
LengthsInStep == phase \in {"body", "idle"} => literal_len = new_lengths

\* No operation is left in the stream when a section is full, and the stream
\* does not end before: what follows is read as what it is.
NothingLeftOver ==
    /\ phase = "body" => ops = << >>
    /\ phase = "decode" /\ filled = End(section) => ops = << >>
    /\ phase = "decode" /\ ops = << >> => filled = End(section)

\* Every pretree symbol that is written was counted, and so has a code.
PlanIsCounted ==
    \A k \in DOMAIN ops :
        freqs[ops[k].sym] > 0 /\ (ops[k].sym = 19 => freqs[ops[k].delta] > 0)
=============================================================================
