---------------------------- MODULE HuffmanTable ----------------------------
(***************************************************************************)
(* huffman/decode.rs: make_decode_table builds a table of two levels from  *)
(* code lengths, decode_symbol looks codes up in it.  Lengths come from    *)
(* build_lengths, or from an archive and may then be anything the bits can *)
(* say.                                                                    *)
(*                                                                         *)
(* The root is indexed by the next TableSize bits of the stream; an entry  *)
(* below NumberSymbols is a symbol, a higher one the number of a node whose*)
(* two entries lie at twice that number.  Zero stands for symbol 0 and for *)
(* an entry that is still free.  One step places one short code, descends  *)
(* one node of a long code, or reads one piece of a code.                  *)
(***************************************************************************)
EXTENDS HuffmanCodes

CONSTANTS NumberSymbols, TableSize,
          LongestCode,   \* longest length in the arrays; also the lookup's supply of bits
          Frequencies,   \* frequencies the writer meets
          Limits,        \* max_len of build_lengths
          ReadLengths    \* arrays a reader meets

\* make_decode_table asserts that node numbers start above the symbols; callers
\* of build_lengths leave room for the symbols under the limit, and the partner
\* of a single symbol needs a second one.
ASSUME TableAssumption ==
    /\ TableSize \in 1..12 /\ NumberSymbols \in Nat \ {0, 1}
    /\ 2^(TableSize - 1) >= NumberSymbols
    /\ LongestCode \in TableSize..16
    /\ Frequencies \subseteq [0..(NumberSymbols - 1) -> Nat]
    /\ Limits \subseteq 1..LongestCode
    /\ \A max_len \in Limits : NumberSymbols <= 2^max_len
    /\ ReadLengths \subseteq [0..(NumberSymbols - 1) -> 0..LongestCode]

VARIABLES
    freqs,      \* history: the frequencies the lengths were built from, or << >>
    limit,      \* history: the limit they were built under, or 0
    lengths,    \* lengths[], per symbol
    phase,      \* "short", "long", "descend": passes 1 and 2; "ready", "bad";
                \* "walk", "decoded": decode_symbol
    placed,     \* number of codes placed so far
    pos,        \* canonical position; in pass 2 shifted up by 16 bits
    table,      \* table[]
    next_secondary,
    leaf,       \* entry the descent has come to
    fill,       \* nodes descended on the way to the long code at hand
    control,    \* bits of the stream from here on, the next one lowest
    consumed,   \* bits of it consumed
    sym         \* entry found by the lookup

building == <<lengths, placed, pos, table, next_secondary, leaf, fill>>
lookup == <<control, consumed, sym>>
vars == <<freqs, limit, phase, building, lookup>>

Symbols == 0..(NumberSymbols - 1)
TableMask == 2^TableSize
Total == TableMask + 4 * NumberSymbols

Start ==
    /\ phase = "short" /\ placed = 0 /\ pos = 0
    /\ table = [i \in 0..(Total - 1) |-> 0]
    /\ next_secondary = TableMask \div 2
    /\ leaf = 0 /\ fill = 0
    /\ control = 0 /\ consumed = 0 /\ sym = 0

Init ==
    /\ Start
    /\ \/ /\ freqs \in Frequencies /\ limit \in Limits
          /\ lengths = BuildLengths(freqs, limit)
       \/ /\ freqs = << >> /\ limit = 0
          /\ lengths \in ReadLengths

-----------------------------------------------------------------------------
(* make_decode_table *)

\* The next symbol in the order of the loops: by length, then by number.
Earlier(lens, s) ==
    {t \in Coded(lens) : lens[t] < lens[s] \/ (lens[t] = lens[s] /\ t < s)}
IsNext(s) == s \in Coded(lengths) /\ Cardinality(Earlier(lengths, s)) = placed
NoneLeft(longest) == \A s \in Symbols : IsNext(s) => lengths[s] > longest

\* Pass 1: the entries whose low bits are the reversed code.
Filled(s) == {ReverseBits(pos, TableSize) + k * 2^lengths[s] :
                 k \in 0..(2^(TableSize - lengths[s]) - 1)}

PlaceShort ==
    /\ phase = "short"
    /\ \E s \in Symbols :
          /\ IsNext(s) /\ lengths[s] <= TableSize
          /\ pos' = pos + 2^(TableSize - lengths[s])
          /\ IF pos' > TableMask
             THEN phase' = "bad" /\ UNCHANGED <<table, placed>>
             ELSE /\ table' = [i \in DOMAIN table |-> IF i \in Filled(s) THEN s ELSE table[i]]
                  /\ placed' = placed + 1
                  /\ phase' = phase
    /\ UNCHANGED <<freqs, limit, lengths, next_secondary, leaf, fill, lookup>>

\* The root is full, or the unused part of it is cleared for pass 2.
Unused == {ReverseBits(p, TableSize) : p \in pos..(TableMask - 1)}
EndShort ==
    /\ phase = "short" /\ NoneLeft(TableSize)
    /\ IF pos = TableMask
       THEN phase' = "ready" /\ UNCHANGED <<table, pos>>
       ELSE /\ phase' = "long"
            /\ table' = [i \in DOMAIN table |-> IF i \in Unused THEN 0 ELSE table[i]]
            /\ pos' = pos * 2^16
    /\ UNCHANGED <<freqs, limit, lengths, placed, next_secondary, leaf, fill, lookup>>

\* Pass 2 takes up the next code at its root entry.
BeginLong ==
    /\ phase = "long"
    /\ \E s \in Symbols : IsNext(s)
    /\ leaf' = ReverseBits(pos \div 2^16, TableSize) /\ fill' = 0
    /\ phase' = "descend"
    /\ UNCHANGED <<freqs, limit, lengths, placed, pos, table, next_secondary, lookup>>

\* The entry of the node n to follow, by bit (15 - fill) of the position.
\* Faulty: by the bit above.
BranchByBitAbove(n) == 2 * n + ((pos \div 2^(16 - fill)) % 2)
Branch(n) == 2 * n + ((pos \div 2^(15 - fill)) % 2)

Allocated == [table EXCEPT ![2 * next_secondary] = 0, ![2 * next_secondary + 1] = 0,
                           ![leaf] = next_secondary]

\* One level down, over a new node where the entry is free.
Descend ==
    /\ phase = "descend"
    /\ \E s \in Symbols : IsNext(s) /\ fill < lengths[s] - TableSize
    /\ IF table[leaf] # 0
       THEN /\ leaf' = Branch(table[leaf]) /\ fill' = fill + 1
            /\ UNCHANGED <<phase, table, next_secondary>>
       ELSE IF 2 * next_secondary + 1 >= Total
       THEN phase' = "bad" /\ UNCHANGED <<table, next_secondary, leaf, fill>>
       ELSE /\ table' = Allocated
            /\ next_secondary' = next_secondary + 1
            /\ leaf' = Branch(next_secondary) /\ fill' = fill + 1
            /\ phase' = phase
    /\ UNCHANGED <<freqs, limit, lengths, placed, pos, lookup>>

\* The end of the code: the symbol goes into the entry.
PlaceLong ==
    /\ phase = "descend"
    /\ \E s \in Symbols :
          /\ IsNext(s) /\ fill = lengths[s] - TableSize
          /\ table' = [table EXCEPT ![leaf] = s]
          /\ pos' = pos + 2^(16 - (lengths[s] - TableSize))
    /\ phase' = IF pos' > TableMask * 2^16 THEN "bad" ELSE "long"
    /\ placed' = placed + 1
    /\ UNCHANGED <<freqs, limit, lengths, next_secondary, leaf, fill, lookup>>

\* Faulty: whatever the codes cover is accepted.
EndLongUnchecked ==
    /\ phase = "long" /\ NoneLeft(16)
    /\ phase' = "ready"
    /\ UNCHANGED <<freqs, limit, building, lookup>>

EndLong ==
    /\ phase = "long" /\ NoneLeft(16)
    /\ phase' = IF pos = TableMask * 2^16 THEN "ready" ELSE "bad"
    /\ UNCHANGED <<freqs, limit, building, lookup>>

-----------------------------------------------------------------------------
(* decode_symbol, on any bits *)

Peek ==
    /\ phase = "ready"
    /\ control' \in 0..(2^LongestCode - 1)
    /\ sym' = table[control' % TableMask]
    /\ IF sym' < NumberSymbols
       THEN consumed' = lengths[sym'] /\ phase' = "decoded"
       ELSE consumed' = TableSize /\ phase' = "walk"
    /\ UNCHANGED <<freqs, limit, building>>

WalkBit ==
    /\ phase = "walk"
    /\ sym' = table[2 * sym + ((control \div 2^consumed) % 2)]
    /\ consumed' = consumed + 1
    /\ phase' = IF sym' < NumberSymbols THEN "decoded" ELSE phase
    /\ UNCHANGED <<freqs, limit, building, control>>

Next == PlaceShort \/ EndShort \/ BeginLong \/ Descend \/ PlaceLong \/ EndLong
        \/ Peek \/ WalkBit

Spec == Init /\ [][Next]_vars

-----------------------------------------------------------------------------
(* Properties *)

\* The room that the codes of up to l bits take, in units of a code of 16 bits.
Room(codes) ==
    LET room[l \in 0..16] ==
            IF l = 0 THEN 0 ELSE room[l - 1] + Cardinality(OfLength(codes, l)) * 2^(16 - l)
    IN  room
AllRoom == 2^16

\* A reference for build_lengths: a complete code for m symbols, given by how
\* many codes it has of each length, is one for m - 1 with a code split in two;
\* the cheapest way to use it gives the shorter codes to the heavier symbols.
Shapes[m \in 1..NumberSymbols] ==
    IF m = 1 THEN {[l \in 0..LongestCode |-> IF l = 0 THEN 1 ELSE 0]}
    ELSE UNION {{[c EXCEPT ![l] = @ - 1, ![l + 1] = @ + 2] :
                    l \in {n \in 0..(LongestCode - 1) : c[n] > 0}} : c \in Shapes[m - 1]}
LengthAt(shape, k) ==
    CHOOSE l \in 0..LongestCode :
        /\ MapThenSumSet(LAMBDA n : shape[n], 0..l) >= k
        /\ MapThenSumSet(LAMBDA n : shape[n], 0..(l - 1)) < k
Cost(shape) ==
    LET sorted == Sorted(freqs)
    IN  MapThenSumSet(LAMBDA k : LengthAt(shape, Len(sorted) + 1 - k) * freqs[sorted[k]],
                      DOMAIN sorted)
BuiltCost == MapThenSumSet(LAMBDA s : lengths[s] * freqs[s], Active(freqs))

\* build_lengths: the code is complete and within the limit, no symbol that
\* occurs is without a code, and no other code within the limit is cheaper.
LengthsAreOptimal ==
    phase = "short" /\ placed = 0 /\ limit # 0 /\ Active(freqs) # {} =>
        /\ Active(freqs) \subseteq Coded(lengths)
        /\ Room(lengths)[16] = AllRoom
        /\ \A s \in Symbols : lengths[s] <= limit
        /\ Cardinality(Active(freqs)) > 1 =>
              /\ Coded(lengths) = Active(freqs)
              /\ \A shape \in Shapes[Cardinality(Active(freqs))] :
                    (\A l \in (limit + 1)..LongestCode : shape[l] = 0) => BuiltCost <= Cost(shape)

\* A table whose root leaves room for longer codes is accepted only when they
\* fill it, and no complete code is refused.  So the codes the writer builds are
\* accepted, whatever the frequencies: they leave no gap, and their nodes fit
\* behind the root.
AcceptsCompleteCodes ==
    /\ phase = "ready" /\ Room(lengths)[TableSize] # AllRoom => Room(lengths)[16] = AllRoom
    /\ phase = "bad" => Room(lengths)[16] # AllRoom
    /\ limit # 0 /\ Active(freqs) # {} => phase # "bad"

\* The tree is "ill-formed and decoding aborts" unless the codes of all lengths
\* end exactly at the end of the room.  They need not when the codes up to the
\* root's size fill it: the codes behind them are not looked at.
AcceptsOnlyCompleteCodes == phase = "ready" => Room(lengths)[16] = AllRoom

\* On every bit string an accepted table finds, in bounds, the symbol whose
\* code the writer would have written at its front, and consumes that code.
LookupIsCanonical ==
    /\ phase = "walk" => 2 * sym + 1 < Total /\ consumed < LongestCode
    /\ phase = "decoded" =>
          /\ sym \in Coded(lengths) /\ consumed = lengths[sym]
          /\ control % 2^consumed = WrittenCode(lengths, sym)
=============================================================================
