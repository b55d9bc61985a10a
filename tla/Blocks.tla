------------------------------- MODULE Blocks -------------------------------
(***************************************************************************)
(* block.rs composed with the reader of its blocks: tokens become symbols  *)
(* with footers, their frequencies the code lengths of the block, and the  *)
(* lengths go out through the pretree.  The reader decodes the body with   *)
(* the lengths it has rebuilt itself, from the slot tables of its own.     *)
(*                                                                         *)
(* A code is a number with its length; what the bit streams do with it is  *)
(* in BitChannel, what the decode table makes of it in HuffmanTable.       *)
(***************************************************************************)
EXTENDS Pretree, Slots, HuffmanCodes

MaxMatch == 258
MaxDistance == 65276        \* MAX_MATCH_DISTANCE, 0xfefc
BlockTokenLimit == 32760    \* 0x7ff8

\* The tokens of the LZ77 side; a literal stands for one byte.
Tokens ==
    [kind : {"literal"}, byte : 0..(LiteralSymbols - 1), length : {1}, distance : {0}] \cup
    [kind : {"match"}, byte : {0}, length : MinMatch..MaxMatch, distance : 1..MaxDistance]

CONSTANT TokenLists   \* bound: the token lists a block may be written for

\* Main symbols are the literals and 16 by 32 matches, and the caller hands
\* over the tokens in chunks.
ASSUME BlocksAssumption ==
    /\ MainSymbols = LiteralSymbols + 512
    /\ \A list \in TokenLists : list \in Seq(Tokens) /\ Len(list) <= BlockTokenLimit

VARIABLES
    tokens,           \* the tokens of the block being written
    pretree_lengths,  \* code lengths of the pretree, as written before the operations
    remaining,        \* the reader's block_remaining
    body,             \* the codes of the body still in the stream
    received          \* tokens the reader has made of it

bodyVars == <<tokens, pretree_lengths, remaining, body, received>>
vars == <<pretreeVars, bodyVars>>

Literal(byte) == [kind |-> "literal", byte |-> byte, length |-> 1, distance |-> 0]
Match(length, distance) == [kind |-> "match", byte |-> 0, length |-> length, distance |-> distance]

InitBlocks ==
    /\ Init
    /\ tokens = << >> /\ body = << >> /\ received = << >>
    /\ pretree_lengths = [s \in PretreeSymbols |-> 0]
    /\ remaining = 0

-----------------------------------------------------------------------------
\* collect_freqs.
Symbol(token) ==
    IF token.kind = "literal" THEN token.byte
    ELSE MatchSymbol(LiteralSymbols, token.length, token.distance)

Occurrences(list, s) == Cardinality({k \in DOMAIN list : Symbol(list[k]) = s})
CollectFreqs(list) ==
    LET used == {Symbol(list[k]) : k \in DOMAIN list}
    IN  [s \in Entries |-> IF s \in used THEN Occurrences(list, s) ELSE 0]

\* How many bytes the first tokens of a list decode to.
SourceLengths(list) ==
    LET sum[k \in 0..Len(list)] == IF k = 0 THEN 0 ELSE sum[k - 1] + list[k].length
    IN  sum

\* A token in the body: its code, and the footers behind it.
Coding(token) ==
    LET symbol == Symbol(token)
        position == PositionSlot(token.distance)
        length == LengthSlot(token.length)
    IN  [bits |-> WrittenCode(new_lengths, symbol), width |-> new_lengths[symbol],
         position |-> IF token.kind = "match" THEN Footer(position, token.distance) ELSE 0,
         length |-> IF token.kind = "match" THEN Footer(length, token.length - MinMatch) ELSE 0]

\* write_block up to the trees; an empty list writes nothing.
WriteBlock(list) ==
    /\ list # << >>
    /\ BeginBlock(BuildLengths(CollectFreqs(list), 16))
    /\ tokens' = list /\ received' = << >>
    /\ remaining' = SourceLengths(list)[Len(list)] % 2^24
    /\ UNCHANGED <<pretree_lengths, body>>

\* encode_section: the pretree lengths come from the counts of its plan.
EmitSection ==
    /\ Emit
    /\ pretree_lengths' = BuildLengths(freqs, 15)
    /\ UNCHANGED <<tokens, remaining, body, received>>

OtherSectionStep ==
    /\ Analyse \/ Decode \/ (section = "literal" /\ EndSection)
    /\ UNCHANGED bodyVars

\* Both trees are out: the codes of the tokens follow.
WriteBody ==
    /\ section = "match" /\ EndSection
    /\ body' = [k \in DOMAIN tokens |-> Coding(tokens[k])]
    /\ UNCHANGED <<tokens, pretree_lengths, remaining, received>>

\* The symbol the reader's own lengths give to a code.
SymbolsOf(code) ==
    {s \in Coded(literal_len) : literal_len[s] = code.width /\ WrittenCode(literal_len, s) = code.bits}

\* The token of a symbol; the distance slot 0 stands for the last offset and
\* is never written.
TokenOf(symbol, code) ==
    IF symbol < LiteralSymbols THEN Literal(symbol)
    ELSE Match(Value(SymbolLength(LiteralSymbols, symbol), code.length) + MinMatch,
               Value(SymbolPosition(LiteralSymbols, symbol), code.position))

ReadToken ==
    /\ phase = "body" /\ remaining > 0 /\ body # << >>
    /\ \E symbol \in SymbolsOf(Head(body)) :
          LET token == TokenOf(symbol, Head(body))
          IN  /\ token.length <= remaining
              /\ received' = Append(received, token)
              /\ remaining' = remaining - token.length
    /\ body' = Tail(body)
    /\ UNCHANGED <<pretreeVars, tokens, pretree_lengths>>

EndOfBlock ==
    /\ remaining = 0 /\ EndBlock
    /\ UNCHANGED bodyVars

NextBlocks ==
    \/ \E list \in TokenLists : WriteBlock(list)
    \/ EmitSection \/ OtherSectionStep \/ WriteBody \/ ReadToken \/ EndOfBlock

SpecBlocks == InitBlocks /\ [][NextBlocks]_vars

-----------------------------------------------------------------------------
(* Properties *)

\* Every symbol that is written has a code to be written with, one that its
\* four bits in the header of the section (or the limit of 16) can express: a
\* symbol without one would take no bits and vanish.
EverySymbolHasACode ==
    /\ phase = "decode" =>
          \A k \in DOMAIN ops :
              /\ pretree_lengths[ops[k].sym] \in 1..15
              /\ ops[k].sym = 19 => pretree_lengths[ops[k].delta] \in 1..15
    /\ phase = "body" => \A k \in DOMAIN body : body[k].width \in 1..16

\* A block that was read gave the tokens it was written for, all of them and
\* no more, however the lengths of the blocks before it were.
TokensSurvive ==
    phase = "idle" => received = tokens /\ body = << >> /\ ops = << >>
=============================================================================
