# amiga-lzx: specifications, model checking and proofs

TLA+ for the Rust crates `amiga-lzx` (the library) and `amiga-lzx-cli`. Paths below are relative to
`src/crates/amiga-lzx/src/` unless they say otherwise. `PROJECT.json` lists, for every definition, the lines it
models, and for every hazard the line where it bites.

## 1. The system

An LZX archive is an info header followed by entries; an entry is a header (with names) and a payload; consecutive
*merged* entries share one payload. Compression goes input → tokens → blocks → bits, decompression the other way.

```
 create                                   extract / list / test
   |                                         ^
 ArchiveWriter (archive/writer.rs)        ArchiveReader (archive/reader.rs)
   |  lz77::encode -> Vec<Token>             ^  decoder::decode(payload, size)
 lz77.rs - matcher.rs - hash.rs            Decoder (decoder.rs)
   |  BlockWriter::write_block               ^  decode_section, make_decode_table, decode_symbol
 block.rs - huffman/{build,pretree}        huffman/{decode,pretree}
   |  write_bits                             ^  read_bits, peek_bits_padded
 BitWriter (bitio/writer.rs)              BitReader (bitio/reader.rs)
```

Everything runs on the caller's thread; there are no callbacks, timers or shared state. What makes the code hard is
*partial progress*: every read and write may fail half-way, callers may go on after an error, calls may end inside a
match, a block or a merged group, files may be cut or damaged, and several data structures are rings or registers
that are reused.

| Component | State it keeps | Operations | What makes it correct |
|---|---|---|---|
| Decoder | code lengths, decode tables, 64 KB window and cursor, last offset, rest of block, rest of match | `decode_into`, `decode` | output equals LZ expansion over an unbounded history, over any division into calls; blocks and calls add up; current tables |
| BitWriter / BitReader | 32-bit register, bit count, end-of-file mark | `write_bits`, `finish` / `read_bits`, `peek_bits_padded`, `consume_bits` | no bit lost, invented or moved; end of file reported only when it is reached |
| Lz77, matcher, hash chains | heads, ring of links, high-water mark, current and best match | `encode`, `find_longest_match`, `insert` | chains list exactly the inserted positions; a walk finds the best match; tokens stand for the input and can be coded; `encode` ends |
| ArchiveWriter | file position, the open entry | `add_entry`, `EntryWriter::finish`, drop | finished entries stay whole whatever fails later; header written after payload |
| ArchiveReader | file position, queue of decoded entries | `next_entry` | only verified entries, in order, none left out silently; damage stays local |
| DateTime | none | `pack`, `unpack`, conversions | calendar dates, round trip over the whole range |
| BlockWriter, pretree | lengths of the previous block, one copy per side | `write_block`, `encode_section`, `decode_section` | both sides keep the same lengths |
| Huffman build / decode | none | `build_lengths`, `canonical_codes`, `make_decode_table`, `decode_symbol` | complete, length-limited prefix codes; tables agree with codes |
| Slot tables | none | `position_slot`, `length_slot` | slot and footer give the value back |
| Command line | files on disk, a buffered writer | create, extract, list, test | inputs are never overwritten; "Ok" means everything is on disk; what was finished can be extracted |
| CRC-32, attributes, errors | none | pure functions, declarations | – |

## 2. Modules

| Module | Models | Remarks |
|---|---|---|
| `LzHistory` | what a decoder promises | abstract specification: literals and copies over an unbounded history |
| `Decoder` | `decoder.rs` | one action per stage of `read_block_header` and of `decode_some`, with every `?`; refines `LzHistory` |
| `DecoderProofs` | – | theorems about `Decoder` |
| `BitStream`, `BitWriter`, `BitReader` | `bitio/` | the register as a function from bit positions to bits |
| `BitChannel` | writer and reader on one file | the file may be cut in between |
| `BitChannelProofs` | – | theorems about `BitChannel` |
| `Lz77` | `lz77.rs`, `matcher.rs`, `hash.rs` | one step per round of a loop |
| `Lz77Proofs` | – | theorems about `Lz77` |
| `Slots` | slot tables of `constants.rs`, footers of `block.rs` and `decoder.rs` | constant operators |
| `HuffmanCodes` | `huffman/build.rs` | package-merge, canonical codes: constant operators |
| `HuffmanCodesProofs` | – | theorems about `HuffmanCodes` |
| `HuffmanTable` | `huffman/decode.rs` | the table is built one code or one node per step, then looked up |
| `HuffmanTableProofs` | – | theorems about `HuffmanTable`, on those of `HuffmanCodesProofs` |
| `Pretree` | `huffman/pretree.rs` | writer and reader of code lengths, joined by a stream of operations |
| `Blocks` | `block.rs` and the reader of its blocks | `Pretree`, `Slots` and `HuffmanCodes` composed |
| `BlocksProofs` | – | theorems about `Slots`, `Pretree` and `Blocks`, on those of `HuffmanCodesProofs` |
| `ArchiveWriter` | `archive/writer.rs` | the file as a sequence of cells |
| `CommandLine` | `create` and `extract` of `crates/amiga-lzx-cli/src/main.rs` | on `ArchiveWriter`, through a `BufWriter` |
| `CommandLineProofs` | – | theorems about `ArchiveWriter`, on them those about `CommandLine`, and those about `DateTime` |
| `ArchiveReader` | `archive/reader.rs` | one step per header, group payload or queued entry |
| `ArchiveReaderProofs` | – | theorems about `ArchiveReader` |
| `DateTime` | `archive/datetime.rs` | the functions of the code, driven by a clock that knows the calendar |
| `MC*` | – | constants for TLC |

**Decoder.** The variables are the fields of `Decoder`, with the code's names. A call is `pc = "running"`; `owed` is
`target - out.len()`. Each stage of `read_block_header` that can stop with an error is an action of its own that keeps
what earlier stages assigned, because that is what a caller who goes on meets. The bit stream is abstracted: a read
yields any legal value or fails. A code-length array is one element of `Lens`; a decode table *is* the array it was
built from, so that "table is current" is an equation. History variables: `emitted`, `announced`, `goal`, `failed`.
The one-shot `decode()` is the same machine with `oneShot` set, plus its final check.

**BitStream, BitWriter, BitReader, BitChannel.** Bits and bytes are explicit, with `ByteBits` bits to a byte
(8 in the code). The writer's loop may be stopped by an error after any number of bytes; a refill may fail before or
after the first byte of a word. `skipped` records that a byte was swallowed that way; the reader's properties are
stated for streams where that has not happened.

**Lz77.** The loops of `encode`, `ensure_hashed`, `find_longest_match` and `lazy_better` are phases of one machine,
one step per round. `expanded` is what a decoder would make of the tokens.

**Slots.** The tables are copied as they stand, and the lookup is built from them as `build_slot_lookup` does. The
writer masks the low bits of a value, the reader adds a footer to a base: they agree because every base is a multiple
of its slot's width.

**HuffmanCodes, HuffmanTable.** Sorting, packages and merges are operators, their loops recursive functions of the
round. A coin stands for its tree in the arena: its weight, and how often each symbol is a leaf of it. The table
keeps the code's layout: a root of `2^TableSize` entries and nodes of two entries behind it, where zero is both "free"
and symbol 0. `next_secondary`, `pos` (shifted by 16 bits in pass 2), `leaf` and `fill` are the code's variables. A
lookup runs on an arbitrary string of `LongestCode` bits; the end of the file is the subject of `BitReader`.

**Pretree, Blocks.** One step plans one operation, or executes one on the array that still holds the previous block's
lengths. Writer and reader share nothing but the stream, so the reader may finish a section before the writer begins
the next: this order of steps loses no behaviour. In `Blocks` the tokens are those the tokenizer can emit (`Tokens`,
see `TokensEncodable`), a list is at most one block's worth (`BlockTokenLimit`), the frequencies come from tokens, the
lengths from `BuildLengths`, and the reader turns codes into tokens with the lengths it rebuilt itself. Blocks are
of type 2 (`Verbatim`), the only one `write_block` emits; what a reader makes of types 1 and 3 is in `Decoder` and, for
the aligned footers, in `Slots`. `BlockWriter` writes into a `Vec`, so its writes do not fail.

**ArchiveWriter.** A header is `FixedCells` + names, a payload a few cells; a write may stop after any cell. Rust's
borrow of the archive allows one open entry. `resumed` records that a call was made after a failed one.

**CommandLine.** `client` says who drives the writer: `library` is any caller of `ArchiveWriter`, `create` is the
command, which stops at the first error. `Tree` is the file system as far as the command sees it: files, directories,
links, other things, names that are no UTF-8 (passed over below a directory, refused as arguments), names the archive
cannot hold ("wide"), names extraction refuses ("colon"), and inodes, so that two paths can be one file. `read_dir` may hand
out an error for any entry of a directory, and `walk_dir` drops such entries (`main.rs:295`): `unread` says which, one
set for the walk of each argument, and is chosen before `create` begins, from the sets in `Losses`; `Seen` is what is
left. A directory that cannot be opened, or a child whose metadata cannot be read, stops `create` (`Refuse`). What the
arguments lead to is stated without the walk, as what is in every set of nodes that holds with a directory all that is
seen in it (`ClosedSets`, `LedTo`); `Expected` is that for the arguments and losses at hand. The archive is written through a `BufWriter`: seeks and `stream_position` flush it, a payload that does not fit goes around it,
and what is left when `create` returns is written by its drop, whose errors nobody sees. `extract` then reads the file
that is on disk, from cell to cell; how an entry is verified is in `ArchiveReader`.

**ArchiveReader.** Every entry has three cells (fixed header, names, payload), so that entry *i* starts at a computed
place; sizes are small numbers. A damaged header may send the reader anywhere behind it, because its length fields
are not to be trusted. Two assumptions are built in: a CRC detects every damage, and bytes that are no header never
pass for one (a stored archive inside an archive could break the second).

**DateTime.** Times are pairs of day and second, from the epoch on: `from_system_time_clamped` takes earlier ones for
the epoch. The clock steps the calendar's date by the rule for leap years, which the code never states. The packed
word is kept by fields; that no field of a date in range spills into its neighbour is part of `TimeSurvivesArchive`.

## 3. Runs

| Run | Bounds | Shows |
|---|---|---|
| `decoder` | 2 byte values, window 3, matches of 2–3, blocks ≤ 3, 4 bytes out, 3 length arrays of which 2 are good | data path: `WindowMirrorsHistory`, `MatchWithinBlock`, `CallAccounting`, refinement of `LzHistory`, `CallReturns`; headers and trees: `BlockAccounting`, `OneShotExact`, `FreshTables`, `AlignedTableCurrent`, `ReuseHasTable` |
| `decoder_retry` | 1 byte value, window 2, the same length arrays, 4 bytes out | **violated**: `TableMatchesLengths` |
| `bitio` | 2-bit bytes, fields of 1–4 bits, 7 bits in all | nothing lost, invented or moved, from `write_bits` to `read_bits` |
| `lz77` | every input of ≤ 11 letters over 2, colliding hash, ring of 5, distance ≤ 4, matches ≤ 5, 5 walks | chains, walks, tokens, termination |
| `huffman` | 7 symbols, root of 4 bits, codes ≤ 6 bits; weights and arrays of every kind | `LengthsAreOptimal`, `AcceptsCompleteCodes`, `LookupIsCanonical` |
| `huffman_full` | as above | **violated**: `AcceptsOnlyCompleteCodes` |
| `blocks` | the real 256 and 768 symbols; 14 token lists, any number of blocks in any order | `LengthsInStep`, `EverySymbolHasACode`, `TokensSurvive` |
| `archive_writer` | 3 entries, headers of 2–4 cells, payloads of ≤ 2 (one of 4), buffer of 5; 9 argument lists, 7 archive paths, a file or a directory that the walk may fail to read, 3 output directories | `CommittedIntact`, `FileIsArchive`, `HeaderImpliesPayload`, `InputsIntact`, `OkMeansOnDisk`, `ExtractRestores` |
| `create_unread` | as above | **violated**: `OkCoversAllAsked` |
| `archive_reader` | every file of ≤ 3 entries, 1 damaged, 1 failing read, cut anywhere | order, soundness, completeness, recovery, end |
| `datetime` | every day from 1970-01-01 to 2042-01-08, six times of day | calendar and round trip |
| `datetime_foreign` | every date field of the packed word | **violated**: `ConversionAlwaysSucceeds` |

Why the bounds are enough for the questions asked. The window of 3 wraps within 4 bytes, and copies read it over
the wrap; a match of 3 is longer than every distance, and 4 bytes are divided into calls in every way, so splits fall
at every place of a match. Two good
length arrays are needed to tell a stale table from a current one. Seven bits of two-bit bytes are one word, three
bits and a padding, cut at every byte; widths 1 to a whole word meet every fill of the register. Inputs of 11 letters
reuse ring slots (5) after the distance limit (4) was passed, and hold lazy matches that win and lose. Three entries
put a group of two before and behind another entry. The datetime run is exhaustive in days.

Codes of 5 and 6 bits behind a root of 4 go through one and two nodes; the arrays a reader meets are complete codes
with up to two lengths replaced, so that they are too full, too empty or right, and all arrays over a few lengths. The
token lists of `blocks` sit at the edges: gaps of 19, 20, 51, 52 and more zeros, runs of equal lengths on both sides
of their limits and of the border between the sections, slots entered at their first value and left at their last, one
symbol, no token. The payload of 4 cells with a placeholder in the buffer exceeds it, a payload of 5 or more would go
around it in the same way.

`CHECK_DEADLOCK FALSE` stands where the program may stop: an output limit reached, `encode` done, a finished or failed
writer, a table refused or a symbol found, a command that is over, the end of the clock. `archive_reader` needs no
such exception, because `next_entry` can always be called again.

**Fairness.** `Decoder` has weak fairness of `Step`, the steps inside a call: a call is a loop on the caller's thread
and goes on running. Nothing obliges the caller to call. `Lz77` has weak fairness of `Next` for the same reason.
`ArchiveReader` has weak fairness of `Next`: `EventuallyEnds` is about a caller that calls until it gets `None`, which
is what `extract`, `list` and `test` do until the first error. The other modules state none: their properties are
about safety.

### What the violated runs say

* `decoder_retry`: `block_remaining` is assigned before the main tree is read (`decoder.rs:115`). When the tree fails,
  the next `decode_into` finds a block open, skips the header and decodes symbols with the previous table, or indexes
  a table that was never built. The comment at `decoder.rs:32-33` calls the tables "built from the lengths above".
  `FreshTables` shows that this needs a failed call, and `ReuseHasTable` and `AlignedTableCurrent` that other tables
  are safe even then. The archive reader uses a decoder for one call and is not exposed.
* `huffman_full`: `make_decode_table` returns as soon as the codes of up to `table_size` bits fill the root
  (`huffman/decode.rs:79`) and never looks at longer lengths, so lengths 1, 1 and four times 5 make a table.
  `ALGORITHM.md:611-616` says that all lengths from 1 to 16 are walked and that the tree is ill-formed unless `pos` ends
  at `table_mask`. The table is safe to use, as `LookupIsCanonical` shows for accepted tables of either kind: no symbol
  of an ignored code comes out. `AcceptsCompleteCodes` says what the two agree on.
* `create_unread`: `walk_dir` drops an entry of a directory whose read fails (`main.rs:295`), without an error or a
  warning, and `create` answers Ok for an archive without it, while `README.md:28` of the repository and the help text
  (`main.rs:32`) promise a recursive walk. The dropped file is not compared with the archive path either, so it may be
  the one that is truncated. `OkMeansOnDisk` and `InputsIntact` therefore speak of the files that the walk gets to see
  (`Expected`), whatever the losses are: for those, `create` keeps its promises.
* `datetime_foreign`: `to_system_time` documents that it always succeeds; day 0 of March, which `unpack` lets through,
  subtracts below zero in `u32` (`archive/datetime.rs:203`). With overflow checks that panics; without, the wrapped
  sum is the day before.

## 4. Proofs

`DecoderProofs` proves, for every window size above 1, every range of match and block lengths, every set of bytes
and code-length arrays and every sequence of calls, all the safety properties that run `decoder` checks,
and that `Decoder` implements `LzHistory`. The assumptions are the named ones in `Decoder` (`ByteAssumption`,
`WindowAssumption`, `MatchAssumption`, `BoundAssumption`, `LensAssumption`), which TLC evaluates in the runs.

* `IInv == TypeOK /\ MatchWithinBlock /\ WindowMirrorsHistory` is inductive (`InitIInv`, `StepIInv`, `Invariant`).
  `TypeOK` alone is not: `block_remaining - 1` stays a natural number in a match copy only because the match fits in
  its block, and the byte copied is a byte because the window holds bytes.
* The mirror is kept by `PushKeepsMirror`: one more byte is one step back from the new cursor and every other byte one
  step farther. It rests on the arithmetic of the cursor (`WrapLow`, `WrapHigh`, `SlotBack`, `NextSlot`).
* Refinement (`InitRefines`, `StepRefines`, `ImplementsHistory`): with the mirror, the byte a copy takes from the
  window is the one `LzHistory` takes from the unbounded history (`CopySource`).
* `Accounts` (`BlocksAddUp`, `CallsAddUp`, `OneShotIsExact`): emitted and owed bytes against announced block lengths
  and against the caller's request, in one invariant with what the one-shot helper needs.
* `TreesInv` (`TablesAreFresh`, `AlignedTableIsCurrent`, `ReuseIsSafe`): `primed` implies a main table; a block in
  progress with method 3 has its aligned table; without a failed call the main table is current.

`BlocksProofs` is in three parts. For `Slots` it proves that every distance below 2^16 and every length from 3 to 258
comes back from its slot and footer (`DistanceSurvives`, `LengthSurvives`; the case split is over the slots,
`TableHasNoGap`), and that the two parts of an aligned footer stay inside their slot whatever an archive says
(`AlignedStaysInSlot`).

For `Pretree` it proves, for every size of the two sections and every sequence of code-length arrays
(`SizesAssumption`), that writer and reader hold the same lengths after every block (`LengthsAreInStep`), that the
operations end where their section does (`StreamEndsWithSection`), and that every planned symbol was counted
(`PlanHasCounts`). The inductive invariant follows the operations from the reader's index to the writer's: they stand
end to end (`Chained`), each gives its entries their new lengths *provided the first of them still has its old one*
(`Right`), and the reader's array is new below its index and old above (`HalfDone`). The proviso is what decoding in
place hangs on: a run takes its difference from its first entry, before it overwrites it.

For `Blocks` it proves the three properties of run `blocks` for all sets of token lists (`BlocksAssumption`: an
alphabet of literals and 16 by 32 matches, tokens in the ranges of the format, and at most 32760 of them to a block)
and any sequence of blocks. `BlocksInv` adds to the invariant of the lengths where the lengths come from, and
`Reading`: what is left in the body are the codes of the tokens the reader has not made yet, and `remaining` is the
bytes they stand for. A step of the reader takes the one symbol with the code at hand (`WrittenCodesDiffer`, since
`BuildLengthsComplete` makes the lengths a tree), and makes of it and its footers the token it was written for
(`TokenComesBack`). The bytes of a block stay below 2^24 (`SourceFacts`), which `block.rs:70-73` asserts: 32760 tokens
of at most 258 bytes. The part of the invariant that says what was counted gives every written symbol a code
(`SymbolsHaveCodes`).

`HuffmanCodesProofs` is about the operators of `HuffmanCodes`, for every alphabet and all frequencies. Every list of
package-merge is sorted (`CoinsFacts`, `MergeIsList`), and the coins taken first are layered (`Layers`): the symbols
that have at least `j` leaves among them are the `o[j]` lightest ones, and of the `N[j]` coins at depth `j` those that are
no leaves are packages of two coins each one depth below, `N[j + 1] = 2 * (N[j] - o[j])`, beginning with the `2m - 2`
coins taken (there are that many, `EnoughCoins`). So the lengths decrease with the weight, and the number of codes of
each length is known. Going down the lengths, twice the leaves still to be placed
less the coins there stays positive until no leaf is left (`Thinning`, `LayersComplete`): the first free code of each
length fits, and behind the last one no room is left. That is `BuildLengthsComplete`; the `debug_assert` at
`huffman/build.rs:87-90` says only that the codes fit, while the decoder refuses a code with gaps. The first code
behind a length at least doubles with each further bit (`NextCodeGrows`), so a longer code, cut to the length of a
shorter one, lies behind it (`NoCodeBeginsAnother`: prefix-free). Reversing the bits is injective (`ReverseInjective`,
back from the last round), so the written codes differ too (`WrittenCodesDiffer`). The room asked for is the caller's
duty that the doc comment of `build_lengths` names, `2^max_len` not below the number of symbols that occur;
`BlocksProofs` and `HuffmanTableProofs` discharge it.

`HuffmanTableProofs` proves two of the three properties of run `huffman`, for every root of up to 12 bits, every
alphabet that fits below its node numbers, all frequencies and limits of the writer, and every array of lengths a
reader may meet (`TableAssumption`). Codes are tiles of places: one of `l` bits takes `2^(16 - l)` of `2^16`, and
`Begin(lengths, k)` is where the one behind the first `k` begins. The inductive invariant `Inv` says that the table is
a tree (`Tree`): every entry has a depth and the bits that lead to it, a node's two entries are one deeper, and no two
nodes share an entry. Entries in front of the running code hold the symbol whose tile they lie in, entries behind it
are free. Zero is both, so what counts is where an entry lies and not what it holds. A descent (`OnTheWay`) keeps to
the bits of the code it places, so that it ends at a free entry of the right depth.

* That a node fits behind the root is a matter of counting. In a code without gaps the upper half of every node begins with a
  code of its own (`HalfBeginsCode`), so there are no more nodes than symbols (`NodesCounted`) and the check for the
  table's size refuses none of them. For an over-full code, which may need
  more, it is that check that keeps the table in bounds.
* `LookupFindsTheSymbol` follows the bits down the tree (`Looking`). The one code they begin with is the one whose
  tile they lie in, and the tiles leave nothing out because the table was accepted.
* `CompleteCodesAreAccepted` compares the final position with the room: no complete code is refused, and a root that
  leaves room for longer codes is accepted only when they fill it. It rests on `BuildLengthsComplete` for the
  writer: what `build.rs` builds, `decode.rs` takes, also for a single symbol and its partner.

The last part of `CommandLineProofs`, on the clock of `DateTime`, proves both properties of run `datetime` for every second from the epoch on, also beyond the run's
last day. A day is named by its era of 400 years, its year of the era and its day of the year, years beginning in
March (`Names`); that the formulas of `days_to_civil` find the year and the month (`YearFound`, `MonthFound`) and find
no other (`YearIsUnique`, `MonthIsUnique`) is arithmetic over one era. `NextDay` then shows that the calendar's step,
with its rule for leap years, is the next day of the formulas, at the ends of months, years, centuries and eras, which
makes `ClockInv` inductive; `DaysComeBack` that `civil_to_days` is the inverse; `WordComesBack` that the four windows
of the year field agree and no field spills.

`CommandLineProofs` begins with the archive writer. It proves the three properties of the library's client for
headers, names and payloads of any size and any number of entries and failures (`ArchiveAssumption`). The inductive
invariant is that whatever is written next goes behind every finished entry (`WritesBehind`): the position does, and
so does the header of the open entry, which is patched later. `OpenEntryIsBlank` shows that a payload cut short leaves
a header that cannot be taken for one, `FailuresShow` ties attempts without `Ok` to `failed`, and `BackToBack` keeps
the chain of entries. The three ways `finish` can end share one lemma, `AnswerKeepsInvariant`; what a write does to a
file is `OverwriteFacts`. The theorems are about `Spec`, the library's client alone.

It goes on to all six properties of run `archive_writer` for `SpecCommandLine`, that is for both clients,
every tree of files, all losses of `read_dir`, every size of names and payloads, every buffer a header fits in, and failures at every cell. It
assumes of the tree that no directory is below itself (`TreeAssumption`: `walk_dir` does not follow links) and of the
buffer that the longest header fits (`CapacityAssumption`). For the library's client the invariant `CInv` is the one
above; for `create` it has three parts.

* `Collected`: what `collect_inputs` found, and that none of it has the inode that was truncated. That is no more than
  what `Open` has checked; `InputsIntact` and `OkMeansOnDisk` speak of the files the arguments lead to, and need that
  nothing is missed or added, `CollectsExpected`. It is a statement about the recursive `FlattenSeq` and `WalkDir`.
  `FlattenExists` and `WalkExists` show that their recursions have solutions and `WalkLists` what these list;
  `GivenExpected` that an argument contributes the files it leads to: a listing stays in every closed set that holds
  the directory, and the nodes it covers are a closed set. Each goes by the smallest counterexample: the shortest
  front part of a sequence, and a directory with no other counterexample inside, which `TreeAssumption` provides.
* `OnDisk`: at each step the file, the position and the buffer are related in one way (`Stage`): between two entries the
  file ends with the last one (`Between`), an open entry has its header reserved in the buffer (`InReserve`) or its
  payload written and its header buffered (`InPatch`), and after the last entry the buffer is empty (`Complete`). A
  flush may fail after any cell, and what is left goes out, or does not, when the writer is dropped. Therefore an entry
  that was not finished is `Torn`: nothing of its header is on disk *or in the buffer*, or its payload is on disk and
  the buffer ends before it. `FlushFacts` says what a flush does, `TornKept` that it leaves torn entries torn, and
  `Behind` that it does not reach what was recorded.
* `Unpacked`: while `extract` runs, there is an `m` so that the reader stands behind the first `m` entries, all of them
  are restored or replaced by a later one of the same name, and outdir has grown by nothing else (`Reading`). The entry
  that can be read next is the next one in the archive (`NextIsRead`), because entries lie one behind the other.

`BitChannelProofs` proves all six properties of run `bitio` for every width of a byte, every root width up to a word,
every number of bits, and every sequence of failed writes, cuts and failed reads (`ByteBitsAssumption`,
`WriterAssumption`, `ReaderAssumption`). `ChannelAssumption` limits fields to a word and one bit, the widest that fits
above the bits that may be pending; without it `NoBitLost` is false (see section 5). The inductive invariant
`ChannelInv` says the same of both sides: the words of the file and the bits in the register are one stream, and the
register is clear above them (`Written`, `Loaded`). The cleared part is what makes it inductive: a new field or word is
or-ed in. `MergeKeeps`, `DrainPrefix`, `DrainKeeps` and `PadKeeps` follow a field through the writer, `LoadKeeps` and
`HandOut` a word through the reader, `StreamPrefix` a cut. A drain that stops after an odd byte leaves half a word,
which the stream does not count.

`ArchiveReaderProofs` proves all four safety properties of run `archive_reader` for archives of any length and size,
every damage and cut the model knows, and every sequence of failed reads (`ReaderAssumption`). The inductive invariant
`IInv` follows one sequence, `Line`: the entries returned, queued and collected. It ascends and none of its entries
lies beyond the reader's position, so the entry at that position is new (`AscendingExtends`, `NextIsNew`). A step only
appends that entry (`LineGrows`), moves the head of what waits to the returned ones (`LineMoves`), or drops the end
(`LineLoses`). `GroupIsLast` makes it inductive: a group is collected only with an empty queue, so queueing it does
not reorder anything. For `OnlySound` the queue must be sound as well, which holds because a failed slice queues only
the slices before the first bad one (`MinFacts`).

`RecoversTheRest` needs a second invariant, `RInv`. As long as the headers are readable and the groups closed, the
reader stands between two entries or groups (`Between`), in a group it has collected from its first entry on
(`Collecting`), or at the end (`AtEnd`), and what it has returned or queued is exactly what can be recovered of the
entries before that place. So a step has to account only for the entry or group it finishes: a single entry
(`SingleInStep`), the slices of a group up to the first damaged one (`UnpackInStep`), or a tail without a payload, of
which nothing can be recovered (`ToTheEnd`). A group collected from its first entry to its payload is the group of
each of its entries (`GroupIsRun`); that settles how the sizes compare, because the sums are taken over the same set.

`Lz77Proofs` proves the four safety properties of run `lz77` for every input, every hash function, every ring and
every level (`Lz77Assumption`). What it needs of the ring is `MaxDistance < RingSize`, which is what `constants.rs:11`
chooses the cutoff for: a walk begins with its own position the latest in the chains, and looks `MaxDistance` back.
The invariant `IInv` adds to the properties how far the chains have got in each loop (`HashedSoFar`), that the match
held back for a lazy probe is one (`CurrIsMatch`), and what a walk in the middle knows (`Walking`): it follows its
position's own chain and holds the longest match of the positions it has passed, the nearest of these (`BestOf`,
`Tried`). A step keeps that because the positions between a candidate and the next one have another hash
(`LatestFacts`), positions that agree in three bytes have the same one (`SameHash`), and a candidate that the quick
tests reject could not have been better (`RejectedIsWorse`). `InsertKeepsChains` rests on positions less than a ring
apart having different slots (`OtherSlot`), `CopyIsInput` on bytes that agree with those `d` before them repeating
with period `d` (`Periodic`, by a smallest counterexample). `IndicesInside` adds that neither the hash nor the quick
tests index beyond the input, for which a walk must hold less than the longest match allowed as long as it goes on.

Recursive functions have no induction rule the provers can apply, because the library's takes an operator as a
parameter. What is proved of them (`WalkDir`, `FlattenSeq`, package-merge, canonical codes, sums over a list) goes by
the smallest counterexample instead: `LeastNat` for a least number at which a claim fails, `Recursion` for the
existence of the function, which its definition by `CHOOSE` does not give for free.

Only model-checked:

* `CallReturns`, `Termination`, `EventuallyEnds`: liveness under fairness, and the `ENABLED` it needs, are out of the
  prover's reach.
* `LengthsAreOptimal`, of which the parts that say the code is complete, within the limit and leaves no symbol out are
  `BuildLengthsComplete`. That no other code is cheaper quantifies over all codes, each with its own recursive sum.

## 5. Hazards

`PROJECT.json` lists them all with their lines and the properties that would catch them. The main groups: a call, block
or group that stops in the middle and is continued; fields assigned before a later stage fails (block length, last
offset, code lengths, file position); rings and registers that are reused (window, hash links, bit registers); the end
of a file (padding, odd bytes, lookahead, torn headers); two sides that must keep equal state without ever comparing
it (code lengths, slots, codes); the file system (a path that leads to an input, a buffer that is flushed too late);
and boundaries of integer formats (u32 subtractions, date windows).

Two observations that the models take over as they are:

* `write_bits` documents widths up to 24 as safe (`bitio/writer.rs:43-44`); with 15 bits pending the 32-bit register
  takes 17 more, and `value << bit_count` loses what goes beyond. The callers in this crate write at most 16 bits, and
  `BitChannelProofs` shows that 17 are safe; `ChannelAssumption` is that limit. TLC finds `NoBitLost` violated at once
  when the assumption is taken out and fields may have a word and a half.
* `create` stores names that `extract` refuses later (a colon or backslash, a file that is also a directory of another
  entry); `ExtractRestores` allows exactly these refusals. A second entry of the same name replaces the first.

## 6. Not modelled

* **CRC-32** (`crc32.rs`): a fixed pure function; the archive models assume that it detects every damage.
* **Attributes, errors, crate roots**: flags, declarations and re-exports without behaviour. Errors appear in the
  models as results.
* **Date and time**: `try_new` and `validate` are range checks without state.
* **Command line**: `list` and `test` print what `next_entry` returns; argument parsing, messages, and restoring
  modification times, whose failures are ignored.
* **Sizes beyond 32 bits**: the writer casts them; all sizes here are small numbers (see the hazards).
* **A reader that goes on after a failed read** in the middle of a word: the code offers no way to resume, and the
  reader's properties are stated for streams where this has not happened.
* **Build and release scripts**: packaging.
