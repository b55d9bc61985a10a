------------------------------ MODULE Decoder ------------------------------
(***************************************************************************)
(* The streaming LZX decoder of decoder.rs: blocks, trees, the circular    *)
(* window, and calls that may end inside a match and are resumed later.    *)
(*                                                                         *)
(* The bit stream is abstracted to what it makes the decoder do: each read *)
(* either yields some legal value or fails.  A code-length array is one    *)
(* value of Lens, and GoodLens are the arrays make_decode_table accepts;   *)
(* a table is the array it was built from.  The caller may call            *)
(* decode_into as often as it likes, also after an error, or use the       *)
(* one-shot decode() once.                                                 *)
(***************************************************************************)
EXTENDS Integers, Sequences

CONSTANTS
    Byte, Zero,       \* decoded bytes; Zero fills the window at the start
    WindowSize,       \* WINDOW_SIZE, 64 KB in the code
    MinMatch,         \* MIN_MATCH
    MaxMatch,         \* the longest match the length slots can express
    MaxBlock,         \* bound: the largest block length a header announces
    MaxOut,           \* bound: bytes the caller asks for in all calls together
    Lens,             \* code-length arrays
    GoodLens,         \* the arrays that describe a complete prefix code
    ZeroLens,         \* the all-zero array a new decoder starts with
    NoTable           \* a decode table that was never built (an empty Vec)

ASSUME ByteAssumption == Zero \in Byte
ASSUME WindowAssumption == WindowSize \in Nat /\ WindowSize > 1
ASSUME MatchAssumption ==
    MinMatch \in Nat /\ MaxMatch \in Nat /\ 0 < MinMatch /\ MinMatch <= MaxMatch
ASSUME BoundAssumption == MaxBlock \in Nat /\ MaxOut \in Nat
ASSUME LensAssumption ==
    /\ GoodLens \subseteq Lens
    /\ ZeroLens \in Lens \ GoodLens
    /\ NoTable \notin Lens

VARIABLES
    literalLen, offsetLen,      \* code lengths of the main and aligned trees
    literalTable, offsetTable,  \* decode tables
    method,                     \* decrunch_method
    blockRemaining, lastOffset, matchRemaining,
    window, windowPos, primed,  \* fields of the same names
    pc,       \* "new", "running" (inside a call), "idle", "panicked"
    oneShot,  \* the call is the helper decode()
    owed,     \* target - out.len()
    result,   \* what the latest call returned
    emitted,  \* history: every byte pushed to an output vector
    announced,\* history: sum of the block lengths taken from headers
    goal,     \* history: Len(emitted) the current call has to reach
    failed    \* history: some call has returned an error

treeVars  == <<literalLen, literalTable, offsetLen, offsetTable, method, primed>>
copyVars  == <<lastOffset, matchRemaining, window, windowPos, emitted>>
blockVars == <<blockRemaining, announced>>
callVars  == <<pc, oneShot, owed, result, goal, failed>>
vars == <<treeVars, copyVars, blockVars, callVars>>

Distance == 1..(WindowSize - 1)
MatchLength == MinMatch..MaxMatch
Errors == {"truncated", "unknown_block_type", "tree_reuse", "bad_tree",
           "past_block_end", "exceeds_expected"}

Init ==
    /\ literalLen = ZeroLens /\ literalTable = NoTable
    /\ offsetLen = ZeroLens /\ offsetTable = NoTable
    /\ method = 0 /\ primed = FALSE
    /\ blockRemaining = 0 /\ announced = 0
    /\ lastOffset = 1 /\ matchRemaining = 0
    /\ window = [i \in 0..(WindowSize - 1) |-> Zero] /\ windowPos = 0
    /\ emitted = << >>
    /\ pc = "new" /\ oneShot = FALSE /\ owed = 0 /\ result = "none"
    /\ goal = 0 /\ failed = FALSE

-----------------------------------------------------------------------------
(* Calls *)

\* Faulty: a new call drops the match the previous one left unfinished.
BeginAfresh(n) ==
    /\ Len(emitted) + n <= MaxOut
    /\ pc' = "running" /\ owed' = n /\ goal' = Len(emitted) + n
    /\ matchRemaining' = 0
    /\ UNCHANGED <<treeVars, lastOffset, window, windowPos, emitted, blockVars, result, failed>>

Begin(n) ==
    /\ Len(emitted) + n <= MaxOut
    /\ pc' = "running"
    /\ owed' = n
    /\ goal' = Len(emitted) + n
    /\ UNCHANGED <<treeVars, copyVars, blockVars, result, failed>>

\* decode_into(out, n): any number of calls on one decoder.
DecodeInto(n) ==
    /\ pc \in {"new", "idle"}
    /\ ~oneShot
    /\ oneShot' = oneShot
    /\ Begin(n)

\* decode(input, n): a new decoder, used for one call.
Decode(n) ==
    /\ pc = "new"
    /\ oneShot' = TRUE
    /\ Begin(n)

Fail(e) ==
    /\ pc' = "idle"
    /\ result' = e
    /\ failed' = TRUE
    /\ UNCHANGED <<oneShot, owed, goal>>

\* Faulty: decode() does not look at what the last block still holds.
ReturnOkAlways ==
    /\ pc = "running" /\ owed <= 0
    /\ pc' = "idle" /\ result' = "ok"
    /\ UNCHANGED <<treeVars, copyVars, blockVars, oneShot, owed, goal, failed>>

\* The loops end when out.len() has reached target.  The helper then
\* refuses a payload whose last block goes on.
ReturnOk ==
    /\ pc = "running" /\ owed <= 0
    /\ oneShot => blockRemaining = 0
    /\ pc' = "idle" /\ result' = "ok"
    /\ UNCHANGED <<treeVars, copyVars, blockVars, oneShot, owed, goal, failed>>

ReturnTooLong ==
    /\ pc = "running" /\ owed <= 0
    /\ oneShot /\ blockRemaining # 0
    /\ Fail("exceeds_expected")
    /\ UNCHANGED <<treeVars, copyVars, blockVars>>

-----------------------------------------------------------------------------
(* read_block_header: each stage keeps what the earlier stages assigned,   *)
(* also when it fails.                                                     *)

AtHeader == pc = "running" /\ owed > 0 /\ blockRemaining = 0

\* The method check, before anything is assigned.
HeaderRefused ==
    /\ AtHeader
    /\ \/ Fail("truncated")
       \/ Fail("unknown_block_type")
       \/ ~primed /\ Fail("tree_reuse")
    /\ UNCHANGED <<treeVars, copyVars, blockVars>>

\* Method 3 overwrites the aligned lengths in place and then builds the
\* table; a short read or a bad set of lengths leaves the old table.
AlignedTreeFails ==
    /\ AtHeader
    /\ method' = 3
    /\ offsetLen' \in Lens
    /\ \/ Fail("truncated")
       \/ offsetLen' \notin GoodLens /\ Fail("bad_tree")
    /\ UNCHANGED <<literalLen, literalTable, offsetTable, primed, copyVars, blockVars>>

\* Faulty: trees may be reused before one was read.
MethodUnchecked(m) ==
    /\ method' = m
    /\ IF m = 3 THEN \E a \in GoodLens : offsetLen' = a /\ offsetTable' = a
                ELSE UNCHANGED <<offsetLen, offsetTable>>

\* Faulty: the aligned table is built once and kept.
MethodKeepsTable(m) ==
    /\ m = 1 => primed
    /\ method' = m
    /\ IF m = 3
       THEN \E a \in GoodLens :
               /\ offsetLen' = a
               /\ offsetTable' = IF offsetTable = NoTable THEN a ELSE offsetTable
       ELSE UNCHANGED <<offsetLen, offsetTable>>

MethodAccepted(m) ==
    /\ m = 1 => primed
    /\ method' = m
    /\ IF m = 3 THEN \E a \in GoodLens : offsetLen' = a /\ offsetTable' = a
                ELSE UNCHANGED <<offsetLen, offsetTable>>

LengthTruncated ==
    /\ AtHeader
    /\ \E m \in 1..3 : MethodAccepted(m)
    /\ Fail("truncated")
    /\ UNCHANGED <<literalLen, literalTable, primed, copyVars, blockVars>>

AnnounceBlock(n) ==
    /\ blockRemaining' = n
    /\ announced' = announced + n

\* decode_section fails part-way through the lengths, or they are all read
\* and make_decode_table refuses them: block_remaining is already set, the
\* lengths are already changed, the table is still the previous one.
MainTreeFails ==
    /\ AtHeader
    /\ \E m \in 2..3 : MethodAccepted(m)
    /\ \E n \in 0..MaxBlock : AnnounceBlock(n)
    /\ literalLen' \in Lens
    /\ \/ Fail("truncated")
       \/ Fail("bad_tree")
    /\ UNCHANGED <<literalTable, primed, copyVars>>

\* Faulty: the main table is built once and kept.
MainTreeOnce(m) ==
    IF m = 1 THEN UNCHANGED <<literalLen, literalTable>>
    ELSE \E t \in GoodLens :
            /\ literalLen' = t
            /\ literalTable' = IF primed THEN literalTable ELSE t

MainTree(m) ==
    IF m = 1 THEN UNCHANGED <<literalLen, literalTable>>
             ELSE \E t \in GoodLens : literalLen' = t /\ literalTable' = t

\* Faulty: a block of length zero is skipped, not refused.
HeaderSkipsEmpty ==
    /\ AtHeader
    /\ \E m \in 1..3, n \in 0..MaxBlock :
          MethodAccepted(m) /\ AnnounceBlock(n) /\ MainTree(m)
    /\ primed' = TRUE
    /\ UNCHANGED <<callVars, copyVars>>

\* A whole header.  A block of length zero is an error of decode_into.
HeaderRead ==
    /\ AtHeader
    /\ \E m \in 1..3, n \in 0..MaxBlock :
          /\ MethodAccepted(m)
          /\ AnnounceBlock(n)
          /\ MainTree(m)
          /\ primed' = TRUE
          /\ IF n = 0 THEN Fail("truncated") ELSE UNCHANGED callVars
    /\ UNCHANGED copyVars

-----------------------------------------------------------------------------
(* decode_some *)

\* out.push(b), and the byte enters the circular window.
Push(b) ==
    /\ emitted' = Append(emitted, b)
    /\ window' = [window EXCEPT ![windowPos] = b]
    /\ windowPos' = (windowPos + 1) % WindowSize
    /\ blockRemaining' = blockRemaining - 1
    /\ owed' = owed - 1
    /\ UNCHANGED <<announced, pc, oneShot, result, goal, failed, treeVars>>

\* Faulty: a match is copied whole, however little the caller asked for.
CopyPastTarget ==
    /\ pc = "running"
    /\ blockRemaining > 0 /\ matchRemaining > 0
    /\ Push(window[(windowPos + WindowSize - lastOffset) % WindowSize])
    /\ matchRemaining' = matchRemaining - 1
    /\ lastOffset' = lastOffset

\* One round of the copy loop.  The loop runs
\* min(match_remaining, target - out.len()) rounds and is taken up again by
\* the next call when the output ran out first.
CopyByte ==
    /\ pc = "running" /\ owed > 0
    /\ blockRemaining > 0 /\ matchRemaining > 0
    /\ Push(window[(windowPos + WindowSize - lastOffset) % WindowSize])
    /\ matchRemaining' = matchRemaining - 1
    /\ lastOffset' = lastOffset

AtSymbol == pc = "running" /\ owed > 0 /\ blockRemaining > 0 /\ matchRemaining = 0

\* table[root_bits] on a Vec that was never filled, when bits are left.
SymbolPanics ==
    /\ AtSymbol /\ literalTable = NoTable
    /\ pc' = "panicked"
    /\ UNCHANGED <<treeVars, copyVars, blockVars, oneShot, owed, result, goal, failed>>

\* Faulty: only copied bytes enter the window.
LiteralOutsideWindow ==
    /\ AtSymbol /\ literalTable # NoTable
    /\ \E b \in Byte : emitted' = Append(emitted, b)
    /\ windowPos' = (windowPos + 1) % WindowSize
    /\ blockRemaining' = blockRemaining - 1
    /\ owed' = owed - 1
    /\ UNCHANGED <<window, lastOffset, matchRemaining, announced, pc, oneShot,
                   result, goal, failed, treeVars>>

DecodeLiteral ==
    /\ AtSymbol /\ literalTable # NoTable
    /\ \E b \in Byte : Push(b)
    /\ UNCHANGED <<lastOffset, matchRemaining>>

\* A symbol, its position footer or its aligned symbol cannot be read.
SymbolTruncated ==
    /\ AtSymbol
    /\ Fail("truncated")
    /\ UNCHANGED <<treeVars, copyVars, blockVars>>

\* A decoded distance of 0 stands for the latest one.
Effective(distance) == IF distance = 0 THEN lastOffset ELSE distance

\* Faulty: the length is not held against the end of the block.
MatchUnchecked ==
    /\ AtSymbol /\ literalTable # NoTable
    /\ \E distance \in 0..(WindowSize - 1), length \in MatchLength :
          lastOffset' = Effective(distance) /\ matchRemaining' = length
    /\ UNCHANGED <<window, windowPos, emitted, treeVars, blockVars, callVars>>

\* Faulty: the block pays for a match when it is read and when it is copied.
MatchPaidTwice ==
    /\ AtSymbol /\ literalTable # NoTable
    /\ \E distance \in 0..(WindowSize - 1), length \in MatchLength :
          /\ length <= blockRemaining
          /\ lastOffset' = Effective(distance)
          /\ matchRemaining' = length
          /\ blockRemaining' = blockRemaining - length
    /\ UNCHANGED <<window, windowPos, emitted, treeVars, announced, callVars>>

DecodeMatch ==
    /\ AtSymbol /\ literalTable # NoTable
    /\ \E distance \in 0..(WindowSize - 1), length \in MatchLength :
          /\ length <= blockRemaining
          /\ lastOffset' = Effective(distance)
          /\ matchRemaining' = length
    /\ UNCHANGED <<window, windowPos, emitted, treeVars, blockVars, callVars>>

\* The distance has replaced last_offset when the length cannot be read or
\* is found to run past the end of the block.
MatchRefused ==
    /\ AtSymbol /\ literalTable # NoTable
    /\ \E distance \in 0..(WindowSize - 1) : lastOffset' = Effective(distance)
    /\ \/ Fail("truncated")
       \/ \E length \in MatchLength : length > blockRemaining /\ Fail("past_block_end")
    /\ UNCHANGED <<matchRemaining, window, windowPos, emitted, treeVars, blockVars>>

-----------------------------------------------------------------------------
Call == \E n \in 0..MaxOut : DecodeInto(n) \/ Decode(n)

Step ==
    \/ ReturnOk \/ ReturnTooLong
    \/ HeaderRefused \/ AlignedTreeFails \/ LengthTruncated \/ MainTreeFails \/ HeaderRead
    \/ CopyByte \/ SymbolPanics \/ DecodeLiteral \/ SymbolTruncated
    \/ DecodeMatch \/ MatchRefused

Next == Call \/ Step

\* A call is a loop on the caller's thread: it keeps taking steps.
Spec == Init /\ [][Next]_vars /\ WF_vars(Step)
-----------------------------------------------------------------------------
(* Properties *)

TreeTypes ==
    /\ literalLen \in Lens /\ offsetLen \in Lens
    /\ literalTable \in GoodLens \cup {NoTable}
    /\ offsetTable \in GoodLens \cup {NoTable}
    /\ method \in 0..3 /\ primed \in BOOLEAN
CopyTypes ==
    /\ lastOffset \in Distance /\ matchRemaining \in Nat
    /\ window \in [0..(WindowSize - 1) -> Byte]
    /\ windowPos \in 0..(WindowSize - 1)
    /\ emitted \in Seq(Byte)
BlockTypes == blockRemaining \in Nat /\ announced \in Nat
CallTypes ==
    /\ pc \in {"new", "running", "idle", "panicked"}
    /\ oneShot \in BOOLEAN /\ failed \in BOOLEAN
    /\ owed \in Nat /\ goal \in Nat
    /\ result \in Errors \cup {"none", "ok"}

\* Every variable has its type; in particular the last offset is a distance
\* the window can serve, so decoder.rs:196 never finds it zero.
TypeOK == TreeTypes /\ CopyTypes /\ BlockTypes /\ CallTypes

\* The specification the decoder implements.
History == INSTANCE LzHistory WITH hist <- emitted, offset <- lastOffset,
                                   left <- matchRemaining,
                                   MaxDistance <- WindowSize - 1

\* Read back from the cursor, the circular window is the last WindowSize
\* bytes of everything emitted since the decoder was made, over all calls
\* and errors, with zeros before the start.  A match copy relies on it.
WindowMirrorsHistory ==
    \A d \in 1..WindowSize :
        window[(windowPos + WindowSize - d) % WindowSize] = History!Back(emitted, d)

\* Every byte the decoder puts out is the one an unbounded history gives,
\* and a match that a call boundary splits is continued, not restarted.
RefinesHistory == History!Spec

\* A match in progress fits in what is left of its block, so that the u32
\* block_remaining of decoder.rs:144 cannot wrap.
MatchWithinBlock == matchRemaining <= blockRemaining

\* A call never delivers more than it was asked for, and one that returns Ok
\* has delivered exactly that, wherever it stopped in a match or a block.
CallAccounting ==
    /\ pc = "running" => Len(emitted) + owed = goal
    /\ pc = "idle" /\ result = "ok" => Len(emitted) = goal

\* The bytes emitted and the bytes the block still owes add up to the
\* lengths the headers announced, whatever failed in between.
BlockAccounting == announced = Len(emitted) + blockRemaining

\* decode() returns Ok only when the payload's blocks end exactly at the
\* expected length (decoder.rs:225-231).
OneShotExact == oneShot /\ pc = "idle" /\ result = "ok" => announced = goal

\* As long as no call has failed, symbols are decoded with a table that was
\* built from the current code lengths.
FreshTables ==
    ~failed /\ blockRemaining > 0 => literalTable = literalLen /\ pc # "panicked"

\* The same for the aligned tree, even after errors: its stages come before
\* the block length, so a block is never entered with a half-read one.
AlignedTableCurrent ==
    blockRemaining > 0 /\ method = 3 => offsetTable = offsetLen

\* A block that reuses trees has a table to reuse, even after a first block
\* whose trees could not be read.
ReuseHasTable == blockRemaining > 0 /\ method = 1 => literalTable # NoTable

\* "Decode tables built from the lengths above.  Rebuilt at each block that
\* carries a new tree" (decoder.rs:32-33), read as what holds whenever a
\* symbol is about to be decoded.
TableMatchesLengths == AtSymbol => literalTable = literalLen

\* Every call returns (or panics): empty blocks, split matches and errors
\* cannot keep its loops going.
CallReturns == pc = "running" ~> pc # "running"
=============================================================================
