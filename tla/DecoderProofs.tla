--------------------------- MODULE DecoderProofs ---------------------------
(***************************************************************************)
(* Theorems about the decoder, for every window size, alphabet, match      *)
(* length and code-length set that the assumptions of Decoder allow.       *)
(***************************************************************************)
EXTENDS Decoder, TLAPS

(* Arithmetic of the circular cursor: `& WINDOW_MASK` on a value below     *)
(* two window sizes either keeps it or takes one window size off.          *)

\* Below the window size the mask changes nothing.
LEMMA WrapLow ==
    ASSUME NEW w \in Nat \ {0}, NEW a \in 0..(w - 1)
    PROVE  a % w = a
BY SMT

\* In the next window size the mask takes one window size off.
LEMMA WrapHigh ==
    ASSUME NEW w \in Nat \ {0}, NEW a \in w..(2 * w - 1)
    PROVE  a % w = a - w
BY SMT

USE WindowAssumption

\* The slot that d steps back from the cursor land on.
LEMMA SlotBack ==
    ASSUME NEW p \in 0..(WindowSize - 1), NEW d \in 1..WindowSize
    PROVE  (p + WindowSize - d) % WindowSize = IF d <= p THEN p - d ELSE p + WindowSize - d
<1>1. CASE d <= p
  <2>1. p + WindowSize - d \in WindowSize..(2 * WindowSize - 1)
    BY <1>1, SMT
  <2>2. (p + WindowSize - d) % WindowSize = p + WindowSize - d - WindowSize
    BY <2>1, WrapHigh, SMT
  <2> QED BY <1>1, <2>2, SMT
<1>2. CASE d > p
  <2>1. p + WindowSize - d \in 0..(WindowSize - 1)
    BY <1>2, SMT
  <2> QED BY <1>2, <2>1, WrapLow, SMT
<1> QED BY <1>1, <1>2, SMT

\* The cursor after one byte (decoder.rs:141, 159).
LEMMA NextSlot ==
    ASSUME NEW p \in 0..(WindowSize - 1)
    PROVE  (p + 1) % WindowSize = IF p = WindowSize - 1 THEN 0 ELSE p + 1
<1>1. CASE p = WindowSize - 1
  <2>1. p + 1 \in WindowSize..(2 * WindowSize - 1)
    BY <1>1, SMT
  <2> QED BY <1>1, <2>1, WrapHigh, SMT
<1>2. CASE p # WindowSize - 1
  <2>1. p + 1 \in 0..(WindowSize - 1)
    BY <1>2, SMT
  <2> QED BY <1>2, <2>1, WrapLow, SMT
<1> QED BY <1>1, <1>2

\* What a history shows after one more byte.
LEMMA BackAppend ==
    ASSUME NEW h \in Seq(Byte), NEW b \in Byte, NEW d \in Nat \ {0}
    PROVE  History!Back(Append(h, b), d) = IF d = 1 THEN b ELSE History!Back(h, d - 1)
BY SMT DEF History!Back

\* A history shows bytes only, zeros before its start included.
LEMMA BackIsByte ==
    ASSUME NEW h \in Seq(Byte), NEW d \in Nat \ {0}
    PROVE  History!Back(h, d) \in Byte
BY ByteAssumption, SMT DEF History!Back

-----------------------------------------------------------------------------
(* A byte pushed into the window keeps it the mirror of the history: the   *)
(* new byte is one step back, and every older byte one step farther.       *)
LEMMA PushKeepsMirror ==
    ASSUME TypeOK, WindowMirrorsHistory, NEW b \in Byte, Push(b)
    PROVE  WindowMirrorsHistory'
<1> DEFINE p == windowPos
<1> DEFINE q == windowPos'
<1>1. /\ p \in 0..(WindowSize - 1)
      /\ window \in [0..(WindowSize - 1) -> Byte]
      /\ emitted \in Seq(Byte)
  BY DEF TypeOK, CopyTypes
<1>2. /\ emitted' = Append(emitted, b)
      /\ window' = [window EXCEPT ![p] = b]
      /\ q = (p + 1) % WindowSize
  BY DEF Push
<1>3. q = IF p = WindowSize - 1 THEN 0 ELSE p + 1
  BY <1>1, <1>2, NextSlot
<1>4. q \in 0..(WindowSize - 1)
  BY <1>1, <1>3, SMT
<1>5. SUFFICES ASSUME NEW d \in 1..WindowSize
               PROVE  window'[(q + WindowSize - d) % WindowSize]
                        = History!Back(emitted', d)
  BY DEF WindowMirrorsHistory
<1>6. (q + WindowSize - d) % WindowSize = IF d <= q THEN q - d ELSE q + WindowSize - d
  BY <1>4, SlotBack
<1>7. CASE d = 1
  <2>1. (q + WindowSize - d) % WindowSize = p
    BY <1>1, <1>3, <1>6, <1>7, SMT
  <2>2. History!Back(emitted', d) = b
    BY <1>1, <1>2, <1>7, BackAppend, SMT
  <2> QED BY <1>1, <1>2, <2>1, <2>2
<1>8. CASE d # 1
  <2>1. d - 1 \in 1..WindowSize
    BY <1>8, SMT
  <2>2. (p + WindowSize - (d - 1)) % WindowSize
          = IF d - 1 <= p THEN p - (d - 1) ELSE p + WindowSize - (d - 1)
    BY <1>1, <2>1, SlotBack
  <2>3. (q + WindowSize - d) % WindowSize = (p + WindowSize - (d - 1)) % WindowSize
    BY <1>1, <1>3, <1>6, <1>8, <2>2, SMT
  <2>4. /\ (p + WindowSize - (d - 1)) % WindowSize \in 0..(WindowSize - 1)
        /\ (p + WindowSize - (d - 1)) % WindowSize # p
    BY <1>1, <1>8, <2>2, SMT
  <2>5. window[(p + WindowSize - (d - 1)) % WindowSize] = History!Back(emitted, d - 1)
    BY <2>1 DEF WindowMirrorsHistory
  <2>6. History!Back(emitted', d) = History!Back(emitted, d - 1)
    BY <1>1, <1>2, <1>8, BackAppend, SMT
  <2> QED BY <1>1, <1>2, <2>3, <2>4, <2>5, <2>6
<1> QED BY <1>7, <1>8

-----------------------------------------------------------------------------
(* The inductive invariant: types, the match that fits in its block (so    *)
(* that no counter goes below zero), and the window as mirror of the       *)
(* history.                                                                *)
IInv == TypeOK /\ MatchWithinBlock /\ WindowMirrorsHistory

\* A new decoder satisfies the invariant: its window is zeros, like a history
\* that has not begun.
LEMMA InitIInv == Init => IInv
<1> SUFFICES ASSUME Init PROVE IInv
  OBVIOUS
<1>1. TreeTypes
  <2>1. method \in 0..3
    BY SMT DEF Init
  <2> QED BY <2>1, LensAssumption, Zenon DEF Init, TreeTypes
<1>2. CopyTypes
  BY ByteAssumption, SMT DEF Init, CopyTypes, Distance
<1>3. BlockTypes
  BY DEF Init, BlockTypes
<1>4. CallTypes
  BY DEF Init, CallTypes
<1>5. MatchWithinBlock
  BY SMT DEF Init, MatchWithinBlock
<1>6. ASSUME NEW d \in 1..WindowSize
      PROVE  window[(windowPos + WindowSize - d) % WindowSize] = History!Back(emitted, d)
  <2>1. (0 + WindowSize - d) % WindowSize \in 0..(WindowSize - 1)
    BY SlotBack, SMT
  <2> QED BY <2>1, SMT DEF Init, History!Back
<1> QED BY <1>1, <1>2, <1>3, <1>4, <1>5, <1>6 DEF IInv, TypeOK, WindowMirrorsHistory

\* The byte a copy takes from the window.
LEMMA CopySource ==
    ASSUME CopyTypes, WindowMirrorsHistory
    PROVE  /\ window[(windowPos + WindowSize - lastOffset) % WindowSize] \in Byte
           /\ window[(windowPos + WindowSize - lastOffset) % WindowSize]
                = History!Back(emitted, lastOffset)
<1>1. lastOffset \in 1..WindowSize /\ lastOffset \in Nat \ {0} /\ emitted \in Seq(Byte)
  BY SMT DEF CopyTypes, Distance
<1>2. window[(windowPos + WindowSize - lastOffset) % WindowSize] = History!Back(emitted, lastOffset)
  BY <1>1 DEF WindowMirrorsHistory
<1> QED BY <1>1, <1>2, BackIsByte

\* A byte the block and the caller still want keeps the types.
LEMMA PushTypes ==
    ASSUME TypeOK, NEW b \in Byte, Push(b), blockRemaining > 0, owed > 0,
           lastOffset' \in Distance, matchRemaining' \in Nat
    PROVE  TypeOK'
<1>1. windowPos' \in 0..(WindowSize - 1)
  <2>1. windowPos \in 0..(WindowSize - 1)
    BY DEF TypeOK, CopyTypes
  <2>2. windowPos' = IF windowPos = WindowSize - 1 THEN 0 ELSE windowPos + 1
    BY <2>1, NextSlot DEF Push
  <2> QED BY <2>1, <2>2, SMT
<1>2. BlockTypes' /\ owed' \in Nat
  BY SMT DEF Push, TypeOK, BlockTypes, CallTypes
<1>3. window' \in [0..(WindowSize - 1) -> Byte] /\ emitted' \in Seq(Byte)
  BY SMT DEF Push, TypeOK, CopyTypes
<1>4. CopyTypes'
  BY <1>1, <1>3 DEF CopyTypes
<1>5. TreeTypes'
  BY DEF Push, TypeOK, TreeTypes, treeVars
<1>6. CallTypes'
  BY <1>2 DEF Push, TypeOK, CallTypes
<1> QED BY <1>2, <1>4, <1>5, <1>6 DEF TypeOK

\* The types and invariants that depend on variables left alone.
LEMMA Untouched ==
    ASSUME IInv
    PROVE  /\ UNCHANGED treeVars => TreeTypes'
           /\ UNCHANGED copyVars => CopyTypes' /\ WindowMirrorsHistory'
           /\ UNCHANGED blockVars => BlockTypes'
           /\ UNCHANGED callVars => CallTypes'
           /\ UNCHANGED <<copyVars, blockVars>> => MatchWithinBlock'
<1>1. UNCHANGED treeVars => TreeTypes'
  BY DEF IInv, TypeOK, TreeTypes, treeVars
<1>2. UNCHANGED copyVars => CopyTypes'
  BY DEF IInv, TypeOK, CopyTypes, copyVars
<1>3. UNCHANGED copyVars => WindowMirrorsHistory'
  BY DEF IInv, WindowMirrorsHistory, copyVars
<1>4. UNCHANGED blockVars => BlockTypes'
  BY DEF IInv, TypeOK, BlockTypes, blockVars
<1>5. UNCHANGED callVars => CallTypes'
  BY DEF IInv, TypeOK, CallTypes, callVars
<1>6. UNCHANGED <<copyVars, blockVars>> => MatchWithinBlock'
  BY DEF IInv, MatchWithinBlock, copyVars, blockVars
<1> QED BY <1>1, <1>2, <1>3, <1>4, <1>5, <1>6

\* An error answer keeps the types of the call.
LEMMA FailTypes ==
    ASSUME CallTypes, NEW e \in Errors, Fail(e)
    PROVE  CallTypes'
BY DEF CallTypes, Fail

\* A method that passes the checks keeps the tree types, when the main tree
\* and primed do.
LEMMA MethodTypes ==
    ASSUME TreeTypes, NEW m \in 1..3, MethodAccepted(m),
           literalLen' \in Lens, literalTable' \in GoodLens \cup {NoTable},
           primed' \in BOOLEAN
    PROVE  TreeTypes'
<1>1. method' \in 0..3
  BY SMT DEF MethodAccepted
<1>2. offsetLen' \in Lens /\ offsetTable' \in GoodLens \cup {NoTable}
  BY LensAssumption DEF MethodAccepted, TreeTypes
<1> QED BY <1>1, <1>2 DEF TreeTypes

\* A new block is announced only when the previous one, and with it its last
\* match, is used up.
LEMMA AnnounceKeeps ==
    ASSUME IInv, AtHeader, NEW n \in 0..MaxBlock, AnnounceBlock(n), UNCHANGED copyVars
    PROVE  BlockTypes' /\ MatchWithinBlock'
BY BoundAssumption, SMT DEF IInv, TypeOK, BlockTypes, CopyTypes, AtHeader, AnnounceBlock, copyVars,
                            MatchWithinBlock

\* The invariant is inductive: every handler keeps it, one case per action.
LEMMA StepIInv ==
    ASSUME IInv, [Next]_vars
    PROVE  IInv'
<1> USE DEF IInv, TypeOK
<1>1. ASSUME NEW n \in 0..MaxOut, DecodeInto(n) \/ Decode(n)
      PROVE  IInv'
  <2>1. Begin(n) /\ oneShot' \in BOOLEAN
    BY <1>1 DEF DecodeInto, Decode, CallTypes
  <2>2. Len(emitted) \in Nat
    BY DEF CopyTypes
  <2>3. owed' \in Nat /\ goal' \in Nat
    BY <2>1, <2>2, BoundAssumption, SMT DEF Begin
  <2>4. CallTypes'
    BY <2>1, <2>3 DEF Begin, CallTypes
  <2> QED BY <2>1, <2>4, Untouched DEF Begin
<1>2. ASSUME ReturnOk PROVE IInv'
  <2>1. CallTypes'
    BY <1>2 DEF ReturnOk, CallTypes
  <2> QED BY <1>2, <2>1, Untouched DEF ReturnOk
<1>3. ASSUME ReturnTooLong PROVE IInv'
  <2>1. CallTypes'
    BY <1>3, FailTypes DEF ReturnTooLong, Errors
  <2> QED BY <1>3, <2>1, Untouched DEF ReturnTooLong
<1>4. ASSUME HeaderRefused PROVE IInv'
  <2>1. CallTypes'
    BY <1>4, FailTypes DEF HeaderRefused, Errors
  <2> QED BY <1>4, <2>1, Untouched DEF HeaderRefused
<1>5. ASSUME AlignedTreeFails PROVE IInv'
  <2>1. CallTypes'
    BY <1>5, FailTypes DEF AlignedTreeFails, Errors
  <2>2. TreeTypes'
    BY <1>5, SMT DEF AlignedTreeFails, TreeTypes
  <2> QED BY <1>5, <2>1, <2>2, Untouched DEF AlignedTreeFails
<1>6. ASSUME LengthTruncated PROVE IInv'
  <2>1. CallTypes'
    BY <1>6, FailTypes DEF LengthTruncated, Errors
  <2>2. TreeTypes'
    BY <1>6, MethodTypes DEF LengthTruncated, TreeTypes
  <2> QED BY <1>6, <2>1, <2>2, Untouched DEF LengthTruncated
<1>7. ASSUME MainTreeFails PROVE IInv'
  <2>1. CallTypes'
    BY <1>7, FailTypes DEF MainTreeFails, Errors
  <2>2. PICK m \in 1..3 : MethodAccepted(m)
    BY <1>7, SMT DEF MainTreeFails
  <2>3. TreeTypes'
    BY <1>7, <2>2, MethodTypes DEF MainTreeFails, TreeTypes
  <2>4. BlockTypes' /\ MatchWithinBlock'
    BY <1>7, AnnounceKeeps DEF MainTreeFails
  <2> QED BY <1>7, <2>1, <2>3, <2>4, Untouched DEF MainTreeFails
<1>8. ASSUME HeaderRead PROVE IInv'
  <2>1. PICK m \in 1..3, n \in 0..MaxBlock :
             /\ MethodAccepted(m)
             /\ AnnounceBlock(n)
             /\ MainTree(m)
             /\ primed' = TRUE
             /\ IF n = 0 THEN Fail("truncated") ELSE UNCHANGED callVars
    BY <1>8 DEF HeaderRead
  <2>2. CallTypes'
    BY <2>1, FailTypes, Untouched DEF Errors
  <2>3. literalLen' \in Lens /\ literalTable' \in GoodLens \cup {NoTable}
    BY <2>1, LensAssumption DEF MainTree, TreeTypes
  <2>4. TreeTypes'
    BY <2>1, <2>3, MethodTypes
  <2>5. BlockTypes' /\ MatchWithinBlock'
    BY <1>8, <2>1, AnnounceKeeps DEF HeaderRead
  <2> QED BY <1>8, <2>2, <2>4, <2>5, Untouched DEF HeaderRead
<1>9. ASSUME CopyByte PROVE IInv'
  <2> DEFINE b == window[(windowPos + WindowSize - lastOffset) % WindowSize]
  <2>1. b \in Byte /\ Push(b)
    BY <1>9, CopySource DEF CopyByte
  <2>2. WindowMirrorsHistory'
    BY <2>1, PushKeepsMirror
  <2>3. matchRemaining' \in Nat /\ lastOffset' \in Distance
    BY <1>9, SMT DEF CopyByte, CopyTypes
  <2>4. TypeOK'
    BY <1>9, <2>1, <2>3, PushTypes DEF CopyByte
  <2>5. MatchWithinBlock'
    BY <1>9, SMT DEF CopyByte, Push, MatchWithinBlock, CopyTypes, BlockTypes
  <2> QED BY <2>2, <2>4, <2>5
<1>10. ASSUME DecodeLiteral PROVE IInv'
  <2>1. PICK b \in Byte : Push(b)
    BY <1>10 DEF DecodeLiteral
  <2>2. WindowMirrorsHistory'
    BY <2>1, PushKeepsMirror
  <2>3. TypeOK'
    BY <1>10, <2>1, PushTypes DEF DecodeLiteral, AtSymbol, CopyTypes
  <2>4. MatchWithinBlock'
    BY <1>10, <2>1, SMT DEF DecodeLiteral, AtSymbol, Push, MatchWithinBlock, BlockTypes
  <2> QED BY <2>2, <2>3, <2>4
<1>11. ASSUME SymbolPanics PROVE IInv'
  <2>1. CallTypes'
    BY <1>11 DEF SymbolPanics, CallTypes
  <2> QED BY <1>11, <2>1, Untouched DEF SymbolPanics
<1>12. ASSUME SymbolTruncated PROVE IInv'
  <2>1. CallTypes'
    BY <1>12, FailTypes DEF SymbolTruncated, Errors
  <2> QED BY <1>12, <2>1, Untouched DEF SymbolTruncated
<1>13. ASSUME DecodeMatch PROVE IInv'
  <2>1. lastOffset' \in Distance /\ matchRemaining' \in Nat
    BY <1>13, MatchAssumption, SMT DEF DecodeMatch, Effective, MatchLength, Distance, CopyTypes
  <2>2. CopyTypes'
    BY <1>13, <2>1 DEF DecodeMatch, CopyTypes
  <2>3. WindowMirrorsHistory'
    BY <1>13 DEF DecodeMatch, WindowMirrorsHistory
  <2>4. MatchWithinBlock'
    BY <1>13 DEF DecodeMatch, blockVars, MatchWithinBlock
  <2> QED BY <1>13, <2>2, <2>3, <2>4, Untouched DEF DecodeMatch
<1>14. ASSUME MatchRefused PROVE IInv'
  <2>1. CallTypes'
    BY <1>14, FailTypes DEF MatchRefused, Errors
  <2>2. lastOffset' \in Distance
    BY <1>14, SMT DEF MatchRefused, Effective, Distance, CopyTypes
  <2>3. CopyTypes'
    BY <1>14, <2>2 DEF MatchRefused, CopyTypes
  <2>4. WindowMirrorsHistory'
    BY <1>14 DEF MatchRefused, WindowMirrorsHistory
  <2>5. MatchWithinBlock'
    BY <1>14 DEF MatchRefused, blockVars, MatchWithinBlock
  <2> QED BY <1>14, <2>1, <2>3, <2>4, <2>5, Untouched DEF MatchRefused
<1>15. ASSUME UNCHANGED vars PROVE IInv'
  BY <1>15, Untouched DEF vars
<1> QED BY <1>1, <1>2, <1>3, <1>4, <1>5, <1>6, <1>7, <1>8, <1>9, <1>10, <1>11, <1>12, <1>13,
           <1>14, <1>15
        DEF Next, Call, Step

\* Types, the window's mirror and the bound on a match in progress hold in
\* every state; the other theorems rest on this one.
THEOREM Invariant == Spec => []IInv
BY InitIInv, StepIInv, PTL DEF Spec

\* decoder.rs keeps every field in its range, whatever the stream holds and
\* however the caller cuts its calls.
THEOREM TypeCorrect == Spec => []TypeOK
BY Invariant, PTL DEF IInv

\* The subtraction of decoder.rs:144 cannot wrap.
THEOREM MatchFits == Spec => []MatchWithinBlock
BY Invariant, PTL DEF IInv

\* The 64 KB ring holds exactly the last WindowSize bytes of the output.
THEOREM WindowIsHistory == Spec => []WindowMirrorsHistory
BY Invariant, PTL DEF IInv

-----------------------------------------------------------------------------
(* The decoder implements the unbounded history: each step is a step of    *)
(* LzHistory or leaves it unchanged.                                       *)

\* A new decoder is a new history.
LEMMA InitRefines == Init => History!Init
BY DEF Init, History!Init

\* Every step of the decoder is a step of the history or leaves it alone.
LEMMA StepRefines ==
    ASSUME IInv, [Next]_vars
    PROVE  [History!Next]_(History!vars)
<1> USE DEF IInv, TypeOK
<1>1. ASSUME UNCHANGED copyVars PROVE UNCHANGED History!vars
  BY <1>1 DEF copyVars, History!vars
<1>2. ASSUME CopyByte PROVE History!CopyByte
  BY <1>2, CopySource DEF CopyByte, Push, History!CopyByte
<1>3. ASSUME DecodeLiteral PROVE \E b \in Byte : History!Literal(b)
  BY <1>3 DEF DecodeLiteral, AtSymbol, Push, History!Literal
<1>4. ASSUME DecodeMatch
      PROVE  \E d \in 1..(WindowSize - 1), n \in MatchLength : History!Match(d, n)
  <2>1. PICK distance \in 0..(WindowSize - 1), n \in MatchLength :
             lastOffset' = Effective(distance) /\ matchRemaining' = n
    BY <1>4 DEF DecodeMatch
  <2>2. Effective(distance) \in 1..(WindowSize - 1)
    BY SMT DEF Effective, CopyTypes, Distance
  <2>3. History!Match(Effective(distance), n)
    BY <1>4, <2>1 DEF DecodeMatch, AtSymbol, History!Match
  <2> QED BY <2>2, <2>3
<1>5. ASSUME MatchRefused
      PROVE  \E d \in 1..(WindowSize - 1) : History!RefusedMatch(d)
  <2>1. PICK distance \in 0..(WindowSize - 1) : lastOffset' = Effective(distance)
    BY <1>5 DEF MatchRefused
  <2>2. Effective(distance) \in 1..(WindowSize - 1)
    BY SMT DEF Effective, CopyTypes, Distance
  <2>3. History!RefusedMatch(Effective(distance))
    BY <1>5, <2>1 DEF MatchRefused, AtSymbol, History!RefusedMatch
  <2> QED BY <2>2, <2>3
<1>6. ASSUME Next, ~CopyByte, ~DecodeLiteral, ~DecodeMatch, ~MatchRefused
      PROVE  UNCHANGED copyVars
  BY <1>6 DEF Next, Call, Step, DecodeInto, Decode, Begin, ReturnOk, ReturnTooLong, HeaderRefused,
              AlignedTreeFails, LengthTruncated, MainTreeFails, HeaderRead, SymbolPanics,
              SymbolTruncated
<1> QED BY <1>1, <1>2, <1>3, <1>4, <1>5, <1>6 DEF History!Next, vars

\* Whatever the window size: what the decoder emits, over all its calls, is
\* what literals and copies over an unbounded history produce.
THEOREM ImplementsHistory == Spec => RefinesHistory
BY InitRefines, StepRefines, Invariant, PTL DEF Spec, RefinesHistory, History!Spec

-----------------------------------------------------------------------------
(* Accounting.  Each of these is inductive next to the types.              *)

Accounts == BlockAccounting /\ CallAccounting

\* The helper's answer depends on both accounts.
LEMMA StepAccounts ==
    ASSUME IInv, Accounts, [Next]_vars
    PROVE  Accounts'
<1> USE DEF IInv, TypeOK, Accounts
<1>1. ASSUME NEW b \in Byte, Push(b), owed > 0, pc = "running" PROVE Accounts'
  <2>1. Len(emitted') = Len(emitted) + 1 /\ Len(emitted) \in Nat
    BY <1>1, SMT DEF Push, CopyTypes
  <2>2. BlockAccounting'
    BY <1>1, <2>1, SMT DEF Push, BlockAccounting, BlockTypes
  <2>3. CallAccounting'
    BY <1>1, <2>1, SMT DEF Push, CallAccounting, CallTypes
  <2> QED BY <2>2, <2>3
<1>2. ASSUME CopyByte PROVE Accounts'
  BY <1>1, <1>2, CopySource DEF CopyByte
<1>3. ASSUME DecodeLiteral PROVE Accounts'
  BY <1>1, <1>3 DEF DecodeLiteral, AtSymbol
<1>4. ASSUME NEW n \in 0..MaxOut, DecodeInto(n) \/ Decode(n) PROVE Accounts'
  <2>1. Begin(n)
    BY <1>4 DEF DecodeInto, Decode
  <2>2. BlockAccounting'
    BY <2>1 DEF Begin, BlockAccounting, blockVars, copyVars
  <2>3. CallAccounting'
    BY <2>1, SMT DEF Begin, CallAccounting, copyVars, CopyTypes
  <2> QED BY <2>2, <2>3
<1>5. ASSUME NEW n \in 0..MaxBlock, AnnounceBlock(n), AtHeader, UNCHANGED copyVars
      PROVE  BlockAccounting'
  BY <1>5, SMT DEF AnnounceBlock, AtHeader, copyVars, BlockAccounting, BlockTypes, CopyTypes
<1>6. ASSUME NEW e \in Errors, Fail(e) PROVE CallAccounting'
  BY <1>6 DEF Fail, CallAccounting, Errors
<1>7. ASSUME UNCHANGED <<copyVars, blockVars>> PROVE BlockAccounting'
  BY <1>7 DEF copyVars, blockVars, BlockAccounting
<1>8. ASSUME HeaderRead PROVE Accounts'
  <2>1. PICK n \in 0..MaxBlock :
             AnnounceBlock(n) /\ IF n = 0 THEN Fail("truncated") ELSE UNCHANGED callVars
    BY <1>8 DEF HeaderRead
  <2>2. BlockAccounting'
    BY <1>5, <1>8, <2>1 DEF HeaderRead
  <2>3. CallAccounting'
    BY <1>6, <1>8, <2>1 DEF HeaderRead, CallAccounting, callVars, copyVars, Errors
  <2> QED BY <2>2, <2>3
<1>9. ASSUME MainTreeFails PROVE Accounts'
  BY <1>5, <1>6, <1>9 DEF MainTreeFails, Errors
<1>10. ASSUME ReturnOk PROVE Accounts'
  <2>1. owed = 0
    BY <1>10, SMT DEF ReturnOk, CallTypes
  <2>2. CallAccounting'
    BY <1>10, <2>1, SMT DEF ReturnOk, CallAccounting, copyVars, CopyTypes
  <2> QED BY <1>7, <1>10, <2>2 DEF ReturnOk
<1>11. ASSUME \/ ReturnTooLong \/ HeaderRefused \/ AlignedTreeFails \/ LengthTruncated
              \/ SymbolTruncated
       PROVE  Accounts'
  BY <1>6, <1>7, <1>11 DEF ReturnTooLong, HeaderRefused, AlignedTreeFails, LengthTruncated,
                          SymbolTruncated, Errors
<1>12. ASSUME MatchRefused PROVE Accounts'
  <2>1. CallAccounting'
    BY <1>6, <1>12 DEF MatchRefused, Errors
  <2> QED BY <1>12, <2>1 DEF MatchRefused, BlockAccounting, blockVars
<1>13. ASSUME DecodeMatch PROVE Accounts'
  BY <1>13 DEF DecodeMatch, BlockAccounting, CallAccounting, blockVars, callVars
<1>14. ASSUME SymbolPanics PROVE Accounts'
  BY <1>7, <1>14 DEF SymbolPanics, CallAccounting
<1>15. ASSUME UNCHANGED vars PROVE Accounts'
  BY <1>15 DEF vars, copyVars, blockVars, callVars, BlockAccounting, CallAccounting
<1> QED BY <1>2, <1>3, <1>4, <1>8, <1>9, <1>10, <1>11, <1>12, <1>13, <1>14, <1>15
        DEF Next, Call, Step

\* At the start nothing was announced, emitted or owed.
LEMMA InitAccounts == Init => Accounts
BY SMT DEF Init, Accounts, BlockAccounting, CallAccounting

\* Bytes out plus bytes still owed by the block are what headers announced.
THEOREM BlocksAddUp == Spec => []BlockAccounting
BY InitAccounts, StepAccounts, Invariant, PTL DEF Spec, Accounts

\* An Ok call has delivered exactly the bytes it was asked for.
THEOREM CallsAddUp == Spec => []CallAccounting
BY InitAccounts, StepAccounts, Invariant, PTL DEF Spec, Accounts

\* decode() answers Ok only for a payload whose blocks end where it should.
THEOREM OneShotIsExact == Spec => []OneShotExact
<1>1. Init => OneShotExact
  BY DEF Init, OneShotExact
<1>2. ASSUME IInv, Accounts, OneShotExact, [Next]_vars
      PROVE  OneShotExact'
  <2>1. CASE ReturnOk
    <3>1. owed = 0 /\ Len(emitted) \in Nat
      BY <1>2, <2>1, SMT DEF ReturnOk, IInv, TypeOK, CallTypes, CopyTypes
    <3>2. Len(emitted) = goal
      BY <1>2, <2>1, <3>1, SMT DEF ReturnOk, Accounts, CallAccounting, IInv, TypeOK, CallTypes
    <3>3. oneShot => announced = Len(emitted)
      BY <1>2, <2>1, <3>1, SMT DEF ReturnOk, Accounts, BlockAccounting
    <3> QED BY <2>1, <3>2, <3>3 DEF ReturnOk, OneShotExact, blockVars
  <2>2. CASE Next /\ ~ReturnOk
    <3>1. ~(oneShot' /\ pc' = "idle" /\ result' = "ok") \/ UNCHANGED <<oneShot, pc, result, announced, goal>>
      BY <1>2, <2>2
         DEF Next, Call, Step, DecodeInto, Decode, Begin, ReturnTooLong, Fail, HeaderRefused,
             AlignedTreeFails, LengthTruncated, MainTreeFails, HeaderRead, CopyByte, Push,
             SymbolPanics, DecodeLiteral, SymbolTruncated, DecodeMatch, MatchRefused, AtHeader,
             AtSymbol, callVars
    <3> QED BY <1>2, <3>1 DEF OneShotExact
  <2>3. CASE UNCHANGED vars
    BY <1>2, <2>3 DEF vars, blockVars, callVars, OneShotExact
  <2> QED BY <1>2, <2>1, <2>2, <2>3
<1> QED BY <1>1, <1>2, InitAccounts, StepAccounts, Invariant, PTL DEF Spec

-----------------------------------------------------------------------------
(* Trees.  FreshTables is not inductive: it says nothing of the trees      *)
(* between blocks, which a method-1 header brings back into use.           *)

TreesInv ==
    /\ primed => literalTable # NoTable
    /\ ~failed /\ primed => literalTable = literalLen
    /\ ~failed => pc # "panicked"
    /\ ~failed /\ blockRemaining > 0 => primed
    /\ method = 1 /\ blockRemaining > 0 => primed
    /\ AlignedTableCurrent

\* At the start there is no block, so nothing is claimed of its trees.
LEMMA InitTrees == Init => TreesInv
BY SMT DEF Init, TreesInv, AlignedTableCurrent

\* What is claimed of the trees is kept by every step, failed headers included.
LEMMA StepTrees ==
    ASSUME IInv, TreesInv, [Next]_vars
    PROVE  TreesInv'
<1> USE DEF TreesInv, AlignedTableCurrent
<1>1. ASSUME UNCHANGED <<treeVars, blockRemaining>>,
             ~failed' => ~failed /\ pc' # "panicked"
      PROVE  TreesInv'
  BY <1>1 DEF treeVars
<1>2. ASSUME NEW n \in 0..MaxOut, DecodeInto(n) \/ Decode(n) PROVE TreesInv'
  BY <1>1, <1>2 DEF DecodeInto, Decode, Begin, blockVars
<1>3. ASSUME \/ ReturnOk \/ ReturnTooLong \/ HeaderRefused \/ SymbolTruncated \/ DecodeMatch
             \/ MatchRefused
      PROVE  TreesInv'
  BY <1>1, <1>3 DEF ReturnOk, ReturnTooLong, HeaderRefused, SymbolTruncated, DecodeMatch,
                    MatchRefused, Fail, blockVars, callVars
<1>4. ASSUME AlignedTreeFails PROVE TreesInv'
  BY <1>4, SMT DEF AlignedTreeFails, AtHeader, Fail, blockVars
<1>5. ASSUME LengthTruncated PROVE TreesInv'
  BY <1>5, SMT DEF LengthTruncated, AtHeader, MethodAccepted, Fail, blockVars
<1>6. ASSUME MainTreeFails PROVE TreesInv'
  <2>1. PICK m \in 2..3 : MethodAccepted(m)
    BY <1>6 DEF MainTreeFails
  <2>2. m # 1 /\ method' = m
    BY <2>1, SMT DEF MethodAccepted
  <2>3. m = 3 => offsetTable' = offsetLen'
    BY <2>1 DEF MethodAccepted
  <2> QED BY <1>6, <2>2, <2>3 DEF MainTreeFails, Fail
<1>7. ASSUME HeaderRead PROVE TreesInv'
  <2>1. PICK m \in 1..3, n \in 0..MaxBlock :
             /\ MethodAccepted(m)
             /\ MainTree(m)
             /\ primed' = TRUE
             /\ IF n = 0 THEN Fail("truncated") ELSE UNCHANGED callVars
    BY <1>7 DEF HeaderRead
  <2>2. m = 3 => offsetTable' = offsetLen'
    BY <2>1 DEF MethodAccepted
  <2>3. literalTable' # NoTable
    BY <2>1, LensAssumption DEF MainTree, MethodAccepted
  <2>4. ~failed' => ~failed /\ pc' # "panicked"
    BY <2>1 DEF Fail, callVars
  <2>5. ~failed' => literalTable' = literalLen'
    BY <2>1, <2>4 DEF MainTree, MethodAccepted
  <2> QED BY <2>1, <2>2, <2>3, <2>4, <2>5 DEF MethodAccepted
<1>8. ASSUME NEW b \in Byte, Push(b), blockRemaining > 0 PROVE TreesInv'
  BY <1>8 DEF Push, treeVars
<1>9. ASSUME CopyByte \/ DecodeLiteral PROVE TreesInv'
  BY <1>8, <1>9, CopySource DEF CopyByte, DecodeLiteral, AtSymbol, IInv, TypeOK
<1>10. ASSUME SymbolPanics PROVE TreesInv'
  BY <1>10 DEF SymbolPanics, AtSymbol, treeVars, blockVars
<1>11. ASSUME UNCHANGED vars PROVE TreesInv'
  BY <1>1, <1>11 DEF vars, blockVars, callVars
<1> QED BY <1>2, <1>3, <1>4, <1>5, <1>6, <1>7, <1>9, <1>10, <1>11 DEF Next, Call, Step

\* The claims about the trees hold in every state.
LEMMA TreesHold == Spec => []TreesInv
BY InitTrees, StepTrees, Invariant, PTL DEF Spec

\* Until a call has failed, symbols are decoded with the table of the
\* current lengths.
THEOREM TablesAreFresh == Spec => []FreshTables
<1>1. TreesInv => FreshTables
  BY DEF TreesInv, FreshTables
<1> QED BY <1>1, TreesHold, PTL

\* The aligned tree is current in every type-3 block, also after errors.
THEOREM AlignedTableIsCurrent == Spec => []AlignedTableCurrent
<1>1. TreesInv => AlignedTableCurrent
  BY DEF TreesInv
<1> QED BY <1>1, TreesHold, PTL

\* A block that reuses trees has trees to reuse, also after errors.
THEOREM ReuseIsSafe == Spec => []ReuseHasTable
<1>1. TreesInv => ReuseHasTable
  BY DEF TreesInv, ReuseHasTable
<1> QED BY <1>1, TreesHold, PTL
=============================================================================
