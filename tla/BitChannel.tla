----------------------------- MODULE BitChannel -----------------------------
(***************************************************************************)
(* A bit writer and a bit reader on one file.  The file is read after the  *)
(* writer has finished or failed, and may have lost its end by then.       *)
(***************************************************************************)
EXTENDS BitWriter, BitReader

\* All callers of write_bits in the crate write at most a word; one bit more
\* would still fit into a register that holds all but one bit of a word.
ASSUME ChannelAssumption == MaxWidth <= WordBits + 1

VARIABLE reading  \* the file has been handed to the reader

vars == <<writerVars, readerVars, reading>>

Init == InitWriter /\ InitReader /\ reading = FALSE

Write == ~reading /\ NextWriter /\ UNCHANGED <<readerVars, reading>>

\* The file is kept whole, or cut after any byte.
Open ==
    /\ ~reading /\ wstate # "open"
    /\ reading' = TRUE
    /\ \E n \in 0..Len(disk) : disk' = SubSeq(disk, 1, n)
    /\ UNCHANGED <<buffer, pending, written, wstate, readerVars>>

Read ==
    /\ reading
    /\ NextReader
    /\ UNCHANGED <<buffer, pending, written, wstate, reading>>

Next == Write \/ Open \/ Read

Spec == Init /\ [][Next]_vars

-----------------------------------------------------------------------------
(* Properties *)

\* Until the file is cut, it is the output the writer promises.
OutputBeforeCut == ~reading => OutputIsWhatWasWritten

\* End to end: whatever was cut off and whatever failed, the reader hands
\* out the bits that were written, in order, and after them only padding.
RoundTrip == ~skipped => \A i \in DOMAIN consumed : consumed[i] = ZeroExtended(i)
=============================================================================
