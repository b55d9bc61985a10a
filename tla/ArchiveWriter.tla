--------------------------- MODULE ArchiveWriter ---------------------------
(***************************************************************************)
(* archive/writer.rs on a seekable file whose every operation may fail: an *)
(* entry reserves room for its header, writes its payload, then seeks back *)
(* to patch the header in.  The borrow of the archive allows one open      *)
(* entry at a time.  The caller may go on after an error, or drop an entry *)
(* without finishing it.                                                   *)
(*                                                                         *)
(* The file is a sequence of cells; a cell says what was last written      *)
(* there.  Header and payload bytes are abstracted to a few cells each, so *)
(* that a write can stop half-way.                                         *)
(***************************************************************************)
EXTENDS Integers, Sequences

CONSTANTS FixedCells,   \* cells of the fixed part of an entry header
          MaxNames,     \* bound: cells of filename and comment
          MaxPayload,   \* bound: cells of a payload
          MaxEntries    \* bound: add_entry calls

ASSUME ArchiveAssumption ==
    /\ FixedCells \in Nat \ {0}
    /\ MaxNames \in Nat /\ MaxPayload \in Nat /\ MaxEntries \in Nat

VARIABLES
    file,       \* cells of the file
    position,   \* stream position of the inner writer
    entry,      \* the open EntryWriter, or NoEntry
    begun,      \* entries begun so far; numbers them
    attempts,   \* history: every finish that was tried, and whether it returned Ok
    failed,     \* history: some call has returned an I/O error
    resumed,    \* history: a call was made after one that failed
    dropped     \* history: an entry was dropped unfinished

vars == <<file, position, entry, begun, attempts, failed, resumed, dropped>>

NoEntry == [id |-> 0, names |-> 0, at |-> 0]
Info   == [kind |-> "info", id |-> 0, part |-> 1]
Blank  == [kind |-> "blank", id |-> 0, part |-> 0]
HeaderCell(id, part)  == [kind |-> "header", id |-> id, part |-> part]
PayloadCell(id, part) == [kind |-> "payload", id |-> id, part |-> part]

HeaderLen(names) == FixedCells + names
Placeholder(names) == [i \in 1..HeaderLen(names) |-> Blank]
Header(id, names)  == [i \in 1..HeaderLen(names) |-> HeaderCell(id, i)]
Payload(id, size)  == [i \in 1..size |-> PayloadCell(id, i)]

Init ==
    /\ file = <<Info>> /\ position = 1
    /\ entry = NoEntry /\ begun = 0 /\ attempts = << >>
    /\ failed = FALSE /\ resumed = FALSE /\ dropped = FALSE

\* The file f after the cells s were written at position p.
Overwrite(f, p, s) ==
    [i \in 1..(IF p + Len(s) > Len(f) THEN p + Len(s) ELSE Len(f)) |->
        IF i \in (p + 1)..(p + Len(s)) THEN s[i - p] ELSE f[i]]

Prefix(s, n) == SubSeq(s, 1, n)

-----------------------------------------------------------------------------
\* Faulty: the names are not counted when room is made for the header.
ReserveFixedPart(names) ==
    /\ file' = Overwrite(file, position, Placeholder(0))
    /\ position' = position + FixedCells

\* add_entry after its checks on the names: room for the header.
Reserve(names) ==
    /\ file' = Overwrite(file, position, Placeholder(names))
    /\ position' = position + HeaderLen(names)

AddEntry ==
    /\ entry = NoEntry /\ begun < MaxEntries
    /\ \E names \in 0..MaxNames :
          /\ Reserve(names)
          /\ entry' = [id |-> begun + 1, names |-> names, at |-> position]
    /\ begun' = begun + 1
    /\ resumed' = (resumed \/ failed)
    /\ UNCHANGED <<attempts, failed, dropped>>

\* stream_position fails, or write_all after n cells: no entry is opened.
AddEntryFails ==
    /\ entry = NoEntry /\ begun < MaxEntries
    /\ \E names \in 0..MaxNames :
          \E n \in 0..(HeaderLen(names) - 1) :
             /\ file' = Overwrite(file, position, Prefix(Placeholder(names), n))
             /\ position' = position + n
    /\ begun' = begun + 1
    /\ failed' = TRUE
    /\ resumed' = (resumed \/ failed)
    /\ UNCHANGED <<entry, attempts, dropped>>

\* finish consumes the entry and answers Ok or an error.
Answer(size, ok) ==
    /\ attempts' = Append(attempts, [id |-> entry.id, names |-> entry.names, at |-> entry.at,
                                     size |-> size, ok |-> ok])
    /\ entry' = NoEntry
    /\ failed' = (failed \/ ~ok)
    /\ UNCHANGED <<begun, resumed, dropped>>

\* The file once the payload of the open entry is written, and once its
\* header is patched as well.
WithPayload(size) == Overwrite(file, position, Payload(entry.id, size))
WithHeader(size)  == Overwrite(WithPayload(size), entry.at, Header(entry.id, entry.names))

\* Faulty: the position is not restored after the patch.
FinishAtHeader ==
    /\ entry # NoEntry
    /\ \E size \in 0..MaxPayload :
          /\ file' = WithHeader(size)
          /\ position' = entry.at + HeaderLen(entry.names)
          /\ Answer(size, TRUE)

\* finish: payload, end position, seek back, header, seek to the end.
Finish ==
    /\ entry # NoEntry
    /\ \E size \in 0..MaxPayload :
          /\ file' = WithHeader(size)
          /\ position' = position + size
          /\ Answer(size, TRUE)

\* The payload is written in part, or in full and the position cannot be
\* read or set back.
PayloadFails ==
    /\ entry # NoEntry
    /\ \E size \in 0..MaxPayload :
          \E n \in 0..size :
             /\ file' = WithPayload(n)
             /\ position' = position + n
             /\ Answer(size, FALSE)

\* Faulty: the header goes out before the payload.
HeaderFirst ==
    /\ entry # NoEntry
    /\ \E size \in 0..MaxPayload, n \in 0..HeaderLen(entry.names) :
          /\ file' = Overwrite(file, entry.at, Prefix(Header(entry.id, entry.names), n))
          /\ position' = entry.at + n
          /\ Answer(size, FALSE)

\* The header is patched in part, or in full and the last seek fails: the
\* position is left inside the entry.
PatchFails ==
    /\ entry # NoEntry
    /\ \E size \in 0..MaxPayload, n \in 0..HeaderLen(entry.names) :
          /\ file' = Overwrite(WithPayload(size), entry.at,
                               Prefix(Header(entry.id, entry.names), n))
          /\ position' = entry.at + n
          /\ Answer(size, FALSE)

\* An EntryWriter is dropped (a build with debug assertions panics instead).
Drop ==
    /\ entry # NoEntry
    /\ entry' = NoEntry
    /\ dropped' = TRUE
    /\ UNCHANGED <<file, position, begun, attempts, failed, resumed>>

Next == AddEntry \/ AddEntryFails \/ Finish \/ PayloadFails \/ PatchFails \/ Drop

Spec == Init /\ [][Next]_vars

-----------------------------------------------------------------------------
(* Properties *)

Cells == {Info, Blank}
         \cup [kind : {"header"}, id : 1..MaxEntries, part : 1..HeaderLen(MaxNames)]
         \cup [kind : {"payload"}, id : 1..MaxEntries, part : 1..MaxPayload]

\* Every variable has its type, and the position is never past the end of
\* the file, so that no hole of unwritten bytes can arise.
TypeOK ==
    /\ file \in Seq(Cells) /\ position \in 0..Len(file)
    /\ entry \in {NoEntry} \cup [id : 1..MaxEntries, names : 0..MaxNames, at : Nat]
    /\ begun \in 0..MaxEntries
    /\ attempts \in Seq([id : 1..MaxEntries, names : 0..MaxNames, at : Nat,
                         size : 0..MaxPayload, ok : BOOLEAN])
    /\ failed \in BOOLEAN /\ resumed \in BOOLEAN /\ dropped \in BOOLEAN

\* The cells an entry takes, its header and its payload on disk.
PayloadAt(a) == a.at + HeaderLen(a.names)
EndOf(a) == PayloadAt(a) + a.size
HeaderOnDisk(a) ==
    PayloadAt(a) <= Len(file) /\ SubSeq(file, a.at + 1, PayloadAt(a)) = Header(a.id, a.names)
PayloadOnDisk(a) ==
    EndOf(a) <= Len(file) /\ SubSeq(file, PayloadAt(a) + 1, EndOf(a)) = Payload(a.id, a.size)

\* An entry whose finish returned Ok stays whole, whatever fails later and
\* although failed entries leave the position in the middle of the file.
CommittedIntact ==
    \A k \in DOMAIN attempts :
        attempts[k].ok => HeaderOnDisk(attempts[k]) /\ PayloadOnDisk(attempts[k])

\* While nothing failed or was dropped, the file between two entries is the
\* info header and the finished entries, back to back, and the next entry
\* goes to its end.
FileIsArchive ==
    ~failed /\ ~dropped /\ entry = NoEntry /\ begun > 0 =>
        /\ position = Len(file) /\ Len(file) = EndOf(attempts[begun])
        /\ Len(attempts) = begun
        /\ \A k \in DOMAIN attempts :
              attempts[k].at = IF k = 1 THEN 1 ELSE EndOf(attempts[k - 1])

\* The write order is a commit protocol: wherever finish stops, a complete
\* header on disk has its payload behind it, so a torn entry is seen as torn.
\* (A caller that goes on after an error can still overwrite that payload.)
HeaderImpliesPayload ==
    ~resumed =>
        \A k \in DOMAIN attempts : HeaderOnDisk(attempts[k]) => PayloadOnDisk(attempts[k])
=============================================================================
