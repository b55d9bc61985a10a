--------------------------- MODULE ArchiveReader ---------------------------
(***************************************************************************)
(* archive/reader.rs over a file that may be damaged in one of several     *)
(* ways, or cut short, and whose reads may fail.  A caller calls           *)
(* next_entry again and again, also after an error.                        *)
(*                                                                         *)
(* Every entry of the file takes three cells: the fixed part of its        *)
(* header, the names behind it, and its payload (of no width when the      *)
(* entry has none).  Entry i starts at position 3 * (i - 1).  A CRC is     *)
(* taken to detect every damage, and bytes that are not a header are taken *)
(* never to pass for one.                                                  *)
(***************************************************************************)
EXTENDS Integers, Sequences, FiniteSets, SequencesExt

CONSTANTS MaxEntries,  \* bound: entries in the file
          MaxSize,     \* bound: original_size of an entry
          MaxFaults,   \* bound: damaged entries
          MaxHiccups   \* bound: reads that fail

ASSUME ReaderAssumption ==
    MaxEntries \in Nat /\ MaxSize \in Nat /\ MaxFaults \in Nat /\ MaxHiccups \in Nat

VARIABLES
    entries,    \* the headers in the file, with the damage done to each entry
    end,        \* where the file ends
    pos,        \* position of the inner reader
    queue,      \* decoded entries that next_entry returns first
    group,      \* the local variable of next_entry; empty between two calls
    delivered,  \* history: what next_entry has returned, by number
    last,       \* how the latest call ended
    failed,     \* history: some call has ended in an error
    hiccups     \* reads that have failed so far

vars == <<entries, end, pos, queue, group, delivered, last, failed, hiccups>>

\* "header": the header CRC is wrong.  "payload": the payload does not
\* decode, or its pack mode or stored size is refused.  "data": the CRC of
\* the entry's data is wrong.
Faults == {"none", "header", "payload", "data"}
Entries == {e \in [merged : BOOLEAN, size : 0..MaxSize, packed : BOOLEAN, fault : Faults] :
               e.fault = "payload" => e.packed}

Damaged(es) == {i \in DOMAIN es : es[i].fault # "none"}

\* The positions that lie between two cells of the file.
Positions == {p \in 0..(3 * Len(entries)) : p % 3 = 2 => entries[(p + 1) \div 3].packed}
Behind(i) == IF entries[i].packed THEN 3 * i - 1 ELSE 3 * i

Init ==
    /\ entries \in UNION {[1..n -> Entries] : n \in 0..MaxEntries}
    /\ Cardinality(Damaged(entries)) <= MaxFaults
    /\ end \in Positions
    /\ pos = 0 /\ queue = << >> /\ group = << >> /\ delivered = << >>
    /\ last = "none yet" /\ failed = FALSE /\ hiccups = 0

-----------------------------------------------------------------------------
\* The sum of the original sizes of the entries in S.
SizeOf(S) == MapThenSumSet(LAMBDA i : entries[i].size, S)

\* The entries that share a payload as the archive was written: entry i
\* belongs to the group of the first packed entry from i on.
SameGroup(i, j) ==
    /\ entries[i].merged /\ entries[j].merged
    /\ \A k \in i..(j - 1) \cup j..(i - 1) : entries[k].merged /\ ~entries[k].packed
GroupOf(i) == {j \in DOMAIN entries : SameGroup(i, j)}

\* The data of entry i starts there in the stream its group shares.
OffsetInStream(i) == SizeOf({j \in GroupOf(i) : j < i})

\* The slice that next_entry cuts out for the k-th entry of the group g it
\* collected has the CRC of that entry's header.
Verified(g, k) ==
    LET i == g[k]
        cursor == SizeOf({g[j] : j \in 1..(k - 1)})
    IN  entries[i].fault # "data" /\ (entries[i].size = 0 \/ cursor = OffsetInStream(i))

-----------------------------------------------------------------------------
Entry(i) == delivered' = Append(delivered, i) /\ last' = "entry" /\ failed' = failed
None     == last' = "none" /\ UNCHANGED <<delivered, failed>>
Err      == last' = "error" /\ failed' = TRUE /\ delivered' = delivered

\* Where a header may leave the reader when its length fields are not what
\* was written.
Anywhere == {p \in Positions : pos < p /\ p <= end}

\* Faulty: a header with a wrong CRC is not consumed.
EntryMetaPeeks ==
    LET i == (pos \div 3) + 1
    IN  IF pos = end THEN {[id |-> 0, pos |-> pos]}
        ELSE IF pos % 3 # 0 \/ entries[i].fault = "header"
        THEN {[id |-> -1, pos |-> pos]}
        ELSE IF end < pos + 2 THEN {[id |-> -1, pos |-> end]}
        ELSE {[id |-> i, pos |-> Behind(i)]}

\* read_entry_meta: nothing (id 0), an error (id -1), or a header, and the
\* position behind it.
EntryMeta ==
    LET i == (pos \div 3) + 1
    IN  IF pos = end THEN {[id |-> 0, pos |-> pos]}
        ELSE IF pos % 3 # 0 \/ entries[i].fault = "header"
        THEN {[id |-> -1, pos |-> p] : p \in Anywhere}
        ELSE IF end < pos + 2 THEN {[id |-> -1, pos |-> end]}
        ELSE {[id |-> i, pos |-> Behind(i)]}

\* next_entry with entries queued.
ReturnQueued ==
    /\ group = << >> /\ queue # << >>
    /\ Entry(Head(queue)) /\ queue' = Tail(queue)
    /\ UNCHANGED <<entries, end, pos, group, hiccups>>

\* Faulty: the payload is read only once the pack mode is accepted.
SingleModeFirst(i, p) ==
    LET e == entries[i]
    IN  IF e.fault = "payload" THEN Err /\ pos' = p
        ELSE IF e.packed /\ end < 3 * i THEN Err /\ pos' = end
        ELSE /\ pos' = 3 * i
             /\ IF e.fault # "data" /\ (e.size = 0 \/ e.packed) THEN Entry(i) ELSE Err

\* decode_single_entry: the payload is read whatever becomes of it.
Single(i, p) ==
    LET e == entries[i]
    IN  IF e.packed /\ end < 3 * i THEN Err /\ pos' = end
        ELSE /\ pos' = 3 * i
             /\ IF /\ e.fault # "data"
                   /\ e.size = 0 \/ (e.packed /\ e.fault # "payload")
                THEN Entry(i) ELSE Err

\* What next_entry makes of its first header.
FirstHeader ==
    /\ \E m \in EntryMeta :
          \/ m.id = 0  /\ None /\ pos' = m.pos /\ group' = group
          \/ m.id = -1 /\ Err /\ pos' = m.pos /\ group' = group
          \/ m.id > 0 /\ ~entries[m.id].merged /\ Single(m.id, m.pos) /\ group' = group
          \/ /\ m.id > 0 /\ entries[m.id].merged
             /\ group' = <<m.id>> /\ pos' = m.pos
             /\ UNCHANGED <<delivered, last, failed>>
    /\ UNCHANGED <<entries, end, queue, hiccups>>

\* Faulty: the queue is not looked at.
StartPastQueue == group = << >> /\ FirstHeader

\* next_entry with an empty queue, as far as its first header takes it.
Start == group = << >> /\ queue = << >> /\ FirstHeader

\* Faulty: a group that ends without a payload is taken for the end of the
\* archive.
CollectToEnd ==
    /\ group # << >> /\ ~entries[Last(group)].packed
    /\ \E m \in EntryMeta :
          /\ pos' = m.pos
          /\ \/ m.id = 0 /\ None /\ group' = << >>
             \/ m.id = -1 /\ Err /\ group' = << >>
             \/ m.id > 0 /\ ~entries[m.id].merged /\ Err /\ group' = << >>
             \/ /\ m.id > 0 /\ entries[m.id].merged
                /\ group' = Append(group, m.id)
                /\ UNCHANGED <<delivered, last, failed>>
    /\ UNCHANGED <<entries, end, queue, hiccups>>

\* One turn of the loop that looks for the payload of a merged group.
Collect ==
    /\ group # << >> /\ ~entries[Last(group)].packed
    /\ \E m \in EntryMeta :
          /\ pos' = m.pos
          /\ \/ m.id <= 0 /\ Err /\ group' = << >>
             \/ m.id > 0 /\ ~entries[m.id].merged /\ Err /\ group' = << >>
             \/ /\ m.id > 0 /\ entries[m.id].merged
                /\ group' = Append(group, m.id)
                /\ UNCHANGED <<delivered, last, failed>>
    /\ UNCHANGED <<entries, end, queue, hiccups>>

\* Faulty: slices are queued as they are, without their CRC.
DemuxUnchecked(g) == Entry(Head(g)) /\ queue' = Tail(g)

\* The stream of the group g is cut into slices; the first one that fails
\* its CRC ends the call, with the slices before it left in the queue.
Demux(g) ==
    LET bad == {k \in DOMAIN g : ~Verified(g, k)}
    IN  IF bad = {} THEN Entry(Head(g)) /\ queue' = Tail(g)
        ELSE Err /\ queue' = SubSeq(g, 1, Min(bad) - 1)

\* The rest of next_entry for a merged group.  A stream of which only a part
\* is asked for may also be refused, because its last block goes on.
Unpack ==
    /\ group # << >> /\ entries[Last(group)].packed
    /\ LET tail  == Last(group)
           total == SizeOf(Range(group))
       IN  IF end < 3 * tail THEN Err /\ pos' = end /\ queue' = queue
           ELSE /\ pos' = 3 * tail
                /\ \/ /\ total = 0 \/ entries[tail].fault # "payload"
                      /\ Demux(group)
                   \/ /\ total > 0
                      /\ entries[tail].fault = "payload" \/ total # SizeOf(GroupOf(tail))
                      /\ Err /\ queue' = queue
    /\ group' = << >>
    /\ UNCHANGED <<entries, end, hiccups>>

\* A read fails at any point of a call; what it had taken is gone.
ReadFails ==
    /\ hiccups < MaxHiccups
    /\ group # << >> \/ queue = << >>
    /\ Err /\ group' = << >>
    /\ pos' \in {p \in Positions : pos <= p /\ p <= end /\ p <= pos + 3}
    /\ hiccups' = hiccups + 1
    /\ UNCHANGED <<entries, end, queue>>

Next == ReturnQueued \/ Start \/ Collect \/ Unpack \/ ReadFails

\* A call runs to its end, and the caller calls again until it gets None.
Spec == Init /\ [][Next]_vars /\ WF_vars(Next)

-----------------------------------------------------------------------------
(* Properties *)

\* Entries come out in the order of the file and none comes twice, although
\* some wait in the queue and an error may leave the reader out of step.
DeliveredInOrder ==
    LET all == delivered \o queue \o group
    IN  \A k \in 1..(Len(all) - 1) : all[k] < all[k + 1]

\* "already verified against `data`" (reader.rs:32): no entry comes out whose
\* header or data is damaged, also when the reader has lost the first
\* entries of a group and cuts the stream in the wrong places.
OnlySound ==
    \A k \in DOMAIN delivered : entries[delivered[k]].fault \notin {"header", "data"}

\* Until an error is returned nothing is left out, and None then means that
\* every entry that begins in the file has come out.
NothingLeftOut ==
    ~failed =>
        /\ delivered \o queue \o group = [k \in 1..Len(delivered \o queue \o group) |-> k]
        /\ last = "none" => end = 3 * Len(delivered)

\* Damage that leaves the headers readable: nothing failed to be read, every
\* header is sound, and every group is closed by a payload or by the end.
InStep ==
    /\ hiccups = 0
    /\ \A i \in DOMAIN entries : entries[i].fault # "header"
    /\ \A i \in 1..(Len(entries) - 1) :
          entries[i].merged /\ ~entries[i].packed => entries[i + 1].merged

\* What can be recovered of entry i: its payload is whole and decodes, and no
\* slice of its group up to its own is damaged.
Recoverable(i) ==
    LET e == entries[i]
    IN  IF ~e.merged
        THEN /\ end >= 3 * i
             /\ e.fault # "data"
             /\ e.size = 0 \/ (e.packed /\ e.fault # "payload")
        ELSE /\ \A j \in GroupOf(i) : j <= i => entries[j].fault # "data"
             /\ \E t \in GroupOf(i) :
                   /\ entries[t].packed /\ end >= 3 * t
                   /\ SizeOf(GroupOf(i)) = 0 \/ entries[t].fault # "payload"

\* A damaged payload costs no other group, and a damaged slice only itself and
\* those behind it in its group: at the end exactly the entries that can be
\* recovered have come out, whatever else was damaged.
RecoversTheRest ==
    last = "none" /\ InStep =>
        Range(delivered) = {i \in DOMAIN entries : Recoverable(i)}

\* A caller that goes on after errors comes to the end of the archive.
EventuallyEnds == <>[](last = "none")
=============================================================================
