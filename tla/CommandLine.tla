----------------------------- MODULE CommandLine -----------------------------
(***************************************************************************)
(* The command line on the archive writer: "c" collects files, truncates   *)
(* the archive, and writes one entry per file through a BufWriter; "x"     *)
(* reads the archive back into a directory.  Both stop at the first error. *)
(*                                                                         *)
(* "file" is the archive on disk and "position" the position of its        *)
(* handle; "buffer" holds what the BufWriter has accepted and not yet      *)
(* written.  A step that writes may fail with any part of it written.      *)
(* The client "library" is the caller of ArchiveWriter, who may go on      *)
(* after an error and writes without a buffer.                             *)
(***************************************************************************)
EXTENDS ArchiveWriter, FiniteSetsExt, SequencesExt

CONSTANTS Tree,       \* the files "c" can meet: node -> what it is
          Missing,    \* an archive path where no file is
          RootLists,  \* bound: the arguments "c" is called with
          Losses,     \* bound: the entries of directories the walk of each argument may
                      \* fail to read
          Archives,   \* bound: the nodes the archive path may lead to
          Outdirs,    \* bound: what the directory of "x" holds before
          Capacity    \* cells a BufWriter holds; a header always fits

ASSUME CapacityAssumption == Capacity \in Nat /\ HeaderLen(MaxNames) < Capacity

\* No directory is below itself: links are not followed.
ASSUME TreeAssumption ==
    /\ \A n \in DOMAIN Tree : Tree[n].size \in Nat /\ Tree[n].children \in Seq(DOMAIN Tree)
    /\ \A S \in (SUBSET DOMAIN Tree) \ {{}} : \E d \in S : ToSet(Tree[d].children) \cap S = {}
    /\ RootLists \subseteq Seq(DOMAIN Tree)
    /\ \A args \in RootLists : Losses[args] \subseteq [DOMAIN args -> SUBSET DOMAIN Tree]

VARIABLES
    client,     \* "library", "create"
    step,       \* where create or extract is
    archive,    \* the archive path
    roots,      \* the arguments
    unread,     \* the entries that read_dir fails to read, argument by argument
    inputs,     \* what collect_inputs found
    truncated,  \* history: the inodes create has truncated
    buffer,     \* the BufWriter
    end_pos,    \* EntryWriter::finish
    created,    \* the answer of create
    before,     \* history: outdir before extract
    outdir,     \* name -> Nothing, a directory, a link, or the contents of a file
    extracted   \* the answer of extract

commandVars == <<client, step, archive, roots, unread, inputs, truncated, buffer, end_pos, created,
                 before, outdir, extracted>>
allVars == <<vars, commandVars>>

-----------------------------------------------------------------------------
(* collect_inputs *)

\* read_dir: an entry that cannot be read is dropped without a word; a name
\* that is no UTF-8 is passed over with a warning.
Seen(lost, c) == Tree[c].utf8 /\ c \notin lost

\* Faulty: only the files of a directory are taken.
BelowUnwalked(w, lost, c) ==
    IF Seen(lost, c) /\ Tree[c].kind = "file" THEN <<[node |-> c, name |-> <<Tree[c].base>>]>>
    ELSE << >>

\* What is found at c, with w the listings of the directories: links and other
\* things are passed over.
Below(w, lost, c) ==
    CASE Seen(lost, c) /\ Tree[c].kind = "file" -> <<[node |-> c, name |-> <<Tree[c].base>>]>>
      [] Seen(lost, c) /\ Tree[c].kind = "dir" -> w[c]
      [] OTHER -> << >>

Prefixed(base, s) == [j \in DOMAIN s |-> [node |-> s[j].node, name |-> <<base>> \o s[j].name]]

\* walk_dir: children are in the order of their names.
WalkDir(lost) ==
    LET walk[d \in DOMAIN Tree] ==
            FlattenSeq([k \in DOMAIN Tree[d].children |->
                Prefixed(Tree[d].base, Below(walk, lost, Tree[d].children[k]))])
    IN  walk

RefusesRoot(r) == Tree[r].kind \in {"file", "dir"} /\ ~Tree[r].utf8

CollectInputs(args, losses) ==
    FlattenSeq([k \in DOMAIN args |->
        CASE Tree[args[k]].kind = "file" -> <<[node |-> args[k], name |-> <<Tree[args[k]].base>>]>>
          [] Tree[args[k]].kind = "dir" -> WalkDir(losses[k])[args[k]]
          [] OTHER -> << >>])

\* Faulty: the paths are compared, not the files behind them.
SamePath(found) == \E k \in DOMAIN found : found[k].node = archive

ArchiveMatchesInput(found) ==
    /\ archive # Missing
    /\ \E k \in DOMAIN found : Tree[found[k].node].inode = Tree[archive].inode

InitCommandLine ==
    /\ Init
    /\ client \in {"library", "create"}
    /\ step = "start"
    /\ archive \in IF client = "create" THEN Archives ELSE {Missing}
    /\ roots \in IF client = "create" THEN RootLists ELSE {<< >>}
    /\ unread \in IF client = "create" THEN Losses[roots] ELSE {<< >>}
    /\ inputs = << >> /\ truncated = {} /\ buffer = << >> /\ end_pos = 0
    /\ created = "running" /\ extracted = "running"
    /\ outdir \in IF client = "create" THEN Outdirs ELSE {<< >>}
    /\ before = outdir

-----------------------------------------------------------------------------
(* create *)

\* Nothing to do, an argument, a directory or a file that cannot be looked at,
\* or the archive would replace an input, or cannot be opened.
Refuse ==
    /\ step = "start"
    /\ created' = "refused" /\ step' = "exit"
    /\ UNCHANGED <<vars, client, archive, roots, unread, inputs, truncated, buffer, end_pos, before, outdir, extracted>>

\* File::create and ArchiveWriter::new: the archive is empty, and the info
\* header waits in the buffer.
Open ==
    /\ step = "start"
    /\ \A k \in DOMAIN roots : ~RefusesRoot(roots[k])
    /\ inputs' = CollectInputs(roots, unread)
    /\ inputs' # << >> /\ ~ArchiveMatchesInput(inputs')
    /\ truncated' = IF archive = Missing THEN {} ELSE {Tree[archive].inode}
    /\ file' = << >> /\ position' = 0 /\ buffer' = <<Info>>
    /\ step' = "next"
    /\ UNCHANGED <<entry, begun, attempts, failed, resumed, dropped,
                   client, archive, roots, unread, end_pos, created, before, outdir, extracted>>

createUnchanged == UNCHANGED <<resumed, dropped, client, archive, roots, unread, inputs, truncated,
                               before, outdir, extracted>>

\* create returns: what is left in the buffer goes with the BufWriter.
Return(answer) == created' = answer /\ step' = "drop"
Stop == Return("stopped") /\ failed' = TRUE
Go(to) == step' = to /\ UNCHANGED <<created, failed>>

\* BufWriter::flush_buf; a flush that fails after n cells keeps the others.
Flushed(n) ==
    /\ file' = Overwrite(file, position, Prefix(buffer, n))
    /\ position' = position + n
FlushFails ==
    \E n \in 0..Len(buffer) :
        Flushed(n) /\ buffer' = SubSeq(buffer, n + 1, Len(buffer))

\* fs::read, or the end of the list.
ReadInput ==
    /\ step = "next" /\ begun < Len(inputs)
    /\ Go("add") \/ Stop
    /\ UNCHANGED <<file, position, entry, begun, attempts, buffer, end_pos>> /\ createUnchanged

AllDone ==
    /\ step = "next" /\ begun = Len(inputs)
    /\ Return("ok") /\ UNCHANGED failed
    /\ UNCHANGED <<file, position, entry, begun, attempts, buffer, end_pos>> /\ createUnchanged

Node(k) == Tree[inputs[k].node]
Name(k) == inputs[k].name
NameLatin1(k) == \A j \in DOMAIN Name(k) : Name(k)[j] # "wide"
NameCells(k) == Len(Name(k)) - 1

\* add_entry: stream_position flushes, the placeholder is buffered.
CreateEntry ==
    /\ step = "add" /\ NameLatin1(begun + 1)
    /\ Flushed(Len(buffer))
    /\ entry' = [id |-> begun + 1, names |-> NameCells(begun + 1), at |-> position']
    /\ buffer' = Placeholder(NameCells(begun + 1))
    /\ begun' = begun + 1
    /\ Go("payload")
    /\ UNCHANGED <<attempts, end_pos>> /\ createUnchanged

CreateEntryFails ==
    /\ step = "add"
    /\ IF NameLatin1(begun + 1) THEN FlushFails ELSE UNCHANGED <<file, position, buffer>>
    /\ Stop
    /\ UNCHANGED <<entry, begun, attempts, end_pos>> /\ createUnchanged

OpenPayload == Payload(entry.id, Node(entry.id).size)

\* finish up to stream_position, all of it written, and the seek back; the
\* header is buffered.
WritePayload ==
    /\ step = "payload"
    /\ file' = Overwrite(file, position, buffer \o OpenPayload)
    /\ end_pos' = position + Len(buffer \o OpenPayload)
    /\ position' = entry.at
    /\ buffer' = Header(entry.id, entry.names)
    /\ Go("patch")
    /\ UNCHANGED <<entry, begun, attempts>> /\ createUnchanged

\* A payload that fits is buffered and flushed with the placeholder, a longer
\* one that fits in an empty buffer after it, and any other written directly.
WritePayloadFails ==
    /\ step = "payload"
    /\ \E n \in 0..Len(buffer \o OpenPayload) :
          LET pending == buffer \o OpenPayload
              kept == IF Len(pending) <= Capacity THEN Len(pending)
                      ELSE IF n < Len(buffer) THEN Len(buffer)
                      ELSE IF Len(OpenPayload) < Capacity THEN Len(pending) ELSE n
          IN  /\ file' = Overwrite(file, position, Prefix(pending, n))
              /\ position' = position + n
              /\ buffer' = SubSeq(pending, n + 1, kept)
    /\ Answer(Node(entry.id).size, FALSE)
    /\ Return("stopped")
    /\ UNCHANGED <<end_pos, client, archive, roots, unread, inputs, truncated, before, outdir, extracted>>

\* Faulty: the result of the last seek is ignored, and with it that of the
\* flush it begins with.
PatchHeaderUnchecked ==
    /\ step = "patch"
    /\ FlushFails
    /\ end_pos' = end_pos
    /\ Answer(Node(entry.id).size, TRUE)
    /\ step' = "next" /\ UNCHANGED created
    /\ UNCHANGED <<client, archive, roots, unread, inputs, truncated, before, outdir, extracted>>

\* The last seek of finish flushes the header.
PatchHeader ==
    /\ step = "patch"
    /\ file' = Overwrite(file, position, buffer)
    /\ position' = end_pos /\ buffer' = << >>
    /\ Answer(Node(entry.id).size, TRUE)
    /\ step' = "next"
    /\ UNCHANGED <<end_pos, created, client, archive, roots, unread, inputs, truncated, before, outdir, extracted>>

PatchHeaderFails ==
    /\ step = "patch"
    /\ FlushFails
    /\ Answer(Node(entry.id).size, FALSE)
    /\ Return("stopped")
    /\ UNCHANGED <<end_pos, client, archive, roots, unread, inputs, truncated, before, outdir, extracted>>

\* The BufWriter is dropped: it tries to write the rest and tells nobody.
DropWriter ==
    /\ step = "drop"
    /\ \E n \in 0..Len(buffer) : Flushed(n)
    /\ buffer' = << >> /\ step' = "exit"
    /\ UNCHANGED <<entry, begun, attempts, end_pos, created, failed>> /\ createUnchanged

NextCreate ==
    \/ Refuse \/ Open \/ ReadInput \/ AllDone \/ CreateEntry \/ CreateEntryFails
    \/ WritePayload \/ WritePayloadFails \/ PatchHeader \/ PatchHeaderFails \/ DropWriter

-----------------------------------------------------------------------------
(* extract *)

Directory == [kind |-> "dir", data |-> << >>]
Link      == [kind |-> "link", data |-> << >>]
Contents(data) == [kind |-> "file", data |-> data]
KindOf(dir, name) == IF name \in DOMAIN dir THEN dir[name].kind ELSE "nothing"

extractUnchanged == UNCHANGED <<vars, client, archive, roots, unread, inputs, truncated, buffer, created, before>>

\* open_reader; end_pos is the reader's position now.
OpenReader ==
    /\ step = "exit" /\ created # "refused"
    /\ IF file # << >> /\ file[1] = Info
       THEN step' = "extract" /\ end_pos' = 1 /\ UNCHANGED extracted
       ELSE step' = "end" /\ extracted' = "damaged" /\ UNCHANGED end_pos
    /\ UNCHANGED outdir /\ extractUnchanged

\* The entry next_entry returns: see ArchiveReader for how.
Readable(a) == a.at = end_pos /\ HeaderOnDisk(a) /\ PayloadOnDisk(a)

Data(k) == Payload(k, Node(k).size)
Parents(name) == {SubSeq(name, 1, j) : j \in 1..(Len(name) - 1)}

\* sanitize_archive_path, reject_symlink_components, and the errors of
\* create_dir_all and create_file.
Sanitized(name) == \A j \in DOMAIN name : name[j] # "colon"
InTheWay(dir, name) ==
    \/ KindOf(dir, name) \in {"link", "dir"}
    \/ \E parent \in Parents(name) : KindOf(dir, parent) \in {"link", "file"}

WithParents(dir, name) ==
    [n \in DOMAIN dir \cup Parents(name) |-> IF n \in DOMAIN dir THEN dir[n] ELSE Directory]
WithFile(dir, name, data) ==
    [n \in DOMAIN dir \cup {name} |-> IF n = name THEN Contents(data) ELSE dir[n]]

\* Faulty: a file that is there is written over, not truncated.
StoreOver(dir, k) ==
    LET old == IF KindOf(dir, Name(k)) = "file" THEN dir[Name(k)].data ELSE << >>
    IN  WithFile(WithParents(dir, Name(k)), Name(k), Overwrite(old, 0, Data(k)))

Store(dir, k) == WithFile(WithParents(dir, Name(k)), Name(k), Data(k))

ExtractEntry ==
    /\ step = "extract"
    /\ \E k \in DOMAIN attempts :
          /\ Readable(attempts[k])
          /\ Sanitized(Name(k)) /\ ~InTheWay(outdir, Name(k))
          /\ outdir' = Store(outdir, k)
          /\ end_pos' = EndOf(attempts[k])
    /\ UNCHANGED <<step, extracted>> /\ extractUnchanged

ExtractStops(answer) ==
    /\ extracted' = answer /\ step' = "end"
    /\ UNCHANGED end_pos /\ extractUnchanged

ExtractRefuses ==
    /\ step = "extract"
    /\ \E k \in DOMAIN attempts :
          Readable(attempts[k]) /\ (~Sanitized(Name(k)) \/ InTheWay(outdir, Name(k)))
    /\ ExtractStops("refused") /\ UNCHANGED outdir

\* A directory cannot be made, or the file cannot be written whole.
ExtractFails ==
    /\ step = "extract"
    /\ \E k \in DOMAIN attempts :
          /\ Readable(attempts[k])
          /\ Sanitized(Name(k)) /\ ~InTheWay(outdir, Name(k))
          /\ \/ outdir' = WithParents(outdir, Name(k))
             \/ \E n \in 0..(Len(Data(k)) - 1) :
                   outdir' = WithFile(WithParents(outdir, Name(k)), Name(k), Prefix(Data(k), n))
    /\ ExtractStops("failed")

\* next_entry returns None, or an error.
ExtractEnds ==
    /\ step = "extract"
    /\ \A k \in DOMAIN attempts : ~Readable(attempts[k])
    /\ ExtractStops(IF end_pos = Len(file) THEN "ok" ELSE "damaged") /\ UNCHANGED outdir

NextExtract == OpenReader \/ ExtractEntry \/ ExtractRefuses \/ ExtractFails \/ ExtractEnds

NextCommand ==
    \/ client = "library" /\ Next /\ UNCHANGED commandVars
    \/ client = "create" /\ (NextCreate \/ NextExtract)

SpecCommandLine == InitCommandLine /\ [][NextCommand]_allVars

-----------------------------------------------------------------------------
(* Properties *)

\* Sets of nodes that hold with a directory what the walk sees in it.
ClosedSets(lost) == {S \in SUBSET DOMAIN Tree :
    \A d \in S : Tree[d].kind = "dir" =>
        \A c \in ToSet(Tree[d].children) : Seen(lost, c) => c \in S}

\* The files an argument leads to.
LedTo(r, lost) ==
    LET closed == {S \in ClosedSets(lost) : r \in S}
    IN  {n \in DOMAIN Tree : Tree[n].kind = "file" /\ \A S \in closed : n \in S}

\* Which files which arguments lead to when which entries cannot be read, and
\* those that matter here: those the walks get to see.
SeenBy(args, losses) == UNION {LedTo(args[k], losses[k]) : k \in DOMAIN args}
Leads == UNION {UNION {{<<args, losses>>} \X SeenBy(args, losses) : losses \in Losses[args]} :
                args \in RootLists}
Expected == {n \in DOMAIN Tree : <<<<roots, unread>>, n>> \in Leads}

\* create never truncates a file its arguments lead to, whatever path leads to
\* it: the archive may be a hard link to an input or a link to one, in any
\* directory below an argument.  Only a file behind an entry that the walk did
\* not get to see is never compared with the archive, and may be lost.
InputsIntact == \A n \in Expected : Tree[n].inode \notin truncated

\* When create answers Ok, the disk holds the info header and the entries of
\* the files its arguments lead to, as far as the walks got to see them, whole
\* and back to back; nothing is left to the BufWriter's drop, whose errors
\* nobody sees.
OkMeansOnDisk ==
    created = "ok" =>
        /\ {inputs[k].node : k \in DOMAIN inputs} = Expected
        /\ Len(attempts) = Len(inputs) /\ buffer = << >>
        /\ file[1] = Info /\ Len(file) = EndOf(Last(attempts))
        /\ \A k \in DOMAIN attempts :
              /\ attempts[k].at = IF k = 1 THEN 1 ELSE EndOf(attempts[k - 1])
              /\ HeaderOnDisk(attempts[k]) /\ PayloadOnDisk(attempts[k])

\* The archive is made of the directories "walked recursively": an Ok covers
\* every file below the arguments.  It does not when read_dir hands out an
\* error for an entry, which filter_map drops.
OkCoversAllAsked ==
    created = "ok" =>
        SeenBy(roots, [k \in DOMAIN roots |-> {}]) \subseteq {inputs[k].node : k \in DOMAIN inputs}

\* Extraction restores what was finished, also of an archive that create left
\* half-way: under its name each finished entry's data or that of a later
\* entry of the same name.  It refuses a name only when that name, or one that
\* is in its way, cannot be stored.
ExtractRestores ==
    /\ extracted \in {"ok", "damaged"} =>
          \A k \in DOMAIN attempts : attempts[k].ok =>
              \E j \in k..Len(inputs) :
                  Name(j) = Name(k) /\ outdir[Name(k)] = Contents(Data(j))
    /\ created = "ok" => extracted # "damaged"
    /\ extracted = "refused" =>
          \E k \in DOMAIN inputs :
              \/ ~Sanitized(Name(k)) \/ InTheWay(before, Name(k))
              \/ \E j \in DOMAIN inputs : Name(j) \in Parents(Name(k))
=============================================================================
