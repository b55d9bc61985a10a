--------------------------- MODULE MCArchiveWriter ---------------------------
(* Entries of a few cells; every operation may fail.  The tree has links,   *)
(* hard links, equal names, names that only one side accepts, and a payload *)
(* longer than the buffer.                                                  *)
EXTENDS CommandLine

File(base, inode, size) ==
    [kind |-> "file", base |-> base, utf8 |-> TRUE, inode |-> inode, size |-> size, children |-> << >>]
Dir(base, children) ==
    [kind |-> "dir", base |-> base, utf8 |-> TRUE, inode |-> 0, size |-> 0, children |-> children]

MCTree == [
    f     |-> File("f", 1, 1),
    f2    |-> File("f", 2, 4),
    wide  |-> File("wide", 3, 1),
    d     |-> Dir("d", <<"df", "dlink", "draw", "dpipe", "dsub">>),
    df    |-> File("f", 4, 2),
    dlink |-> [File("link", 1, 0) EXCEPT !.kind = "link"],
    draw  |-> [File("raw", 5, 1) EXCEPT !.utf8 = FALSE],
    dpipe |-> [File("pipe", 6, 0) EXCEPT !.kind = "other"],
    dsub  |-> Dir("sub", <<"colon">>),
    colon |-> File("colon", 7, 0),
    dfile |-> File("d", 8, 1),
    hard  |-> File("hard", 1, 1),
    empty |-> Dir("empty", << >>)]

MCRootLists == {<< >>, <<"empty", "dlink">>, <<"draw">>, <<"f">>, <<"f2", "f">>, <<"f", "wide", "f2">>,
                <<"d">>, <<"dfile", "d">>, <<"d", "dfile">>}
\* The entries of d that its walk does not get to see.
MCLosses == [args \in MCRootLists |->
    {losses \in [DOMAIN args -> {{}, {"df"}, {"dsub"}}] :
        \A k \in DOMAIN args : args[k] # "d" => losses[k] = {}}]
MCArchives == {Missing, "f", "df", "colon", "hard", "dlink", "dfile"}
MCOutdirs == {<< >>,
              (<<"f">> :> Contents(<<Blank, Blank>>)) @@ (<<"d">> :> Directory),
              (<<"d">> :> Directory) @@ (<<"d", "f">> :> Link)}
=============================================================================
