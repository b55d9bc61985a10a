--------------------------- MODULE MCArchiveReader ---------------------------
(* ArchiveReader for TLC: three entries, so that a group of two may stand   *)
(* before or behind another entry, with one of them damaged and one read    *)
(* that fails.                                                              *)
EXTENDS ArchiveReader
=============================================================================
