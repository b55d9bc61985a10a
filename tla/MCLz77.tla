------------------------------- MODULE MCLz77 -------------------------------
(* All inputs over two letters, with a hash that collides and a short ring. *)
EXTENDS Lz77

\* Triples that differ in the first byte, or only in order, collide.
HashDef == [t \in Byte \X Byte \X Byte |-> IF t[2] = t[3] THEN 0 ELSE 1]
=============================================================================
