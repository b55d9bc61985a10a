----------------------------- MODULE MCDecoder -----------------------------
(* Small instances of the decoder: model values come from the .cfg files. *)
EXTENDS Decoder
=============================================================================
