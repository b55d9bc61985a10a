---------------------------- MODULE MCBitChannel ----------------------------
(* A channel with bytes of two bits, so words of four and a register of eight. *)
EXTENDS BitChannel
=============================================================================
