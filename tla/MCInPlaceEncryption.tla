-------------------------- MODULE MCInPlaceEncryption --------------------------
(* A partition of a few units, for TLC. *)
EXTENDS InPlaceEncryption
================================================================================
