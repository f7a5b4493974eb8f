----------------------- MODULE MCEncryptionThreadPool -----------------------
(* EncryptionThreadPool for TLC. *)
EXTENDS EncryptionThreadPool
=============================================================================
