------------------------ MODULE MCSystemEncryptionSetup ------------------------
(* Instances of SystemEncryptionSetup for TLC. *)
EXTENDS SystemEncryptionSetup
================================================================================
