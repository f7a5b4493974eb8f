---------------------------- MODULE MCAndroidVolume ----------------------------
(* Instances of AndroidVolume for TLC. *)
EXTENDS AndroidVolume, TLC

Symmetry == Permutations(Names)
================================================================================
