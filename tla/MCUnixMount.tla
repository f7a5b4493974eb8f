------------------------------ MODULE MCUnixMount ------------------------------
(* UnixMount for TLC. *)
EXTENDS UnixMount, TLC
Symmetry == Permutations(Callers) \cup Permutations(Volumes)
================================================================================
