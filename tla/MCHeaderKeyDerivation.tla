------------------------ MODULE MCHeaderKeyDerivation ------------------------
(* Instances of HeaderKeyDerivation for TLC. *)
EXTENDS HeaderKeyDerivation, TLC

AllHeaders == Header
WrongPassword == {[prf |-> 0, newer |-> FALSE]}
Symmetry == Permutations(Workers)
==============================================================================
