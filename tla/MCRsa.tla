-------------------------------- MODULE MCRsa --------------------------------
(* Instances of Rsa for TLC. *)
EXTENDS Rsa, TLC

\* Instances are interchangeable.  Pairs and slots are drawn by CHOOSE.
Symmetry == Permutations(Instances)
=============================================================================
