----------------------------- MODULE MCSession ------------------------------
(* Instances of Session for TLC. *)
EXTENDS Session, TLC

\* Requests are interchangeable.  Sessions and tokens are drawn by CHOOSE.
Symmetry == Permutations(Requests)
=============================================================================
