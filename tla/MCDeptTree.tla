----------------------------- MODULE MCDeptTree -----------------------------
(* Instances of DeptTree for TLC. *)
EXTENDS DeptTree, TLC

\* Departments, users and requests are interchangeable (safety only).
Symmetry == Permutations(Depts) \cup Permutations(Users) \cup Permutations(Requests)
=============================================================================
