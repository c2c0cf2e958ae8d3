---------------------------- MODULE MCBootstrap -----------------------------
(* Instances of Bootstrap for TLC. *)
EXTENDS Bootstrap, TLC

MCMixes == {
  [ops |-> {"script", "crash", "late", "edit", "updateType"}, atOnce |-> 1, wishes |-> {}],
  [ops |-> {"script", "late", "updateItem"}, atOnce |-> 1, wishes |-> {"yes", "no", "keep"}],
  [ops |-> {"createItem", "updateItem"}, atOnce |-> 2, wishes |-> {"yes", "no", "keep"}],
  [ops |-> {"createType", "createItem", "removeItem"}, atOnce |-> 2,
   wishes |-> {"yes"}],
  [ops |-> {"createType", "removeType", "createItem", "updateItem", "removeItem"}, atOnce |-> 2,
   wishes |-> {"no"}]}

\* Rows, requests and instances are interchangeable.
Symmetry == Permutations(Requests) \cup Permutations(Items) \cup Permutations(Instances)
=============================================================================
