----------------------------- MODULE MCAccounts -----------------------------
(* Instances of Accounts for TLC. *)
EXTENDS Accounts, TLC

CONSTANTS g1, g2, q1 \* external accounts: two of one provider, one of another

MCProviderOf == [a \in Accounts |-> IF a = q1 THEN "plain" ELSE "pkce"]

MCMixes == {
  [ops |-> {"create", "login", "mistake", "abort"}, accounts |-> {}, users |-> 1],
  [ops |-> {"register", "callback", "bind", "unbind", "abort"}, accounts |-> {g1, q1}, users |-> 1],
  [ops |-> {"create", "callback", "bind", "unbind"}, accounts |-> {g1, g2}, users |-> 2],
  [ops |-> {"create", "callback", "link", "mistake"}, accounts |-> {g1}, users |-> 1],
  [ops |-> {"register", "callback", "remove", "disable", "unbind"}, accounts |-> {g1, q1}, users |-> 2]}

\* Users, codes and requests are interchangeable (safety only).
Symmetry == Permutations(Users) \cup Permutations(Codes) \cup Permutations(Requests)
=============================================================================
