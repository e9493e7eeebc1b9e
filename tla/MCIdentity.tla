------------------------------ MODULE MCIdentity ------------------------------
EXTENDS Identity, TLC

(* Users, accounts and challenges are each interchangeable. *)
Symmetry ==
  Permutations(Users) \cup Permutations(Accounts) \cup Permutations(Challenges)
==============================================================================
