------------------------- MODULE MCTelegramProcessing -------------------------
EXTENDS TelegramProcessing, TLC

(* Events, consumers, users, accounts and challenges are each interchangeable. *)
Symmetry ==
  Permutations(Events) \cup Permutations(Consumers) \cup Permutations(Users)
    \cup Permutations(Accounts) \cup Permutations(Challenges)
==============================================================================
