-------------------------- MODULE MCTelegramDelivery --------------------------
EXTENDS TelegramDelivery, TLC

(* Consumers, operators, keys and replies are each interchangeable. *)
Symmetry ==
  Permutations(Replies) \cup Permutations(Consumers)
    \cup Permutations(Operators) \cup Permutations(Recoveries)
===============================================================================
