-------------------------- MODULE MCModelOperations --------------------------
EXTENDS ModelOperations, TLC

(* One month, or two days that each end a month. *)
OneMonth == <<1>>
TwoMonths == <<1, 2>>

(* A bound for runs that check what is left in the books: a message that is  *)
(* acknowledged or dead-lettered does no more than end the wake-ups of its   *)
(* operation, and those may also just not happen.                            *)
MessagesStay == \A o \in Operations : message[o] \in {"none", "queued"}

(* Workers, users and operations of one kind are each interchangeable. *)
Symmetry ==
  Permutations(Workers) \cup Permutations(Users) \cup Permutations(Metered)
    \cup Permutations(Operations \ Metered)
==============================================================================
