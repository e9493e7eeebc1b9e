------------------------------ MODULE Ownership ------------------------------
(***************************************************************************)
(* What Identity promises about Telegram accounts, without challenges or   *)
(* history: an account belongs to one user at most, and passes to another  *)
(* only by way of belonging to nobody.                                     *)
(***************************************************************************)
CONSTANTS Accounts, Users, NoUser

VARIABLE owner   \* owner[a]: the user a acts for, or NoUser

OwnershipInit == owner = [a \in Accounts |-> NoUser]

Link(a, u) == owner[a] = NoUser /\ owner' = [owner EXCEPT ![a] = u]

Unlink(a) == owner[a] # NoUser /\ owner' = [owner EXCEPT ![a] = NoUser]

OwnershipNext ==
  \E a \in Accounts : Unlink(a) \/ \E u \in Users : Link(a, u)

OwnershipSpec == OwnershipInit /\ [][OwnershipNext]_owner
=============================================================================
