----------------------------- MODULE HonestReply -----------------------------
(***************************************************************************)
(* What a reply's durable status promises about the provider, without      *)
(* attempts, leases or consumers.  A reply is accepted by the provider at  *)
(* most once, and what is told about it stays true: "provider_accepted"    *)
(* is told only of an accepted reply, "terminal_failure" only of one that  *)
(* was not accepted, and only such a reply is opened again.  Of an unknown *)
(* outcome nothing more is ever told.                                      *)
(***************************************************************************)
EXTENDS Naturals

CONSTANT Replies

VARIABLES
  told,       \* told[r]: the status the domain tells
  accepted    \* accepted[r]: how often the provider accepted r

honestVars == <<told, accepted>>

HonestInit ==
  /\ told = [r \in Replies |-> "absent"]
  /\ accepted = [r \in Replies |-> 0]

Tells(r, before, after) ==
  told[r] = before /\ told'[r] = after /\ accepted'[r] = accepted[r]

Accept(r) ==
  /\ told[r] \in {"pending", "outcome_unknown"} /\ told'[r] = told[r]
  /\ accepted[r] = 0 /\ accepted'[r] = 1

ReplyStep(r) ==
  \/ told'[r] = told[r] /\ accepted'[r] = accepted[r]
  \/ Tells(r, "absent", "pending")
  \/ Accept(r)
  \/ Tells(r, "pending", "provider_accepted") /\ accepted[r] = 1
  \/ Tells(r, "pending", "terminal_failure") /\ accepted[r] = 0
  \/ Tells(r, "pending", "outcome_unknown")
  \/ Tells(r, "terminal_failure", "pending") /\ accepted[r] = 0

HonestNext ==
  /\ DOMAIN told' = Replies
  /\ DOMAIN accepted' = Replies
  /\ \A r \in Replies : ReplyStep(r)

HonestSpec == HonestInit /\ [][HonestNext]_honestVars
=============================================================================
