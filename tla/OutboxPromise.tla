---------------------------- MODULE OutboxPromise ----------------------------
(***************************************************************************)
(* What the outbox promises for every message, without leases, dispatchers *)
(* or a Queue.  An accepted message stays open until a consumer finishes   *)
(* it, and a consumed message is never opened again: it is tried only by   *)
(* tries that had begun when it was consumed, and no more begin.  It is    *)
(* given up only after its whole budget of tries, and then an operator may *)
(* reopen it with a fresh budget; a late consumer still counts.            *)
(***************************************************************************)
EXTENDS Naturals

CONSTANTS Messages, MaxAttempts

VARIABLES
  fate,   \* fate[m]: where m stands
  tries,  \* tries[m]: tries spent of the current budget
  begun   \* begun[m]: tries of m begun that have not spent anything yet

promiseVars == <<fate, tries, begun>>

PromiseInit ==
  /\ fate = [m \in Messages |-> "absent"]
  /\ tries = [m \in Messages |-> 0]
  /\ begun = [m \in Messages |-> 0]

Same(m) == fate'[m] = fate[m] /\ tries'[m] = tries[m]

Accept(m) ==
  fate[m] = "absent" /\ fate'[m] = "open" /\ tries'[m] = 0

(* A try, begun earlier; the message may have been consumed since. *)
Try(m) ==
  /\ fate[m] \in {"open", "consumed"} /\ tries[m] < MaxAttempts
  /\ begun'[m] < begun[m]
  /\ fate'[m] = fate[m] /\ tries'[m] = tries[m] + 1

Consume(m) ==
  /\ fate[m] \in {"open", "given_up"}
  /\ fate'[m] = "consumed" /\ tries'[m] = tries[m]

GiveUp(m) ==
  /\ fate[m] = "open" /\ tries[m] >= MaxAttempts
  /\ fate'[m] = "given_up" /\ tries'[m] = tries[m]

Reopen(m) ==
  fate[m] = "given_up" /\ fate'[m] = "open" /\ tries'[m] = 0

(* Tries begin and lapse at will until the message is consumed. *)
NoTryBegins(m) == begun'[m] <= begun[m]

MessageStep(m) ==
  /\ fate[m] = "consumed" => NoTryBegins(m)
  /\ \/ Same(m) \/ Accept(m) \/ Try(m)
     \/ Consume(m) \/ GiveUp(m) \/ Reopen(m)

(* One transaction may move several messages at once. *)
PromiseNext ==
  /\ DOMAIN fate' = Messages
  /\ DOMAIN tries' = Messages
  /\ DOMAIN begun' = Messages
  /\ \A m \in Messages : MessageStep(m)

PromiseSpec == PromiseInit /\ [][PromiseNext]_promiseVars
=============================================================================
