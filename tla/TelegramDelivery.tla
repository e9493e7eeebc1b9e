-------------------------- MODULE TelegramDelivery --------------------------
(***************************************************************************)
(* Delivery of Telegram replies: the claim and the outcome of a provider   *)
(* attempt (packages/adapters/src/postgres/telegram-delivery-store.ts),    *)
(* the consumer that calls the Bot API between the two                     *)
(* (packages/domain/src/channel/deliver-telegram-reply.ts), the answers of *)
(* packages/adapters/src/telegram/bot-api.ts, and the operator's recovery  *)
(* of a rejected reply (telegram-delivery-recovery-store.ts and            *)
(* recover-telegram-delivery.ts).                                          *)
(*                                                                         *)
(* The Queue may hand the same reply to any number of consumers at any     *)
(* time; ReplyPipeline says when it really does.  An attempt's id is fresh *)
(* and its number unique per reply, so the number stands for the id.  The  *)
(* lease is compared by a Worker's clock: "leaseOver" says that some       *)
(* Worker may already consider it expired.                                 *)
(***************************************************************************)
EXTENDS Naturals, FiniteSets

CONSTANTS
  Replies,       \* outbound_channel_messages the domain may request
  NoReply,       \* the reply of an idle consumer or operator
  Consumers,     \* Queue consumer fibers
  Operators,     \* runs of the recovery workflow
  Recoveries,    \* idempotency keys the operators use
  NoRecovery,    \* the key of an idle operator
  MaxAttempts    \* defaultTelegramDeliveryPolicy.maximumAttempts

ASSUME DeliveryAssumption ==
  /\ MaxAttempts \in Nat \ {0}
  /\ NoReply \notin Replies
  /\ NoRecovery \notin Recoveries
  /\ IsFiniteSet(Recoveries)

VARIABLES
  reply,      \* outbound_channel_messages
  attempt,    \* attempt[r][n]: status of channel_delivery_attempts row n of r
  calls,      \* calls[r]: what Telegram saw: requests made, replies accepted
  consumer,   \* what each consumer is doing
  recovery,   \* telegram_delivery_recoveries
  operator    \* what each run of the recovery workflow is doing

storeVars == <<reply, attempt>>
recoveryVars == <<recovery, operator>>
deliveryVars == <<reply, attempt, calls, consumer, recovery, operator>>

Outcomes == {"provider_accepted", "transient_failure", "terminal_failure",
             "outcome_unknown"}
Terminal == {"provider_accepted", "terminal_failure", "outcome_unknown"}
NoClaim == 0
AttemptNumbers == 1..MaxAttempts

AbsentReply ==
  [status |-> "absent", attempts |-> 0, claim |-> NoClaim, leaseOver |-> FALSE]
IdleConsumer ==
  [phase |-> "idle", reply |-> NoReply, attempt |-> 0, answer |-> "none"]
NewRecovery == [status |-> "none", reply |-> NoReply]
IdleOperator == [phase |-> "idle", key |-> NoRecovery, reply |-> NoReply]

Reply == [status : {"absent", "pending", "delivering"} \cup Terminal,
          attempts : 0..MaxAttempts, claim : 0..MaxAttempts,
          leaseOver : BOOLEAN]
Consumer == [phase : {"idle", "claimed", "answered", "finished", "deferred"},
             reply : Replies \cup {NoReply}, attempt : 0..MaxAttempts,
             answer : Outcomes \cup {"none"}]
Recovery == [status : {"none", "prepared", "published"},
             reply : Replies \cup {NoReply}]
Operator == [phase : {"idle", "reopening", "publishing", "marking"},
             key : Recoveries \cup {NoRecovery},
             reply : Replies \cup {NoReply}]

TypeOK ==
  /\ reply \in [Replies -> Reply]
  /\ attempt \in [Replies -> [AttemptNumbers ->
                    {"none", "attempting"} \cup Outcomes]]
  /\ calls \in [Replies -> [made : Nat, accepted : Nat]]
  /\ consumer \in [Consumers -> Consumer]
  /\ recovery \in [Recoveries -> Recovery]
  /\ operator \in [Operators -> Operator]

Init ==
  /\ reply = [r \in Replies |-> AbsentReply]
  /\ attempt = [r \in Replies |-> [n \in AttemptNumbers |-> "none"]]
  /\ calls = [r \in Replies |-> [made |-> 0, accepted |-> 0]]
  /\ consumer = [c \in Consumers |-> IdleConsumer]
  /\ recovery = [k \in Recoveries |-> NewRecovery]
  /\ operator = [o \in Operators |-> IdleOperator]

-----------------------------------------------------------------------------
(* Processing an inbound event inserts its one reply. *)
RequestReply(r) ==
  /\ reply[r].status = "absent"
  /\ reply' = [reply EXCEPT ![r].status = "pending"]
  /\ UNCHANGED <<attempt, calls, consumer, recoveryVars>>

(* From now on a Worker may find the lease of r's attempt expired. *)
LeaseExpires(r) ==
  /\ reply[r].status = "delivering" /\ ~reply[r].leaseOver
  /\ reply' = [reply EXCEPT ![r].leaseOver = TRUE]
  /\ UNCHANGED <<attempt, calls, consumer, recoveryVars>>

-----------------------------------------------------------------------------
(* claim: one transaction under the lock of the reply's row. *)
Returns(c, r, phase) ==
  consumer' = [consumer EXCEPT ![c] = [phase |-> phase, reply |-> r,
                                       attempt |-> 0, answer |-> "none"]]

Starts(c, r) == consumer[c].phase = "idle" /\ reply[r].status # "absent"

(* The reply is settled: the consumer is done with it. *)
ClaimTerminal(c, r) ==
  /\ Starts(c, r) /\ reply[r].status \in Terminal
  /\ Returns(c, r, "finished")
  /\ UNCHANGED <<storeVars, calls, recoveryVars>>

(* A live lease, or ensureAvailable's refusal before any claim.  A Worker    *)
(* with a slow clock still sees a live lease.                               *)
ClaimDeferred(c, r) ==
  /\ Starts(c, r)
  /\ Returns(c, r, "deferred")
  /\ UNCHANGED <<storeVars, calls, recoveryVars>>

ClaimExpiredForRetry(c, r) ==           \* mutant: resends after an expiry
  /\ Starts(c, r) /\ reply[r].status = "delivering" /\ reply[r].leaseOver
  /\ attempt' = [attempt EXCEPT ![r][reply[r].claim] = "outcome_unknown"]
  /\ reply' = [reply EXCEPT ![r] =
       [@ EXCEPT !.status = "pending", !.claim = NoClaim, !.leaseOver = FALSE]]
  /\ Returns(c, r, "deferred")
  /\ UNCHANGED <<calls, recoveryVars>>

ClaimExpiredKeepingAttempt(c, r) ==     \* mutant: leaves the attempt open
  /\ Starts(c, r) /\ reply[r].status = "delivering" /\ reply[r].leaseOver
  /\ reply' = [reply EXCEPT ![r] =
       [@ EXCEPT !.status = "outcome_unknown", !.claim = NoClaim,
                 !.leaseOver = FALSE]]
  /\ Returns(c, r, "finished")
  /\ UNCHANGED <<attempt, calls, recoveryVars>>

(* An attempt whose lease expired may have reached Telegram: it is settled   *)
(* as unknown, never sent again.                                             *)
ClaimExpired(c, r) ==
  /\ Starts(c, r) /\ reply[r].status = "delivering" /\ reply[r].leaseOver
  /\ attempt' = [attempt EXCEPT ![r][reply[r].claim] = "outcome_unknown"]
  /\ reply' = [reply EXCEPT ![r] =
       [@ EXCEPT !.status = "outcome_unknown", !.claim = NoClaim,
                 !.leaseOver = FALSE]]
  /\ Returns(c, r, "finished")
  /\ UNCHANGED <<calls, recoveryVars>>

(* A retry that finds no attempt left fails the reply. *)
ClaimExhausted(c, r) ==
  /\ Starts(c, r) /\ reply[r].status = "pending"
  /\ reply[r].attempts >= MaxAttempts
  /\ reply' = [reply EXCEPT ![r].status = "terminal_failure"]
  /\ Returns(c, r, "finished")
  /\ UNCHANGED <<attempt, calls, recoveryVars>>

ClaimGrantedBeyondCeiling(c, r) ==      \* mutant: ignores the ceiling
  /\ Starts(c, r) /\ reply[r].status = "pending"
  /\ LET n == reply[r].attempts + 1 IN
       /\ reply' = [reply EXCEPT ![r] = [status |-> "delivering",
                      attempts |-> n, claim |-> n, leaseOver |-> FALSE]]
       /\ consumer' = [consumer EXCEPT ![c] = [phase |-> "claimed",
                         reply |-> r, attempt |-> n, answer |-> "none"]]
  /\ UNCHANGED <<attempt, calls, recoveryVars>>

(* A fresh attempt with the next number and a new lease. *)
ClaimGranted(c, r) ==
  /\ Starts(c, r) /\ reply[r].status = "pending"
  /\ reply[r].attempts < MaxAttempts
  /\ LET n == reply[r].attempts + 1 IN
       /\ reply' = [reply EXCEPT ![r] = [status |-> "delivering",
                      attempts |-> n, claim |-> n, leaseOver |-> FALSE]]
       /\ attempt' = [attempt EXCEPT ![r][n] = "attempting"]
       /\ consumer' = [consumer EXCEPT ![c] = [phase |-> "claimed",
                         reply |-> r, attempt |-> n, answer |-> "none"]]
  /\ UNCHANGED <<calls, recoveryVars>>

Claim(c, r) ==
  \/ ClaimTerminal(c, r) \/ ClaimDeferred(c, r) \/ ClaimExpired(c, r)
  \/ ClaimExhausted(c, r) \/ ClaimGranted(c, r)

-----------------------------------------------------------------------------
(* What send may answer, with what Telegram really did: a network error, a   *)
(* timeout or an undecodable success leaves that open; an HTTP or body error *)
(* is read as a rejection.                                                   *)
Answers ==
  {[accepted |-> TRUE, answer |-> "provider_accepted"],
   [accepted |-> TRUE, answer |-> "outcome_unknown"],
   [accepted |-> FALSE, answer |-> "outcome_unknown"],
   [accepted |-> FALSE, answer |-> "transient_failure"],
   [accepted |-> FALSE, answer |-> "terminal_failure"]}

Called(seen, a) ==
  [made |-> seen.made + 1,
   accepted |-> IF a.accepted THEN seen.accepted + 1 ELSE seen.accepted]

(* The Bot API call of a claimed attempt, however late. *)
Send(c) ==
  /\ consumer[c].phase = "claimed"
  /\ \E a \in Answers :
       /\ consumer' = [consumer EXCEPT ![c] =
            [@ EXCEPT !.phase = "answered", !.answer = a.answer]]
       /\ calls' = [calls EXCEPT ![consumer[c].reply] = Called(@, a)]
  /\ UNCHANGED <<storeVars, recoveryVars>>

HoldsUnsettled(c) ==                    \* mutant: does not compare the claim
  reply[consumer[c].reply].status \in {"delivering", "outcome_unknown"}

(* The row completeAttempt locks and requires. *)
HoldsClaim(c) ==
  /\ reply[consumer[c].reply].status = "delivering"
  /\ reply[consumer[c].reply].claim = consumer[c].attempt

(* completeAttempt under the lock: the attempt takes the answer, and the     *)
(* reply too, except that a transient failure makes it pending again.        *)
CompleteAttempt(c) ==
  LET r == consumer[c].reply
      n == consumer[c].attempt
      answer == consumer[c].answer
  IN /\ consumer[c].phase = "answered" /\ HoldsClaim(c)
     /\ attempt' = [attempt EXCEPT ![r][n] = answer]
     /\ reply' = [reply EXCEPT ![r] =
          [@ EXCEPT !.status = IF answer = "transient_failure"
                               THEN "pending" ELSE answer,
                    !.claim = NoClaim, !.leaseOver = FALSE]]
     /\ \/ Returns(c, r, IF answer = "transient_failure"
                         THEN "deferred" ELSE "finished")
        \/ Returns(c, r, "deferred")    \* committed, but the answer was lost
     /\ UNCHANGED <<calls, recoveryVars>>

(* The claim is gone, or the database fails: a retryable error. *)
CompleteFails(c) ==
  /\ consumer[c].phase = "answered"
  /\ Returns(c, consumer[c].reply, "deferred")
  /\ UNCHANGED <<storeVars, calls, recoveryVars>>

(* The consumer hands its job back to the Queue. *)
Leave(c) ==
  /\ consumer[c].phase \in {"finished", "deferred"}
  /\ consumer' = [consumer EXCEPT ![c] = IdleConsumer]
  /\ UNCHANGED <<storeVars, calls, recoveryVars>>

(* The Worker is evicted anywhere in between. *)
Crash(c) ==
  /\ consumer[c].phase \in {"claimed", "answered"}
  /\ consumer' = [consumer EXCEPT ![c] = IdleConsumer]
  /\ UNCHANGED <<storeVars, calls, recoveryVars>>

-----------------------------------------------------------------------------
(* recoverTelegramDelivery.  prepare first looks its key up ...              *)
LookUpRecovery(o, k, r) ==
  /\ operator[o].phase = "idle" /\ reply[r].status # "absent"
  /\ \/ recovery[k].status = "none"
     \/ recovery[k] = [status |-> "prepared", reply |-> r]
  /\ operator' = [operator EXCEPT ![o] =
       [phase |-> IF recovery[k].status = "none" THEN "reopening"
                                                 ELSE "publishing",
        key |-> k, reply |-> r]]
  /\ UNCHANGED <<storeVars, calls, consumer, recovery>>

ReopenableIfOpen(r) ==                  \* mutant: "reopens" pending replies
  /\ reply[r].status \in {"terminal_failure", "pending"}
  /\ reply[r].attempts < MaxAttempts

Reopenable(r) ==
  reply[r].status = "terminal_failure" /\ reply[r].attempts < MaxAttempts

ReopenedAfresh(row) ==                  \* mutant: restores the whole budget
  [row EXCEPT !.status = "pending", !.attempts = 0]

Reopened(row) == [row EXCEPT !.status = "pending"]

(* ... and then, still in its transaction, locks the reply, reopens it and   *)
(* records the key.                                                          *)
ReopenReply(o) ==
  LET r == operator[o].reply
      k == operator[o].key
  IN /\ operator[o].phase = "reopening"
     /\ Reopenable(r)
     /\ recovery[k].status = "none"
     /\ reply' = [reply EXCEPT ![r] = Reopened(@)]
     /\ recovery' = [recovery EXCEPT ![k] = [status |-> "prepared", reply |-> r]]
     /\ operator' = [operator EXCEPT ![o].phase = "publishing"]
     /\ UNCHANGED <<attempt, calls, consumer>>

(* Accepted by the Queue; any other answer ends the run (OperatorStops). *)
PublishRecovery(o) ==
  /\ operator[o].phase = "publishing"
  /\ operator' = [operator EXCEPT ![o].phase = "marking"]
  /\ UNCHANGED <<storeVars, calls, consumer, recovery>>

MarkRecoveryPublished(o) ==
  /\ operator[o].phase = "marking"
  /\ recovery' = [recovery EXCEPT ![operator[o].key].status = "published"]
  /\ operator' = [operator EXCEPT ![o] = IdleOperator]
  /\ UNCHANGED <<storeVars, calls, consumer>>

(* A refusal (wrong status or error code, no attempt left), a key another    *)
(* run inserted first, a failed publication or a crash.                      *)
OperatorStops(o) ==
  /\ operator[o].phase # "idle"
  /\ operator' = [operator EXCEPT ![o] = IdleOperator]
  /\ UNCHANGED <<storeVars, calls, consumer, recovery>>

-----------------------------------------------------------------------------
Deliver(c) ==
  \/ \E r \in Replies : Claim(c, r)
  \/ Send(c) \/ CompleteAttempt(c) \/ CompleteFails(c)
  \/ Leave(c) \/ Crash(c)

Recover(o) ==
  \/ \E k \in Recoveries, r \in Replies : LookUpRecovery(o, k, r)
  \/ ReopenReply(o) \/ PublishRecovery(o) \/ MarkRecoveryPublished(o)
  \/ OperatorStops(o)

Next ==
  \/ \E r \in Replies : RequestReply(r) \/ LeaseExpires(r)
  \/ \E c \in Consumers : Deliver(c)
  \/ \E o \in Operators : Recover(o)

Spec == Init /\ [][Next]_deliveryVars

-----------------------------------------------------------------------------
(* Whatever consumers, crashes, expired leases and operators do, Telegram    *)
(* accepts a reply at most once, provided its rejections are true.           *)
AcceptedAtMostOnce == \A r \in Replies : calls[r].accepted <= 1

(* No recovery and no redelivery buys a reply more Bot API calls than its    *)
(* attempt ceiling.                                                          *)
CallsWithinCeiling == \A r \in Replies : calls[r].made <= MaxAttempts

(* A reply is tried again only after an explicit rejection: every attempt    *)
(* but the newest was rejected, and the newest is open exactly while the     *)
(* reply is being delivered under it.                                        *)
NoBlindRetry ==
  \A r \in Replies, n \in AttemptNumbers :
    /\ n < reply[r].attempts =>
         attempt[r][n] \in {"transient_failure", "terminal_failure"}
    /\ attempt[r][n] = "attempting" <=>
         reply[r].status = "delivering" /\ reply[r].claim = n
    /\ n > reply[r].attempts => attempt[r][n] = "none"

(* Each recorded recovery reopened the reply after an attempt of its own     *)
(* that Telegram terminally rejected, whatever keys and runs race.           *)
RecoveriesOf(r) ==
  {k \in Recoveries : recovery[k].status # "none" /\ recovery[k].reply = r}
RejectionsOf(r) == {n \in AttemptNumbers : attempt[r][n] = "terminal_failure"}

RecoveryPerRejection ==
  \A r \in Replies :
    Cardinality(RecoveriesOf(r)) <= Cardinality(RejectionsOf(r))

(* What the domain tells about a reply is honest (HonestReply). *)
Told(r) == IF reply[r].status = "delivering" THEN "pending"
                                             ELSE reply[r].status

Honest == INSTANCE HonestReply WITH
            told <- [r \in Replies |-> Told(r)],
            accepted <- [r \in Replies |-> calls[r].accepted]

HonestDelivery == Honest!HonestSpec
=============================================================================
