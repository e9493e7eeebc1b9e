------------------------- MODULE ReplyPipelineProofs -------------------------
(***************************************************************************)
(* Proofs about ReplyPipeline, for every number of replies, consumers,     *)
(* operators, keys, attempts, publications and waiting jobs.               *)
(*                                                                         *)
(* Outbox and Queue restrict when a delivery action happens, never what it *)
(* does: the pipeline is a TelegramDelivery, and inherits its theorems.    *)
(***************************************************************************)
EXTENDS ReplyPipeline, TelegramDeliveryProofs

(* Every step of the pipeline is one of the delivery component, or none.    *)
LEMMA StepIsDelivery == [PipelineNext]_pipelineVars => [Next]_deliveryVars
<1> SUFFICES ASSUME [PipelineNext]_pipelineVars
             PROVE  [Next]_deliveryVars
  OBVIOUS
<1>1. ASSUME NEW r \in Replies,
             \/ Request(r) \/ DispatchReply(r) \/ DispatchLate(r) \/ GiveUp(r) \/ LoseJob(r)
             \/ LeaseExpires(r) /\ UNCHANGED queueVars
      PROVE  [Next]_deliveryVars
  BY <1>1 DEF Request, DispatchReply, DispatchLate, GiveUp, LoseJob, Next
<1>2. ASSUME NEW c \in Consumers, NEW r \in Replies, TakeJob(c, r)
      PROVE  [Next]_deliveryVars
  BY <1>2 DEF TakeJob, Next, Deliver
<1>3. ASSUME NEW c \in Consumers, Work(c)
      PROVE  [Next]_deliveryVars
  BY <1>3 DEF Work, Attempt, RecordConsumption, HandBack, Next, Deliver
<1>4. ASSUME NEW o \in Operators, RecoveryRun(o)
      PROVE  [Next]_deliveryVars
  BY <1>4 DEF RecoveryRun, PublishRecoveryJob, RunStops, Next, Recover
<1>5. CASE UNCHANGED pipelineVars
  BY <1>5 DEF pipelineVars
<1> QED
  BY <1>1, <1>2, <1>3, <1>4, <1>5 DEF PipelineNext

(* The pipeline implements the delivery component.                          *)
THEOREM PipelineDelivers == PipelineSpec => Spec
<1>1. PipelineInit => Init
  BY DEF PipelineInit
<1> QED
  BY <1>1, StepIsDelivery, PTL DEF PipelineSpec, Spec

(* Hence whatever the outbox republishes and the Queue repeats, Telegram    *)
(* accepts a reply at most once.                                            *)
THEOREM PipelineAtMostOnce == PipelineSpec => []AcceptedAtMostOnce
  BY PipelineDelivers, AtMostOnce, PTL

(* ... and every status told is true of Telegram.                           *)
THEOREM PipelineIsHonest == PipelineSpec => HonestDelivery
  BY PipelineDelivers, DeliveryIsHonest, PTL

-----------------------------------------------------------------------------
(* Unless an operator reopened it, r is settled.                            *)
Settled(r) == RecoveriesOf(r) = {} => reply[r].status \in Terminal

FinishedInv ==
  \A c \in Consumers : consumer[c].phase = "finished" =>
    \E r \in Replies : consumer[c].reply = r /\ Settled(r)

(* A recovery, once recorded, stays recorded for its reply.                 *)
LEMMA RecoveriesStay ==
  ASSUME IInv, [Next]_deliveryVars, NEW r \in Replies
  PROVE  RecoveriesOf(r) \subseteq RecoveriesOf(r)'
<1> SUFFICES ASSUME NEW k \in Recoveries, recovery[k].status # "none",
                    recovery[k].reply = r
             PROVE  recovery'[k].status # "none" /\ recovery'[k].reply = r
  BY DEF RecoveriesOf
<1>1. recovery \in [Recoveries -> Recovery]
  BY DEF IInv, TypeOK
<1>2. ASSUME NEW o \in Operators, ReopenReply(o)
      PROVE  recovery'[k] = recovery[k]
  <2>1. k # operator[o].key
    BY <1>2 DEF ReopenReply
  <2> QED
    BY <1>1, <1>2, <2>1 DEF ReopenReply
<1>3. ASSUME NEW o \in Operators, MarkRecoveryPublished(o)
      PROVE  recovery'[k].status # "none" /\ recovery'[k].reply = r
  <2>1. CASE k = operator[o].key
    BY <1>1, <1>3, <2>1 DEF MarkRecoveryPublished, Recovery
  <2>2. CASE k # operator[o].key
    BY <1>1, <1>3, <2>2 DEF MarkRecoveryPublished
  <2> QED
    BY <2>1, <2>2
<1>4. CASE UNCHANGED recovery
  BY <1>4
<1>5. ASSUME NEW o \in Operators, Recover(o),
             ~ReopenReply(o), ~MarkRecoveryPublished(o)
      PROVE  UNCHANGED recovery
  BY <1>5 DEF Recover, LookUpRecovery, PublishRecovery, OperatorStops
<1>6. ASSUME NEW c \in Consumers, Deliver(c)
      PROVE  UNCHANGED recovery
  BY <1>6 DEF Deliver, Claim, ClaimTerminal, ClaimDeferred, ClaimExpired,
              ClaimExhausted, ClaimGranted, Send, CompleteAttempt,
              CompleteFails, Leave, Crash, recoveryVars
<1>7. ASSUME NEW s \in Replies, RequestReply(s) \/ LeaseExpires(s)
      PROVE  UNCHANGED recovery
  BY <1>7 DEF RequestReply, LeaseExpires, recoveryVars
<1>8. CASE UNCHANGED deliveryVars
  BY <1>4, <1>8 DEF deliveryVars
<1> QED
  BY <1>2, <1>3, <1>4, <1>5, <1>6, <1>7, <1>8 DEF Next

(* A settled reply changes its status only by a recorded recovery.          *)
LEMMA TerminalStays ==
  ASSUME IInv, [Next]_deliveryVars, NEW r \in Replies,
         reply[r].status \in Terminal
  PROVE  reply'[r].status \in Terminal \/ RecoveriesOf(r)' # {}
<1>1. reply \in [Replies -> Reply] /\ recovery \in [Recoveries -> Recovery]
  BY DEF IInv, TypeOK
<1>2. ASSUME NEW s \in Replies, RequestReply(s) \/ LeaseExpires(s)
      PROVE  reply'[r] = reply[r]
  BY <1>1, <1>2 DEF RequestReply, LeaseExpires, Terminal
<1>3. ASSUME NEW c \in Consumers, NEW s \in Replies, Claim(c, s)
      PROVE  reply'[r] = reply[r]
  BY <1>1, <1>3 DEF Claim, ClaimTerminal, ClaimDeferred, ClaimExpired,
                    ClaimExhausted, ClaimGranted, storeVars, Terminal
<1>4. ASSUME NEW c \in Consumers, CompleteAttempt(c)
      PROVE  reply'[r] = reply[r]
  BY <1>1, <1>4 DEF CompleteAttempt, HoldsClaim, Terminal
<1>5. ASSUME NEW c \in Consumers, Deliver(c)
      PROVE  reply'[r] = reply[r]
  BY <1>3, <1>4, <1>5 DEF Deliver, Send, CompleteFails, Leave, Crash, storeVars
<1>6. ASSUME NEW o \in Operators, ReopenReply(o)
      PROVE  reply'[r] = reply[r] \/ RecoveriesOf(r)' # {}
  <2>1. operator[o].key \in Recoveries /\ operator[o].reply \in Replies
    BY <1>6 DEF ReopenReply, IInv, OperatorsInv
  <2>2. CASE operator[o].reply # r
    BY <1>1, <1>6, <2>2 DEF ReopenReply
  <2>3. CASE operator[o].reply = r
    <3>1. recovery'[operator[o].key] = [status |-> "prepared", reply |-> r]
      BY <1>1, <1>6, <2>1, <2>3 DEF ReopenReply
    <3>2. operator[o].key \in RecoveriesOf(r)'
      BY <2>1, <3>1 DEF RecoveriesOf
    <3> QED
      BY <3>2
  <2> QED
    BY <2>2, <2>3
<1>7. ASSUME NEW o \in Operators, Recover(o), ~ReopenReply(o)
      PROVE  reply'[r] = reply[r]
  BY <1>7 DEF Recover, LookUpRecovery, PublishRecovery,
              MarkRecoveryPublished, OperatorStops, storeVars
<1>8. CASE UNCHANGED deliveryVars
  BY <1>8 DEF deliveryVars
<1> QED
  BY <1>2, <1>5, <1>6, <1>7, <1>8 DEF Next

(* So what is settled stays settled, in the sense of Settled.               *)
LEMMA SettledStays ==
  ASSUME IInv, [Next]_deliveryVars, NEW r \in Replies, Settled(r)
  PROVE  Settled(r)'
  BY RecoveriesStay, TerminalStays DEF Settled

-----------------------------------------------------------------------------
(* A consumer comes out of a delivery step finished only if its reply is    *)
(* settled by then.                                                         *)
LEMMA FinishingSettles ==
  ASSUME IInv, NEW c \in Consumers, Deliver(c), consumer'[c].phase = "finished"
  PROVE  consumer'[c].reply \in Replies
           /\ reply'[consumer'[c].reply].status \in Terminal
<1>1. /\ consumer \in [Consumers -> Consumer]
      /\ reply \in [Replies -> Reply]
  BY DEF IInv, TypeOK
<1>2. ASSUME NEW r \in Replies, Claim(c, r)
      PROVE  consumer'[c].reply = r /\ reply'[r].status \in Terminal
  <2>1. CASE ClaimTerminal(c, r)
    BY <1>1, <2>1 DEF ClaimTerminal, Returns, storeVars
  <2>2. CASE ClaimDeferred(c, r)
    BY <1>1, <2>2 DEF ClaimDeferred, Returns
  <2>3. CASE ClaimExpired(c, r)
    <3>1. reply'[r].status = "outcome_unknown"
      BY <1>1, <2>3 DEF ClaimExpired, Reply
    <3> QED
      BY <1>1, <2>3, <3>1 DEF ClaimExpired, Returns, Terminal
  <2>4. CASE ClaimExhausted(c, r)
    <3>1. reply'[r].status = "terminal_failure"
      BY <1>1, <2>4 DEF ClaimExhausted, Reply
    <3> QED
      BY <1>1, <2>4, <3>1 DEF ClaimExhausted, Returns, Terminal
  <2>5. CASE ClaimGranted(c, r)
    BY <1>1, <2>5 DEF ClaimGranted
  <2> QED
    BY <1>2, <2>1, <2>2, <2>3, <2>4, <2>5 DEF Claim
<1>3. CASE CompleteAttempt(c)
  <2> DEFINE r == consumer[c].reply
             answer == consumer[c].answer
  <2>1. r \in Replies /\ answer \in Outcomes
    BY <1>3 DEF CompleteAttempt, Sending, IInv, SendersInv, SenderInv
  <2>2. answer # "transient_failure" /\ consumer'[c].reply = r
    BY <1>1, <1>3 DEF CompleteAttempt, Returns
  <2>3. reply'[r].status = IF answer = "transient_failure" THEN "pending"
                                                           ELSE answer
    BY <1>1, <1>3, <2>1 DEF CompleteAttempt, Reply
  <2> HIDE DEF r, answer
  <2> QED
    BY <2>1, <2>2, <2>3 DEF Outcomes, Terminal
<1>4. CASE Send(c)
  BY <1>1, <1>4 DEF Send, Consumer
<1>5. CASE CompleteFails(c)
  BY <1>1, <1>5 DEF CompleteFails, Returns
<1>6. CASE Leave(c) \/ Crash(c)
  BY <1>1, <1>6 DEF Leave, Crash, IdleConsumer
<1> QED
  BY <1>2, <1>3, <1>4, <1>5, <1>6 DEF Deliver

(* A step moves one consumer at most.                                       *)
LEMMA OneConsumerMoves ==
  ASSUME IInv, [Next]_deliveryVars, NEW c \in Consumers, ~Deliver(c)
  PROVE  consumer'[c] = consumer[c]
<1>1. consumer \in [Consumers -> Consumer]
  BY DEF IInv, TypeOK
<1>2. ASSUME NEW e \in Consumers, Deliver(e)
      PROVE  consumer'[c] = consumer[c]
  <2>1. e # c
    BY <1>2
  <2> QED
    BY <1>1, <1>2, <2>1
    DEF Deliver, Claim, ClaimTerminal, ClaimDeferred, ClaimExpired,
        ClaimExhausted, ClaimGranted, Send, CompleteAttempt, CompleteFails,
        Leave, Crash, Returns
<1>3. ASSUME NEW o \in Operators, Recover(o)
      PROVE  consumer'[c] = consumer[c]
  BY <1>3 DEF Recover, LookUpRecovery, ReopenReply, PublishRecovery,
              MarkRecoveryPublished, OperatorStops
<1>4. ASSUME NEW s \in Replies, RequestReply(s) \/ LeaseExpires(s)
      PROVE  consumer'[c] = consumer[c]
  BY <1>4 DEF RequestReply, LeaseExpires
<1>5. CASE UNCHANGED deliveryVars
  BY <1>5 DEF deliveryVars
<1> QED
  BY <1>2, <1>3, <1>4, <1>5 DEF Next

(* So a finished consumer's reply is settled, and stays so.                 *)
LEMMA FinishedStays ==
  ASSUME IInv, FinishedInv, [Next]_deliveryVars
  PROVE  FinishedInv'
<1> SUFFICES ASSUME NEW c \in Consumers, consumer'[c].phase = "finished"
             PROVE  \E r \in Replies : consumer'[c].reply = r /\ Settled(r)'
  BY DEF FinishedInv
<1>1. CASE Deliver(c)
  <2>1. PICK r \in Replies : consumer'[c].reply = r
                               /\ reply'[r].status \in Terminal
    BY <1>1, FinishingSettles
  <2> QED
    BY <2>1 DEF Settled
<1>2. CASE ~Deliver(c)
  <2>1. consumer'[c] = consumer[c]
    BY <1>2, OneConsumerMoves
  <2>2. PICK r \in Replies : consumer[c].reply = r /\ Settled(r)
    BY <2>1 DEF FinishedInv
  <2>3. Settled(r)'
    BY <2>2, SettledStays
  <2> QED
    BY <2>1, <2>2, <2>3
<1> QED
  BY <1>1, <1>2

-----------------------------------------------------------------------------
(* The strengthening: the delivery invariant, finished consumers' replies    *)
(* are settled, and so are receipted ones.                                  *)
PipelineInv == IInv /\ FinishedInv /\ ConsumedMeansSettled

(* Only processOutboxJob writes a receipt, and only for a finished consumer. *)
LEMMA ReceiptedStays ==
  ASSUME PipelineInv, [PipelineNext]_pipelineVars,
         outbox \in [Replies -> {"absent", "open", "given_up", "consumed"}]
  PROVE  ConsumedMeansSettled'
<1> SUFFICES ASSUME NEW r \in Replies, outbox'[r] = "consumed"
             PROVE  Settled(r)'
  BY DEF ConsumedMeansSettled, Settled
<1>1. [Next]_deliveryVars
  BY StepIsDelivery
<1>2. Settled(r) => Settled(r)'
  BY <1>1, SettledStays DEF PipelineInv
<1>3. CASE outbox[r] = "consumed"
  BY <1>2, <1>3 DEF PipelineInv, ConsumedMeansSettled, Settled
<1>4. CASE outbox[r] # "consumed"
  <2>1. PICK c \in Consumers : RecordConsumption(c) /\ consumer[c].reply = r
    <3>1. ASSUME NEW s \in Replies,
                 \/ Request(s) \/ DispatchReply(s) \/ DispatchLate(s) \/ GiveUp(s) \/ LoseJob(s)
                 \/ LeaseExpires(s) /\ UNCHANGED queueVars
          PROVE  FALSE
      BY <1>4, <3>1 DEF Request, DispatchReply, DispatchLate, GiveUp, LoseJob, queueVars
    <3>2. ASSUME NEW s \in Replies, NEW c \in Consumers, TakeJob(c, s)
          PROVE  FALSE
      BY <1>4, <3>2 DEF TakeJob
    <3>3. ASSUME NEW c \in Consumers, Attempt(c) \/ HandBack(c)
          PROVE  FALSE
      BY <1>4, <3>3 DEF Attempt, HandBack, queueVars
    <3>4. ASSUME NEW o \in Operators, RecoveryRun(o)
          PROVE  FALSE
      BY <1>4, <3>4 DEF RecoveryRun, PublishRecoveryJob, RunStops, queueVars
    <3>5. ASSUME NEW c \in Consumers, RecordConsumption(c)
          PROVE  consumer[c].reply = r
      BY <1>4, <3>5 DEF RecordConsumption
    <3>6. ASSUME UNCHANGED pipelineVars
          PROVE  FALSE
      BY <1>4, <3>6 DEF pipelineVars, queueVars
    <3> QED
      BY <3>1, <3>2, <3>3, <3>4, <3>5, <3>6 DEF PipelineNext, Work
  <2>2. Settled(r)
    BY <2>1 DEF RecordConsumption, PipelineInv, FinishedInv
  <2> QED
    BY <1>2, <2>2
<1> QED
  BY <1>3, <1>4

(* The types of the pipeline's own variables.                               *)
QueueTypes ==
  /\ outbox \in [Replies -> {"absent", "open", "given_up", "consumed"}]
  /\ tries \in [Replies -> 0..MaxPublications]
  /\ jobs \in [Replies -> 0..MaxJobs]

(* A job more, or one less, stays within the Queue's bound.                 *)
LEMMA EnqueuedTypes ==
  ASSUME QueueTypes, NEW r, Enqueued(r) \/ UNCHANGED jobs
  PROVE  jobs' \in [Replies -> 0..MaxJobs]
<1>1. CASE Enqueued(r) /\ r \in Replies
  <2>1. MaxJobs \in Nat /\ jobs[r] \in Nat /\ jobs[r] + 1 \in 0..MaxJobs
    BY <1>1, PipelineAssumption DEF QueueTypes, Enqueued
  <2> QED
    BY <1>1, <2>1 DEF QueueTypes, Enqueued
<1>2. CASE Enqueued(r) /\ r \notin Replies
  BY <1>2 DEF QueueTypes, Enqueued
<1>3. CASE UNCHANGED jobs
  BY <1>3 DEF QueueTypes
<1> QED
  BY <1>1, <1>2, <1>3

(* Every step keeps the types of the pipeline's own variables.               *)
LEMMA QueueTypesStay ==
  ASSUME QueueTypes, [PipelineNext]_pipelineVars
  PROVE  QueueTypes'
<1> USE PipelineAssumption
<1>1. ASSUME NEW r \in Replies, Request(r)
      PROVE  QueueTypes'
  BY <1>1 DEF Request, QueueTypes
<1>2. ASSUME NEW r \in Replies, DispatchReply(r) \/ DispatchLate(r)
      PROVE  QueueTypes'
  <2>1. tries' \in [Replies -> 0..MaxPublications]
    <3>1. tries[r] + 1 \in 0..MaxPublications
      BY <1>2 DEF DispatchReply, DispatchLate, QueueTypes
    <3> QED
      BY <1>2, <3>1 DEF DispatchReply, DispatchLate, QueueTypes
  <2>2. jobs' \in [Replies -> 0..MaxJobs]
    BY <1>2, EnqueuedTypes DEF DispatchReply, DispatchLate
  <2> QED
    BY <1>2, <2>1, <2>2 DEF DispatchReply, DispatchLate, QueueTypes
<1>3. ASSUME NEW r \in Replies, GiveUp(r)
      PROVE  QueueTypes'
  BY <1>3 DEF GiveUp, QueueTypes
<1>4. ASSUME NEW r \in Replies, jobs[r] > 0, jobs' = [jobs EXCEPT ![r] = @ - 1],
             UNCHANGED <<outbox, tries>>
      PROVE  QueueTypes'
  <2>1. jobs[r] - 1 \in 0..MaxJobs
    BY <1>4 DEF QueueTypes
  <2> QED
    BY <1>4, <2>1 DEF QueueTypes
<1>5. ASSUME NEW c \in Consumers, Work(c)
      PROVE  QueueTypes'
  <2>1. CASE Attempt(c)
    BY <2>1 DEF Attempt, QueueTypes, queueVars
  <2>2. CASE RecordConsumption(c)
    <3>1. jobs' \in [Replies -> 0..MaxJobs]
      BY <2>2, EnqueuedTypes DEF RecordConsumption
    <3> QED
      BY <2>2, <3>1 DEF RecordConsumption, QueueTypes
  <2>3. CASE HandBack(c)
    <3>1. jobs' \in [Replies -> 0..MaxJobs]
      BY <2>3, EnqueuedTypes DEF HandBack
    <3> QED
      BY <2>3, <3>1 DEF HandBack, QueueTypes
  <2> QED
    BY <1>5, <2>1, <2>2, <2>3 DEF Work
<1>6. ASSUME NEW o \in Operators, RecoveryRun(o)
      PROVE  QueueTypes'
  <2>1. Enqueued(operator[o].reply) \/ UNCHANGED jobs
    BY <1>6 DEF RecoveryRun, PublishRecoveryJob, RunStops, queueVars
  <2>2. jobs' \in [Replies -> 0..MaxJobs]
    BY <2>1, EnqueuedTypes
  <2> QED
    BY <1>6, <2>2 DEF RecoveryRun, PublishRecoveryJob, RunStops, QueueTypes,
                      queueVars
<1>7. CASE UNCHANGED pipelineVars
  BY <1>7 DEF pipelineVars, queueVars, QueueTypes
<1>8. ASSUME NEW r \in Replies,
             LeaseExpires(r) /\ UNCHANGED queueVars
      PROVE  QueueTypes'
  BY <1>8 DEF queueVars, QueueTypes
<1> QED
  BY <1>1, <1>2, <1>3, <1>4, <1>5, <1>6, <1>7, <1>8
  DEF PipelineNext, LoseJob, TakeJob

(* Types of the whole pipeline.                                             *)
THEOREM PipelineTypeCorrect == PipelineSpec => []PipelineTypeOK
<1>1. PipelineInit => QueueTypes
  BY PipelineAssumption DEF PipelineInit, QueueTypes
<1>2. TypeOK /\ QueueTypes => PipelineTypeOK
  BY DEF PipelineTypeOK, QueueTypes
<1> QED
  BY <1>1, <1>2, QueueTypesStay, PipelineDelivers, TypeCorrect, PTL
  DEF PipelineSpec

(* processOutboxJob writes its receipt only after a finished delivery, so a *)
(* receipted reply that nobody reopened is settled.                         *)
THEOREM ReceiptsMeanSettled == PipelineSpec => []ConsumedMeansSettled
<1>1. PipelineInit => FinishedInv /\ ConsumedMeansSettled
  BY DEF PipelineInit, Init, FinishedInv, ConsumedMeansSettled, IdleConsumer
<1>2. PipelineSpec => []IInv
  BY PipelineDelivers, InductiveInvariant, PTL
<1>3. PipelineSpec => []PipelineTypeOK
  BY PipelineTypeCorrect
<1>4. /\ IInv /\ PipelineTypeOK /\ FinishedInv /\ ConsumedMeansSettled
      /\ [PipelineNext]_pipelineVars
      => FinishedInv' /\ ConsumedMeansSettled'
  BY StepIsDelivery, FinishedStays, ReceiptedStays
  DEF PipelineInv, PipelineTypeOK
<1> QED
  BY <1>1, <1>2, <1>3, <1>4, PTL DEF PipelineSpec

=============================================================================
