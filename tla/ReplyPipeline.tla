---------------------------- MODULE ReplyPipeline ----------------------------
(***************************************************************************)
(* A reply from its request to its settlement: the delivery component      *)
(* (TelegramDelivery) driven by the reply's outbox row and its Queue jobs, *)
(* as apps/api/src/index.ts wires them.  The outbox is taken at the level  *)
(* of its promise (OutboxPromise), which the detailed Outbox implements.   *)
(***************************************************************************)
EXTENDS TelegramDelivery

CONSTANTS
  MaxPublications,   \* maximumPublicationAttempts of the outbox
  MaxJobs            \* bound: jobs of one reply waiting in the Queue

ASSUME PipelineAssumption ==
  /\ MaxPublications \in Nat \ {0}
  /\ MaxJobs \in Nat \ {0}

VARIABLES
  outbox,   \* outbox[r]: where r's outbox row stands (OutboxPromise)
  tries,    \* tries[r]: publications of r's outbox row
  jobs      \* jobs[r]: jobs for r waiting in the Queue

queueVars == <<outbox, tries, jobs>>
pipelineVars == <<deliveryVars, queueVars>>

PipelineTypeOK ==
  /\ TypeOK
  /\ outbox \in [Replies -> {"absent", "open", "given_up", "consumed"}]
  /\ tries \in [Replies -> 0..MaxPublications]
  /\ jobs \in [Replies -> 0..MaxJobs]

PipelineInit ==
  /\ Init
  /\ outbox = [r \in Replies |-> "absent"]
  /\ tries = [r \in Replies |-> 0]
  /\ jobs = [r \in Replies |-> 0]

-----------------------------------------------------------------------------
(* The transaction that inserts the reply inserts its outbox row. *)
Request(r) ==
  /\ RequestReply(r)
  /\ outbox' = [outbox EXCEPT ![r] = "open"]
  /\ UNCHANGED <<tries, jobs>>

Enqueued(r) == jobs[r] < MaxJobs /\ jobs' = [jobs EXCEPT ![r] = @ + 1]

DispatchWithoutBudget(r) ==             \* mutant: ignores the budget
  /\ outbox[r] = "open"
  /\ tries' = [tries EXCEPT ![r] = @ + 1]
  /\ Enqueued(r) \/ UNCHANGED jobs
  /\ UNCHANGED <<deliveryVars, outbox>>

(* A dispatcher spends one publication; the Queue takes the job or not. *)
DispatchReply(r) ==
  /\ outbox[r] = "open" /\ tries[r] < MaxPublications
  /\ tries' = [tries EXCEPT ![r] = @ + 1]
  /\ Enqueued(r) \/ UNCHANGED jobs
  /\ UNCHANGED <<deliveryVars, outbox>>

(* A dispatcher that had swept when the row was receipted claims it all the  *)
(* same.  OutboxPromise bounds how often; here only the budget does.         *)
DispatchLate(r) ==
  /\ outbox[r] = "consumed" /\ tries[r] < MaxPublications
  /\ tries' = [tries EXCEPT ![r] = @ + 1]
  /\ Enqueued(r) \/ UNCHANGED jobs
  /\ UNCHANGED <<deliveryVars, outbox>>

(* The reconciler fails a stalled row whose publications are spent. *)
GiveUp(r) ==
  /\ outbox[r] = "open" /\ tries[r] >= MaxPublications
  /\ outbox' = [outbox EXCEPT ![r] = "given_up"]
  /\ UNCHANGED <<deliveryVars, tries, jobs>>

(* Retention expiry, or a batch the platform drops. *)
LoseJob(r) ==
  /\ jobs[r] > 0
  /\ jobs' = [jobs EXCEPT ![r] = @ - 1]
  /\ UNCHANGED <<deliveryVars, outbox, tries>>

(* A consumer receives a job and claims its reply. *)
TakeJob(c, r) ==
  /\ jobs[r] > 0
  /\ Claim(c, r)
  /\ jobs' = [jobs EXCEPT ![r] = @ - 1]
  /\ UNCHANGED <<outbox, tries>>

Attempt(c) ==
  /\ Send(c) \/ CompleteAttempt(c) \/ CompleteFails(c)
  /\ UNCHANGED queueVars

RecordsConsumptionAlways(c) ==          \* mutant: receipts a deferred reply
  /\ consumer[c].phase \in {"finished", "deferred"}
  /\ outbox' = [outbox EXCEPT ![consumer[c].reply] = "consumed"]
  /\ Leave(c)
  /\ UNCHANGED <<tries, jobs>>

(* processOutboxJob: a finished delivery is receipted, then acknowledged; an *)
(* acknowledgement that gets lost leaves the job in the Queue.               *)
RecordConsumption(c) ==
  /\ consumer[c].phase = "finished"
  /\ outbox' = [outbox EXCEPT ![consumer[c].reply] = "consumed"]
  /\ Leave(c)
  /\ Enqueued(consumer[c].reply) \/ UNCHANGED jobs
  /\ UNCHANGED tries

(* A deferred delivery, a receipt that could not be written, or an evicted   *)
(* Worker: the Queue retries the job, or dead-letters it after its retries.  *)
HandBack(c) ==
  /\ Leave(c) \/ Crash(c)
  /\ Enqueued(consumer[c].reply) \/ UNCHANGED jobs
  /\ UNCHANGED <<outbox, tries>>

-----------------------------------------------------------------------------
(* The operator's run publishes the reply's existing job.  The run ends on   *)
(* any answer but acceptance, with the job enqueued or not.                  *)
PublishRecoveryJob(o) ==
  /\ PublishRecovery(o)
  /\ Enqueued(operator[o].reply)
  /\ UNCHANGED <<outbox, tries>>

RunStops(o) ==
  /\ OperatorStops(o)
  /\ \/ UNCHANGED jobs
     \/ operator[o].phase = "publishing" /\ Enqueued(operator[o].reply)
  /\ UNCHANGED <<outbox, tries>>

RecoveryRun(o) ==
  \/ /\ \/ \E k \in Recoveries, r \in Replies : LookUpRecovery(o, k, r)
        \/ ReopenReply(o)
        \/ MarkRecoveryPublished(o)
     /\ UNCHANGED queueVars
  \/ PublishRecoveryJob(o)
  \/ RunStops(o)

Work(c) == Attempt(c) \/ RecordConsumption(c) \/ HandBack(c)

PipelineNext ==
  \/ \E r \in Replies :
       \/ Request(r) \/ DispatchReply(r) \/ DispatchLate(r)
       \/ GiveUp(r) \/ LoseJob(r)
       \/ LeaseExpires(r) /\ UNCHANGED queueVars
       \/ \E c \in Consumers : TakeJob(c, r)
  \/ \E c \in Consumers : Work(c)
  \/ \E o \in Operators : RecoveryRun(o)

PipelineSpec == PipelineInit /\ [][PipelineNext]_pipelineVars

(* Leases run out; the cron dispatcher keeps publishing an open row; the     *)
(* Queue delivers a job it keeps holding; a consumer or an operator's run    *)
(* ends every step it starts.  Jobs may be lost and dead-lettered at will.   *)
PipelineFairness ==
  /\ \A r \in Replies :
       /\ WF_pipelineVars(LeaseExpires(r) /\ UNCHANGED queueVars)
       /\ WF_pipelineVars(DispatchReply(r) \/ GiveUp(r))
       /\ WF_pipelineVars(\E c \in Consumers : TakeJob(c, r))
  /\ \A c \in Consumers : WF_pipelineVars(Work(c))
  /\ \A o \in Operators : WF_pipelineVars(RecoveryRun(o))

FairPipeline == PipelineSpec /\ PipelineFairness

-----------------------------------------------------------------------------
(* A receipt stands for a settled reply: unless an operator reopened it, a   *)
(* reply whose job is receipted has a terminal status.                       *)
ConsumedMeansSettled ==
  \A r \in Replies :
    outbox[r] = "consumed" /\ RecoveriesOf(r) = {}
      => reply[r].status \in Terminal

(* However often operators reopen replies and whatever jobs are lost, a      *)
(* requested reply is settled, is left to the operator by its failed row,    *)
(* or had a run of the recovery workflow.                                    *)
EveryReplyLeftToSomeone ==
  \A r \in Replies :
    reply[r].status \in {"pending", "delivering"}
      ~> \/ reply[r].status \in Terminal \/ outbox[r] = "given_up"
         \/ RecoveriesOf(r) # {}

(* Every requested reply is settled, or its outbox row has failed and waits  *)
(* for the operator, however many jobs are lost and Workers crash.           *)
EveryReplyResolves ==
  \A r \in Replies :
    reply[r].status \in {"pending", "delivering"}
      ~> reply[r].status \in Terminal \/ outbox[r] = "given_up"
=============================================================================
