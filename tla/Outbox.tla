------------------------------- MODULE Outbox -------------------------------
(***************************************************************************)
(* The transactional outbox of packages/adapters/src/postgres/             *)
(* outbox-store.ts and the dispatcher of packages/domain/src/outbox/       *)
(* outbox-delivery.ts: rows written with the domain change are leased by   *)
(* concurrent dispatcher invocations, published to a Queue that may lose,  *)
(* delay and repeat a job, and receipted by the consumer; an operator may  *)
(* reopen a row that used up its publication attempts.                     *)
(*                                                                         *)
(* Database timestamps are compared only with the current time, and a row  *)
(* waits for exactly one of them at any moment: the lease of its claim,    *)
(* its next attempt, or the receipt timeout of its publication.  The field *)
(* "elapsed" says whether that moment has passed; TimerElapses lets it     *)
(* pass at any time, so no relation between the durations is assumed.      *)
(***************************************************************************)
EXTENDS Naturals, FiniteSets

CONSTANTS
  Messages,        \* outbox rows the domain may write
  Dispatchers,     \* concurrent dispatcher invocations
  MaxAttempts,     \* maximumPublicationAttempts
  BatchLimit,      \* dispatchBatchSize
  MaxRecoveries    \* bound: operator recoveries of one row

ASSUME BoundsAssumption ==
  /\ MaxAttempts \in Nat \ {0}
  /\ BatchLimit \in Nat \ {0}
  /\ MaxRecoveries \in Nat
  /\ IsFiniteSet(Messages) /\ IsFiniteSet(Dispatchers)

VARIABLES
  row,         \* outbox_messages: status, attempts, claim and its one timer
  receipt,     \* receipt[m]: an outbox_message_receipts row exists
  queue,       \* queue[m]: the Queue still holds a job for m
  task,        \* task[d][m]: what dispatcher invocation d is doing about m
  claims,      \* claims[m]: claims ever granted on m; the newest claim's id
  newestSent,  \* newestSent[m]: newest claim whose job the Queue took
  recoveries   \* recoveries[m]: operator recoveries of m

dbVars == <<row, receipt, recoveries>>
queueVars == <<queue, newestSent>>
vars == <<row, receipt, queue, task, claims, newestSent, recoveries>>

NoClaim == 0
NoTask == [phase |-> "none", claim |-> NoClaim, attempt |-> 0]
Idle == [m \in Messages |-> NoTask]
AbsentRow ==
  [status |-> "absent", attempts |-> 0, claim |-> NoClaim, elapsed |-> FALSE]

Row == [status : {"absent", "pending", "published", "failed"},
        attempts : Nat, claim : Nat, elapsed : BOOLEAN]
SweptTask == [phase |-> "swept", claim |-> NoClaim, attempt |-> 0]
Task == [phase : {"none", "swept", "claimed", "accepted", "rejected",
                  "resolving"},
         claim : Nat, attempt : Nat]

HasClaimed(t) == t.phase \notin {"none", "swept"}

TypeOK ==
  /\ row \in [Messages -> Row]
  /\ receipt \in [Messages -> BOOLEAN]
  /\ queue \in [Messages -> BOOLEAN]
  /\ task \in [Dispatchers -> [Messages -> Task]]
  /\ claims \in [Messages -> Nat]
  /\ newestSent \in [Messages -> Nat]
  /\ recoveries \in [Messages -> Nat]

Init ==
  /\ row = [m \in Messages |-> AbsentRow]
  /\ receipt = [m \in Messages |-> FALSE]
  /\ queue = [m \in Messages |-> FALSE]
  /\ task = [d \in Dispatchers |-> Idle]
  /\ claims = [m \in Messages |-> 0]
  /\ newestSent = [m \in Messages |-> 0]
  /\ recoveries = [m \in Messages |-> 0]

-----------------------------------------------------------------------------
(* The domain transaction that accepts an event or requests a reply inserts *)
(* its outbox row, due at once.                                             *)
Enqueue(m) ==
  /\ row[m].status = "absent"
  /\ row' = [row EXCEPT ![m] =
               [status |-> "pending", attempts |-> 0,
                claim |-> NoClaim, elapsed |-> TRUE]]
  /\ UNCHANGED <<receipt, recoveries, queueVars, task, claims>>

(* The moment row m waits for passes.  A claiming transaction compares with *)
(* the time it began, for which a moment that passes now is still to come.  *)
TimerElapses(m) ==
  /\ row[m].status \in {"pending", "published"}
  /\ ~row[m].elapsed
  /\ row' = [row EXCEPT ![m].elapsed = TRUE]
  /\ task' = [d \in Dispatchers |->
       IF task[d][m] = SweptTask THEN [task[d] EXCEPT ![m] = NoTask]
                                 ELSE task[d]]
  /\ UNCHANGED <<receipt, recoveries, queueVars, claims>>

-----------------------------------------------------------------------------
(* claimPending: one transaction of four statements, each with its own      *)
(* snapshot.  The first three sweep every row: at most one of them changes  *)
(* a row, which it locks, and a receipt that comes between them has the     *)
(* effect of one before or after all three, so together they are one step.  *)
(* The fourth claims, and never looks at receipts: what happens between the *)
(* sweep and the claim, a receipt above all, is not seen.  A sweep is there *)
(* for all from its own step on: what others do before the claim, they      *)
(* could do after an invocation that swept and claimed nothing.             *)

ReconciledIfFailed(r, consumed) ==      \* mutant: misses pending rows
  IF consumed /\ r.status = "failed"
  THEN [r EXCEPT !.status = "published", !.claim = NoClaim]
  ELSE r

ReconciledIfPending(r, consumed) ==     \* mutant: misses failed rows
  IF consumed /\ r.status = "pending"
  THEN [r EXCEPT !.status = "published", !.claim = NoClaim]
  ELSE r

ReconciledWithRefund(r, consumed) ==    \* mutant: gives an attempt back
  IF consumed /\ r.status \in {"pending", "failed"}
  THEN [r EXCEPT !.status = "published", !.claim = NoClaim,
                 !.attempts = @ - 1]
  ELSE r

(* Statement 1: a receipted row is published, whatever it was. *)
Reconciled(r, consumed) ==
  IF consumed /\ r.status \in {"pending", "failed"}
  THEN [r EXCEPT !.status = "published", !.claim = NoClaim]
  ELSE r

RequeuedUnread(r, consumed) ==          \* mutant: does not look at receipts
  IF r.status = "published" /\ r.elapsed
  THEN [r EXCEPT !.status = IF r.attempts >= MaxAttempts THEN "failed"
                                                         ELSE "pending",
                 !.claim = NoClaim]
  ELSE r

RequeuedAfresh(r, consumed) ==          \* mutant: a stalled row starts over
  IF r.status = "published" /\ r.elapsed /\ ~consumed
  THEN [r EXCEPT !.status = "pending", !.attempts = 0, !.claim = NoClaim]
  ELSE r

(* Statement 2: a published row without a receipt after the timeout is due  *)
(* again, or fails when it has no attempt left.                             *)
Requeued(r, consumed) ==
  IF r.status = "published" /\ r.elapsed /\ ~consumed
  THEN [r EXCEPT !.status = IF r.attempts >= MaxAttempts THEN "failed"
                                                         ELSE "pending",
                 !.claim = NoClaim]
  ELSE r

(* Statement 3: a pending row without an attempt left and without a live    *)
(* claim fails.                                                             *)
Exhausted(r) ==
  IF /\ r.status = "pending"
     /\ r.attempts >= MaxAttempts
     /\ r.claim = NoClaim \/ r.elapsed
  THEN [r EXCEPT !.status = "failed", !.claim = NoClaim]
  ELSE r

Swept(m) == Exhausted(Requeued(Reconciled(row[m], receipt[m]), receipt[m]))

Sweep(d) ==
  /\ task[d] = Idle
  /\ row' = [m \in Messages |-> Swept(m)]
  /\ task' = [task EXCEPT ![d] = [m \in Messages |-> SweptTask]]
  /\ UNCHANGED <<receipt, recoveries, queueVars, claims>>

ClaimableIfUnclaimed(r) ==              \* mutant: forgets expired leases
  /\ r.status = "pending" /\ r.attempts < MaxAttempts /\ r.elapsed
  /\ r.claim = NoClaim

ClaimedKeepingId(r, id) ==              \* mutant: an old claim id survives
  [r EXCEPT !.claim = IF @ = NoClaim THEN id ELSE @,
            !.attempts = r.attempts + 1, !.elapsed = FALSE]

(* Statement 4: which rows may be claimed, and what a claim writes. *)
Claimable(r) == r.status = "pending" /\ r.attempts < MaxAttempts /\ r.elapsed

Claimed(r, id) ==
  [r EXCEPT !.claim = id, !.attempts = r.attempts + 1, !.elapsed = FALSE]

(* SKIP LOCKED and LIMIT: the batch is any small enough set of claimable    *)
(* rows.  Each claim has a fresh id, and the invocation receives what the   *)
(* claim wrote (RETURNING).                                                 *)
ClaimBatch(d, batch) ==
  /\ \E m \in Messages : task[d][m] = SweptTask
  /\ \A m \in batch : task[d][m] = SweptTask /\ Claimable(row[m])
  /\ Cardinality(batch) <= BatchLimit
  /\ row' = [m \in Messages |->
               IF m \in batch THEN Claimed(row[m], claims[m] + 1) ELSE row[m]]
  /\ task' = [task EXCEPT ![d] = [m \in Messages |->
               IF m \in batch
               THEN [phase |-> "claimed", claim |-> row'[m].claim,
                     attempt |-> row'[m].attempts]
               ELSE NoTask]]
  /\ claims' = [m \in Messages |->
                  IF m \in batch THEN claims[m] + 1 ELSE claims[m]]
  /\ UNCHANGED <<receipt, recoveries, queueVars>>

ClaimPending(d) == \E batch \in SUBSET Messages : ClaimBatch(d, batch)

-----------------------------------------------------------------------------
PublishOptimistically(d, m) ==          \* mutant: a timeout counts as accepted
  /\ task[d][m].phase = "claimed"
  /\ task' = [task EXCEPT ![d][m].phase = "accepted"]
  /\ UNCHANGED <<dbVars, claims, queueVars>>

(* Dispatcher d publishes its claimed message m.  A failure says nothing    *)
(* certain about the Queue: a timeout, or a broken request the Queue had    *)
(* already taken, is a failure with the job enqueued.                       *)
Publish(d, m) ==
  /\ task[d][m].phase = "claimed"
  /\ \E outcome \in {"accepted", "rejected"}, enqueued \in BOOLEAN :
       /\ outcome = "accepted" => enqueued
       /\ task' = [task EXCEPT ![d][m].phase = outcome]
       /\ IF enqueued
          THEN /\ queue' = [queue EXCEPT ![m] = TRUE]
               /\ newestSent' = [newestSent EXCEPT ![m] =
                    IF task[d][m].claim > @ THEN task[d][m].claim ELSE @]
          ELSE UNCHANGED queueVars
  /\ UNCHANGED <<dbVars, claims>>

OwnsRow(d, m) ==                        \* mutant: does not compare claim ids
  row[m].status = "pending" /\ task[d][m].claim # NoClaim

(* The guard both transitions put on their UPDATE. *)
OwnsClaim(d, m) ==
  row[m].status = "pending" /\ row[m].claim = task[d][m].claim

Settle(d, m) == task' = [task EXCEPT ![d][m] = NoTask]

MarkPublished(d, m) ==
  /\ task[d][m].phase = "accepted"
  /\ IF OwnsClaim(d, m)
     THEN /\ row' = [row EXCEPT ![m].status = "published",
                                ![m].claim = NoClaim,
                                ![m].elapsed = FALSE]
          /\ Settle(d, m)
     ELSE /\ task' = [task EXCEPT ![d][m].phase = "resolving"]
          /\ UNCHANGED row
  /\ UNCHANGED <<receipt, recoveries, queueVars, claims>>

(* The last attempt fails the row for good; an earlier one delays it. *)
RecordPublicationFailure(d, m) ==
  /\ task[d][m].phase = "rejected"
  /\ IF OwnsClaim(d, m)
     THEN /\ row' = [row EXCEPT
               ![m].status = IF task[d][m].attempt >= MaxAttempts
                             THEN "failed" ELSE "pending",
               ![m].claim = NoClaim,
               ![m].elapsed = FALSE]
          /\ Settle(d, m)
     ELSE /\ task' = [task EXCEPT ![d][m].phase = "resolving"]
          /\ UNCHANGED row
  /\ UNCHANGED <<receipt, recoveries, queueVars, claims>>

(* An UPDATE that met no row reads the status in a second statement.  Any    *)
(* status but "published" is a conflict, which fails the whole invocation    *)
(* and interrupts its other messages.                                        *)
ResolveClaimTransition(d, m) ==
  /\ task[d][m].phase = "resolving"
  /\ IF row[m].status = "published"
     THEN Settle(d, m)
     ELSE task' = [task EXCEPT ![d] = Idle]
  /\ UNCHANGED <<dbVars, queueVars, claims>>

(* The invocation ends early: the Worker is evicted, or a database call      *)
(* fails and interrupts its siblings.                                        *)
AbortDispatch(d) ==
  /\ task[d] # Idle
  /\ task' = [task EXCEPT ![d] = Idle]
  /\ UNCHANGED <<dbVars, queueVars, claims>>

-----------------------------------------------------------------------------
(* The consumer of a job records its receipt once the handler is done; the  *)
(* row's status plays no part.  A repeated job finds the receipt there.     *)
RecordConsumption(m) ==
  /\ queue[m]
  /\ receipt' = [receipt EXCEPT ![m] = TRUE]
  /\ UNCHANGED <<row, recoveries, queueVars, task, claims>>

(* The last job for m leaves the Queue: acknowledged after its receipt or    *)
(* after a defect, dead-lettered after its last retry, or lost.              *)
SettleJob(m) ==
  /\ queue[m]
  /\ queue' = [queue EXCEPT ![m] = FALSE]
  /\ UNCHANGED <<dbVars, newestSent, task, claims>>

(* The operator reopens a failed row that no consumer has receipted. *)
RecoverFailedPublication(m) ==
  /\ row[m].status = "failed"
  /\ ~receipt[m]
  /\ recoveries[m] < MaxRecoveries
  /\ row' = [row EXCEPT ![m] =
               [status |-> "pending", attempts |-> 0,
                claim |-> NoClaim, elapsed |-> TRUE]]
  /\ recoveries' = [recoveries EXCEPT ![m] = @ + 1]
  /\ UNCHANGED <<receipt, queueVars, task, claims>>

-----------------------------------------------------------------------------
(* What an invocation does once its sweep is done. *)
Work(d) ==
  \/ ClaimPending(d)
  \/ AbortDispatch(d)
  \/ \E m \in Messages :
       \/ Publish(d, m)
       \/ MarkPublished(d, m)
       \/ RecordPublicationFailure(d, m)
       \/ ResolveClaimTransition(d, m)

Next ==
  \/ \E d \in Dispatchers : Sweep(d) \/ Work(d)
  \/ \E m \in Messages :
       \/ Enqueue(m)
       \/ TimerElapses(m)
       \/ RecordConsumption(m)
       \/ SettleJob(m)
       \/ RecoverFailedPublication(m)

Spec == Init /\ [][Next]_vars

-----------------------------------------------------------------------------
(* A failed row has spent its whole publication budget, even when the       *)
(* failure is recorded by a dispatcher whose lease ran out long ago.        *)
FailedSpentItsBudget ==
  \A m \in Messages : row[m].status = "failed" => row[m].attempts >= MaxAttempts

(* Crashes, expired leases and stalled consumers never buy a message more   *)
(* publications than its budget: each operator recovery grants exactly one  *)
(* budget more.                                                             *)
PublicationBudget ==
  \A m \in Messages :
    claims[m] <= MaxAttempts * (recoveries[m] + 1)

(* A row counts as published only on evidence: a receipt, or the Queue's    *)
(* acceptance of the job sent under the newest claim.  A dispatcher that    *)
(* lost its claim cannot publish the row for its successor.                 *)
PublishedOnEvidence ==
  \A m \in Messages :
    row[m].status = "published" => receipt[m] \/ newestSent[m] = claims[m]

(* At most one dispatcher invocation may write the outcome of a row. *)
ClaimIsExclusive ==
  \A m \in Messages : \A d, e \in Dispatchers :
    /\ HasClaimed(task[d][m]) /\ OwnsClaim(d, m)
    /\ HasClaimed(task[e][m]) /\ OwnsClaim(e, m)
    => d = e

(* A consumed message whose row a sweep, or its publisher, has put at       *)
(* "published" is settled for good: no invocation, however long under way,  *)
(* no receipt timeout and no operator opens or claims it again.             *)
ConsumedIsSettled ==
  [][\A m \in Messages :
       receipt[m] /\ row[m].status = "published"
         => row'[m].status = "published" /\ claims'[m] = claims[m]]_vars

(* The invocations that may still claim m: those between sweep and claim.  *)
(* None of them can once m is settled.                                      *)
Sweeping(m) == {d \in Dispatchers : task[d][m] = SweptTask}

Begun(m) == IF receipt[m] /\ row[m].status = "published"
            THEN 0 ELSE Cardinality(Sweeping(m))

(* The outbox keeps its promise to every message (OutboxPromise): consumed, *)
(* a message is tried only by invocations under way at that moment, each    *)
(* once at most.                                                            *)
Fate(m) == IF row[m].status = "absent" THEN "absent"
           ELSE IF receipt[m] THEN "consumed"
           ELSE IF row[m].status = "failed" THEN "given_up"
           ELSE "open"

Promise == INSTANCE OutboxPromise WITH
             fate <- [m \in Messages |-> Fate(m)],
             tries <- [m \in Messages |-> row[m].attempts],
             begun <- [m \in Messages |-> Begun(m)]

KeepsPromise == Promise!PromiseSpec

-----------------------------------------------------------------------------
(* Fairness.  Time passes; the cron trigger starts a dispatcher every ten    *)
(* minutes and its claim takes rows in the order they fell due, so a row     *)
(* that can be claimed again and again is claimed; an invocation, once       *)
(* started, ends each of its steps or is aborted.  Nothing is assumed of the *)
(* Queue, of the consumers, or of the operator.                              *)
ClaimIncluding(m) ==
  \E d \in Dispatchers, batch \in SUBSET Messages :
    m \in batch /\ ClaimBatch(d, batch)

Fairness ==
  /\ \A m \in Messages : WF_vars(TimerElapses(m))
  /\ \A m \in Messages : SF_vars(ClaimIncluding(m))
  /\ SF_vars(\E d \in Dispatchers : Sweep(d))
  /\ \A d \in Dispatchers : WF_vars(Work(d))

FairSpec == Spec /\ Fairness

(* No accepted message is stranded: whatever dispatchers crash and jobs are  *)
(* lost, its row ends up consumed and published, or failed and waiting for   *)
(* the operator.                                                             *)
NoMessageStranded ==
  \A m \in Messages :
    row[m].status = "pending"
      ~> \/ row[m].status = "published" /\ receipt[m]
         \/ row[m].status = "failed"

(* The row of a consumed message converges to "published", also when the     *)
(* receipt came after the row had failed.                                    *)
ConsumptionConverges ==
  \A m \in Messages : receipt[m] ~> [](row[m].status = "published")
=============================================================================
