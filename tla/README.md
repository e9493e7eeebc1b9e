# XpensGo in TLA+

Specifications of the durable core of XpensGo: how an accepted event or a requested Telegram
reply travels from a Postgres row through a Cloudflare Queue to the Bot API, and how a call to
a language model is paid for once from a monthly budget, whatever crashes, expires, gets lost or
is done twice.  Paths below are relative to the repository.

## 1. Inventory

XpensGo is a TypeScript monorepo (Effect) on Cloudflare Workers with a Postgres database.
`packages/domain` holds the workflows, `packages/adapters` the Postgres stores and the
provider clients, `apps/api` the Worker with its HTTP, Queue and cron entry points, and
`apps/web` the workspace UI.

| component | state it keeps | operations | hard behaviour |
|---|---|---|---|
| Outbox (`adapters/src/postgres/outbox-store.ts`, `domain/src/outbox/outbox-delivery.ts`) | `outbox_messages`, `outbox_message_receipts` | claim a batch, publish, mark published, record failure, record consumption, recover | leases, stale dispatchers, receipts at any time, publications of unknown outcome |
| Queue publication (`api/src/outbox-queue-publication.ts`, `adapters/src/cloudflare/`) | none | publish | a timeout after the job was taken |
| Queue consumer, cron (`api/src/index.ts`, `wrangler.jsonc`) | the Queue | receive, acknowledge, retry, dispatch | duplicates, dead letters, loss |
| Telegram delivery (`telegram-delivery-store.ts`, `deliver-telegram-reply.ts`) | `outbound_channel_messages`, `channel_delivery_attempts` | claim, send, complete | a call to a provider between two transactions |
| Bot API adapter (`adapters/src/telegram/bot-api.ts`) | none | send | answers that leave the outcome open |
| Delivery recovery (`telegram-delivery-recovery-store.ts`, `recover-telegram-delivery.ts`) | `telegram_delivery_recoveries` | prepare, publish, mark published | two runs, repeated keys, interrupted runs |
| Telegram ingress (`telegram-ingress-store.ts`) | `inbound_channel_events` | accept an update once | duplicate updates |
| Event processing (`telegram-event-processing-store.ts`, `process-telegram-event.ts`) | the event's claim, abuse windows, normalized commands | claim, enforce a limit, complete, release | leases; effects on Identity committed before completion |
| Identity (`identity-store.ts`, `identity.ts`) | users, ledgers, channel identities, challenges | create and consume link and unlink challenges | replays, concurrent consumption |
| Model operations (`model-operation-store.ts`, `model-operation.ts`) | `model_operations`, `model_attempts`, `model_budget_accounts` and alerts, `model_daily_dispatch_counters` | prepare, claim, complete, restart | concurrent reservations; leases shorter than an answer; retries; kill switch; month ends |
| Model gateway (`model-gateway.ts`, `openai-model-gateway.ts`) | none | one provider call | answers that leave open what was charged |
| Crypto, Better Auth, HTTP, web, platform status | none, or a library's | | |

They interact through the database and the Queue.  Ingress inserts an event with its outbox
row; the cron dispatcher publishes the row as a job; the consumer processes the event, which
inserts a reply with an outbox row of its own; that is published in turn, and the consumer
delivers the reply and writes a receipt.  A row published without a receipt for too long is
published again.  Two operator commands intervene: one reopens a failed outbox row, the other
a rejected reply.  Model operations stand beside this: their Queue message is sent by the caller
that prepared them, without an outbox row, and the same consumer executes it.

What makes each component correct:

- *Outbox*: one writer of a row's outcome at a time; no message beyond its publication budget;
  the status tells the truth; once a consumed message's row is published it is settled for good, and
  until then only invocations already under way may publish it again; nothing is stranded.
- *Delivery*: Telegram accepts a reply at most once; a retry follows only an explicit
  rejection; the recorded status is true of Telegram; the attempt ceiling holds.
- *Recovery*: a reopened reply costs no more than the ceiling; one recovery per rejection; the
  reopened reply is settled again.
- *Event processing*: one command and one reply per event; each event counted once.
- *Identity*: a challenge has one effect; a replayed command is answered as the first time.
- *Model operations*: the accounts equal the sum of the operations; nothing is reserved beyond
  a ceiling; what the provider charges is on the books; one billable call per request; settled once;
  no operation is left open.

## 2. Modules

| module | what it is |
|---|---|
| `Outbox` | rows, dispatcher invocations, Queue jobs and receipts |
| `OutboxPromise` | abstract: what the outbox promises for a message |
| `OutboxProofs` | TLAPS proofs about `Outbox` |
| `TelegramDelivery` | replies, attempts, consumers, recovery runs, and what Telegram saw |
| `HonestReply` | abstract: what a reply's status promises about Telegram |
| `TelegramDeliveryProofs` | TLAPS proofs about `TelegramDelivery` |
| `ReplyPipeline` | delivery driven by an outbox row and Queue jobs (EXTENDS `TelegramDelivery`) |
| `ReplyPipelineProofs` | TLAPS proofs about `ReplyPipeline` |
| `Identity` | linked accounts, their history, and the challenges that link and unlink them |
| `Ownership` | abstract: an account belongs to one user at most |
| `IdentityProofs` | TLAPS proofs about `Identity` |
| `TelegramProcessing` | runs that decide an accepted event (EXTENDS `Identity`) |
| `TelegramProcessingProofs` | TLAPS proofs about `TelegramProcessing` (EXTENDS `IdentityProofs`) |
| `ModelOperations` | operations, attempts, budget accounts, Workers, their wake-ups, and what the provider charged |
| `BudgetLedger` | abstract: monthly budgets with a ceiling, thresholds that are told, and a kill switch |
| `SetSums` | lemmas about sums over finite sets (`MapThenSumSet`), with TLAPS proofs |
| `ModelOperationsProofs` | TLAPS proofs about `ModelOperations` |
| `MCOutbox`, `MCTelegramDelivery`, `MCIdentity`, `MCTelegramProcessing`, `MCModelOperations` | symmetry sets, calendars, a later initial state and a constraint for TLC |

Operators marked `\* mutant` are plausible bugs of the definition that follows them.  No
specification uses them: each property is seen to fail when one takes its definition's place.

### Outbox

`row[m]` is the row of message `m`; `elapsed` stands for its three timestamps
(`leased_until`, `next_publish_attempt_at`, publication time plus receipt timeout).  A row
waits for exactly one of them at any moment, and they are compared only with the database's
current time, so letting that moment pass at any time (`TimerElapses`) covers every duration.
`task[d][m]` holds what invocation `d` remembers about the message it claimed: the claim's id
and the attempt number returned by the claim.  Claim ids are random UUIDs: per row they are
numbered.

- `claimPending` is one READ COMMITTED transaction of four statements, each with a snapshot of its
  own, and two actions here.  `Sweep` is statements 1 to 3 (`Reconciled`, `Requeued`, `Exhausted`):
  they change a row once at most, under its lock, and judge it by itself and its receipt, so a
  receipt that commits between them has the effect of one that commits before or after all
  three.  `ClaimBatch` is statement 4, whose candidates never look at receipts: a message that
  was receipted after the sweep is claimed and published all the same.  `SweptTask` stands for an
  invocation between the two.
- A sweep becomes visible with its transaction's commit; here it is visible at once, which is the
  same as another invocation that swept and claimed nothing.  `CURRENT_TIMESTAMP` is the
  transaction's start, so a timer that elapses after a sweep does not count for that
  invocation's claim: `TimerElapses(m)` takes `m` out of the swept rows.  `SKIP LOCKED` and `LIMIT`
  make any small enough set of claimable rows a possible batch.
- `markPublished` and `recordPublicationFailure` are an UPDATE guarded by status and claim id.
  When it meets no row a second SELECT decides between silence and a conflict: a separate
  step (`ResolveClaimTransition`), since the row may change in between.  A conflict fails the
  `Effect.forEach` and interrupts the other messages of the batch.
- `Publish` has three outcomes: accepted, failed without a job, failed with a job.  The last
  one covers timeouts.  A job that appears late is a job delivered late.
- `RecordConsumption` needs a job in the Queue, not a particular row status: the receipt is an
  independent insert.  A job may be received again after its receipt.
- `recoverFailedPublication` is guarded by status `failed` and by the absence of a receipt.

### TelegramDelivery

An attempt's id is fresh and its number unique per reply, so the number stands for the id.
The lease is written by the database's clock and compared with a Worker's, read before the
row's lock was obtained; therefore `leaseOver` may become true at any time, and a consumer may
still see a live lease afterwards (`ClaimDeferred` is always possible).  `calls` is what
Telegram saw; no action of the program reads it.  `Answers` relates what `send` returns to
what Telegram did: a network error, a timeout or an undecodable success is `outcome_unknown`
with either truth; 429, 5xx and explicit errors are rejections.  The latter is an assumption
about Telegram that the program makes too, and the theorems below are relative to it.

`completeAttempt` checks status and claim, not the lease: a late answer counts when nobody has
settled the reply in the meantime, and is a retryable failure otherwise.  It may commit and
its answer be lost.

The recovery workflow's `prepare` reads its key without a lock and then locks the reply: two
runs with the same key may both see no recovery.  `ReopenReply` is the remainder of the
transaction; the second insert meets the primary key and the transaction aborts.  A refusal
leaves no trace but the end of the run (`OperatorStops`).

### ReplyPipeline

`processOutboxJob` delivers, then writes the receipt; a deferred delivery is retried by the
Queue, which may dead-letter it (there is no consumer of the dead-letter queue).  The outbox is
taken at the level of `OutboxPromise`, with the Queue job as a side effect of a try:
`OutboxKeepsPromise` says that the real one does no more than that.  This half is an assumption of
the composition, and no property here is about it.  `DispatchLate` is the try of a consumed row by
an invocation that had swept before the receipt; only the publication budget bounds it here.
Dispatcher leases, claims and operator reopening of an outbox row are thus left to `Outbox`; the
pipeline adds the relation between receipts and reply status, which neither part can state alone.

### Identity

Every operation is one transaction that locks the rows it decides about: a link challenge is
locked `FOR UPDATE` and the insertion is decided by the unique index of active identities; an
unlink challenge is locked together with its target.  Each is therefore one action that also
yields the store's answer.  (A link whose insertion met an active identity that is unlinked
before the transaction looks it up again fails and rolls back: an unavailable store.)
Identities are numbered in the order of insertion, which lets properties compare ages.
An expired challenge may still be taken for a live one by a Worker whose clock is behind.
`Ownership` is what remains without challenges: an account goes from nobody to a user and
from a user to nobody.

### TelegramProcessing

A run of `processTelegramEvent` is a sequence of transactions: claim, resolve the actor or
consume a challenge, enforce the user's limit, complete; `worker[c]` is where consumer `c`'s
run stands and the locals it carries from one transaction to the next (the resolved actor, the reply it
is going to record).  Each transaction is an action, and anything may happen in between:
other runs, other events of the account, the web surface issuing challenges.

- `enforceUserLimit` and `complete` demand the run's own claim, `release` does nothing without
  it; consuming a challenge demands no claim, so a run that outlived its lease still has its
  effect on Identity.
- A window is full or not at any time: the verdict is a choice, made once and stored.
- The table allows one reply per event; `Complete` has that guard besides the claim.
- A challenge in an event was issued before: tokens are random.
- Faults are an eviction, a store that fails (with its commit done or not), and a run
  overtaken by its lease's expiry; `MaxFaults` bounds their number.  The expiry of a lease
  that an evicted run left behind is no fault.
- `history` is read by the properties only.

### ModelOperations

`operation[o]`, `attempt[o][n]`, `account[s][m]` and `counter[u][d]` are the rows of the four
tables; `worker[w]` is a run of `executePreparedModelOperation` after its claim was granted;
`message[o]` is the Queue message; `bill[o]` is what the provider saw and charged, which no
action of the program reads.

| code | action |
|---|---|
| `prepare` | `Prepare` |
| `claim`: expired lease | `ClaimExpired` |
| `claim`: deadline, dispatch limit, kill switch, daily limit | `ClaimRejected` |
| `claim`: granted | `ClaimGranted` |
| the gateway's `execute` | `ProviderAnswers` |
| `complete`: transient 429 within the deadline | `CompleteScheduling` |
| `complete`: anything else of the current attempt | `CompleteSettling` |
| `complete`: an attempt settled by somebody else | `CompleteLate` |
| `restart` | `Restart` |
| the consumer's `ack` and `retry` | `Acknowledge`, `AlreadyCompleted` |

- Each operation of the store is one transaction: it locks the operation's row `FOR UPDATE`, and
  both accounts in a fixed order when it reserves.  (`claim` locks the account `FOR SHARE` and
  releases afterwards; two such transactions may deadlock, and PostgreSQL aborts one: an
  unavailable store, after which the message is delivered again.)  Answers that change no row
  are no actions: duplicates, input conflicts, refused reservations, deferred claims.
- Prepared rows are read with the transaction's start as the current time, so a claim that
  waited for a lock may judge by a stale clock.  `late` and `due` may turn true at any time
  after the row allows it, hence any later action covers it.  Only the date is taken to be
  the current one: a transaction that begins before midnight and commits after one that began
  later is left out.
- The lease (30 s) outlasts every registered deadline (4 to 10 s), so it ends after the
  deadline; a retry is scheduled only if it fits the deadline, so it is due by then.
- Deadlines bound the call by the SDK's timeouts, but the answer may be late, by the network or by
  a Worker that was suspended: `ProviderAnswers` is possible after the lease has ended.
- `Kinds` are the failures of the gateway up to what the store does with them.  A refusal, a
  truncation or undecodable output is billed although the adapter reports no usage; an
  `outcome_unknown` may have been.  That a 429, a 402 and other 4xx cost nothing is an
  assumption, made by the program too.
- The adapter's provider is the operation's: both come from one setting of the deployment.
  Deterministic operations are the ones outside `Metered`; they reserve and count nothing.
- `RetryLimit` and `RestartLimit` are literal types in the code (1), `DailyLimit` is 20.
- Thresholds and kill switch are evaluated only by a transaction that reserves, for the month
  it reserves in, and nothing disengages the switch.
- A message is delivered again until it is acknowledged or dead-lettered; that it is sent twice, or
  received by several Workers at once, only adds wake-ups, which `WakeUp` allows at any
  time.  A caller that dies before sending it is a message that is dead at once.  Nothing else
  drives an operation: its message lost, it stays open with its reservation held
  (`SPEC.md:640` speaks of a reconciler, see section 6).
- A defect, as opposed to a failure, acknowledges the message.  Defects are not modelled.

Nothing bounds a cost by its reservation: `complete` settles what the adapter computed, uncapped, and
the registered maxima (`model-operation.ts:36-82`) are exactly the input bytes and the output tokens
at the token prices, with nothing for the instructions and the schema that are sent along.
`Costs` and `Prices` are therefore unrelated sets.  `ChargesCovered` says what the books hold: all that
was charged, or, of a call that cost more and whose cost the adapter did not learn, the
reservation; a success is settled at exactly what it cost.

`BudgetLedger` is what a reader of the accounts may rely on.  A reservation is made only if it fits
the limit together with all that is held and spent, tells every threshold it reaches, and is not
made for a closed scope; a settlement or a release takes something out of what is held, and only then
may something be spent.  The load may pass the limit by what settlements exceed their
reservations; from then on nothing more is reserved that month.

## 3. Runs

| run | instance | question |
|---|---|---|
| `outbox` | 1 row, 3 invocations, 2 attempts, 2 recoveries | safety of rows and claims; every step is one the promise allows |
| `outbox_liveness` | 2 rows, 2 overlapping invocations, batches of 2, fair | one writer though batches overlap and conflicts interrupt siblings; nothing stranded; receipts win |
| `telegram_delivery` | 1 reply, 3 consumers, 2 runs, 2 keys, 3 attempts | at most once, ceiling, honesty |
| `reply_pipeline` | 1 reply, 2 consumers, 2 attempts, 2 publications, 2 jobs, 1 recovery run, fair | receipts mean settled; every reply is settled, reopened by an operator, or fails visibly |
| `recovered_reply` | 1 consumer, 2 keys, fair | expected to fail, see section 6 |
| `identity` | 2 users, 2 accounts, 4 challenges, 3 identities | one use, no takeover, history stays |
| `telegram_processing` | 2 events, 2 consumers, 2 accounts, 2 challenges, 2 faults | one true decision per event |
| `event_decision` | 2 events, 1 account, 1 challenge, 1 fault, fair | every event is decided |
| `unlink_answer` | 2 events, 1 account, 2 challenges, 1 fault | expected to fail, see section 6 |
| `model_operations` | 3 operations, 2 users, 2 Workers, 2 dispatches, 1 month, costs above prices | budgets, bills, attempts, restarts under races |
| `model_months` | 2 operations, 1 user, 1 Worker, 2 months, fair | accounts balance, dispatches are counted by day, every operation ends |
| `model_answer` | a metered and a free operation, 2 Workers | expected to fail, see section 6 |

Bounds.  Rows interact only through the batch of one claim and the interruption of a batch,
hence two rows in `outbox_liveness`, where two invocations claim both: when one loses a row to the
other, the conflict ends its work on its second row too.  There the second row (`Delayed`) has one
attempt behind it and waits for its last, which puts a row with budget beside one without
(`LaterInit`, a state that `Spec` reaches); no operator reopens anything.  One contended row
suffices for `outbox`.  Replies interact through nothing but the consumers, hence one.  Three
invocations make one stale writer, its successor, and another claimant of the same row; three
consumers likewise.  `MaxAttempts` is 2 in the outbox (5 in the code), which has a first, a last
and an exhausted attempt; the delivery runs use the code's 3.  `MaxRecoveries` bounds the
operator, `MaxJobs` the copies of a job that wait at once in the pipeline.  In `Outbox`, `queue`
says whether any job for the message is left: a repeated one changes nothing more.
The proofs drop all of these bounds.
Linking, unlinking and linking again takes three challenges, a further one may arrive late:
hence four in `identity`.  In the processing runs, two events are one that moves the account and
one that is processed meanwhile; two faults are an overtaken run and a lost answer.

In `model_operations` a profile reserves 1 and a call costs 2 or nothing, so a settlement takes
more than was held.  Beside one settled call, two reservations reach the environment's ceiling of 4 and
engage the kill switch, and their settlements pass it; the users' ceiling of 3 is passed by two calls
of a user and refuses a third.  Three operations are also a request, its restart, and a restart of that restart,
which must be refused.  Two Workers are a late one and its successor; two dispatches make a retry.
The constraint `MessagesStay` leaves out acknowledged and dead messages: a message only guards the
wake-ups of its operation, so without it fewer steps are possible, none new.  In
`model_months` a profile reserves 2 and a call costs 1, so a settlement frees budget; both ceilings
are 4, and two days that end a month each let a release, a settlement, a restart or a retry fall into
the month and the day after its reservation.  Two dispatches and a daily limit of 2 exhaust a day.
The free operation is in `model_answer` only; the proofs cover both kinds.

Deadlock is checked for the outbox and the delivery.  It is switched off elsewhere: every job may
be gone, every event decided and every token spent.

## 4. Fairness

- `TimerElapses`, `LeaseExpires`: clocks advance.
- `SF` of some `Sweep(d)`: the cron trigger starts an invocation every ten minutes
  (`wrangler.jsonc`), also when others were evicted.
- `SF(ClaimIncluding(m))`: the candidates are ordered by due time, so a row that keeps being
  claimable after sweeps is claimed though the batch is bounded.
- `WF(Work(d))`: an invocation that swept claims, perhaps nothing, or is aborted.
- each invocation and each consumer ends the step it is at, be it by an eviction: Workers have
  bounded run time.  Evictions are never ruled out.
- `WF(DispatchReply \/ GiveUp)`: the outbox's own liveness, checked in `outbox_liveness`.
- the Queue hands over a job that it keeps holding.  It may lose it at any time.
- `SF(TakesUp(e))`: an undecided event has no receipt, so outbox and Queue keep bringing its
  job, among the jobs of other events, to some consumer.  That the outbox may give up after its
  budget is left to `outbox_liveness`.  Faults are finitely many.
- `WF(DeadlinePasses)`, `WF(TimerElapses)`, `WF(Proceeds(w))`: clocks and runs, as above.
- `SF(WakeUp(o))`: the Queue delivers a message again until it is acknowledged or moved to the
  dead letters (`DeadLetter`, possible at any time); between two deliveries a Worker may be busy
  with other messages, hence strong.
- nothing is assumed of the operator starting a run, or of publications succeeding.

## 5. Proofs

`OutboxProofs`, `TelegramDeliveryProofs`, `ReplyPipelineProofs`, `ModelOperationsProofs`,
`IdentityProofs` and `TelegramProcessingProofs` hold for any number of rows, dispatchers, replies,
consumers, operators, keys, attempts and batch sizes, of model operations, users, Workers, prices,
days and months, and of accounts, identities, challenges, events and faults.  Every safety property
that a passing run checks is also a theorem; the three that a run refutes are in section 6.  The
proofs assume what the modules declare: `BoundsAssumption` (positive limits, finitely many rows, used for
`Cardinality`, and finitely many dispatchers, which bound the tries begun), `DeliveryAssumption`
(a positive ceiling, null values outside the sets), `PipelineAssumption`, `ModelAssumption` and
`IdentityAssumption`.

*Outbox.*  The inductive invariant adds to the types: attempts never exceed the maximum; a
row's claim is empty or not newer than the newest claim; two invocations never hold the same claim of a
row; a task carries the attempt number of its claim, so that a failure recorded by
the owner with the last attempt is the row's last; an accepted task's claim is not newer than
the newest claim the Queue took; and claims plus unused attempts stay within the budgets
granted.  None of the properties is inductive alone: exclusivity needs freshness of claim ids,
`FailedSpentItsBudget` needs the agreement between a task's attempt and the row's.  From it follow types,
budget, evidence, exclusivity, and two results about receipts.  `ConsumedStaysSettled` proves the action
property `ConsumedIsSettled`: a consumed message whose row is published is neither opened nor claimed
again, by an invocation that swept long ago either, since statement 4 does look at the status.
`OutboxKeepsPromise` is the refinement, proved step by step: each action maps each message to a step of
the promise or to a stutter.  The promise lets a consumed message be tried by tries that were `begun`
before its receipt, at most one for each invocation then between sweep and claim.  `Begun` counts
these, and counts none once the row is settled; the proof needs that a consumed row is never put
back to be claimed, so that every sweep that begins after the receipt settles it first.

*Delivery.*  The core of the invariant relates `calls` to the attempts: the calls made are at
most the attempts numbered, minus those still held by a consumer about to send; a call was
accepted only under the newest attempt, and as long as that attempt is open the consumer that
holds its answer is the only one.  An expired attempt becomes `outcome_unknown`, a terminal status without recovery: so a late call of
its consumer is still the only accepted one.  From it follow at most once, the ceiling, no
blind retry, and the refinement of `HonestReply`.
`RecoveryPerRejection` has an invariant of its own, `PaidInv`: a rejected reply below
its ceiling has one rejection to spare (`Owed`), and any reply has at least as many as it has
recoveries.  A rejection gains the spare one, a reopening spends it on its recovery, and nothing
else changes either count.

*Pipeline.*  Every pipeline step is a delivery step (`PipelineDelivers`), which hands all
delivery theorems to the pipeline.  `ReceiptsMeanSettled` needs one more fact, that a
finished consumer's reply is settled or was reopened, with its stability under all
steps.  `DispatchLate` publishes a job for a reply that is already
settled, or reopened: neither disturbs that fact.

*Model operations.*  `CoreInv` is types, `RowsInv` (the attempts agree with the row, a charge is
covered in the sense of `ChargesCovered`, a success is settled at its cost, and before its last attempt
an operation has been billed nothing), `CallersInv` (a Worker between claim and completion holds the
newest attempt of an operation that is dispatched or was settled as unknown, and its answer, its cost
and the bill belong together) and `OneCaller` (no two Workers are at one operation at a time).  The
heart is that an attempt whose bill is not settled is either the current one of a dispatched
operation, or ended as `outcome_unknown` with the reservation kept: so whatever was charged, or
the reservation the call was made under, is on the books at any moment; and since nothing is
dispatched after such an end, no second call is bought.  No bound on costs is assumed.
`DispatchesCounted` is proved by induction over steps with the cardinality of the dispatches of a
day; the refinement `AccountsKeepLedger` adds that what settles or releases something leaves a
reservation behind, and that the environment's kill switch is on once its 100 % have been told.

`AccountsAreSums` proves that each account is a sum over operations.  `RowMoves` shows that a step
changes one operation at most, and each account by exactly what this operation holds more or less
in it: a release is taken from the month and the scopes that were charged, and at most once,
because an operation that may still settle has a reservation.  `SetSums` shows what that does to a
sum.  `MapThenSumSet` is a recursive function over the subsets of a set; that its recursion
equation has a solution, that solutions agree, and that the order in which `CHOOSE` takes elements is
irrelevant are each proved from a smallest counterexample among the subsets, which exists since
strict inclusion of finite sets is well founded (`WFMin`).  No finiteness of `Operations` is
assumed: that only finitely many were inserted is part of the invariant `BalanceInv`.

*Identity.*  `IInv` adds to the types that rows are inserted in order, that a challenge which
moved an identity is spent and names that identity's user (and, for an unlinking, the identity),
and that no two identities were linked by one challenge or are active for one account.  Each step is
first classified by what it does to the rows: a challenge is issued, expires or is spent
without effect, an identity is gained, or one is lost.  `OneUse`, `HistoryStays` and the refinement
`KeepsOwnership` follow from the classification.  Uniqueness needs the pair of facts: a link
is gained only by an open challenge, and every challenge that moved a row is no longer open.

*Event processing.*  Every step of a run is a step of `Identity` or leaves it alone
(`ProcessingIsIdentity`), so challenges have one use and ownership is kept under overlapping and
interrupted runs too.  The rest is about runs that read Identity in one transaction and record
their answer in another.  `PInv` says of each event what its history knows of its account
(`AcceptedInv`): the identity it had when the event was accepted, and any identity the event
itself linked or unlinked; of each reply that its answer is true (`TrueAnswer`); and of each run, per phase,
what its locals are worth (`RunInv`): an actor it carries is its account's identity of then or
a newer one, an answer it is about to record is true already.  Those statements survive the steps
of all other runs because Identity only grows (`Grown`): a row keeps its account for ever, an unlinked row stays
unlinked, a spent challenge stays spent.  A run that lost its claim keeps true locals, but may
decide nothing: completion demands the claim, which is also why decisions are final and
replies single.  The windows are counted once because the verdict is stored with the count, and a
later claim finds it.

Model-checked only: liveness (`NoMessageStranded`, `ConsumptionConverges`,
`EveryReplyLeftToSomeone`, `EveryEventDecided`, `EveryOperationEnds`), since neither fairness nor
`ENABLED` is within TLAPS's reach.

## 6. Disagreements with the documents and tests

`recovered_reply` finds a reply that stays pending for ever.  Telegram rejects it; the
consumer records the rejection and writes the receipt; the operator's recovery reopens the
reply, publishes its job and marks the recovery published; the job is lost or dead-lettered.
From then on nothing moves the reply: its outbox row is published and receipted, hence
never claimed again; the
same key answers "already published"; another key is refused, because the reply is not a
terminal failure.  `SPEC.md:640` asks for a reconciler of requests "that were published but
remain non-terminal beyond their expected time"; none looks at replies.

`unlink_answer` finds an event that unlinks an account and tells its user that the unlinking was
rejected.  A run's lease (60 s) expires before it consumes the challenge; its successor
resolves the account as still linked; the first run unlinks it; the successor meets a used
challenge, and since it had an actor, records `already_used`.  The first run's completion
fails for want of its claim.  The test `process-telegram-event.test.ts:240` "converges replay after
unlink consumption on successful unlink state" covers the replay that resolves after the
unlinking only.  `LinkEffectAnswered`, the counterpart for linking, holds: there the account is
resolved after the used challenge was met.

`model_answer` finds a wake-up that reports a success for an operation whose outcome is unknown.
Its provider call outlives the lease; the next wake-up settles the operation as
`outcome_unknown` and keeps the reservation; then the first call succeeds, `complete` answers
with the stored completion, and `executePreparedModelOperation` ignores that answer and returns
`Succeeded` with an output that is stored nowhere.  Both failure branches return the stored
completion, and `SPEC.md:537` says that concurrent claims "return or converge on durable state".

`SPEC.md:640` also bears on model operations.  An operation whose message is dead-lettered, or
was never sent, stays prepared or dispatched for ever and keeps its share of the month's budget;
`EveryOperationEnds` therefore allows a dead message as an end.

## 7. Not modelled, and the plan

Not modelled for good: parsing, rendering and encoding of messages, HTTP and web, telemetry,
Better Auth's sessions, cryptography, the predecessors (`xpensego`, `cloudflare-worker`, the
waitlist), scripts and CI: they keep no state of the core, or it belongs to a library.

Planned, in this order:

1. The first-session provisioning of a user, and the issuance limit of challenges.
2. Pure operators: `retryDelaySeconds`, `queueRetryDelaySeconds`, cost estimates, against
   reference definitions.
