---------------------------- MODULE ModelOperations ----------------------------
(***************************************************************************)
(* Durable model operations: packages/domain/src/model/model-operation.ts  *)
(* over packages/adapters/src/postgres/model-operation-store.ts.           *)
(*                                                                         *)
(* A caller reserves an operation's maximum cost in the accounts of the    *)
(* environment and of its user, and sends a Queue message for it.  The     *)
(* Queue delivers that message again and again, to several consumers at    *)
(* once if it likes, until one acknowledges it or it is dead-lettered.  A  *)
(* consumer that claims the operation calls the provider outside any       *)
(* transaction and settles the reservation with what it was answered.      *)
(* Each operation of the store is one transaction under the lock of the    *)
(* operation's row and, when it reserves, of both accounts: hence one      *)
(* action.  Answers that change no row and no message (duplicate,          *)
(* conflict, refusal, deferral) are no actions.                            *)
(***************************************************************************)
EXTENDS Integers, FiniteSets, FiniteSetsExt

CONSTANTS
  Operations, NoOperation,
  Metered,              \* operations whose provider is openai; others are free
  Users, Environment,   \* the scopes that hold a budget
  Workers,              \* executions of a Queue wake-up
  Prices,               \* maximum costs of the registered profiles
  Costs,                \* costs the provider may charge, above a price too
  EnvironmentCeiling, UserCeiling, DailyLimit, MaxDispatches,
  MaxDay, Month         \* bound: days; Month[d] is the month of day d

ASSUME ModelAssumption ==
  /\ NoOperation \notin Operations /\ Metered \subseteq Operations
  /\ Environment \notin Users
  /\ Prices \subseteq Nat \ {0} /\ Costs \subseteq Nat
  /\ EnvironmentCeiling \in Nat \ {0} /\ UserCeiling \in Nat \ {0}
  /\ DailyLimit \in Nat \ {0} /\ MaxDispatches \in Nat \ {0}
  /\ MaxDay \in Nat \ {0} /\ Month \in [1..MaxDay -> Nat]

VARIABLES
  today,       \* CURRENT_DATE
  operation,   \* model_operations
  attempt,     \* model_attempts
  account,     \* model_budget_accounts, with model_budget_alert_events
  counter,     \* model_daily_dispatch_counters
  worker,      \* runs of executePreparedModelOperation
  message,     \* the operation's Queue message
  bill         \* what the provider was asked and charged, and the reservation
               \* the call was made under; no action reads it

books == <<operation, attempt, account, counter>>
vars == <<today, books, worker, message, bill>>

RetryLimit == 1
RestartLimit == 1
Thresholds == {50, 80, 90, 100}

Days == 1..MaxDay
Months == {Month[d] : d \in Days}
Now == Month[today]
Scopes == Users \cup {Environment}
Ceiling(s) == IF s = Environment THEN EnvironmentCeiling ELSE UserCeiling

NoAttempt == 0
Ordinals == 1..MaxDispatches

Terminal == {"succeeded", "explicitly_rejected", "invalid_output", "outcome_unknown"}

(* due: the lease or the retry delay is over; late: the deadline has passed. *)
Operation ==
  [status : {"absent", "prepared", "dispatched", "retry_scheduled"} \cup Terminal,
   user : Scopes, root : Operations, source : Operations \cup {NoOperation},
   month : Nat, reserved : Nat, settled : Nat,
   dispatches : 0..MaxDispatches, retries : 0..RetryLimit,
   current : 0..MaxDispatches, due : BOOLEAN, late : BOOLEAN]

Attempt == [status : {"absent", "dispatched", "completed"},
            disposition : {"none"} \cup Terminal, day : 0..MaxDay]

Account == [reserved : Int, settled : Int, alerts : SUBSET Thresholds,
            kill : {"off", "on"}]

(* What a provider call came to, as the gateway reports it. *)
Reported == {"stop", "invalid_date"}
Unbilled == {"rate_limited", "rejected"}
Kinds == Reported \cup Unbilled \cup {"refused", "unreadable", "lost"}

Worker == [phase : {"idle", "calling", "answered", "returned"},
           operation : Operations \cup {NoOperation}, attempt : 0..MaxDispatches,
           retry : BOOLEAN, answer : {"none"} \cup Kinds, cost : Nat,
           outcome : {"none", "succeeded", "failed", "retry_scheduled"}]

Bill == [purchases : Nat, charged : Nat, price : Nat]
Free == [purchases |-> 0, charged |-> 0, price |-> 0]

(* Types, with the tables' checks: exactly a dispatched operation has a      *)
(* claim, and retries and dispatches stay within the persisted grants.       *)
ModelTypeOK ==
  /\ today \in Days
  /\ operation \in [Operations -> Operation]
  /\ \A o \in Operations :
       operation[o].current # NoAttempt <=> operation[o].status = "dispatched"
  /\ attempt \in [Operations -> [Ordinals -> Attempt]]
  /\ account \in [Scopes -> [Months -> Account]]
  /\ counter \in [Users -> [Days -> 0..DailyLimit]]
  /\ worker \in [Workers -> Worker]
  /\ message \in [Operations -> {"none", "queued", "acknowledged", "dead"}]
  /\ bill \in [Operations -> Bill]

AbsentOperation(o) ==
  [status |-> "absent", user |-> Environment, root |-> o, source |-> NoOperation,
   month |-> 0, reserved |-> 0, settled |-> 0, dispatches |-> 0, retries |-> 0,
   current |-> NoAttempt, due |-> FALSE, late |-> FALSE]
AbsentAttempt == [status |-> "absent", disposition |-> "none", day |-> 0]
NewAccount == [reserved |-> 0, settled |-> 0, alerts |-> {}, kill |-> "off"]
Idle == [phase |-> "idle", operation |-> NoOperation, attempt |-> NoAttempt,
         retry |-> FALSE, answer |-> "none", cost |-> 0, outcome |-> "none"]

Init ==
  /\ today = 1
  /\ operation = [o \in Operations |-> AbsentOperation(o)]
  /\ attempt = [o \in Operations |-> [n \in Ordinals |-> AbsentAttempt]]
  /\ account = [s \in Scopes |-> [m \in Months |-> NewAccount]]
  /\ counter = [u \in Users |-> [d \in Days |-> 0]]
  /\ worker = [w \in Workers |-> Idle]
  /\ message = [o \in Operations |-> "none"]
  /\ bill = [o \in Operations |-> Free]

-----------------------------------------------------------------------------
(* The budget accounts. *)
Load(a) == a.reserved + a.settled

Reached(s, load) == {t \in Thresholds : load * 100 >= Ceiling(s) * t}

AddedQuietly(s, a, price) ==            \* mutant: thresholds are not recorded
  [a EXCEPT !.reserved = @ + price]

(* recordBudgetThresholds runs in every transaction that reserves; only the  *)
(* environment has a kill switch, which nothing disengages.                  *)
Added(s, a, price) ==
  LET reached == Reached(s, Load(a) + price) IN
    [reserved |-> a.reserved + price, settled |-> a.settled,
     alerts |-> a.alerts \cup reached,
     kill |-> IF s = Environment /\ 100 \in reached THEN "on" ELSE a.kill]

Fits(u, price) ==
  /\ account[Environment][Now].kill = "off"
  /\ \A s \in {Environment, u} : Load(account[s][Now]) + price <= Ceiling(s)

Reserve(u, price) ==
  /\ Fits(u, price)
  /\ account' = [s \in Scopes |->
       IF s \in {Environment, u}
         THEN [account[s] EXCEPT ![Now] = Added(s, @, price)]
         ELSE account[s]]

Relieved(a, reservation, settlement) ==
  [reserved |-> a.reserved - reservation, settled |-> a.settled + settlement,
   alerts |-> a.alerts, kill |-> a.kill]

ReleaseToday(o, settlement) ==          \* mutant: in the accounts of this month
  account' = [s \in Scopes |->
    IF o \in Metered /\ s \in {Environment, operation[o].user}
      THEN [account[s] EXCEPT ![Now] = Relieved(@, operation[o].reserved, settlement)]
      ELSE account[s]]

(* releaseReservation, in the accounts of the month that was reserved from;  *)
(* a free operation has none.                                                *)
Release(o, settlement) ==
  account' = [s \in Scopes |->
    IF o \in Metered /\ operation[o].reserved # 0
         /\ s \in {Environment, operation[o].user}
      THEN [account[s] EXCEPT ![operation[o].month] =
              Relieved(@, operation[o].reserved, settlement)]
      ELSE account[s]]

(* The caller sends a message for the operation it prepared; that it may do  *)
(* so again only repeats deliveries.                                         *)
Inserted(o, u, price, root, source) ==
  /\ operation' = [operation EXCEPT ![o] =
       [AbsentOperation(o) EXCEPT
          !.status = "prepared", !.user = u, !.root = root, !.source = source,
          !.month = Now, !.reserved = IF o \in Metered THEN price ELSE 0]]
  /\ message' = [message EXCEPT ![o] = "queued"]

(* prepare.  An id that exists already changes nothing; nor does a refusal. *)
Prepare(o, u, price) ==
  /\ operation[o].status = "absent"
  /\ IF o \in Metered THEN Reserve(u, price) ELSE UNCHANGED account
  /\ Inserted(o, u, price, o, NoOperation)
  /\ UNCHANGED <<today, attempt, counter, worker, bill>>

Restarted(root) ==
  {p \in Operations : operation[p].source # NoOperation /\ operation[p].root = root}

RestartableOnceEach(o) ==               \* mutant: the grant is each operation's
  /\ operation[o].status = "outcome_unknown"
  /\ Cardinality({p \in Operations : operation[p].source = o}) < RestartLimit

(* The grant is the lineage's, not the operation's. *)
Restartable(o) ==
  /\ operation[o].status = "outcome_unknown"
  /\ Cardinality(Restarted(operation[o].root)) < RestartLimit

(* restart of o as p: the source keeps its reservation and the new operation *)
(* makes one of the same size, in the current month.                         *)
Restart(o, p) ==
  /\ operation[p].status = "absent" /\ (p \in Metered <=> o \in Metered)
  /\ Restartable(o)
  /\ IF o \in Metered /\ operation[o].reserved # 0
       THEN Reserve(operation[o].user, operation[o].reserved)
       ELSE UNCHANGED account
  /\ Inserted(p, operation[o].user, operation[o].reserved, operation[o].root, o)
  /\ UNCHANGED <<today, attempt, counter, worker, bill>>

-----------------------------------------------------------------------------
(* Time.  A lease of 30 seconds outlasts every registered deadline, and a    *)
(* retry is scheduled within the deadline.                                   *)
DeadlinePasses(o) ==
  /\ operation[o].status \in {"prepared", "dispatched", "retry_scheduled"}
  /\ ~operation[o].late
  /\ operation' = [operation EXCEPT ![o].late = TRUE,
                                    ![o].due = @ \/ operation[o].status = "retry_scheduled"]
  /\ UNCHANGED <<today, attempt, account, counter, worker, message, bill>>

TimerElapses(o) ==
  /\ \/ operation[o].status = "dispatched" /\ operation[o].late
     \/ operation[o].status = "retry_scheduled"
  /\ ~operation[o].due
  /\ operation' = [operation EXCEPT ![o].due = TRUE]
  /\ UNCHANGED <<today, attempt, account, counter, worker, message, bill>>

DayPasses ==
  /\ today < MaxDay
  /\ today' = today + 1
  /\ UNCHANGED <<books, worker, message, bill>>

-----------------------------------------------------------------------------
(* claim *)
Claimable(o) ==
  \/ operation[o].status = "prepared"
  \/ operation[o].status = "retry_scheduled" /\ operation[o].due

Exhausted(o) ==
  o \in Metered /\ counter[operation[o].user][today] >= DailyLimit

Killed(o) == o \in Metered /\ account[Environment][operation[o].month].kill = "on"

Undispatchable(o) ==
  operation[o].late \/ operation[o].dispatches >= MaxDispatches
    \/ Killed(o) \/ Exhausted(o)

SettledKeepingClaim(o, status, reserved, settlement) ==  \* mutant: claim kept
  operation' = [operation EXCEPT
    ![o].status = status, ![o].due = FALSE,
    ![o].reserved = reserved, ![o].settled = @ + settlement]

Settled(o, status, reserved, settlement) ==
  operation' = [operation EXCEPT
    ![o].status = status, ![o].current = NoAttempt, ![o].due = FALSE,
    ![o].reserved = reserved, ![o].settled = @ + settlement]

(* An operation that may not be dispatched any more gives its money back. *)
ClaimRejected(o) ==
  /\ Claimable(o) /\ Undispatchable(o)
  /\ Release(o, 0)
  /\ Settled(o, "explicitly_rejected", 0, 0)
  /\ UNCHANGED <<today, attempt, counter, worker, message, bill>>

Closed(o, n, disposition) ==
  attempt' = [attempt EXCEPT ![o][n].status = "completed",
                             ![o][n].disposition = disposition]

ClaimExpiredForRetry(o) ==              \* mutant: an expired lease is taken over
  /\ operation[o].status = "dispatched" /\ operation[o].due
  /\ operation' = [operation EXCEPT ![o].status = "prepared",
                     ![o].current = NoAttempt, ![o].due = FALSE, ![o].late = FALSE]
  /\ Closed(o, operation[o].current, "outcome_unknown")
  /\ UNCHANGED <<today, account, counter, worker, message, bill>>

(* Nobody settled the attempt within its lease: its outcome is unknown, and  *)
(* its reservation stays.                                                    *)
ClaimExpired(o) ==
  /\ operation[o].status = "dispatched" /\ operation[o].due
  /\ Closed(o, operation[o].current, "outcome_unknown")
  /\ Settled(o, "outcome_unknown", operation[o].reserved, 0)
  /\ UNCHANGED <<today, account, counter, worker, message, bill>>

CountedFirst(o) ==                       \* mutant: a retry is not counted
  IF o \in Metered /\ operation[o].dispatches = 0
    THEN [counter EXCEPT ![operation[o].user][today] = @ + 1] ELSE counter

Counted(o) ==
  IF o \in Metered
    THEN [counter EXCEPT ![operation[o].user][today] = @ + 1] ELSE counter

ClaimGranted(w, o) ==
  LET n == operation[o].dispatches + 1 IN
    /\ worker[w].phase = "idle"
    /\ Claimable(o) /\ ~Undispatchable(o)
    /\ operation' = [operation EXCEPT
         ![o].status = "dispatched", ![o].current = n, ![o].dispatches = n,
         ![o].due = FALSE]
    /\ attempt' = [attempt EXCEPT ![o][n] =
         [status |-> "dispatched", disposition |-> "none", day |-> today]]
    /\ counter' = Counted(o)
    /\ worker' = [worker EXCEPT ![w] =
         [Idle EXCEPT !.phase = "calling", !.operation = o, !.attempt = n,
                      !.retry = operation[o].retries < RetryLimit]]
    /\ UNCHANGED <<today, account, message, bill>>

-----------------------------------------------------------------------------
(* The provider's answer and what it charges: a call that was refused, cut   *)
(* off or undecodable is charged though no cost is reported; one that was    *)
(* lost on the way may have been.  That quota errors, explicit rejections    *)
(* and rate limits are free is an assumption about the provider.             *)
Charges(kind) ==
  CASE kind \in Unbilled -> {0}
    [] kind = "lost" -> Costs \cup {0}
    [] OTHER -> Costs

ProviderAnswers(w) ==
  LET o == worker[w].operation IN
    /\ worker[w].phase = "calling"
    /\ \E kind \in Kinds : \E cost \in Charges(kind) :
         /\ worker' = [worker EXCEPT
              ![w].phase = "answered", ![w].answer = kind,
              ![w].cost = IF kind \in Reported THEN cost ELSE 0]
         /\ bill' = [bill EXCEPT ![o] =
              [purchases |-> @.purchases + IF kind \in Unbilled THEN 0 ELSE 1,
               charged |-> @.charged + cost,
               price |-> operation[o].reserved]]
    /\ UNCHANGED <<today, books, message>>

Disposition(kind) ==
  CASE kind = "stop" -> "succeeded"
    [] kind \in {"invalid_date", "unreadable"} -> "invalid_output"
    [] kind = "lost" -> "outcome_unknown"
    [] OTHER -> "explicitly_rejected"

Outcome(kind) == IF kind = "stop" THEN "succeeded" ELSE "failed"

Leaves(w) == worker' = [worker EXCEPT ![w] = Idle]

(* complete has committed; its answer may be lost on the way. *)
Returns(w, outcome) ==
  \/ worker' = [worker EXCEPT ![w].phase = "returned", ![w].outcome = outcome]
  \/ Leaves(w)

HoldsOperation(w) ==                    \* mutant: whoever comes settles
  worker[w].phase = "answered"

HoldsAttempt(w) ==
  LET o == worker[w].operation IN
    /\ worker[w].phase = "answered"
    /\ operation[o].status = "dispatched"
    /\ operation[o].current = worker[w].attempt

(* A short transient rate limit, once, if its delay fits the deadline. *)
CompleteScheduling(w) ==
  LET o == worker[w].operation IN
    /\ HoldsAttempt(w)
    /\ worker[w].answer = "rate_limited" /\ worker[w].retry /\ ~operation[o].late
    /\ Closed(o, worker[w].attempt, "explicitly_rejected")
    /\ operation' = [operation EXCEPT
         ![o].status = "retry_scheduled", ![o].current = NoAttempt,
         ![o].due = FALSE, ![o].retries = @ + 1]
    /\ Returns(w, "retry_scheduled")
    /\ UNCHANGED <<today, account, counter, message, bill>>

SettlementIfReported(w) ==              \* mutant: only reported costs are settled
  IF worker[w].answer \in Reported THEN worker[w].cost ELSE 0

Settlement(w) ==
  CASE worker[w].answer \in Reported -> worker[w].cost
    [] worker[w].answer \in {"refused", "unreadable"} ->
         operation[worker[w].operation].reserved
    [] OTHER -> 0

CompleteSettling(w) ==
  LET o == worker[w].operation
      disposition == Disposition(worker[w].answer)
  IN
    /\ HoldsAttempt(w)
    /\ Closed(o, worker[w].attempt, disposition)
    /\ IF disposition = "outcome_unknown"
         THEN /\ UNCHANGED account
              /\ Settled(o, disposition, operation[o].reserved, 0)
         ELSE /\ Release(o, Settlement(w))
              /\ Settled(o, disposition, 0, Settlement(w))
    /\ Returns(w, Outcome(worker[w].answer))
    /\ UNCHANGED <<today, counter, message, bill>>

(* The attempt was settled by somebody else: complete answers with the       *)
(* stored completion, which executePreparedModelOperation ignores when it    *)
(* holds a successful result.                                                *)
CompleteLate(w) ==
  /\ worker[w].phase = "answered"
  /\ operation[worker[w].operation].status \in Terminal
  /\ Returns(w, Outcome(worker[w].answer))
  /\ UNCHANGED <<today, books, message, bill>>

AcknowledgeAlways(w) ==                 \* mutant: a scheduled retry as well
  /\ worker[w].phase = "returned"
  /\ message' = [message EXCEPT ![worker[w].operation] = "acknowledged"]
  /\ Leaves(w)
  /\ UNCHANGED <<today, books, bill>>

(* The consumer acknowledges the message, or has it delivered again when a   *)
(* retry was scheduled.                                                      *)
Acknowledge(w) ==
  /\ worker[w].phase = "returned"
  /\ IF worker[w].outcome = "retry_scheduled"
       THEN UNCHANGED message
       ELSE message' = [message EXCEPT ![worker[w].operation] = "acknowledged"]
  /\ Leaves(w)
  /\ UNCHANGED <<today, books, bill>>

(* An evicted Worker, or a store that is not available. *)
Fails(w) ==
  /\ worker[w].phase \in {"calling", "answered"}
  /\ Leaves(w)
  /\ UNCHANGED <<today, books, message, bill>>

-----------------------------------------------------------------------------
Proceeds(w) ==
  \/ ProviderAnswers(w) \/ CompleteScheduling(w) \/ CompleteSettling(w)
  \/ CompleteLate(w) \/ Acknowledge(w) \/ Fails(w)

(* A delivery that finds the operation settled is acknowledged. *)
AlreadyCompleted(o) ==
  /\ operation[o].status \in Terminal
  /\ message' = [message EXCEPT ![o] = "acknowledged"]
  /\ UNCHANGED <<today, books, worker, bill>>

(* The message's last delivery, or the end of its retention, or a caller that *)
(* never gets to send it.                                                    *)
DeadLetter(o) ==
  /\ message[o] = "queued" /\ operation[o].status \notin Terminal
  /\ message' = [message EXCEPT ![o] = "dead"]
  /\ UNCHANGED <<today, books, worker, bill>>

WakeUp(o) ==
  /\ message[o] = "queued"
  /\ \/ ClaimRejected(o) \/ ClaimExpired(o) \/ AlreadyCompleted(o)
     \/ \E w \in Workers : ClaimGranted(w, o)

Next ==
  \/ DayPasses
  \/ \E o \in Operations :
       \/ \E u \in Users, price \in Prices : Prepare(o, u, price)
       \/ \E p \in Operations : Restart(o, p)
       \/ DeadlinePasses(o) \/ TimerElapses(o)
       \/ WakeUp(o) \/ DeadLetter(o)
  \/ \E w \in Workers : Proceeds(w)

Spec == Init /\ [][Next]_vars

(* Clocks advance and runs end; the Queue delivers a message that is neither *)
(* acknowledged nor dead-lettered again, to some Worker.                     *)
Fairness ==
  /\ \A o \in Operations :
       WF_vars(DeadlinePasses(o)) /\ WF_vars(TimerElapses(o)) /\ SF_vars(WakeUp(o))
  /\ \A w \in Workers : WF_vars(Proceeds(w))

FairSpec == Spec /\ Fairness

-----------------------------------------------------------------------------
(* Every account is the sum of what its operations of that month hold        *)
(* reserved and have settled, whatever was reserved, released and settled    *)
(* concurrently.                                                             *)
Holders(s, m) ==
  {o \in Metered : /\ operation[o].status # "absent" /\ operation[o].month = m
                   /\ s \in {Environment, operation[o].user}}

AccountsBalance ==
  \A s \in Scopes, m \in Months :
    /\ account[s][m].reserved =
         MapThenSumSet(LAMBDA o : operation[o].reserved, Holders(s, m))
    /\ account[s][m].settled =
         MapThenSumSet(LAMBDA o : operation[o].settled, Holders(s, m))

(* Each scope's account is a monthly budget: whatever calls have cost, a     *)
(* reservation is made only within the ceiling and before the environment's  *)
(* kill switch engaged, tells the thresholds it reaches, and nothing is      *)
(* spent but out of a reservation, by retries, late settlements or restarts  *)
(* either.                                                                   *)
Ledger == INSTANCE BudgetLedger WITH
  Limit <- [s \in Scopes |-> Ceiling(s)], Closing <- {Environment},
  held <- [s \in Scopes |-> [m \in Months |-> account[s][m].reserved]],
  spent <- [s \in Scopes |-> [m \in Months |-> account[s][m].settled]],
  told <- [s \in Scopes |-> [m \in Months |-> account[s][m].alerts]]

KeepsLedger == Ledger!LedgerSpec

(* What the provider has charged is held against the budget at any moment,   *)
(* whichever answers were lost, late or unreadable: all of it, or, of a call *)
(* that cost more than was reserved for it and whose cost is not known (yet), *)
(* the whole reservation.  A success is settled at its cost, whatever it is. *)
ChargesCovered ==
  \A o \in Metered :
    LET booked == operation[o].reserved + operation[o].settled IN
      /\ bill[o].charged <= booked \/ bill[o].price <= booked
      /\ operation[o].status = "succeeded" => operation[o].settled = bill[o].charged

(* However often consumers are woken, one request buys at most one call      *)
(* that may be billed, and one more for its explicit restart.                *)
PurchasesBounded ==
  \A o \in Operations :
    /\ bill[o].purchases <= 1
    /\ Cardinality(Restarted(o)) <= RestartLimit

(* A settled operation and its attempts stay as they were settled, and an    *)
(* unknown outcome keeps its reservation, whatever arrives late.             *)
OutcomeIsFinal ==
  [][\A o \in Operations :
       operation[o].status \in Terminal =>
         operation'[o] = operation[o] /\ attempt'[o] = attempt[o]]_vars

(* The attempts tell the operation's story: the newest one is open exactly   *)
(* while the operation is dispatched and otherwise ended as the operation    *)
(* did; each earlier one was an explicit rejection.                          *)
AttemptsAgree ==
  \A o \in Operations, n \in Ordinals :
    LET a == attempt[o][n] IN
      /\ a.status = "absent" <=> n > operation[o].dispatches
      /\ a.status = "dispatched" <=> n = operation[o].current
      /\ n < operation[o].dispatches => a.disposition = "explicitly_rejected"
      /\ n = operation[o].dispatches /\ operation[o].status \in Terminal =>
           a.disposition = operation[o].status

(* Every dispatch to the provider is counted, retries included, and no user  *)
(* causes more of them in a day than the limit.                              *)
Dispatched(u, d) ==
  {on \in Metered \X Ordinals :
     operation[on[1]].user = u /\ attempt[on[1]][on[2]].day = d}

DispatchesCounted ==
  \A u \in Users, d \in Days : Cardinality(Dispatched(u, d)) = counter[u][d]

(* An operation whose message the Queue has taken is settled in the end, or  *)
(* its message is found among the dead letters, however its calls end.       *)
EveryOperationEnds ==
  \A o \in Operations :
    message[o] = "queued" ~> operation[o].status \in Terminal \/ message[o] = "dead"

(* The outcome that a run returns is the durable one. *)
SuccessIsDurable ==
  \A w \in Workers :
    worker[w].outcome = "succeeded" =>
      operation[worker[w].operation].status = "succeeded"
===============================================================================
