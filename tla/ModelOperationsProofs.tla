------------------------ MODULE ModelOperationsProofs ------------------------
(***************************************************************************)
(* Proofs about ModelOperations, for any sets of operations, users and     *)
(* workers, any prices, ceilings and limits.                               *)
(*                                                                         *)
(* The inductive invariant says of an operation what its row holds against *)
(* the provider's bill (RowInv) and what its attempts tell (AttemptsInv);  *)
(* of a worker between claim and complete, that its attempt is the newest  *)
(* one of an operation that nobody settled behind its back except as       *)
(* unknown, and what its answer cost (CallInv); and that an operation has  *)
(* one such worker at most.  The accounts are related to the operations by *)
(* BalanceInv: a step moves one row at most (RowMove), and the sums of the *)
(* accounts with it; what a sum is, SetSums shows.                         *)
(***************************************************************************)
EXTENDS ModelOperations, SetSums

Unbought(b) == b.purchases = 0 /\ b.charged = 0

Covered(q, b) ==
  LET booked == q.reserved + q.settled IN b.charged <= booked \/ b.price <= booked

RowInv(o, q, b) ==
  /\ q.status # "absent" => q.user \in Users
  /\ q.status \in {"absent", "prepared"} => q.dispatches = 0
  /\ q.current = IF q.status = "dispatched" THEN q.dispatches ELSE NoAttempt
  /\ q.status = "dispatched" => q.dispatches # 0
  /\ q.status \in {"absent", "prepared", "retry_scheduled"} => Unbought(b)
  /\ b.purchases <= 1
  /\ q.status \in {"prepared", "dispatched", "retry_scheduled"} => q.settled = 0
  /\ q.status = "succeeded" => q.settled = b.charged
  /\ o \in Metered =>
       /\ Covered(q, b)
       /\ q.status \in {"prepared", "dispatched", "retry_scheduled", "outcome_unknown"}
            => q.reserved \in Prices

AttemptsInv(q, ledger) ==
  \A n \in Ordinals :
    /\ ledger[n].status = "absent" <=> n > q.dispatches
    /\ ledger[n].status = "dispatched" <=> n = q.current
    /\ n < q.dispatches => ledger[n].disposition = "explicitly_rejected"
    /\ n = q.dispatches /\ q.status = "retry_scheduled"
         => ledger[n].disposition = "explicitly_rejected"
    /\ n = q.dispatches /\ q.status \in Terminal
         => ledger[n].disposition = q.status
    /\ ledger[n].status = "absent" => ledger[n].day = 0

Calling(t) == t.phase \in {"calling", "answered"}

(* t is a worker's record, q and b the operation it calls for and its bill. *)
CallInv(t, q, b) ==
  /\ t.attempt = q.dispatches
  /\ q.status \in {"dispatched", "outcome_unknown"}
  /\ t.retry => q.retries < RetryLimit
  /\ t.phase = "calling" => Unbought(b)
  /\ t.phase = "answered" =>
       /\ t.answer \in Kinds
       /\ t.answer \in Unbilled => Unbought(b)
       /\ t.answer \in Reported => b.charged = t.cost

RowsInv ==
  \A o \in Operations :
    RowInv(o, operation[o], bill[o]) /\ AttemptsInv(operation[o], attempt[o])

CallersInv ==
  \A w \in Workers : Calling(worker[w]) =>
    /\ worker[w].operation \in Operations
    /\ CallInv(worker[w], operation[worker[w].operation], bill[worker[w].operation])

OneCaller ==
  \A v, w \in Workers :
    /\ Calling(worker[v]) /\ Calling(worker[w])
    /\ worker[v].operation = worker[w].operation
    => v = w

CoreInv == ModelTypeOK /\ RowsInv /\ CallersInv /\ OneCaller

-----------------------------------------------------------------------------
(* A step that concerns one operation o keeps the invariant if o's row,     *)
(* attempts and bill still agree and o still has one caller at most.        *)
LEMMA LocalStep ==
  ASSUME NEW o \in Operations, CoreInv, ModelTypeOK',
         \A p \in Operations : p # o =>
           /\ operation'[p] = operation[p]
           /\ attempt'[p] = attempt[p]
           /\ bill'[p] = bill[p],
         RowInv(o, operation'[o], bill'[o]),
         AttemptsInv(operation'[o], attempt'[o]),
         \A v \in Workers :
           Calling(worker'[v]) /\ worker'[v].operation # o => worker'[v] = worker[v],
         \A v \in Workers :
           Calling(worker'[v]) /\ worker'[v].operation = o
             => CallInv(worker'[v], operation'[o], bill'[o]),
         \A v, w \in Workers :
           /\ Calling(worker'[v]) /\ worker'[v].operation = o
           /\ Calling(worker'[w]) /\ worker'[w].operation = o
           => v = w
  PROVE  CoreInv'
<1>1. RowsInv'
  <2> SUFFICES ASSUME NEW p \in Operations
               PROVE  RowInv(p, operation'[p], bill'[p])
                        /\ AttemptsInv(operation'[p], attempt'[p])
    BY DEF RowsInv
  <2> QED
    BY DEF CoreInv, RowsInv
<1>2. CallersInv'
  <2> SUFFICES ASSUME NEW v \in Workers, Calling(worker'[v])
               PROVE  /\ worker'[v].operation \in Operations
                      /\ CallInv(worker'[v], operation'[worker'[v].operation],
                                 bill'[worker'[v].operation])
    BY DEF CallersInv
  <2>1. CASE worker'[v].operation = o
    BY <2>1
  <2>2. CASE worker'[v].operation # o
    BY <2>2 DEF CoreInv, CallersInv
  <2> QED
    BY <2>1, <2>2
<1>3. OneCaller'
  <2> SUFFICES ASSUME NEW v \in Workers, NEW w \in Workers,
                      Calling(worker'[v]), Calling(worker'[w]),
                      worker'[v].operation = worker'[w].operation
               PROVE  v = w
    BY DEF OneCaller
  <2>1. CASE worker'[v].operation = o
    BY <2>1
  <2>2. CASE worker'[v].operation # o
    BY <2>2 DEF CoreInv, OneCaller
  <2> QED
    BY <2>1, <2>2
<1> QED
  BY <1>1, <1>2, <1>3 DEF CoreInv

(* So does a worker that stops calling, whatever else it does.              *)
LEMMA WorkerRests ==
  ASSUME CoreInv, NEW w \in Workers, NEW t \in Worker, ~Calling(t),
         worker' = [worker EXCEPT ![w] = t],
         message' \in [Operations -> {"none", "queued", "acknowledged", "dead"}],
         UNCHANGED <<today, books, bill>>
  PROVE  CoreInv'
<1>1. ModelTypeOK'
  BY DEF CoreInv, ModelTypeOK, books
<1>2. \A v \in Workers : Calling(worker'[v]) => worker'[v] = worker[v]
  BY DEF CoreInv, ModelTypeOK
<1>3. RowsInv'
  BY DEF CoreInv, RowsInv, books
<1>4. CallersInv'
  BY <1>2 DEF CoreInv, CallersInv, books
<1>5. OneCaller'
  BY <1>2 DEF CoreInv, OneCaller
<1> QED
  BY <1>1, <1>3, <1>4, <1>5 DEF CoreInv

LEMMA IdleIsWorker ==
  Idle \in Worker /\ ~Calling(Idle)
BY ModelAssumption DEF Idle, Worker, Calling, NoAttempt

-----------------------------------------------------------------------------
(* What the accounts are updated by.                                        *)
LEMMA AddedIsAccount ==
  ASSUME NEW s, NEW a \in Account, NEW price \in Nat
  PROVE  /\ Added(s, a, price) \in Account
         /\ Load(a) \in Int
         /\ Load(Added(s, a, price)) = Load(a) + price
         /\ Added(s, a, price).alerts = a.alerts \cup Reached(s, Load(a) + price)
         /\ s = Environment /\ 100 \in Added(s, a, price).alerts
              => Added(s, a, price).kill = "on" \/ 100 \in a.alerts
         /\ a.kill = "on" => Added(s, a, price).kill = "on"
<1>1. /\ a.reserved \in Int /\ a.settled \in Int
      /\ a.alerts \in SUBSET Thresholds /\ a.kill \in {"off", "on"}
  BY DEF Account
<1>2. Reached(s, Load(a) + price) \subseteq Thresholds
  BY DEF Reached
<1>3. Load(a) \in Int
  BY <1>1 DEF Load
<1>4. Load(Added(s, a, price)) = Load(a) + price
  BY <1>1 DEF Added, Load
<1>5. Added(s, a, price) \in Account
  BY <1>1, <1>2 DEF Added, Account
<1> QED
  BY <1>3, <1>4, <1>5 DEF Added

LEMMA RelievedIsAccount ==
  ASSUME NEW a \in Account, NEW reservation \in Nat, NEW settlement \in Nat
  PROVE  /\ Relieved(a, reservation, settlement) \in Account
         /\ Load(a) \in Int
         /\ Load(Relieved(a, reservation, settlement)) =
              Load(a) + settlement - reservation
         /\ Relieved(a, reservation, settlement).alerts = a.alerts
         /\ Relieved(a, reservation, settlement).kill = a.kill
<1>1. a \in [reserved : Int, settled : Int, alerts : SUBSET Thresholds,
             kill : {"off", "on"}]
  BY DEF Account
<1>2. Load(a) \in Int
  BY <1>1 DEF Load
<1>3. Relieved(a, reservation, settlement) \in Account
  BY <1>1 DEF Relieved, Account
<1>4. Load(Relieved(a, reservation, settlement)) = Load(a) + settlement - reservation
  BY <1>1 DEF Relieved, Load
<1> QED
  BY <1>1, <1>2, <1>3, <1>4 DEF Relieved

LEMMA NowIsMonth ==
  ASSUME ModelTypeOK
  PROVE  Now \in Months /\ Now \in Nat
BY ModelAssumption DEF ModelTypeOK, Now, Months, Days

LEMMA ReserveType ==
  ASSUME ModelTypeOK, NEW u \in Users, NEW price \in Nat, Reserve(u, price)
  PROVE  account' \in [Scopes -> [Months -> Account]]
<1> SUFFICES ASSUME NEW s \in Scopes
             PROVE  account'[s] \in [Months -> Account]
  BY DEF Reserve
<1>1. account[s] \in [Months -> Account]
  BY DEF ModelTypeOK
<1>2. Added(s, account[s][Now], price) \in Account
  BY <1>1, NowIsMonth, AddedIsAccount
<1>3. account'[s] \in {account[s], [account[s] EXCEPT ![Now] = Added(s, @, price)]}
  BY DEF Reserve
<1> QED
  BY <1>1, <1>2, <1>3

LEMMA ReleaseType ==
  ASSUME ModelTypeOK, NEW o \in Operations, NEW settlement \in Nat,
         Release(o, settlement)
  PROVE  account' \in [Scopes -> [Months -> Account]]
<1> SUFFICES ASSUME NEW s \in Scopes
             PROVE  account'[s] \in [Months -> Account]
  BY DEF Release
<1>1. account[s] \in [Months -> Account]
  BY DEF ModelTypeOK
<1>2. operation[o].reserved \in Nat
  BY DEF ModelTypeOK, Operation
<1>3. CASE account'[s] = account[s]
  BY <1>1, <1>3
<1>4. CASE account'[s] = [account[s] EXCEPT ![operation[o].month] =
                            Relieved(@, operation[o].reserved, settlement)]
  <2>1. CASE operation[o].month \in Months
    <3>1. Relieved(account[s][operation[o].month], operation[o].reserved, settlement)
            \in Account
      BY <1>1, <1>2, <2>1, RelievedIsAccount
    <3> QED
      BY <1>1, <1>4, <3>1
  <2>2. CASE operation[o].month \notin Months
    BY <1>1, <1>4, <2>2
  <2> QED
    BY <2>1, <2>2
<1> QED
  BY <1>3, <1>4 DEF Release

-----------------------------------------------------------------------------
(* What the invariant says of one operation, one worker.                    *)
LEMMA OperationFacts ==
  ASSUME CoreInv, NEW o \in Operations
  PROVE  /\ operation[o] \in Operation
         /\ attempt[o] \in [Ordinals -> Attempt]
         /\ bill[o] \in Bill
         /\ RowInv(o, operation[o], bill[o])
         /\ AttemptsInv(operation[o], attempt[o])
BY DEF CoreInv, ModelTypeOK, RowsInv

LEMMA CallerFacts ==
  ASSUME CoreInv, NEW w \in Workers, Calling(worker[w])
  PROVE  /\ worker[w] \in Worker
         /\ worker[w].operation \in Operations
         /\ CallInv(worker[w], operation[worker[w].operation],
                    bill[worker[w].operation])
BY DEF CoreInv, ModelTypeOK, CallersInv

(* Nobody calls for an operation that is neither dispatched nor unknown.    *)
LEMMA NoCaller ==
  ASSUME CoreInv, NEW o \in Operations,
         operation[o].status \notin {"dispatched", "outcome_unknown"}
  PROVE  \A w \in Workers : Calling(worker[w]) => worker[w].operation # o
BY CallerFacts DEF CallInv

LEMMA InsertedKeeps ==
  ASSUME CoreInv, NEW o \in Operations, operation[o].status = "absent",
         NEW u \in Users, NEW price \in Nat, o \in Metered => price \in Prices,
         NEW root \in Operations, NEW source \in Operations \cup {NoOperation},
         Inserted(o, u, price, root, source),
         account' \in [Scopes -> [Months -> Account]],
         UNCHANGED <<today, attempt, counter, worker, bill>>
  PROVE  CoreInv'
<1> DEFINE q == [AbsentOperation(o) EXCEPT
       !.status = "prepared", !.user = u, !.root = root, !.source = source,
       !.month = Now, !.reserved = IF o \in Metered THEN price ELSE 0]
<1>1. operation' = [operation EXCEPT ![o] = q]
  BY DEF Inserted
<1>2. /\ q.status = "prepared" /\ q.user = u /\ q.dispatches = 0
      /\ q.current = 0 /\ q.settled = 0
      /\ q.reserved = IF o \in Metered THEN price ELSE 0
  BY DEF AbsentOperation, NoAttempt
<1>3. Now \in Nat
  BY NowIsMonth DEF CoreInv
<1>4. q \in Operation
  <2>1. AbsentOperation(o) \in Operation
    BY ModelAssumption DEF Operation, AbsentOperation, Scopes, RetryLimit, NoAttempt
  <2> QED
    BY <1>3, <2>1 DEF Operation, Scopes
<1>5. operation'[o] = q /\ \A p \in Operations : p # o => operation'[p] = operation[p]
  BY <1>1 DEF CoreInv, ModelTypeOK
<1>6. ModelTypeOK'
  BY <1>1, <1>2, <1>4, <1>5 DEF CoreInv, ModelTypeOK, Inserted, NoAttempt
<1> HIDE DEF q
<1>7. /\ operation[o].dispatches = 0 /\ operation[o].current = 0
      /\ operation[o].status = "absent" /\ Unbought(bill[o])
  BY OperationFacts DEF RowInv, NoAttempt
<1>8. RowInv(o, operation'[o], bill'[o])
  BY <1>2, <1>5, <1>7 DEF RowInv, Covered, Unbought, NoAttempt
<1>9. AttemptsInv(operation'[o], attempt'[o])
  BY <1>2, <1>5, <1>7, OperationFacts DEF AttemptsInv, Terminal
<1> QED
  BY <1>5, <1>6, <1>8, <1>9, NoCaller, LocalStep

LEMMA PrepareKeeps ==
  ASSUME CoreInv, NEW o \in Operations, NEW u \in Users, NEW price \in Prices,
         Prepare(o, u, price)
  PROVE  CoreInv'
<1>1. price \in Nat
  BY ModelAssumption
<1>2. account' \in [Scopes -> [Months -> Account]]
  BY <1>1, ReserveType DEF CoreInv, ModelTypeOK, Prepare
<1> QED
  BY <1>1, <1>2, InsertedKeeps DEF Prepare

LEMMA RestartKeeps ==
  ASSUME CoreInv, NEW o \in Operations, NEW p \in Operations, Restart(o, p)
  PROVE  CoreInv'
<1>1. /\ operation[o].status = "outcome_unknown"
      /\ operation[o].reserved \in Nat /\ operation[o].user \in Users
      /\ operation[o].root \in Operations
      /\ o \in Metered => operation[o].reserved \in Prices
  BY OperationFacts DEF Restart, Restartable, RowInv, Operation
<1>2. account' \in [Scopes -> [Months -> Account]]
  BY <1>1, ReserveType DEF CoreInv, ModelTypeOK, Restart
<1> QED
  BY <1>1, <1>2, InsertedKeeps DEF Restart

-----------------------------------------------------------------------------
(* A step of a clock changes none of what the invariant speaks of.          *)
LEMMA ClockKeeps ==
  ASSUME CoreInv, NEW o \in Operations, NEW q \in Operation,
         q.status = operation[o].status, q.user = operation[o].user,
         q.reserved = operation[o].reserved, q.settled = operation[o].settled,
         q.dispatches = operation[o].dispatches, q.retries = operation[o].retries,
         q.current = operation[o].current,
         operation' = [operation EXCEPT ![o] = q],
         UNCHANGED <<today, attempt, account, counter, worker, message, bill>>
  PROVE  CoreInv'
<1>1. operation'[o] = q /\ \A p \in Operations : p # o => operation'[p] = operation[p]
  BY DEF CoreInv, ModelTypeOK
<1>2. ModelTypeOK'
  BY <1>1 DEF CoreInv, ModelTypeOK
<1>3. RowInv(o, operation'[o], bill'[o])
  BY <1>1, OperationFacts DEF RowInv, Covered
<1>4. AttemptsInv(operation'[o], attempt'[o])
  BY <1>1, OperationFacts DEF AttemptsInv
<1>5. \A v \in Workers : Calling(worker'[v]) /\ worker'[v].operation = o
        => CallInv(worker'[v], operation'[o], bill'[o])
  BY <1>1, CallerFacts DEF CallInv
<1>6. OneCaller
  BY DEF CoreInv
<1> QED
  BY <1>1, <1>2, <1>3, <1>4, <1>5, <1>6, LocalStep DEF OneCaller

LEMMA DeadlinePassesKeeps ==
  ASSUME CoreInv, NEW o \in Operations, DeadlinePasses(o)
  PROVE  CoreInv'
<1> DEFINE q == [operation[o] EXCEPT !.late = TRUE,
                   !.due = @ \/ operation[o].status = "retry_scheduled"]
<1>1. operation[o] \in Operation
  BY OperationFacts
<1>2. q \in Operation
  BY <1>1 DEF Operation
<1>3. operation' = [operation EXCEPT ![o] = q]
  BY DEF DeadlinePasses
<1>4. /\ q.status = operation[o].status /\ q.user = operation[o].user
      /\ q.reserved = operation[o].reserved /\ q.settled = operation[o].settled
      /\ q.dispatches = operation[o].dispatches /\ q.retries = operation[o].retries
      /\ q.current = operation[o].current
  BY <1>1 DEF Operation
<1> HIDE DEF q
<1> QED
  BY <1>2, <1>3, <1>4, ClockKeeps DEF DeadlinePasses

LEMMA TimerElapsesKeeps ==
  ASSUME CoreInv, NEW o \in Operations, TimerElapses(o)
  PROVE  CoreInv'
<1> DEFINE q == [operation[o] EXCEPT !.due = TRUE]
<1>1. operation[o] \in Operation
  BY OperationFacts
<1>2. q \in Operation
  BY <1>1 DEF Operation
<1>3. operation' = [operation EXCEPT ![o] = q]
  BY DEF TimerElapses
<1>4. /\ q.status = operation[o].status /\ q.user = operation[o].user
      /\ q.reserved = operation[o].reserved /\ q.settled = operation[o].settled
      /\ q.dispatches = operation[o].dispatches /\ q.retries = operation[o].retries
      /\ q.current = operation[o].current
  BY <1>1 DEF Operation
<1> HIDE DEF q
<1> QED
  BY <1>2, <1>3, <1>4, ClockKeeps DEF TimerElapses

LEMMA DayPassesKeeps ==
  ASSUME CoreInv, DayPasses
  PROVE  CoreInv'
<1>1. today' \in Days
  BY ModelAssumption DEF CoreInv, ModelTypeOK, DayPasses, Days
<1>2. ModelTypeOK'
  BY <1>1 DEF CoreInv, ModelTypeOK, DayPasses, books
<1> QED
  BY <1>2 DEF CoreInv, RowsInv, CallersInv, OneCaller, DayPasses, books

-----------------------------------------------------------------------------
(* A settled row: nothing is owed to the provider beyond what it holds.     *)
LEMMA SettledRow ==
  ASSUME CoreInv, NEW o \in Operations, NEW status \in Terminal,
         NEW reserved \in Nat, NEW settlement \in Nat,
         operation[o].status # "absent", Settled(o, status, reserved, settlement)
  PROVE  /\ operation'[o] \in Operation
         /\ operation'[o].status = status /\ operation'[o].user = operation[o].user
         /\ operation'[o].reserved = reserved
         /\ operation'[o].settled = operation[o].settled + settlement
         /\ operation'[o].dispatches = operation[o].dispatches
         /\ operation'[o].retries = operation[o].retries
         /\ operation'[o].current = 0
         /\ \A p \in Operations : p # o => operation'[p] = operation[p]
         /\ operation' \in [Operations -> Operation]
<1> DEFINE q == [operation[o] EXCEPT
    !.status = status, !.current = NoAttempt, !.due = FALSE,
    !.reserved = reserved, !.settled = @ + settlement]
<1>1. operation[o] \in Operation /\ operation \in [Operations -> Operation]
  BY DEF CoreInv, ModelTypeOK
<1>2. operation' = [operation EXCEPT ![o] = q]
  BY DEF Settled
<1>3. q \in Operation
  <2>1. operation[o].settled + settlement \in Nat /\ NoAttempt \in 0..MaxDispatches
    BY <1>1, ModelAssumption DEF Operation, NoAttempt
  <2> QED
    BY <1>1, <2>1 DEF Operation
<1>4. /\ q.status = status /\ q.user = operation[o].user /\ q.reserved = reserved
      /\ q.settled = operation[o].settled + settlement
      /\ q.dispatches = operation[o].dispatches
      /\ q.retries = operation[o].retries /\ q.current = 0
  BY <1>1 DEF Operation, NoAttempt
<1> HIDE DEF q
<1> QED
  BY <1>1, <1>2, <1>3, <1>4

LEMMA ClaimRejectedKeeps ==
  ASSUME CoreInv, NEW o \in Operations, ClaimRejected(o)
  PROVE  CoreInv'
<1>1. operation[o].status \in {"prepared", "retry_scheduled"}
  BY DEF ClaimRejected, Claimable
<1>2. Settled(o, "explicitly_rejected", 0, 0)
  BY DEF ClaimRejected
<1>3. /\ operation'[o] \in Operation
      /\ operation'[o].status = "explicitly_rejected"
      /\ operation'[o].user = operation[o].user
      /\ operation'[o].reserved = 0
      /\ operation'[o].settled = operation[o].settled + 0
      /\ operation'[o].dispatches = operation[o].dispatches
      /\ operation'[o].current = 0
      /\ \A p \in Operations : p # o => operation'[p] = operation[p]
      /\ operation' \in [Operations -> Operation]
  BY <1>1, <1>2, SettledRow DEF Terminal
<1>4. account' \in [Scopes -> [Months -> Account]]
  BY ReleaseType DEF CoreInv, ClaimRejected
<1>5. ModelTypeOK'
  BY <1>3, <1>4 DEF CoreInv, ModelTypeOK, ClaimRejected, NoAttempt
<1>6. RowInv(o, operation'[o], bill'[o])
  BY <1>1, <1>3, OperationFacts DEF RowInv, Covered, Operation, ClaimRejected, Unbought, NoAttempt
<1>7. AttemptsInv(operation'[o], attempt'[o])
  BY <1>1, <1>3, OperationFacts DEF AttemptsInv, RowInv, ClaimRejected, Terminal, NoAttempt, Operation, Ordinals
<1> QED
  BY <1>1, <1>3, <1>5, <1>6, <1>7, NoCaller, LocalStep DEF ClaimRejected

LEMMA ClosedAttempt ==
  ASSUME CoreInv, NEW o \in Operations, NEW n \in Ordinals,
         NEW disposition \in Terminal, Closed(o, n, disposition)
  PROVE  /\ attempt' \in [Operations -> [Ordinals -> Attempt]]
         /\ attempt'[o][n].status = "completed"
         /\ attempt'[o][n].disposition = disposition
         /\ attempt'[o][n].day = attempt[o][n].day
         /\ \A k \in Ordinals : k # n => attempt'[o][k] = attempt[o][k]
         /\ \A p \in Operations : p # o => attempt'[p] = attempt[p]
<1>1. attempt \in [Operations -> [Ordinals -> Attempt]]
  BY DEF CoreInv, ModelTypeOK
<1>2. attempt[o][n] \in Attempt
  BY <1>1
<1> DEFINE a == [attempt[o][n] EXCEPT !.status = "completed", !.disposition = disposition]
<1>3. /\ a \in Attempt /\ a.status = "completed" /\ a.disposition = disposition
      /\ a.day = attempt[o][n].day
  BY <1>2 DEF Attempt
<1>4. attempt' = [attempt EXCEPT ![o] = [attempt[o] EXCEPT ![n] = a]]
  BY <1>1, <1>2 DEF Closed, Attempt
<1> HIDE DEF a
<1> QED
  BY <1>1, <1>3, <1>4

LEMMA ClaimExpiredKeeps ==
  ASSUME CoreInv, NEW o \in Operations, ClaimExpired(o)
  PROVE  CoreInv'
<1> DEFINE n == operation[o].current
<1>1. /\ operation[o].status = "dispatched" /\ operation[o].reserved \in Nat
      /\ operation[o].settled \in Nat
      /\ n \in Ordinals /\ n = operation[o].dispatches
  BY OperationFacts DEF ClaimExpired, RowInv, Operation, Ordinals
<1>2. Settled(o, "outcome_unknown", operation[o].reserved, 0)
  BY DEF ClaimExpired
<1>3. /\ operation'[o] \in Operation
      /\ operation'[o].status = "outcome_unknown"
      /\ operation'[o].user = operation[o].user
      /\ operation'[o].reserved = operation[o].reserved
      /\ operation'[o].settled = operation[o].settled + 0
      /\ operation'[o].dispatches = operation[o].dispatches
      /\ operation'[o].retries = operation[o].retries
      /\ operation'[o].current = 0
      /\ \A p \in Operations : p # o => operation'[p] = operation[p]
      /\ operation' \in [Operations -> Operation]
  BY <1>1, <1>2, SettledRow DEF Terminal
<1>4. /\ attempt' \in [Operations -> [Ordinals -> Attempt]]
      /\ attempt'[o][n].status = "completed"
      /\ attempt'[o][n].disposition = "outcome_unknown"
      /\ attempt'[o][n].day = attempt[o][n].day
      /\ \A k \in Ordinals : k # n => attempt'[o][k] = attempt[o][k]
      /\ \A p \in Operations : p # o => attempt'[p] = attempt[p]
  BY <1>1, ClosedAttempt DEF ClaimExpired, Terminal
<1>5. ModelTypeOK'
  <2>1. \A p \in Operations :
          operation'[p].current # NoAttempt <=> operation'[p].status = "dispatched"
    BY <1>3 DEF CoreInv, ModelTypeOK, NoAttempt
  <2> QED
    BY <1>3, <1>4, <2>1 DEF CoreInv, ModelTypeOK, ClaimExpired
<1>6. RowInv(o, operation'[o], bill'[o])
  BY <1>1, <1>3, OperationFacts DEF RowInv, Covered, ClaimExpired, NoAttempt
<1>7. AttemptsInv(operation'[o], attempt'[o])
  BY <1>1, <1>3, <1>4, OperationFacts DEF AttemptsInv, Ordinals, Terminal
<1>8. \A v \in Workers : Calling(worker'[v]) /\ worker'[v].operation = o
        => CallInv(worker'[v], operation'[o], bill'[o])
  BY <1>1, <1>3, CallerFacts DEF CallInv, ClaimExpired
<1>9. OneCaller /\ UNCHANGED <<worker, bill>>
  BY DEF CoreInv, ClaimExpired
<1> QED
  BY <1>3, <1>4, <1>5, <1>6, <1>7, <1>8, <1>9, LocalStep DEF OneCaller

LEMMA ClaimGrantedKeeps ==
  ASSUME CoreInv, NEW w \in Workers, NEW o \in Operations, ClaimGranted(w, o)
  PROVE  CoreInv'
<1> DEFINE n == operation[o].dispatches + 1
           q == [operation[o] EXCEPT !.status = "dispatched", !.current = n,
                                     !.dispatches = n, !.due = FALSE]
           a == [status |-> "dispatched", disposition |-> "none", day |-> today]
           t == [Idle EXCEPT !.phase = "calling", !.operation = o, !.attempt = n,
                             !.retry = operation[o].retries < RetryLimit]
<1>1. /\ operation[o] \in Operation
      /\ operation[o].status \in {"prepared", "retry_scheduled"}
      /\ operation[o].user \in Users /\ Unbought(bill[o])
      /\ operation[o].dispatches \in 0..MaxDispatches
      /\ operation[o].dispatches < MaxDispatches
  BY OperationFacts, ModelAssumption
     DEF ClaimGranted, Claimable, Undispatchable, RowInv, Operation
<1>2. n \in Ordinals /\ n \in 0..MaxDispatches /\ n # 0
  BY <1>1, ModelAssumption DEF Ordinals
<1>3. /\ operation' = [operation EXCEPT ![o] = q]
      /\ attempt' = [attempt EXCEPT ![o] = [attempt[o] EXCEPT ![n] = a]]
      /\ worker' = [worker EXCEPT ![w] = t]
      /\ counter' = Counted(o)
      /\ UNCHANGED <<today, account, message, bill>>
  <2>1. operation' = [operation EXCEPT ![o] = q]
    BY DEF ClaimGranted
  <2> QED
    BY <2>1 DEF ClaimGranted
<1>4. q \in Operation
  BY <1>1, <1>2 DEF Operation
<1>5. /\ q.status = "dispatched" /\ q.current = n /\ q.dispatches = n
      /\ q.user = operation[o].user /\ q.reserved = operation[o].reserved
      /\ q.settled = operation[o].settled /\ q.retries = operation[o].retries
  BY <1>1 DEF Operation
<1>6. a \in Attempt /\ today \in Days
  BY DEF CoreInv, ModelTypeOK, Attempt, Days
<1>7. /\ t \in Worker /\ t.phase = "calling" /\ t.operation = o /\ t.attempt = n
      /\ t.retry => operation[o].retries < RetryLimit
  <2> DEFINE more == operation[o].retries < RetryLimit
  <2>1. more \in BOOLEAN
    OBVIOUS
  <2> HIDE DEF more
  <2>2. [Idle EXCEPT !.phase = "calling", !.operation = o, !.attempt = n,
                     !.retry = more] \in Worker
    BY <1>2, <2>1, IdleIsWorker DEF Worker
  <2>3. /\ t.phase = "calling" /\ t.operation = o /\ t.attempt = n
        /\ t.retry = more
    BY DEF Idle, more
  <2>4. t \in Worker
    BY <2>2 DEF more
  <2> QED
    BY <2>3, <2>4 DEF more
<1>8. counter' \in [Users -> [Days -> 0..DailyLimit]]
  <2>1. counter \in [Users -> [Days -> 0..DailyLimit]]
    BY DEF CoreInv, ModelTypeOK
  <2>2. o \in Metered => counter[operation[o].user][today] < DailyLimit
    BY <1>1, <1>6, <2>1, ModelAssumption DEF ClaimGranted, Undispatchable, Exhausted
  <2>3. o \in Metered => counter[operation[o].user][today] + 1 \in 0..DailyLimit
    BY <1>1, <1>6, <2>1, <2>2, ModelAssumption
  <2> QED
    BY <1>1, <1>3, <1>6, <2>1, <2>3 DEF Counted
<1>9. Calling(t)
  BY <1>7 DEF Calling
<1> HIDE DEF q, a, t
<1>10. /\ operation'[o] = q /\ worker'[w] = t
       /\ attempt'[o] = [attempt[o] EXCEPT ![n] = a]
       /\ \A p \in Operations : p # o =>
            operation'[p] = operation[p] /\ attempt'[p] = attempt[p]
       /\ \A v \in Workers : v # w => worker'[v] = worker[v]
  BY <1>3 DEF CoreInv, ModelTypeOK
<1>11. ModelTypeOK'
  <2>1. attempt' \in [Operations -> [Ordinals -> Attempt]]
    BY <1>3, <1>6, <1>2 DEF CoreInv, ModelTypeOK
  <2>2. worker' \in [Workers -> Worker] /\ operation' \in [Operations -> Operation]
    BY <1>3, <1>4, <1>7 DEF CoreInv, ModelTypeOK
  <2>3. \A p \in Operations :
          operation'[p].current # NoAttempt <=> operation'[p].status = "dispatched"
    BY <1>2, <1>5, <1>10 DEF CoreInv, ModelTypeOK, NoAttempt
  <2> QED
    BY <1>3, <1>8, <2>1, <2>2, <2>3 DEF CoreInv, ModelTypeOK
<1>12. RowInv(o, operation'[o], bill'[o])
  BY <1>1, <1>2, <1>3, <1>5, <1>10, OperationFacts DEF RowInv, Covered
<1>13. AttemptsInv(operation'[o], attempt'[o])
  <2> SUFFICES ASSUME NEW k \in Ordinals
               PROVE  /\ attempt'[o][k].status = "absent" <=> k > n
                      /\ attempt'[o][k].status = "dispatched" <=> k = n
                      /\ k < n => attempt'[o][k].disposition = "explicitly_rejected"
                      /\ attempt'[o][k].status = "absent" => attempt'[o][k].day = 0
    BY <1>5, <1>10 DEF AttemptsInv, Terminal
  <2>1. CASE k = n
    BY <2>1, <1>2, <1>10, OperationFacts DEF a
  <2>2. CASE k # n
    <3>1. attempt'[o][k] = attempt[o][k]
      BY <2>2, <1>10, OperationFacts
    <3>2. operation[o].current = 0
      BY <1>1, OperationFacts DEF RowInv, NoAttempt
    <3>3. operation[o].status = "prepared" => operation[o].dispatches = 0
      BY OperationFacts DEF RowInv
    <3> QED
      BY <1>1, <2>2, <3>1, <3>2, <3>3, OperationFacts DEF AttemptsInv, Ordinals
  <2> QED
    BY <2>1, <2>2
<1>14. CallInv(t, operation'[o], bill'[o])
  BY <1>1, <1>3, <1>5, <1>7, <1>10 DEF CallInv
<1>15. \A v \in Workers : Calling(worker'[v]) /\ worker'[v].operation = o => v = w
  BY <1>1, <1>10, NoCaller
<1> QED
  BY <1>3, <1>7, <1>10, <1>11, <1>12, <1>13, <1>14, <1>15, LocalStep
-----------------------------------------------------------------------------
(* What an answer is worth: nothing if it is not billed.                    *)
LEMMA ChargesBounded ==
  ASSUME NEW kind \in Kinds, NEW cost \in Charges(kind)
  PROVE  /\ cost \in Nat
         /\ kind \in Unbilled => cost = 0
<1>1. cost \in Costs \cup {0}
  BY DEF Charges, Unbilled
<1>2. kind \in Unbilled => cost = 0
  BY DEF Charges, Unbilled
<1> QED
  BY <1>1, <1>2, ModelAssumption

LEMMA ProviderAnswersKeeps ==
  ASSUME CoreInv, NEW w \in Workers, ProviderAnswers(w)
  PROVE  CoreInv'
<1> DEFINE o == worker[w].operation
<1>0. PICK kind \in Kinds : \E cost \in Charges(kind) :
        /\ worker' = [worker EXCEPT
             ![w].phase = "answered", ![w].answer = kind,
             ![w].cost = IF kind \in Reported THEN cost ELSE 0]
        /\ bill' = [bill EXCEPT ![o] =
             [purchases |-> @.purchases + IF kind \in Unbilled THEN 0 ELSE 1,
              charged |-> @.charged + cost,
              price |-> operation[o].reserved]]
  BY DEF ProviderAnswers
<1>1. PICK cost \in Charges(kind) :
        /\ worker' = [worker EXCEPT
             ![w].phase = "answered", ![w].answer = kind,
             ![w].cost = IF kind \in Reported THEN cost ELSE 0]
        /\ bill' = [bill EXCEPT ![o] =
             [purchases |-> @.purchases + IF kind \in Unbilled THEN 0 ELSE 1,
              charged |-> @.charged + cost,
              price |-> operation[o].reserved]]
  BY <1>0
<1>2. worker[w].phase = "calling" /\ Calling(worker[w])
  BY DEF ProviderAnswers, Calling
<1>3. /\ worker[w] \in Worker /\ o \in Operations
      /\ CallInv(worker[w], operation[o], bill[o]) /\ Unbought(bill[o])
  BY <1>2, CallerFacts DEF CallInv
<1>4. /\ cost \in Nat
      /\ kind \in Unbilled => cost = 0
  BY <1>1, ChargesBounded
<1> DEFINE told == IF kind \in Reported THEN cost ELSE 0
           bought == IF kind \in Unbilled THEN 0 ELSE 1
           t == [worker[w] EXCEPT !.phase = "answered", !.answer = kind, !.cost = told]
           b == [purchases |-> bought, charged |-> cost,
                 price |-> operation[o].reserved]
<1>5. worker' = [worker EXCEPT ![w] = t]
  BY <1>1
<1>6. bill' = [bill EXCEPT ![o] = b]
  <2>1. bill[o].purchases + bought = bought /\ bill[o].charged + cost = cost
    BY <1>3, <1>4 DEF Unbought
  <2> QED
    BY <1>1, <2>1
<1>7. /\ t \in Worker /\ t.phase = "answered" /\ t.answer = kind
      /\ t.cost = told
      /\ kind \in Reported => told = cost
      /\ t.operation = o /\ t.attempt = worker[w].attempt
  <2>1. told \in Nat /\ (kind \in Reported => told = cost)
    BY <1>4
  <2> HIDE DEF told
  <2> QED
    BY <1>3, <2>1 DEF Worker
<1>8. t.retry => operation[o].retries < RetryLimit
  BY <1>3 DEF Worker, CallInv
<1>9. /\ b \in Bill /\ b.charged = cost
      /\ b.purchases <= 1 /\ b.price = operation[o].reserved
      /\ kind \in Unbilled => Unbought(b)
  <2>1. bought \in {0, 1} /\ (kind \in Unbilled => bought = 0)
    OBVIOUS
  <2> HIDE DEF bought
  <2> QED
    BY <1>3, <1>4, <2>1, OperationFacts DEF Unbought, Bill, Operation
<1> HIDE DEF t, b, told, bought
<1>10. /\ worker'[w] = t /\ bill'[o] = b
       /\ \A v \in Workers : v # w => worker'[v] = worker[v]
       /\ \A p \in Operations : p # o => bill'[p] = bill[p]
       /\ bill' \in [Operations -> Bill]
       /\ worker' \in [Workers -> Worker]
  BY <1>3, <1>5, <1>6, <1>7, <1>9 DEF CoreInv, ModelTypeOK
<1>11. UNCHANGED <<today, operation, attempt, account, counter, message>>
  BY DEF ProviderAnswers, books
<1>12. ModelTypeOK'
  BY <1>10, <1>11 DEF CoreInv, ModelTypeOK
<1>13. operation[o].status \in {"dispatched", "outcome_unknown"}
  BY <1>3 DEF CallInv
<1>14. RowInv(o, operation'[o], bill'[o])
  <2>1. RowInv(o, operation[o], bill[o]) /\ operation[o] \in Operation
    BY <1>3, OperationFacts
  <2>2. Covered(operation[o], b)
    BY <1>9, <2>1 DEF Covered, Operation
  <2>3. RowInv(o, operation[o], b)
    BY <1>9, <1>13, <2>1, <2>2 DEF RowInv
  <2> QED
    BY <1>10, <1>11, <2>3
<1>15. AttemptsInv(operation'[o], attempt'[o])
  BY <1>3, <1>11, OperationFacts
<1>16. CallInv(t, operation'[o], bill'[o])
  <2>1. t.attempt = operation[o].dispatches
    BY <1>3, <1>7 DEF CallInv
  <2>2. t.answer \in Reported => b.charged = t.cost
    BY <1>7, <1>9
  <2>3. CallInv(t, operation[o], b)
    BY <1>7, <1>8, <1>9, <1>13, <2>1, <2>2 DEF CallInv
  <2> QED
    BY <1>10, <1>11, <2>3
<1>17. \A v \in Workers : Calling(worker'[v]) /\ worker'[v].operation = o => v = w
  BY <1>2, <1>10 DEF CoreInv, OneCaller
<1> QED
  BY <1>3, <1>7, <1>10, <1>11, <1>12, <1>14, <1>15, <1>16, <1>17, LocalStep

(* complete: the worker's attempt is the one that is current, so that nobody *)
(* else calls for the operation, and after it nobody does.                  *)
LEMMA Returned ==
  ASSUME CoreInv, NEW w \in Workers,
         NEW outcome \in {"succeeded", "failed", "retry_scheduled"}, Returns(w, outcome)
  PROVE  \E t \in Worker : ~Calling(t) /\ worker' = [worker EXCEPT ![w] = t]
<1> DEFINE t == [worker[w] EXCEPT !.phase = "returned", !.outcome = outcome]
<1>1. worker[w] \in Worker
  BY DEF CoreInv, ModelTypeOK
<1>2. t \in Worker /\ ~Calling(t)
  BY <1>1 DEF Worker, Calling
<1>3. worker' = [worker EXCEPT ![w] = t] \/ Leaves(w)
  BY DEF Returns
<1> QED
  BY <1>2, <1>3, IdleIsWorker DEF Leaves

LEMMA HolderAlone ==
  ASSUME CoreInv, NEW w \in Workers, HoldsAttempt(w),
         NEW t \in Worker, ~Calling(t), worker' = [worker EXCEPT ![w] = t]
  PROVE  /\ worker' \in [Workers -> Worker]
         /\ \A v \in Workers : Calling(worker'[v]) =>
              worker'[v] = worker[v] /\ worker'[v].operation # worker[w].operation
<1>1. Calling(worker[w])
  BY DEF HoldsAttempt, Calling
<1> QED
  BY <1>1 DEF CoreInv, ModelTypeOK, OneCaller

LEMMA HolderFacts ==
  ASSUME CoreInv, NEW w \in Workers, HoldsAttempt(w)
  PROVE  /\ worker[w] \in Worker /\ worker[w].operation \in Operations
         /\ worker[w].answer \in Kinds
         /\ worker[w].attempt \in Ordinals
         /\ worker[w].attempt = operation[worker[w].operation].dispatches
         /\ worker[w].attempt = operation[worker[w].operation].current
         /\ operation[worker[w].operation].status = "dispatched"
         /\ CallInv(worker[w], operation[worker[w].operation],
                    bill[worker[w].operation])
<1>1. Calling(worker[w]) /\ worker[w].phase = "answered"
  BY DEF HoldsAttempt, Calling
<1>2. /\ worker[w] \in Worker /\ worker[w].operation \in Operations
      /\ CallInv(worker[w], operation[worker[w].operation],
                 bill[worker[w].operation])
  BY <1>1, CallerFacts
<1>3. /\ RowInv(worker[w].operation, operation[worker[w].operation],
                bill[worker[w].operation])
      /\ operation[worker[w].operation] \in Operation
  BY <1>2, OperationFacts
<1> QED
  BY <1>1, <1>2, <1>3, ModelAssumption
     DEF HoldsAttempt, CallInv, RowInv, Operation, Ordinals

(* The story goes on when the newest attempt ends as its operation does.     *)
LEMMA NewestEnds ==
  ASSUME CoreInv, NEW o \in Operations, NEW n \in Ordinals,
         n = operation[o].dispatches, n = operation[o].current,
         operation'[o].dispatches = n, operation'[o].current = 0,
         attempt'[o][n].status = "completed",
         \/ /\ operation'[o].status = "retry_scheduled"
            /\ attempt'[o][n].disposition = "explicitly_rejected"
         \/ /\ operation'[o].status \in Terminal
            /\ attempt'[o][n].disposition = operation'[o].status,
         \A k \in Ordinals : k # n => attempt'[o][k] = attempt[o][k]
  PROVE  AttemptsInv(operation'[o], attempt'[o])
<1> SUFFICES ASSUME NEW k \in Ordinals
             PROVE  /\ attempt'[o][k].status = "absent" <=> k > n
                    /\ attempt'[o][k].status = "dispatched" <=> k = 0
                    /\ k < n => attempt'[o][k].disposition = "explicitly_rejected"
                    /\ k = n /\ operation'[o].status = "retry_scheduled"
                         => attempt'[o][k].disposition = "explicitly_rejected"
                    /\ k = n /\ operation'[o].status \in Terminal
                         => attempt'[o][k].disposition = operation'[o].status
                    /\ attempt'[o][k].status = "absent" => attempt'[o][k].day = 0
  BY DEF AttemptsInv
<1>1. CASE k = n
  BY <1>1, ModelAssumption DEF Ordinals, Terminal
<1>2. CASE k # n
  <2>1. attempt'[o][k] = attempt[o][k] /\ AttemptsInv(operation[o], attempt[o])
    BY <1>2, OperationFacts
  <2> QED
    BY <1>2, <2>1, ModelAssumption DEF AttemptsInv, Ordinals
<1> QED
  BY <1>1, <1>2

LEMMA CompleteSchedulingKeeps ==
  ASSUME CoreInv, NEW w \in Workers, CompleteScheduling(w)
  PROVE  CoreInv'
<1> DEFINE o == worker[w].operation
           n == worker[w].attempt
           q == [operation[o] EXCEPT !.status = "retry_scheduled",
                   !.current = NoAttempt, !.due = FALSE, !.retries = @ + 1]
<1>1. HoldsAttempt(w)
  BY DEF CompleteScheduling
<1>2. /\ o \in Operations /\ n \in Ordinals /\ n = operation[o].dispatches
      /\ n = operation[o].current
      /\ operation[o].status = "dispatched"
      /\ operation[o].retries < RetryLimit /\ Unbought(bill[o])
  BY <1>1, HolderFacts DEF CompleteScheduling, HoldsAttempt, CallInv, Unbilled
<1>3. PICK t \in Worker : ~Calling(t) /\ worker' = [worker EXCEPT ![w] = t]
  BY Returned DEF CompleteScheduling
<1>4. /\ worker' \in [Workers -> Worker]
      /\ \A v \in Workers : Calling(worker'[v]) =>
           worker'[v] = worker[v] /\ worker'[v].operation # o
  BY <1>1, <1>3, HolderAlone
<1>5. operation[o] \in Operation /\ RowInv(o, operation[o], bill[o])
  BY <1>2, OperationFacts
<1>6. operation' = [operation EXCEPT ![o] = q]
  BY <1>2 DEF CompleteScheduling, CoreInv, ModelTypeOK
<1>7. q \in Operation
  <2>1. operation[o].retries + 1 \in 0..RetryLimit /\ NoAttempt \in 0..MaxDispatches
    BY <1>2, <1>5, ModelAssumption DEF Operation, RetryLimit, NoAttempt
  <2> QED
    BY <1>5, <2>1 DEF Operation
<1>8. /\ q.status = "retry_scheduled" /\ q.current = 0
      /\ q.user = operation[o].user /\ q.reserved = operation[o].reserved
      /\ q.settled = operation[o].settled
      /\ q.dispatches = operation[o].dispatches
  BY <1>5 DEF Operation, NoAttempt
<1> HIDE DEF q
<1>9. operation'[o] = q /\ \A p \in Operations : p # o => operation'[p] = operation[p]
  BY <1>2, <1>6 DEF CoreInv, ModelTypeOK
<1>10. /\ attempt' \in [Operations -> [Ordinals -> Attempt]]
       /\ attempt'[o][n].status = "completed"
       /\ attempt'[o][n].disposition = "explicitly_rejected"
       /\ attempt'[o][n].day = attempt[o][n].day
       /\ \A k \in Ordinals : k # n => attempt'[o][k] = attempt[o][k]
       /\ \A p \in Operations : p # o => attempt'[p] = attempt[p]
  BY <1>2, ClosedAttempt DEF CompleteScheduling, Terminal
<1>11. UNCHANGED <<today, account, counter, message, bill>>
  BY DEF CompleteScheduling
<1>12. ModelTypeOK'
  <2>1. \A p \in Operations :
          operation'[p].current # NoAttempt <=> operation'[p].status = "dispatched"
    BY <1>8, <1>9 DEF CoreInv, ModelTypeOK, NoAttempt
  <2>2. operation' \in [Operations -> Operation]
    BY <1>6, <1>7 DEF CoreInv, ModelTypeOK
  <2> QED
    BY <1>4, <1>10, <1>11, <2>1, <2>2 DEF CoreInv, ModelTypeOK
<1>13. RowInv(o, operation'[o], bill'[o])
  BY <1>2, <1>5, <1>8, <1>9, <1>11 DEF RowInv, Covered, NoAttempt
<1>14. AttemptsInv(operation'[o], attempt'[o])
  BY <1>2, <1>8, <1>9, <1>10, NewestEnds DEF Terminal
<1> QED
  BY <1>2, <1>4, <1>9, <1>10, <1>11, <1>12, <1>13, <1>14, LocalStep

(* What complete settles covers what the call was charged: a reported cost   *)
(* in full, another by the whole reservation.                               *)
LEMMA SettlementCovers ==
  ASSUME CoreInv, NEW w \in Workers, HoldsAttempt(w)
  PROVE  /\ Settlement(w) \in Nat
         /\ Disposition(worker[w].answer) \in Terminal
         /\ Disposition(worker[w].answer) = "succeeded" =>
              Settlement(w) = bill[worker[w].operation].charged
         /\ worker[w].operation \in Metered /\ worker[w].answer # "lost" =>
              \/ bill[worker[w].operation].charged <= Settlement(w)
              \/ bill[worker[w].operation].price <= Settlement(w)
         /\ worker[w].answer = "lost" <=>
              Disposition(worker[w].answer) = "outcome_unknown"
<1> DEFINE o == worker[w].operation
<1>1. /\ worker[w] \in Worker /\ o \in Operations /\ worker[w].answer \in Kinds
      /\ CallInv(worker[w], operation[o], bill[o])
      /\ worker[w].phase = "answered"
  BY HolderFacts DEF HoldsAttempt
<1>2. /\ operation[o] \in Operation /\ RowInv(o, operation[o], bill[o])
      /\ bill[o] \in Bill
  BY <1>1, OperationFacts
<1>3. /\ worker[w].cost \in Nat /\ operation[o].reserved \in Nat
      /\ operation[o].settled = 0
      /\ bill[o].charged \in Nat /\ bill[o].price \in Nat
  BY <1>1, <1>2 DEF Worker, Operation, RowInv, Bill, HoldsAttempt
<1>4. /\ worker[w].answer = "lost" <=>
           Disposition(worker[w].answer) = "outcome_unknown"
      /\ Disposition(worker[w].answer) \in Terminal
      /\ Disposition(worker[w].answer) = "succeeded" <=> worker[w].answer = "stop"
  <2> DEFINE kind == worker[w].answer
  <2>1. kind \in {"stop", "invalid_date", "rate_limited", "rejected", "refused",
                   "unreadable", "lost"}
    BY <1>1 DEF Kinds, Reported, Unbilled
  <2> HIDE DEF kind
  <2>2. /\ kind = "lost" <=> Disposition(kind) = "outcome_unknown"
        /\ Disposition(kind) \in Terminal
        /\ Disposition(kind) = "succeeded" <=> kind = "stop"
    BY <2>1 DEF Disposition, Terminal
  <2> QED
    BY <2>2 DEF kind
<1>5. CASE worker[w].answer \in Reported
  <2>1. Settlement(w) = worker[w].cost
    BY <1>5 DEF Settlement, Reported
  <2>2. bill[o].charged = worker[w].cost
    BY <1>1, <1>5 DEF CallInv
  <2> QED
    BY <1>3, <1>4, <2>1, <2>2
<1>6. CASE worker[w].answer \in {"refused", "unreadable"}
  <2>1. Settlement(w) = operation[o].reserved
    BY <1>6 DEF Settlement, Reported
  <2>2. o \in Metered => \/ bill[o].charged <= operation[o].reserved
                         \/ bill[o].price <= operation[o].reserved
    BY <1>2, <1>3 DEF RowInv, Covered
  <2> QED
    BY <1>3, <1>4, <1>6, <2>1, <2>2
<1>7. CASE worker[w].answer \in Unbilled
  <2>1. Settlement(w) = 0
    BY <1>7 DEF Settlement, Reported, Unbilled
  <2>2. bill[o].charged = 0
    BY <1>1, <1>7 DEF CallInv, Unbought
  <2> QED
    BY <1>3, <1>4, <1>7, <2>1, <2>2 DEF Unbilled
<1>8. CASE worker[w].answer = "lost"
  <2>1. Settlement(w) = 0
    BY <1>8 DEF Settlement, Reported
  <2> QED
    BY <1>4, <1>8, <2>1
<1> QED
  BY <1>1, <1>5, <1>6, <1>7, <1>8 DEF Kinds

LEMMA CompleteSettlingKeeps ==
  ASSUME CoreInv, NEW w \in Workers, CompleteSettling(w)
  PROVE  CoreInv'
<1> DEFINE o == worker[w].operation
           n == worker[w].attempt
           disposition == Disposition(worker[w].answer)
           unknown == disposition = "outcome_unknown"
           reserved == IF unknown THEN operation[o].reserved ELSE 0
           settlement == IF unknown THEN 0 ELSE Settlement(w)
<1>1. HoldsAttempt(w)
  BY DEF CompleteSettling
<1>2. /\ o \in Operations /\ n \in Ordinals /\ n = operation[o].dispatches
      /\ n = operation[o].current
      /\ operation[o].status = "dispatched" /\ worker[w].answer \in Kinds
  BY <1>1, HolderFacts
<1>3. Outcome(worker[w].answer) \in {"succeeded", "failed", "retry_scheduled"}
  BY DEF Outcome
<1>4. PICK t \in Worker : ~Calling(t) /\ worker' = [worker EXCEPT ![w] = t]
  BY <1>3, Returned DEF CompleteSettling
<1>5. /\ worker' \in [Workers -> Worker]
      /\ \A v \in Workers : Calling(worker'[v]) =>
           worker'[v] = worker[v] /\ worker'[v].operation # o
  BY <1>1, <1>4, HolderAlone
<1>6. /\ operation[o] \in Operation /\ RowInv(o, operation[o], bill[o])
      /\ operation[o].reserved \in Nat /\ operation[o].settled = 0
  BY <1>2, OperationFacts DEF Operation, RowInv
<1>7. /\ Settlement(w) \in Nat /\ disposition \in Terminal
      /\ disposition = "succeeded" => Settlement(w) = bill[o].charged
      /\ o \in Metered /\ worker[w].answer # "lost" =>
           bill[o].charged <= Settlement(w) \/ bill[o].price <= Settlement(w)
      /\ worker[w].answer = "lost" <=> unknown
  BY <1>1, SettlementCovers
<1>8. reserved \in Nat /\ settlement \in Nat
  BY <1>6, <1>7
<1>9. Settled(o, disposition, reserved, settlement)
  BY DEF CompleteSettling
<1>10. account' \in [Scopes -> [Months -> Account]]
  BY <1>2, <1>7, ReleaseType DEF CompleteSettling, CoreInv, ModelTypeOK
<1>11. /\ attempt' \in [Operations -> [Ordinals -> Attempt]]
       /\ attempt'[o][n].status = "completed"
       /\ attempt'[o][n].disposition = disposition
       /\ attempt'[o][n].day = attempt[o][n].day
       /\ \A k \in Ordinals : k # n => attempt'[o][k] = attempt[o][k]
       /\ \A p \in Operations : p # o => attempt'[p] = attempt[p]
  BY <1>2, <1>7, ClosedAttempt DEF CompleteSettling
<1>12. UNCHANGED <<today, counter, message, bill>>
  BY DEF CompleteSettling
<1>17. operation[o].status # "absent" /\ disposition \in Terminal
  BY <1>2, <1>7
<1> HIDE DEF disposition, unknown, reserved, settlement, o
<1>13. /\ operation'[o] \in Operation
       /\ operation'[o].status = disposition
       /\ operation'[o].user = operation[o].user
       /\ operation'[o].reserved = reserved
       /\ operation'[o].settled = operation[o].settled + settlement
       /\ operation'[o].dispatches = operation[o].dispatches
       /\ operation'[o].current = 0
       /\ \A p \in Operations : p # o => operation'[p] = operation[p]
       /\ operation' \in [Operations -> Operation]
  BY <1>2, <1>8, <1>9, <1>17, SettledRow
<1>14. ModelTypeOK'
  <2>1. \A p \in Operations :
          operation'[p].current # NoAttempt <=> operation'[p].status = "dispatched"
    BY <1>7, <1>13 DEF CoreInv, ModelTypeOK, NoAttempt, Terminal
  <2> QED
    BY <1>5, <1>10, <1>11, <1>12, <1>13, <2>1 DEF CoreInv, ModelTypeOK
<1>15. RowInv(o, operation'[o], bill'[o])
  <2>1. CASE unknown
    <3>1. reserved = operation[o].reserved /\ settlement = 0
            /\ disposition = "outcome_unknown"
      BY <2>1 DEF reserved, settlement, unknown
    <3> QED
      BY <1>2, <1>6, <1>12, <1>13, <3>1 DEF RowInv, Covered, NoAttempt
  <2>2. CASE ~unknown
    <3>1. /\ reserved = 0 /\ settlement = Settlement(w)
          /\ disposition \in Terminal \ {"outcome_unknown"}
      BY <1>7, <2>2 DEF reserved, settlement, unknown
    <3>2. o \in Metered => Covered(operation'[o], bill'[o])
      BY <1>6, <1>7, <1>12, <1>13, <2>2, <3>1 DEF Covered
    <3> QED
      BY <1>2, <1>6, <1>7, <1>12, <1>13, <3>1, <3>2 DEF RowInv, NoAttempt, Terminal
  <2> QED
    BY <2>1, <2>2
<1>16. AttemptsInv(operation'[o], attempt'[o])
  BY <1>2, <1>7, <1>11, <1>13, NewestEnds
<1> QED
  BY <1>2, <1>5, <1>11, <1>12, <1>13, <1>14, <1>15, <1>16, LocalStep
-----------------------------------------------------------------------------
(* The other steps leave the store alone.                                   *)
LEMMA CompleteLateKeeps ==
  ASSUME CoreInv, NEW w \in Workers, CompleteLate(w)
  PROVE  CoreInv'
<1>1. PICK t \in Worker : ~Calling(t) /\ worker' = [worker EXCEPT ![w] = t]
  BY Returned DEF CompleteLate, Outcome
<1>2. message' \in [Operations -> {"none", "queued", "acknowledged", "dead"}]
  BY DEF CompleteLate, CoreInv, ModelTypeOK
<1> QED
  BY <1>1, <1>2, WorkerRests DEF CompleteLate

LEMMA AcknowledgeKeeps ==
  ASSUME CoreInv, NEW w \in Workers, Acknowledge(w)
  PROVE  CoreInv'
<1>1. message' \in [Operations -> {"none", "queued", "acknowledged", "dead"}]
  BY DEF Acknowledge, CoreInv, ModelTypeOK
<1> QED
  BY <1>1, IdleIsWorker, WorkerRests DEF Acknowledge, Leaves

LEMMA FailsKeeps ==
  ASSUME CoreInv, NEW w \in Workers, Fails(w)
  PROVE  CoreInv'
<1>1. message' \in [Operations -> {"none", "queued", "acknowledged", "dead"}]
  BY DEF Fails, CoreInv, ModelTypeOK
<1> QED
  BY <1>1, IdleIsWorker, WorkerRests DEF Fails, Leaves

LEMMA MessageKeeps ==
  ASSUME CoreInv, NEW o \in Operations, NEW m \in {"acknowledged", "dead"},
         message' = [message EXCEPT ![o] = m],
         UNCHANGED <<today, books, worker, bill>>
  PROVE  CoreInv'
<1>1. ModelTypeOK'
  BY DEF CoreInv, ModelTypeOK, books
<1> QED
  BY <1>1 DEF CoreInv, RowsInv, CallersInv, OneCaller, books

LEMMA WakeUpKeeps ==
  ASSUME CoreInv, NEW o \in Operations, WakeUp(o)
  PROVE  CoreInv'
<1>1. CASE ClaimRejected(o)
  BY <1>1, ClaimRejectedKeeps
<1>2. CASE ClaimExpired(o)
  BY <1>2, ClaimExpiredKeeps
<1>3. CASE AlreadyCompleted(o)
  BY <1>3, MessageKeeps DEF AlreadyCompleted
<1>4. ASSUME NEW w \in Workers, ClaimGranted(w, o) PROVE CoreInv'
  BY <1>4, ClaimGrantedKeeps
<1> QED
  BY <1>1, <1>2, <1>3, <1>4 DEF WakeUp

LEMMA ProceedsKeeps ==
  ASSUME CoreInv, NEW w \in Workers, Proceeds(w)
  PROVE  CoreInv'
BY ProviderAnswersKeeps, CompleteSchedulingKeeps, CompleteSettlingKeeps,
   CompleteLateKeeps, AcknowledgeKeeps, FailsKeeps DEF Proceeds

LEMMA NextKeeps ==
  ASSUME CoreInv, [Next]_vars
  PROVE  CoreInv'
<1>1. CASE DayPasses
  BY <1>1, DayPassesKeeps
<1>2. ASSUME NEW o \in Operations, NEW u \in Users, NEW price \in Prices,
             Prepare(o, u, price)
      PROVE  CoreInv'
  BY <1>2, PrepareKeeps
<1>3. ASSUME NEW o \in Operations, NEW p \in Operations, Restart(o, p)
      PROVE  CoreInv'
  BY <1>3, RestartKeeps
<1>4. ASSUME NEW o \in Operations,
             \/ DeadlinePasses(o) \/ TimerElapses(o) \/ WakeUp(o) \/ DeadLetter(o)
      PROVE  CoreInv'
  <2>1. CASE DeadLetter(o)
    BY <2>1, MessageKeeps DEF DeadLetter
  <2> QED
    BY <1>4, <2>1, DeadlinePassesKeeps, TimerElapsesKeeps, WakeUpKeeps
<1>5. ASSUME NEW w \in Workers, Proceeds(w) PROVE CoreInv'
  BY <1>5, ProceedsKeeps
<1>6. CASE UNCHANGED vars
  BY <1>6 DEF vars, books, CoreInv, ModelTypeOK, RowsInv, CallersInv, OneCaller
<1> QED
  BY <1>1, <1>2, <1>3, <1>4, <1>5, <1>6 DEF Next

LEMMA InitCore ==
  ASSUME Init
  PROVE  CoreInv
<1>1. \A o \in Operations : AbsentOperation(o) \in Operation
  BY ModelAssumption DEF Operation, AbsentOperation, Scopes, RetryLimit, NoAttempt
<1>2. AbsentAttempt \in Attempt /\ NewAccount \in Account
  BY ModelAssumption DEF Attempt, AbsentAttempt, Account, NewAccount
<1>3. ModelTypeOK
  <2>1. today \in Days /\ counter \in [Users -> [Days -> 0..DailyLimit]]
    BY ModelAssumption DEF Init, Days
  <2>2. \A o \in Operations :
          operation[o].current # NoAttempt <=> operation[o].status = "dispatched"
    BY DEF Init, AbsentOperation
  <2>3. operation \in [Operations -> Operation]
    BY <1>1 DEF Init
  <2>4. /\ attempt \in [Operations -> [Ordinals -> Attempt]]
        /\ account \in [Scopes -> [Months -> Account]]
        /\ worker \in [Workers -> Worker]
        /\ message \in [Operations -> {"none", "queued", "acknowledged", "dead"}]
        /\ bill \in [Operations -> Bill]
    BY <1>2, IdleIsWorker DEF Init, Bill, Free
  <2> QED
    BY <2>1, <2>2, <2>3, <2>4 DEF ModelTypeOK
<1>4. RowsInv
  <2> SUFFICES ASSUME NEW o \in Operations
               PROVE  RowInv(o, operation[o], bill[o])
                        /\ AttemptsInv(operation[o], attempt[o])
    BY DEF RowsInv
  <2>1. operation[o] = AbsentOperation(o) /\ bill[o] = Free
          /\ attempt[o] = [n \in Ordinals |-> AbsentAttempt]
    BY DEF Init
  <2>2. RowInv(o, operation[o], bill[o])
    BY <2>1 DEF RowInv, Covered, AbsentOperation, Unbought, Free, NoAttempt
  <2>3. AttemptsInv(operation[o], attempt[o])
    BY <2>1, ModelAssumption
       DEF AttemptsInv, AbsentOperation, AbsentAttempt, Ordinals, NoAttempt, Terminal
  <2> QED
    BY <2>2, <2>3
<1>5. \A w \in Workers : ~Calling(worker[w])
  BY DEF Init, Idle, Calling
<1> QED
  BY <1>3, <1>4, <1>5 DEF CoreInv, CallersInv, OneCaller

(* In every behaviour the store's rows agree with the calls under way, for   *)
(* any number of consumers, retries, restarts, days and users.               *)
THEOREM InductiveInvariant == Spec => []CoreInv
<1>1. Init => CoreInv
  BY InitCore
<1>2. CoreInv /\ [Next]_vars => CoreInv'
  BY NextKeeps
<1> QED
  BY <1>1, <1>2, PTL DEF Spec

(* The tables' checks hold: exactly a dispatched operation has a claim, and   *)
(* dispatches and retries stay within their grants.                         *)
THEOREM TypeCorrect == Spec => []ModelTypeOK
<1>1. CoreInv => ModelTypeOK
  BY DEF CoreInv
<1> QED
  BY <1>1, InductiveInvariant, PTL

(* model_attempts tells the operation's story: one open attempt exactly       *)
(* while it is dispatched, and only explicit rejections before the newest.   *)
THEOREM AttemptsTellTheStory == Spec => []AttemptsAgree
<1>1. CoreInv => AttemptsAgree
  BY DEF CoreInv, RowsInv, AttemptsInv, AttemptsAgree
<1> QED
  BY <1>1, InductiveInvariant, PTL

(* claim, complete and the expiry of a lease hold against the budget what     *)
(* the provider has charged, whatever it answered and whoever settles: all   *)
(* of it, or of a call that cost more than its profile and did not report    *)
(* its cost, the whole reservation.                                          *)
THEOREM ChargesAreCovered == Spec => []ChargesCovered
<1>1. CoreInv => ChargesCovered
  BY ModelAssumption DEF CoreInv, RowsInv, RowInv, Covered, ChargesCovered
<1> QED
  BY <1>1, InductiveInvariant, PTL
-----------------------------------------------------------------------------
(* Nothing touches a settled operation again.                               *)
LEMMA FinalStep ==
  ASSUME CoreInv, [Next]_vars, NEW o \in Operations, operation[o].status \in Terminal
  PROVE  operation'[o] = operation[o] /\ attempt'[o] = attempt[o]
<1> USE DEF Terminal
<1>1. /\ operation \in [Operations -> Operation]
      /\ attempt \in [Operations -> [Ordinals -> Attempt]]
  BY DEF CoreInv, ModelTypeOK
<1>2. CASE DayPasses \/ UNCHANGED vars
  BY <1>2 DEF DayPasses, vars, books
<1>3. ASSUME NEW p \in Operations, NEW u \in Users, NEW price \in Prices,
             Prepare(p, u, price)
      PROVE  operation'[o] = operation[o] /\ attempt'[o] = attempt[o]
  BY <1>1, <1>3 DEF Prepare, Inserted
<1>4. ASSUME NEW p \in Operations, NEW q \in Operations, Restart(p, q)
      PROVE  operation'[o] = operation[o] /\ attempt'[o] = attempt[o]
  BY <1>1, <1>4 DEF Restart, Inserted
<1>5. ASSUME NEW p \in Operations,
             DeadlinePasses(p) \/ TimerElapses(p) \/ DeadLetter(p)
      PROVE  operation'[o] = operation[o] /\ attempt'[o] = attempt[o]
  BY <1>1, <1>5 DEF DeadlinePasses, TimerElapses, DeadLetter, books
<1>6. ASSUME NEW p \in Operations, WakeUp(p)
      PROVE  operation'[o] = operation[o] /\ attempt'[o] = attempt[o]
  <2>1. CASE ClaimRejected(p)
    BY <1>1, <2>1 DEF ClaimRejected, Claimable, Settled
  <2>2. CASE ClaimExpired(p)
    BY <1>1, <2>2 DEF ClaimExpired, Settled, Closed
  <2>3. CASE AlreadyCompleted(p)
    BY <2>3 DEF AlreadyCompleted, books
  <2>4. ASSUME NEW w \in Workers, ClaimGranted(w, p)
        PROVE  operation'[o] = operation[o] /\ attempt'[o] = attempt[o]
    BY <1>1, <2>4 DEF ClaimGranted, Claimable
  <2> QED
    BY <1>6, <2>1, <2>2, <2>3, <2>4 DEF WakeUp
<1>7. ASSUME NEW w \in Workers, Proceeds(w)
      PROVE  operation'[o] = operation[o] /\ attempt'[o] = attempt[o]
  <2>1. CASE CompleteScheduling(w)
    BY <1>1, <2>1 DEF CompleteScheduling, HoldsAttempt, Closed
  <2>2. CASE CompleteSettling(w)
    BY <1>1, <2>2 DEF CompleteSettling, HoldsAttempt, Closed, Settled
  <2>3. CASE ProviderAnswers(w) \/ CompleteLate(w) \/ Acknowledge(w) \/ Fails(w)
    BY <2>3 DEF ProviderAnswers, CompleteLate, Acknowledge, Fails, books
  <2> QED
    BY <1>7, <2>1, <2>2, <2>3 DEF Proceeds
<1> QED
  BY <1>2, <1>3, <1>4, <1>5, <1>6, <1>7 DEF Next

(* Settled operations and their attempts are never settled again, whatever    *)
(* answers arrive after a lease expired.                                    *)
THEOREM OutcomesAreFinal == Spec => OutcomeIsFinal
<1>1. CoreInv /\ [Next]_vars =>
        [\A o \in Operations :
           operation[o].status \in Terminal =>
             operation'[o] = operation[o] /\ attempt'[o] = attempt[o]]_vars
  BY FinalStep
<1> QED
  BY <1>1, InductiveInvariant, PTL DEF Spec, OutcomeIsFinal

-----------------------------------------------------------------------------
(* Steps that neither insert an operation nor dispatch one.                 *)
Quiet ==
  /\ counter' = counter
  /\ \A o \in Operations :
       /\ operation'[o].user = operation[o].user
       /\ operation'[o].root = operation[o].root
       /\ operation'[o].source = operation[o].source
       /\ \A n \in Ordinals : attempt'[o][n].day = attempt[o][n].day

LEMMA QuietStep ==
  ASSUME CoreInv, [Next]_vars,
         ~\E o \in Operations, u \in Users, price \in Prices : Prepare(o, u, price),
         ~\E o \in Operations, p \in Operations : Restart(o, p),
         ~\E w \in Workers, o \in Operations : ClaimGranted(w, o)
  PROVE  Quiet
<1>1. /\ operation \in [Operations -> Operation]
      /\ attempt \in [Operations -> [Ordinals -> Attempt]]
  BY DEF CoreInv, ModelTypeOK
<1>2. CASE UNCHANGED books
  BY <1>2 DEF Quiet, books
<1>3. ASSUME NEW o \in Operations, DeadlinePasses(o) \/ TimerElapses(o)
      PROVE  Quiet
  <2>1. \A p \in Operations :
          /\ operation'[p].user = operation[p].user
          /\ operation'[p].root = operation[p].root
          /\ operation'[p].source = operation[p].source
    <3>1. CASE DeadlinePasses(o)
      BY <1>1, <3>1 DEF DeadlinePasses, Operation
    <3>2. CASE TimerElapses(o)
      BY <1>1, <3>2 DEF TimerElapses, Operation
    <3> QED
      BY <1>3, <3>1, <3>2
  <2> QED
    BY <1>3, <2>1 DEF DeadlinePasses, TimerElapses, Quiet
<1>4. ASSUME NEW o \in Operations, NEW status, NEW reserved, NEW settlement,
             Settled(o, status, reserved, settlement), counter' = counter,
             \/ attempt' = attempt
             \/ \E n \in Ordinals, disposition \in Terminal : Closed(o, n, disposition)
      PROVE  Quiet
  <2>1. \A p \in Operations :
          /\ operation'[p].user = operation[p].user
          /\ operation'[p].root = operation[p].root
          /\ operation'[p].source = operation[p].source
    BY <1>1, <1>4 DEF Settled, Operation
  <2>2. \A p \in Operations, n \in Ordinals : attempt'[p][n].day = attempt[p][n].day
    BY <1>4, ClosedAttempt
  <2> QED
    BY <1>4, <2>1, <2>2 DEF Quiet
<1>5. ASSUME NEW o \in Operations, WakeUp(o)
      PROVE  Quiet
  <2>1. CASE ClaimRejected(o)
    BY <1>4, <2>1 DEF ClaimRejected
  <2>2. CASE ClaimExpired(o)
    <3>1. operation[o].current \in Ordinals
      BY <2>2, OperationFacts DEF ClaimExpired, RowInv, Operation, Ordinals
    <3> QED
      BY <1>4, <2>2, <3>1 DEF ClaimExpired, Terminal
  <2>3. CASE AlreadyCompleted(o)
    BY <1>2, <2>3 DEF AlreadyCompleted
  <2> QED
    BY <1>5, <2>1, <2>2, <2>3 DEF WakeUp
<1>6. ASSUME NEW w \in Workers, Proceeds(w)
      PROVE  Quiet
  <2>1. CASE CompleteScheduling(w)
    <3> DEFINE o == worker[w].operation
               n == worker[w].attempt
    <3>1. o \in Operations /\ n \in Ordinals
      BY <2>1, HolderFacts DEF CompleteScheduling
    <3>2. \A p \in Operations, k \in Ordinals : attempt'[p][k].day = attempt[p][k].day
      <4>1. Closed(o, n, "explicitly_rejected") /\ "explicitly_rejected" \in Terminal
        BY <2>1 DEF CompleteScheduling, Terminal
      <4> HIDE DEF o, n
      <4> QED
        BY <3>1, <4>1, ClosedAttempt
    <3>3. \A p \in Operations :
            /\ operation'[p].user = operation[p].user
            /\ operation'[p].root = operation[p].root
            /\ operation'[p].source = operation[p].source
      BY <1>1, <2>1, <3>1 DEF CompleteScheduling, Operation
    <3> QED
      BY <2>1, <3>2, <3>3 DEF Quiet, CompleteScheduling
  <2>2. CASE CompleteSettling(w)
    <3>1. /\ worker[w].operation \in Operations /\ worker[w].attempt \in Ordinals
          /\ Disposition(worker[w].answer) \in Terminal
      BY <2>2, HolderFacts, SettlementCovers DEF CompleteSettling
    <3>2. \E status, reserved, settlement :
            Settled(worker[w].operation, status, reserved, settlement)
      BY <2>2 DEF CompleteSettling
    <3> QED
      BY <1>4, <2>2, <3>1, <3>2 DEF CompleteSettling
  <2>3. CASE ProviderAnswers(w) \/ CompleteLate(w) \/ Acknowledge(w) \/ Fails(w)
    BY <1>2, <2>3 DEF ProviderAnswers, CompleteLate, Acknowledge, Fails
  <2> QED
    BY <1>6, <2>1, <2>2, <2>3 DEF Proceeds
<1>7. CASE DayPasses \/ UNCHANGED vars \/ \E o \in Operations : DeadLetter(o)
  BY <1>2, <1>7 DEF DayPasses, vars, DeadLetter
<1> QED
  BY <1>3, <1>5, <1>6, <1>7 DEF Next
(* What inserting and dispatching do to the fields of Quiet.                *)
LEMMA InsertedLineage ==
  ASSUME CoreInv, NEW o \in Operations, NEW u, NEW price, NEW root, NEW source,
         Inserted(o, u, price, root, source)
  PROVE  /\ operation'[o].user = u /\ operation'[o].root = root
         /\ operation'[o].source = source
         /\ \A p \in Operations : p # o => operation'[p] = operation[p]
BY DEF CoreInv, ModelTypeOK, Inserted, AbsentOperation

LEMMA GrantedLineage ==
  ASSUME CoreInv, NEW w \in Workers, NEW o \in Operations, ClaimGranted(w, o)
  PROVE  \A p \in Operations :
           /\ operation'[p].user = operation[p].user
           /\ operation'[p].root = operation[p].root
           /\ operation'[p].source = operation[p].source
BY DEF CoreInv, ModelTypeOK, ClaimGranted, Operation

-----------------------------------------------------------------------------
(* The lineage's grant: only Restart adds to what Restarted counts.         *)
RestartsInv ==
  \A r \in Operations :
    IsFiniteSet(Restarted(r)) /\ Cardinality(Restarted(r)) <= RestartLimit

LEMMA SmallerLineage ==
  ASSUME NEW r \in Operations, IsFiniteSet(Restarted(r)),
         Cardinality(Restarted(r)) <= RestartLimit,
         Restarted(r)' \subseteq Restarted(r)
  PROVE  IsFiniteSet(Restarted(r)') /\ Cardinality(Restarted(r)') <= RestartLimit
<1>1. /\ IsFiniteSet(Restarted(r)')
      /\ Cardinality(Restarted(r)') <= Cardinality(Restarted(r))
  BY FS_Subset
<1>2. Cardinality(Restarted(r)) \in Int /\ Cardinality(Restarted(r)') \in Int
  BY <1>1, FS_CardinalityType
<1> QED
  BY <1>1, <1>2 DEF RestartLimit

LEMMA RestartsStep ==
  ASSUME CoreInv, RestartsInv, [Next]_vars
  PROVE  RestartsInv'
<1> SUFFICES ASSUME NEW r \in Operations
             PROVE  /\ IsFiniteSet(Restarted(r)')
                    /\ Cardinality(Restarted(r)') <= RestartLimit
  BY DEF RestartsInv, RestartLimit
<1>1. IsFiniteSet(Restarted(r)) /\ Cardinality(Restarted(r)) <= RestartLimit
  BY DEF RestartsInv
<1>2. ASSUME Restarted(r)' \subseteq Restarted(r)
      PROVE  /\ IsFiniteSet(Restarted(r)')
             /\ Cardinality(Restarted(r)') <= RestartLimit
  BY <1>1, <1>2, SmallerLineage
<1>3. ASSUME NEW o \in Operations, NEW u \in Users, NEW price \in Prices,
             Prepare(o, u, price)
      PROVE  Restarted(r)' \subseteq Restarted(r)
  BY <1>3, InsertedLineage DEF Prepare, Restarted
<1>4. ASSUME NEW o \in Operations, NEW p \in Operations, Restart(o, p)
      PROVE  /\ IsFiniteSet(Restarted(r)')
             /\ Cardinality(Restarted(r)') <= RestartLimit
  <2>1. /\ operation'[p].root = operation[o].root
        /\ \A q \in Operations : q # p => operation'[q] = operation[q]
    BY <1>4, InsertedLineage DEF Restart
  <2>2. CASE r # operation[o].root
    BY <1>2, <2>1, <2>2 DEF Restarted
  <2>3. CASE r = operation[o].root
    <3>1. Restarted(r)' \subseteq Restarted(r) \cup {p}
      BY <2>1 DEF Restarted
    <3>2. Cardinality(Restarted(r)) = 0
      BY <1>1, <1>4, <2>3, FS_CardinalityType DEF Restart, Restartable, RestartLimit
    <3>3. /\ IsFiniteSet(Restarted(r) \cup {p})
          /\ Cardinality(Restarted(r) \cup {p}) <= 1
      BY <1>1, <3>2, FS_AddElement
    <3>4. /\ IsFiniteSet(Restarted(r)')
          /\ Cardinality(Restarted(r)') <= Cardinality(Restarted(r) \cup {p})
      BY <3>1, <3>3, FS_Subset
    <3>5. /\ Cardinality(Restarted(r)') \in Int
          /\ Cardinality(Restarted(r) \cup {p}) \in Int
      BY <3>3, <3>4, FS_CardinalityType
    <3> QED
      BY <3>3, <3>4, <3>5 DEF RestartLimit
  <2> QED
    BY <2>2, <2>3
<1>5. ASSUME NEW w \in Workers, NEW o \in Operations, ClaimGranted(w, o)
      PROVE  Restarted(r)' \subseteq Restarted(r)
  BY <1>5, GrantedLineage DEF Restarted
<1>6. CASE Quiet
  <2>1. Restarted(r)' \subseteq Restarted(r)
    BY <1>6 DEF Quiet, Restarted
  <2> QED
    BY <1>2, <2>1
<1> QED
  BY <1>2, <1>3, <1>4, <1>5, <1>6, QuietStep

LEMMA InitRestarts ==
  ASSUME Init
  PROVE  RestartsInv
<1> SUFFICES ASSUME NEW r \in Operations
             PROVE  IsFiniteSet(Restarted(r)) /\ Cardinality(Restarted(r)) <= RestartLimit
  BY DEF RestartsInv
<1>1. Restarted(r) = {}
  BY DEF Init, Restarted, AbsentOperation
<1> QED
  BY <1>1, FS_EmptySet DEF RestartLimit

(* However often claim and complete run, an operation buys at most one call   *)
(* that may be billed, and its lineage is restarted once.                   *)
THEOREM PurchasesAreBounded == Spec => []PurchasesBounded
<1>1. Spec => []RestartsInv
  <2>1. CoreInv /\ RestartsInv /\ [Next]_vars => RestartsInv'
    BY RestartsStep
  <2>2. Init => RestartsInv
    BY InitRestarts
  <2> QED
    BY <2>1, <2>2, InductiveInvariant, PTL DEF Spec
<1>2. CoreInv /\ RestartsInv => PurchasesBounded
  BY DEF CoreInv, RowsInv, RowInv, RestartsInv, PurchasesBounded
<1> QED
  BY <1>1, <1>2, InductiveInvariant, PTL

-----------------------------------------------------------------------------
(* The daily counters: each dispatch leaves one attempt of its day.         *)
CountsInv ==
  \A u \in Users, d \in Days :
    IsFiniteSet(Dispatched(u, d)) /\ Cardinality(Dispatched(u, d)) = counter[u][d]

LEMMA CountsFrame ==
  ASSUME CountsInv, counter' = counter,
         \A o \in Operations :
           /\ operation'[o].user # operation[o].user =>
                \A n \in Ordinals : attempt[o][n].day \notin Days
           /\ \A n \in Ordinals : attempt'[o][n].day = attempt[o][n].day
  PROVE  CountsInv'
<1> SUFFICES ASSUME NEW u \in Users, NEW d \in Days
             PROVE  Dispatched(u, d)' = Dispatched(u, d)
  BY DEF CountsInv, Days
<1>1. \A o \in Metered, n \in Ordinals :
        operation'[o].user = u /\ attempt'[o][n].day = d
          <=> operation[o].user = u /\ attempt[o][n].day = d
  BY ModelAssumption
<1> QED
  BY <1>1 DEF Dispatched, Ordinals

LEMMA InsertedCounts ==
  ASSUME CoreInv, CountsInv, NEW o \in Operations, operation[o].status = "absent",
         NEW u, NEW price, NEW root, NEW source, Inserted(o, u, price, root, source),
         UNCHANGED <<attempt, counter>>
  PROVE  CountsInv'
<1>1. \A n \in Ordinals : attempt[o][n].day \notin Days
  <2>1. operation[o].dispatches = 0 /\ AttemptsInv(operation[o], attempt[o])
    BY OperationFacts DEF RowInv
  <2> QED
    BY <2>1, ModelAssumption DEF AttemptsInv, Ordinals, Days
<1> QED
  BY <1>1, InsertedLineage, CountsFrame

LEMMA GrantedCounts ==
  ASSUME CoreInv, CountsInv, NEW w \in Workers, NEW o \in Operations, ClaimGranted(w, o)
  PROVE  CountsInv'
<1> DEFINE n == operation[o].dispatches + 1
<1>1. n \in Ordinals /\ operation[o].user \in Users
  BY OperationFacts, ModelAssumption
     DEF ClaimGranted, Claimable, Undispatchable, RowInv, Operation, Ordinals
<1>2. /\ attempt[o][n].day = 0
      /\ today \in Days
      /\ counter \in [Users -> [Days -> 0..DailyLimit]]
      /\ attempt \in [Operations -> [Ordinals -> Attempt]]
  BY <1>1, OperationFacts DEF AttemptsInv, CoreInv, ModelTypeOK, Operation
<1>3. /\ attempt'[o][n].day = today
      /\ \A p \in Operations, k \in Ordinals :
           <<p, k>> # <<o, n>> => attempt'[p][k] = attempt[p][k]
  BY <1>1, <1>2 DEF ClaimGranted
<1>4. \A p \in Operations : operation'[p].user = operation[p].user
  BY GrantedLineage
<1>5. counter' = Counted(o)
  BY DEF ClaimGranted
<1> HIDE DEF n
<1> SUFFICES ASSUME NEW u \in Users, NEW d \in Days
             PROVE  /\ IsFiniteSet(Dispatched(u, d)')
                    /\ Cardinality(Dispatched(u, d)') = counter'[u][d]
  BY DEF CountsInv, Days
<1>6. IsFiniteSet(Dispatched(u, d)) /\ Cardinality(Dispatched(u, d)) = counter[u][d]
  BY DEF CountsInv
<1>7. CASE o \in Metered /\ u = operation[o].user /\ d = today
  <2>1. Dispatched(u, d)' = Dispatched(u, d) \cup {<<o, n>>}
    <3>1. \A p \in Metered, k \in Ordinals :
            operation'[p].user = u /\ attempt'[p][k].day = d
              <=> \/ operation[p].user = u /\ attempt[p][k].day = d
                  \/ p = o /\ k = n
      BY <1>1, <1>3, <1>4, <1>7, ModelAssumption
    <3> QED
      BY <1>1, <1>7, <3>1 DEF Dispatched, Ordinals
  <2>2. <<o, n>> \notin Dispatched(u, d)
    BY <1>2, ModelAssumption DEF Dispatched, Days
  <2>3. counter'[u][d] = counter[u][d] + 1
    BY <1>2, <1>5, <1>7 DEF Counted
  <2> QED
    BY <1>6, <2>1, <2>2, <2>3, FS_AddElement
<1>8. CASE ~(o \in Metered /\ u = operation[o].user /\ d = today)
  <2>1. Dispatched(u, d)' = Dispatched(u, d)
    <3>1. \A p \in Metered, k \in Ordinals :
            operation'[p].user = u /\ attempt'[p][k].day = d
              <=> operation[p].user = u /\ attempt[p][k].day = d
      <4> SUFFICES ASSUME NEW p \in Metered, NEW k \in Ordinals
                   PROVE  operation'[p].user = u /\ attempt'[p][k].day = d
                            <=> operation[p].user = u /\ attempt[p][k].day = d
        OBVIOUS
      <4>1. p \in Operations /\ operation'[p].user = operation[p].user
        BY <1>4, ModelAssumption
      <4>2. CASE p = o /\ k = n
        <5>1. attempt[o][n].day # d
          BY <1>2 DEF Days
        <5> QED
          BY <1>3, <1>8, <4>1, <4>2, <5>1
      <4>3. CASE ~(p = o /\ k = n)
        BY <1>3, <4>1, <4>3
      <4> QED
        BY <4>2, <4>3
    <3> QED
      BY <3>1 DEF Dispatched, Ordinals
  <2>2. counter'[u][d] = counter[u][d]
    BY <1>1, <1>2, <1>5, <1>8 DEF Counted
  <2> QED
    BY <1>6, <2>1, <2>2
<1> QED
  BY <1>7, <1>8

LEMMA CountsStep ==
  ASSUME CoreInv, CountsInv, [Next]_vars
  PROVE  CountsInv'
<1>1. ASSUME NEW o \in Operations, NEW u \in Users, NEW price \in Prices,
             Prepare(o, u, price)
      PROVE  CountsInv'
  BY <1>1, InsertedCounts DEF Prepare
<1>2. ASSUME NEW o \in Operations, NEW p \in Operations, Restart(o, p)
      PROVE  CountsInv'
  BY <1>2, InsertedCounts DEF Restart
<1>3. ASSUME NEW w \in Workers, NEW o \in Operations, ClaimGranted(w, o)
      PROVE  CountsInv'
  BY <1>3, GrantedCounts
<1>4. CASE Quiet
  BY <1>4, CountsFrame DEF Quiet
<1> QED
  BY <1>1, <1>2, <1>3, <1>4, QuietStep

LEMMA InitCounts ==
  ASSUME Init
  PROVE  CountsInv
<1> SUFFICES ASSUME NEW u \in Users, NEW d \in Days
             PROVE  /\ IsFiniteSet(Dispatched(u, d))
                    /\ Cardinality(Dispatched(u, d)) = counter[u][d]
  BY DEF CountsInv
<1>1. Dispatched(u, d) = {}
  BY ModelAssumption DEF Init, Dispatched, AbsentAttempt, Days
<1>2. counter[u][d] = 0
  BY DEF Init
<1> QED
  BY <1>1, <1>2, FS_EmptySet

(* model_daily_dispatch_counters counts each dispatch of a user's operations  *)
(* in a day, retries included.                                              *)
THEOREM DispatchesAreCounted == Spec => []DispatchesCounted
<1>1. Spec => []CountsInv
  <2>1. CoreInv /\ CountsInv /\ [Next]_vars => CountsInv'
    BY CountsStep
  <2>2. Init => CountsInv
    BY InitCounts
  <2> QED
    BY <2>1, <2>2, InductiveInvariant, PTL DEF Spec
<1>2. CountsInv => DispatchesCounted
  BY DEF CountsInv, DispatchesCounted
<1> QED
  BY <1>1, <1>2, PTL
-----------------------------------------------------------------------------
(* The budget ledger.  The recorded limit has engaged the kill switch.      *)
KillInv ==
  \A m \in Months : 100 \in account[Environment][m].alerts
                      => account[Environment][m].kill = "on"

(* Accounts change by a reservation that fits, or by giving one back.       *)
Holds == \E u \in Users, price \in Nat \ {0} : Reserve(u, price)

Releases == \E o \in Operations, settlement \in Nat : Release(o, settlement)

LEMMA SettlementReleases ==
  ASSUME CoreInv, NEW w \in Workers, CompleteSettling(w)
  PROVE  account' = account \/ Releases
<1>1. HoldsAttempt(w)
  BY DEF CompleteSettling
<1>2. worker[w].operation \in Operations
  BY <1>1, HolderFacts
<1>3. Settlement(w) \in Nat
  BY <1>1, SettlementCovers
<1> QED
  BY <1>2, <1>3 DEF CompleteSettling, Releases

LEMMA AccountStep ==
  ASSUME CoreInv, [Next]_vars
  PROVE  account' = account \/ Holds \/ Releases
<1>1. ASSUME NEW o \in Operations, NEW u \in Users, NEW price \in Prices,
             Prepare(o, u, price)
      PROVE  account' = account \/ Holds
  BY <1>1, ModelAssumption DEF Prepare, Holds
<1>2. ASSUME NEW o \in Operations, NEW p \in Operations, Restart(o, p)
      PROVE  account' = account \/ Holds
  <2>1. operation[o].user \in Users /\ operation[o].reserved \in Nat
    BY <1>2, OperationFacts DEF Restart, Restartable, RowInv, Operation
  <2> QED
    BY <1>2, <2>1 DEF Restart, Holds
<1>3. ASSUME NEW o \in Operations, WakeUp(o)
      PROVE  account' = account \/ Releases
  <2>1. CASE ClaimRejected(o)
    BY <2>1 DEF ClaimRejected, Releases
  <2> QED
    BY <1>3, <2>1 DEF WakeUp, ClaimExpired, AlreadyCompleted, ClaimGranted, books
<1>4. ASSUME NEW w \in Workers, Proceeds(w)
      PROVE  account' = account \/ Releases
  BY <1>4, SettlementReleases
     DEF Proceeds, ProviderAnswers, CompleteScheduling, CompleteLate, Acknowledge, Fails, books
<1> QED
  BY <1>1, <1>2, <1>3, <1>4
     DEF Next, vars, DayPasses, DeadlinePasses, TimerElapses, DeadLetter, books

(* What each of them does to the account of one scope and month.            *)
LEMMA HoldsOne ==
  ASSUME CoreInv, KillInv, Holds, NEW s \in Scopes, NEW m \in Months
  PROVE  \/ account'[s][m] = account[s][m]
         \/ /\ s = Environment => 100 \notin account[s][m].alerts
            /\ account[s][m].reserved < account'[s][m].reserved
            /\ account'[s][m].settled = account[s][m].settled
            /\ Load(account'[s][m]) <= Ceiling(s)
            /\ account'[s][m].alerts =
                 account[s][m].alerts \cup Reached(s, Load(account'[s][m]))
            /\ s = Environment /\ 100 \in account'[s][m].alerts
                 => account'[s][m].kill = "on"
<1>1. PICK u \in Users, price \in Nat \ {0} : Reserve(u, price)
  BY DEF Holds
<1>2. account[s] \in [Months -> Account] /\ Now \in Months
  BY NowIsMonth DEF CoreInv, ModelTypeOK
<1>3. CASE s \in {Environment, u} /\ m = Now
  <2> DEFINE a == account[s][m]
  <2>1. a \in Account /\ price \in Nat /\ price > 0
    BY <1>2
  <2>2. account'[s][m] = Added(s, a, price)
    BY <1>1, <1>2, <1>3 DEF Reserve
  <2>3. /\ account[Environment][Now].kill = "off"
        /\ Load(a) + price <= Ceiling(s)
    BY <1>1, <1>3 DEF Reserve, Fits
  <2>4. s = Environment => 100 \notin a.alerts
    BY <1>2, <1>3, <2>3 DEF KillInv
  <2> HIDE DEF a
  <2>5. /\ Load(a) \in Int
        /\ Load(Added(s, a, price)) = Load(a) + price
        /\ Added(s, a, price).alerts = a.alerts \cup Reached(s, Load(a) + price)
        /\ s = Environment /\ 100 \in Added(s, a, price).alerts
             => Added(s, a, price).kill = "on" \/ 100 \in a.alerts
    BY <2>1, AddedIsAccount
  <2>6. /\ a.reserved < account'[s][m].reserved
        /\ account'[s][m].settled = a.settled
    BY <2>1, <2>2 DEF Account, Added
  <2>7. /\ Load(account'[s][m]) <= Ceiling(s)
        /\ account'[s][m].alerts = a.alerts \cup Reached(s, Load(account'[s][m]))
    BY <2>2, <2>3, <2>5
  <2>8. s = Environment /\ 100 \in account'[s][m].alerts => account'[s][m].kill = "on"
    BY <2>2, <2>4, <2>5
  <2> QED
    BY <2>4, <2>6, <2>7, <2>8 DEF a
<1>4. CASE ~(s \in {Environment, u} /\ m = Now)
  BY <1>1, <1>2, <1>4 DEF Reserve
<1> QED
  BY <1>3, <1>4

LEMMA ReleasesOne ==
  ASSUME CoreInv, Releases, NEW s \in Scopes, NEW m \in Months
  PROVE  /\ account'[s][m].alerts = account[s][m].alerts
         /\ account'[s][m].kill = account[s][m].kill
         /\ \/ /\ account'[s][m].reserved = account[s][m].reserved
               /\ account'[s][m].settled = account[s][m].settled
            \/ /\ account'[s][m].reserved < account[s][m].reserved
               /\ account'[s][m].settled >= account[s][m].settled
<1>1. PICK o \in Operations, settlement \in Nat : Release(o, settlement)
  BY DEF Releases
<1>2. /\ account[s] \in [Months -> Account] /\ operation[o].reserved \in Nat
      /\ account[s][m] \in Account
  BY OperationFacts DEF CoreInv, ModelTypeOK, Operation
<1>3. \/ account'[s][m] = account[s][m]
      \/ /\ operation[o].reserved # 0
         /\ account'[s][m] =
              Relieved(account[s][m], operation[o].reserved, settlement)
  BY <1>1, <1>2 DEF Release
<1>4. CASE account'[s][m] = account[s][m]
  BY <1>4
<1>5. CASE /\ operation[o].reserved # 0
           /\ account'[s][m] =
                Relieved(account[s][m], operation[o].reserved, settlement)
  <2>1. /\ account[s][m].reserved \in Int /\ account[s][m].settled \in Int
        /\ operation[o].reserved > 0
    BY <1>2, <1>5 DEF Account
  <2>2. /\ account'[s][m].reserved = account[s][m].reserved - operation[o].reserved
        /\ account'[s][m].settled = account[s][m].settled + settlement
        /\ account'[s][m].alerts = account[s][m].alerts
        /\ account'[s][m].kill = account[s][m].kill
    BY <1>5 DEF Relieved
  <2> QED
    BY <1>2, <2>1, <2>2
<1> QED
  BY <1>3, <1>4, <1>5

LEMMA KillStep ==
  ASSUME CoreInv, KillInv, [Next]_vars
  PROVE  KillInv'
<1> SUFFICES ASSUME NEW m \in Months
             PROVE  100 \in account'[Environment][m].alerts
                      => account'[Environment][m].kill = "on"
  BY DEF KillInv
<1>1. Environment \in Scopes
  BY DEF Scopes
<1>2. 100 \in account[Environment][m].alerts => account[Environment][m].kill = "on"
  BY DEF KillInv
<1>3. CASE account' = account
  BY <1>2, <1>3
<1>4. CASE Holds
  BY <1>1, <1>2, <1>4, HoldsOne
<1>5. CASE Releases
  BY <1>1, <1>2, <1>5, ReleasesOne
<1> QED
  BY <1>3, <1>4, <1>5, AccountStep

Helds == [s \in Scopes |-> [m \in Months |-> account[s][m].reserved]]
Spents == [s \in Scopes |-> [m \in Months |-> account[s][m].settled]]
Tolds == [s \in Scopes |-> [m \in Months |-> account[s][m].alerts]]

LEMMA LedgerStep ==
  ASSUME CoreInv, KillInv, [Next]_vars
  PROVE  Ledger!Move \/ UNCHANGED <<Helds, Spents, Tolds>>
<1>1. CASE account' = account
  BY <1>1 DEF Helds, Spents, Tolds
<1>2. CASE Holds \/ Releases
  <2> SUFFICES ASSUME NEW s \in Scopes, NEW m \in Months
               PROVE  Ledger!Hold(s, m) \/ Ledger!Settle(s, m)
    BY DEF Ledger!Move
  <2>1. CASE account'[s][m] = account[s][m]
    BY <2>1 DEF Ledger!Settle
  <2>2. CASE Holds /\ account'[s][m] # account[s][m]
    <3>1. /\ s = Environment => 100 \notin account[s][m].alerts
          /\ account[s][m].reserved < account'[s][m].reserved
          /\ account'[s][m].settled = account[s][m].settled
          /\ Load(account'[s][m]) <= Ceiling(s)
          /\ account'[s][m].alerts =
               account[s][m].alerts \cup Reached(s, Load(account'[s][m]))
      BY <2>2, HoldsOne
    <3>2. Load(account'[s][m]) = account'[s][m].reserved + account[s][m].settled
      BY <3>1 DEF Load
    <3> QED
      BY <3>1, <3>2 DEF Ledger!Hold, Ledger!Reaches, Reached
  <2>3. CASE Releases
    BY <2>3, ReleasesOne DEF Ledger!Settle
  <2> QED
    BY <1>2, <2>1, <2>2, <2>3
<1> QED
  BY <1>1, <1>2, AccountStep

LEMMA InitLedger ==
  ASSUME Init
  PROVE  Ledger!LedgerInit /\ KillInv
<1>1. Ledger!LedgerInit
  BY DEF Init, Ledger!LedgerInit, NewAccount
<1>2. KillInv
  BY DEF Init, KillInv, NewAccount, Scopes
<1> QED
  BY <1>1, <1>2

(* model_budget_accounts implement BudgetLedger, whatever calls cost: no     *)
(* reservation or restart is made beyond a scope's ceiling or from the       *)
(* environment's month once its kill switch has engaged, each tells the      *)
(* thresholds it reaches, and settlements spend out of reservations only.   *)
THEOREM AccountsKeepLedger == Spec => KeepsLedger
<1>1. Init => Ledger!LedgerInit /\ KillInv
  BY InitLedger
<1>2. CoreInv /\ KillInv /\ [Next]_vars => KillInv'
  BY KillStep
<1>3. CoreInv /\ KillInv /\ [Next]_vars => [Ledger!Move]_<<Helds, Spents, Tolds>>
  BY LedgerStep
<1> QED
  BY <1>1, <1>2, <1>3, InductiveInvariant, PTL
     DEF Spec, KeepsLedger, Ledger!LedgerSpec, Helds, Spents, Tolds
-----------------------------------------------------------------------------
(* The sums behind the accounts.  An operation holds money in the accounts   *)
(* of one month and of two scopes, from its insertion on.                   *)
Reservations == [o \in Operations |-> operation[o].reserved]
Settlements == [o \in Operations |-> operation[o].settled]

Holding(o, q, s, m) ==
  o \in Metered /\ q.status # "absent" /\ q.month = m /\ s \in {Environment, q.user}

Balanced(s, m) ==
  /\ IsFiniteSet(Holders(s, m))
  /\ account[s][m].reserved = Total(Reservations, Holders(s, m))
  /\ account[s][m].settled = Total(Settlements, Holders(s, m))

BalanceInv == \A s \in Scopes, m \in Months : Balanced(s, m)

(* Only e's row changes, and every account by as much as e holds more in it. *)
RowMove(e) ==
  /\ \A p \in Operations : p # e => operation'[p] = operation[p]
  /\ \A s \in Scopes, m \in Months :
       LET before == Holding(e, operation[e], s, m)
           after == Holding(e, operation'[e], s, m)
       IN
         /\ before => after
         /\ account'[s][m].reserved = account[s][m].reserved
              + (IF after THEN operation'[e].reserved ELSE 0)
              - (IF before THEN operation[e].reserved ELSE 0)
         /\ account'[s][m].settled = account[s][m].settled
              + (IF after THEN operation'[e].settled ELSE 0)
              - (IF before THEN operation[e].settled ELSE 0)

LEMMA AmountTypes ==
  ASSUME ModelTypeOK
  PROVE  /\ \A o \in Operations :
              operation[o] \in Operation /\ operation[o].reserved \in Nat
                /\ operation[o].settled \in Nat
         /\ \A s \in Scopes, m \in Months :
              /\ account[s] \in [Months -> Account]
              /\ account[s][m] \in Account
              /\ account[s][m].reserved \in Int /\ account[s][m].settled \in Int
<1>1. ASSUME NEW o \in Operations
      PROVE  operation[o] \in Operation /\ operation[o].reserved \in Nat
               /\ operation[o].settled \in Nat
  <2>1. operation[o] \in Operation
    BY DEF ModelTypeOK
  <2> QED BY <2>1 DEF Operation
<1>2. ASSUME NEW s \in Scopes, NEW m \in Months
      PROVE  /\ account[s] \in [Months -> Account]
             /\ account[s][m] \in Account
             /\ account[s][m].reserved \in Int /\ account[s][m].settled \in Int
  <2>1. account[s] \in [Months -> Account] /\ account[s][m] \in Account
    BY DEF ModelTypeOK
  <2> QED BY <2>1 DEF Account
<1> QED BY <1>1, <1>2

(* What such a step does to the sum of one kind of amounts.                 *)
LEMMA SumMoves ==
  ASSUME NEW e, NEW H, IsFiniteSet(H), NEW G, NEW f, NEW h,
         \A x \in H : f[x] \in Int, \A x \in G : h[x] \in Int,
         \A x \in H : x # e => h[x] = f[x],
         G = H \/ G = H \cup {e}
  PROVE  /\ IsFiniteSet(G)
         /\ Total(f, H) \in Int
         /\ Total(h, G) = Total(f, H) + (IF e \in G THEN h[e] ELSE 0)
                                      - (IF e \in H THEN f[e] ELSE 0)
<1>1. Total(f, H) \in Int
  BY TotalIsInt
<1>2. CASE e \in H
  <2>1. G = H
    BY <1>2
  <2>2. Total(h, H) = Total(f, H) + h[e] - f[e]
    BY <1>2, <2>1, TotalChanges
  <2> QED BY <1>1, <1>2, <2>1, <2>2
<1>3. CASE e \notin H /\ e \in G
  <2>1. G = H \cup {e}
    BY <1>3
  <2>2. IsFiniteSet(H \cup {e}) /\ Total(h, H \cup {e}) = Total(f, H) + h[e]
    BY <1>3, <2>1, TotalJoins
  <2>3. h[e] \in Int
    BY <1>3
  <2> QED BY <1>1, <1>3, <2>1, <2>2, <2>3
<1>4. CASE e \notin H /\ e \notin G
  <2>1. G = H
    BY <1>4
  <2>2. Total(h, H) = Total(f, H)
    BY <1>4, TotalSame
  <2> QED BY <1>1, <1>4, <2>1, <2>2
<1> QED BY <1>2, <1>3, <1>4

LEMMA RowMoveBalances ==
  ASSUME ModelTypeOK, ModelTypeOK', BalanceInv, NEW e \in Operations, RowMove(e)
  PROVE  BalanceInv'
<1> SUFFICES ASSUME NEW s \in Scopes, NEW m \in Months
             PROVE  Balanced(s, m)'
  BY DEF BalanceInv
<1>1. PICK H, G : H = Holders(s, m) /\ G = Holders(s, m)'
  OBVIOUS
<1>2. PICK f, h : f = Reservations /\ h = Reservations'
  OBVIOUS
<1>3. PICK k, l : k = Settlements /\ l = Settlements'
  OBVIOUS
<1>4. Metered \subseteq Operations
  BY ModelAssumption
<1>5. /\ H = {o \in Metered : Holding(o, operation[o], s, m)}
      /\ G = {o \in Metered : Holding(o, operation'[o], s, m)}
  BY <1>1 DEF Holders, Holding
<1>6. \A o \in Operations :
        /\ operation[o].reserved \in Nat /\ operation[o].settled \in Nat
        /\ operation'[o].reserved \in Nat /\ operation'[o].settled \in Nat
        /\ f[o] = operation[o].reserved /\ h[o] = operation'[o].reserved
        /\ k[o] = operation[o].settled /\ l[o] = operation'[o].settled
  <2>1. \A o \in Operations :
          operation[o].reserved \in Nat /\ operation[o].settled \in Nat
    BY AmountTypes
  <2>2. \A o \in Operations :
          operation'[o].reserved \in Nat /\ operation'[o].settled \in Nat
    <3> SUFFICES ASSUME NEW o \in Operations
                 PROVE  operation'[o].reserved \in Nat /\ operation'[o].settled \in Nat
      OBVIOUS
    <3>1. operation'[o] \in Operation
      BY DEF ModelTypeOK
    <3> QED BY <3>1 DEF Operation
  <2> QED BY <1>2, <1>3, <2>1, <2>2 DEF Reservations, Settlements
<1>7. /\ H \subseteq Operations /\ G \subseteq Operations
      /\ e \in H <=> Holding(e, operation[e], s, m)
      /\ e \in G <=> Holding(e, operation'[e], s, m)
  BY <1>4, <1>5 DEF Holding
<1>8. G = H \/ G = H \cup {e}
  <2>1. \A o \in Operations : o # e => (o \in G <=> o \in H)
    BY <1>5 DEF RowMove
  <2>2. e \in H => e \in G
    BY <1>7 DEF RowMove
  <2> QED BY <1>7, <2>1, <2>2
<1>9. \A x \in H : x # e => h[x] = f[x] /\ l[x] = k[x]
  BY <1>6, <1>7 DEF RowMove
<1>10. /\ IsFiniteSet(H)
       /\ account[s][m].reserved = Total(f, H) /\ account[s][m].settled = Total(k, H)
  BY <1>1, <1>2, <1>3 DEF BalanceInv, Balanced
<1>11. /\ IsFiniteSet(G)
       /\ Total(h, G) = Total(f, H) + (IF e \in G THEN h[e] ELSE 0)
                                    - (IF e \in H THEN f[e] ELSE 0)
       /\ Total(l, G) = Total(k, H) + (IF e \in G THEN l[e] ELSE 0)
                                    - (IF e \in H THEN k[e] ELSE 0)
  <2>1. \A x \in Operations : f[x] \in Int /\ h[x] \in Int /\ k[x] \in Int /\ l[x] \in Int
    BY <1>6
  <2>2. /\ \A x \in H : f[x] \in Int /\ k[x] \in Int
        /\ \A x \in G : h[x] \in Int /\ l[x] \in Int
    BY <1>7, <2>1
  <2>3. /\ IsFiniteSet(G)
        /\ Total(h, G) = Total(f, H) + (IF e \in G THEN h[e] ELSE 0)
                                     - (IF e \in H THEN f[e] ELSE 0)
    BY <1>8, <1>9, <1>10, <2>2, SumMoves
  <2>4. Total(l, G) = Total(k, H) + (IF e \in G THEN l[e] ELSE 0)
                                  - (IF e \in H THEN k[e] ELSE 0)
    BY <1>8, <1>9, <1>10, <2>2, SumMoves
  <2> QED BY <2>3, <2>4
<1>12. account'[s][m].reserved = Total(h, G) /\ account'[s][m].settled = Total(l, G)
  BY <1>6, <1>7, <1>10, <1>11 DEF RowMove
<1> QED BY <1>1, <1>2, <1>3, <1>11, <1>12 DEF Balanced

(* An inserted operation holds what was reserved for it, in this month.     *)
LEMMA InsertedMoves ==
  ASSUME CoreInv, NEW o \in Operations, operation[o].status = "absent",
         NEW u \in Users, NEW price \in Nat, NEW root, NEW source,
         Inserted(o, u, price, root, source),
         IF o \in Metered THEN Reserve(u, price) ELSE UNCHANGED account
  PROVE  RowMove(o)
<1>1. operation \in [Operations -> Operation]
  BY DEF CoreInv, ModelTypeOK
<1>2. /\ operation'[o].status = "prepared" /\ operation'[o].user = u
      /\ operation'[o].month = Now /\ operation'[o].settled = 0
      /\ operation'[o].reserved = IF o \in Metered THEN price ELSE 0
      /\ \A p \in Operations : p # o => operation'[p] = operation[p]
  BY <1>1 DEF Inserted, AbsentOperation
<1> SUFFICES ASSUME NEW s \in Scopes, NEW m \in Months
             PROVE  /\ account'[s][m].reserved = account[s][m].reserved +
                         (IF Holding(o, operation'[o], s, m)
                            THEN operation'[o].reserved ELSE 0)
                    /\ account'[s][m].settled = account[s][m].settled
  <2>1. \A s \in Scopes, m \in Months : ~ Holding(o, operation[o], s, m)
    BY DEF Holding
  <2>2. \A s \in Scopes, m \in Months :
          account[s][m].reserved \in Int /\ account[s][m].settled \in Int
    BY AmountTypes DEF CoreInv
  <2>3. operation'[o].reserved \in Nat
    BY <1>2
  <2> QED BY <1>2, <2>1, <2>2, <2>3 DEF RowMove
<1>3. /\ account[s] \in [Months -> Account]
      /\ account[s][m].reserved \in Int /\ account[s][m].settled \in Int
  BY AmountTypes DEF CoreInv
<1>4. Holding(o, operation'[o], s, m) <=> o \in Metered /\ m = Now /\ s \in {Environment, u}
  BY <1>2 DEF Holding
<1>5. CASE o \notin Metered
  BY <1>3, <1>4, <1>5
<1>6. CASE o \in Metered /\ m = Now /\ s \in {Environment, u}
  <2>1. account'[s][m] = Added(s, account[s][m], price)
    BY <1>3, <1>6 DEF Reserve
  <2> QED BY <1>2, <1>3, <1>4, <1>6, <2>1 DEF Added
<1>7. CASE o \in Metered /\ ~(m = Now /\ s \in {Environment, u})
  <2>1. account'[s][m] = account[s][m]
    BY <1>3, <1>7 DEF Reserve
  <2> QED BY <1>3, <1>4, <1>7, <2>1
<1> QED BY <1>5, <1>6, <1>7

(* A row whose amounts stay moves nothing.                                  *)
LEMMA KeptMoves ==
  ASSUME CoreInv, NEW o \in Operations, UNCHANGED account,
         \A p \in Operations : p # o => operation'[p] = operation[p],
         operation[o].status # "absent" /\ operation'[o].status # "absent",
         operation'[o].user = operation[o].user, operation'[o].month = operation[o].month,
         operation'[o].reserved = operation[o].reserved,
         operation'[o].settled = operation[o].settled
  PROVE  RowMove(o)
<1> SUFFICES ASSUME NEW s \in Scopes, NEW m \in Months
             PROVE  Holding(o, operation'[o], s, m) <=> Holding(o, operation[o], s, m)
  BY AmountTypes DEF RowMove, CoreInv
<1> QED BY DEF Holding

(* A settled operation's money leaves the accounts it was reserved from, or  *)
(* stays there.                                                             *)
LEMMA SettledMoves ==
  ASSUME CoreInv, NEW o \in Operations, operation[o].status # "absent",
         o \in Metered => operation[o].reserved # 0,
         NEW status, status # "absent", NEW reserved, NEW settlement \in Nat,
         Settled(o, status, reserved, settlement),
         \/ UNCHANGED account /\ reserved = operation[o].reserved /\ settlement = 0
         \/ Release(o, settlement) /\ reserved = 0
  PROVE  RowMove(o)
<1>1. operation \in [Operations -> Operation] /\ operation[o].settled \in Nat
        /\ operation[o].reserved \in Nat
  BY AmountTypes DEF CoreInv, ModelTypeOK
<1>2. /\ operation'[o].status = status /\ operation'[o].user = operation[o].user
      /\ operation'[o].month = operation[o].month
      /\ operation'[o].reserved = reserved
      /\ operation'[o].settled = operation[o].settled + settlement
      /\ \A p \in Operations : p # o => operation'[p] = operation[p]
  BY <1>1 DEF Settled, Operation
<1>3. CASE UNCHANGED account /\ reserved = operation[o].reserved /\ settlement = 0
  BY <1>1, <1>2, <1>3, KeptMoves
<1>4. CASE Release(o, settlement) /\ reserved = 0
  <2> SUFFICES ASSUME NEW s \in Scopes, NEW m \in Months
               PROVE  LET now == Holding(o, operation[o], s, m) IN
                        /\ Holding(o, operation'[o], s, m) <=> now
                        /\ account'[s][m].reserved = account[s][m].reserved
                             - (IF now THEN operation[o].reserved ELSE 0)
                        /\ account'[s][m].settled = account[s][m].settled
                             + (IF now THEN settlement ELSE 0)
    <3>1. operation'[o].reserved = 0
      BY <1>2, <1>4
    <3> QED BY <1>1, <1>2, <3>1, AmountTypes DEF RowMove, CoreInv
  <2>1. /\ account[s] \in [Months -> Account]
        /\ account[s][m].reserved \in Int /\ account[s][m].settled \in Int
    BY AmountTypes DEF CoreInv
  <2>2. Holding(o, operation'[o], s, m) <=> Holding(o, operation[o], s, m)
    BY <1>2 DEF Holding
  <2>3. CASE Holding(o, operation[o], s, m)
    <3>1. account'[s][m] =
            Relieved(account[s][m], operation[o].reserved, settlement)
      BY <1>4, <2>1, <2>3 DEF Holding, Release
    <3> QED BY <2>1, <2>2, <2>3, <3>1 DEF Relieved
  <2>4. CASE ~ Holding(o, operation[o], s, m)
    <3>1. account'[s][m] = account[s][m]
      BY <1>4, <2>1, <2>4 DEF Holding, Release
    <3> QED BY <2>1, <2>2, <2>4, <3>1
  <2> QED BY <2>2, <2>3, <2>4
<1> QED BY <1>3, <1>4

LEMMA WorkMoves ==
  ASSUME CoreInv, NEW w \in Workers, Proceeds(w)
  PROVE  UNCHANGED <<operation, account>> \/ \E o \in Operations : RowMove(o)
<1> DEFINE o == worker[w].operation
<1>1. CASE CompleteScheduling(w)
  <2>1. o \in Operations /\ operation[o].status = "dispatched"
    BY <1>1, HolderFacts DEF CompleteScheduling
  <2>2. operation \in [Operations -> Operation] /\ operation[o] \in Operation
    BY <2>1 DEF CoreInv, ModelTypeOK
  <2>3. /\ operation'[o].status = "retry_scheduled"
        /\ operation'[o].user = operation[o].user /\ operation'[o].month = operation[o].month
        /\ operation'[o].reserved = operation[o].reserved
        /\ operation'[o].settled = operation[o].settled
        /\ \A p \in Operations : p # o => operation'[p] = operation[p]
    BY <1>1, <2>1, <2>2 DEF CompleteScheduling, Operation
  <2>4. UNCHANGED account
    BY <1>1 DEF CompleteScheduling
  <2> QED BY <2>1, <2>3, <2>4, KeptMoves
<1>2. CASE CompleteSettling(w)
  <2>1. HoldsAttempt(w)
    BY <1>2 DEF CompleteSettling
  <2>2. /\ o \in Operations /\ worker[w].answer \in Kinds
        /\ operation[o].status = "dispatched"
    BY <2>1, HolderFacts
  <2>3. o \in Metered => operation[o].reserved # 0
    BY <2>2, OperationFacts, ModelAssumption DEF RowInv
  <2>4. Settlement(w) \in Nat
    BY <2>1, SettlementCovers
  <2>5. PICK status : status = Disposition(worker[w].answer)
    OBVIOUS
  <2>6. status # "absent"
    BY <2>5 DEF Disposition
  <2>7. CASE status = "outcome_unknown"
    <3>1. UNCHANGED account /\ Settled(o, status, operation[o].reserved, 0)
      BY <1>2, <2>5, <2>7 DEF CompleteSettling
    <3> HIDE DEF o
    <3> QED BY <2>2, <2>3, <2>6, <3>1, SettledMoves
  <2>8. CASE status # "outcome_unknown"
    <3>1. Release(o, Settlement(w)) /\ Settled(o, status, 0, Settlement(w))
      BY <1>2, <2>5, <2>8 DEF CompleteSettling
    <3> HIDE DEF o
    <3> QED BY <2>2, <2>3, <2>4, <2>6, <3>1, SettledMoves
  <2> QED BY <2>7, <2>8
<1>3. ProviderAnswers(w) => UNCHANGED <<operation, account>>
  BY DEF ProviderAnswers, books
<1>4. CompleteLate(w) \/ Acknowledge(w) \/ Fails(w) => UNCHANGED <<operation, account>>
  BY DEF CompleteLate, Acknowledge, Fails, books
<1> QED BY <1>1, <1>2, <1>3, <1>4 DEF Proceeds

LEMMA WakeUpMoves ==
  ASSUME CoreInv, NEW o \in Operations, WakeUp(o)
  PROVE  UNCHANGED <<operation, account>> \/ RowMove(o)
<1>1. operation \in [Operations -> Operation] /\ operation[o] \in Operation
  BY DEF CoreInv, ModelTypeOK
<1>2. operation[o].status \in {"prepared", "dispatched", "retry_scheduled"}
        => (o \in Metered => operation[o].reserved # 0)
  BY OperationFacts, ModelAssumption DEF RowInv
<1>3. CASE ClaimRejected(o)
  <2>1. /\ operation[o].status \in {"prepared", "retry_scheduled"}
        /\ Release(o, 0) /\ Settled(o, "explicitly_rejected", 0, 0)
    BY <1>3 DEF ClaimRejected, Claimable
  <2> QED BY <1>2, <2>1, SettledMoves
<1>4. CASE ClaimExpired(o)
  <2>1. /\ operation[o].status = "dispatched" /\ UNCHANGED account
        /\ Settled(o, "outcome_unknown", operation[o].reserved, 0)
    BY <1>4 DEF ClaimExpired
  <2> QED BY <1>2, <2>1, SettledMoves
<1>5. ASSUME NEW w \in Workers, ClaimGranted(w, o)
      PROVE  RowMove(o)
  <2>1. /\ operation[o].status # "absent" /\ operation'[o].status # "absent"
        /\ operation'[o].user = operation[o].user /\ operation'[o].month = operation[o].month
        /\ operation'[o].reserved = operation[o].reserved
        /\ operation'[o].settled = operation[o].settled
        /\ \A p \in Operations : p # o => operation'[p] = operation[p]
    BY <1>1, <1>5 DEF ClaimGranted, Claimable, Operation
  <2>2. UNCHANGED account
    BY <1>5 DEF ClaimGranted
  <2> QED BY <2>1, <2>2, KeptMoves
<1> QED BY <1>3, <1>4, <1>5 DEF WakeUp, AlreadyCompleted, books

(* Every step moves one row at most.                                        *)
LEMMA RowMoves ==
  ASSUME CoreInv, [Next]_vars
  PROVE  UNCHANGED <<operation, account>> \/ \E o \in Operations : RowMove(o)
<1>1. ASSUME NEW o \in Operations, NEW u \in Users, NEW price \in Prices,
             Prepare(o, u, price)
      PROVE  RowMove(o)
  <2>1. price \in Nat
    BY ModelAssumption
  <2>2. /\ operation[o].status = "absent" /\ Inserted(o, u, price, o, NoOperation)
        /\ IF o \in Metered THEN Reserve(u, price) ELSE UNCHANGED account
    BY <1>1 DEF Prepare
  <2> QED BY <2>1, <2>2, InsertedMoves
<1>2. ASSUME NEW o \in Operations, NEW p \in Operations, Restart(o, p)
      PROVE  RowMove(p)
  <2>1. PICK u, price : u = operation[o].user /\ price = operation[o].reserved
    OBVIOUS
  <2>2. u \in Users /\ price \in Nat /\ (o \in Metered => price # 0)
    BY <1>2, <2>1, OperationFacts, ModelAssumption
       DEF Restart, Restartable, RowInv, Operation
  <2>3. /\ operation[p].status = "absent"
        /\ Inserted(p, u, price, operation[o].root, o)
        /\ IF p \in Metered THEN Reserve(u, price) ELSE UNCHANGED account
    BY <1>2, <2>1, <2>2 DEF Restart
  <2> QED BY <2>2, <2>3, InsertedMoves
<1>3. ASSUME NEW o \in Operations, DeadlinePasses(o) \/ TimerElapses(o)
      PROVE  RowMove(o)
  <2>1. operation \in [Operations -> Operation] /\ operation[o] \in Operation
    BY DEF CoreInv, ModelTypeOK
  <2>2. /\ operation[o].status # "absent" /\ operation'[o].status # "absent"
        /\ operation'[o].user = operation[o].user /\ operation'[o].month = operation[o].month
        /\ operation'[o].reserved = operation[o].reserved
        /\ operation'[o].settled = operation[o].settled
        /\ \A p \in Operations : p # o => operation'[p] = operation[p]
    <3>1. CASE DeadlinePasses(o)
      BY <2>1, <3>1 DEF DeadlinePasses, Operation
    <3>2. CASE TimerElapses(o)
      BY <2>1, <3>2 DEF TimerElapses, Operation
    <3> QED BY <1>3, <3>1, <3>2
  <2>3. UNCHANGED account
    BY <1>3 DEF DeadlinePasses, TimerElapses
  <2> QED BY <2>2, <2>3, KeptMoves
<1>4. CASE UNCHANGED vars \/ DayPasses \/ \E o \in Operations : DeadLetter(o)
  BY <1>4 DEF vars, DayPasses, DeadLetter, books
<1> QED BY <1>1, <1>2, <1>3, <1>4, WakeUpMoves, WorkMoves DEF Next

LEMMA BalanceStep ==
  ASSUME CoreInv, CoreInv', BalanceInv, [Next]_vars
  PROVE  BalanceInv'
<1>1. CASE UNCHANGED <<operation, account>>
  <2> SUFFICES ASSUME NEW s \in Scopes, NEW m \in Months
               PROVE  Balanced(s, m)'
    BY DEF BalanceInv
  <2>1. Holders(s, m)' = Holders(s, m)
    BY <1>1 DEF Holders
  <2>2. Reservations' = Reservations /\ Settlements' = Settlements
    BY <1>1 DEF Reservations, Settlements
  <2>3. Balanced(s, m)
    BY DEF BalanceInv
  <2> QED BY <1>1, <2>1, <2>2, <2>3 DEF Balanced
<1>2. ASSUME NEW o \in Operations, RowMove(o)
      PROVE  BalanceInv'
  BY <1>2, RowMoveBalances DEF CoreInv
<1> QED BY <1>1, <1>2, RowMoves

LEMMA InitBalance ==
  ASSUME Init
  PROVE  BalanceInv
<1> SUFFICES ASSUME NEW s \in Scopes, NEW m \in Months
             PROVE  Balanced(s, m)
  BY DEF BalanceInv
<1>1. Holders(s, m) = {}
  BY ModelAssumption DEF Init, Holders, AbsentOperation
<1>2. account[s][m].reserved = 0 /\ account[s][m].settled = 0
  BY DEF Init, NewAccount
<1> QED BY <1>1, <1>2, TotalEmpty, FS_EmptySet DEF Balanced

(* The totals of the invariant are the sums that the property states.       *)
LEMMA BalanceIsBalance ==
  ASSUME BalanceInv
  PROVE  AccountsBalance
<1> SUFFICES ASSUME NEW s \in Scopes, NEW m \in Months
             PROVE  /\ account[s][m].reserved =
                         MapThenSumSet(LAMBDA o : operation[o].reserved, Holders(s, m))
                    /\ account[s][m].settled =
                         MapThenSumSet(LAMBDA o : operation[o].settled, Holders(s, m))
  BY DEF AccountsBalance
<1>1. PICK H : H = Holders(s, m)
  OBVIOUS
<1>2. IsFiniteSet(H) /\ H \subseteq Operations
  BY <1>1, ModelAssumption DEF BalanceInv, Balanced, Holders
<1>3. \A t \in SUBSET H : t # {} =>
        /\ Reservations[Taken(t)] = operation[Taken(t)].reserved
        /\ Settlements[Taken(t)] = operation[Taken(t)].settled
  BY <1>2, TakenIn DEF Reservations, Settlements
<1>4. MapThenSumSet(LAMBDA o : operation[o].reserved, H) = Total(Reservations, H)
  <2> DEFINE Table(g) == g = [t \in SUBSET H |->
               IF t = {} THEN 0 ELSE operation[Taken(t)].reserved + g[t \ {Taken(t)}]]
             h == CHOOSE g : Table(g)
  <2>1. \A g : Table(g) <=> IsTable(g, Reservations, H)
    BY <1>3 DEF IsTable
  <2>2. \E g : Table(g)
    BY <1>2, <2>1, TableExists
  <2>3. Table(h)
    BY <2>2
  <2>4. MapThenSumSet(LAMBDA o : operation[o].reserved, H) = h[H]
    BY DEF MapThenSumSet, MapThenFoldSet, Taken
  <2> HIDE DEF h, Table
  <2> QED BY <1>2, <2>1, <2>3, <2>4, TotalFromTable
<1>5. MapThenSumSet(LAMBDA o : operation[o].settled, H) = Total(Settlements, H)
  <2> DEFINE Table(g) == g = [t \in SUBSET H |->
               IF t = {} THEN 0 ELSE operation[Taken(t)].settled + g[t \ {Taken(t)}]]
             h == CHOOSE g : Table(g)
  <2>1. \A g : Table(g) <=> IsTable(g, Settlements, H)
    BY <1>3 DEF IsTable
  <2>2. \E g : Table(g)
    BY <1>2, <2>1, TableExists
  <2>3. Table(h)
    BY <2>2
  <2>4. MapThenSumSet(LAMBDA o : operation[o].settled, H) = h[H]
    BY DEF MapThenSumSet, MapThenFoldSet, Taken
  <2> HIDE DEF h, Table
  <2> QED BY <1>2, <2>1, <2>3, <2>4, TotalFromTable
<1> QED BY <1>1, <1>4, <1>5 DEF BalanceInv, Balanced

(* releaseReservation and the reservations of prepare and restart keep every  *)
(* account the sum of what its operations of that month hold and have        *)
(* settled: no reservation is released twice, from another month, or lost.   *)
THEOREM AccountsAreSums == Spec => []AccountsBalance
<1>1. CoreInv /\ CoreInv' /\ BalanceInv /\ [Next]_vars => BalanceInv'
  BY BalanceStep
<1>2. Init => BalanceInv
  BY InitBalance
<1>3. BalanceInv => AccountsBalance
  BY BalanceIsBalance
<1> QED BY <1>1, <1>2, <1>3, InductiveInvariant, PTL DEF Spec
==============================================================================
