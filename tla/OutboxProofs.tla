----------------------------- MODULE OutboxProofs -----------------------------
(***************************************************************************)
(* Proofs about Outbox, for every number of messages, dispatchers,         *)
(* attempts and recoveries.                                                *)
(*                                                                         *)
(* Every safety property follows from one inductive invariant, IInv.  Its  *)
(* parts relate a row to the claims granted on it (RowInv), an             *)
(* invocation's copy of a claim to the row (TaskInv), and two copies to    *)
(* each other (OneTaskPerClaim).                                           *)
(***************************************************************************)
EXTENDS Outbox, FiniteSetTheorems, TLAPS

USE DEF HasClaimed

(* What a row r says about its history: whether it was consumed, how many  *)
(* claims were granted on it, the newest one the Queue took, recoveries.   *)
RowInv(r, consumed, granted, sent, reopened) ==
  /\ r.claim # NoClaim => r.claim = granted /\ r.status = "pending"
  /\ r.attempts <= MaxAttempts
  /\ granted <= MaxAttempts * reopened + r.attempts
  /\ sent <= granted
  /\ r.status = "failed" => r.attempts >= MaxAttempts
  /\ r.status = "published" => consumed \/ sent = granted
  /\ r.status = "absent" => granted = 0 /\ r.attempts = 0 /\ r.claim = NoClaim

RowsInv ==
  \A m \in Messages :
    /\ RowInv(row[m], receipt[m], claims[m], newestSent[m], recoveries[m])
    /\ claims[m] = 0 => ~queue[m] /\ ~receipt[m]

(* A copy of a claim names a granted claim, and while it is the row's claim *)
(* it carries the row's attempt number.                                     *)
TaskInv(t, m) ==
  HasClaimed(t) =>
    /\ t.claim \in 1..claims[m]
    /\ t.claim = row[m].claim => t.attempt = row[m].attempts
    /\ t.phase = "accepted" => newestSent[m] >= t.claim

TasksInv == \A d \in Dispatchers, m \in Messages : TaskInv(task[d][m], m)

OneTaskPerClaim ==
  \A d, e \in Dispatchers, m \in Messages :
    /\ HasClaimed(task[d][m]) /\ HasClaimed(task[e][m])
    /\ task[d][m].claim = task[e][m].claim
    => d = e

IInv == TypeOK /\ RowsInv /\ TasksInv /\ OneTaskPerClaim

-----------------------------------------------------------------------------
(* A row has used at most one whole budget per recovery and one more.       *)
LEMMA BudgetArithmetic ==
  ASSUME NEW k \in Nat, NEW a \in Nat, a <= MaxAttempts
  PROVE  /\ MaxAttempts * k \in Nat
         /\ MaxAttempts * (k + 1) \in Nat
         /\ MaxAttempts * k + a <= MaxAttempts * (k + 1)
<1>1. MaxAttempts \in Nat
  BY BoundsAssumption
<1>2. MaxAttempts * (k + 1) = MaxAttempts * k + MaxAttempts
  BY <1>1
<1>3. MaxAttempts * k \in Nat
  BY <1>1
<1> QED
  BY <1>1, <1>2, <1>3

(* What each of the three sweeping statements does to one row. *)
LEMMA ReconciledRow ==
  ASSUME NEW r \in Row, NEW consumed \in BOOLEAN,
         r.status # "pending" => r.claim = NoClaim
  PROVE  LET q == Reconciled(r, consumed) IN
         /\ q \in Row
         /\ q.attempts = r.attempts /\ q.elapsed = r.elapsed
         /\ q.claim \in {NoClaim, r.claim}
         /\ IF consumed /\ r.status # "absent"
            THEN q.status = "published" ELSE q = r
         /\ q.status # "pending" => q.claim = NoClaim
BY DEF Row, Reconciled, NoClaim

(* Statement 2 keeps the attempts and only requeues or fails a stalled row. *)
LEMMA RequeuedRow ==
  ASSUME NEW r \in Row, NEW consumed \in BOOLEAN,
         r.status # "pending" => r.claim = NoClaim
  PROVE  LET q == Requeued(r, consumed) IN
         /\ q \in Row
         /\ q.attempts = r.attempts
         /\ q.claim \in {NoClaim, r.claim}
         /\ \/ q = r
            \/ /\ r.status = "published" /\ ~consumed
               /\ \/ q.status = "pending"
                  \/ q.status = "failed" /\ r.attempts >= MaxAttempts
         /\ q.status # "pending" => q.claim = NoClaim
BY BoundsAssumption DEF Row, Requeued, NoClaim

(* Statement 3 keeps the attempts and only fails a row without attempts left. *)
LEMMA ExhaustedRow ==
  ASSUME NEW r \in Row, r.status # "pending" => r.claim = NoClaim
  PROVE  LET q == Exhausted(r) IN
         /\ q \in Row
         /\ q.attempts = r.attempts
         /\ q.claim \in {NoClaim, r.claim}
         /\ \/ q = r
            \/ /\ r.status = "pending" /\ q.status = "failed"
               /\ r.attempts >= MaxAttempts
         /\ q.status # "pending" => q.claim = NoClaim
BY BoundsAssumption DEF Row, Exhausted, NoClaim

(* Together they keep a row's history true, never change its attempts,      *)
(* never set a claim, and publish a consumed row.                           *)
LEMMA SweepKeepsRow ==
  ASSUME TypeOK, NEW m \in Messages,
         RowInv(row[m], receipt[m], claims[m], newestSent[m], recoveries[m])
  PROVE  /\ Swept(m) \in Row
         /\ RowInv(Swept(m), receipt[m], claims[m], newestSent[m],
                   recoveries[m])
         /\ Swept(m).attempts = row[m].attempts
         /\ Swept(m).claim \in {NoClaim, row[m].claim}
         /\ receipt[m] /\ row[m].status # "absent"
              => Swept(m).status = "published"
         /\ Swept(m).status = "absent" <=> row[m].status = "absent"
<1> DEFINE r1 == Reconciled(row[m], receipt[m])
           r2 == Requeued(r1, receipt[m])
           r3 == Exhausted(r2)
<1>0. row[m] \in Row /\ receipt[m] \in BOOLEAN /\ MaxAttempts \in Nat
  BY BoundsAssumption DEF TypeOK
<1>1. row[m].status # "pending" => row[m].claim = NoClaim
  BY DEF RowInv
<1>2. /\ r1 \in Row
      /\ r1.attempts = row[m].attempts
      /\ r1.claim \in {NoClaim, row[m].claim}
      /\ IF receipt[m] /\ row[m].status # "absent"
         THEN r1.status = "published" ELSE r1 = row[m]
      /\ r1.status # "pending" => r1.claim = NoClaim
  BY <1>0, <1>1, ReconciledRow
<1> HIDE DEF r1
<1>3. /\ r2 \in Row
      /\ r2.attempts = r1.attempts
      /\ r2.claim \in {NoClaim, r1.claim}
      /\ \/ r2 = r1
         \/ /\ r1.status = "published" /\ ~receipt[m]
            /\ \/ r2.status = "pending"
               \/ r2.status = "failed" /\ r1.attempts >= MaxAttempts
      /\ r2.status # "pending" => r2.claim = NoClaim
  BY <1>0, <1>2, RequeuedRow
<1> HIDE DEF r2
<1>4. /\ r3 \in Row
      /\ r3.attempts = r2.attempts
      /\ r3.claim \in {NoClaim, r2.claim}
      /\ \/ r3 = r2
         \/ /\ r2.status = "pending" /\ r3.status = "failed"
            /\ r2.attempts >= MaxAttempts
      /\ r3.status # "pending" => r3.claim = NoClaim
  BY <1>3, ExhaustedRow
<1>5. Swept(m) = r3
  BY DEF Swept, r1, r2
<1> HIDE DEF r3
<1> QED
  BY <1>0, <1>2, <1>3, <1>4, <1>5 DEF Row, RowInv, Claimable, NoClaim

-----------------------------------------------------------------------------
(* Claims, tasks and the Queue: one lemma per action that touches them.     *)

(* Initially no row was written and no invocation runs.                     *)
LEMMA InitInv == Init => IInv
<1> SUFFICES ASSUME Init PROVE IInv
  OBVIOUS
<1>1. TypeOK
  BY DEF Init, TypeOK, Row, AbsentRow, Task, Idle, NoTask, NoClaim
<1>2. RowsInv
  BY BoundsAssumption DEF Init, RowsInv, RowInv, AbsentRow, NoClaim
<1>3. TasksInv /\ OneTaskPerClaim
  BY DEF Init, TasksInv, TaskInv, OneTaskPerClaim, Idle, NoTask
<1> QED
  BY <1>1, <1>2, <1>3 DEF IInv

(* What a claim writes into a claimable row.                                *)
LEMMA ClaimedRow ==
  ASSUME NEW r \in Row, NEW id \in Nat, Claimable(r)
  PROVE  /\ Claimed(r, id) \in Row
         /\ Claimed(r, id).status = "pending"
         /\ Claimed(r, id).attempts = r.attempts + 1
         /\ Claimed(r, id).claim = id
<1>1. r.attempts + 1 \in Nat
  BY DEF Row
<1> QED
  BY <1>1 DEF Claimed, Claimable, Row

(* A fresh claim is granted to one invocation; every older copy is stale.   *)
LEMMA ClaimKeepsInv ==
  ASSUME IInv, NEW d \in Dispatchers, NEW batch \in SUBSET Messages,
         ClaimBatch(d, batch)
  PROVE  IInv'
<1> USE DEF IInv
<1>0. MaxAttempts \in Nat
  BY BoundsAssumption
<1>1. ASSUME NEW m \in Messages
      PROVE  /\ row[m] \in Row
             /\ RowInv(row[m], receipt[m], claims[m], newestSent[m],
                       recoveries[m])
  BY DEF RowsInv, TypeOK
<1>2. /\ batch \subseteq Messages
      /\ \A m \in batch : Claimable(row[m])
      /\ row' = [m \in Messages |->
                   IF m \in batch THEN Claimed(row[m], claims[m] + 1)
                                  ELSE row[m]]
      /\ claims' = [m \in Messages |->
                      IF m \in batch THEN claims[m] + 1 ELSE claims[m]]
      /\ task'[d] = [m \in Messages |->
                       IF m \in batch
                       THEN [phase |-> "claimed", claim |-> row'[m].claim,
                             attempt |-> row'[m].attempts]
                       ELSE NoTask]
  BY DEF ClaimBatch, TypeOK
<1>10. ASSUME NEW m \in Messages, m \in batch
      PROVE  /\ row[m].status = "pending" /\ row[m].attempts < MaxAttempts
             /\ row'[m] \in Row
             /\ row'[m].status = "pending"
             /\ row'[m].attempts = row[m].attempts + 1
             /\ row'[m].claim = claims[m] + 1
             /\ row'[m].attempts \in Nat
             /\ claims'[m] = claims[m] + 1 /\ claims'[m] \in Nat
             /\ task'[d][m] = [phase |-> "claimed", claim |-> claims[m] + 1,
                               attempt |-> row'[m].attempts]
  <2>1. Claimable(row[m]) /\ row[m] \in Row
    BY <1>1, <1>2, <1>10
  <2>2. row'[m] = Claimed(row[m], claims[m] + 1) /\ claims'[m] = claims[m] + 1
    BY <1>2, <1>10
  <2>3. task'[d][m] = [phase |-> "claimed", claim |-> row'[m].claim,
                       attempt |-> row'[m].attempts]
    BY <1>2, <1>10
  <2>4. claims[m] + 1 \in Nat
    BY DEF TypeOK
  <2>5. /\ row'[m] \in Row
        /\ row'[m].status = "pending"
        /\ row'[m].attempts = row[m].attempts + 1
        /\ row'[m].claim = claims[m] + 1
    BY <2>1, <2>2, <2>4, ClaimedRow
  <2> QED
    <3>1. row'[m].attempts \in Nat
      BY <2>5 DEF Row
    <3> QED
      BY <2>1, <2>2, <2>3, <2>4, <2>5, <3>1 DEF Claimable
<1>3. ASSUME NEW m \in Messages, m \notin batch
      PROVE  /\ row'[m] = row[m]
             /\ claims'[m] = claims[m]
             /\ task'[d][m] = NoTask
  BY <1>2, <1>3
<1>4. \A e \in Dispatchers : e # d => task'[e] = task[e]
  BY DEF ClaimBatch, TypeOK
<1>5. /\ UNCHANGED <<receipt, recoveries, queue, newestSent>>
      /\ \A m \in Messages : claims[m] \in Nat /\ newestSent[m] \in Nat
                               /\ recoveries[m] \in Nat /\ receipt[m] \in BOOLEAN
  BY DEF ClaimBatch, queueVars, TypeOK
<1>6. TypeOK'
  <2>1. row' \in [Messages -> Row]
    <3>1. row' = [m \in Messages |-> row'[m]]
      BY DEF ClaimBatch
    <3>2. \A m \in Messages : row'[m] \in Row
      BY <1>1, <1>10, <1>3
    <3> QED
      BY <3>1, <3>2
  <2>2. claims' \in [Messages -> Nat]
    BY DEF ClaimBatch, TypeOK
  <2>3. ASSUME NEW m \in Messages PROVE task'[d][m] \in Task
    <3>1. CASE m \in batch
      <4>1. /\ task'[d][m] = [phase |-> "claimed", claim |-> claims'[m],
                              attempt |-> row'[m].attempts]
            /\ claims'[m] \in Nat /\ row'[m].attempts \in Nat
        BY <1>10, <3>1
      <4> QED
        BY <4>1 DEF Task
    <3>2. CASE m \notin batch
      BY <1>3, <3>2 DEF Task, NoTask, NoClaim
    <3> QED
      BY <3>1, <3>2
  <2>4. task'[d] \in [Messages -> Task]
    <3>1. task'[d] = [m \in Messages |-> task'[d][m]]
      BY DEF ClaimBatch, TypeOK
    <3> QED
      BY <2>3, <3>1
  <2>5. task' \in [Dispatchers -> [Messages -> Task]]
    <3>1. task' = [e \in Dispatchers |-> task'[e]]
      BY DEF ClaimBatch, TypeOK
    <3>2. \A e \in Dispatchers : task'[e] \in [Messages -> Task]
      BY <1>4, <2>4 DEF TypeOK
    <3> QED
      BY <3>1, <3>2
  <2> QED
    BY <1>5, <2>1, <2>2, <2>5 DEF TypeOK
<1>7. RowsInv'
  <2> SUFFICES ASSUME NEW m \in Messages
               PROVE  /\ RowInv(row'[m], receipt[m], claims'[m],
                                newestSent[m], recoveries[m])
                      /\ claims'[m] = 0 => ~queue[m] /\ ~receipt[m]
    BY <1>5 DEF RowsInv
  <2>1. CASE m \in batch
    <3>1. /\ row[m].attempts \in Nat /\ row[m].attempts < MaxAttempts
          /\ row[m].status = "pending"
      BY <1>10, <2>1, <1>1 DEF Row
    <3>2. MaxAttempts * recoveries[m] \in Nat
      BY <1>0, <1>5, <3>1, BudgetArithmetic
    <3>3. /\ claims[m] <= MaxAttempts * recoveries[m] + row[m].attempts
          /\ newestSent[m] <= claims[m]
      BY <1>1 DEF RowInv
    <3>4. /\ row'[m].status = "pending" /\ row'[m].claim = claims'[m]
          /\ row'[m].attempts = row[m].attempts + 1
          /\ claims'[m] = claims[m] + 1
      BY <1>1, <1>10, <2>1
    <3>5. /\ claims[m] \in Nat /\ newestSent[m] \in Nat
          /\ MaxAttempts * recoveries[m] \in Nat
      BY <1>5, <3>2
    <3>6. /\ row'[m].attempts <= MaxAttempts
          /\ newestSent[m] <= claims'[m] /\ claims'[m] # 0
      BY <1>0, <3>1, <3>3, <3>4, <3>5
    <3>7. claims'[m] <= MaxAttempts * recoveries[m] + row'[m].attempts
      <4> DEFINE b == MaxAttempts * recoveries[m]
      <4>1. b \in Nat /\ claims[m] <= b + row[m].attempts
        BY <3>3, <3>5
      <4> HIDE DEF b
      <4>2. claims'[m] <= b + row'[m].attempts
        BY <3>1, <3>4, <3>5, <4>1
      <4> QED
        BY <4>2 DEF b
    <3> QED
      BY <3>4, <3>6, <3>7 DEF RowInv
  <2>2. CASE m \notin batch
    BY <1>1, <1>3, <2>2 DEF RowsInv
  <2> QED
    BY <2>1, <2>2
<1>8. TasksInv'
  <2> SUFFICES ASSUME NEW e \in Dispatchers, NEW m \in Messages,
                      HasClaimed(task'[e][m])
               PROVE  /\ task'[e][m].claim \in 1..claims'[m]
                      /\ task'[e][m].claim = row'[m].claim =>
                           task'[e][m].attempt = row'[m].attempts
                      /\ task'[e][m].phase = "accepted" =>
                           newestSent[m] >= task'[e][m].claim
    BY <1>5 DEF TasksInv, TaskInv
  <2>1. CASE e = d
    <3>1. m \in batch
      BY <1>3, <2>1 DEF NoTask
    <3>2. /\ task'[e][m] = [phase |-> "claimed", claim |-> claims'[m],
                             attempt |-> row'[m].attempts]
          /\ claims'[m] = claims[m] + 1 /\ claims[m] \in Nat
      BY <1>10, <1>5, <2>1, <3>1
    <3> QED
      BY <3>2
  <2>2. CASE e # d
    <3>1. /\ task'[e][m] = task[e][m]
          /\ TaskInv(task[e][m], m)
          /\ task[e][m].claim \in Nat
      BY <1>4, <2>2 DEF TasksInv, TypeOK, Task
    <3>2. CASE m \in batch
      <4>1. /\ row'[m].claim = claims[m] + 1 /\ claims'[m] = claims[m] + 1
            /\ claims[m] \in Nat
        BY <1>10, <1>5, <3>2
      <4>2. /\ task[e][m].claim \in 1..claims[m]
            /\ task[e][m].phase = "accepted" => newestSent[m] >= task[e][m].claim
        BY <3>1 DEF TaskInv
      <4> QED
        BY <3>1, <4>1, <4>2
    <3>3. CASE m \notin batch
      <4>1. row'[m] = row[m] /\ claims'[m] = claims[m]
        BY <1>3, <3>3
      <4> QED
        BY <3>1, <4>1 DEF TaskInv
    <3> QED
      BY <3>2, <3>3
  <2> QED
    BY <2>1, <2>2
<1>9. OneTaskPerClaim'
  <2> SUFFICES ASSUME NEW e \in Dispatchers, NEW f \in Dispatchers,
                      NEW m \in Messages, e # f,
                      HasClaimed(task'[e][m]), HasClaimed(task'[f][m])
               PROVE  task'[e][m].claim # task'[f][m].claim
    BY DEF OneTaskPerClaim
  <2>1. ASSUME NEW g \in Dispatchers, g # d
        PROVE  /\ task'[g][m] = task[g][m]
               /\ HasClaimed(task[g][m]) => task[g][m].claim \in 1..claims[m]
    BY <1>4, <2>1 DEF TasksInv, TaskInv
  <2>2. HasClaimed(task'[d][m]) => task'[d][m].claim = claims[m] + 1
    <3>1. CASE m \in batch
      <4>1. task'[d][m] = [phase |-> "claimed", claim |-> claims[m] + 1,
                               attempt |-> row'[m].attempts]
        BY <1>10, <3>1
      <4> QED
        BY <4>1
    <3>2. CASE m \notin batch
      BY <1>3, <3>2 DEF NoTask
    <3> QED
      BY <3>1, <3>2
  <2> QED
    BY <1>5, <2>1, <2>2 DEF OneTaskPerClaim
<1> QED
  BY <1>6, <1>7, <1>8, <1>9
-----------------------------------------------------------------------------
(* Every other action leaves an invocation its copies as they were, drops   *)
(* some, or moves one on to its next phase.                                 *)
LEMMA CopiesKept ==
  ASSUME IInv, TypeOK', UNCHANGED claims,
         \A m \in Messages :
           /\ newestSent'[m] >= newestSent[m]
           /\ row'[m].claim # NoClaim =>
                row'[m].claim = row[m].claim /\ row'[m].attempts = row[m].attempts,
         \A d \in Dispatchers, m \in Messages :
           HasClaimed(task'[d][m]) =>
             /\ HasClaimed(task[d][m])
             /\ task'[d][m].claim = task[d][m].claim
             /\ task'[d][m].attempt = task[d][m].attempt
             /\ task'[d][m].phase = "accepted" =>
                  \/ task[d][m].phase = "accepted"
                  \/ newestSent'[m] >= task[d][m].claim
  PROVE  TasksInv' /\ OneTaskPerClaim'
<1> USE DEF IInv
<1>1. TasksInv'
  <2> SUFFICES ASSUME NEW d \in Dispatchers, NEW m \in Messages,
                      HasClaimed(task'[d][m])
               PROVE  TaskInv(task[d][m], m)' 
    BY DEF TasksInv, TaskInv
  <2>1. TaskInv(task[d][m], m) /\ HasClaimed(task[d][m])
    BY DEF TasksInv
  <2>2. /\ task[d][m].claim \in Nat
        /\ newestSent[m] \in Nat /\ newestSent'[m] \in Nat /\ claims[m] \in Nat
    BY DEF TypeOK, Task
  <2>3. /\ task'[d][m].claim = task[d][m].claim
        /\ task'[d][m].attempt = task[d][m].attempt
        /\ task[d][m].claim # NoClaim
        /\ claims'[m] = claims[m]
    BY <2>1, <2>2 DEF TaskInv, NoClaim
  <2>4. task'[d][m].claim = row'[m].claim =>
          task'[d][m].attempt = row'[m].attempts
    BY <2>1, <2>3 DEF TaskInv
  <2>5. task'[d][m].phase = "accepted" => newestSent'[m] >= task'[d][m].claim
    BY <2>1, <2>2, <2>3 DEF TaskInv
  <2> QED
    BY <2>1, <2>3, <2>4, <2>5 DEF TaskInv
<1>2. OneTaskPerClaim'
  BY DEF OneTaskPerClaim
<1> QED
  BY <1>1, <1>2

(* A new row has no history.                                                *)
LEMMA EnqueueKeepsInv ==
  ASSUME IInv, NEW m \in Messages, Enqueue(m) PROVE IInv'
<1> USE DEF IInv
<1>1. TypeOK'
  BY DEF Enqueue, TypeOK, queueVars, Row, NoClaim
<1>2. /\ UNCHANGED <<receipt, recoveries, queue, newestSent, task, claims>>
      /\ row'[m].claim = NoClaim /\ row'[m].attempts = 0
      /\ row'[m].status = "pending" /\ row[m].status = "absent"
      /\ \A n \in Messages : n # m => row'[n] = row[n]
      /\ newestSent \in [Messages -> Nat]
  BY DEF Enqueue, TypeOK, queueVars
<1>3. RowsInv'
  <2>1. RowInv(row'[m], receipt[m], claims[m], newestSent[m], recoveries[m])
    BY <1>2, BoundsAssumption DEF RowsInv, RowInv
  <2> QED
    BY <1>2, <2>1 DEF RowsInv
<1>4. TasksInv' /\ OneTaskPerClaim'
  BY <1>1, <1>2, CopiesKept
<1> QED
  BY <1>1, <1>3, <1>4

(* What a step does to the tasks when it only forgets or begins sweeps.     *)
SweepsOnly ==
  \A d \in Dispatchers, m \in Messages :
    task'[d][m] = task[d][m] \/ ~HasClaimed(task'[d][m])

(* The passing of time changes no claim and no count.                       *)
LEMMA TimerKeepsInv ==
  ASSUME IInv, NEW m \in Messages, TimerElapses(m) PROVE IInv'
<1> USE DEF IInv
<1>1. /\ row' \in [Messages -> Row]
      /\ UNCHANGED <<receipt, recoveries, queue, newestSent, claims>>
      /\ row'[m].claim = row[m].claim /\ row'[m].attempts = row[m].attempts
      /\ row'[m].status = row[m].status
      /\ \A n \in Messages : n # m => row'[n] = row[n]
      /\ newestSent \in [Messages -> Nat]
  BY DEF TimerElapses, TypeOK, queueVars, Row
<1>2. task' \in [Dispatchers -> [Messages -> Task]] /\ SweepsOnly
  <2>1. ASSUME NEW d \in Dispatchers
        PROVE  /\ task'[d] \in [Messages -> Task]
               /\ \A n \in Messages : \/ task'[d][n] = task[d][n]
                                      \/ task'[d][n] = NoTask
    <3>1. task[d] \in [Messages -> Task] /\ NoTask \in Task
      BY DEF TypeOK, Task, NoTask, NoClaim
    <3>2. \/ task'[d] = [task[d] EXCEPT ![m] = NoTask]
          \/ task'[d] = task[d]
      BY DEF TimerElapses
    <3> QED
      BY <3>1, <3>2
  <2>2. task' = [d \in Dispatchers |-> task'[d]]
    BY DEF TimerElapses
  <2> QED
    BY <2>1, <2>2 DEF SweepsOnly, NoTask
<1>3. TypeOK'
  BY <1>1, <1>2 DEF TypeOK
<1>4. RowsInv'
  BY <1>1 DEF RowsInv, RowInv
<1>5. TasksInv' /\ OneTaskPerClaim'
  BY <1>1, <1>2, <1>3, CopiesKept DEF SweepsOnly
<1> QED
  BY <1>3, <1>4, <1>5

(* A sweep keeps every row's history and touches no copy of a claim.        *)
LEMMA SweepKeepsInv ==
  ASSUME IInv, NEW d \in Dispatchers, Sweep(d) PROVE IInv'
<1> USE DEF IInv
<1>1. ASSUME NEW m \in Messages
      PROVE  /\ row'[m] \in Row
             /\ RowInv(row'[m], receipt[m], claims[m], newestSent[m],
                       recoveries[m])
             /\ row'[m].attempts = row[m].attempts
             /\ row'[m].claim \in {NoClaim, row[m].claim}
  BY SweepKeepsRow DEF RowsInv, Sweep
<1>2. /\ UNCHANGED <<receipt, recoveries, queue, newestSent, claims>>
      /\ newestSent \in [Messages -> Nat]
  BY DEF Sweep, queueVars, TypeOK
<1>3. task' \in [Dispatchers -> [Messages -> Task]] /\ SweepsOnly
  <2>1. /\ SweptTask \in Task
        /\ task' = [task EXCEPT ![d] = [m \in Messages |-> SweptTask]]
    BY DEF Sweep, SweptTask, Task, NoClaim
  <2> QED
    BY <2>1 DEF TypeOK, SweepsOnly, SweptTask
<1>4. TypeOK'
  <2>1. row' \in [Messages -> Row]
    BY <1>1 DEF Sweep
  <2> QED
    BY <1>2, <1>3, <2>1 DEF TypeOK
<1>5. RowsInv'
  BY <1>1, <1>2 DEF RowsInv
<1>6. TasksInv' /\ OneTaskPerClaim'
  BY <1>1, <1>2, <1>3, <1>4, CopiesKept DEF SweepsOnly
<1> QED
  BY <1>4, <1>5, <1>6

(* An invocation's copy moves to another phase, or is dropped.               *)
Moves(d, m, p) == task' = [task EXCEPT ![d][m].phase = p]

(* One task moves on to another phase, the others stay.                     *)
LEMMA PhaseMoves ==
  ASSUME TypeOK, NEW d \in Dispatchers, NEW m \in Messages,
         NEW p \in {"accepted", "rejected", "resolving"}, Moves(d, m, p)
  PROVE  /\ task' \in [Dispatchers -> [Messages -> Task]]
         /\ task'[d][m].phase = p
         /\ task'[d][m].claim = task[d][m].claim
         /\ task'[d][m].attempt = task[d][m].attempt
         /\ \A e \in Dispatchers, n \in Messages :
              ~(e = d /\ n = m) => task'[e][n] = task[e][n]
<1> DEFINE t == [task[d][m] EXCEPT !.phase = p]
<1>1. task \in [Dispatchers -> [Messages -> Task]] /\ task[d][m] \in Task
  BY DEF TypeOK
<1>2. /\ t \in Task /\ t.phase = p
      /\ t.claim = task[d][m].claim /\ t.attempt = task[d][m].attempt
  BY <1>1 DEF Task
<1>3. task' = [task EXCEPT ![d] = [task[d] EXCEPT ![m] = t]]
  BY <1>1 DEF Moves
<1> HIDE DEF t
<1> QED
  BY <1>1, <1>2, <1>3

(* One task is forgotten, the others stay.                                  *)
LEMMA TaskSettles ==
  ASSUME TypeOK, NEW d \in Dispatchers, NEW m \in Messages, Settle(d, m)
  PROVE  /\ task' \in [Dispatchers -> [Messages -> Task]]
         /\ task'[d][m].phase = "none"
         /\ \A e \in Dispatchers, n \in Messages :
              ~(e = d /\ n = m) => task'[e][n] = task[e][n]
<1>1. task' = [task EXCEPT ![d] = [task[d] EXCEPT ![m] = NoTask]]
  BY DEF Settle, TypeOK
<1>2. NoTask \in Task /\ NoTask.phase = "none"
  BY DEF NoTask, Task, NoClaim
<1> QED
  BY <1>1, <1>2 DEF TypeOK

(* All tasks of one invocation are forgotten, the others stay.              *)
LEMMA InvocationEnds ==
  ASSUME TypeOK, NEW d \in Dispatchers, task' = [task EXCEPT ![d] = Idle]
  PROVE  /\ task' \in [Dispatchers -> [Messages -> Task]]
         /\ \A n \in Messages : task'[d][n].phase = "none"
         /\ \A e \in Dispatchers, n \in Messages :
              e # d => task'[e][n] = task[e][n]
BY DEF TypeOK, Idle, NoTask, Task, NoClaim

(* Once the Queue took the job of claim c, the newest claim it took is at   *)
(* least c, and still one that was granted.                                 *)
LEMMA PublishKeepsInv ==
  ASSUME IInv, NEW d \in Dispatchers, NEW m \in Messages, Publish(d, m)
  PROVE  IInv'
<1> USE DEF IInv
<1>0. /\ task[d][m].phase = "claimed" /\ task[d][m] \in Task
      /\ task[d][m].claim \in 1..claims[m] /\ claims[m] \in Nat
      /\ newestSent[m] \in Nat
  BY DEF Publish, TypeOK, TasksInv, TaskInv
<1>1. PICK outcome \in {"accepted", "rejected"}, enqueued \in BOOLEAN :
        /\ outcome = "accepted" => enqueued
        /\ task' = [task EXCEPT ![d][m].phase = outcome]
        /\ IF enqueued
           THEN /\ queue' = [queue EXCEPT ![m] = TRUE]
                /\ newestSent' = [newestSent EXCEPT ![m] =
                     IF task[d][m].claim > @ THEN task[d][m].claim ELSE @]
           ELSE UNCHANGED queueVars
  BY DEF Publish
<1>2. UNCHANGED <<row, receipt, recoveries, claims>>
  BY DEF Publish, dbVars
<1>3. /\ newestSent' \in [Messages -> Nat]
      /\ \A n \in Messages : newestSent'[n] >= newestSent[n]
      /\ \A n \in Messages : n # m => newestSent'[n] = newestSent[n]
      /\ newestSent'[m] \in {newestSent[m], task[d][m].claim}
      /\ outcome = "accepted" => newestSent'[m] >= task[d][m].claim
  <2> DEFINE c == task[d][m].claim
             top == IF c > newestSent[m] THEN c ELSE newestSent[m]
  <2>1. newestSent \in [Messages -> Nat] /\ c \in Nat
    BY <1>0 DEF TypeOK
  <2>2. newestSent' = newestSent \/ newestSent' = [newestSent EXCEPT ![m] = top]
    BY <1>1 DEF queueVars
  <2>3. outcome = "accepted" => newestSent' = [newestSent EXCEPT ![m] = top]
    BY <1>1
  <2>4. top \in Nat /\ top >= c /\ top >= newestSent[m] /\ top \in {newestSent[m], c}
    BY <2>1
  <2>5. \A n \in Messages : newestSent[n] >= newestSent[n]
    BY <2>1
  <2> HIDE DEF c, top
  <2>6. /\ newestSent' \in [Messages -> Nat]
        /\ \A n \in Messages : newestSent'[n] >= newestSent[n]
        /\ \A n \in Messages : n # m => newestSent'[n] = newestSent[n]
        /\ newestSent'[m] \in {newestSent[m], c}
        /\ outcome = "accepted" => newestSent'[m] >= c
    BY <2>1, <2>2, <2>3, <2>4, <2>5
  <2> QED
    BY <2>6 DEF c
<1>4. /\ queue' \in [Messages -> BOOLEAN]
      /\ \A n \in Messages : n # m => queue'[n] = queue[n]
  BY <1>1 DEF queueVars, TypeOK
<1>9. Moves(d, m, outcome)
  BY <1>1 DEF Moves
<1>5. /\ task' \in [Dispatchers -> [Messages -> Task]]
      /\ task'[d][m].phase = outcome
      /\ task'[d][m].claim = task[d][m].claim
      /\ task'[d][m].attempt = task[d][m].attempt
      /\ \A e \in Dispatchers, n \in Messages :
           ~(e = d /\ n = m) => task'[e][n] = task[e][n]
  BY <1>9, PhaseMoves
<1>6. TypeOK'
  BY <1>2, <1>3, <1>4, <1>5 DEF TypeOK
<1>7. RowsInv'
  <2> SUFFICES ASSUME NEW n \in Messages
               PROVE  /\ RowInv(row[n], receipt[n], claims[n],
                                newestSent'[n], recoveries[n])
                      /\ claims[n] = 0 => ~queue'[n] /\ ~receipt[n]
    BY <1>2 DEF RowsInv
  <2>1. CASE n = m
    <3>1. /\ newestSent'[m] <= claims[m] /\ claims[m] # 0
          /\ newestSent[m] = claims[m] => newestSent'[m] = claims[m]
      <4>1. newestSent[m] <= claims[m] /\ newestSent'[m] \in Nat
        BY <1>3 DEF RowsInv, RowInv
      <4> QED
        BY <1>0, <1>3, <4>1
    <3> QED
      BY <2>1, <3>1 DEF RowsInv, RowInv
  <2>2. CASE n # m
    BY <1>3, <1>4, <2>2 DEF RowsInv
  <2> QED
    BY <2>1, <2>2
<1>8. TasksInv' /\ OneTaskPerClaim'
  BY <1>0, <1>2, <1>3, <1>5, <1>6, CopiesKept
<1> QED
  BY <1>6, <1>7, <1>8
(* An invocation that finds its claim gone writes nothing.                   *)
FindsClaimGone(d, m) ==
  /\ HasClaimed(task[d][m])
  /\ Moves(d, m, "resolving")
  /\ UNCHANGED <<row, receipt, recoveries, queue, newestSent, claims>>

(* A task that finds its claim gone writes nothing to the row.              *)
LEMMA LostClaimKeepsInv ==
  ASSUME IInv, NEW d \in Dispatchers, NEW m \in Messages, FindsClaimGone(d, m)
  PROVE  IInv'
<1> USE DEF IInv
<1>1. PICK p \in {"rejected", "resolving"} : Moves(d, m, p)
  BY DEF FindsClaimGone
<1>2. /\ task' \in [Dispatchers -> [Messages -> Task]]
      /\ task'[d][m].phase = p
      /\ task'[d][m].claim = task[d][m].claim
      /\ task'[d][m].attempt = task[d][m].attempt
      /\ \A e \in Dispatchers, n \in Messages :
           ~(e = d /\ n = m) => task'[e][n] = task[e][n]
  BY <1>1, PhaseMoves
<1>3. /\ UNCHANGED <<row, receipt, recoveries, queue, newestSent, claims>>
      /\ HasClaimed(task[d][m])
  BY DEF FindsClaimGone
<1>4. TypeOK' /\ RowsInv' /\ newestSent \in [Messages -> Nat]
  BY <1>2, <1>3 DEF TypeOK, RowsInv
<1>5. TasksInv' /\ OneTaskPerClaim'
  BY <1>1, <1>2, <1>3, <1>4, CopiesKept
<1> QED
  BY <1>4, <1>5

(* Only the holder of the row's claim writes its outcome; by then the Queue *)
(* took the newest claim's job.                                             *)
LEMMA MarkPublishedKeepsInv ==
  ASSUME IInv, NEW d \in Dispatchers, NEW m \in Messages, MarkPublished(d, m)
  PROVE  IInv'
<1> USE DEF IInv
<1>0. /\ task[d][m].phase = "accepted"
      /\ task[d][m].claim \in 1..claims[m]
      /\ newestSent[m] >= task[d][m].claim
      /\ newestSent \in [Messages -> Nat] /\ claims \in [Messages -> Nat]
      /\ RowInv(row[m], receipt[m], claims[m], newestSent[m], recoveries[m])
  BY DEF MarkPublished, TypeOK, TasksInv, TaskInv, RowsInv
<1>1. UNCHANGED <<receipt, recoveries, queue, newestSent, claims>>
  BY DEF MarkPublished, queueVars
<1>2. CASE OwnsClaim(d, m)
  <2>1. /\ row' = [row EXCEPT ![m].status = "published",
                              ![m].claim = NoClaim, ![m].elapsed = FALSE]
        /\ Settle(d, m)
    BY <1>2 DEF MarkPublished
  <2>2. /\ row' \in [Messages -> Row]
        /\ row'[m].status = "published" /\ row'[m].claim = NoClaim
        /\ row'[m].attempts = row[m].attempts
        /\ \A n \in Messages : n # m => row'[n] = row[n]
    BY <2>1 DEF TypeOK, Row, NoClaim
  <2>3. /\ task' \in [Dispatchers -> [Messages -> Task]]
        /\ task'[d][m].phase = "none"
        /\ \A e \in Dispatchers, n \in Messages :
             ~(e = d /\ n = m) => task'[e][n] = task[e][n]
    BY <2>1, TaskSettles
  <2>4. TypeOK'
    BY <1>1, <2>2, <2>3 DEF TypeOK
  <2>5. RowsInv'
    <3>1. newestSent[m] = claims[m]
      <4>1. row[m].claim = task[d][m].claim /\ row[m].claim # NoClaim
        BY <1>0, <1>2 DEF OwnsClaim, NoClaim
      <4> QED
        BY <1>0, <4>1 DEF RowInv
    <3>2. RowInv(row'[m], receipt[m], claims[m], newestSent[m], recoveries[m])
      BY <1>0, <2>2, <3>1 DEF RowInv
    <3> QED
      BY <1>1, <2>2, <3>2 DEF RowsInv
  <2>6. TasksInv' /\ OneTaskPerClaim'
    BY <1>0, <1>1, <2>2, <2>3, <2>4, CopiesKept
  <2> QED
    BY <2>4, <2>5, <2>6
<1>3. CASE ~OwnsClaim(d, m)
  <2>1. HasClaimed(task[d][m])
    BY <1>0
  <2>2. task' = [task EXCEPT ![d][m].phase = "resolving"] /\ UNCHANGED row
    BY <1>3 DEF MarkPublished
  <2> QED
    BY <1>1, <2>1, <2>2, LostClaimKeepsInv DEF FindsClaimGone, Moves
<1> QED
  BY <1>2, <1>3

(* A recorded failure is final only for the attempt that used the budget up. *)
LEMMA RecordFailureKeepsInv ==
  ASSUME IInv, NEW d \in Dispatchers, NEW m \in Messages,
         RecordPublicationFailure(d, m)
  PROVE  IInv'
<1> USE DEF IInv
<1>0. /\ task[d][m].phase = "rejected"
      /\ task[d][m].claim = row[m].claim => task[d][m].attempt = row[m].attempts
      /\ newestSent \in [Messages -> Nat]
      /\ RowInv(row[m], receipt[m], claims[m], newestSent[m], recoveries[m])
  BY DEF RecordPublicationFailure, TypeOK, TasksInv, TaskInv, RowsInv
<1>1. UNCHANGED <<receipt, recoveries, queue, newestSent, claims>>
  BY DEF RecordPublicationFailure, queueVars
<1>2. CASE OwnsClaim(d, m)
  <2> DEFINE fate == IF task[d][m].attempt >= MaxAttempts
                     THEN "failed" ELSE "pending"
  <2>1. /\ row' = [row EXCEPT ![m].status = fate,
                              ![m].claim = NoClaim, ![m].elapsed = FALSE]
        /\ Settle(d, m)
    BY <1>2 DEF RecordPublicationFailure
  <2>2. /\ fate \in {"failed", "pending"}
        /\ fate = "failed" => row[m].attempts >= MaxAttempts
    BY <1>0, <1>2 DEF OwnsClaim
  <2> HIDE DEF fate
  <2>3. /\ row' \in [Messages -> Row]
        /\ row'[m].status = fate /\ row'[m].claim = NoClaim
        /\ row'[m].attempts = row[m].attempts
        /\ \A n \in Messages : n # m => row'[n] = row[n]
    BY <2>1, <2>2 DEF TypeOK, Row, NoClaim
  <2>4. /\ task' \in [Dispatchers -> [Messages -> Task]]
        /\ task'[d][m].phase = "none"
        /\ \A e \in Dispatchers, n \in Messages :
             ~(e = d /\ n = m) => task'[e][n] = task[e][n]
    BY <2>1, TaskSettles
  <2>5. TypeOK'
    BY <1>1, <2>3, <2>4 DEF TypeOK
  <2>6. RowsInv'
    <3>1. RowInv(row'[m], receipt[m], claims[m], newestSent[m], recoveries[m])
      BY <1>0, <2>2, <2>3 DEF RowInv
    <3> QED
      BY <1>1, <2>3, <3>1 DEF RowsInv
  <2>7. TasksInv' /\ OneTaskPerClaim'
    BY <1>0, <1>1, <2>3, <2>4, <2>5, CopiesKept
  <2> QED
    BY <2>5, <2>6, <2>7
<1>3. CASE ~OwnsClaim(d, m)
  <2>1. HasClaimed(task[d][m])
    BY <1>0
  <2>2. task' = [task EXCEPT ![d][m].phase = "resolving"] /\ UNCHANGED row
    BY <1>3 DEF RecordPublicationFailure
  <2> QED
    BY <1>1, <2>1, <2>2, LostClaimKeepsInv DEF FindsClaimGone, Moves
<1> QED
  BY <1>2, <1>3

(* Resolving a lost claim ends the task or its invocation.                  *)
LEMMA ResolveKeepsInv ==
  ASSUME IInv, NEW d \in Dispatchers, NEW m \in Messages,
         ResolveClaimTransition(d, m)
  PROVE  IInv'
<1> USE DEF IInv
<1>1. /\ UNCHANGED <<row, receipt, recoveries, queue, newestSent, claims>>
      /\ newestSent \in [Messages -> Nat]
      /\ Settle(d, m) \/ task' = [task EXCEPT ![d] = Idle]
  BY DEF ResolveClaimTransition, dbVars, queueVars, TypeOK
<1>2. /\ task' \in [Dispatchers -> [Messages -> Task]]
      /\ \A e \in Dispatchers, n \in Messages :
           task'[e][n].phase = "none" \/ task'[e][n] = task[e][n]
  BY <1>1, TaskSettles, InvocationEnds
<1>3. TypeOK' /\ RowsInv'
  BY <1>1, <1>2 DEF TypeOK, RowsInv
<1>4. TasksInv' /\ OneTaskPerClaim'
  BY <1>1, <1>2, <1>3, CopiesKept
<1> QED
  BY <1>3, <1>4

(* An aborted invocation leaves its claims on the rows.                     *)
LEMMA AbortKeepsInv ==
  ASSUME IInv, NEW d \in Dispatchers, AbortDispatch(d) PROVE IInv'
<1> USE DEF IInv
<1>1. /\ UNCHANGED <<row, receipt, recoveries, queue, newestSent, claims>>
      /\ newestSent \in [Messages -> Nat]
      /\ task' = [task EXCEPT ![d] = Idle]
  BY DEF AbortDispatch, dbVars, queueVars, TypeOK
<1>2. /\ task' \in [Dispatchers -> [Messages -> Task]]
      /\ \A e \in Dispatchers, n \in Messages :
           task'[e][n].phase = "none" \/ task'[e][n] = task[e][n]
  BY <1>1, InvocationEnds
<1>3. TypeOK' /\ RowsInv'
  BY <1>1, <1>2 DEF TypeOK, RowsInv
<1>4. TasksInv' /\ OneTaskPerClaim'
  BY <1>1, <1>2, <1>3, CopiesKept
<1> QED
  BY <1>3, <1>4

(* A receipt or a settled job changes no claim.                             *)
LEMMA ConsumerKeepsInv ==
  ASSUME IInv, NEW m \in Messages, RecordConsumption(m) \/ SettleJob(m)
  PROVE  IInv'
<1> USE DEF IInv
<1>1. /\ UNCHANGED <<row, recoveries, newestSent, task, claims>>
      /\ newestSent \in [Messages -> Nat]
      /\ queue[m]
  BY DEF RecordConsumption, SettleJob, dbVars, queueVars, TypeOK
<1>2. /\ receipt' \in [Messages -> BOOLEAN] /\ queue' \in [Messages -> BOOLEAN]
      /\ \A n \in Messages : receipt[n] => receipt'[n]
      /\ \A n \in Messages : n # m => receipt'[n] = receipt[n]
                                      /\ queue'[n] = queue[n]
  <2>1. CASE RecordConsumption(m)
    BY <2>1 DEF RecordConsumption, queueVars, TypeOK
  <2>2. CASE SettleJob(m)
    BY <2>2 DEF SettleJob, dbVars, TypeOK
  <2> QED
    BY <2>1, <2>2
<1>3. TypeOK'
  BY <1>1, <1>2 DEF TypeOK
<1>4. RowsInv'
  <2>1. claims[m] # 0
    BY <1>1 DEF RowsInv
  <2> QED
    BY <1>1, <1>2, <2>1 DEF RowsInv, RowInv
<1>5. TasksInv' /\ OneTaskPerClaim'
  BY <1>1, <1>3, CopiesKept
<1> QED
  BY <1>3, <1>4, <1>5

(* An operator's recovery opens one more whole budget.                       *)
LEMMA RecoverKeepsInv ==
  ASSUME IInv, NEW m \in Messages, RecoverFailedPublication(m) PROVE IInv'
<1> USE DEF IInv
<1>1. TypeOK'
  BY DEF RecoverFailedPublication, TypeOK, queueVars, Row, NoClaim
<1>2. /\ UNCHANGED <<receipt, queue, newestSent, task, claims>>
      /\ row'[m].claim = NoClaim /\ row'[m].attempts = 0
      /\ row'[m].status = "pending" /\ recoveries'[m] = recoveries[m] + 1
      /\ \A n \in Messages : n # m => row'[n] = row[n]
                                      /\ recoveries'[n] = recoveries[n]
      /\ newestSent \in [Messages -> Nat] /\ claims[m] \in Nat
      /\ recoveries[m] \in Nat /\ row[m].attempts \in Nat
  BY DEF RecoverFailedPublication, TypeOK, queueVars, Row
<1>3. RowsInv'
  <2>1. /\ claims[m] <= MaxAttempts * recoveries[m] + row[m].attempts
        /\ row[m].attempts <= MaxAttempts /\ newestSent[m] <= claims[m]
    BY DEF RowsInv, RowInv
  <2>2. claims[m] <= MaxAttempts * (recoveries[m] + 1)
    <3> DEFINE b == MaxAttempts * recoveries[m]
               c == MaxAttempts * (recoveries[m] + 1)
    <3>1. b \in Nat /\ c \in Nat /\ b + row[m].attempts <= c
      BY <1>2, <2>1, BudgetArithmetic
    <3>2. claims[m] <= b + row[m].attempts
      BY <2>1
    <3> HIDE DEF b, c
    <3>3. claims[m] <= c
      BY <1>2, <3>1, <3>2
    <3> QED
      BY <3>3 DEF c
  <2>3. MaxAttempts \in Nat /\ MaxAttempts * (recoveries[m] + 1) \in Nat
    BY <1>2, <2>1, BoundsAssumption, BudgetArithmetic
  <2>4. RowInv(row'[m], receipt[m], claims[m], newestSent[m], recoveries'[m])
    <3> DEFINE c == MaxAttempts * recoveries'[m]
    <3>1. c \in Nat /\ claims[m] <= c
      BY <1>2, <2>2, <2>3
    <3> HIDE DEF c
    <3>2. claims[m] <= c + row'[m].attempts
      BY <1>2, <3>1
    <3> QED
      BY <1>2, <2>1, <2>3, <3>2 DEF RowInv, c
  <2> QED
    BY <1>2, <2>4 DEF RowsInv
<1>4. TasksInv' /\ OneTaskPerClaim'
  BY <1>1, <1>2, CopiesKept
<1> QED
  BY <1>1, <1>3, <1>4
-----------------------------------------------------------------------------
(* Every step keeps the invariant, one lemma per action.                    *)
LEMMA NextKeepsInv == IInv /\ [Next]_vars => IInv'
<1> SUFFICES ASSUME IInv, [Next]_vars PROVE IInv'
  OBVIOUS
<1>1. ASSUME NEW d \in Dispatchers, Sweep(d) \/ Work(d) PROVE IInv'
  BY <1>1, SweepKeepsInv, ClaimKeepsInv, AbortKeepsInv, PublishKeepsInv,
     MarkPublishedKeepsInv, RecordFailureKeepsInv, ResolveKeepsInv
     DEF Work, ClaimPending
<1>2. ASSUME NEW m \in Messages,
             \/ Enqueue(m) \/ TimerElapses(m) \/ RecordConsumption(m)
             \/ SettleJob(m) \/ RecoverFailedPublication(m)
      PROVE  IInv'
  BY <1>2, EnqueueKeepsInv, TimerKeepsInv, ConsumerKeepsInv, RecoverKeepsInv
<1>3. CASE UNCHANGED vars
  BY <1>3 DEF vars, IInv, TypeOK, RowsInv, RowInv, TasksInv, TaskInv,
     OneTaskPerClaim
<1> QED
  BY <1>1, <1>2, <1>3 DEF Next

(* In every reachable state the rows, the claims granted on them and the    *)
(* invocations that hold a copy of a claim agree.                           *)
THEOREM InductiveInvariant == Spec => []IInv
<1> QED
  BY InitInv, NextKeepsInv, PTL DEF Spec

(* Every reachable state of the outbox is well typed. *)
THEOREM TypeCorrect == Spec => []TypeOK
<1>1. IInv => TypeOK
  BY DEF IInv
<1> QED
  BY <1>1, InductiveInvariant, PTL

(* No row is failed with publication attempts left: neither the sweep nor   *)
(* recordPublicationFailure, whenever it runs, fails a row early.           *)
THEOREM FailureSpentTheBudget == Spec => []FailedSpentItsBudget
<1>1. IInv => FailedSpentItsBudget
  BY DEF IInv, RowsInv, RowInv, FailedSpentItsBudget
<1> QED
  BY <1>1, InductiveInvariant, PTL

(* claimPending never grants a message more claims than its budget, once    *)
(* and once more for each operator recovery.                                *)
THEOREM ClaimsStayInBudget == Spec => []PublicationBudget
<1>1. IInv => PublicationBudget
  <2> SUFFICES ASSUME IInv, NEW m \in Messages
               PROVE  claims[m] <= MaxAttempts * (recoveries[m] + 1)
    BY DEF PublicationBudget
  <2> DEFINE b == MaxAttempts * recoveries[m]
             c == MaxAttempts * (recoveries[m] + 1)
  <2>1. /\ claims[m] <= b + row[m].attempts /\ row[m].attempts <= MaxAttempts
        /\ claims[m] \in Nat /\ recoveries[m] \in Nat /\ row[m].attempts \in Nat
    BY DEF IInv, RowsInv, RowInv, TypeOK, Row
  <2>2. b \in Nat /\ c \in Nat /\ b + row[m].attempts <= c
    BY <2>1, BudgetArithmetic
  <2> HIDE DEF b, c
  <2>3. claims[m] <= c
    BY <2>1, <2>2
  <2> QED
    BY <2>3 DEF c
<1> QED
  BY <1>1, InductiveInvariant, PTL

(* A row is "published" only once it is receipted or the Queue took the job *)
(* of the newest claim: no superseded dispatcher publishes it.              *)
THEOREM PublicationHasEvidence == Spec => []PublishedOnEvidence
<1>1. IInv => PublishedOnEvidence
  BY DEF IInv, RowsInv, RowInv, PublishedOnEvidence
<1> QED
  BY <1>1, InductiveInvariant, PTL

(* At most one invocation passes the guard of markPublished and of          *)
(* recordPublicationFailure for a row.                                      *)
THEOREM OutcomeHasOneWriter == Spec => []ClaimIsExclusive
<1>1. IInv => ClaimIsExclusive
  BY DEF IInv, OneTaskPerClaim, ClaimIsExclusive, OwnsClaim
<1> QED
  BY <1>1, InductiveInvariant, PTL
-----------------------------------------------------------------------------
(* The row of a consumed message, once published, is out of reach.          *)
Settled(m) == receipt[m] /\ row[m].status = "published"

(* No sweep, claim, late outcome or recovery moves a settled row.           *)
LEMMA SettledStays ==
  ASSUME IInv, Next, NEW m \in Messages, Settled(m)
  PROVE  Settled(m)' /\ claims'[m] = claims[m]
<1>0. /\ row \in [Messages -> Row] /\ receipt \in [Messages -> BOOLEAN]
      /\ row[m].status = "published" /\ receipt[m]
  BY DEF IInv, TypeOK, Settled
<1>1. ASSUME NEW d \in Dispatchers, Sweep(d)
      PROVE  Settled(m)' /\ claims'[m] = claims[m]
  <2>1. Swept(m).status = "published"
    BY <1>0, SweepKeepsRow DEF IInv, RowsInv
  <2> QED
    BY <1>0, <1>1, <2>1 DEF Sweep, Settled
<1>2. ASSUME NEW d \in Dispatchers, NEW batch \in SUBSET Messages,
             ClaimBatch(d, batch)
      PROVE  Settled(m)' /\ claims'[m] = claims[m]
  <2>1. m \notin batch
    BY <1>0, <1>2 DEF ClaimBatch, Claimable
  <2> QED
    BY <1>0, <1>2, <2>1 DEF ClaimBatch, Settled
<1>3. ASSUME NEW d \in Dispatchers, NEW n \in Messages,
             MarkPublished(d, n) \/ RecordPublicationFailure(d, n)
      PROVE  Settled(m)' /\ claims'[m] = claims[m]
  <2>1. row'[m] = row[m]
    BY <1>0, <1>3 DEF MarkPublished, RecordPublicationFailure, OwnsClaim
  <2> QED
    BY <1>0, <1>3, <2>1 DEF MarkPublished, RecordPublicationFailure, Settled
<1>4. ASSUME NEW n \in Messages,
             \/ Enqueue(n) \/ TimerElapses(n) \/ RecoverFailedPublication(n)
      PROVE  Settled(m)' /\ claims'[m] = claims[m]
  <2>1. row'[m].status = "published" /\ receipt' = receipt /\ claims' = claims
    BY <1>0, <1>4
       DEF Enqueue, TimerElapses, RecoverFailedPublication, Row
  <2> QED
    BY <1>0, <2>1 DEF Settled
<1>5. ASSUME NEW n \in Messages, RecordConsumption(n) \/ SettleJob(n)
      PROVE  Settled(m)' /\ claims'[m] = claims[m]
  BY <1>0, <1>5 DEF RecordConsumption, SettleJob, Settled, dbVars
<1>6. ASSUME NEW d \in Dispatchers, NEW n \in Messages,
             \/ Publish(d, n) \/ ResolveClaimTransition(d, n)
             \/ AbortDispatch(d)
      PROVE  Settled(m)' /\ claims'[m] = claims[m]
  BY <1>0, <1>6
     DEF Publish, ResolveClaimTransition, AbortDispatch, Settled, dbVars
<1> QED
  BY <1>1, <1>2, <1>3, <1>4, <1>5, <1>6 DEF Next, Work, ClaimPending

(* claimPending, the outcome updates and the operator's recovery leave a    *)
(* consumed message alone once its row is published.                        *)
THEOREM ConsumedStaysSettled == Spec => ConsumedIsSettled
<1>1. IInv /\ [Next]_vars =>
        [\A m \in Messages :
           receipt[m] /\ row[m].status = "published"
             => row'[m].status = "published" /\ claims'[m] = claims[m]]_vars
  BY SettledStays DEF Settled
<1> QED
  BY <1>1, InductiveInvariant, PTL DEF Spec, ConsumedIsSettled

(* Only a sweep begins tries: every other step leaves the invocations that  *)
(* may still claim a message, or takes some of them away.                   *)
LEMMA OnlySweepsBegin ==
  ASSUME IInv, Next, NEW m \in Messages,
         \A d \in Dispatchers : ~Sweep(d)
  PROVE  Sweeping(m)' \subseteq Sweeping(m)
<1> SUFFICES ASSUME NEW e \in Dispatchers, task'[e][m] = SweptTask
             PROVE  task[e][m] = SweptTask
  BY DEF Sweeping
<1>0. task \in [Dispatchers -> [Messages -> Task]] /\ NoTask # SweptTask
  BY DEF IInv, TypeOK, NoTask, SweptTask
<1>1. ASSUME NEW d \in Dispatchers, NEW batch \in SUBSET Messages,
             ClaimBatch(d, batch)
      PROVE  task[e][m] = SweptTask
  <2>1. task'[d][m] # SweptTask
    BY <1>0, <1>1 DEF ClaimBatch, SweptTask
  <2> QED
    BY <1>0, <1>1, <2>1 DEF ClaimBatch
<1>2. ASSUME NEW d \in Dispatchers, NEW n \in Messages,
             NEW p \in {"accepted", "rejected", "resolving"}, Moves(d, n, p)
      PROVE  task[e][m] = SweptTask
  <2>1. /\ task'[d][n].phase = p
        /\ ~(e = d /\ m = n) => task'[e][m] = task[e][m]
    BY <1>2, PhaseMoves DEF IInv
  <2> QED
    BY <2>1 DEF SweptTask
<1>3. ASSUME NEW d \in Dispatchers, NEW n \in Messages, Settle(d, n)
      PROVE  task[e][m] = SweptTask
  <2>1. /\ task'[d][n].phase = "none"
        /\ ~(e = d /\ m = n) => task'[e][m] = task[e][m]
    BY <1>3, TaskSettles DEF IInv
  <2> QED
    BY <2>1 DEF SweptTask
<1>4. ASSUME NEW d \in Dispatchers, task' = [task EXCEPT ![d] = Idle]
      PROVE  task[e][m] = SweptTask
  <2>1. /\ task'[d][m].phase = "none"
        /\ e # d => task'[e][m] = task[e][m]
    BY <1>4, InvocationEnds DEF IInv
  <2> QED
    BY <2>1 DEF SweptTask
<1>5. CASE UNCHANGED task
  BY <1>5
<1>6. ASSUME NEW n \in Messages, TimerElapses(n)
      PROVE  task[e][m] = SweptTask
  <2>1. \/ task'[e] = [task[e] EXCEPT ![n] = NoTask]
        \/ task'[e] = task[e]
    BY <1>6 DEF TimerElapses
  <2> QED
    BY <1>0, <2>1
<1>7. ASSUME NEW d \in Dispatchers, NEW n \in Messages,
             \/ Publish(d, n) \/ MarkPublished(d, n)
             \/ RecordPublicationFailure(d, n) \/ ResolveClaimTransition(d, n)
      PROVE  task[e][m] = SweptTask
  BY <1>2, <1>3, <1>4, <1>7 DEF Publish, MarkPublished,
     RecordPublicationFailure, ResolveClaimTransition, Moves
<1>8. ASSUME NEW d \in Dispatchers, AbortDispatch(d)
      PROVE  task[e][m] = SweptTask
  BY <1>4, <1>8 DEF AbortDispatch
<1>9. ASSUME NEW n \in Messages,
             \/ Enqueue(n) \/ RecordConsumption(n) \/ SettleJob(n)
             \/ RecoverFailedPublication(n)
      PROVE  task[e][m] = SweptTask
  BY <1>5, <1>9 DEF Enqueue, RecordConsumption, SettleJob,
     RecoverFailedPublication
<1> QED
  BY <1>1, <1>6, <1>7, <1>8, <1>9 DEF Next, Work, ClaimPending

(* The number of begun tries is a natural number, falls with the set of     *)
(* sweeping invocations, and is nil once the message is settled.            *)
LEMMA BegunCounts ==
  ASSUME NEW m \in Messages
  PROVE  /\ Begun(m) \in Nat /\ Begun(m)' \in Nat
         /\ Settled(m)' => Begun(m)' <= Begun(m)
         /\ ~Settled(m) /\ Sweeping(m)' \subseteq Sweeping(m)
              => Begun(m)' <= Begun(m)
         /\ ~Settled(m) /\ Sweeping(m)' \subseteq Sweeping(m)
              => Sweeping(m)' = Sweeping(m) \/ Begun(m)' < Begun(m)
<1>1. Sweeping(m) \subseteq Dispatchers /\ Sweeping(m)' \subseteq Dispatchers
  BY DEF Sweeping
<1>2. PICK s, t : s = Sweeping(m) /\ t = Sweeping(m)'
  OBVIOUS
<1>3. /\ IsFiniteSet(s) /\ IsFiniteSet(t)
      /\ Cardinality(s) \in Nat /\ Cardinality(t) \in Nat
  BY <1>1, <1>2, BoundsAssumption, FS_Subset, FS_CardinalityType
<1>4. t \subseteq s => Cardinality(t) <= Cardinality(s)
  BY <1>3, FS_Subset
<1>5. t \subseteq s /\ t # s => Cardinality(t) < Cardinality(s)
  BY <1>3, <1>4, FS_Subset
<1>6. /\ Begun(m) = IF Settled(m) THEN 0 ELSE Cardinality(s)
      /\ Begun(m)' = IF Settled(m)' THEN 0 ELSE Cardinality(t)
  BY <1>2 DEF Begun, Settled
<1> QED
  BY <1>2, <1>3, <1>4, <1>5, <1>6

-----------------------------------------------------------------------------
(* The outbox implements its promise: what one step does to a message.      *)
PromisedStep(m) ==
  LET before == Fate(m)  after == Fate(m)'
      tried == row[m].attempts  tries == row'[m].attempts
  IN \/ after = before /\ tries = tried
     \/ before = "absent" /\ after = "open" /\ tries = 0
     \/ /\ before \in {"open", "consumed"} /\ after = before
        /\ tried < MaxAttempts /\ tries = tried + 1
        /\ Begun(m)' < Begun(m)
     \/ before \in {"open", "given_up"} /\ after = "consumed" /\ tries = tried
     \/ before = "open" /\ after = "given_up" /\ tried >= MaxAttempts /\ tries = tried
     \/ before = "given_up" /\ after = "open" /\ tries = 0

(* Once a message is consumed, no step begins a try: a sweep settles it.    *)
LEMMA NoTryBeginsLate ==
  ASSUME IInv, Next, NEW m \in Messages, Fate(m) = "consumed"
  PROVE  Begun(m)' <= Begun(m)
<1>0. /\ receipt[m] /\ row[m].status # "absent"
      /\ row \in [Messages -> Row]
  BY DEF Fate, IInv, TypeOK
<1>1. ASSUME NEW d \in Dispatchers, Sweep(d) PROVE Settled(m)'
  <2>1. Swept(m).status = "published"
    BY <1>0, SweepKeepsRow DEF IInv, RowsInv
  <2> QED
    BY <1>0, <1>1, <2>1 DEF Sweep, Settled
<1>2. CASE Settled(m)
  BY <1>2, SettledStays, BegunCounts
<1>3. CASE ~Settled(m)
  BY <1>1, <1>3, OnlySweepsBegin, BegunCounts
<1> QED
  BY <1>2, <1>3

(* A claim spends a try that had begun, within the message's budget.        *)
LEMMA ClaimIsPromised ==
  ASSUME IInv, NEW d \in Dispatchers, NEW batch \in SUBSET Messages,
         ClaimBatch(d, batch), NEW m \in Messages
  PROVE  PromisedStep(m)
<1>1. /\ row[m] \in Row /\ claims[m] \in Nat /\ receipt' = receipt
      /\ task \in [Dispatchers -> [Messages -> Task]]
  BY DEF IInv, TypeOK, ClaimBatch
<1>2. CASE m \in batch
  <2>1. /\ Claimable(row[m]) /\ row'[m] = Claimed(row[m], claims[m] + 1)
        /\ task[d][m] = SweptTask /\ task'[d][m] # SweptTask
    BY <1>1, <1>2 DEF ClaimBatch, SweptTask
  <2>2. /\ row[m].status = "pending" /\ row'[m].status = "pending"
        /\ row[m].attempts < MaxAttempts
        /\ row'[m].attempts = row[m].attempts + 1
    BY <1>1, <2>1, ClaimedRow DEF Claimable
  <2>3. /\ Fate(m) \in {"open", "consumed"} /\ Fate(m)' = Fate(m)
        /\ ~Settled(m)
    BY <1>1, <2>2 DEF Fate, Settled
  <2>4. /\ d \in Sweeping(m) /\ d \notin Sweeping(m)'
        /\ Sweeping(m)' \subseteq Sweeping(m)
    <3>1. \A e \in Dispatchers : e # d => task'[e][m] = task[e][m]
      BY <1>1 DEF ClaimBatch
    <3> QED
      BY <2>1, <3>1 DEF Sweeping
  <2>5. Begun(m)' < Begun(m)
    BY <2>3, <2>4, BegunCounts
  <2> QED
    BY <2>2, <2>3, <2>5 DEF PromisedStep
<1>3. CASE m \notin batch
  <2>1. row'[m] = row[m]
    BY <1>3 DEF ClaimBatch
  <2> QED
    BY <1>1, <2>1 DEF PromisedStep, Fate
<1> QED
  BY <1>2, <1>3

(* A sweep gives up messages whose budget is spent, and reopens none.       *)
LEMMA SweepIsPromised ==
  ASSUME IInv, NEW d \in Dispatchers, Sweep(d), NEW m \in Messages
  PROVE  PromisedStep(m)
<1> DEFINE r == Swept(m)
<1>1. /\ row[m] \in Row /\ receipt[m] \in BOOLEAN /\ MaxAttempts \in Nat
      /\ row'[m] = r /\ receipt' = receipt
  BY BoundsAssumption DEF IInv, TypeOK, Sweep
<1>2. /\ r \in Row /\ r.attempts = row[m].attempts
      /\ r.status = "failed" => r.attempts >= MaxAttempts
      /\ r.status = "absent" <=> row[m].status = "absent"
  BY SweepKeepsRow DEF IInv, RowsInv, RowInv
<1>3. row[m].status = "failed" /\ ~receipt[m] => r.status = "failed"
  BY <1>1 DEF Swept, Reconciled, Requeued, Exhausted
<1> HIDE DEF r
<1>4. \/ Fate(m)' = Fate(m)
      \/ /\ Fate(m) = "open" /\ Fate(m)' = "given_up"
         /\ row[m].attempts >= MaxAttempts
  BY <1>1, <1>2, <1>3 DEF Fate
<1> QED
  BY <1>1, <1>2, <1>4 DEF PromisedStep

(* So does every other step, action by action.                              *)
LEMMA StepIsPromised ==
  ASSUME IInv, Next, NEW m \in Messages PROVE PromisedStep(m)
<1>0. /\ row \in [Messages -> Row] /\ receipt \in [Messages -> BOOLEAN]
      /\ queue \in [Messages -> BOOLEAN]
  BY DEF IInv, TypeOK
<1>1. CASE UNCHANGED <<row, receipt>>
  BY <1>1 DEF PromisedStep, Fate
<1>2. ASSUME NEW n \in Messages, Enqueue(n) PROVE PromisedStep(m)
  <2>1. ~receipt[n]
    BY <1>2 DEF IInv, RowsInv, RowInv, Enqueue
  <2>2. receipt' = receipt /\ (m # n => row'[m] = row[m])
    BY <1>0, <1>2 DEF Enqueue
  <2>3. row[n].status = "absent" /\ row'[n].status = "pending" /\ row'[n].attempts = 0
    BY <1>0, <1>2 DEF Enqueue
  <2> QED
    BY <2>1, <2>2, <2>3 DEF PromisedStep, Fate
<1>3. ASSUME NEW n \in Messages, TimerElapses(n) PROVE PromisedStep(m)
  <2>1. /\ receipt' = receipt /\ row'[m].status = row[m].status
        /\ row'[m].attempts = row[m].attempts
    BY <1>0, <1>3 DEF TimerElapses, Row
  <2> QED
    BY <2>1 DEF PromisedStep, Fate
<1>4. ASSUME NEW n \in Messages, RecordConsumption(n) PROVE PromisedStep(m)
  <2>1. row[n].status # "absent"
    <3>1. claims[n] # 0
      BY <1>0, <1>4 DEF RecordConsumption, IInv, RowsInv
    <3> QED
      BY <3>1 DEF IInv, RowsInv, RowInv
  <2>2. row' = row /\ receipt'[n] /\ (m # n => receipt'[m] = receipt[m])
    BY <1>0, <1>4 DEF RecordConsumption
  <2> QED
    BY <2>1, <2>2 DEF PromisedStep, Fate
<1>5. ASSUME NEW n \in Messages, RecoverFailedPublication(n) PROVE PromisedStep(m)
  <2>1. receipt' = receipt /\ (m # n => row'[m] = row[m])
    BY <1>0, <1>5 DEF RecoverFailedPublication
  <2>2. /\ row[n].status = "failed" /\ ~receipt[n]
        /\ row'[n].status = "pending" /\ row'[n].attempts = 0
    BY <1>0, <1>5 DEF RecoverFailedPublication
  <2> QED
    BY <2>1, <2>2 DEF PromisedStep, Fate
<1>6. ASSUME NEW d \in Dispatchers, NEW n \in Messages, MarkPublished(d, n)
      PROVE  PromisedStep(m)
  <2>1. CASE OwnsClaim(d, n)
    <3>1. receipt' = receipt /\ (m # n => row'[m] = row[m])
      BY <1>0, <1>6, <2>1 DEF MarkPublished
    <3>2. /\ row[n].status = "pending" /\ row'[n].status = "published"
          /\ row'[n].attempts = row[n].attempts
      BY <1>0, <1>6, <2>1 DEF MarkPublished, OwnsClaim, Row
    <3> QED
      BY <3>1, <3>2 DEF PromisedStep, Fate
  <2>2. CASE ~OwnsClaim(d, n)
    BY <1>1, <1>6, <2>2 DEF MarkPublished
  <2> QED
    BY <2>1, <2>2
<1>7. ASSUME NEW d \in Dispatchers, NEW n \in Messages,
             RecordPublicationFailure(d, n)
      PROVE  PromisedStep(m)
  <2>1. CASE OwnsClaim(d, n)
    <3>1. receipt' = receipt /\ (m # n => row'[m] = row[m])
      BY <1>0, <1>7, <2>1 DEF RecordPublicationFailure
    <3>2. task[d][n].attempt = row[n].attempts
      BY <1>7, <2>1 DEF RecordPublicationFailure, OwnsClaim, IInv, TasksInv, TaskInv
    <3>3. /\ row[n].status = "pending"
          /\ row'[n].status = IF row[n].attempts >= MaxAttempts
                              THEN "failed" ELSE "pending"
          /\ row'[n].attempts = row[n].attempts
      BY <1>0, <1>7, <2>1, <3>2 DEF RecordPublicationFailure, OwnsClaim, Row
    <3> QED
      BY <3>1, <3>3 DEF PromisedStep, Fate
  <2>2. CASE ~OwnsClaim(d, n)
    BY <1>1, <1>7, <2>2 DEF RecordPublicationFailure
  <2> QED
    BY <2>1, <2>2
<1>8. ASSUME NEW d \in Dispatchers, NEW n \in Messages,
             Publish(d, n) \/ ResolveClaimTransition(d, n)
      PROVE  PromisedStep(m)
  BY <1>1, <1>8 DEF Publish, ResolveClaimTransition, dbVars
<1>9. ASSUME NEW d \in Dispatchers, AbortDispatch(d) PROVE PromisedStep(m)
  BY <1>1, <1>9 DEF AbortDispatch, dbVars
<1>10. ASSUME NEW n \in Messages, SettleJob(n) PROVE PromisedStep(m)
  BY <1>1, <1>10 DEF SettleJob, dbVars
<1> QED
  BY <1>2, <1>3, <1>4, <1>5, <1>6, <1>7, <1>8, <1>9, <1>10, ClaimIsPromised,
     SweepIsPromised DEF Next, Work, ClaimPending

(* Whatever dispatchers, consumers, the Queue and the operator do, each     *)
(* message moves only as OutboxPromise allows: it is given up only after    *)
(* its budget, reopened only by the operator, and once consumed it stays so *)
(* and is tried at most by the invocations under way at that moment.        *)
THEOREM OutboxKeepsPromise == Spec => KeepsPromise
<1> DEFINE fates == [m \in Messages |-> Fate(m)]
           triesOf == [m \in Messages |-> row[m].attempts]
           begunOf == [m \in Messages |-> Begun(m)]
<1>1. Init => Promise!PromiseInit
  <2> SUFFICES ASSUME Init PROVE fates = [m \in Messages |-> "absent"]
                                 /\ triesOf = [m \in Messages |-> 0]
                                 /\ begunOf = [m \in Messages |-> 0]
    BY DEF Promise!PromiseInit
  <2>1. ASSUME NEW m \in Messages PROVE Begun(m) = 0
    <3>1. Sweeping(m) = {}
      BY DEF Init, Sweeping, Idle, NoTask, SweptTask
    <3> QED
      BY <3>1, FS_EmptySet DEF Begun
  <2>2. fates = [m \in Messages |-> "absent"] /\ triesOf = [m \in Messages |-> 0]
    BY DEF Init, Fate, AbsentRow
  <2> QED
    BY <2>1, <2>2
<1>2. IInv /\ [Next]_vars => [Promise!PromiseNext]_(Promise!promiseVars)
  <2>1. ASSUME IInv, Next PROVE Promise!PromiseNext
    <3>1. /\ DOMAIN fates' = Messages /\ DOMAIN triesOf' = Messages
          /\ DOMAIN begunOf' = Messages
      OBVIOUS
    <3>2. ASSUME NEW m \in Messages PROVE Promise!MessageStep(m)
      <4>1. PromisedStep(m)
        BY <2>1, StepIsPromised
      <4>2. /\ fates[m] = Fate(m) /\ fates'[m] = Fate(m)'
            /\ triesOf[m] = row[m].attempts /\ triesOf'[m] = row'[m].attempts
            /\ begunOf[m] = Begun(m) /\ begunOf'[m] = Begun(m)'
        OBVIOUS
      <4>3. Fate(m) = "consumed" => Begun(m)' <= Begun(m)
        BY <2>1, NoTryBeginsLate
      <4> HIDE DEF fates, triesOf, begunOf
      <4> QED
        BY <4>1, <4>2, <4>3 DEF PromisedStep, Promise!MessageStep,
           Promise!Same, Promise!Accept, Promise!Try, Promise!Consume,
           Promise!GiveUp, Promise!Reopen, Promise!NoTryBegins,
           fates, triesOf, begunOf
    <3> QED
      BY <3>1, <3>2 DEF Promise!PromiseNext
  <2>2. CASE UNCHANGED vars
    BY <2>2 DEF vars, Promise!promiseVars, Fate, Begun, Sweeping
  <2> QED
    BY <2>1, <2>2
<1> QED
  BY <1>1, <1>2, InductiveInvariant, PTL
     DEF Spec, KeepsPromise, Promise!PromiseSpec
==============================================================================
