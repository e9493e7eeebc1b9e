------------------------ MODULE TelegramDeliveryProofs ------------------------
(***************************************************************************)
(* Proofs about TelegramDelivery, for every number of replies, consumers,  *)
(* operators, recovery keys and attempts.                                  *)
(*                                                                         *)
(* The inductive invariant IInv says of a reply what its row claims about  *)
(* Telegram (RowInv) and about its attempts (LedgerInv); of a consumer     *)
(* between claim and completeAttempt, that its attempt is the reply's      *)
(* newest and that nobody settled the reply behind its back except as      *)
(* unknown (SenderInv); and that a reply has one such consumer at most.    *)
(***************************************************************************)
EXTENDS TelegramDelivery, Integers, FiniteSetTheorems, TLAPS

RowInv(q, seen) ==
  /\ q.claim = IF q.status = "delivering" THEN q.attempts ELSE NoClaim
  /\ q.status \in {"delivering", "provider_accepted", "outcome_unknown"}
       => q.attempts # 0
  /\ q.status = "absent" => q.attempts = 0
  /\ seen.made <= q.attempts
  /\ seen.accepted \in {0, 1}
  /\ seen.accepted = 1
       => q.status \in {"delivering", "provider_accepted", "outcome_unknown"}
  /\ q.status = "provider_accepted" => seen.accepted = 1

Rejected == {"transient_failure", "terminal_failure"}

LedgerInv(q, ledger) ==
  \A n \in AttemptNumbers :
    /\ n < q.attempts => ledger[n] \in Rejected
    /\ n > q.attempts => ledger[n] = "none"
    /\ n = q.attempts =>
         /\ q.status = "delivering" => ledger[n] = "attempting"
         /\ q.status \in {"provider_accepted", "outcome_unknown"}
              => ledger[n] = q.status
         /\ q.status \in {"pending", "terminal_failure"}
              => ledger[n] \in Rejected

(* t is a consumer's record, q and seen the reply it is sending. *)
SenderInv(t, q, seen) ==
  /\ t.attempt = q.attempts
  /\ q.status \in {"delivering", "outcome_unknown"}
  /\ t.phase = "claimed" => seen.accepted = 0 /\ seen.made < q.attempts
  /\ t.phase = "answered" =>
       /\ t.answer \in Outcomes
       /\ t.answer = "provider_accepted" => seen.accepted = 1
       /\ t.answer \in Rejected => seen.accepted = 0

Sending(t) == t.phase \in {"claimed", "answered"}

RepliesInv ==
  \A r \in Replies : RowInv(reply[r], calls[r]) /\ LedgerInv(reply[r], attempt[r])

SendersInv ==
  \A c \in Consumers : Sending(consumer[c]) =>
    /\ consumer[c].reply \in Replies
    /\ SenderInv(consumer[c], reply[consumer[c].reply], calls[consumer[c].reply])

OneSender ==
  \A c, e \in Consumers :
    /\ Sending(consumer[c]) /\ Sending(consumer[e])
    /\ consumer[c].reply = consumer[e].reply
    => c = e

(* An operator's run has a reply and a key from its look-up on. *)
OperatorsInv ==
  \A o \in Operators : operator[o].phase # "idle" =>
    operator[o].reply \in Replies /\ operator[o].key \in Recoveries

IInv == TypeOK /\ RepliesInv /\ SendersInv /\ OneSender /\ OperatorsInv

-----------------------------------------------------------------------------
(* A step that concerns one reply r keeps the invariant if r's row and      *)
(* ledger still agree, and r still has one sender at most, who knows it.    *)
LEMMA LocalStep ==
  ASSUME NEW r \in Replies, IInv, TypeOK', OperatorsInv',
         \A s \in Replies : s # r =>
           /\ reply'[s] = reply[s]
           /\ attempt'[s] = attempt[s]
           /\ calls'[s] = calls[s],
         RowInv(reply'[r], calls'[r]),
         LedgerInv(reply'[r], attempt'[r]),
         \A e \in Consumers :
           Sending(consumer'[e]) /\ consumer'[e].reply # r
             => consumer'[e] = consumer[e],
         \A e \in Consumers :
           Sending(consumer'[e]) /\ consumer'[e].reply = r
             => SenderInv(consumer'[e], reply'[r], calls'[r]),
         \A c, e \in Consumers :
           /\ Sending(consumer'[c]) /\ consumer'[c].reply = r
           /\ Sending(consumer'[e]) /\ consumer'[e].reply = r
           => c = e
  PROVE  IInv'
<1>1. RepliesInv'
  <2> SUFFICES ASSUME NEW s \in Replies
               PROVE  RowInv(reply'[s], calls'[s])
                        /\ LedgerInv(reply'[s], attempt'[s])
    BY DEF RepliesInv
  <2> QED
    BY DEF IInv, RepliesInv
<1>2. SendersInv'
  <2> SUFFICES ASSUME NEW e \in Consumers, Sending(consumer'[e])
               PROVE  /\ consumer'[e].reply \in Replies
                      /\ SenderInv(consumer'[e], reply'[consumer'[e].reply],
                                   calls'[consumer'[e].reply])
    BY DEF SendersInv
  <2>1. CASE consumer'[e].reply = r
    BY <2>1
  <2>2. CASE consumer'[e].reply # r
    BY <2>2 DEF IInv, SendersInv
  <2> QED
    BY <2>1, <2>2
<1>3. OneSender'
  <2> SUFFICES ASSUME NEW c \in Consumers, NEW e \in Consumers,
                      Sending(consumer'[c]), Sending(consumer'[e]),
                      consumer'[c].reply = consumer'[e].reply
               PROVE  c = e
    BY DEF OneSender
  <2>1. CASE consumer'[e].reply = r
    BY <2>1
  <2>2. CASE consumer'[e].reply # r
    BY <2>2 DEF IInv, OneSender
  <2> QED
    BY <2>1, <2>2
<1> QED
  BY <1>1, <1>2, <1>3 DEF IInv

(* A consumer that stops sending, everything else unchanged, keeps it.      *)
LEMMA ConsumerRests ==
  ASSUME IInv, NEW c \in Consumers, NEW t \in Consumer, ~Sending(t),
         consumer' = [consumer EXCEPT ![c] = t],
         UNCHANGED <<storeVars, calls, recoveryVars>>
  PROVE  IInv'
<1>1. TypeOK'
  BY DEF IInv, TypeOK, storeVars, recoveryVars
<1>2. \A e \in Consumers : Sending(consumer'[e]) => consumer'[e] = consumer[e]
  BY DEF IInv, TypeOK
<1>3. RepliesInv' /\ OperatorsInv'
  BY DEF IInv, RepliesInv, OperatorsInv, storeVars, recoveryVars
<1>4. SendersInv'
  BY <1>2 DEF IInv, SendersInv, storeVars
<1>5. OneSender'
  BY <1>2 DEF IInv, OneSender
<1> QED
  BY <1>1, <1>3, <1>4, <1>5 DEF IInv

(* A consumer that returns, or goes idle, sends nothing any more.           *)
LEMMA ReturningRests ==
  ASSUME IInv, NEW c \in Consumers, NEW r \in Replies,
         NEW phase \in {"finished", "deferred"}, Returns(c, r, phase),
         UNCHANGED <<storeVars, calls, recoveryVars>>
  PROVE  IInv'
<1> DEFINE t == [phase |-> phase, reply |-> r, attempt |-> 0,
                 answer |-> "none"]
<1>1. t \in Consumer /\ ~Sending(t)
  BY DeliveryAssumption DEF Consumer, Sending
<1>2. consumer' = [consumer EXCEPT ![c] = t]
  BY DEF Returns
<1> HIDE DEF t
<1> QED
  BY <1>1, <1>2, ConsumerRests

(* An idle consumer sends nothing.                                          *)
LEMMA IdleRests == IdleConsumer \in Consumer /\ ~Sending(IdleConsumer)
  BY DeliveryAssumption DEF IdleConsumer, Consumer, Sending

(* A reply that is not being delivered, nor unknown, has no sender.         *)
LEMMA NoSender ==
  ASSUME IInv, NEW r \in Replies, NEW e \in Consumers,
         reply[r].status \notin {"delivering", "outcome_unknown"}
  PROVE  ~(Sending(consumer[e]) /\ consumer[e].reply = r)
  BY DEF IInv, SendersInv, SenderInv

(* The numbers of a reply's row, and the arithmetic the leaves need.        *)
LEMMA RowTypes ==
  ASSUME TypeOK, NEW r \in Replies
  PROVE  /\ reply[r] \in Reply
         /\ reply[r].attempts \in Nat
         /\ reply[r].attempts <= MaxAttempts
         /\ calls[r] \in [made : Nat, accepted : Nat]
         /\ attempt[r] \in [AttemptNumbers ->
                              {"none", "attempting"} \cup Outcomes]
         /\ MaxAttempts \in Nat
         /\ AttemptNumbers \subseteq Nat
         /\ \A n \in AttemptNumbers : 1 <= n /\ n <= MaxAttempts
  BY DeliveryAssumption DEF TypeOK, Reply, AttemptNumbers

(* The same, for a step that makes no consumer a sender.                     *)
LEMMA RowStep ==
  ASSUME NEW r \in Replies, IInv, TypeOK', OperatorsInv',
         \A s \in Replies : s # r =>
           /\ reply'[s] = reply[s]
           /\ attempt'[s] = attempt[s]
           /\ calls'[s] = calls[s],
         RowInv(reply'[r], calls'[r]),
         LedgerInv(reply'[r], attempt'[r]),
         \A e \in Consumers :
           Sending(consumer'[e]) => consumer'[e] = consumer[e],
         \A e \in Consumers :
           Sending(consumer'[e]) /\ consumer'[e].reply = r
             => SenderInv(consumer'[e], reply'[r], calls'[r])
  PROVE  IInv'
<1>1. \A c, e \in Consumers :
        /\ Sending(consumer'[c]) /\ consumer'[c].reply = r
        /\ Sending(consumer'[e]) /\ consumer'[e].reply = r
        => c = e
  BY DEF IInv, OneSender
<1>2. \A e \in Consumers :
        Sending(consumer'[e]) /\ consumer'[e].reply # r
          => consumer'[e] = consumer[e]
  OBVIOUS
<1> QED
  BY <1>1, <1>2, LocalStep

-----------------------------------------------------------------------------
(* What the rows and ledgers the actions write satisfy, over any row q with *)
(* its ledger and its calls.                                                *)
LEMMA RequestedRow ==
  ASSUME NEW q \in Reply, NEW ledger, NEW seen, q.status = "absent",
         RowInv(q, seen), LedgerInv(q, ledger)
  PROVE  LET p == [q EXCEPT !.status = "pending"]
         IN  p \in Reply /\ RowInv(p, seen) /\ LedgerInv(p, ledger)
  BY DeliveryAssumption DEF Reply, RowInv, LedgerInv, AttemptNumbers

(* The lease is not part of what the invariant says of a row.               *)
LEMMA ExpiredLease ==
  ASSUME NEW q \in Reply, NEW ledger, NEW seen,
         RowInv(q, seen), LedgerInv(q, ledger)
  PROVE  LET p == [q EXCEPT !.leaseOver = TRUE]
         IN  /\ p \in Reply /\ RowInv(p, seen) /\ LedgerInv(p, ledger)
             /\ p.status = q.status /\ p.attempts = q.attempts
  BY DEF Reply, RowInv, LedgerInv

(* A pending row may fail: its newest attempt, if any, was rejected.        *)
LEMMA ExhaustedRow ==
  ASSUME NEW q \in Reply, NEW ledger, NEW seen, q.status = "pending",
         RowInv(q, seen), LedgerInv(q, ledger)
  PROVE  LET p == [q EXCEPT !.status = "terminal_failure"]
         IN  p \in Reply /\ RowInv(p, seen) /\ LedgerInv(p, ledger)
  BY DEF Reply, Terminal, RowInv, LedgerInv

(* A rejected row may be pending again, for the same reason.                *)
LEMMA ReopenedRow ==
  ASSUME NEW q \in Reply, NEW ledger, NEW seen,
         q.status = "terminal_failure",
         RowInv(q, seen), LedgerInv(q, ledger)
  PROVE  Reopened(q) \in Reply /\ RowInv(Reopened(q), seen)
           /\ LedgerInv(Reopened(q), ledger)
  BY DEF Reply, Reopened, RowInv, LedgerInv

(* The type of a settled row.                                               *)
LEMMA SettledRowType ==
  ASSUME NEW q \in Reply, NEW status \in {"pending"} \cup Terminal
  PROVE  LET p == [q EXCEPT !.status = status,
                            !.claim = NoClaim, !.leaseOver = FALSE]
         IN  /\ p \in Reply /\ p.status = status /\ p.claim = NoClaim
             /\ p.attempts = q.attempts
<1>1. NoClaim \in 0..MaxAttempts
  BY DeliveryAssumption DEF NoClaim
<1> QED
  BY <1>1 DEF Reply

(* A settled attempt: the ledger's newest entry and the row take its answer. *)
LEMMA SettledRow ==
  ASSUME NEW q \in Reply, NEW seen, NEW answer \in Outcomes,
         NEW ledger \in [AttemptNumbers -> {"none", "attempting"} \cup Outcomes],
         q.status = "delivering", RowInv(q, seen), LedgerInv(q, ledger),
         answer = "provider_accepted" => seen.accepted = 1,
         answer \in Rejected => seen.accepted = 0
  PROVE  LET p == [q EXCEPT !.status = IF answer = "transient_failure"
                                      THEN "pending" ELSE answer,
                           !.claim = NoClaim, !.leaseOver = FALSE]
             noted == [ledger EXCEPT ![q.attempts] = answer]
         IN  /\ p \in Reply
             /\ noted \in [AttemptNumbers ->
                             {"none", "attempting"} \cup Outcomes]
             /\ RowInv(p, seen)
             /\ LedgerInv(p, noted)
             /\ p.attempts = q.attempts
             /\ p.status = IF answer = "transient_failure"
                           THEN "pending" ELSE answer
<1> DEFINE status == IF answer = "transient_failure" THEN "pending" ELSE answer
           p == [q EXCEPT !.status = status,
                          !.claim = NoClaim, !.leaseOver = FALSE]
           noted == [ledger EXCEPT ![q.attempts] = answer]
<1>1. q.attempts \in AttemptNumbers
  BY DeliveryAssumption DEF Reply, RowInv, AttemptNumbers
<1>2. status \in {"pending"} \cup Terminal
  BY DEF Outcomes, Terminal
<1>3. /\ p \in Reply /\ p.status = status /\ p.claim = NoClaim
      /\ p.attempts = q.attempts
  BY <1>2, SettledRowType
<1>4. noted \in [AttemptNumbers -> {"none", "attempting"} \cup Outcomes]
  BY <1>1
<1>5. RowInv(p, seen)
  BY <1>3 DEF RowInv, Outcomes, Rejected, NoClaim
<1>6. LedgerInv(p, noted)
  <2> SUFFICES ASSUME NEW n \in AttemptNumbers
               PROVE  /\ n < q.attempts => noted[n] \in Rejected
                      /\ n > q.attempts => noted[n] = "none"
                      /\ n = q.attempts =>
                           /\ status # "delivering"
                           /\ status \in {"provider_accepted", "outcome_unknown"}
                                => noted[n] = status
                           /\ status \in {"pending", "terminal_failure"}
                                => noted[n] \in Rejected
    BY <1>3 DEF LedgerInv
  <2>1. n \in Nat /\ q.attempts \in Nat
    BY <1>1 DEF AttemptNumbers
  <2>2. CASE n = q.attempts
    BY <2>1, <2>2, <1>1, <1>2 DEF Outcomes, Rejected, Terminal
  <2>3. CASE n # q.attempts
    BY <2>1, <2>3, <1>1 DEF LedgerInv
  <2> QED
    BY <2>2, <2>3
<1> QED
  BY <1>3, <1>4, <1>5, <1>6

(* A granted attempt: the next number, open.                                *)
LEMMA GrantedRow ==
  ASSUME NEW q \in Reply, NEW seen \in [made : Nat, accepted : Nat],
         NEW ledger \in [AttemptNumbers -> {"none", "attempting"} \cup Outcomes],
         q.status = "pending", q.attempts < MaxAttempts,
         RowInv(q, seen), LedgerInv(q, ledger)
  PROVE  LET n == q.attempts + 1
             p == [status |-> "delivering", attempts |-> n, claim |-> n,
                   leaseOver |-> FALSE]
             noted == [ledger EXCEPT ![n] = "attempting"]
         IN  /\ n \in AttemptNumbers /\ n \in 0..MaxAttempts
             /\ p \in Reply
             /\ noted \in [AttemptNumbers ->
                             {"none", "attempting"} \cup Outcomes]
             /\ RowInv(p, seen)
             /\ LedgerInv(p, noted)
             /\ seen.accepted = 0 /\ seen.made < n
<1> DEFINE n == q.attempts + 1
           p == [status |-> "delivering", attempts |-> n, claim |-> n,
                 leaseOver |-> FALSE]
           noted == [ledger EXCEPT ![n] = "attempting"]
<1>1. /\ q.attempts \in Nat /\ n \in Nat
      /\ n \in AttemptNumbers /\ n \in 0..MaxAttempts
  BY DeliveryAssumption DEF Reply, AttemptNumbers
<1>2. p \in Reply
  BY <1>1 DEF Reply
<1>3. noted \in [AttemptNumbers -> {"none", "attempting"} \cup Outcomes]
  BY <1>1
<1>4. seen.accepted = 0 /\ seen.made \in Nat /\ seen.made < n
  BY <1>1 DEF RowInv
<1>5. RowInv(p, seen)
  BY <1>1, <1>4 DEF RowInv
<1>6. LedgerInv(p, noted)
  <2> SUFFICES ASSUME NEW k \in AttemptNumbers
               PROVE  /\ k < n => noted[k] \in Rejected
                      /\ k > n => noted[k] = "none"
                      /\ k = n => noted[k] = "attempting"
    BY DEF LedgerInv
  <2>1. k \in Nat
    BY DEF AttemptNumbers
  <2>2. CASE k = n
    BY <1>1, <2>1, <2>2
  <2>3. CASE k # n
    <3>1. noted[k] = ledger[k]
      BY <2>3
    <3>2. k < n => k < q.attempts \/ k = q.attempts
      BY <1>1, <2>1
    <3>3. k > n => k > q.attempts
      BY <1>1, <2>1
    <3> QED
      BY <2>3, <3>1, <3>2, <3>3 DEF LedgerInv
  <2> QED
    BY <2>2, <2>3
<1> QED
  BY <1>1, <1>2, <1>3, <1>4, <1>5, <1>6

-----------------------------------------------------------------------------
(* Each action keeps the invariant.                                         *)
LEMMA RequestKeepsInv ==
  ASSUME IInv, NEW r \in Replies, RequestReply(r)
  PROVE  IInv'
<1> USE DEF RequestReply, recoveryVars
<1> DEFINE q == [reply[r] EXCEPT !.status = "pending"]
<1>1. reply[r] \in Reply /\ RowInv(reply[r], calls[r])
        /\ LedgerInv(reply[r], attempt[r]) /\ reply[r].status = "absent"
  BY DEF IInv, TypeOK, RepliesInv
<1>2. q \in Reply /\ RowInv(q, calls[r]) /\ LedgerInv(q, attempt[r])
  BY <1>1, RequestedRow
<1>3. reply' = [reply EXCEPT ![r] = q]
  OBVIOUS
<1> HIDE DEF q
<1>4. reply'[r] = q /\ \A s \in Replies : s # r => reply'[s] = reply[s]
  BY <1>3 DEF IInv, TypeOK
<1>5. TypeOK' /\ OperatorsInv'
  BY <1>2, <1>3 DEF IInv, TypeOK, OperatorsInv
<1>6. \A e \in Consumers : ~(Sending(consumer'[e]) /\ consumer'[e].reply = r)
  BY <1>1, NoSender
<1> QED
  BY <1>2, <1>4, <1>5, <1>6, RowStep

(* Senders do not look at the lease.                                        *)
LEMMA ExpiryKeepsInv ==
  ASSUME IInv, NEW r \in Replies, LeaseExpires(r)
  PROVE  IInv'
<1> USE DEF LeaseExpires, recoveryVars
<1> DEFINE q == [reply[r] EXCEPT !.leaseOver = TRUE]
<1>1. reply[r] \in Reply /\ RowInv(reply[r], calls[r])
        /\ LedgerInv(reply[r], attempt[r])
  BY DEF IInv, TypeOK, RepliesInv
<1>2. /\ q \in Reply /\ RowInv(q, calls[r]) /\ LedgerInv(q, attempt[r])
      /\ q.status = reply[r].status /\ q.attempts = reply[r].attempts
  BY <1>1, ExpiredLease
<1>3. reply' = [reply EXCEPT ![r] = q]
  OBVIOUS
<1> HIDE DEF q
<1>4. reply'[r] = q /\ \A s \in Replies : s # r => reply'[s] = reply[s]
  BY <1>3 DEF IInv, TypeOK
<1>5. TypeOK' /\ OperatorsInv'
  BY <1>2, <1>3 DEF IInv, TypeOK, OperatorsInv
<1>6. \A e \in Consumers : Sending(consumer'[e]) /\ consumer'[e].reply = r
        => SenderInv(consumer'[e], q, calls[r])
  BY <1>2 DEF IInv, SendersInv, SenderInv
<1> QED
  BY <1>2, <1>4, <1>5, <1>6, RowStep

(* A consumer's answer that ends its sending, with r's row rewritten to q.   *)
LEMMA ReturningStep ==
  ASSUME IInv, NEW c \in Consumers, NEW r \in Replies,
         NEW phase \in {"finished", "deferred"}, Returns(c, r, phase),
         NEW q \in Reply, reply' = [reply EXCEPT ![r] = q],
         NEW ledger \in [AttemptNumbers -> {"none", "attempting"} \cup Outcomes],
         attempt' = [attempt EXCEPT ![r] = ledger],
         UNCHANGED <<calls, recoveryVars>>,
         RowInv(q, calls[r]), LedgerInv(q, ledger),
         \A e \in Consumers :
           e # c /\ Sending(consumer[e]) /\ consumer[e].reply = r
             => SenderInv(consumer[e], q, calls[r])
  PROVE  IInv'
<1> DEFINE t == [phase |-> phase, reply |-> r, attempt |-> 0,
                 answer |-> "none"]
<1>1. t \in Consumer /\ ~Sending(t)
  BY DeliveryAssumption DEF Consumer, Sending
<1>2. consumer' = [consumer EXCEPT ![c] = t]
  BY DEF Returns
<1> HIDE DEF t
<1>3. \A s \in Replies : s # r =>
        /\ reply'[s] = reply[s]
        /\ attempt'[s] = attempt[s]
        /\ calls'[s] = calls[s]
  BY DEF IInv, TypeOK
<1>4. reply'[r] = q /\ attempt'[r] = ledger /\ calls'[r] = calls[r]
  BY DEF IInv, TypeOK
<1>5. TypeOK' /\ OperatorsInv'
  BY <1>1, <1>2 DEF IInv, TypeOK, OperatorsInv, recoveryVars
<1>6. \A e \in Consumers :
        Sending(consumer'[e]) => e # c /\ consumer'[e] = consumer[e]
  BY <1>1, <1>2 DEF IInv, TypeOK
<1> QED
  BY <1>3, <1>4, <1>5, <1>6, RowStep

(* The expired attempt becomes unknown; its sender, if alive, is left with an *)
(* attempt nobody will renew.                                               *)
LEMMA ExpiredClaimKeepsInv ==
  ASSUME IInv, NEW c \in Consumers, NEW r \in Replies, ClaimExpired(c, r)
  PROVE  IInv'
<1> DEFINE answer == "outcome_unknown"
           q == [reply[r] EXCEPT !.status = IF answer = "transient_failure"
                                            THEN "pending" ELSE answer,
                                 !.claim = NoClaim, !.leaseOver = FALSE]
           ledger == [attempt[r] EXCEPT ![reply[r].attempts] = answer]
<1>1. /\ reply[r] \in Reply /\ RowInv(reply[r], calls[r])
      /\ LedgerInv(reply[r], attempt[r]) /\ reply[r].status = "delivering"
      /\ attempt[r] \in [AttemptNumbers ->
                          {"none", "attempting"} \cup Outcomes]
  BY DEF IInv, TypeOK, RepliesInv, ClaimExpired
<1>2. reply[r].claim = reply[r].attempts
  BY <1>1 DEF RowInv
<1>3. reply' = [reply EXCEPT ![r] = q] /\ attempt' = [attempt EXCEPT ![r] = ledger]
  BY <1>2 DEF ClaimExpired
<1>4. /\ answer \in Outcomes
      /\ answer = "provider_accepted" => calls[r].accepted = 1
      /\ answer \in Rejected => calls[r].accepted = 0
  BY DEF Outcomes, Rejected
<1>8. answer = "outcome_unknown"
  OBVIOUS
<1> HIDE DEF answer
<1>5. /\ q \in Reply /\ RowInv(q, calls[r])
      /\ ledger \in [AttemptNumbers -> {"none", "attempting"} \cup Outcomes]
      /\ LedgerInv(q, ledger)
  BY <1>1, <1>4, SettledRow
<1>9. q.attempts = reply[r].attempts /\ q.status = "outcome_unknown"
  BY <1>1, <1>8 DEF Reply
<1> HIDE DEF q, ledger
<1>6. \A e \in Consumers : Sending(consumer[e]) /\ consumer[e].reply = r
        => SenderInv(consumer[e], q, calls[r])
  BY <1>1, <1>9 DEF IInv, SendersInv, SenderInv
<1>7. Returns(c, r, "finished") /\ UNCHANGED <<calls, recoveryVars>>
  BY DEF ClaimExpired
<1> QED
  BY <1>3, <1>5, <1>6, <1>7, ReturningStep

(* A pending reply has no sender to disturb.                                *)
LEMMA ExhaustedClaimKeepsInv ==
  ASSUME IInv, NEW c \in Consumers, NEW r \in Replies, ClaimExhausted(c, r)
  PROVE  IInv'
<1> DEFINE q == [reply[r] EXCEPT !.status = "terminal_failure"]
<1>1. /\ reply[r] \in Reply /\ RowInv(reply[r], calls[r])
      /\ LedgerInv(reply[r], attempt[r]) /\ reply[r].status = "pending"
      /\ attempt[r] \in [AttemptNumbers ->
                          {"none", "attempting"} \cup Outcomes]
  BY DEF IInv, TypeOK, RepliesInv, ClaimExhausted
<1>2. q \in Reply /\ RowInv(q, calls[r]) /\ LedgerInv(q, attempt[r])
  BY <1>1, ExhaustedRow
<1>3. reply' = [reply EXCEPT ![r] = q]
  BY DEF ClaimExhausted
<1>4. attempt' = [attempt EXCEPT ![r] = attempt[r]]
  BY DEF ClaimExhausted, IInv, TypeOK
<1> HIDE DEF q
<1>5. \A e \in Consumers : ~(Sending(consumer[e]) /\ consumer[e].reply = r)
  BY <1>1, NoSender
<1>6. Returns(c, r, "finished") /\ UNCHANGED <<calls, recoveryVars>>
  BY DEF ClaimExhausted
<1> QED
  BY <1>1, <1>2, <1>3, <1>4, <1>5, <1>6, ReturningStep

(* The one sender of a reply settles it with the answer it got.             *)
LEMMA CompletionKeepsInv ==
  ASSUME IInv, NEW c \in Consumers, CompleteAttempt(c)
  PROVE  IInv'
<1> DEFINE r == consumer[c].reply
           answer == consumer[c].answer
           q == [reply[r] EXCEPT !.status = IF answer = "transient_failure"
                                            THEN "pending" ELSE answer,
                                 !.claim = NoClaim, !.leaseOver = FALSE]
           ledger == [attempt[r] EXCEPT ![reply[r].attempts] = answer]
<1>1. Sending(consumer[c]) /\ consumer[c].phase = "answered"
  BY DEF CompleteAttempt, Sending
<1>2. r \in Replies /\ SenderInv(consumer[c], reply[r], calls[r])
  BY <1>1 DEF IInv, SendersInv
<1>3. /\ reply[r] \in Reply /\ RowInv(reply[r], calls[r])
      /\ LedgerInv(reply[r], attempt[r]) /\ reply[r].status = "delivering"
      /\ attempt[r] \in [AttemptNumbers ->
                          {"none", "attempting"} \cup Outcomes]
  BY <1>2 DEF IInv, TypeOK, RepliesInv, CompleteAttempt, HoldsClaim
<1>4. consumer[c].attempt = reply[r].attempts
  BY <1>2 DEF SenderInv
<1>5. reply' = [reply EXCEPT ![r] = q] /\ attempt' = [attempt EXCEPT ![r] = ledger]
  BY <1>4 DEF CompleteAttempt
<1>6. /\ answer \in Outcomes
      /\ answer = "provider_accepted" => calls[r].accepted = 1
      /\ answer \in Rejected => calls[r].accepted = 0
  BY <1>1, <1>2 DEF SenderInv
<1>7. PICK phase \in {"finished", "deferred"} : Returns(c, r, phase)
  BY DEF CompleteAttempt
<1>8. UNCHANGED <<calls, recoveryVars>>
  BY DEF CompleteAttempt
<1> HIDE DEF r, answer
<1>9. /\ q \in Reply /\ RowInv(q, calls[r])
      /\ ledger \in [AttemptNumbers -> {"none", "attempting"} \cup Outcomes]
      /\ LedgerInv(q, ledger)
  BY <1>3, <1>6, SettledRow
<1> HIDE DEF q, ledger
<1>10. \A e \in Consumers :
         e # c /\ Sending(consumer[e]) /\ consumer[e].reply = r
           => SenderInv(consumer[e], q, calls[r])
  BY <1>1 DEF IInv, OneSender, r
<1>11. r \in Replies
  BY <1>2
<1> QED
  BY <1>11, <1>5, <1>7, <1>8, <1>9, <1>10, ReturningStep

(* A pending reply has no sender, so the new attempt has the only one.      *)
LEMMA GrantKeepsInv ==
  ASSUME IInv, NEW c \in Consumers, NEW r \in Replies, ClaimGranted(c, r)
  PROVE  IInv'
<1> DEFINE n == reply[r].attempts + 1
           q == [status |-> "delivering", attempts |-> n, claim |-> n,
                 leaseOver |-> FALSE]
           ledger == [attempt[r] EXCEPT ![n] = "attempting"]
           t == [phase |-> "claimed", reply |-> r, attempt |-> n,
                 answer |-> "none"]
<1>1. /\ reply[r] \in Reply /\ RowInv(reply[r], calls[r])
      /\ LedgerInv(reply[r], attempt[r]) /\ reply[r].status = "pending"
      /\ reply[r].attempts < MaxAttempts
      /\ calls[r] \in [made : Nat, accepted : Nat]
      /\ attempt[r] \in [AttemptNumbers ->
                          {"none", "attempting"} \cup Outcomes]
  BY DEF IInv, TypeOK, RepliesInv, ClaimGranted
<1>2. /\ n \in AttemptNumbers /\ n \in 0..MaxAttempts
      /\ q \in Reply
      /\ ledger \in [AttemptNumbers -> {"none", "attempting"} \cup Outcomes]
      /\ RowInv(q, calls[r])
      /\ LedgerInv(q, ledger)
      /\ calls[r].accepted = 0 /\ calls[r].made < n
  BY <1>1, GrantedRow
<1>3. /\ reply' = [reply EXCEPT ![r] = q]
      /\ attempt' = [attempt EXCEPT ![r] = ledger]
      /\ consumer' = [consumer EXCEPT ![c] = t]
      /\ UNCHANGED <<calls, recoveryVars>>
  BY DEF ClaimGranted
<1>4. /\ t \in Consumer /\ t.reply = r /\ SenderInv(t, q, calls[r])
  BY <1>2 DEF Consumer, SenderInv
<1> HIDE DEF n, q, ledger, t
<1>5. /\ reply'[r] = q /\ attempt'[r] = ledger /\ calls'[r] = calls[r]
      /\ \A s \in Replies : s # r =>
           /\ reply'[s] = reply[s]
           /\ attempt'[s] = attempt[s]
           /\ calls'[s] = calls[s]
  BY <1>3 DEF IInv, TypeOK
<1>6. TypeOK' /\ OperatorsInv'
  BY <1>2, <1>3, <1>4 DEF IInv, TypeOK, OperatorsInv, recoveryVars
<1>7. /\ consumer'[c] = t
      /\ \A e \in Consumers : e # c => consumer'[e] = consumer[e]
  BY <1>3 DEF IInv, TypeOK
<1>8. \A e \in Consumers : ~(Sending(consumer[e]) /\ consumer[e].reply = r)
  BY <1>1, NoSender
<1>9. \A e \in Consumers : Sending(consumer'[e]) /\ consumer'[e].reply = r
        => e = c /\ SenderInv(consumer'[e], q, calls[r])
  BY <1>4, <1>7, <1>8
<1>10. \A e \in Consumers : Sending(consumer'[e]) /\ consumer'[e].reply # r
         => consumer'[e] = consumer[e]
  BY <1>4, <1>7
<1> QED
  BY <1>2, <1>5, <1>6, <1>9, <1>10, LocalStep

(* A call of the Bot API: it stays within the attempts, and only a first    *)
(* call of an unaccepted reply can be accepted.                             *)
LEMMA SentCall ==
  ASSUME NEW q \in Reply, NEW t \in Consumer,
         NEW seen \in [made : Nat, accepted : Nat], NEW a \in Answers,
         t.phase = "claimed", RowInv(q, seen), SenderInv(t, q, seen)
  PROVE  LET told == [t EXCEPT !.phase = "answered", !.answer = a.answer]
         IN  /\ Called(seen, a) \in [made : Nat, accepted : Nat]
             /\ told \in Consumer
             /\ told.reply = t.reply
             /\ RowInv(q, Called(seen, a))
             /\ SenderInv(told, q, Called(seen, a))
<1> DEFINE call == Called(seen, a)
           told == [t EXCEPT !.phase = "answered", !.answer = a.answer]
<1>1. seen.accepted = 0 /\ seen.made < q.attempts
  BY DEF SenderInv
<1>2. q.attempts \in Nat /\ seen.made \in Nat
  BY DeliveryAssumption DEF Reply
<1>3. a.answer \in Outcomes
  BY DEF Answers, Outcomes
<1>4. /\ call.made = seen.made + 1
      /\ call.accepted \in {0, 1}
      /\ a.answer = "provider_accepted" => call.accepted = 1
      /\ a.answer \in Rejected => call.accepted = 0
  BY <1>1 DEF Answers, Rejected, Called
<1>5. call \in [made : Nat, accepted : Nat]
  BY <1>1, <1>2 DEF Called
<1> HIDE DEF call
<1>6. /\ told \in Consumer /\ told.reply = t.reply
      /\ told.phase = "answered" /\ told.answer = a.answer
      /\ told.attempt = t.attempt
  BY <1>3 DEF Consumer
<1>7. call.made <= q.attempts
  BY <1>1, <1>2, <1>4
<1> HIDE DEF told
<1>8. q.status \in {"delivering", "outcome_unknown"}
  BY DEF SenderInv
<1>9. RowInv(q, call)
  BY <1>4, <1>7, <1>8 DEF RowInv
<1>10. SenderInv(told, q, call)
  BY <1>3, <1>4, <1>6, <1>7 DEF SenderInv
<1> QED
  BY <1>5, <1>6, <1>9, <1>10 DEF call, told

(* The one sender's call is the attempt's only one.                         *)
LEMMA SendKeepsInv ==
  ASSUME IInv, NEW c \in Consumers, Send(c)
  PROVE  IInv'
<1> DEFINE r == consumer[c].reply
<1>1. consumer[c].phase = "claimed" /\ Sending(consumer[c])
  BY DEF Send, Sending
<1>2. r \in Replies /\ SenderInv(consumer[c], reply[r], calls[r])
  BY <1>1 DEF IInv, SendersInv
<1>3. /\ reply[r] \in Reply /\ consumer[c] \in Consumer
      /\ calls[r] \in [made : Nat, accepted : Nat]
      /\ RowInv(reply[r], calls[r]) /\ LedgerInv(reply[r], attempt[r])
  BY <1>2 DEF IInv, TypeOK, RepliesInv
<1>4. PICK a \in Answers :
        /\ consumer' = [consumer EXCEPT ![c] =
             [@ EXCEPT !.phase = "answered", !.answer = a.answer]]
        /\ calls' = [calls EXCEPT ![r] = Called(@, a)]
  BY DEF Send
<1>5. UNCHANGED <<storeVars, recoveryVars>>
  BY DEF Send
<1> DEFINE call == Called(calls[r], a)
           told == [consumer[c] EXCEPT !.phase = "answered",
                                       !.answer = a.answer]
<1>7. consumer' = [consumer EXCEPT ![c] = told] /\ calls' = [calls EXCEPT ![r] = call]
  BY <1>4
<1>14. consumer[c].reply = r
  OBVIOUS
<1> HIDE DEF r
<1>15. /\ call \in [made : Nat, accepted : Nat]
       /\ told \in Consumer
       /\ told.reply = consumer[c].reply
       /\ RowInv(reply[r], call)
       /\ SenderInv(told, reply[r], call)
  <2>1. consumer[c].phase = "claimed" /\ SenderInv(consumer[c], reply[r], calls[r])
    BY <1>1, <1>2
  <2> QED
    BY <1>3, <2>1, SentCall
<1> HIDE DEF call, told
<1>6. /\ call \in [made : Nat, accepted : Nat]
      /\ told \in Consumer /\ told.reply = r
      /\ RowInv(reply[r], call) /\ SenderInv(told, reply[r], call)
  BY <1>14, <1>15
<1>8. TypeOK' /\ OperatorsInv'
  BY <1>2, <1>5, <1>6, <1>7 DEF IInv, TypeOK, OperatorsInv, recoveryVars, storeVars
<1>9. /\ calls'[r] = call /\ reply' = reply /\ attempt' = attempt
      /\ \A s \in Replies : s # r => calls'[s] = calls[s]
  BY <1>2, <1>5, <1>7 DEF IInv, TypeOK, storeVars
<1>10. /\ consumer'[c] = told
       /\ \A e \in Consumers : e # c => consumer'[e] = consumer[e]
  BY <1>7 DEF IInv, TypeOK
<1>11. \A e \in Consumers : e # c /\ Sending(consumer[e])
         => consumer[e].reply # r
  BY <1>1 DEF IInv, OneSender, r
<1>12. \A e \in Consumers : Sending(consumer'[e]) /\ consumer'[e].reply = r
         => e = c /\ SenderInv(consumer'[e], reply[r], call)
  BY <1>6, <1>10, <1>11
<1>13. \A e \in Consumers : Sending(consumer'[e]) /\ consumer'[e].reply # r
         => consumer'[e] = consumer[e]
  BY <1>6, <1>10
<1> QED
  BY <1>2, <1>3, <1>6, <1>8, <1>9, <1>12, <1>13, LocalStep

(* A rejected reply has no sender and was not accepted.                     *)
LEMMA ReopenKeepsInv ==
  ASSUME IInv, NEW o \in Operators, ReopenReply(o)
  PROVE  IInv'
<1> DEFINE r == operator[o].reply
           k == operator[o].key
           q == Reopened(reply[r])
<1>1. r \in Replies /\ k \in Recoveries
  BY DEF IInv, OperatorsInv, ReopenReply
<1>2. /\ reply[r] \in Reply /\ RowInv(reply[r], calls[r])
      /\ LedgerInv(reply[r], attempt[r])
      /\ reply[r].status = "terminal_failure"
  BY <1>1 DEF IInv, TypeOK, RepliesInv, ReopenReply, Reopenable
<1>3. q \in Reply /\ RowInv(q, calls[r]) /\ LedgerInv(q, attempt[r])
  BY <1>2, ReopenedRow
<1>4. /\ reply' = [reply EXCEPT ![r] = q]
      /\ recovery' = [recovery EXCEPT ![k] =
                        [status |-> "prepared", reply |-> r]]
      /\ operator' = [operator EXCEPT ![o].phase = "publishing"]
      /\ UNCHANGED <<attempt, calls, consumer>>
  BY DEF ReopenReply
<1> HIDE DEF q
<1>5. reply'[r] = q /\ \A s \in Replies : s # r => reply'[s] = reply[s]
  BY <1>1, <1>4 DEF IInv, TypeOK
<1>6. TypeOK'
  <2>1. reply' \in [Replies -> Reply]
    BY <1>1, <1>3, <1>4 DEF IInv, TypeOK
  <2>2. recovery' \in [Recoveries -> Recovery]
    BY <1>1, <1>4 DEF IInv, TypeOK, Recovery
  <2>3. operator' \in [Operators -> Operator]
    BY <1>4 DEF IInv, TypeOK, Operator
  <2> QED
    BY <1>4, <2>1, <2>2, <2>3 DEF IInv, TypeOK
<1>7. OperatorsInv'
  <2> SUFFICES ASSUME NEW p \in Operators, operator'[p].phase # "idle"
               PROVE  operator'[p].reply \in Replies
                        /\ operator'[p].key \in Recoveries
    BY DEF OperatorsInv
  <2>1. CASE p = o
    BY <1>1, <1>4, <2>1 DEF IInv, TypeOK, Operator
  <2>2. CASE p # o
    BY <1>4, <2>2 DEF IInv, TypeOK, OperatorsInv
  <2> QED
    BY <2>1, <2>2
<1> HIDE DEF r, k
<1>8. \A e \in Consumers : ~(Sending(consumer[e]) /\ consumer[e].reply = r)
  BY <1>1, <1>2, NoSender
<1>9. /\ \A s \in Replies : s # r => attempt'[s] = attempt[s]
                                   /\ calls'[s] = calls[s]
      /\ attempt'[r] = attempt[r] /\ calls'[r] = calls[r]
      /\ consumer' = consumer
  BY <1>4
<1> QED
  BY <1>1, <1>3, <1>5, <1>6, <1>7, <1>8, <1>9, RowStep

(* Steps of an operator's run that leave the reply alone.                   *)
LEMMA BookkeepingKeepsInv ==
  ASSUME IInv, TypeOK', OperatorsInv',
         UNCHANGED <<storeVars, calls, consumer>>
  PROVE  IInv'
<1>1. RepliesInv'
  BY DEF IInv, RepliesInv, storeVars
<1>2. SendersInv'
  BY DEF IInv, SendersInv, storeVars
<1>3. OneSender'
  BY DEF IInv, OneSender
<1> QED
  BY <1>1, <1>2, <1>3 DEF IInv

(* The bookkeeping of an operator's run, step by step.                      *)
LEMMA LookUpKeepsInv ==
  ASSUME IInv, NEW o \in Operators, NEW k \in Recoveries, NEW r \in Replies,
         LookUpRecovery(o, k, r)
  PROVE  IInv'
<1>1. PICK phase \in {"reopening", "publishing"} :
        operator' = [operator EXCEPT ![o] =
                       [phase |-> phase, key |-> k, reply |-> r]]
  BY DEF LookUpRecovery
<1>2. UNCHANGED <<storeVars, calls, consumer, recovery>>
  BY DEF LookUpRecovery
<1>3. TypeOK' /\ OperatorsInv'
  BY <1>1, <1>2 DEF IInv, TypeOK, OperatorsInv, Operator, storeVars
<1> QED
  BY <1>2, <1>3, BookkeepingKeepsInv

(* The run publishes the job.                                               *)
LEMMA PublishRecoveryKeepsInv ==
  ASSUME IInv, NEW o \in Operators, PublishRecovery(o)
  PROVE  IInv'
<1>1. /\ operator' = [operator EXCEPT ![o].phase = "marking"]
      /\ operator[o].phase = "publishing"
      /\ UNCHANGED <<storeVars, calls, consumer, recovery>>
  BY DEF PublishRecovery
<1>2. TypeOK' /\ OperatorsInv'
  BY <1>1 DEF IInv, TypeOK, OperatorsInv, Operator, storeVars
<1> QED
  BY <1>1, <1>2, BookkeepingKeepsInv

(* The run marks its recovery published and ends.                           *)
LEMMA MarkRecoveryKeepsInv ==
  ASSUME IInv, NEW o \in Operators, MarkRecoveryPublished(o)
  PROVE  IInv'
<1> DEFINE k == operator[o].key
<1>1. /\ recovery' = [recovery EXCEPT ![k].status = "published"]
      /\ operator' = [operator EXCEPT ![o] = IdleOperator]
      /\ UNCHANGED <<storeVars, calls, consumer>>
      /\ operator[o].phase = "marking"
  BY DEF MarkRecoveryPublished
<1>2. k \in Recoveries
  BY <1>1 DEF IInv, OperatorsInv
<1>3. IdleOperator \in Operator /\ IdleOperator.phase = "idle"
  BY DEF IdleOperator, Operator
<1> HIDE DEF k
<1>4. TypeOK' /\ OperatorsInv'
  BY <1>1, <1>2, <1>3 DEF IInv, TypeOK, OperatorsInv, Recovery, storeVars
<1> QED
  BY <1>1, <1>4, BookkeepingKeepsInv

(* The run ends early.                                                      *)
LEMMA StopKeepsInv ==
  ASSUME IInv, NEW o \in Operators, OperatorStops(o)
  PROVE  IInv'
<1>1. /\ operator' = [operator EXCEPT ![o] = IdleOperator]
      /\ UNCHANGED <<storeVars, calls, consumer, recovery>>
  BY DEF OperatorStops
<1>2. IdleOperator \in Operator /\ IdleOperator.phase = "idle"
  BY DEF IdleOperator, Operator
<1>3. TypeOK' /\ OperatorsInv'
  BY <1>1, <1>2 DEF IInv, TypeOK, OperatorsInv, storeVars
<1> QED
  BY <1>1, <1>3, BookkeepingKeepsInv

(* A consumer that finds nothing to do, fails, leaves or crashes.           *)
LEMMA RestKeepsInv ==
  ASSUME IInv, NEW c \in Consumers,
         \/ \E r \in Replies : ClaimTerminal(c, r) \/ ClaimDeferred(c, r)
         \/ CompleteFails(c)
         \/ Leave(c)
         \/ Crash(c)
  PROVE  IInv'
<1>1. ASSUME NEW r \in Replies, ClaimTerminal(c, r)
      PROVE  IInv'
  BY <1>1, ReturningRests DEF ClaimTerminal
<1>2. ASSUME NEW r \in Replies, ClaimDeferred(c, r)
      PROVE  IInv'
  BY <1>2, ReturningRests DEF ClaimDeferred
<1>3. CASE CompleteFails(c)
  <2>1. consumer[c].reply \in Replies
    BY <1>3 DEF IInv, SendersInv, CompleteFails, Sending
  <2> QED
    BY <1>3, <2>1, ReturningRests DEF CompleteFails
<1>4. CASE Leave(c)
  BY <1>4, IdleRests, ConsumerRests DEF Leave
<1>5. CASE Crash(c)
  BY <1>5, IdleRests, ConsumerRests DEF Crash
<1> QED
  BY <1>1, <1>2, <1>3, <1>4, <1>5

(* Initially no reply was requested and nobody does anything.               *)
LEMMA InitInv == Init => IInv
<1> SUFFICES ASSUME Init
             PROVE  IInv
  OBVIOUS
<1>1. AbsentReply \in Reply /\ IdleConsumer \in Consumer
        /\ NewRecovery \in Recovery /\ IdleOperator \in Operator
  <2>1. MaxAttempts \in Nat /\ 0 \in 0..MaxAttempts
    BY DeliveryAssumption
  <2> QED
    BY <2>1 DEF AbsentReply, Reply, IdleConsumer, Consumer, NewRecovery,
                Recovery, IdleOperator, Operator, NoClaim
<1>2. TypeOK
  BY <1>1 DEF Init, TypeOK
<1>3. RepliesInv
  BY DEF Init, RepliesInv, RowInv, LedgerInv, AbsentReply, NoClaim,
         AttemptNumbers
<1>4. SendersInv /\ OneSender /\ OperatorsInv
  BY DEF Init, SendersInv, OneSender, OperatorsInv, Sending, IdleConsumer,
         IdleOperator
<1> QED
  BY <1>2, <1>3, <1>4 DEF IInv

(* Every step keeps the invariant.                                          *)
LEMMA NextKeepsInv == IInv /\ [Next]_deliveryVars => IInv'
<1> SUFFICES ASSUME IInv, [Next]_deliveryVars
             PROVE  IInv'
  OBVIOUS
<1>1. ASSUME NEW r \in Replies, RequestReply(r) \/ LeaseExpires(r)
      PROVE  IInv'
  BY <1>1, RequestKeepsInv, ExpiryKeepsInv
<1>2. ASSUME NEW c \in Consumers, NEW r \in Replies, Claim(c, r)
      PROVE  IInv'
  BY <1>2, RestKeepsInv, ExpiredClaimKeepsInv, ExhaustedClaimKeepsInv,
     GrantKeepsInv DEF Claim
<1>3. ASSUME NEW c \in Consumers,
             \/ Send(c) \/ CompleteAttempt(c) \/ CompleteFails(c)
             \/ Leave(c) \/ Crash(c)
      PROVE  IInv'
  BY <1>3, SendKeepsInv, CompletionKeepsInv, RestKeepsInv
<1>4. ASSUME NEW o \in Operators, Recover(o)
      PROVE  IInv'
  BY <1>4, LookUpKeepsInv, ReopenKeepsInv, PublishRecoveryKeepsInv,
     MarkRecoveryKeepsInv, StopKeepsInv DEF Recover
<1>5. CASE UNCHANGED deliveryVars
  BY <1>5 DEF deliveryVars, IInv, TypeOK, RepliesInv, SendersInv, OneSender,
              OperatorsInv
<1>6. CASE Next
  BY <1>1, <1>2, <1>3, <1>4, <1>6 DEF Next, Deliver
<1> QED
  BY <1>5, <1>6

(* In every reachable state, for any number of Workers and operators, a     *)
(* reply's row, its attempts, its senders and Telegram's view agree.        *)
THEOREM InductiveInvariant == Spec => []IInv
  BY InitInv, NextKeepsInv, PTL DEF Spec

(* Rows, attempts and runs keep the shapes of the tables' columns, whose    *)
(* attempt numbers never exceed the ceiling.                                *)
THEOREM TypeCorrect == Spec => []TypeOK
  BY InductiveInvariant, PTL DEF IInv

(* deliverTelegramReply's promise: whatever is redelivered, expires,        *)
(* crashes or is recovered, Telegram accepts a reply at most once.          *)
THEOREM AtMostOnce == Spec => []AcceptedAtMostOnce
<1>1. IInv => AcceptedAtMostOnce
  BY DEF IInv, RepliesInv, RowInv, AcceptedAtMostOnce
<1> QED
  BY <1>1, InductiveInvariant, PTL

(* claim and prepareRecovery together: recoveries do not extend the         *)
(* ceiling of provider attempts.                                            *)
THEOREM CeilingHolds == Spec => []CallsWithinCeiling
<1>1. ASSUME IInv
      PROVE  CallsWithinCeiling
  <2> SUFFICES ASSUME NEW r \in Replies
               PROVE  calls[r].made <= MaxAttempts
    BY DEF CallsWithinCeiling
  <2>1. calls[r].made <= reply[r].attempts
    BY <1>1 DEF IInv, RepliesInv, RowInv
  <2>2. /\ reply[r].attempts \in Nat /\ calls[r].made \in Nat
        /\ MaxAttempts \in Nat /\ reply[r].attempts <= MaxAttempts
    BY <1>1, RowTypes DEF IInv
  <2> QED
    BY <2>1, <2>2
<1> QED
  BY <1>1, InductiveInvariant, PTL

(* claim, completeAttempt and prepareRecovery together: a further attempt   *)
(* follows only a recorded rejection.                                       *)
THEOREM RetriesFollowRejections == Spec => []NoBlindRetry
<1>1. ASSUME IInv
      PROVE  NoBlindRetry
  <2> SUFFICES ASSUME NEW r \in Replies, NEW n \in AttemptNumbers
               PROVE  /\ n < reply[r].attempts =>
                           attempt[r][n] \in Rejected
                      /\ attempt[r][n] = "attempting" <=>
                           reply[r].status = "delivering" /\ reply[r].claim = n
                      /\ n > reply[r].attempts => attempt[r][n] = "none"
    BY DEF NoBlindRetry, Rejected
  <2>1. /\ n \in Nat /\ n # 0 /\ reply[r].attempts \in Nat
        /\ reply[r].status \in {"absent", "pending", "delivering"} \cup Terminal
    BY <1>1, RowTypes DEF IInv, Reply
  <2>2. RowInv(reply[r], calls[r]) /\ LedgerInv(reply[r], attempt[r])
    BY <1>1 DEF IInv, RepliesInv
  <2>3. CASE n < reply[r].attempts
    <3>1. attempt[r][n] \in Rejected
      BY <2>2, <2>3 DEF LedgerInv
    <3>2. ~(reply[r].status = "delivering" /\ reply[r].claim = n)
      BY <2>1, <2>2, <2>3 DEF RowInv
    <3> QED
      BY <2>1, <2>3, <3>1, <3>2 DEF Rejected
  <2>4. CASE n > reply[r].attempts
    <3>1. attempt[r][n] = "none"
      BY <2>2, <2>4 DEF LedgerInv
    <3>2. ~(reply[r].status = "delivering" /\ reply[r].claim = n)
      BY <2>1, <2>2, <2>4 DEF RowInv
    <3> QED
      BY <2>1, <2>4, <3>1, <3>2
  <2>5. CASE n = reply[r].attempts
    <3>1. reply[r].status = "delivering" <=>
            reply[r].status = "delivering" /\ reply[r].claim = n
      BY <2>2, <2>5 DEF RowInv
    <3>2. reply[r].status = "delivering" => attempt[r][n] = "attempting"
      BY <2>2, <2>5 DEF LedgerInv
    <3>3. reply[r].status # "absent"
      BY <2>1, <2>2, <2>5 DEF RowInv
    <3>4. reply[r].status # "delivering" => attempt[r][n] # "attempting"
      BY <2>1, <2>2, <2>5, <3>3 DEF LedgerInv, Rejected, Terminal
    <3> QED
      BY <2>1, <2>5, <3>1, <3>2, <3>4
  <2> QED
    BY <2>1, <2>3, <2>4, <2>5
<1> QED
  BY <1>1, InductiveInvariant, PTL

-----------------------------------------------------------------------------
(* HonestReply's step of one reply, over the detailed variables.            *)
Tells(r, before, after) ==
  /\ Told(r) = before /\ Told(r)' = after
  /\ calls'[r].accepted = calls[r].accepted

StaysTold(r) ==
  Told(r)' = Told(r) /\ calls'[r].accepted = calls[r].accepted

Accepts(r) ==
  /\ Told(r) \in {"pending", "outcome_unknown"} /\ Told(r)' = Told(r)
  /\ calls[r].accepted = 0 /\ calls'[r].accepted = 1

HonestStep(r) ==
  \/ StaysTold(r)
  \/ Tells(r, "absent", "pending")
  \/ Accepts(r)
  \/ Tells(r, "pending", "provider_accepted") /\ calls[r].accepted = 1
  \/ Tells(r, "pending", "terminal_failure") /\ calls[r].accepted = 0
  \/ Tells(r, "pending", "outcome_unknown")
  \/ Tells(r, "terminal_failure", "pending") /\ calls[r].accepted = 0

(* A reply the step does not concern stays told as it was.                  *)
LEMMA OthersStay ==
  ASSUME NEW s \in Replies, reply'[s] = reply[s], calls'[s] = calls[s]
  PROVE  HonestStep(s)
  BY DEF HonestStep, StaysTold, Told

(* An unsettled or rejected reply was not accepted.                         *)
LEMMA NotAccepted ==
  ASSUME IInv, NEW r \in Replies,
         reply[r].status \in {"pending", "terminal_failure"}
  PROVE  calls[r].accepted = 0
  BY DEF IInv, RepliesInv, RowInv

(* A request tells "pending"; an expired lease tells nothing new.           *)
LEMMA RowActionsHonest ==
  ASSUME IInv, NEW r \in Replies, RequestReply(r) \/ LeaseExpires(r),
         NEW s \in Replies
  PROVE  HonestStep(s)
<1>1. calls' = calls
  BY DEF RequestReply, LeaseExpires
<1>2. CASE s # r
  <2>1. reply'[s] = reply[s]
    BY <1>2 DEF RequestReply, LeaseExpires, IInv, TypeOK
  <2> QED
    BY <1>1, <2>1, OthersStay
<1>3. CASE s = r
  <2>1. CASE RequestReply(r)
    <3>1. reply[r].status = "absent" /\ reply'[r].status = "pending"
      BY <2>1 DEF RequestReply, IInv, TypeOK, Reply
    <3> QED
      BY <1>1, <1>3, <3>1 DEF HonestStep, Tells, Told
  <2>2. CASE LeaseExpires(r)
    <3>1. reply'[r].status = reply[r].status
      BY <2>2 DEF LeaseExpires, IInv, TypeOK, Reply
    <3> QED
      BY <1>1, <1>3, <3>1 DEF HonestStep, StaysTold, Told
  <2> QED
    BY <2>1, <2>2
<1> QED
  BY <1>2, <1>3

(* A claim tells at most that the outcome is unknown, or that a reply Telegram *)
(* rejected failed for good.                                                *)
LEMMA ClaimHonest ==
  ASSUME IInv, NEW c \in Consumers, NEW r \in Replies, Claim(c, r),
         NEW s \in Replies
  PROVE  HonestStep(s)
<1>1. calls' = calls
  BY DEF Claim, ClaimTerminal, ClaimDeferred, ClaimExpired, ClaimExhausted,
         ClaimGranted
<1>2. CASE s # r
  <2>1. reply'[s] = reply[s]
    BY <1>2 DEF Claim, ClaimTerminal, ClaimDeferred, ClaimExpired,
                ClaimExhausted, ClaimGranted, IInv, TypeOK, storeVars
  <2> QED
    BY <1>1, <2>1, OthersStay
<1>3. CASE s = r
  <2>1. CASE ClaimTerminal(c, r) \/ ClaimDeferred(c, r)
    BY <1>1, <2>1, OthersStay DEF ClaimTerminal, ClaimDeferred, storeVars
  <2>2. CASE ClaimExpired(c, r)
    <3>1. /\ reply[r].status = "delivering"
          /\ reply'[r].status = "outcome_unknown"
      BY <2>2 DEF ClaimExpired, IInv, TypeOK, Reply
    <3> QED
      BY <1>1, <1>3, <3>1 DEF HonestStep, Tells, Told
  <2>3. CASE ClaimExhausted(c, r)
    <3>1. /\ reply[r].status = "pending"
          /\ reply'[r].status = "terminal_failure"
      BY <2>3 DEF ClaimExhausted, IInv, TypeOK, Reply
    <3>2. calls[r].accepted = 0
      BY <3>1, NotAccepted
    <3> QED
      BY <1>1, <1>3, <3>1, <3>2 DEF HonestStep, Tells, Told
  <2>4. CASE ClaimGranted(c, r)
    <3>1. reply[r].status = "pending" /\ reply'[r].status = "delivering"
      BY <2>4 DEF ClaimGranted, IInv, TypeOK, Reply
    <3> QED
      BY <1>1, <1>3, <3>1 DEF HonestStep, StaysTold, Told
  <2> QED
    BY <2>1, <2>2, <2>3, <2>4 DEF Claim
<1> QED
  BY <1>2, <1>3

(* A call is accepted for the first time or not at all.                     *)
LEMMA SendHonest ==
  ASSUME IInv, NEW c \in Consumers, Send(c), NEW s \in Replies
  PROVE  HonestStep(s)
<1>1. reply' = reply
  BY DEF Send, storeVars
<1>2. CASE s # consumer[c].reply
  <2>1. calls'[s] = calls[s]
    BY <1>2 DEF Send, IInv, TypeOK
  <2> QED
    BY <1>1, <2>1, OthersStay
<1>3. CASE s = consumer[c].reply
  <2>1. SenderInv(consumer[c], reply[s], calls[s]) /\ consumer[c].phase = "claimed"
    BY <1>3 DEF Send, Sending, IInv, SendersInv
  <2>2. /\ calls[s].accepted = 0
        /\ reply[s].status \in {"delivering", "outcome_unknown"}
    BY <2>1 DEF SenderInv
  <2>3. PICK a \in Answers : calls'[s] = Called(calls[s], a)
    BY <1>3 DEF Send, IInv, TypeOK
  <2>4. calls'[s].accepted = 0 \/ calls'[s].accepted = 1
    BY <2>2, <2>3 DEF Called
  <2> QED
    BY <1>1, <2>2, <2>4 DEF HonestStep, StaysTold, Accepts, Told
<1> QED
  BY <1>2, <1>3

(* A completed attempt tells the answer, which is true of Telegram.         *)
LEMMA CompletionHonest ==
  ASSUME IInv, NEW c \in Consumers, CompleteAttempt(c), NEW s \in Replies
  PROVE  HonestStep(s)
<1>1. calls' = calls
  BY DEF CompleteAttempt
<1>2. CASE s # consumer[c].reply
  <2>1. reply'[s] = reply[s]
    BY <1>2 DEF CompleteAttempt, IInv, TypeOK
  <2> QED
    BY <1>1, <2>1, OthersStay
<1>3. CASE s = consumer[c].reply
  <2> DEFINE answer == consumer[c].answer
  <2>1. SenderInv(consumer[c], reply[s], calls[s]) /\ consumer[c].phase = "answered"
    BY <1>3 DEF CompleteAttempt, Sending, IInv, SendersInv
  <2>2. /\ answer \in Outcomes
        /\ answer = "provider_accepted" => calls[s].accepted = 1
        /\ answer \in Rejected => calls[s].accepted = 0
    BY <2>1 DEF SenderInv
  <2>3. reply[s].status = "delivering"
    BY <1>3 DEF CompleteAttempt, HoldsClaim
  <2>4. reply'[s].status = IF answer = "transient_failure" THEN "pending"
                                                           ELSE answer
    BY <1>3 DEF CompleteAttempt, IInv, TypeOK, Reply
  <2> HIDE DEF answer
  <2> QED
    BY <1>1, <2>2, <2>3, <2>4
    DEF HonestStep, StaysTold, Tells, Told, Outcomes, Rejected
<1> QED
  BY <1>2, <1>3

(* A reopened reply was not accepted.                                       *)
LEMMA ReopenHonest ==
  ASSUME IInv, NEW o \in Operators, ReopenReply(o), NEW s \in Replies
  PROVE  HonestStep(s)
<1>1. calls' = calls
  BY DEF ReopenReply
<1>2. CASE s # operator[o].reply
  <2>1. reply'[s] = reply[s]
    BY <1>2 DEF ReopenReply, IInv, TypeOK
  <2> QED
    BY <1>1, <2>1, OthersStay
<1>3. CASE s = operator[o].reply
  <2>1. /\ reply[s].status = "terminal_failure"
        /\ reply'[s].status = "pending"
    BY <1>3 DEF ReopenReply, Reopenable, Reopened, IInv, TypeOK, Reply
  <2>2. calls[s].accepted = 0
    BY <2>1, NotAccepted
  <2> QED
    BY <1>1, <2>1, <2>2 DEF HonestStep, Tells, Told
<1> QED
  BY <1>2, <1>3

(* Every step tells about every reply only what is true.                    *)
LEMMA NextHonest ==
  ASSUME IInv, Next, NEW s \in Replies
  PROVE  HonestStep(s)
<1>1. ASSUME NEW r \in Replies, RequestReply(r) \/ LeaseExpires(r)
      PROVE  HonestStep(s)
  BY <1>1, RowActionsHonest
<1>2. ASSUME NEW c \in Consumers, Deliver(c)
      PROVE  HonestStep(s)
  <2>1. CASE \E r \in Replies : Claim(c, r)
    BY <2>1, ClaimHonest
  <2>2. CASE Send(c)
    BY <2>2, SendHonest
  <2>3. CASE CompleteAttempt(c)
    BY <2>3, CompletionHonest
  <2>4. CASE CompleteFails(c) \/ Leave(c) \/ Crash(c)
    BY <2>4, OthersStay DEF CompleteFails, Leave, Crash, storeVars
  <2> QED
    BY <1>2, <2>1, <2>2, <2>3, <2>4 DEF Deliver
<1>3. ASSUME NEW o \in Operators, Recover(o)
      PROVE  HonestStep(s)
  <2>1. CASE ReopenReply(o)
    BY <2>1, ReopenHonest
  <2>2. CASE ~ReopenReply(o)
    BY <1>3, <2>2, OthersStay
    DEF Recover, LookUpRecovery, PublishRecovery, MarkRecoveryPublished,
        OperatorStops, storeVars
  <2> QED
    BY <2>1, <2>2
<1> QED
  BY <1>1, <1>2, <1>3 DEF Next

(* The delivery component implements HonestReply: whatever Workers, leases  *)
(* and operators do, what a reply's status tells is true of Telegram.       *)
THEOREM DeliveryIsHonest == Spec => HonestDelivery
<1> DEFINE toldOf == [r \in Replies |-> Told(r)]
           acceptedOf == [r \in Replies |-> calls[r].accepted]
<1>1. Init => Honest!HonestInit
  <2> SUFFICES ASSUME Init
               PROVE  /\ toldOf = [r \in Replies |-> "absent"]
                      /\ acceptedOf = [r \in Replies |-> 0]
    BY DEF Honest!HonestInit
  <2> QED
    BY DEF Init, Told, AbsentReply
<1>2. IInv /\ [Next]_deliveryVars => [Honest!HonestNext]_(Honest!honestVars)
  <2>1. ASSUME IInv, Next PROVE Honest!HonestNext
    <3>1. DOMAIN toldOf' = Replies /\ DOMAIN acceptedOf' = Replies
      OBVIOUS
    <3>2. ASSUME NEW r \in Replies PROVE Honest!ReplyStep(r)
      <4>1. HonestStep(r)
        BY <2>1, NextHonest
      <4>2. /\ toldOf[r] = Told(r) /\ toldOf'[r] = Told(r)'
            /\ acceptedOf[r] = calls[r].accepted
            /\ acceptedOf'[r] = calls'[r].accepted
        OBVIOUS
      <4> HIDE DEF toldOf, acceptedOf
      <4> QED
        BY <4>1, <4>2
        DEF HonestStep, StaysTold, Tells, Accepts, Honest!ReplyStep,
            Honest!Tells, Honest!Accept, toldOf, acceptedOf
    <3> QED
      BY <3>1, <3>2 DEF Honest!HonestNext
  <2>2. ASSUME UNCHANGED deliveryVars
        PROVE  UNCHANGED Honest!honestVars
    BY <2>2 DEF deliveryVars, Honest!honestVars, Told
  <2> QED
    BY <2>1, <2>2
<1> QED
  BY <1>1, <1>2, InductiveInvariant, PTL
     DEF Spec, HonestDelivery, Honest!HonestSpec

-----------------------------------------------------------------------------
(* A recovery that is still owed to the newest attempt's rejection.          *)
Owed(r) ==
  IF reply[r].status = "terminal_failure" /\ reply[r].attempts < MaxAttempts
  THEN 1 ELSE 0

(* Recoveries, the one that may still be recorded included, are paid for by  *)
(* rejections; a run past prepareRecovery works for a recorded one.          *)
PaidInv ==
  /\ \A r \in Replies :
       Cardinality(RecoveriesOf(r)) + Owed(r) <= Cardinality(RejectionsOf(r))
  /\ \A o \in Operators :
       operator[o].phase \in {"publishing", "marking"} =>
         recovery[operator[o].key].status # "none"

LEMMA Counts ==
  ASSUME NEW r
  PROVE  /\ IsFiniteSet(RecoveriesOf(r)) /\ Cardinality(RecoveriesOf(r)) \in Nat
         /\ IsFiniteSet(RejectionsOf(r)) /\ Cardinality(RejectionsOf(r)) \in Nat
         /\ Owed(r) \in {0, 1}
<1>1. IsFiniteSet(AttemptNumbers)
  BY FS_Interval, DeliveryAssumption DEF AttemptNumbers
<1>2. RecoveriesOf(r) \subseteq Recoveries /\ RejectionsOf(r) \subseteq AttemptNumbers
  BY DEF RecoveriesOf, RejectionsOf
<1>3. IsFiniteSet(RecoveriesOf(r)) /\ IsFiniteSet(RejectionsOf(r))
  BY <1>1, <1>2, FS_Subset, DeliveryAssumption
<1> QED BY <1>3, FS_CardinalityType DEF Owed

(* What a step may do to a reply's count: leave it, or forgive what is owed, *)
(* record one more rejection, or record the recovery that is owed.           *)
Quiet(r) ==
  /\ RecoveriesOf(r)' = RecoveriesOf(r) /\ RejectionsOf(r)' = RejectionsOf(r)
  /\ Owed(r)' = 1 => Owed(r) = 1

Rejects(r) ==
  /\ Owed(r) = 0 /\ RecoveriesOf(r)' = RecoveriesOf(r)
  /\ \E n : n \notin RejectionsOf(r) /\ RejectionsOf(r)' = RejectionsOf(r) \cup {n}

Reopens(r) ==
  /\ Owed(r) = 1 /\ Owed(r)' = 0 /\ RejectionsOf(r)' = RejectionsOf(r)
  /\ \E k : RecoveriesOf(r)' = RecoveriesOf(r) \cup {k}

LEMMA CountKept ==
  ASSUME PaidInv, NEW r \in Replies, Quiet(r) \/ Rejects(r) \/ Reopens(r)
  PROVE  (Cardinality(RecoveriesOf(r)) + Owed(r) <= Cardinality(RejectionsOf(r)))'
<1> DEFINE recovered == Cardinality(RecoveriesOf(r))
           rejected == Cardinality(RejectionsOf(r))
<1>1. recovered + Owed(r) <= rejected /\ Owed(r) \in {0, 1} /\ Owed(r)' \in {0, 1}
      /\ recovered \in Nat /\ rejected \in Nat
  BY Counts DEF PaidInv, Owed
<1>2. CASE Quiet(r)
  <2>1. recovered' = recovered /\ rejected' = rejected
    BY <1>2 DEF Quiet
  <2> HIDE DEF recovered, rejected
  <2>2. (recovered + Owed(r) <= rejected)'
    BY <1>1, <1>2, <2>1 DEF Quiet
  <2> QED BY <2>2 DEF recovered, rejected
<1>3. CASE Rejects(r)
  <2>1. recovered' = recovered
    BY <1>3 DEF Rejects
  <2>2. rejected' = rejected + 1
    <3>1. PICK n : n \notin RejectionsOf(r) /\ RejectionsOf(r)' = RejectionsOf(r) \cup {n}
      BY <1>3 DEF Rejects
    <3>2. Cardinality(RejectionsOf(r) \cup {n}) = rejected + 1
      BY <3>1, Counts, FS_AddElement
    <3> QED BY <3>1, <3>2
  <2> HIDE DEF recovered, rejected
  <2>3. (recovered + Owed(r) <= rejected)'
    BY <1>1, <1>3, <2>1, <2>2 DEF Rejects
  <2> QED BY <2>3 DEF recovered, rejected
<1>4. CASE Reopens(r)
  <2>1. rejected' = rejected
    BY <1>4 DEF Reopens
  <2>2. recovered' = recovered \/ recovered' = recovered + 1
    <3>1. PICK k : RecoveriesOf(r)' = RecoveriesOf(r) \cup {k}
      BY <1>4 DEF Reopens
    <3>2. \/ Cardinality(RecoveriesOf(r) \cup {k}) = recovered
          \/ Cardinality(RecoveriesOf(r) \cup {k}) = recovered + 1
      BY <3>1, Counts, FS_AddElement
    <3> QED BY <3>1, <3>2
  <2> HIDE DEF recovered, rejected
  <2>3. (recovered + Owed(r) <= rejected)'
    BY <1>1, <1>4, <2>1, <2>2 DEF Reopens
  <2> QED BY <2>3 DEF recovered, rejected
<1> QED BY <1>2, <1>3, <1>4

(* What leaves the keys and the replies' statuses alone leaves the counts.   *)
LEMMA SameCounts ==
  ASSUME NEW r \in Replies,
         \A k \in Recoveries :
           /\ recovery'[k].status # "none" <=> recovery[k].status # "none"
           /\ recovery'[k].reply = recovery[k].reply,
         \A n \in AttemptNumbers :
           attempt'[r][n] = "terminal_failure" <=> attempt[r][n] = "terminal_failure",
         Owed(r)' = 1 => Owed(r) = 1
  PROVE  Quiet(r)
<1>1. RecoveriesOf(r)' = RecoveriesOf(r)
  BY DEF RecoveriesOf
<1>2. RejectionsOf(r)' = RejectionsOf(r)
  BY DEF RejectionsOf
<1> QED BY <1>1, <1>2 DEF Quiet

(* A step that concerns reply r alone, and no recovery.                      *)
LEMMA OtherCounts ==
  ASSUME NEW s \in Replies, UNCHANGED recovery,
         reply'[s] = reply[s], attempt'[s] = attempt[s]
  PROVE  Quiet(s)
<1>1. Owed(s)' = Owed(s)
  BY DEF Owed
<1> QED BY <1>1, SameCounts

LEMMA RowActionsCount ==
  ASSUME IInv, NEW r \in Replies, RequestReply(r) \/ LeaseExpires(r), NEW s \in Replies
  PROVE  Quiet(s)
<1>1. UNCHANGED <<attempt, recovery>>
  BY DEF RequestReply, LeaseExpires, recoveryVars
<1>2. CASE s # r
  <2>1. reply'[s] = reply[s]
    BY <1>2 DEF RequestReply, LeaseExpires, IInv, TypeOK
  <2> QED BY <1>1, <2>1, OtherCounts
<1>3. CASE s = r
  <2>1. reply'[s].status # "terminal_failure"
    BY <1>3 DEF RequestReply, LeaseExpires, IInv, TypeOK, Reply
  <2> QED BY <1>1, <2>1, SameCounts DEF Owed
<1> QED BY <1>2, <1>3

(* A claim settles an open attempt as unknown, opens a fresh one, or fails a *)
(* reply whose attempts are used up: no rejection, and nothing owed.         *)
LEMMA ClaimCounts ==
  ASSUME IInv, NEW c \in Consumers, NEW r \in Replies, Claim(c, r), NEW s \in Replies
  PROVE  Quiet(s)
<1>1. UNCHANGED recovery
  BY DEF Claim, ClaimTerminal, ClaimDeferred, ClaimExpired, ClaimExhausted,
         ClaimGranted, recoveryVars
<1>2. CASE s # r
  <2>1. reply'[s] = reply[s] /\ attempt'[s] = attempt[s]
    BY <1>2 DEF Claim, ClaimTerminal, ClaimDeferred, ClaimExpired,
                ClaimExhausted, ClaimGranted, IInv, TypeOK, storeVars
  <2> QED BY <1>1, <2>1, OtherCounts
<1>3. CASE s = r /\ (ClaimTerminal(c, r) \/ ClaimDeferred(c, r))
  BY <1>1, <1>3, OtherCounts DEF ClaimTerminal, ClaimDeferred, storeVars
<1> DEFINE ledger == attempt[r]
<1>4. /\ LedgerInv(reply[r], ledger) /\ RowInv(reply[r], calls[r])
      /\ attempt \in [Replies -> [AttemptNumbers -> {"none", "attempting"} \cup Outcomes]]
      /\ reply \in [Replies -> Reply]
  BY DEF IInv, RepliesInv, TypeOK
<1>5. CASE s = r /\ ClaimExpired(c, r)
  <2>1. /\ reply[r].status = "delivering" /\ reply[r].claim = reply[r].attempts
        /\ attempt' = [attempt EXCEPT ![r][reply[r].claim] = "outcome_unknown"]
        /\ reply'[r].status = "outcome_unknown"
    BY <1>4, <1>5 DEF ClaimExpired, RowInv, Reply
  <2>2. \A n \in AttemptNumbers :
          attempt'[r][n] = "terminal_failure" <=> attempt[r][n] = "terminal_failure"
    BY <1>4, <2>1 DEF LedgerInv
  <2> QED BY <1>1, <1>5, <2>1, <2>2, SameCounts DEF Owed
<1>6. CASE s = r /\ ClaimExhausted(c, r)
  <2>1. /\ UNCHANGED attempt /\ reply'[r].attempts = reply[r].attempts
        /\ reply[r].attempts >= MaxAttempts /\ reply[r].attempts \in Nat
    BY <1>4, <1>6, RowTypes DEF ClaimExhausted, Reply, IInv
  <2>2. Owed(r)' = 0
    BY <2>1, DeliveryAssumption DEF Owed
  <2> QED BY <1>1, <1>6, <2>1, <2>2, SameCounts
<1>7. CASE s = r /\ ClaimGranted(c, r)
  <2>1. /\ attempt' = [attempt EXCEPT ![r][reply[r].attempts + 1] = "attempting"]
        /\ reply'[r].status = "delivering" /\ reply[r].attempts \in Nat
    BY <1>4, <1>7, RowTypes DEF ClaimGranted, IInv
  <2>2. \A n \in AttemptNumbers : n = reply[r].attempts + 1 => attempt[r][n] = "none"
    BY <1>4, <2>1 DEF LedgerInv
  <2>3. \A n \in AttemptNumbers :
          attempt'[r][n] = "terminal_failure" <=> attempt[r][n] = "terminal_failure"
    BY <1>4, <2>1, <2>2
  <2> QED BY <1>1, <1>7, <2>1, <2>3, SameCounts DEF Owed
<1> QED BY <1>2, <1>3, <1>5, <1>6, <1>7 DEF Claim

(* A completed attempt was open: a terminal failure is a rejection more.     *)
LEMMA CompletionCounts ==
  ASSUME IInv, NEW c \in Consumers, CompleteAttempt(c), NEW s \in Replies
  PROVE  Quiet(s) \/ Rejects(s)
<1>1. UNCHANGED recovery
  BY DEF CompleteAttempt, recoveryVars
<1>2. CASE s # consumer[c].reply
  <2>1. reply'[s] = reply[s] /\ attempt'[s] = attempt[s]
    BY <1>2 DEF CompleteAttempt, IInv, TypeOK
  <2> QED BY <1>1, <2>1, OtherCounts
<1>3. CASE s = consumer[c].reply
  <2>1. PICK n, answer : n = consumer[c].attempt /\ answer = consumer[c].answer
    OBVIOUS
  <2>2. /\ reply[s].status = "delivering" /\ n = reply[s].attempts
        /\ RowInv(reply[s], calls[s]) /\ LedgerInv(reply[s], attempt[s])
        /\ reply[s].attempts \in Nat /\ reply[s].attempts <= MaxAttempts
    BY <1>3, <2>1, RowTypes DEF CompleteAttempt, HoldsClaim, Sending, IInv, SendersInv,
                                SenderInv, RepliesInv
  <2>3. n \in AttemptNumbers /\ attempt[s][n] = "attempting"
    <3>1. n # 0
      BY <2>2 DEF RowInv
    <3>2. n \in AttemptNumbers
      BY <2>2, <3>1, DeliveryAssumption DEF AttemptNumbers
    <3> QED BY <2>2, <3>2 DEF LedgerInv
  <2>4. /\ attempt' = [attempt EXCEPT ![s][n] = answer]
        /\ reply'[s].status = IF answer = "transient_failure" THEN "pending" ELSE answer
    BY <1>3, <2>1 DEF CompleteAttempt, IInv, TypeOK, Reply
  <2>5. \A m \in AttemptNumbers : attempt'[s][m] = IF m = n THEN answer ELSE attempt[s][m]
    BY <2>3, <2>4 DEF IInv, TypeOK
  <2>6. CASE answer # "terminal_failure"
    <3>1. Owed(s)' = 0
      BY <2>4, <2>6 DEF Owed
    <3> QED BY <1>1, <2>3, <2>5, <2>6, <3>1, SameCounts
  <2>7. CASE answer = "terminal_failure"
    <3>1. n \notin RejectionsOf(s) /\ RejectionsOf(s)' = RejectionsOf(s) \cup {n}
      BY <2>3, <2>5, <2>7 DEF RejectionsOf
    <3>2. RecoveriesOf(s)' = RecoveriesOf(s)
      BY <1>1 DEF RecoveriesOf
    <3>3. Owed(s) = 0
      BY <2>2 DEF Owed
    <3> QED BY <3>1, <3>2, <3>3 DEF Rejects
  <2> QED BY <2>6, <2>7
<1> QED BY <1>2, <1>3

(* prepareRecovery records the one recovery that is owed.                    *)
LEMMA ReopenCounts ==
  ASSUME IInv, NEW o \in Operators, ReopenReply(o), NEW s \in Replies
  PROVE  Quiet(s) \/ Reopens(s)
<1>1. PICK r \in Replies, k \in Recoveries : r = operator[o].reply /\ k = operator[o].key
  BY DEF ReopenReply, IInv, OperatorsInv
<1>2. /\ reply[r].status = "terminal_failure" /\ reply[r].attempts < MaxAttempts
      /\ recovery[k].status = "none" /\ UNCHANGED attempt
      /\ reply' = [reply EXCEPT ![r] = Reopened(@)]
      /\ recovery' = [recovery EXCEPT ![k] = [status |-> "prepared", reply |-> r]]
  BY <1>1 DEF ReopenReply, Reopenable
<1>3. \A l \in Recoveries :
        recovery'[l] = IF l = k THEN [status |-> "prepared", reply |-> r] ELSE recovery[l]
  BY <1>2 DEF IInv, TypeOK
<1>4. RejectionsOf(s)' = RejectionsOf(s)
  BY <1>2 DEF RejectionsOf
<1>5. CASE s = r
  <2>1. reply'[s].status = "pending"
    BY <1>2, <1>5 DEF IInv, TypeOK, Reply, Reopened
  <2>2. RecoveriesOf(s)' = RecoveriesOf(s) \cup {k}
    BY <1>2, <1>3, <1>5 DEF RecoveriesOf
  <2> QED BY <1>2, <1>4, <1>5, <2>1, <2>2 DEF Reopens, Owed
<1>6. CASE s # r
  <2>1. reply'[s] = reply[s]
    BY <1>2, <1>6 DEF IInv, TypeOK
  <2>2. RecoveriesOf(s)' = RecoveriesOf(s)
    BY <1>2, <1>3, <1>6 DEF RecoveriesOf
  <2> QED BY <1>4, <2>1, <2>2 DEF Quiet, Owed
<1> QED BY <1>5, <1>6

(* A run past prepareRecovery stays one that works for a recorded recovery.  *)
LEMMA OperatorsKnow ==
  ASSUME IInv, PaidInv, [Next]_deliveryVars,
         NEW o \in Operators, operator'[o].phase \in {"publishing", "marking"}
  PROVE  recovery'[operator'[o].key].status # "none"
<1>1. ASSUME UNCHANGED recoveryVars
      PROVE  recovery'[operator'[o].key].status # "none"
  BY <1>1 DEF PaidInv, recoveryVars
<1>2. ASSUME NEW p \in Operators, Recover(p)
      PROVE  recovery'[operator'[o].key].status # "none"
  <2>1. \A k \in Recoveries : recovery[k].status # "none" => recovery'[k].status # "none"
    BY <1>2 DEF Recover, LookUpRecovery, ReopenReply, PublishRecovery,
                MarkRecoveryPublished, OperatorStops, IInv, TypeOK, Recovery
  <2>2. operator \in [Operators -> Operator]
    BY DEF IInv, TypeOK
  <2>3. CASE o # p
    <3>1. operator'[o] = operator[o]
      BY <1>2, <2>2, <2>3 DEF Recover, LookUpRecovery, ReopenReply, PublishRecovery,
                              MarkRecoveryPublished, OperatorStops
    <3>2. operator[o].key \in Recoveries /\ recovery[operator[o].key].status # "none"
      BY <3>1 DEF PaidInv, IInv, OperatorsInv
    <3> QED BY <2>1, <3>1, <3>2
  <2>4. CASE o = p
    <3>1. ASSUME NEW k \in Recoveries, NEW r \in Replies, LookUpRecovery(p, k, r)
          PROVE  recovery'[operator'[o].key].status # "none"
      <4>1. /\ operator'[o] = [phase |-> IF recovery[k].status = "none" THEN "reopening"
                                                                    ELSE "publishing",
                                key |-> k, reply |-> r]
            /\ UNCHANGED recovery
        BY <2>2, <2>4, <3>1 DEF LookUpRecovery
      <4> QED BY <4>1
    <3>2. CASE ReopenReply(p)
      <4>1. /\ operator[o].key \in Recoveries /\ operator'[o].key = operator[o].key
            /\ recovery' = [recovery EXCEPT ![operator[o].key] =
                              [status |-> "prepared", reply |-> operator[o].reply]]
        BY <2>2, <2>4, <3>2 DEF ReopenReply, IInv, OperatorsInv, Operator
      <4> QED BY <4>1 DEF IInv, TypeOK
    <3>3. CASE PublishRecovery(p)
      <4>1. /\ operator[o].phase = "publishing" /\ operator'[o].key = operator[o].key
            /\ UNCHANGED recovery
        BY <2>2, <2>4, <3>3 DEF PublishRecovery, Operator
      <4> QED BY <4>1 DEF PaidInv
    <3>4. CASE MarkRecoveryPublished(p) \/ OperatorStops(p)
      <4>1. operator'[o] = IdleOperator
        BY <2>2, <2>4, <3>4 DEF MarkRecoveryPublished, OperatorStops
      <4> QED BY <4>1 DEF IdleOperator
    <3> QED BY <1>2, <3>1, <3>2, <3>3, <3>4 DEF Recover
  <2> QED BY <2>3, <2>4
<1>3. CASE UNCHANGED deliveryVars
  BY <1>1, <1>3 DEF deliveryVars, recoveryVars
<1>4. ASSUME NEW r \in Replies, RequestReply(r) \/ LeaseExpires(r)
      PROVE  UNCHANGED recoveryVars
  BY <1>4 DEF RequestReply, LeaseExpires
<1>5. ASSUME NEW c \in Consumers, Deliver(c)
      PROVE  UNCHANGED recoveryVars
  BY <1>5 DEF Deliver, Claim, ClaimTerminal, ClaimDeferred, ClaimExpired,
              ClaimExhausted, ClaimGranted, Send, CompleteAttempt, CompleteFails,
              Leave, Crash
<1> QED BY <1>1, <1>2, <1>3, <1>4, <1>5 DEF Next

(* Every step of every reply's count is one of the three.                    *)
LEMMA NextCounts ==
  ASSUME IInv, PaidInv, [Next]_deliveryVars, NEW s \in Replies
  PROVE  Quiet(s) \/ Rejects(s) \/ Reopens(s)
<1>1. ASSUME NEW r \in Replies, RequestReply(r) \/ LeaseExpires(r)
      PROVE  Quiet(s)
  BY <1>1, RowActionsCount
<1>2. ASSUME NEW c \in Consumers, Deliver(c)
      PROVE  Quiet(s) \/ Rejects(s)
  <2>1. CASE \E r \in Replies : Claim(c, r)
    BY <2>1, ClaimCounts
  <2>2. CASE CompleteAttempt(c)
    BY <2>2, CompletionCounts
  <2>3. CASE Send(c) \/ CompleteFails(c) \/ Leave(c) \/ Crash(c)
    BY <2>3, OtherCounts DEF Send, CompleteFails, Leave, Crash, storeVars, recoveryVars
  <2> QED BY <1>2, <2>1, <2>2, <2>3 DEF Deliver
<1>3. ASSUME NEW o \in Operators, Recover(o)
      PROVE  Quiet(s) \/ Reopens(s)
  <2>1. CASE ReopenReply(o)
    BY <2>1, ReopenCounts
  <2>2. CASE MarkRecoveryPublished(o)
    <3>1. /\ operator[o].phase = "marking" /\ UNCHANGED storeVars
          /\ recovery' = [recovery EXCEPT ![operator[o].key].status = "published"]
      BY <2>2 DEF MarkRecoveryPublished
    <3>2. recovery[operator[o].key].status # "none" /\ operator[o].key \in Recoveries
      BY <3>1 DEF PaidInv, IInv, OperatorsInv
    <3>3. \A k \in Recoveries :
            /\ recovery'[k].status # "none" <=> recovery[k].status # "none"
            /\ recovery'[k].reply = recovery[k].reply
      BY <3>1, <3>2 DEF IInv, TypeOK, Recovery
    <3>4. UNCHANGED attempt /\ Owed(s)' = Owed(s)
      BY <3>1 DEF storeVars, Owed
    <3> QED BY <3>3, <3>4, SameCounts
  <2>3. CASE ~ReopenReply(o) /\ ~MarkRecoveryPublished(o)
    <3>1. UNCHANGED <<reply, attempt, recovery>>
      BY <1>3, <2>3 DEF Recover, LookUpRecovery, PublishRecovery, OperatorStops, storeVars
    <3> QED BY <3>1, OtherCounts
  <2> QED BY <2>1, <2>2, <2>3
<1>4. CASE UNCHANGED deliveryVars
  BY <1>4, OtherCounts DEF deliveryVars
<1> QED BY <1>1, <1>2, <1>3, <1>4 DEF Next

(* recoverTelegramDelivery cannot reopen a reply more often than Telegram    *)
(* terminally rejected an attempt of it, whatever runs and keys race: the    *)
(* look-up, the reopening and the record of the key share prepareRecovery's  *)
(* transaction, and publishing a recorded recovery again reopens nothing.    *)
THEOREM RecoveriesArePaid == Spec => []RecoveryPerRejection
<1>1. Init => PaidInv
  <2> SUFFICES ASSUME Init PROVE PaidInv
    OBVIOUS
  <2>1. \A r \in Replies : Cardinality(RecoveriesOf(r)) = 0 /\ Owed(r) = 0
    BY FS_EmptySet DEF Init, RecoveriesOf, NewRecovery, Owed, AbsentReply
  <2>2. \A r \in Replies : Cardinality(RejectionsOf(r)) \in Nat
    BY Counts
  <2>3. \A o \in Operators : operator[o].phase = "idle"
    BY DEF Init, IdleOperator
  <2> QED BY <2>1, <2>2, <2>3 DEF PaidInv
<1>2. IInv /\ PaidInv /\ [Next]_deliveryVars => PaidInv'
  BY CountKept, NextCounts, OperatorsKnow DEF PaidInv
<1>3. PaidInv => RecoveryPerRejection
  <2> SUFFICES ASSUME PaidInv, NEW r \in Replies
               PROVE  Cardinality(RecoveriesOf(r)) <= Cardinality(RejectionsOf(r))
    BY DEF RecoveryPerRejection
  <2> QED BY Counts DEF PaidInv
<1> QED BY <1>1, <1>2, <1>3, InductiveInvariant, PTL DEF Spec
=============================================================================
