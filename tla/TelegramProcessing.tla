-------------------------- MODULE TelegramProcessing --------------------------
(***************************************************************************)
(* An accepted Telegram update from its insertion to its one decision:     *)
(* packages/domain/src/channel/process-telegram-event.ts over              *)
(* packages/adapters/src/postgres/telegram-event-processing-store.ts, with *)
(* its effects on Identity, which are committed apart from the decision.   *)
(*                                                                         *)
(* The Queue repeats a job at will, so a consumer may take up an event at  *)
(* any time.  A consumer is in one run at a time: its name stands for the  *)
(* claim id of that run.                                                   *)
(***************************************************************************)
EXTENDS Identity

CONSTANTS
  Events, NoEvent,
  Consumers, NoConsumer,
  MaxFaults     \* bound: evictions, unavailable stores, overrun leases

ASSUME ProcessingAssumption ==
  /\ NoEvent \notin Events
  /\ NoConsumer \notin Consumers
  /\ MaxFaults \in Nat

VARIABLES
  event,      \* inbound_channel_events
  reply,      \* outbound_channel_messages (and normalized commands) per event
  receipted,  \* events whose job has a receipt
  worker,     \* runs of processTelegramEvent
  faults,     \* number of faults so far
  history     \* per event, for the properties only: what was done on its behalf

processingVars == <<event, reply, receipted, worker, faults, history>>
vars == <<identityVars, processingVars>>

Contents == [kind : {"text", "invalid"}, challenge : {NoChallenge}]
              \cup [kind : {"link", "unlink"}, challenge : Challenges]

Verdicts == {"unchecked", "allowed", "denied"}

Event == [status : {"absent", "pending", "processing", "processed", "suppressed"},
          claim : Consumers \cup {NoConsumer}, leaseOver : BOOLEAN,
          abuse : Verdicts, userAbuse : Verdicts,
          account : Accounts \cup {NoAccount},
          content : Contents]

Told == {"none", "rejected", "link_required", "text_accepted",
         "link_succeeded", "unlink_succeeded"}

Reply == [told : Told, actor : Links \cup {NoLink}]

Worker == [phase : {"idle", "resolving", "linking", "limiting", "unlinking",
                    "completing", "releasing", "finished"},
           event : Events \cup {NoEvent}, actor : Links \cup {NoLink}, told : Told]

(* counted: the windows e was counted in; moved: identities its processing   *)
(* linked and unlinked; link, rows: its account's identity, and the number   *)
(* of identities, when it was accepted.                                      *)
History == [channel : Nat, user : Nat,
            linked : Links \cup {NoLink}, unlinked : Links \cup {NoLink},
            link : Links \cup {NoLink}, rows : Links \cup {NoLink}]

(* Types, with the table's check that exactly a claimed event is processing. *)
ProcessingTypeOK ==
  /\ IdentityTypeOK
  /\ event \in [Events -> Event]
  /\ \A e \in Events : event[e].claim # NoConsumer <=> event[e].status = "processing"
  /\ reply \in [Events -> Reply]
  /\ receipted \in SUBSET Events
  /\ worker \in [Consumers -> Worker]
  /\ faults \in 0..MaxFaults
  /\ history \in [Events -> History]

AbsentEvent == [status |-> "absent", claim |-> NoConsumer, leaseOver |-> FALSE,
                abuse |-> "unchecked", userAbuse |-> "unchecked",
                account |-> NoAccount,
                content |-> [kind |-> "text", challenge |-> NoChallenge]]
NoReply == [told |-> "none", actor |-> NoLink]
Idle == [phase |-> "idle", event |-> NoEvent, actor |-> NoLink, told |-> "none"]
NoHistory == [channel |-> 0, user |-> 0, linked |-> NoLink, unlinked |-> NoLink,
              link |-> NoLink, rows |-> 0]

ProcessingInit ==
  /\ IdentityInit
  /\ event = [e \in Events |-> AbsentEvent]
  /\ reply = [e \in Events |-> NoReply]
  /\ receipted = {}
  /\ worker = [c \in Consumers |-> Idle]
  /\ faults = 0
  /\ history = [e \in Events |-> NoHistory]

-----------------------------------------------------------------------------
Decided(e) == event[e].status \in {"processed", "suppressed"}

Presentable == {NoChallenge} \cup {k \in Challenges : challenge[k].status # "absent"}

AcceptEventAgain(e, a, content) ==      \* mutant: a repeated update overwrites
  /\ content.challenge \in Presentable
  /\ event' = [event EXCEPT ![e] =
       [AbsentEvent EXCEPT !.status = "pending", !.account = a,
                           !.content = content]]
  /\ history' = [history EXCEPT ![e].link = Resolved(a), ![e].rows = Rows]
  /\ UNCHANGED <<identityVars, reply, receipted, worker, faults>>

(* persist: the first insertion of an update; a repeated one does nothing.   *)
(* Tokens are random, hence issued before they are sent; one that never was  *)
(* is refused like one of the other purpose.                                 *)
AcceptEvent(e, a, content) ==
  /\ event[e].status = "absent"
  /\ content.challenge \in Presentable
  /\ event' = [event EXCEPT ![e] =
       [AbsentEvent EXCEPT !.status = "pending", !.account = a,
                           !.content = content]]
  /\ history' = [history EXCEPT ![e].link = Resolved(a), ![e].rows = Rows]
  /\ UNCHANGED <<identityVars, reply, receipted, worker, faults>>

Fault == faults < MaxFaults /\ faults' = faults + 1

(* A run that outlives its lease counts as a fault; one that is gone leaves  *)
(* its lease behind.                                                         *)
Holds(c) ==
  LET e == worker[c].event IN
    e # NoEvent /\ event[e].status = "processing" /\ event[e].claim = c

LeaseExpires(e) ==
  /\ event[e].status = "processing" /\ ~event[e].leaseOver
  /\ event' = [event EXCEPT ![e].leaseOver = TRUE]
  /\ IF \E c \in Consumers : worker[c].event = e /\ Holds(c)
       THEN Fault ELSE UNCHANGED faults
  /\ UNCHANGED <<identityVars, reply, receipted, worker, history>>

-----------------------------------------------------------------------------
(* claim.  Deferral under a live lease changes nothing.                      *)
ClaimDuplicate(c, e) ==
  /\ worker[c].phase = "idle" /\ Decided(e)
  /\ worker' = [worker EXCEPT ![c].phase = "finished", ![c].event = e]
  /\ UNCHANGED <<identityVars, event, reply, receipted, faults, history>>

ClaimableIfPending(e) ==                \* mutant: an expired lease keeps others out
  event[e].status = "pending"

Claimable(e) ==
  \/ event[e].status = "pending"
  \/ event[e].status = "processing" /\ event[e].leaseOver

CountedAgain(e) ==                      \* mutant: counts every claim
  [history EXCEPT ![e].channel = @ + 1]

(* The channel's windows count an event at its first claim only. *)
Counted(e) ==
  IF event[e].abuse = "unchecked" THEN [history EXCEPT ![e].channel = @ + 1]
                                  ELSE history

(* A window of the account or of the whole channel is full. *)
ClaimSuppressed(c, e) ==
  /\ worker[c].phase = "idle" /\ Claimable(e)
  /\ event[e].abuse = "unchecked"
  /\ event' = [event EXCEPT ![e].status = "suppressed", ![e].claim = NoConsumer,
                            ![e].leaseOver = FALSE, ![e].abuse = "denied"]
  /\ history' = Counted(e)
  /\ worker' = [worker EXCEPT ![c].phase = "finished", ![c].event = e]
  /\ UNCHANGED <<identityVars, reply, receipted, faults>>

(* Where a run starts, and what it will tell an unusable command. *)
Begins(kind) == CASE kind = "invalid" -> "completing"
                  [] kind = "link" -> "linking"
                  [] OTHER -> "resolving"

ClaimGranted(c, e) ==
  LET kind == event[e].content.kind IN
    /\ worker[c].phase = "idle" /\ Claimable(e)
    /\ event' = [event EXCEPT ![e].status = "processing", ![e].claim = c,
                              ![e].leaseOver = FALSE, ![e].abuse = "allowed"]
    /\ history' = Counted(e)
    /\ worker' = [worker EXCEPT ![c] =
         [phase |-> Begins(kind), event |-> e, actor |-> NoLink,
          told |-> IF kind = "invalid" THEN "rejected" ELSE "none"]]
    /\ UNCHANGED <<identityVars, reply, receipted, faults>>

-----------------------------------------------------------------------------
Continues(c, phase, actor, told) ==
  worker' = [worker EXCEPT ![c].phase = phase, ![c].actor = actor, ![c].told = told]

Leaves(c) == worker' = [worker EXCEPT ![c] = Idle]

KindOf(c) == event[worker[c].event].content.kind
ChallengeOf(c) == event[worker[c].event].content.challenge
AccountOf(c) == event[worker[c].event].account

ToldLinked(kind) == CASE kind = "text" -> "text_accepted"
                      [] kind = "link" -> "link_succeeded"
                      [] OTHER -> "none"

(* resolveTelegramActor for a text, before an unlinking, and after a link    *)
(* challenge that was already consumed.                                      *)
Resolve(c) ==
  LET i == Resolved(AccountOf(c)) IN
    /\ worker[c].phase = "resolving"
    /\ \/ i # NoLink /\ Continues(c, "limiting", i, ToldLinked(KindOf(c)))
       \/ i = NoLink /\ KindOf(c) = "text"
          /\ Continues(c, "completing", NoLink, "link_required")
       \/ i = NoLink /\ KindOf(c) = "link"
          /\ Continues(c, "completing", NoLink, "rejected")
       \/ i = NoLink /\ KindOf(c) = "unlink"
          /\ Continues(c, "unlinking", NoLink, "none")
    /\ UNCHANGED <<identityVars, event, reply, receipted, faults, history>>

(* The store's transaction commits, but its answer is lost: the run releases *)
(* its claim.                                                                *)
AnswerLost(c) == Fault /\ Continues(c, "releasing", NoLink, "none")

AfterLinkingPlainly(c, answer) ==       \* mutant: no second look at a replay
  IF answer = "linked"
    THEN Continues(c, "limiting", Rows + 1, "link_succeeded")
    ELSE Continues(c, "completing", NoLink, "rejected")

AfterLinking(c, answer) ==
  CASE answer = "linked" ->
         Continues(c, "limiting", Rows + 1, "link_succeeded")
    [] answer = "already_used" -> Continues(c, "resolving", NoLink, "none")
    [] OTHER -> Continues(c, "completing", NoLink, "rejected")

ConsumeLinkEvent(c) ==
  /\ worker[c].phase = "linking"
  /\ \E answer \in Answered :
       /\ ConsumeLinkChallenge(ChallengeOf(c), AccountOf(c), answer)
       /\ \/ AfterLinking(c, answer) /\ UNCHANGED faults
          \/ AnswerLost(c)
       /\ history' = IF answer = "linked"
            THEN [history EXCEPT ![worker[c].event].linked = Rows + 1]
            ELSE history
  /\ UNCHANGED <<event, reply, receipted>>

AfterUnlinkingLeniently(c, answer) ==   \* mutant: any used challenge succeeded
  IF answer \in {"unlinked", "already_used"}
    THEN Continues(c, "completing", worker[c].actor, "unlink_succeeded")
    ELSE Continues(c, "completing", NoLink, "rejected")

(* A challenge used before counts as success for an account without an       *)
(* identity: a replay after this event's own unlinking.                      *)
AfterUnlinking(c, answer) ==
  IF answer = "unlinked" \/ (answer = "already_used" /\ worker[c].actor = NoLink)
    THEN Continues(c, "completing", worker[c].actor, "unlink_succeeded")
    ELSE Continues(c, "completing", NoLink, "rejected")

ConsumeUnlinkEvent(c) ==
  LET k == ChallengeOf(c) IN
    /\ worker[c].phase = "unlinking"
    /\ \E answer \in Answered :
         /\ ConsumeUnlinkChallenge(k, AccountOf(c), answer)
         /\ \/ AfterUnlinking(c, answer) /\ UNCHANGED faults
            \/ AnswerLost(c)
         /\ history' = IF answer = "unlinked"
              THEN [history EXCEPT ![worker[c].event].unlinked = challenge[k].target]
              ELSE history
    /\ UNCHANGED <<event, reply, receipted>>

(* Identity is unavailable before it changed anything. *)
IdentityUnavailable(c) ==
  /\ worker[c].phase \in {"resolving", "linking", "unlinking"}
  /\ AnswerLost(c)
  /\ UNCHANGED <<identityVars, event, reply, receipted, history>>
-----------------------------------------------------------------------------
(* enforceUserLimit: the user's window counts the event once; a verdict that *)
(* was stored by an earlier run stands.                                      *)
EnforceUserLimit(c) ==
  LET e == worker[c].event
      Allowed == worker' = [worker EXCEPT ![c].phase =
                   IF KindOf(c) = "unlink" THEN "unlinking" ELSE "completing"]
  IN
    /\ worker[c].phase = "limiting" /\ Holds(c)
    /\ \/ event[e].userAbuse = "allowed" /\ Allowed /\ UNCHANGED <<event, history>>
       \/ /\ event[e].userAbuse = "unchecked" /\ Allowed
          /\ event' = [event EXCEPT ![e].userAbuse = "allowed"]
          /\ history' = [history EXCEPT ![e].user = @ + 1]
       \/ /\ event[e].userAbuse = "unchecked"
          /\ event' = [event EXCEPT ![e].status = "suppressed",
                                    ![e].claim = NoConsumer, ![e].leaseOver = FALSE,
                                    ![e].userAbuse = "denied"]
          /\ history' = [history EXCEPT ![e].user = @ + 1]
          /\ worker' = [worker EXCEPT ![c].phase = "finished"]
    /\ UNCHANGED <<identityVars, reply, receipted, faults>>

CompleteKeepingClaim(c) ==              \* mutant: leaves the claim in place
  LET e == worker[c].event IN
    /\ worker[c].phase = "completing" /\ Holds(c) /\ reply[e] = NoReply
    /\ event' = [event EXCEPT ![e].status = "processed"]
    /\ reply' = [reply EXCEPT ![e] = [told |-> worker[c].told,
                                      actor |-> worker[c].actor]]
    /\ worker' = [worker EXCEPT ![c].phase = "finished"]
    /\ UNCHANGED <<identityVars, receipted, faults, history>>

(* complete: decision, command, reply and its outbox row in one transaction; *)
(* inbound_event_id is unique among the replies.                             *)
Complete(c) ==
  LET e == worker[c].event IN
    /\ worker[c].phase = "completing" /\ Holds(c) /\ reply[e] = NoReply
    /\ event' = [event EXCEPT ![e].status = "processed", ![e].claim = NoConsumer,
                              ![e].leaseOver = FALSE]
    /\ reply' = [reply EXCEPT ![e] = [told |-> worker[c].told,
                                      actor |-> worker[c].actor]]
    /\ worker' = [worker EXCEPT ![c].phase = "finished"]
    /\ UNCHANGED <<identityVars, receipted, faults, history>>

(* enforceUserLimit and complete fail for a run whose claim is gone; the     *)
(* Queue will repeat its job.                                                *)
ClaimGone(c) ==
  /\ worker[c].phase \in {"limiting", "completing"} /\ ~Holds(c)
  /\ Leaves(c)
  /\ UNCHANGED <<identityVars, event, reply, receipted, faults, history>>

ReleaseUnclaimed(c) ==                  \* mutant: releases whatever it finds
  /\ worker[c].phase = "releasing"
  /\ event' = [event EXCEPT ![worker[c].event].status = "pending",
                            ![worker[c].event].claim = NoConsumer,
                            ![worker[c].event].leaseOver = FALSE]
  /\ Leaves(c)
  /\ UNCHANGED <<identityVars, reply, receipted, faults, history>>

Release(c) ==
  /\ worker[c].phase = "releasing"
  /\ IF Holds(c)
       THEN event' = [event EXCEPT ![worker[c].event].status = "pending",
                                   ![worker[c].event].claim = NoConsumer,
                                   ![worker[c].event].leaseOver = FALSE]
       ELSE UNCHANGED event
  /\ Leaves(c)
  /\ UNCHANGED <<identityVars, reply, receipted, faults, history>>

RecordReceiptOnRelease(c) ==            \* mutant: acknowledges a released event
  /\ worker[c].phase \in {"releasing", "finished"}
  /\ receipted' = receipted \cup {worker[c].event}
  /\ Leaves(c)
  /\ UNCHANGED <<identityVars, event, reply, faults, history>>

(* processOutboxJob: a run that ended in a decision is receipted. *)
RecordReceipt(c) ==
  /\ worker[c].phase = "finished"
  /\ receipted' = receipted \cup {worker[c].event}
  /\ Leaves(c)
  /\ UNCHANGED <<identityVars, event, reply, faults, history>>

(* An evicted Worker, or a store that fails at any other point. *)
Fails(c) ==
  /\ worker[c].phase # "idle" /\ Fault
  /\ Leaves(c)
  /\ UNCHANGED <<identityVars, event, reply, receipted, history>>

-----------------------------------------------------------------------------
Proceeds(c) ==
  \/ Resolve(c) \/ ConsumeLinkEvent(c) \/ ConsumeUnlinkEvent(c)
  \/ IdentityUnavailable(c) \/ EnforceUserLimit(c) \/ Complete(c)
  \/ ClaimGone(c) \/ Release(c) \/ RecordReceipt(c) \/ Fails(c)

TakesUp(e) ==
  \E c \in Consumers : ClaimSuppressed(c, e) \/ ClaimGranted(c, e)

ProcessingNext ==
  \/ Surface /\ UNCHANGED processingVars
  \/ \E e \in Events :
       \/ \E a \in Accounts, content \in Contents : AcceptEvent(e, a, content)
       \/ LeaseExpires(e) \/ TakesUp(e)
       \/ \E c \in Consumers : ClaimDuplicate(c, e)
  \/ \E c \in Consumers : Proceeds(c)

ProcessingSpec == ProcessingInit /\ [][ProcessingNext]_vars

(* Leases run out, and runs end; the job of an undecided event has no        *)
(* receipt, so outbox and Queue bring it to a consumer again and again.      *)
ProcessingFairness ==
  /\ \A e \in Events : WF_vars(LeaseExpires(e)) /\ SF_vars(TakesUp(e))
  /\ \A c \in Consumers : WF_vars(Proceeds(c))

FairProcessing == ProcessingSpec /\ ProcessingFairness

-----------------------------------------------------------------------------
(* Whatever runs overlap, an event has its one reply exactly when it is      *)
(* processed: a suppressed event gets none, an undecided one none yet.       *)
ReplyIffProcessed ==
  \A e \in Events : event[e].status = "processed" <=> reply[e] # NoReply

(* A decided event stays as it was decided, reply and all, whatever a run    *)
(* that lost its claim still does to it.                                     *)
DecisionIsFinal ==
  [][\A e \in Events :
       Decided(e) => event'[e] = event[e] /\ reply'[e] = reply[e]]_vars

(* The minute windows count an event once, however often it is retried.      *)
CountedOnce == \A e \in Events : history[e].channel <= 1 /\ history[e].user <= 1

(* What a reply says of its account was true at some moment after the event  *)
(* was accepted: a linked account's actor was its active identity then, and  *)
(* an account told of its unlinking had no identity then.                    *)
AnswerWasTrue ==
  \A e \in Events :
    LET actor == reply[e].actor IN
      /\ reply[e].told \in {"text_accepted", "link_succeeded"} =>
           /\ identity[actor].account = event[e].account
           /\ actor = history[e].link \/ actor > history[e].rows
      /\ reply[e].told = "unlink_succeeded" =>
           \/ history[e].link = NoLink
           \/ identity[history[e].link].status = "unlinked"

(* An account that an event linked is told so, across any retry, unless it   *)
(* has been unlinked since.                                                  *)
LinkEffectAnswered ==
  \A e \in Events :
    history[e].linked # NoLink /\ event[e].status = "processed" =>
      \/ reply[e].told = "link_succeeded"
      \/ identity[history[e].linked].status = "unlinked"

(* An account that an event unlinked is told so, across any retry, unless it *)
(* has been linked again since.                                              *)
UnlinkEffectAnswered ==
  \A e \in Events :
    history[e].unlinked # NoLink /\ event[e].status = "processed" =>
      \/ reply[e].told = "unlink_succeeded"
      \/ \E i \in Links : i > history[e].unlinked
                          /\ identity[i].account = event[e].account

(* A receipt ends the repetition of a job, so only a decision may cause it.  *)
ReceiptMeansDecided == \A e \in receipted : Decided(e)

(* Every accepted event is decided in the end, once faults cease.            *)
EveryEventDecided ==
  \A e \in Events : event[e].status = "pending" ~> Decided(e)
=============================================================================
