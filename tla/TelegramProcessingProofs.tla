----------------------- MODULE TelegramProcessingProofs -----------------------
(***************************************************************************)
(* Proofs about TelegramProcessing, for any sets of events, consumers,     *)
(* users, accounts and challenges and any number of identities and faults. *)
(*                                                                         *)
(* Runs, leases and releases restrict when Identity's operations happen,   *)
(* never what they do: event processing is an Identity, and inherits its   *)
(* theorems.  What a run holds in its memory about Identity stays true     *)
(* because identities only grow (Grown): the invariant says of each event  *)
(* what its history knows of its account (AcceptedInv), of each answer     *)
(* that it is true (TrueAnswer), and of each run where it stands (RunInv). *)
(***************************************************************************)
EXTENDS TelegramProcessing, IdentityProofs

(* An identity that account a has, or once had. *)
Held(i, a) ==
  i \in Links /\ identity[i].status # "absent" /\ identity[i].account = a

Gone(i) == i = NoLink \/ (i \in Links /\ identity[i].status = "unlinked")

ChallengeFor(e) == event[e].content.challenge
KindFor(e) == event[e].content.kind

(* A link challenge that nothing can make usable again. *)
SpentLink(k) ==
  k \in Challenges /\ challenge[k].status # "absent" /\ ~Usable(k, "link")

(* What this event linked is its account's, by a challenge now spent.        *)
LinkedInv(e) ==
  history[e].linked # NoLink =>
    /\ KindFor(e) = "link" /\ Presented(ChallengeFor(e), "link")
    /\ challenge[ChallengeFor(e)].status = "consumed"
    /\ Held(history[e].linked, event[e].account)

(* What the history of an accepted event says of its account: the identities *)
(* it held at the acceptance are its active one (link) and unlinked ones.    *)
AcceptedInv(e) ==
  /\ event[e].account \in Accounts
  /\ KindFor(e) \in {"link", "unlink"} =>
       ChallengeFor(e) \in Challenges /\ challenge[ChallengeFor(e)].status # "absent"
  /\ history[e].rows # 0 => identity[history[e].rows].status # "absent"
  /\ history[e].link # NoLink => Held(history[e].link, event[e].account)
  /\ \A i \in Links :
       /\ i <= history[e].rows /\ i # history[e].link
       /\ identity[i].account = event[e].account
       => identity[i].status = "unlinked"
  /\ LinkedInv(e)

EventInv(e) ==
  /\ history[e].channel = IF event[e].abuse = "unchecked" THEN 0 ELSE 1
  /\ history[e].user = IF event[e].userAbuse = "unchecked" THEN 0 ELSE 1
  /\ event[e].status = "absent" => event[e] = AbsentEvent /\ history[e] = NoHistory
  /\ event[e].status # "absent" => AcceptedInv(e)
  /\ event[e].status = "processed" <=> reply[e] # NoReply
  /\ event[e].status = "processed" => reply[e].told # "none"
  /\ e \in receipted => Decided(e)

(* An answer to event e that is true, and stays true. *)
TrueAnswer(e, told, actor) ==
  /\ told \in {"text_accepted", "link_succeeded"} =>
       /\ Held(actor, event[e].account)
       /\ actor = history[e].link \/ actor > history[e].rows
  /\ told = "unlink_succeeded" => Gone(history[e].link)
  /\ KindFor(e) = "link" /\ told # "none" =>
       /\ SpentLink(ChallengeFor(e))
       /\ told = "link_succeeded" \/ Gone(history[e].linked)

(* Where a run w of event e stands, by the kind of the event. *)
StageInv(w, e) ==
  /\ w.phase = "resolving" =>
       KindFor(e) # "invalid" /\ (KindFor(e) = "link" => SpentLink(ChallengeFor(e)))
  /\ w.phase = "linking" => KindFor(e) = "link"
  /\ w.phase = "limiting" =>
       /\ KindFor(e) # "invalid" /\ w.actor # NoLink
       /\ w.told = ToldLinked(KindFor(e))
  /\ w.phase = "unlinking" =>
       KindFor(e) = "unlink" /\ (w.actor = NoLink => Gone(history[e].link))
  /\ w.phase = "completing" => w.told # "none"
  /\ w.phase = "finished" => Decided(e)
  /\ w.phase \in {"limiting", "completing"} => TrueAnswer(e, w.told, w.actor)

RunInv(c) ==
  worker[c].phase # "idle" =>
    /\ worker[c].event \in Events /\ event[worker[c].event].status # "absent"
    /\ StageInv(worker[c], worker[c].event)

EventsInv ==
  \A e \in Events : EventInv(e) /\ TrueAnswer(e, reply[e].told, reply[e].actor)

RunsInv == \A c \in Consumers : RunInv(c)

PInv == IInv /\ ProcessingTypeOK /\ EventsInv /\ RunsInv

-----------------------------------------------------------------------------
(* What no step of Identity undoes. *)
Grown ==
  /\ \A i \in Links :
       /\ identity[i].status # "absent" =>
            identity'[i].status # "absent" /\ identity'[i].account = identity[i].account
       /\ identity[i].status = "unlinked" => identity'[i].status = "unlinked"
  /\ \A k \in Challenges :
       /\ challenge[k].status # "absent" =>
            /\ challenge'[k].status # "absent"
            /\ challenge'[k].purpose = challenge[k].purpose
       /\ challenge[k].status = "consumed" => challenge'[k].status = "consumed"

LEMMA IdentityGrows ==
  ASSUME IInv, [IdentityNext]_identityVars
  PROVE  Grown
<1>1. ASSUME NEW k \in Challenges, Spent(k)
      PROVE  Grown
  BY <1>1, ConsumedFields DEF Spent, Grown
<1>2. ASSUME NEW k \in Challenges, ChallengeExpires(k)
      PROVE  Grown
  BY <1>2 DEF ChallengeExpires, Grown, IInv, IdentityTypeOK
<1>3. ASSUME NEW k \in Challenges, NEW u, NEW purpose, NEW i, Issued(k, u, purpose, i)
      PROVE  Grown
  BY <1>3 DEF Issued, Issue, Grown, IInv, IdentityTypeOK
<1>4. ASSUME NEW k \in Challenges, NEW a \in Accounts, NEW i, Gained(k, a, i)
      PROVE  Grown
  BY <1>4, ConsumedFields DEF Gained, Grown, IInv, IdentityTypeOK
<1>5. ASSUME NEW k \in Challenges, NEW a \in Accounts, NEW i, Lost(k, a, i)
      PROVE  Grown
  <2>1. Consumed(k)
    BY <1>5 DEF Lost
  <2> QED BY <1>5, <2>1, ConsumedFields, LostRows DEF Grown
<1>6. CASE UNCHANGED identityVars
  BY <1>6 DEF Grown, identityVars
<1> QED BY <1>1, <1>2, <1>3, <1>4, <1>5, <1>6, Classified DEF Moves

-----------------------------------------------------------------------------
(* What no step does to an accepted event, or to a decided one; an event     *)
(* links an identity only while its challenge is usable.                     *)
Stays(e) ==
  /\ event[e].status # "absent" =>
       /\ event'[e].status # "absent"
       /\ event'[e].account = event[e].account /\ event'[e].content = event[e].content
       /\ history'[e].rows = history[e].rows /\ history'[e].link = history[e].link
       /\ \/ history'[e].linked = history[e].linked
          \/ ~SpentLink(ChallengeFor(e))
  /\ Decided(e) => event'[e] = event[e] /\ reply'[e] = reply[e]

(* Identities only grow, so what was true of one stays true.                *)
LEMMA HeldStays ==
  ASSUME Grown, NEW i, NEW a, Held(i, a)
  PROVE  Held(i, a)'
  BY DEF Grown, Held

LEMMA GoneStays ==
  ASSUME Grown, NEW i, Gone(i)
  PROVE  Gone(i)'
  BY DEF Grown, Gone

LEMMA SpentLinkStays ==
  ASSUME Grown, IInv, IInv', NEW k, SpentLink(k)
  PROVE  SpentLink(k)'
<1>1. challenge[k].status \in {"absent", "open", "consumed"}
  BY DEF SpentLink, IInv, IdentityTypeOK
<1> QED BY <1>1 DEF Grown, SpentLink, Usable, Presented

(* The rows up to one that was inserted were inserted.                       *)
LEMMA EarlierRows ==
  ASSUME IInv, NEW r \in Links, identity[r].status # "absent", NEW i \in Links, i <= r
  PROVE  identity[i].status # "absent"
<1>1. PICK n \in 0..MaxLinks : InOrder(n)
  BY DEF IInv, RowsInOrder
<1>2. r <= n /\ i \in Nat /\ r \in Nat /\ n \in Nat
  BY <1>1, IdentityAssumption DEF InOrder, Links
<1>3. i <= n
  BY <1>2
<1> QED BY <1>1, <1>3 DEF InOrder

LEMMA AnswerStays ==
  ASSUME IInv, IInv', Grown, NEW e \in Events, event[e].status # "absent", Stays(e),
         NEW told, NEW actor, TrueAnswer(e, told, actor)
  PROVE  TrueAnswer(e, told, actor)'
<1>1. /\ event'[e].account = event[e].account
      /\ KindFor(e)' = KindFor(e) /\ ChallengeFor(e)' = ChallengeFor(e)
      /\ history'[e].rows = history[e].rows /\ history'[e].link = history[e].link
      /\ history'[e].linked = history[e].linked \/ ~SpentLink(ChallengeFor(e))
  BY DEF Stays, KindFor, ChallengeFor
<1>2. \A i, a : Held(i, a) => Held(i, a)'
  BY HeldStays
<1>3. \A i : Gone(i) => Gone(i)'
  BY GoneStays
<1>4. \A k : SpentLink(k) => SpentLink(k)'
  BY SpentLinkStays
<1>5. told \in {"text_accepted", "link_succeeded"} =>
        /\ Held(actor, event[e].account)'
        /\ actor = history'[e].link \/ actor > history'[e].rows
  BY <1>1, <1>2 DEF TrueAnswer
<1>6. told = "unlink_succeeded" => Gone(history[e].link)'
  BY <1>1, <1>3 DEF TrueAnswer
<1>7. KindFor(e)' = "link" /\ told # "none" =>
       /\ SpentLink(ChallengeFor(e))'
       /\ told = "link_succeeded" \/ Gone(history[e].linked)'
  BY <1>1, <1>3, <1>4 DEF TrueAnswer
<1> QED BY <1>5, <1>6, <1>7 DEF TrueAnswer

LEMMA StageStays ==
  ASSUME IInv, IInv', Grown, NEW e \in Events, event[e].status # "absent", Stays(e),
         NEW w, StageInv(w, e)
  PROVE  StageInv(w, e)'
<1>1. /\ KindFor(e)' = KindFor(e) /\ ChallengeFor(e)' = ChallengeFor(e)
      /\ history'[e].link = history[e].link
      /\ Decided(e) => Decided(e)'
  BY DEF Stays, KindFor, ChallengeFor, Decided
<1>2. Gone(history[e].link) => Gone(history[e].link)'
  BY <1>1, GoneStays
<1>3. SpentLink(ChallengeFor(e)) => SpentLink(ChallengeFor(e))'
  BY <1>1, SpentLinkStays
<1>4. TrueAnswer(e, w.told, w.actor) => TrueAnswer(e, w.told, w.actor)'
  BY AnswerStays
<1> QED BY <1>1, <1>2, <1>3, <1>4 DEF StageInv

LEMMA AcceptedStays ==
  ASSUME IInv, IInv', Grown, ProcessingTypeOK, NEW e \in Events,
         event[e].status # "absent", Stays(e), AcceptedInv(e),
         history'[e].linked = history[e].linked \/ LinkedInv(e)'
  PROVE  AcceptedInv(e)'
<1>1. /\ event'[e].account = event[e].account
      /\ KindFor(e)' = KindFor(e) /\ ChallengeFor(e)' = ChallengeFor(e)
      /\ history'[e].rows = history[e].rows /\ history'[e].link = history[e].link
  BY DEF Stays, KindFor, ChallengeFor
<1>2. \A i, a : Held(i, a) => Held(i, a)'
  BY HeldStays
<1>3. history[e].rows \in Links \cup {NoLink} /\ history[e].rows \in Nat
  BY IdentityAssumption DEF ProcessingTypeOK, History, Links, NoLink
<1>4. KindFor(e)' \in {"link", "unlink"} =>
        /\ ChallengeFor(e)' \in Challenges
        /\ challenge'[ChallengeFor(e)'].status # "absent"
  BY <1>1 DEF AcceptedInv, Grown
<1>5. history'[e].rows # 0 => identity'[history'[e].rows].status # "absent"
  BY <1>1, <1>3 DEF AcceptedInv, Grown, NoLink
<1>6. history'[e].link # NoLink => Held(history[e].link, event[e].account)'
  BY <1>1, <1>2 DEF AcceptedInv
<1>7. ASSUME NEW i \in Links, i <= history'[e].rows, i # history'[e].link,
             identity'[i].account = event'[e].account
      PROVE  identity'[i].status = "unlinked"
  <2>1. i <= history[e].rows /\ history[e].rows # 0
    BY <1>1, <1>3, <1>7, IdentityAssumption DEF Links
  <2>2. identity[i].status # "absent"
    BY <1>3, <2>1, EarlierRows DEF AcceptedInv, NoLink
  <2>3. identity[i].account = event[e].account
    BY <1>1, <1>7, <2>2 DEF Grown
  <2> QED BY <1>1, <1>7, <2>1, <2>3 DEF AcceptedInv, Grown
<1>8. LinkedInv(e)'
  BY <1>1, <1>2 DEF AcceptedInv, LinkedInv, Grown, Presented
<1> QED BY <1>1, <1>4, <1>5, <1>6, <1>7, <1>8 DEF AcceptedInv

-----------------------------------------------------------------------------
(* Every step of event processing is a step of Identity, or leaves it alone: *)
(* runs present only issued or unknown tokens of the account they act for.   *)
LEMMA StepIsIdentity ==
  ASSUME EventsInv, RunsInv, [ProcessingNext]_vars
  PROVE  [IdentityNext]_identityVars
<1>1. ASSUME Surface
      PROVE  IdentityNext
  BY <1>1 DEF IdentityNext
<1>2. ASSUME NEW e \in Events, NEW a, NEW content, AcceptEvent(e, a, content)
      PROVE  UNCHANGED identityVars
  BY <1>2 DEF AcceptEvent, identityVars
<1>3. ASSUME NEW e \in Events,
             LeaseExpires(e) \/ TakesUp(e) \/ \E c \in Consumers : ClaimDuplicate(c, e)
      PROVE  UNCHANGED identityVars
  BY <1>3 DEF LeaseExpires, TakesUp, ClaimSuppressed, ClaimGranted, ClaimDuplicate,
              identityVars
<1>4. ASSUME NEW c \in Consumers, Proceeds(c), ~ConsumeLinkEvent(c), ~ConsumeUnlinkEvent(c)
      PROVE  UNCHANGED identityVars
  BY <1>4 DEF Proceeds, Resolve, IdentityUnavailable, EnforceUserLimit, Complete,
              ClaimGone, Release, RecordReceipt, Fails, identityVars
<1>5. ASSUME NEW c \in Consumers, worker[c].phase \in {"linking", "unlinking"}
      PROVE  ChallengeOf(c) \in Challenges /\ AccountOf(c) \in Accounts
  <2>1. /\ worker[c].event \in Events /\ event[worker[c].event].status # "absent"
        /\ KindFor(worker[c].event) \in {"link", "unlink"}
    BY <1>5 DEF RunsInv, RunInv, StageInv
  <2> QED BY <2>1 DEF EventsInv, EventInv, AcceptedInv, ChallengeFor, ChallengeOf, AccountOf
<1>6. ASSUME NEW c \in Consumers, ConsumeLinkEvent(c)
      PROVE  IdentityNext
  <2>1. ChallengeOf(c) \in Challenges /\ AccountOf(c) \in Accounts
    BY <1>5, <1>6 DEF ConsumeLinkEvent
  <2> QED BY <1>6, <2>1 DEF ConsumeLinkEvent, IdentityNext
<1>7. ASSUME NEW c \in Consumers, ConsumeUnlinkEvent(c)
      PROVE  IdentityNext
  <2>1. ChallengeOf(c) \in Challenges /\ AccountOf(c) \in Accounts
    BY <1>5, <1>7 DEF ConsumeUnlinkEvent
  <2> QED BY <1>7, <2>1 DEF ConsumeUnlinkEvent, IdentityNext
<1>8. CASE UNCHANGED vars
  BY <1>8 DEF vars, identityVars
<1> QED BY <1>1, <1>2, <1>3, <1>4, <1>6, <1>7, <1>8 DEF ProcessingNext, Proceeds

-----------------------------------------------------------------------------
(* A step that concerns one event e and one run c keeps the invariant if it  *)
(* leaves what other runs may remember, and e and c are consistent after it. *)
LEMMA LocalStep ==
  ASSUME PInv, IInv', Grown, ProcessingTypeOK', NEW e, NEW c,
         \A x \in Events : Stays(x),
         \A x \in Events : x # e =>
           /\ event'[x] = event[x] /\ reply'[x] = reply[x] /\ history'[x] = history[x]
           /\ x \in receipted' => x \in receipted,
         \A d \in Consumers : d # c => worker'[d] = worker[d],
         e \in Events => EventInv(e)' /\ TrueAnswer(e, reply[e].told, reply[e].actor)',
         c \in Consumers => RunInv(c)'
  PROVE  PInv'
<1>1. ASSUME NEW x \in Events
      PROVE  EventInv(x)' /\ TrueAnswer(x, reply[x].told, reply[x].actor)'
  <2>1. CASE x = e
    BY <2>1
  <2>2. CASE x # e
    <3>1. /\ event'[x] = event[x] /\ reply'[x] = reply[x] /\ history'[x] = history[x]
          /\ x \in receipted' => x \in receipted
          /\ EventInv(x) /\ TrueAnswer(x, reply[x].told, reply[x].actor)
      BY <2>2 DEF PInv, EventsInv
    <3>2. event[x].status # "absent" => AcceptedInv(x)'
      BY <3>1, AcceptedStays DEF PInv, EventInv
    <3>3. EventInv(x)'
      BY <3>1, <3>2 DEF EventInv, Decided
    <3>4. TrueAnswer(x, reply[x].told, reply[x].actor)'
      <4>1. CASE event[x].status # "absent"
        <5>1. PICK told, actor : told = reply[x].told /\ actor = reply[x].actor
          OBVIOUS
        <5>2. TrueAnswer(x, told, actor)'
          BY <3>1, <4>1, <5>1, AnswerStays DEF PInv
        <5> QED BY <3>1, <5>1, <5>2
      <4>2. CASE event[x].status = "absent"
        <5>1. reply'[x] = NoReply
          BY <3>1, <4>2 DEF EventInv
        <5> QED BY <5>1 DEF TrueAnswer, NoReply
      <4> QED BY <4>1, <4>2
    <3> QED BY <3>3, <3>4
  <2> QED BY <2>1, <2>2
<1>2. ASSUME NEW d \in Consumers
      PROVE  RunInv(d)'
  <2>1. CASE d = c
    BY <2>1
  <2>2. CASE d # c
    <3>1. worker'[d] = worker[d] /\ RunInv(d)
      BY <2>2 DEF PInv, RunsInv
    <3>2. PICK w, x : w = worker[d] /\ x = worker[d].event
      OBVIOUS
    <3>3. ASSUME worker[d].phase # "idle"
          PROVE  x \in Events /\ event'[x].status # "absent" /\ StageInv(w, x)'
      <4>1. x \in Events /\ event[x].status # "absent" /\ StageInv(w, x)
        BY <3>1, <3>2, <3>3 DEF RunInv
      <4> QED BY <4>1, StageStays DEF PInv, Stays
    <3> QED BY <3>1, <3>2, <3>3 DEF RunInv
  <2> QED BY <2>1, <2>2
<1> QED BY <1>1, <1>2 DEF PInv, EventsInv, RunsInv

(* A step that changes at most one event e, to q, with its history, to h,    *)
(* its reply, to p, and one run c, to w: what it must respect.               *)
PointMove(e, c, q, h, p, w) ==
  /\ q \in Event /\ h \in History /\ p \in Reply /\ w \in Worker
  /\ event' = [event EXCEPT ![e] = q] /\ history' = [history EXCEPT ![e] = h]
  /\ reply' = [reply EXCEPT ![e] = p] /\ worker' = [worker EXCEPT ![c] = w]
  /\ faults' \in 0..MaxFaults
  /\ \/ UNCHANGED receipted
     \/ receipted' = receipted \cup {e} /\ Decided(e)
  /\ event[e].status # "absent" /\ q.status # "absent"
  /\ q.account = event[e].account /\ q.content = event[e].content
  /\ q.claim # NoConsumer <=> q.status = "processing"
  /\ Decided(e) => q = event[e] /\ p = reply[e]
  /\ q.status = "processed" <=> p # NoReply
  /\ q.status = "processed" => p.told # "none"
  /\ h.channel = IF q.abuse = "unchecked" THEN 0 ELSE 1
  /\ h.user = IF q.userAbuse = "unchecked" THEN 0 ELSE 1
  /\ h.rows = history[e].rows /\ h.link = history[e].link
  /\ \/ h.linked = history[e].linked
     \/ ~SpentLink(ChallengeFor(e)) /\ LinkedInv(e)'
  /\ p = reply[e] \/ TrueAnswer(e, p.told, p.actor)
  /\ w.phase = "idle" \/ (w.event = e /\ StageInv(w, e)')

LEMMA PointStep ==
  ASSUME PInv, IInv', Grown, NEW e \in Events, NEW c \in Consumers,
         NEW q, NEW h, NEW p, NEW w, PointMove(e, c, q, h, p, w)
  PROVE  PInv'
<1> USE DEF PointMove
<1>1. /\ \A x \in Events : event'[x] = IF x = e THEN q ELSE event[x]
      /\ \A x \in Events : history'[x] = IF x = e THEN h ELSE history[x]
      /\ \A x \in Events : reply'[x] = IF x = e THEN p ELSE reply[x]
      /\ \A d \in Consumers : worker'[d] = IF d = c THEN w ELSE worker[d]
      /\ event' \in [Events -> Event] /\ history' \in [Events -> History]
      /\ reply' \in [Events -> Reply] /\ worker' \in [Consumers -> Worker]
  BY DEF PInv, ProcessingTypeOK
<1>2. ProcessingTypeOK'
  BY <1>1 DEF PInv, ProcessingTypeOK, IInv
<1>3. \A x \in Events : Stays(x)
  BY <1>1 DEF Stays
<1>4. /\ EventInv(e) /\ AcceptedInv(e) /\ TrueAnswer(e, reply[e].told, reply[e].actor)
  BY DEF PInv, EventsInv, EventInv
<1>5. AcceptedInv(e)'
  BY <1>1, <1>3, <1>4, AcceptedStays DEF PInv
<1>6. EventInv(e)'
  BY <1>1, <1>4, <1>5 DEF EventInv, Decided
<1>7. TrueAnswer(e, p.told, p.actor)
  BY <1>4
<1>8. TrueAnswer(e, p.told, p.actor)'
  BY <1>3, <1>7, AnswerStays DEF PInv
<1>9. TrueAnswer(e, reply[e].told, reply[e].actor)'
  BY <1>1, <1>8
<1>10. RunInv(c)'
  BY <1>1 DEF RunInv
<1> QED BY <1>1, <1>2, <1>3, <1>6, <1>9, <1>10, LocalStep

(* What the invariant says of a run under way.                               *)
LEMMA RunFacts ==
  ASSUME PInv, NEW c \in Consumers, worker[c].phase # "idle"
  PROVE  \E e \in Events :
           /\ e = worker[c].event /\ event[e].status # "absent"
           /\ StageInv(worker[c], e) /\ EventInv(e) /\ AcceptedInv(e)
           /\ TrueAnswer(e, reply[e].told, reply[e].actor)
           /\ KindOf(c) = KindFor(e) /\ ChallengeOf(c) = ChallengeFor(e)
           /\ AccountOf(c) = event[e].account
           /\ KindFor(e) \in {"text", "invalid", "link", "unlink"}
           /\ event[e] \in Event /\ history[e] \in History
           /\ reply[e] \in Reply /\ worker[c] \in Worker
<1>1. worker[c].event \in Events
  BY DEF PInv, RunsInv, RunInv
<1>2. PICK e \in Events : e = worker[c].event
  BY <1>1
<1>3. /\ event[e].status # "absent" /\ StageInv(worker[c], e)
      /\ EventInv(e) /\ TrueAnswer(e, reply[e].told, reply[e].actor)
  BY <1>2 DEF PInv, RunsInv, RunInv, EventsInv
<1>4. /\ event[e] \in Event /\ history[e] \in History
      /\ reply[e] \in Reply /\ worker[c] \in Worker
  BY DEF PInv, ProcessingTypeOK
<1>5. event[e].content.kind \in {"text", "invalid", "link", "unlink"}
  BY <1>4 DEF Event, Contents
<1> QED BY <1>2, <1>3, <1>4, <1>5 DEF EventInv, KindOf, ChallengeOf, AccountOf,
                                      KindFor, ChallengeFor

-----------------------------------------------------------------------------
(* A run that only moves on, to w.                                           *)
LEMMA RunMoves ==
  ASSUME PInv, IInv', Grown, NEW c \in Consumers, worker[c].phase # "idle",
         NEW w \in Worker, worker' = [worker EXCEPT ![c] = w],
         UNCHANGED <<event, reply, history, receipted>>, faults' \in 0..MaxFaults,
         w.phase = "idle" \/ (w.event = worker[c].event /\ StageInv(w, w.event)')
  PROVE  PInv'
<1>1. PICK e \in Events :
        e = worker[c].event /\ event[e].status # "absent" /\ EventInv(e)
  BY RunFacts
<1>2. PICK q \in Event, h \in History, p \in Reply :
        q = event[e] /\ h = history[e] /\ p = reply[e]
  BY DEF PInv, ProcessingTypeOK
<1>3. /\ event' = [event EXCEPT ![e] = q] /\ history' = [history EXCEPT ![e] = h]
      /\ reply' = [reply EXCEPT ![e] = p]
      /\ q.claim # NoConsumer <=> q.status = "processing"
  BY <1>2 DEF PInv, ProcessingTypeOK
<1>4. w.phase = "idle" \/ (w.event = e /\ StageInv(w, e)')
  BY <1>1
<1>5. /\ h.channel = IF q.abuse = "unchecked" THEN 0 ELSE 1
      /\ h.user = IF q.userAbuse = "unchecked" THEN 0 ELSE 1
      /\ q.status = "processed" <=> p # NoReply
      /\ q.status = "processed" => p.told # "none"
  BY <1>1, <1>2 DEF EventInv
<1>6. PointMove(e, c, q, h, p, w)
  BY <1>1, <1>2, <1>3, <1>4, <1>5 DEF PointMove
<1> QED BY <1>6, PointStep

(* An idle run, and one that will release its claim, hold no answer.         *)
LEMMA IdleRun == Idle \in Worker /\ Idle.phase = "idle"
  BY IdentityAssumption, ProcessingAssumption DEF Idle, Worker, Told, NoLink

LEMMA FaultTypes ==
  ASSUME PInv, Fault
  PROVE  faults' \in 0..MaxFaults
  BY ProcessingAssumption DEF PInv, ProcessingTypeOK, Fault

LEMMA FaultsStay ==
  ASSUME PInv, UNCHANGED faults
  PROVE  faults' \in 0..MaxFaults
  BY DEF PInv, ProcessingTypeOK

(* The record a run continues with.                                          *)
LEMMA ContinuedRun ==
  ASSUME PInv, NEW c \in Consumers, NEW phase, NEW actor, NEW told,
         phase \in {"idle", "resolving", "linking", "limiting", "unlinking",
                    "completing", "releasing", "finished"},
         actor \in Links \cup {NoLink}, told \in Told,
         Continues(c, phase, actor, told)
  PROVE  \E w \in Worker :
           /\ worker' = [worker EXCEPT ![c] = w]
           /\ w.phase = phase /\ w.actor = actor /\ w.told = told
           /\ w.event = worker[c].event
<1> DEFINE w == [worker[c] EXCEPT !.phase = phase, !.actor = actor, !.told = told]
<1>1. worker \in [Consumers -> Worker]
  BY DEF PInv, ProcessingTypeOK
<1>2. worker[c] \in Worker
  BY <1>1
<1>3. /\ w \in Worker /\ w.phase = phase /\ w.actor = actor /\ w.told = told
      /\ w.event = worker[c].event
  BY <1>2 DEF Worker
<1>4. worker' = [worker EXCEPT ![c] = w]
  BY <1>1 DEF Continues, Worker
<1> HIDE DEF w
<1> QED BY <1>3, <1>4

LEMMA GoneStep ==
  ASSUME PInv, IInv', Grown, NEW c \in Consumers, ClaimGone(c) \/ Fails(c)
  PROVE  PInv'
<1>1. /\ worker[c].phase # "idle" /\ worker' = [worker EXCEPT ![c] = Idle]
      /\ UNCHANGED <<event, reply, history, receipted>>
  BY DEF ClaimGone, Fails, Leaves
<1>2. faults' \in 0..MaxFaults
  BY FaultTypes, FaultsStay DEF ClaimGone, Fails
<1> QED BY <1>1, <1>2, IdleRun, RunMoves

LEMMA UnavailableStep ==
  ASSUME PInv, IInv', Grown, NEW c \in Consumers, IdentityUnavailable(c)
  PROVE  PInv'
<1>1. /\ worker[c].phase # "idle" /\ Continues(c, "releasing", NoLink, "none")
      /\ UNCHANGED <<event, reply, history, receipted>> /\ Fault
  BY DEF IdentityUnavailable, AnswerLost
<1>2. faults' \in 0..MaxFaults
  BY <1>1, FaultTypes
<1>3. PICK w \in Worker :
        /\ worker' = [worker EXCEPT ![c] = w] /\ w.phase = "releasing"
        /\ w.event = worker[c].event
  BY <1>1, ContinuedRun DEF Told
<1>4. StageInv(w, w.event)'
  BY <1>3 DEF StageInv
<1> QED BY <1>1, <1>2, <1>3, <1>4, RunMoves

LEMMA ReceiptStep ==
  ASSUME PInv, IInv', Grown, NEW c \in Consumers, RecordReceipt(c)
  PROVE  PInv'
<1>1. PICK e \in Events :
        /\ e = worker[c].event /\ event[e].status # "absent"
        /\ StageInv(worker[c], e) /\ EventInv(e)
  BY RunFacts DEF RecordReceipt
<1>2. PICK q \in Event, h \in History, p \in Reply, w \in Worker :
        q = event[e] /\ h = history[e] /\ p = reply[e] /\ w = Idle
  BY IdleRun DEF PInv, ProcessingTypeOK
<1>3. /\ event' = [event EXCEPT ![e] = q] /\ history' = [history EXCEPT ![e] = h]
      /\ reply' = [reply EXCEPT ![e] = p] /\ worker' = [worker EXCEPT ![c] = w]
      /\ q.claim # NoConsumer <=> q.status = "processing"
  BY <1>2 DEF PInv, ProcessingTypeOK, RecordReceipt, Leaves
<1>4. receipted' = receipted \cup {e} /\ Decided(e) /\ UNCHANGED faults
  BY <1>1 DEF RecordReceipt, StageInv
<1>5. faults' \in 0..MaxFaults /\ w.phase = "idle"
  BY <1>2, <1>4, FaultsStay, IdleRun
<1>6. /\ h.channel = IF q.abuse = "unchecked" THEN 0 ELSE 1
      /\ h.user = IF q.userAbuse = "unchecked" THEN 0 ELSE 1
      /\ q.status = "processed" <=> p # NoReply
      /\ q.status = "processed" => p.told # "none"
  BY <1>1, <1>2 DEF EventInv
<1>7. PointMove(e, c, q, h, p, w)
  BY <1>1, <1>2, <1>3, <1>4, <1>5, <1>6 DEF PointMove
<1> QED BY <1>7, PointStep
-----------------------------------------------------------------------------
(* What the invariant says of an event that is there.                        *)
LEMMA EventFacts ==
  ASSUME PInv, NEW e \in Events, event[e].status # "absent"
  PROVE  /\ event[e] \in Event /\ history[e] \in History /\ reply[e] \in Reply
         /\ event \in [Events -> Event] /\ history \in [Events -> History]
         /\ reply \in [Events -> Reply]
         /\ event[e].claim # NoConsumer <=> event[e].status = "processing"
         /\ EventInv(e) /\ AcceptedInv(e)
         /\ TrueAnswer(e, reply[e].told, reply[e].actor)
         /\ event[e].status = "processed" <=> reply[e] # NoReply
         /\ event[e].status = "processed" => reply[e].told # "none"
         /\ KindFor(e) \in {"text", "invalid", "link", "unlink"}
         /\ faults \in 0..MaxFaults
<1>1. event[e] \in Event
  BY DEF PInv, ProcessingTypeOK
<1>2. event[e].content.kind \in {"text", "invalid", "link", "unlink"}
  BY <1>1 DEF Event, Contents
<1> QED BY <1>1, <1>2 DEF PInv, ProcessingTypeOK, EventsInv, EventInv, KindFor

(* The record of a run that ends as soon as it looks at its event.           *)
LEMMA EndedRun ==
  ASSUME PInv, NEW c \in Consumers, NEW e \in Events,
         worker' = [worker EXCEPT ![c].phase = "finished", ![c].event = e]
  PROVE  \E w \in Worker :
           /\ worker' = [worker EXCEPT ![c] = w]
           /\ w.phase = "finished" /\ w.event = e
<1> DEFINE w == [worker[c] EXCEPT !.phase = "finished", !.event = e]
<1>1. worker \in [Consumers -> Worker]
  BY DEF PInv, ProcessingTypeOK
<1>2. worker[c] \in Worker
  BY <1>1
<1>3. w \in Worker /\ w.phase = "finished" /\ w.event = e
  BY <1>2 DEF Worker
<1>4. worker' = [worker EXCEPT ![c] = w]
  BY <1>1 DEF Worker
<1> HIDE DEF w
<1> QED BY <1>3, <1>4

LEMMA DuplicateStep ==
  ASSUME PInv, IInv', Grown, NEW c \in Consumers, NEW e \in Events, ClaimDuplicate(c, e)
  PROVE  PInv'
<1>1. /\ Decided(e) /\ event[e].status # "absent"
      /\ worker' = [worker EXCEPT ![c].phase = "finished", ![c].event = e]
      /\ UNCHANGED <<event, reply, receipted, faults, history>>
  BY DEF ClaimDuplicate, Decided
<1>2. PICK w \in Worker : /\ worker' = [worker EXCEPT ![c] = w]
                          /\ w.phase = "finished" /\ w.event = e
  BY <1>1, EndedRun
<1>3. PICK q \in Event, h \in History, p \in Reply :
        q = event[e] /\ h = history[e] /\ p = reply[e]
  BY <1>1, EventFacts
<1>4. StageInv(w, e)'
  BY <1>1, <1>2 DEF StageInv, Decided
<1>5. PointMove(e, c, q, h, p, w)
  BY <1>1, <1>2, <1>3, <1>4, EventFacts, FaultsStay DEF PointMove, EventInv
<1> QED BY <1>5, PointStep

LEMMA SuppressedStep ==
  ASSUME PInv, IInv', Grown, NEW c \in Consumers, NEW e \in Events, ClaimSuppressed(c, e)
  PROVE  PInv'
<1> DEFINE q == [event[e] EXCEPT !.status = "suppressed", !.claim = NoConsumer,
                                 !.leaseOver = FALSE, !.abuse = "denied"]
           h == [history[e] EXCEPT !.channel = @ + 1]
<1>1. /\ event[e].status # "absent" /\ ~Decided(e) /\ event[e].abuse = "unchecked"
      /\ worker' = [worker EXCEPT ![c].phase = "finished", ![c].event = e]
      /\ UNCHANGED <<reply, receipted, faults>>
  BY DEF ClaimSuppressed, Claimable, Decided
<1>2. PICK w \in Worker : /\ worker' = [worker EXCEPT ![c] = w]
                          /\ w.phase = "finished" /\ w.event = e
  BY <1>1, EndedRun
<1>3. /\ q \in Event /\ q.status = "suppressed" /\ q.claim = NoConsumer
      /\ q.abuse = "denied" /\ q.userAbuse = event[e].userAbuse
      /\ q.account = event[e].account /\ q.content = event[e].content
  BY <1>1, EventFacts DEF Event, Verdicts
<1>4. event' = [event EXCEPT ![e] = q]
  BY <1>1, EventFacts DEF ClaimSuppressed, Event
<1>5. /\ h \in History /\ h.channel = history[e].channel + 1
      /\ h.user = history[e].user /\ h.linked = history[e].linked
      /\ h.rows = history[e].rows /\ h.link = history[e].link
  <2>1. history[e] \in History
    BY <1>1, EventFacts
  <2> QED BY <2>1 DEF History
<1>6. history' = [history EXCEPT ![e] = h]
  BY <1>1, EventFacts DEF ClaimSuppressed, Counted, History
<1> HIDE DEF q, h
<1>7. Decided(e)'
  BY <1>1, <1>3, <1>4, EventFacts DEF Decided
<1>8. PointMove(e, c, q, h, reply[e], w)
  <2>1. reply' = [reply EXCEPT ![e] = reply[e]] /\ StageInv(w, e)'
    BY <1>1, <1>2, <1>7, EventFacts DEF StageInv
  <2>2. /\ h.channel = IF q.abuse = "unchecked" THEN 0 ELSE 1
        /\ h.user = IF q.userAbuse = "unchecked" THEN 0 ELSE 1
        /\ q.status = "processed" <=> reply[e] # NoReply
    BY <1>1, <1>3, <1>5, EventFacts DEF EventInv, Decided
  <2> QED BY <1>1, <1>2, <1>3, <1>4, <1>5, <1>6, <2>1, <2>2, EventFacts, FaultsStay
          DEF PointMove
<1> QED BY <1>8, PointStep

(* The window of the channel counts an event that was never counted.         *)
LEMMA CountedOnceMore ==
  ASSUME PInv, NEW e \in Events, event[e].status # "absent", history' = Counted(e)
  PROVE  \E h \in History :
           /\ history' = [history EXCEPT ![e] = h]
           /\ h.channel = 1 /\ h.user = history[e].user
           /\ h.linked = history[e].linked
           /\ h.rows = history[e].rows /\ h.link = history[e].link
<1>1. CASE event[e].abuse = "unchecked"
  <2> DEFINE h == [history[e] EXCEPT !.channel = @ + 1]
  <2>1. /\ h \in History /\ h.channel = 1
        /\ h.user = history[e].user /\ h.linked = history[e].linked
        /\ h.rows = history[e].rows /\ h.link = history[e].link
    BY <1>1, EventFacts DEF History, EventInv
  <2>2. history' = [history EXCEPT ![e] = h]
    BY <1>1, EventFacts DEF Counted, History
  <2> HIDE DEF h
  <2> QED BY <2>1, <2>2
<1>2. CASE event[e].abuse # "unchecked"
  <2>1. PICK h \in History : h = history[e]
    BY EventFacts
  <2>2. history' = [history EXCEPT ![e] = h] /\ h.channel = 1
    BY <1>2, <2>1, EventFacts DEF Counted, EventInv
  <2> QED BY <2>1, <2>2
<1> QED BY <1>1, <1>2

LEMMA GrantedStep ==
  ASSUME PInv, IInv', Grown, NEW c \in Consumers, NEW e \in Events, ClaimGranted(c, e)
  PROVE  PInv'
<1> DEFINE q == [event[e] EXCEPT !.status = "processing", !.claim = c,
                                 !.leaseOver = FALSE, !.abuse = "allowed"]
           start == [phase |-> Begins(KindFor(e)), event |-> e, actor |-> NoLink,
                 told |-> IF KindFor(e) = "invalid" THEN "rejected" ELSE "none"]
<1>1. /\ event[e].status # "absent" /\ ~Decided(e)
      /\ worker' = [worker EXCEPT ![c] = start]
      /\ history' = Counted(e)
      /\ UNCHANGED <<reply, receipted, faults>>
  BY DEF ClaimGranted, Claimable, Decided, KindFor
<1>2. /\ start \in Worker /\ start.event = e
      /\ start.phase = IF KindFor(e) = "invalid" THEN "completing"
                       ELSE IF KindFor(e) = "link" THEN "linking" ELSE "resolving"
      /\ start.told = IF KindFor(e) = "invalid" THEN "rejected" ELSE "none"
  BY DEF Worker, Told, Begins
<1>3. /\ q \in Event /\ q.status = "processing" /\ q.claim = c
      /\ q.abuse = "allowed" /\ q.userAbuse = event[e].userAbuse
      /\ q.account = event[e].account /\ q.content = event[e].content
  BY <1>1, EventFacts DEF Event, Verdicts
<1>4. event' = [event EXCEPT ![e] = q]
  BY <1>1, EventFacts DEF ClaimGranted, Event
<1>5. PICK h \in History :
        /\ history' = [history EXCEPT ![e] = h]
        /\ h.channel = 1 /\ h.user = history[e].user
        /\ h.linked = history[e].linked
        /\ h.rows = history[e].rows /\ h.link = history[e].link
  BY <1>1, CountedOnceMore
<1> HIDE DEF q, start
<1> PICK w : w = start
  OBVIOUS
<1>6. KindFor(e)' = KindFor(e)
  BY <1>1, <1>3, <1>4, EventFacts DEF KindFor
<1>7. StageInv(w, e)'
  BY <1>2, <1>6 DEF StageInv, TrueAnswer
<1>8. PointMove(e, c, q, h, reply[e], w)
  <2>1. reply' = [reply EXCEPT ![e] = reply[e]] /\ c # NoConsumer
    BY <1>1, EventFacts, ProcessingAssumption
  <2>2. /\ h.channel = IF q.abuse = "unchecked" THEN 0 ELSE 1
        /\ h.user = IF q.userAbuse = "unchecked" THEN 0 ELSE 1
        /\ q.status = "processed" <=> reply[e] # NoReply
    BY <1>1, <1>3, <1>5, EventFacts DEF EventInv, Decided
  <2> QED BY <1>1, <1>2, <1>3, <1>4, <1>5, <1>7, <2>1, <2>2, EventFacts, FaultsStay
          DEF PointMove
<1> QED BY <1>8, PointStep

(* A step of the clock alone keeps the invariant.                            *)
LEMMA LeaseStep ==
  ASSUME PInv, IInv', Grown, NEW e \in Events, LeaseExpires(e)
  PROVE  PInv'
<1> DEFINE q == [event[e] EXCEPT !.leaseOver = TRUE]
<1>1. /\ event[e].status = "processing"
      /\ UNCHANGED <<reply, receipted, worker, history>>
  BY DEF LeaseExpires
<1>2. faults' \in 0..MaxFaults
  BY FaultTypes, FaultsStay DEF LeaseExpires
<1>3. /\ q \in Event /\ q.status = event[e].status /\ q.claim = event[e].claim
      /\ q.abuse = event[e].abuse /\ q.userAbuse = event[e].userAbuse
      /\ q.account = event[e].account /\ q.content = event[e].content
  BY <1>1, EventFacts DEF Event
<1>4. event' = [event EXCEPT ![e] = q]
  BY <1>1, EventFacts DEF LeaseExpires, Event
<1> HIDE DEF q
<1>5. /\ \A x \in Events : event'[x] = IF x = e THEN q ELSE event[x]
      /\ event' \in [Events -> Event]
  BY <1>1, <1>3, <1>4, EventFacts
<1>6. ProcessingTypeOK'
  BY <1>1, <1>2, <1>3, <1>5 DEF PInv, ProcessingTypeOK, IInv
<1>7. ~Decided(e) /\ ~Decided(e)'
  BY <1>1, <1>3, <1>5 DEF Decided
<1>8. \A x \in Events : Stays(x)
  BY <1>1, <1>3, <1>5, <1>7 DEF Stays
<1>9. AcceptedInv(e)'
  BY <1>1, <1>8, EventFacts, AcceptedStays DEF PInv
<1>10. EventInv(e)'
  BY <1>1, <1>3, <1>5, <1>7, <1>9, EventFacts DEF EventInv
<1>11. TrueAnswer(e, reply[e].told, reply[e].actor)'
  <2>1. PICK told, actor : told = reply[e].told /\ actor = reply[e].actor
    OBVIOUS
  <2>2. TrueAnswer(e, told, actor)'
    BY <1>1, <1>8, <2>1, EventFacts, AnswerStays DEF PInv
  <2> QED BY <1>1, <2>1, <2>2
<1> QED BY <1>1, <1>5, <1>6, <1>8, <1>10, <1>11, LocalStep, ProcessingAssumption

LEMMA SurfaceStep ==
  ASSUME PInv, IInv', Grown, UNCHANGED processingVars
  PROVE  PInv'
<1>1. UNCHANGED event /\ UNCHANGED reply /\ UNCHANGED receipted
      /\ UNCHANGED worker /\ UNCHANGED faults /\ UNCHANGED history
  BY DEF processingVars
<1>2. ProcessingTypeOK'
  BY <1>1 DEF PInv, ProcessingTypeOK, IInv
<1>3. \A x \in Events : Stays(x)
  BY <1>1 DEF Stays
<1>4. \A x \in Events :
        /\ event'[x] = event[x] /\ reply'[x] = reply[x] /\ history'[x] = history[x]
        /\ x \in receipted' => x \in receipted
  BY <1>1
<1>5. \A d \in Consumers : worker'[d] = worker[d]
  BY <1>1
<1>6. NoEvent \notin Events /\ NoConsumer \notin Consumers
  BY ProcessingAssumption
<1> QED BY <1>2, <1>3, <1>4, <1>5, <1>6, LocalStep

-----------------------------------------------------------------------------
(* The identity an account resolves to is its only active one.               *)
LEMMA ResolvedIsActive ==
  ASSUME IInv, NEW a
  PROVE  /\ Resolved(a) \in Links \cup {NoLink}
         /\ Resolved(a) # NoLink =>
              /\ Resolved(a) \in Links /\ identity[Resolved(a)].status = "active"
              /\ identity[Resolved(a)].account = a
         /\ \A i \in Links : identity[i].status = "active" /\ identity[i].account = a
                             => i = Resolved(a)
<1>1. NoLink \notin Links
  BY IdentityAssumption DEF Links, NoLink
<1>2. CASE ActiveLinks(a) = {}
  BY <1>2 DEF Resolved, ActiveLinks
<1>3. CASE ActiveLinks(a) # {}
  <2>1. Resolved(a) \in ActiveLinks(a)
    BY <1>3 DEF Resolved
  <2>2. \A i, j \in ActiveLinks(a) : i = j
    BY DEF ActiveLinks, IInv, Distinct
  <2> QED BY <1>1, <2>1, <2>2 DEF ActiveLinks
<1> QED BY <1>2, <1>3

(* A row an account once had is unlinked once the account resolves to none.  *)
LEMMA HeldByNone ==
  ASSUME IInv, NEW a, Resolved(a) = NoLink, NEW i, Held(i, a)
  PROVE  Gone(i)
<1>1. identity[i].status \in {"absent", "active", "unlinked"} /\ i # NoLink
  BY IdentityAssumption DEF Held, IInv, IdentityTypeOK, Links, NoLink
<1> QED BY <1>1, ResolvedIsActive DEF Held, Gone

(* What a run that resolved account a to an identity may tell of it.         *)
LEMMA ResolvedIsTrue ==
  ASSUME IInv, NEW e \in Events, AcceptedInv(e), history[e] \in History,
         NEW i, i = Resolved(event[e].account), i # NoLink
  PROVE  Held(i, event[e].account) /\ (i = history[e].link \/ i > history[e].rows)
<1>1. i \in Links /\ identity[i].status = "active" /\ identity[i].account = event[e].account
  BY ResolvedIsActive
<1>2. i \in Nat /\ history[e].rows \in Nat
  BY <1>1, IdentityAssumption DEF History, Links, NoLink
<1> QED BY <1>1, <1>2 DEF Held, AcceptedInv

LEMMA ResolveStep ==
  ASSUME PInv, IInv', Grown, NEW c \in Consumers, Resolve(c)
  PROVE  PInv'
<1>1. PICK e \in Events :
        /\ e = worker[c].event /\ event[e].status # "absent"
        /\ StageInv(worker[c], e) /\ AcceptedInv(e) /\ history[e] \in History
        /\ KindOf(c) = KindFor(e) /\ AccountOf(c) = event[e].account
        /\ KindFor(e) \in {"text", "invalid", "link", "unlink"}
  BY RunFacts DEF Resolve
<1>2. /\ worker[c].phase = "resolving" /\ faults' \in 0..MaxFaults
      /\ UNCHANGED <<event, reply, history, receipted>>
      /\ KindFor(e) # "invalid" /\ (KindFor(e) = "link" => SpentLink(ChallengeFor(e)))
  BY <1>1, FaultsStay DEF Resolve, StageInv
<1>3. PICK i \in Links \cup {NoLink} : i = Resolved(event[e].account)
  BY ResolvedIsActive DEF PInv
<1>4. Stays(e)
  BY <1>2 DEF Stays
<1>5. ASSUME NEW phase, NEW actor, NEW told, Continues(c, phase, actor, told),
             phase \in {"limiting", "completing", "unlinking"},
             actor \in Links \cup {NoLink}, told \in Told,
             phase = "limiting" => actor # NoLink /\ told = ToldLinked(KindFor(e)),
             phase = "completing" => told # "none",
             phase = "unlinking" =>
               KindFor(e) = "unlink" /\ (actor = NoLink => Gone(history[e].link)),
             TrueAnswer(e, told, actor)
      PROVE  PInv'
  <2>1. PICK w \in Worker :
          /\ worker' = [worker EXCEPT ![c] = w]
          /\ w.phase = phase /\ w.actor = actor /\ w.told = told /\ w.event = e
    BY <1>1, <1>5, ContinuedRun
  <2>2. StageInv(w, e)
    BY <1>2, <1>5, <2>1 DEF StageInv
  <2>3. StageInv(w, e)'
    BY <1>1, <1>4, <2>2, StageStays DEF PInv
  <2> QED BY <1>1, <1>2, <2>1, <2>3, RunMoves
<1>6. CASE i # NoLink /\ Continues(c, "limiting", i, ToldLinked(KindFor(e)))
  <2>1. PICK told \in Told : told = ToldLinked(KindFor(e))
    BY DEF Told, ToldLinked
  <2>2. /\ Held(i, event[e].account)
        /\ i = history[e].link \/ i > history[e].rows
    BY <1>1, <1>3, <1>6, ResolvedIsTrue DEF PInv
  <2>3. told # "unlink_succeeded" /\ (KindFor(e) = "link" => told = "link_succeeded")
    BY <2>1 DEF ToldLinked
  <2>4. TrueAnswer(e, told, i)
    BY <1>2, <2>2, <2>3 DEF TrueAnswer
  <2> QED BY <1>5, <1>6, <2>1, <2>4
<1>7. CASE i = NoLink /\ KindFor(e) = "text" /\ Continues(c, "completing", NoLink, "link_required")
  <2>1. TrueAnswer(e, "link_required", NoLink)
    BY <1>7 DEF TrueAnswer
  <2> QED BY <1>5, <1>7, <2>1 DEF Told
<1>8. CASE i = NoLink /\ KindFor(e) = "link" /\ Continues(c, "completing", NoLink, "rejected")
  <2>1. Gone(history[e].linked)
    BY <1>1, <1>3, <1>8, HeldByNone DEF AcceptedInv, LinkedInv, Gone, PInv
  <2>2. TrueAnswer(e, "rejected", NoLink)
    BY <1>2, <1>8, <2>1 DEF TrueAnswer
  <2> QED BY <1>5, <1>8, <2>2 DEF Told
<1>9. CASE i = NoLink /\ KindFor(e) = "unlink" /\ Continues(c, "unlinking", NoLink, "none")
  <2>1. Gone(history[e].link)
    BY <1>1, <1>3, <1>9, HeldByNone DEF AcceptedInv, Gone, PInv
  <2>2. TrueAnswer(e, "none", NoLink)
    BY DEF TrueAnswer
  <2> QED BY <1>5, <1>9, <2>1, <2>2 DEF Told
<1> QED BY <1>1, <1>3, <1>6, <1>7, <1>8, <1>9 DEF Resolve

-----------------------------------------------------------------------------
(* A run that only changes its phase.                                        *)
LEMMA RephasedRun ==
  ASSUME PInv, NEW c \in Consumers, NEW phase,
         phase \in {"unlinking", "completing", "finished"},
         worker' = [worker EXCEPT ![c].phase = phase]
  PROVE  \E w \in Worker :
           /\ worker' = [worker EXCEPT ![c] = w] /\ w.phase = phase
           /\ w.event = worker[c].event /\ w.actor = worker[c].actor
           /\ w.told = worker[c].told
<1> DEFINE w == [worker[c] EXCEPT !.phase = phase]
<1>1. worker \in [Consumers -> Worker]
  BY DEF PInv, ProcessingTypeOK
<1>2. worker[c] \in Worker
  BY <1>1
<1>3. /\ w \in Worker /\ w.phase = phase /\ w.event = worker[c].event
      /\ w.actor = worker[c].actor /\ w.told = worker[c].told
  BY <1>2 DEF Worker
<1>4. worker' = [worker EXCEPT ![c] = w]
  BY <1>1 DEF Worker
<1> HIDE DEF w
<1> QED BY <1>3, <1>4

(* What a run is told by the window of the user.                             *)
LEMMA LimitStep ==
  ASSUME PInv, IInv', Grown, NEW c \in Consumers, EnforceUserLimit(c)
  PROVE  PInv'
<1>1. PICK e \in Events :
        /\ e = worker[c].event /\ event[e].status # "absent"
        /\ StageInv(worker[c], e) /\ EventInv(e) /\ KindOf(c) = KindFor(e)
        /\ KindFor(e) \in {"text", "invalid", "link", "unlink"}
  BY RunFacts DEF EnforceUserLimit
<1>2. /\ worker[c].phase = "limiting" /\ event[e].status = "processing" /\ ~Decided(e)
      /\ UNCHANGED <<reply, receipted, faults>> /\ faults' \in 0..MaxFaults
  BY <1>1, FaultsStay DEF EnforceUserLimit, Holds, Decided
<1>3. /\ KindFor(e) # "invalid" /\ worker[c].actor # NoLink
      /\ worker[c].told = ToldLinked(KindFor(e))
      /\ TrueAnswer(e, worker[c].told, worker[c].actor)
  BY <1>1, <1>2 DEF StageInv
<1>4. PICK phase : phase = IF KindFor(e) = "unlink" THEN "unlinking" ELSE "completing"
  OBVIOUS
<1>5. ASSUME worker' = [worker EXCEPT ![c].phase = phase]
      PROVE  \E w \in Worker :
               /\ worker' = [worker EXCEPT ![c] = w] /\ w.event = e /\ StageInv(w, e)
  <2>1. PICK w \in Worker :
          /\ worker' = [worker EXCEPT ![c] = w] /\ w.phase = phase /\ w.event = e
          /\ w.actor = worker[c].actor /\ w.told = worker[c].told
    BY <1>1, <1>4, <1>5, RephasedRun
  <2>2. phase = "completing" => w.told # "none"
    BY <1>1, <1>3, <1>4, <2>1 DEF ToldLinked
  <2>3. StageInv(w, e)
    BY <1>3, <1>4, <2>1, <2>2 DEF StageInv
  <2> QED BY <2>1, <2>3
<1>6. CASE worker' = [worker EXCEPT ![c].phase = phase] /\ UNCHANGED <<event, history>>
  <2>1. PICK w \in Worker :
          /\ worker' = [worker EXCEPT ![c] = w] /\ w.event = e /\ StageInv(w, e)
    BY <1>5, <1>6
  <2>2. Stays(e)
    BY <1>2, <1>6 DEF Stays
  <2>3. StageInv(w, e)'
    BY <1>1, <2>1, <2>2, StageStays DEF PInv
  <2> QED BY <1>1, <1>2, <1>6, <2>1, <2>3, RunMoves
<1> DEFINE h == [history[e] EXCEPT !.user = @ + 1]
<1>7. ASSUME event[e].userAbuse = "unchecked",
             history' = [history EXCEPT ![e].user = @ + 1]
      PROVE  /\ h \in History /\ history' = [history EXCEPT ![e] = h]
             /\ h.channel = history[e].channel /\ h.user = 1
             /\ h.linked = history[e].linked
             /\ h.rows = history[e].rows /\ h.link = history[e].link
  <2>1. history[e] \in History /\ history[e].user = 0
    BY <1>1, <1>7, EventFacts DEF EventInv
  <2>2. /\ h \in History
        /\ h.channel = history[e].channel /\ h.user = 1
        /\ h.linked = history[e].linked
        /\ h.rows = history[e].rows /\ h.link = history[e].link
    BY <2>1 DEF History
  <2>3. history' = [history EXCEPT ![e] = h]
    <3>1. history \in [Events -> History]
      BY <1>1, EventFacts
    <3> QED BY <1>7, <3>1 DEF History
  <2> QED BY <2>2, <2>3
<1> HIDE DEF h
<1>8. CASE /\ event[e].userAbuse = "unchecked"
           /\ worker' = [worker EXCEPT ![c].phase = phase]
           /\ event' = [event EXCEPT ![e].userAbuse = "allowed"]
           /\ history' = [history EXCEPT ![e].user = @ + 1]
  <2> DEFINE q == [event[e] EXCEPT !.userAbuse = "allowed"]
  <2>1. PICK w \in Worker :
          /\ worker' = [worker EXCEPT ![c] = w] /\ w.event = e /\ StageInv(w, e)
    BY <1>5, <1>8
  <2>2. /\ q \in Event /\ q.status = event[e].status /\ q.claim = event[e].claim
        /\ q.abuse = event[e].abuse /\ q.userAbuse = "allowed"
        /\ q.account = event[e].account /\ q.content = event[e].content
    BY <1>1, EventFacts DEF Event, Verdicts
  <2>3. event' = [event EXCEPT ![e] = q]
    BY <1>1, <1>8, EventFacts DEF Event
  <2> HIDE DEF q
  <2>4. Stays(e)
    BY <1>1, <1>2, <1>7, <1>8, <2>2, <2>3, EventFacts DEF Stays
  <2>5. StageInv(w, e)'
    BY <1>1, <2>1, <2>4, StageStays DEF PInv
  <2>6. reply' = [reply EXCEPT ![e] = reply[e]]
    BY <1>1, <1>2, EventFacts
  <2>7. PointMove(e, c, q, h, reply[e], w)
    BY <1>1, <1>2, <1>7, <1>8, <2>1, <2>2, <2>3, <2>5, <2>6, EventFacts
       DEF PointMove, EventInv
  <2> QED BY <2>7, PointStep
<1>9. CASE /\ event[e].userAbuse = "unchecked"
           /\ worker' = [worker EXCEPT ![c].phase = "finished"]
           /\ event' = [event EXCEPT ![e].status = "suppressed", ![e].claim = NoConsumer,
                                     ![e].leaseOver = FALSE, ![e].userAbuse = "denied"]
           /\ history' = [history EXCEPT ![e].user = @ + 1]
  <2> DEFINE q == [event[e] EXCEPT !.status = "suppressed", !.claim = NoConsumer,
                                   !.leaseOver = FALSE, !.userAbuse = "denied"]
  <2>1. PICK w \in Worker :
          /\ worker' = [worker EXCEPT ![c] = w] /\ w.event = e /\ w.phase = "finished"
    BY <1>1, <1>9, RephasedRun
  <2>2. /\ q \in Event /\ q.status = "suppressed" /\ q.claim = NoConsumer
        /\ q.abuse = event[e].abuse /\ q.userAbuse = "denied"
        /\ q.account = event[e].account /\ q.content = event[e].content
    BY <1>1, EventFacts DEF Event, Verdicts
  <2>3. event' = [event EXCEPT ![e] = q]
    BY <1>1, <1>9, EventFacts DEF Event
  <2> HIDE DEF q
  <2>4. StageInv(w, e)'
    BY <1>1, <2>1, <2>2, <2>3, EventFacts DEF StageInv, Decided
  <2>5. reply' = [reply EXCEPT ![e] = reply[e]]
    BY <1>1, <1>2, EventFacts
  <2>6. /\ h.channel = IF q.abuse = "unchecked" THEN 0 ELSE 1
        /\ h.user = IF q.userAbuse = "unchecked" THEN 0 ELSE 1
        /\ q.status = "processed" <=> reply[e] # NoReply
    BY <1>1, <1>2, <1>7, <1>9, <2>2, EventFacts DEF EventInv
  <2>7. PointMove(e, c, q, h, reply[e], w)
    BY <1>1, <1>2, <1>7, <1>9, <2>1, <2>2, <2>3, <2>4, <2>5, <2>6, EventFacts
       DEF PointMove
  <2> QED BY <2>7, PointStep
<1> QED BY <1>1, <1>4, <1>6, <1>8, <1>9 DEF EnforceUserLimit

(* The answer a run gives is the one it holds, and that was true.            *)
LEMMA CompleteStep ==
  ASSUME PInv, IInv', Grown, NEW c \in Consumers, Complete(c)
  PROVE  PInv'
<1>1. PICK e \in Events :
        /\ e = worker[c].event /\ event[e].status # "absent"
        /\ StageInv(worker[c], e) /\ worker[c] \in Worker
  BY RunFacts DEF Complete
<1>2. /\ worker[c].phase = "completing" /\ event[e].status = "processing" /\ ~Decided(e)
      /\ UNCHANGED <<receipted, faults, history>> /\ faults' \in 0..MaxFaults
      /\ worker' = [worker EXCEPT ![c].phase = "finished"]
  BY <1>1, FaultsStay DEF Complete, Holds, Decided
<1>3. /\ worker[c].told # "none" /\ TrueAnswer(e, worker[c].told, worker[c].actor)
  BY <1>1, <1>2 DEF StageInv
<1>4. PICK w \in Worker :
        /\ worker' = [worker EXCEPT ![c] = w] /\ w.event = e /\ w.phase = "finished"
  BY <1>1, <1>2, RephasedRun
<1> DEFINE q == [event[e] EXCEPT !.status = "processed", !.claim = NoConsumer,
                                 !.leaseOver = FALSE]
           p == [told |-> worker[c].told, actor |-> worker[c].actor]
<1>5. /\ q \in Event /\ q.status = "processed" /\ q.claim = NoConsumer
      /\ q.abuse = event[e].abuse /\ q.userAbuse = event[e].userAbuse
      /\ q.account = event[e].account /\ q.content = event[e].content
  BY <1>1, EventFacts DEF Event
<1>6. event' = [event EXCEPT ![e] = q]
  BY <1>1, EventFacts DEF Complete, Event
<1>7. /\ p \in Reply /\ p # NoReply /\ p.told # "none" /\ TrueAnswer(e, p.told, p.actor)
      /\ reply' = [reply EXCEPT ![e] = p]
  BY <1>1, <1>3 DEF Complete, Worker, Reply, NoReply
<1> HIDE DEF q, p
<1>8. StageInv(w, e)'
  BY <1>1, <1>4, <1>5, <1>6, EventFacts DEF StageInv, Decided
<1>9. history' = [history EXCEPT ![e] = history[e]]
  BY <1>1, <1>2, EventFacts
<1>10. PointMove(e, c, q, history[e], p, w)
  BY <1>1, <1>2, <1>4, <1>5, <1>6, <1>7, <1>8, <1>9, EventFacts DEF PointMove, EventInv
<1> QED BY <1>10, PointStep

LEMMA ReleaseStep ==
  ASSUME PInv, IInv', Grown, NEW c \in Consumers, Release(c)
  PROVE  PInv'
<1>1. PICK e \in Events : e = worker[c].event /\ event[e].status # "absent"
  BY RunFacts DEF Release
<1>2. /\ worker[c].phase # "idle" /\ worker' = [worker EXCEPT ![c] = Idle]
      /\ UNCHANGED <<reply, receipted, faults, history>> /\ faults' \in 0..MaxFaults
  BY FaultsStay DEF Release, Leaves
<1>3. CASE UNCHANGED event
  BY <1>2, <1>3, IdleRun, RunMoves
<1>4. CASE Holds(c)
  <2> DEFINE q == [event[e] EXCEPT !.status = "pending", !.claim = NoConsumer,
                                   !.leaseOver = FALSE]
  <2>1. event[e].status = "processing" /\ ~Decided(e)
    BY <1>1, <1>4 DEF Holds, Decided
  <2>2. /\ q \in Event /\ q.status = "pending" /\ q.claim = NoConsumer
        /\ q.abuse = event[e].abuse /\ q.userAbuse = event[e].userAbuse
        /\ q.account = event[e].account /\ q.content = event[e].content
    BY <1>1, EventFacts DEF Event
  <2>3. event' = [event EXCEPT ![e] = q]
    BY <1>1, <1>4, EventFacts DEF Release, Event
  <2> HIDE DEF q
  <2>4. /\ history' = [history EXCEPT ![e] = history[e]]
        /\ reply' = [reply EXCEPT ![e] = reply[e]]
    BY <1>1, <1>2, EventFacts
  <2>5. /\ history[e].channel = IF q.abuse = "unchecked" THEN 0 ELSE 1
        /\ history[e].user = IF q.userAbuse = "unchecked" THEN 0 ELSE 1
        /\ q.status = "processed" <=> reply[e] # NoReply
    BY <1>1, <2>1, <2>2, EventFacts DEF EventInv
  <2>6. PICK w \in Worker : w = Idle /\ w.phase = "idle"
    BY IdleRun
  <2>7. PointMove(e, c, q, history[e], reply[e], w)
    BY <1>1, <1>2, <2>1, <2>2, <2>3, <2>4, <2>5, <2>6, EventFacts DEF PointMove
  <2> QED BY <2>7, PointStep
<1> QED BY <1>3, <1>4 DEF Release

(* A new event knows the identity its account resolves to, and how many rows *)
(* there are.                                                                *)
LEMMA AcceptStep ==
  ASSUME PInv, IInv', Grown, NEW e \in Events, NEW a \in Accounts,
         NEW content \in Contents, AcceptEvent(e, a, content)
  PROVE  PInv'
<1> DEFINE q == [AbsentEvent EXCEPT !.status = "pending", !.account = a,
                                    !.content = content]
           h == [NoHistory EXCEPT !.link = Resolved(a), !.rows = Rows]
<1>1. /\ event[e] = AbsentEvent /\ history[e] = NoHistory
      /\ reply[e].told = "none" /\ reply[e] = NoReply /\ e \notin receipted
      /\ UNCHANGED <<identityVars, reply, receipted, worker, faults>>
  <2>1. EventInv(e) /\ event[e].status = "absent"
    BY DEF PInv, EventsInv, AcceptEvent
  <2> QED BY <2>1 DEF EventInv, Decided, NoReply, AcceptEvent
<1>2. PICK n \in 0..MaxLinks : InOrder(n) /\ Rows = n
  BY RowsCount DEF PInv, IInv, RowsInOrder
<1>3. n \in Links \cup {NoLink} /\ (n # 0 => n \in Links)
  BY <1>2, IdentityAssumption DEF Links, NoLink
<1>4. /\ q \in Event /\ q.status = "pending" /\ q.claim = NoConsumer
      /\ q.abuse = "unchecked" /\ q.userAbuse = "unchecked"
      /\ q.account = a /\ q.content = content
  BY DEF AbsentEvent, Event, Verdicts
<1>5. event' = [event EXCEPT ![e] = q]
  BY DEF AcceptEvent
<1>6. /\ h \in History /\ h.channel = 0 /\ h.user = 0
      /\ h.linked = NoLink /\ h.link = Resolved(a) /\ h.rows = n
  BY <1>2, <1>3, ResolvedIsActive DEF NoHistory, History, PInv
<1>7. history' = [history EXCEPT ![e] = h]
  <2>1. history \in [Events -> History]
    BY DEF PInv, ProcessingTypeOK
  <2> QED BY <1>1, <2>1 DEF AcceptEvent, NoHistory, History
<1> HIDE DEF q, h
<1>8. /\ \A x \in Events : event'[x] = IF x = e THEN q ELSE event[x]
      /\ \A x \in Events : history'[x] = IF x = e THEN h ELSE history[x]
      /\ event' \in [Events -> Event] /\ history' \in [Events -> History]
  BY <1>4, <1>5, <1>6, <1>7 DEF PInv, ProcessingTypeOK
<1>9. ProcessingTypeOK'
  BY <1>1, <1>4, <1>8 DEF PInv, ProcessingTypeOK, IInv
<1>10. \A x \in Events : Stays(x)
  BY <1>1, <1>8 DEF Stays, AbsentEvent, Decided
<1>11. AcceptedInv(e)'
  <2>1. identity' = identity /\ challenge' = challenge
    BY <1>1 DEF identityVars
  <2>2. KindFor(e)' \in {"link", "unlink"} =>
          ChallengeFor(e)' \in Challenges /\ challenge'[ChallengeFor(e)'].status # "absent"
    BY <1>4, <1>8, <2>1, IdentityAssumption
       DEF KindFor, ChallengeFor, AcceptEvent, Presentable, Contents
  <2>3. Resolved(a) # NoLink => Held(Resolved(a), a)
    BY ResolvedIsActive DEF Held, PInv
  <2>4. ASSUME NEW i \in Links, i <= n, i # Resolved(a), identity[i].account = a
        PROVE  identity[i].status = "unlinked"
    <3>1. identity[i].status # "absent" /\ identity[i].status # "active"
      BY <1>2, <2>4, ResolvedIsActive DEF InOrder, PInv
    <3> QED BY <3>1 DEF PInv, IInv, IdentityTypeOK
  <2>5. n # 0 => identity[n].status # "absent"
    BY <1>2, <1>3, IdentityAssumption DEF InOrder, Links
  <2>6. LinkedInv(e)'
    BY <1>6, <1>8 DEF LinkedInv
  <2>7. PICK i : i = Resolved(a)
    OBVIOUS
  <2>8. h.link = i /\ (i # NoLink => Held(i, a)')
    BY <1>6, <2>1, <2>3, <2>7 DEF Held
  <2> QED BY <1>4, <1>6, <1>8, <2>1, <2>2, <2>4, <2>5, <2>6, <2>7, <2>8
          DEF AcceptedInv, Held
<1>12. EventInv(e)'
  BY <1>1, <1>4, <1>6, <1>8, <1>11 DEF EventInv
<1>13. TrueAnswer(e, reply[e].told, reply[e].actor)'
  BY <1>1 DEF TrueAnswer
<1> QED BY <1>1, <1>8, <1>9, <1>10, <1>12, <1>13, LocalStep, ProcessingAssumption

-----------------------------------------------------------------------------
(* What each answer to a link challenge means.                               *)
LEMMA LinkAnswers ==
  ASSUME IInv, NEW k \in Challenges, challenge[k].status # "absent", NEW a,
         NEW answer, ConsumeLinkChallenge(k, a, answer)
  PROVE  /\ answer # "linked" => SpentLink(k)'
         /\ answer # "already_used" =>
              ~(Presented(k, "link") /\ challenge[k].status = "consumed")
         /\ answer = "linked" =>
              /\ ~SpentLink(k) /\ SpentLink(k)'
              /\ Presented(k, "link")' /\ challenge'[k].status = "consumed"
              /\ \E i \in Links :
                   /\ i = Rows + 1 /\ Held(i, a)'
                   /\ \A r \in Links : identity[r].status # "absent" => i > r
<1>1. ASSUME Consumed(k), Presented(k, "link")
      PROVE  SpentLink(k)' /\ Presented(k, "link")' /\ challenge'[k].status = "consumed"
  <2>1. challenge'[k].status = "consumed" /\ challenge'[k].purpose = "link"
    BY <1>1, ConsumedFields DEF Presented
  <2> QED BY <2>1 DEF SpentLink, Usable, Presented
<1>2. CASE ConsumeRefused(k, "link", answer)
  <2>1. answer \in {"not_found", "already_used", "expired"}
    BY <1>2 DEF ConsumeRefused
  <2>2. SpentLink(k)'
    BY <1>1, <1>2 DEF ConsumeRefused, SpentLink, Usable, Presented
  <2>3. answer # "already_used" =>
          ~(Presented(k, "link") /\ challenge[k].status = "consumed")
    BY <1>2 DEF ConsumeRefused
  <2> QED BY <2>1, <2>2, <2>3
<1>3. CASE Usable(k, "link") /\ Consumed(k) /\ answer = "already_linked"
  BY <1>1, <1>3 DEF Usable
<1>4. CASE /\ Usable(k, "link") /\ Consumed(k) /\ answer = "linked" /\ Rows < MaxLinks
           /\ identity' = [identity EXCEPT ![Rows + 1] =
                [status |-> "active", user |-> challenge[k].user,
                 account |-> a, linkedBy |-> k, unlinkedBy |-> NoChallenge]]
  <2>1. PICK n \in 0..MaxLinks : InOrder(n) /\ Rows = n
    BY RowsCount DEF IInv, RowsInOrder
  <2>2. n + 1 \in Links /\ \A r \in Links : identity[r].status # "absent" => n + 1 > r
    BY <1>4, <2>1, IdentityAssumption DEF InOrder, Links
  <2>3. identity'[n + 1].status = "active" /\ identity'[n + 1].account = a
    BY <1>4, <2>1, <2>2 DEF IInv, IdentityTypeOK
  <2>4. PICK i : i = Rows + 1
    OBVIOUS
  <2>5. Held(i, a)'
    BY <2>1, <2>2, <2>3, <2>4 DEF Held
  <2>6. ~SpentLink(k) /\ ~(Presented(k, "link") /\ challenge[k].status = "consumed")
    BY <1>4 DEF SpentLink, Usable
  <2> QED BY <1>1, <1>4, <2>1, <2>2, <2>4, <2>5, <2>6 DEF Usable
<1> QED BY <1>2, <1>3, <1>4 DEF ConsumeLinkChallenge

LEMMA LinkStep ==
  ASSUME PInv, IInv', Grown, NEW c \in Consumers, ConsumeLinkEvent(c)
  PROVE  PInv'
<1>1. PICK e \in Events :
        /\ e = worker[c].event /\ event[e].status # "absent"
        /\ StageInv(worker[c], e) /\ AcceptedInv(e) /\ history[e] \in History
        /\ ChallengeOf(c) = ChallengeFor(e) /\ AccountOf(c) = event[e].account
  BY RunFacts DEF ConsumeLinkEvent
<1>2. PICK k, a : k = ChallengeFor(e) /\ a = event[e].account
  OBVIOUS
<1>3. /\ worker[c].phase = "linking" /\ KindFor(e) = "link"
      /\ k \in Challenges /\ challenge[k].status # "absent"
      /\ UNCHANGED <<event, reply, receipted>>
  BY <1>1, <1>2 DEF ConsumeLinkEvent, StageInv, AcceptedInv
<1>4. PICK answer \in Answered :
        /\ ConsumeLinkChallenge(k, a, answer)
        /\ \/ AfterLinking(c, answer) /\ UNCHANGED faults
           \/ AnswerLost(c)
        /\ history' = IF answer = "linked"
             THEN [history EXCEPT ![e].linked = Rows + 1]
             ELSE history
  BY <1>1, <1>2 DEF ConsumeLinkEvent
<1>5. /\ answer # "linked" => SpentLink(k)'
      /\ answer # "already_used" =>
           ~(Presented(k, "link") /\ challenge[k].status = "consumed")
  BY <1>3, <1>4, LinkAnswers DEF PInv
<1>6. faults' \in 0..MaxFaults
  BY <1>4, FaultTypes, FaultsStay DEF AnswerLost
<1>7. KindFor(e)' = "link" /\ ChallengeFor(e)' = k /\ event'[e].account = a
  BY <1>2, <1>3 DEF KindFor, ChallengeFor
<1>8. ASSUME answer # "linked"
      PROVE  PInv'
  <2>1. UNCHANGED history
    BY <1>4, <1>8
  <2>2. ASSUME NEW phase, NEW told, Continues(c, phase, NoLink, told),
               phase \in {"resolving", "completing", "releasing"}, told \in Told,
               phase = "completing" => told = "rejected" /\ TrueAnswer(e, told, NoLink)'
        PROVE  PInv'
    <3>1. PICK w \in Worker :
            /\ worker' = [worker EXCEPT ![c] = w]
            /\ w.phase = phase /\ w.actor = NoLink /\ w.told = told /\ w.event = e
      BY <1>1, <2>2, ContinuedRun
    <3>2. StageInv(w, e)'
      BY <1>5, <1>7, <1>8, <2>2, <3>1 DEF StageInv
    <3> QED BY <1>1, <1>3, <1>6, <2>1, <3>1, <3>2, RunMoves
  <2>3. CASE Continues(c, "releasing", NoLink, "none")
    BY <2>2, <2>3 DEF Told
  <2>4. CASE Continues(c, "resolving", NoLink, "none")
    BY <2>2, <2>4 DEF Told
  <2>5. CASE answer # "already_used" /\ Continues(c, "completing", NoLink, "rejected")
    <3>1. Gone(history[e].linked)'
      BY <1>1, <1>2, <1>5, <2>1, <2>5 DEF AcceptedInv, LinkedInv, Gone
    <3>2. TrueAnswer(e, "rejected", NoLink)'
      BY <1>5, <1>7, <1>8, <3>1 DEF TrueAnswer
    <3> QED BY <2>2, <2>5, <3>2 DEF Told
  <2> QED BY <1>4, <1>8, <2>3, <2>4, <2>5 DEF AfterLinking, AnswerLost
<1>9. ASSUME answer = "linked"
      PROVE  PInv'
  <2>1. PICK i \in Links :
          /\ i = Rows + 1 /\ Held(i, a)'
          /\ \A r \in Links : identity[r].status # "absent" => i > r
    BY <1>3, <1>4, <1>9, LinkAnswers DEF PInv
  <2>2. /\ ~SpentLink(k) /\ SpentLink(k)'
        /\ Presented(k, "link")' /\ challenge'[k].status = "consumed"
    BY <1>3, <1>4, <1>9, LinkAnswers DEF PInv
  <2> DEFINE h == [history[e] EXCEPT !.linked = i]
  <2>3. /\ h \in History /\ h.channel = history[e].channel /\ h.user = history[e].user
        /\ h.linked = i /\ h.rows = history[e].rows /\ h.link = history[e].link
    BY <1>1 DEF History
  <2>4. history' = [history EXCEPT ![e] = h]
    <3>1. history \in [Events -> History]
      BY DEF PInv, ProcessingTypeOK
    <3> QED BY <1>4, <1>9, <2>1, <3>1 DEF History
  <2> HIDE DEF h
  <2>5. /\ history'[e].linked = i /\ history'[e].rows = history[e].rows
        /\ history'[e].link = history[e].link
    BY <2>3, <2>4 DEF PInv, ProcessingTypeOK
  <2>6. LinkedInv(e)'
    BY <1>7, <2>1, <2>2, <2>5 DEF LinkedInv
  <2>7. TrueAnswer(e, "link_succeeded", i)'
    <3>1. i > history[e].rows
      <4>1. CASE history[e].rows = 0
        BY <4>1, IdentityAssumption DEF Links
      <4>2. CASE history[e].rows # 0
        BY <1>1, <2>1, <4>2 DEF History, AcceptedInv, NoLink
      <4> QED BY <4>1, <4>2
    <3> QED BY <1>7, <2>1, <2>2, <2>5, <3>1 DEF TrueAnswer
  <2>8. ASSUME NEW phase, NEW actor, NEW told, Continues(c, phase, actor, told),
               \/ phase = "releasing" /\ actor = NoLink /\ told = "none"
               \/ phase = "limiting" /\ actor = i /\ told = "link_succeeded"
        PROVE  PInv'
    <3>1. PICK w \in Worker :
            /\ worker' = [worker EXCEPT ![c] = w]
            /\ w.phase = phase /\ w.actor = actor /\ w.told = told /\ w.event = e
      BY <1>1, <2>8, ContinuedRun DEF Told
    <3>2. i # NoLink
      BY IdentityAssumption DEF Links, NoLink
    <3>3. TrueAnswer(e, w.told, w.actor)' \/ phase = "releasing"
      BY <2>7, <2>8, <3>1
    <3>4. StageInv(w, e)'
      BY <1>7, <2>8, <3>1, <3>2, <3>3 DEF StageInv, ToldLinked
    <3>5. /\ event' = [event EXCEPT ![e] = event[e]]
          /\ reply' = [reply EXCEPT ![e] = reply[e]]
      BY <1>1, <1>3, EventFacts
    <3>6. PointMove(e, c, event[e], h, reply[e], w)
      <4>1. /\ h.channel = IF event[e].abuse = "unchecked" THEN 0 ELSE 1
            /\ h.user = IF event[e].userAbuse = "unchecked" THEN 0 ELSE 1
        BY <1>1, <2>3, EventFacts DEF EventInv
      <4> QED BY <1>1, <1>2, <1>3, <1>6, <2>2, <2>3, <2>4, <2>6, <3>1, <3>4, <3>5, <4>1,
                 EventFacts DEF PointMove
    <3> QED BY <3>6, PointStep
  <2>9. CASE Continues(c, "releasing", NoLink, "none")
    BY <2>8, <2>9
  <2>10. CASE Continues(c, "limiting", Rows + 1, "link_succeeded")
    BY <2>1, <2>8, <2>10
  <2> QED BY <1>4, <1>9, <2>9, <2>10 DEF AfterLinking, AnswerLost
<1> QED BY <1>8, <1>9

-----------------------------------------------------------------------------
(* An unlinking leaves its account without an identity: the active one that  *)
(* the account had at an event's acceptance, if any, is gone.                *)
LEMMA UnlinkAnswers ==
  ASSUME IInv, NEW k \in Challenges, NEW a, NEW answer,
         ConsumeUnlinkChallenge(k, a, answer), answer = "unlinked",
         NEW i, i # NoLink => Held(i, a)
  PROVE  Gone(i)'
<1>1. /\ Usable(k, "unlink") /\ Consumed(k)
      /\ identity[challenge[k].target].status = "active"
      /\ identity[challenge[k].target].account = a
      /\ identity' = [identity EXCEPT ![challenge[k].target].status = "unlinked",
                                      ![challenge[k].target].unlinkedBy = k]
  BY DEF ConsumeUnlinkChallenge, ConsumeRefused
<1>2. PICK j \in Links : j = challenge[k].target
  BY <1>1 DEF IInv, IdentityTypeOK, ChallengeInv, Usable, Presented
<1>3. Lost(k, a, j)
  BY <1>1, <1>2 DEF Lost
<1>4. /\ \A r \in Links : r # j => identity'[r] = identity[r]
      /\ identity'[j].status = "unlinked"
  BY <1>3, LostRows
<1>5. ASSUME i # NoLink
      PROVE  i \in Links /\ identity'[i].status = "unlinked"
  <2>1. i \in Links /\ identity[i].status \in {"active", "unlinked"} /\ identity[i].account = a
    BY <1>5 DEF Held, IInv, IdentityTypeOK
  <2>2. identity[i].status = "active" => i = j
    BY <1>1, <1>2, <2>1 DEF IInv, Distinct
  <2> QED BY <1>4, <2>1, <2>2
<1> QED BY <1>5 DEF Gone

LEMMA UnlinkStep ==
  ASSUME PInv, IInv', Grown, NEW c \in Consumers, ConsumeUnlinkEvent(c)
  PROVE  PInv'
<1>1. PICK e \in Events :
        /\ e = worker[c].event /\ event[e].status # "absent"
        /\ StageInv(worker[c], e) /\ AcceptedInv(e) /\ history[e] \in History
        /\ ChallengeOf(c) = ChallengeFor(e) /\ AccountOf(c) = event[e].account
        /\ worker[c] \in Worker
  BY RunFacts DEF ConsumeUnlinkEvent
<1>2. PICK k, a, i, actor :
        /\ k = ChallengeFor(e) /\ a = event[e].account /\ i = history[e].link
        /\ actor = worker[c].actor
  OBVIOUS
<1>3. /\ worker[c].phase = "unlinking" /\ KindFor(e) = "unlink"
      /\ actor = NoLink => Gone(i)
      /\ k \in Challenges /\ actor \in Links \cup {NoLink}
      /\ UNCHANGED <<event, reply, receipted>>
  BY <1>1, <1>2 DEF ConsumeUnlinkEvent, StageInv, AcceptedInv, Worker
<1>4. PICK answer \in Answered :
        /\ ConsumeUnlinkChallenge(k, a, answer)
        /\ \/ AfterUnlinking(c, answer) /\ UNCHANGED faults
           \/ AnswerLost(c)
        /\ history' = IF answer = "unlinked"
             THEN [history EXCEPT ![e].unlinked = challenge[k].target]
             ELSE history
  BY <1>1, <1>2 DEF ConsumeUnlinkEvent
<1>5. faults' \in 0..MaxFaults
  BY <1>4, FaultTypes, FaultsStay DEF AnswerLost
<1>6. answer = "unlinked" \/ (answer = "already_used" /\ actor = NoLink) => Gone(i)'
  <2>1. answer = "unlinked" => Gone(i)'
    BY <1>1, <1>2, <1>3, <1>4, UnlinkAnswers DEF AcceptedInv, PInv
  <2>2. Gone(i) => Gone(i)'
    BY GoneStays
  <2> QED BY <1>3, <2>1, <2>2
<1>7. \E h \in History :
        /\ history' = [history EXCEPT ![e] = h]
        /\ h.channel = history[e].channel /\ h.user = history[e].user
        /\ h.linked = history[e].linked
        /\ h.rows = history[e].rows /\ h.link = history[e].link
  <2>1. history \in [Events -> History] /\ challenge[k].target \in Links \cup {NoLink}
    BY <1>3 DEF PInv, ProcessingTypeOK, IInv, IdentityTypeOK
  <2>2. CASE answer # "unlinked"
    BY <1>1, <1>4, <2>1, <2>2
  <2>3. CASE answer = "unlinked"
    <3> DEFINE h == [history[e] EXCEPT !.unlinked = challenge[k].target]
    <3>1. /\ h \in History
          /\ h.channel = history[e].channel /\ h.user = history[e].user
          /\ h.linked = history[e].linked
          /\ h.rows = history[e].rows /\ h.link = history[e].link
      BY <1>1, <2>1 DEF History
    <3>2. history' = [history EXCEPT ![e] = h]
      BY <1>4, <2>1, <2>3 DEF History
    <3> HIDE DEF h
    <3> QED BY <3>1, <3>2
  <2> QED BY <2>2, <2>3
<1>8. PICK h \in History :
        /\ history' = [history EXCEPT ![e] = h]
        /\ h.channel = history[e].channel /\ h.user = history[e].user
        /\ h.linked = history[e].linked
        /\ h.rows = history[e].rows /\ h.link = history[e].link
  BY <1>7
<1>9. KindFor(e)' = "unlink" /\ history'[e].link = i
  BY <1>2, <1>3, <1>8 DEF KindFor, PInv, ProcessingTypeOK
<1>10. ASSUME NEW phase, NEW doer, NEW told, Continues(c, phase, doer, told),
              phase \in {"completing", "releasing"}, doer \in Links \cup {NoLink},
              told \in {"none", "rejected", "unlink_succeeded"},
              phase = "completing" => told # "none",
              told = "unlink_succeeded" => Gone(i)'
       PROVE  PInv'
  <2>1. PICK w \in Worker :
          /\ worker' = [worker EXCEPT ![c] = w]
          /\ w.phase = phase /\ w.actor = doer /\ w.told = told /\ w.event = e
    BY <1>1, <1>10, ContinuedRun DEF Told
  <2>2. TrueAnswer(e, told, doer)'
    BY <1>9, <1>10 DEF TrueAnswer
  <2>3. StageInv(w, e)'
    BY <1>10, <2>1, <2>2 DEF StageInv
  <2>4. /\ event' = [event EXCEPT ![e] = event[e]]
        /\ reply' = [reply EXCEPT ![e] = reply[e]]
    BY <1>1, <1>3, EventFacts
  <2>5. /\ h.channel = IF event[e].abuse = "unchecked" THEN 0 ELSE 1
        /\ h.user = IF event[e].userAbuse = "unchecked" THEN 0 ELSE 1
    BY <1>1, <1>8, EventFacts DEF EventInv
  <2>6. PointMove(e, c, event[e], h, reply[e], w)
    BY <1>1, <1>3, <1>5, <1>8, <2>1, <2>3, <2>4, <2>5, EventFacts DEF PointMove
  <2> QED BY <2>6, PointStep
<1>11. CASE Continues(c, "releasing", NoLink, "none")
  BY <1>10, <1>11
<1>12. CASE /\ answer = "unlinked" \/ (answer = "already_used" /\ actor = NoLink)
            /\ Continues(c, "completing", actor, "unlink_succeeded")
  BY <1>3, <1>6, <1>10, <1>12
<1>13. CASE Continues(c, "completing", NoLink, "rejected")
  BY <1>10, <1>13
<1> QED BY <1>2, <1>4, <1>11, <1>12, <1>13 DEF AfterUnlinking, AnswerLost

-----------------------------------------------------------------------------
(* Every step keeps the invariant.                                           *)
LEMMA StepKeepsPInv ==
  ASSUME PInv, [ProcessingNext]_vars
  PROVE  PInv'
<1>1. [IdentityNext]_identityVars
  BY StepIsIdentity DEF PInv
<1>2. IInv' /\ Grown
  BY <1>1, StepKeepsIInv, IdentityGrows DEF PInv
<1>3. CASE Surface /\ UNCHANGED processingVars
  BY <1>2, <1>3, SurfaceStep
<1>4. ASSUME NEW e \in Events, NEW a \in Accounts, NEW content \in Contents,
             AcceptEvent(e, a, content)
      PROVE  PInv'
  BY <1>2, <1>4, AcceptStep
<1>5. ASSUME NEW e \in Events, LeaseExpires(e)
      PROVE  PInv'
  BY <1>2, <1>5, LeaseStep
<1>6. ASSUME NEW e \in Events, NEW c \in Consumers,
             ClaimSuppressed(c, e) \/ ClaimGranted(c, e) \/ ClaimDuplicate(c, e)
      PROVE  PInv'
  BY <1>2, <1>6, SuppressedStep, GrantedStep, DuplicateStep
<1>7. ASSUME NEW c \in Consumers, Proceeds(c)
      PROVE  PInv'
  BY <1>2, <1>7, ResolveStep, LinkStep, UnlinkStep, UnavailableStep, LimitStep,
     CompleteStep, GoneStep, ReleaseStep, ReceiptStep DEF Proceeds
<1>8. CASE UNCHANGED vars
  BY <1>2, <1>8, SurfaceStep DEF vars
<1> QED BY <1>3, <1>4, <1>5, <1>6, <1>7, <1>8 DEF ProcessingNext, TakesUp

LEMMA ProcessingStarts ==
  ASSUME ProcessingInit
  PROVE  PInv
<1>1. IInv
  BY InitHolds DEF ProcessingInit
<1>2. ProcessingTypeOK
  <2>1. AbsentEvent \in Event /\ NoReply \in Reply /\ Idle \in Worker /\ NoHistory \in History
    BY DEF AbsentEvent, Event, Verdicts, Contents, NoReply, Reply, Told, Idle, Worker,
           NoHistory, History, NoLink
  <2>2. AbsentEvent.claim = NoConsumer /\ AbsentEvent.status = "absent"
    BY DEF AbsentEvent
  <2> QED BY <1>1, <2>1, <2>2, ProcessingAssumption DEF ProcessingTypeOK, ProcessingInit, IInv
<1>3. EventsInv
  BY DEF ProcessingInit, EventsInv, EventInv, TrueAnswer, AbsentEvent, NoReply, NoHistory,
         Decided
<1>4. RunsInv
  BY DEF ProcessingInit, RunsInv, RunInv, Idle
<1> QED BY <1>1, <1>2, <1>3, <1>4 DEF PInv

(* PInv is inductive: it holds after any steps of any runs, in any order.    *)
THEOREM ProcessingInvariant == ProcessingSpec => []PInv
<1>1. ProcessingInit => PInv
  BY ProcessingStarts
<1>2. PInv /\ [ProcessingNext]_vars => PInv'
  BY StepKeepsPInv
<1> QED BY <1>1, <1>2, PTL DEF ProcessingSpec

(* Types, and the table's check that exactly a claimed event is processing:  *)
(* claims, releases, deferrals and decisions keep status, claim and lease    *)
(* consistent.                                                               *)
THEOREM ProcessingTypeCorrect == ProcessingSpec => []ProcessingTypeOK
<1>1. PInv => ProcessingTypeOK
  BY DEF PInv
<1> QED BY <1>1, ProcessingInvariant, PTL

(* Event processing presents challenges as Identity prescribes, however its  *)
(* runs overlap, fail and repeat, and changes nothing else of Identity.      *)
THEOREM ProcessingIsIdentity == ProcessingSpec => IdentitySpec
<1>1. ProcessingInit => IdentityInit
  BY DEF ProcessingInit
<1>2. PInv /\ [ProcessingNext]_vars => [IdentityNext]_identityVars
  BY StepIsIdentity DEF PInv
<1> QED BY <1>1, <1>2, ProcessingInvariant, PTL DEF ProcessingSpec, IdentitySpec

(* Whatever runs overlap, an event has its one reply exactly when it is      *)
(* processed: complete writes both in one transaction, enforceUserLimit and  *)
(* claim suppress without one, and nothing else decides.                     *)
THEOREM RepliesMatchDecisions == ProcessingSpec => []ReplyIffProcessed
<1>1. PInv => ReplyIffProcessed
  BY DEF PInv, EventsInv, EventInv, ReplyIffProcessed
<1> QED BY <1>1, ProcessingInvariant, PTL

(* The minute windows count an event once, however often it is retried: the  *)
(* verdict that is stored with the count keeps a later claim from counting.  *)
THEOREM WindowsCountOnce == ProcessingSpec => []CountedOnce
<1>1. PInv => CountedOnce
  <2> SUFFICES ASSUME PInv, NEW e \in Events
               PROVE  history[e].channel <= 1 /\ history[e].user <= 1
    BY DEF CountedOnce
  <2>1. history[e].channel \in {0, 1} /\ history[e].user \in {0, 1}
    BY DEF PInv, EventsInv, EventInv
  <2> QED BY <2>1
<1> QED BY <1>1, ProcessingInvariant, PTL

(* What a reply says of its account was true after the event was accepted,   *)
(* although Identity is read, changed and answered for in transactions of    *)
(* their own, and other runs move the account in between.                    *)
THEOREM AnswersAreTrue == ProcessingSpec => []AnswerWasTrue
<1>1. PInv => AnswerWasTrue
  BY DEF PInv, EventsInv, TrueAnswer, Held, Gone, AnswerWasTrue
<1> QED BY <1>1, ProcessingInvariant, PTL

(* An account that an event linked is told so, though the run that linked it *)
(* was lost and another found its challenge used, unless it was unlinked     *)
(* since.                                                                    *)
THEOREM LinkingIsAnswered == ProcessingSpec => []LinkEffectAnswered
<1>1. PInv => LinkEffectAnswered
  <2> SUFFICES ASSUME PInv, NEW e \in Events, history[e].linked # NoLink,
                      event[e].status = "processed", reply[e].told # "link_succeeded"
               PROVE  identity[history[e].linked].status = "unlinked"
    BY DEF LinkEffectAnswered
  <2>1. AcceptedInv(e) /\ reply[e].told # "none"
        /\ TrueAnswer(e, reply[e].told, reply[e].actor)
    BY EventFacts
  <2>2. KindFor(e) = "link"
    BY <2>1 DEF AcceptedInv, LinkedInv
  <2> QED BY <2>1, <2>2 DEF TrueAnswer, Gone
<1> QED BY <1>1, ProcessingInvariant, PTL

(* A receipt, which ends the repetition of a job, is only written for an     *)
(* event that is decided, by this run or by another.                         *)
THEOREM ReceiptsAreDecisions == ProcessingSpec => []ReceiptMeansDecided
<1>1. PInv => ReceiptMeansDecided
  BY DEF PInv, ProcessingTypeOK, EventsInv, EventInv, ReceiptMeansDecided
<1> QED BY <1>1, ProcessingInvariant, PTL

(* A decided event and its reply are never touched again: a run that lost    *)
(* its claim is refused, and a claim finds the decision.                     *)
THEOREM DecisionsAreFinal == ProcessingSpec => DecisionIsFinal
<1>1. ASSUME PInv, [ProcessingNext]_vars, NEW x \in Events, Decided(x)
      PROVE  event'[x] = event[x] /\ reply'[x] = reply[x]
  <2>1. event \in [Events -> Event] /\ reply \in [Events -> Reply]
    BY <1>1 DEF PInv, ProcessingTypeOK
  <2>2. CASE UNCHANGED <<event, reply>>
    BY <2>2
  <2>3. ASSUME NEW e \in Events, NEW a, NEW content, AcceptEvent(e, a, content)
        PROVE  event'[x] = event[x] /\ reply'[x] = reply[x]
    BY <1>1, <2>1, <2>3 DEF AcceptEvent, Decided
  <2>4. ASSUME NEW e \in Events, LeaseExpires(e)
        PROVE  event'[x] = event[x] /\ reply'[x] = reply[x]
    BY <1>1, <2>1, <2>4 DEF LeaseExpires, Decided
  <2>5. ASSUME NEW e \in Events, TakesUp(e)
        PROVE  event'[x] = event[x] /\ reply'[x] = reply[x]
    BY <1>1, <2>1, <2>5 DEF TakesUp, ClaimSuppressed, ClaimGranted, Claimable, Decided
  <2>6. ASSUME NEW c \in Consumers, EnforceUserLimit(c) \/ Complete(c) \/ Release(c)
        PROVE  event'[x] = event[x] /\ reply'[x] = reply[x]
    <3>1. event[worker[c].event].status # "processing" => UNCHANGED <<event, reply>>
      BY <2>6 DEF EnforceUserLimit, Complete, Release, Holds
    <3>2. CASE x = worker[c].event
      BY <1>1, <3>1, <3>2 DEF Decided
    <3>3. CASE x # worker[c].event
      BY <2>1, <2>6, <3>3 DEF EnforceUserLimit, Complete, Release
    <3> QED BY <3>2, <3>3
  <2>7. ASSUME NEW c \in Consumers,
               \/ Resolve(c) \/ ConsumeLinkEvent(c) \/ ConsumeUnlinkEvent(c)
               \/ IdentityUnavailable(c) \/ ClaimGone(c) \/ RecordReceipt(c) \/ Fails(c)
        PROVE  UNCHANGED <<event, reply>>
    BY <2>7 DEF Resolve, ConsumeLinkEvent, ConsumeUnlinkEvent, IdentityUnavailable,
                ClaimGone, RecordReceipt, Fails
  <2>8. ASSUME NEW c \in Consumers, NEW e \in Events, ClaimDuplicate(c, e)
        PROVE  UNCHANGED <<event, reply>>
    BY <2>8 DEF ClaimDuplicate
  <2> QED BY <1>1, <2>2, <2>3, <2>4, <2>5, <2>6, <2>7, <2>8
          DEF ProcessingNext, Proceeds, processingVars, vars
<1>2. PInv /\ [ProcessingNext]_vars
      => [\A e \in Events :
            Decided(e) => event'[e] = event[e] /\ reply'[e] = reply[e]]_vars
  BY <1>1
<1> QED BY <1>2, ProcessingInvariant, PTL DEF ProcessingSpec, DecisionIsFinal

(* Event processing inherits what Identity promises: one use of a challenge, *)
(* the history of identities, and the abstract ownership of accounts.        *)
THEOREM ProcessingKeepsIdentity ==
  ProcessingSpec => []OneUse /\ HistoryStays /\ KeepsOwnership
  BY ProcessingIsIdentity, ChallengesHaveOneUse, HistoryIsKept, OwnershipIsKept
===============================================================================
