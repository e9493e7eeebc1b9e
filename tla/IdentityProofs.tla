---------------------------- MODULE IdentityProofs ----------------------------
(***************************************************************************)
(* Proofs about Identity, for any sets of users, accounts and challenges   *)
(* and any number of identities.                                           *)
(*                                                                         *)
(* The inductive invariant adds to the types that rows are inserted in     *)
(* order, that a challenge which moved an identity is spent and names the  *)
(* right user and target, and that no two identities were linked by one    *)
(* challenge or are active for one account.                                *)
(***************************************************************************)
EXTENDS Identity, Integers, FiniteSetTheorems, TLAPS

InOrder(n) == \A i \in Links : identity[i].status # "absent" <=> i <= n

RowsInOrder == \E n \in 0..MaxLinks : InOrder(n)

(* An issued challenge has a user, and its target is a row of that user. *)
ChallengeInv ==
  \A k \in Challenges :
    /\ challenge[k].status # "absent" => challenge[k].user \in Users
    /\ challenge[k].status = "absent" => challenge[k].purpose = "none"
    /\ challenge[k].target # NoLink =>
         /\ challenge[k].target \in Links
         /\ identity[challenge[k].target].status # "absent"
         /\ identity[challenge[k].target].user = challenge[k].user

RowInv ==
  \A i \in Links :
    /\ identity[i].status # "absent" =>
         identity[i].user \in Users /\ identity[i].account \in Accounts
    /\ identity[i].status = "absent" => identity[i].linkedBy = NoChallenge
    /\ identity[i].status # "unlinked" => identity[i].unlinkedBy = NoChallenge

(* What moved a row was its user's challenge, and is spent. *)
MoveInv ==
  \A i \in Links, k \in Challenges :
    /\ identity[i].linkedBy = k =>
         /\ challenge[k].status = "consumed" /\ challenge[k].purpose = "link"
         /\ challenge[k].user = identity[i].user
    /\ identity[i].unlinkedBy = k =>
         /\ challenge[k].status = "consumed" /\ challenge[k].purpose = "unlink"
         /\ challenge[k].user = identity[i].user /\ challenge[k].target = i

Distinct ==
  \A i, j \in Links :
    \/ i = j
    \/ /\ identity[i].linkedBy # NoChallenge => identity[i].linkedBy # identity[j].linkedBy
       /\ identity[i].status = "active" /\ identity[j].status = "active" =>
            identity[i].account # identity[j].account

IInv ==
  IdentityTypeOK /\ RowsInOrder /\ ChallengeInv /\ RowInv /\ MoveInv /\ Distinct

-----------------------------------------------------------------------------
(* The number of rows is the number of the newest one. *)
LEMMA RowsCount ==
  ASSUME NEW n \in 0..MaxLinks, InOrder(n)
  PROVE  Rows = n
<1>1. {i \in Links : identity[i].status # "absent"} = 1..n
  BY IdentityAssumption DEF InOrder, Links
<1>2. Cardinality(1..n) = n
  BY FS_Interval
<1> QED BY <1>1, <1>2 DEF Rows

(* The steps of Identity, by what they do to the rows. *)
Issued(k, u, purpose, i) ==
  /\ u \in Users
  /\ \/ purpose = "link" /\ i = NoLink
     \/ /\ purpose = "unlink" /\ i \in Links
        /\ identity[i].status = "active" /\ identity[i].user = u
  /\ Issue(k, u, purpose, i)

Spent(k) == challenge[k].status = "open" /\ Consumed(k) /\ UNCHANGED identity

Gained(k, a, i) ==
  /\ i \in Links /\ identity[i].status = "absent" /\ InOrder(i - 1)
  /\ Usable(k, "link") /\ Consumed(k) /\ ActiveLinks(a) = {}
  /\ identity' = [identity EXCEPT ![i] =
       [status |-> "active", user |-> challenge[k].user, account |-> a,
        linkedBy |-> k, unlinkedBy |-> NoChallenge]]

Lost(k, a, i) ==
  /\ i \in Links /\ i = challenge[k].target
  /\ identity[i].status = "active" /\ identity[i].account = a
  /\ Usable(k, "unlink") /\ Consumed(k)
  /\ identity' = [identity EXCEPT ![i].status = "unlinked", ![i].unlinkedBy = k]

Moves ==
  \E k \in Challenges :
    \/ Spent(k) \/ ChallengeExpires(k)
    \/ \E u \in Users, purpose \in {"link", "unlink"}, i \in Links \cup {NoLink} :
         Issued(k, u, purpose, i)
    \/ \E a \in Accounts, i \in Links : Gained(k, a, i) \/ Lost(k, a, i)

(* Every step of the component is one of these. *)
LEMMA Classified ==
  ASSUME IInv, [IdentityNext]_identityVars
  PROVE  Moves \/ UNCHANGED identityVars
<1> SUFFICES ASSUME IdentityNext PROVE Moves \/ UNCHANGED identityVars
  OBVIOUS
<1>1. ASSUME NEW k \in Challenges, NEW purpose, NEW answer,
             ConsumeRefused(k, purpose, answer)
      PROVE  Moves \/ UNCHANGED identityVars
  <2>1. CASE Spent(k)
    BY <2>1 DEF Moves
  <2>2. CASE UNCHANGED identityVars
    BY <2>2
  <2> QED BY <1>1, <2>1, <2>2 DEF ConsumeRefused, Spent, identityVars
<1>2. CASE Surface
  <2>1. PICK k \in Challenges :
          \/ ChallengeExpires(k)
          \/ \E u \in Users : \/ CreateLinkChallenge(k, u)
                              \/ \E i \in Links : CreateUnlinkChallenge(k, u, i)
    BY <1>2 DEF Surface
  <2>2. CASE ChallengeExpires(k)
    BY <2>2 DEF Moves
  <2>3. ASSUME NEW u \in Users, CreateLinkChallenge(k, u)
        PROVE  Moves
    <3>1. Issued(k, u, "link", NoLink)
      BY <2>3 DEF CreateLinkChallenge, Issued
    <3> QED BY <3>1 DEF Moves
  <2>4. ASSUME NEW u \in Users, NEW i \in Links, CreateUnlinkChallenge(k, u, i)
        PROVE  Moves
    <3>1. Issued(k, u, "unlink", i)
      BY <2>4 DEF CreateUnlinkChallenge, Issued
    <3> QED BY <3>1 DEF Moves
  <2> QED BY <2>1, <2>2, <2>3, <2>4
<1>3. ASSUME NEW k \in Challenges, NEW a \in Accounts, NEW answer,
             ConsumeLinkChallenge(k, a, answer)
      PROVE  Moves \/ UNCHANGED identityVars
  <2>1. CASE ConsumeRefused(k, "link", answer)
    BY <1>1, <2>1
  <2>2. CASE Spent(k)
    BY <2>2 DEF Moves
  <2>3. CASE /\ Usable(k, "link") /\ Consumed(k)
             /\ ActiveLinks(a) = {} /\ Rows < MaxLinks
             /\ identity' = [identity EXCEPT ![Rows + 1] =
                  [status |-> "active", user |-> challenge[k].user,
                   account |-> a, linkedBy |-> k, unlinkedBy |-> NoChallenge]]
    <3>1. PICK n \in 0..MaxLinks : InOrder(n)
      BY DEF IInv, RowsInOrder
    <3>2. Rows = n
      BY <3>1, RowsCount
    <3>3. n + 1 \in Links /\ (n + 1) - 1 = n
      BY <2>3, <3>2, IdentityAssumption DEF Links
    <3>4. identity[n + 1].status = "absent"
      BY <3>1, <3>3 DEF InOrder, Links
    <3>5. Gained(k, a, n + 1)
      BY <2>3, <3>1, <3>2, <3>3, <3>4 DEF Gained
    <3> QED BY <3>3, <3>5 DEF Moves
  <2> QED BY <1>3, <2>1, <2>2, <2>3 DEF ConsumeLinkChallenge, Spent, Usable
<1>4. ASSUME NEW k \in Challenges, NEW a \in Accounts, NEW answer,
             ConsumeUnlinkChallenge(k, a, answer)
      PROVE  Moves \/ UNCHANGED identityVars
  <2>1. CASE ConsumeRefused(k, "unlink", answer)
    BY <1>1, <2>1
  <2>2. CASE Spent(k)
    BY <2>2 DEF Moves
  <2>3. CASE UNCHANGED identityVars
    BY <2>3
  <2>4. CASE /\ Usable(k, "unlink") /\ Consumed(k)
             /\ identity[challenge[k].target].status = "active"
             /\ identity[challenge[k].target].account = a
             /\ identity' = [identity EXCEPT ![challenge[k].target].status = "unlinked",
                                             ![challenge[k].target].unlinkedBy = k]
    <3>1. challenge[k].target \in Links
      BY <2>4 DEF IInv, IdentityTypeOK, ChallengeInv, Usable, Presented
    <3>2. Lost(k, a, challenge[k].target)
      BY <2>4, <3>1 DEF Lost
    <3> QED BY <3>1, <3>2 DEF Moves
  <2> QED BY <1>4, <2>1, <2>2, <2>3, <2>4 DEF ConsumeUnlinkChallenge, Spent, Usable, identityVars
<1> QED BY <1>2, <1>3, <1>4 DEF IdentityNext

-----------------------------------------------------------------------------
Challenge ==
  [status : {"absent", "open", "consumed"}, purpose : {"none", "link", "unlink"},
   user : Users \cup {NoUser}, target : Links \cup {NoLink}, expired : BOOLEAN]

Row ==
  [status : {"absent", "active", "unlinked"},
   user : Users \cup {NoUser}, account : Accounts \cup {NoAccount},
   linkedBy : Challenges \cup {NoChallenge},
   unlinkedBy : Challenges \cup {NoChallenge}]

LEMMA InitHolds ==
  ASSUME IdentityInit
  PROVE  IInv
<1> USE IdentityAssumption DEF IdentityInit, AbsentIdentity, AbsentChallenge, Links, NoLink
<1>1. IdentityTypeOK
  BY DEF IdentityTypeOK
<1>2. RowsInOrder
  <2>1. 0 \in 0..MaxLinks /\ InOrder(0)
    BY DEF InOrder
  <2> QED BY <2>1 DEF RowsInOrder
<1>3. ChallengeInv /\ RowInv /\ MoveInv /\ Distinct
  BY DEF ChallengeInv, RowInv, MoveInv, Distinct
<1> QED BY <1>1, <1>2, <1>3 DEF IInv

(* A step that leaves the rows alone and changes one challenge only. *)
LEMMA ChallengeStep ==
  ASSUME IInv, NEW k \in Challenges, NEW c \in Challenge,
         challenge' = [challenge EXCEPT ![k] = c], UNCHANGED identity,
         c.purpose = "unlink" <=> c.target # NoLink,
         c.status # "absent" /\ c.user \in Users,
         c.target # NoLink =>
           identity[c.target].status # "absent" /\ identity[c.target].user = c.user,
         challenge[k].status = "consumed" => c = challenge[k]
  PROVE  IInv'
<1>1. IdentityTypeOK'
  BY DEF IInv, IdentityTypeOK, Challenge
<1>2. RowsInOrder' /\ RowInv' /\ Distinct'
  BY DEF IInv, RowsInOrder, InOrder, RowInv, Distinct
<1>3. \A l \in Challenges : challenge'[l] = IF l = k THEN c ELSE challenge[l]
  BY DEF IInv, IdentityTypeOK
<1>4. ChallengeInv'
  BY <1>3 DEF IInv, ChallengeInv, Challenge
<1>5. MoveInv'
  BY <1>3 DEF IInv, MoveInv
<1> QED BY <1>1, <1>2, <1>4, <1>5 DEF IInv

LEMMA IssuedStep ==
  ASSUME IInv, NEW k \in Challenges, NEW u, NEW purpose, NEW i, Issued(k, u, purpose, i)
  PROVE  IInv'
<1> DEFINE c == [status |-> "open", purpose |-> purpose, user |-> u, target |-> i,
                 expired |-> FALSE]
<1>1. c \in Challenge /\ (purpose = "unlink" <=> i # NoLink)
  BY IdentityAssumption DEF Issued, Challenge, Links, NoLink
<1>2. i # NoLink => identity[i].status # "absent" /\ identity[i].user = u
  BY DEF Issued
<1>3. /\ challenge' = [challenge EXCEPT ![k] = c] /\ UNCHANGED identity
      /\ challenge[k].status = "absent" /\ u \in Users
  BY DEF Issued, Issue
<1> QED BY <1>1, <1>2, <1>3, ChallengeStep

LEMMA ExpiresStep ==
  ASSUME IInv, NEW k \in Challenges, ChallengeExpires(k)
  PROVE  IInv'
<1> DEFINE c == [challenge[k] EXCEPT !.expired = TRUE]
<1>1. challenge[k] \in Challenge
      /\ (challenge[k].purpose = "unlink" <=> challenge[k].target # NoLink)
  BY DEF IInv, IdentityTypeOK, Challenge
<1>2. /\ c \in Challenge /\ c.status = challenge[k].status
      /\ c.purpose = challenge[k].purpose
      /\ c.user = challenge[k].user /\ c.target = challenge[k].target
  BY <1>1 DEF Challenge
<1>3. /\ challenge' = [challenge EXCEPT ![k] = c] /\ UNCHANGED identity
      /\ challenge[k].status = "open"
  BY <1>1 DEF ChallengeExpires, Challenge
<1>4. /\ challenge[k].user \in Users
      /\ challenge[k].target # NoLink =>
           /\ identity[challenge[k].target].status # "absent"
           /\ identity[challenge[k].target].user = challenge[k].user
  BY <1>3 DEF IInv, ChallengeInv
<1> QED BY <1>1, <1>2, <1>3, <1>4, ChallengeStep

(* What the consumption of k leaves of the challenges. *)
LEMMA ConsumedFields ==
  ASSUME IInv, NEW k \in Challenges, Consumed(k)
  PROVE  /\ challenge' \in [Challenges -> Challenge]
         /\ \A l \in Challenges :
              /\ challenge'[l].status = IF l = k THEN "consumed" ELSE challenge[l].status
              /\ challenge'[l].purpose = challenge[l].purpose
              /\ challenge'[l].user = challenge[l].user
              /\ challenge'[l].target = challenge[l].target
<1>1. challenge \in [Challenges -> Challenge]
  BY DEF IInv, IdentityTypeOK, Challenge
<1> QED BY <1>1 DEF Consumed, Challenge

LEMMA SpentStep ==
  ASSUME IInv, NEW k \in Challenges, Spent(k)
  PROVE  IInv'
<1> USE DEF Spent
<1>1. /\ challenge' \in [Challenges -> Challenge]
      /\ \A l \in Challenges :
           /\ challenge'[l].status = IF l = k THEN "consumed" ELSE challenge[l].status
           /\ challenge'[l].purpose = challenge[l].purpose
           /\ challenge'[l].user = challenge[l].user
           /\ challenge'[l].target = challenge[l].target
  BY ConsumedFields
<1>2. IdentityTypeOK'
  BY <1>1 DEF IInv, IdentityTypeOK, Challenge
<1>3. RowsInOrder' /\ RowInv' /\ Distinct'
  BY DEF IInv, RowsInOrder, InOrder, RowInv, Distinct
<1>4. ChallengeInv' /\ MoveInv'
  BY <1>1 DEF IInv, ChallengeInv, MoveInv
<1> QED BY <1>2, <1>3, <1>4 DEF IInv

LEMMA GainedStep ==
  ASSUME IInv, NEW k \in Challenges, NEW a \in Accounts, NEW i, Gained(k, a, i)
  PROVE  IInv'
<1> DEFINE r == [status |-> "active", user |-> challenge[k].user, account |-> a,
                 linkedBy |-> k, unlinkedBy |-> NoChallenge]
<1>1. /\ challenge' \in [Challenges -> Challenge]
      /\ \A l \in Challenges :
           /\ challenge'[l].status = IF l = k THEN "consumed" ELSE challenge[l].status
           /\ challenge'[l].purpose = challenge[l].purpose
           /\ challenge'[l].user = challenge[l].user
           /\ challenge'[l].target = challenge[l].target
  BY ConsumedFields DEF Gained
<1>2. /\ challenge[k].status = "open" /\ challenge[k].purpose = "link"
      /\ challenge[k].user \in Users
  BY DEF Gained, Usable, Presented, IInv, ChallengeInv
<1>3. r \in Row /\ r.status = "active" /\ r.user = challenge[k].user /\ r.account = a
      /\ r.linkedBy = k /\ r.unlinkedBy = NoChallenge
  BY <1>2 DEF Row
<1>4. /\ i \in Links /\ identity[i].status = "absent"
      /\ identity' \in [Links -> Row]
      /\ \A j \in Links : identity'[j] = IF j = i THEN r ELSE identity[j]
  <2>1. identity \in [Links -> Row] /\ identity' = [identity EXCEPT ![i] = r] /\ i \in Links
    BY DEF IInv, IdentityTypeOK, Row, Gained
  <2> QED BY <2>1, <1>3 DEF Gained
<1> HIDE DEF r
<1>5. IdentityTypeOK'
  BY <1>1, <1>4 DEF IInv, IdentityTypeOK, Challenge, Row
<1>6. RowsInOrder'
  <2>1. i \in 0..MaxLinks
    BY <1>4, IdentityAssumption DEF Links
  <2>2. \A j \in Links : identity'[j].status # "absent" <=> j <= i
    BY <1>3, <1>4, IdentityAssumption DEF Gained, InOrder, Links
  <2> QED BY <2>1, <2>2 DEF RowsInOrder, InOrder
<1>7. ChallengeInv'
  BY <1>1, <1>2, <1>4 DEF IInv, ChallengeInv
<1>8. RowInv'
  BY <1>2, <1>3, <1>4 DEF IInv, RowInv
<1>9. MoveInv'
  BY <1>1, <1>2, <1>3, <1>4, IdentityAssumption DEF IInv, MoveInv
<1>10. Distinct'
  <2>1. \A j \in Links : identity[j].linkedBy # k
    BY <1>2 DEF IInv, MoveInv
  <2>2. \A j \in Links : identity[j].status = "active" => identity[j].account # a
    BY DEF Gained, ActiveLinks
  <2> QED BY <1>3, <1>4, <2>1, <2>2 DEF IInv, Distinct
<1> QED BY <1>5, <1>6, <1>7, <1>8, <1>9, <1>10 DEF IInv

(* What an unlinking does to the rows. *)
LEMMA LostRows ==
  ASSUME IInv, NEW k \in Challenges, NEW a, NEW i, Lost(k, a, i)
  PROVE  /\ i \in Links /\ identity[i].status = "active"
         /\ identity' \in [Links -> Row]
         /\ \A j \in Links : j # i => identity'[j] = identity[j]
         /\ identity'[i].status = "unlinked" /\ identity'[i].unlinkedBy = k
         /\ identity'[i].user = identity[i].user
         /\ identity'[i].account = identity[i].account
         /\ identity'[i].linkedBy = identity[i].linkedBy
<1> DEFINE r == [identity[i] EXCEPT !.status = "unlinked", !.unlinkedBy = k]
<1>1. identity \in [Links -> Row] /\ i \in Links /\ identity[i].status = "active"
  BY DEF IInv, IdentityTypeOK, Row, Lost
<1>2. identity[i] \in Row
  BY <1>1
<1>3. /\ r \in Row /\ r.status = "unlinked" /\ r.unlinkedBy = k
      /\ r.user = identity[i].user /\ r.account = identity[i].account
      /\ r.linkedBy = identity[i].linkedBy
  BY <1>2 DEF Row
<1>4. identity' = [identity EXCEPT ![i] = r]
  BY <1>1 DEF Lost, Row
<1> HIDE DEF r
<1> QED BY <1>1, <1>3, <1>4

LEMMA LostStep ==
  ASSUME IInv, NEW k \in Challenges, NEW a, NEW i, Lost(k, a, i)
  PROVE  IInv'
<1>1. /\ challenge' \in [Challenges -> Challenge]
      /\ \A l \in Challenges :
           /\ challenge'[l].status = IF l = k THEN "consumed" ELSE challenge[l].status
           /\ challenge'[l].purpose = challenge[l].purpose
           /\ challenge'[l].user = challenge[l].user
           /\ challenge'[l].target = challenge[l].target
  BY ConsumedFields DEF Lost
<1>2. /\ challenge[k].purpose = "unlink" /\ challenge[k].target = i
      /\ challenge[k].status = "open" /\ i \in Links /\ i # NoLink
      /\ identity[i].status = "active" /\ identity[i].user = challenge[k].user
  BY IdentityAssumption DEF Lost, Usable, Presented, IInv, ChallengeInv, IdentityTypeOK
<1>3. /\ identity' \in [Links -> Row]
      /\ \A j \in Links : j # i => identity'[j] = identity[j]
      /\ identity'[i].status = "unlinked" /\ identity'[i].unlinkedBy = k
      /\ identity'[i].user = identity[i].user
      /\ identity'[i].account = identity[i].account
      /\ identity'[i].linkedBy = identity[i].linkedBy
  BY LostRows
<1>4. IdentityTypeOK'
  BY <1>1, <1>3 DEF IInv, IdentityTypeOK, Challenge, Row
<1>5. RowsInOrder'
  BY <1>2, <1>3 DEF IInv, RowsInOrder, InOrder
<1>6. ChallengeInv'
  BY <1>1, <1>2, <1>3 DEF IInv, ChallengeInv
<1>7. RowInv'
  BY <1>2, <1>3 DEF IInv, RowInv
<1>8. MoveInv'
  BY <1>1, <1>2, <1>3 DEF IInv, MoveInv
<1>9. Distinct'
  BY <1>2, <1>3 DEF IInv, Distinct
<1> QED BY <1>4, <1>5, <1>6, <1>7, <1>8, <1>9 DEF IInv

-----------------------------------------------------------------------------
LEMMA StepKeepsIInv ==
  ASSUME IInv, [IdentityNext]_identityVars
  PROVE  IInv'
<1>1. CASE Moves
  BY <1>1, IssuedStep, ExpiresStep, SpentStep, GainedStep, LostStep DEF Moves
<1>2. CASE UNCHANGED identityVars
  BY <1>2 DEF identityVars, IInv, IdentityTypeOK, RowsInOrder, InOrder,
              ChallengeInv, RowInv, MoveInv, Distinct
<1> QED BY <1>1, <1>2, Classified

(* The invariant that the other theorems rest on. *)
THEOREM InductiveInvariant == IdentitySpec => []IInv
<1>1. IdentityInit => IInv
  BY InitHolds
<1>2. IInv /\ [IdentityNext]_identityVars => IInv'
  BY StepKeepsIInv
<1> QED BY <1>1, <1>2, PTL DEF IdentitySpec

(* Types, and the table's check that exactly unlink challenges have a target *)
(* (channel_link_challenges in 0007-identity-foundation.ts).                 *)
THEOREM TypeCorrect == IdentitySpec => []IdentityTypeOK
<1>1. IInv => IdentityTypeOK
  BY DEF IInv
<1> QED BY <1>1, InductiveInvariant, PTL

(* Whatever the number of challenges, tokens presented again or from the     *)
(* wrong account: one challenge moves one identity, once, and only its       *)
(* user's (consumeTelegramLinkChallenge, consumeTelegramUnlinkChallenge).    *)
THEOREM ChallengesHaveOneUse == IdentitySpec => []OneUse
<1>1. IInv => OneUse
  <2> SUFFICES ASSUME IInv, NEW k \in Challenges
      PROVE /\ Cardinality(MovedBy(k)) <= 1
            /\ MovedBy(k) # {} => challenge[k].status = "consumed"
            /\ \A i \in MovedBy(k) :
                 /\ identity[i].user = challenge[k].user
                 /\ identity[i].unlinkedBy = k => challenge[k].target = i
    BY DEF OneUse
  <2>1. \A i \in MovedBy(k) :
          /\ i \in Links /\ challenge[k].status = "consumed"
          /\ identity[i].user = challenge[k].user
          /\ identity[i].unlinkedBy = k => challenge[k].target = i
    BY DEF IInv, MoveInv, MovedBy
  <2>2. \A i, j \in MovedBy(k) : i = j
    BY IdentityAssumption DEF IInv, MoveInv, Distinct, MovedBy
  <2>3. Cardinality(MovedBy(k)) <= 1
    <3>1. CASE MovedBy(k) = {}
      BY <3>1, FS_EmptySet
    <3>2. ASSUME NEW i \in MovedBy(k)
          PROVE  Cardinality(MovedBy(k)) <= 1
      <4>1. MovedBy(k) = {i}
        BY <2>2
      <4> QED BY <4>1, FS_Singleton
    <3> QED BY <3>1, <3>2
  <2> QED BY <2>1, <2>3
<1> QED BY <1>1, InductiveInvariant, PTL

(* The record of an identity is history: no step changes who linked it to    *)
(* whom, or touches an unlinked one.                                         *)
THEOREM HistoryIsKept == IdentitySpec => HistoryStays
<1> DEFINE Kept(i) ==
      identity[i].status # "absent" =>
        /\ identity'[i].user = identity[i].user
        /\ identity'[i].account = identity[i].account
        /\ identity[i].status = "unlinked" => identity'[i] = identity[i]
<1>1. ASSUME IInv, [IdentityNext]_identityVars, NEW i \in Links
      PROVE  Kept(i)
  <2>1. ASSUME NEW k \in Challenges, NEW a \in Accounts, NEW j, Lost(k, a, j)
        PROVE  Kept(i)
    BY <1>1, <2>1, LostRows
  <2>2. ASSUME NEW k \in Challenges, NEW a \in Accounts, NEW j, Gained(k, a, j)
        PROVE  Kept(i)
    BY <1>1, <2>2 DEF IInv, IdentityTypeOK, Gained
  <2>3. CASE UNCHANGED identity
    BY <2>3
  <2> QED BY <1>1, <2>1, <2>2, <2>3, Classified
          DEF Moves, Spent, ChallengeExpires, Issued, Issue, identityVars
<1>2. IInv /\ [IdentityNext]_identityVars =>
        [\A i \in Links : Kept(i)]_identityVars
  BY <1>1
<1> HIDE DEF Kept
<1>3. IdentitySpec => [][\A i \in Links : Kept(i)]_identityVars
  BY <1>2, InductiveInvariant, PTL DEF IdentitySpec
<1> QED BY <1>3 DEF HistoryStays, Kept

-----------------------------------------------------------------------------
(* Whose an account is, by the rows active for it. *)
LEMMA OwnerOf ==
  ASSUME NEW a \in Accounts, NEW i \in Links, ActiveLinks(a) = {i}
  PROVE  Owner(a) = identity[i].user
<1>1. Resolved(a) = i
  BY DEF Resolved
<1> QED BY <1>1 DEF Owner

LEMMA OwnerAfter ==
  ASSUME NEW a \in Accounts, NEW i \in Links, ActiveLinks(a)' = {i}
  PROVE  Owner(a)' = identity'[i].user
<1>1. Resolved(a)' = i
  BY DEF Resolved
<1> QED BY <1>1 DEF Owner

(* An account whose active rows a step leaves alone keeps its owner. *)
LEMMA OwnerStays ==
  ASSUME IInv, NEW a \in Accounts, ActiveLinks(a)' = ActiveLinks(a),
         \A i \in ActiveLinks(a) : identity'[i].user = identity[i].user
  PROVE  Owner(a)' = Owner(a)
<1>1. CASE ActiveLinks(a) = {}
  BY <1>1 DEF Owner
<1>2. ASSUME NEW i \in ActiveLinks(a)
      PROVE  Owner(a)' = Owner(a)
  <2>1. i \in Links /\ ActiveLinks(a) = {i}
    BY <1>2 DEF IInv, Distinct, ActiveLinks
  <2>2. ActiveLinks(a)' = {i}
    BY <2>1
  <2>3. Owner(a) = identity[i].user /\ Owner(a)' = identity'[i].user
    BY <2>1, <2>2, OwnerOf, OwnerAfter
  <2> QED BY <1>2, <2>3
<1> QED BY <1>1, <1>2

LEMMA GainedOwner ==
  ASSUME IInv, NEW k \in Challenges, NEW a \in Accounts, NEW i, Gained(k, a, i)
  PROVE  /\ Owner(a) = NoUser /\ Owner(a)' = challenge[k].user /\ challenge[k].user \in Users
         /\ \A b \in Accounts : b # a => Owner(b)' = Owner(b)
<1>1. /\ i \in Links /\ identity[i].status = "absent" /\ ActiveLinks(a) = {}
      /\ identity'[i].status = "active" /\ identity'[i].account = a
      /\ identity'[i].user = challenge[k].user
      /\ \A j \in Links : j # i => identity'[j] = identity[j]
  BY DEF IInv, IdentityTypeOK, Gained
<1>2. Owner(a) = NoUser /\ challenge[k].user \in Users
  BY <1>1 DEF Owner, Gained, Usable, Presented, IInv, ChallengeInv
<1>3. ActiveLinks(a)' = {i}
  BY <1>1 DEF ActiveLinks
<1>4. Owner(a)' = challenge[k].user
  BY <1>1, <1>3, OwnerAfter
<1>5. ASSUME NEW b \in Accounts, b # a
      PROVE  Owner(b)' = Owner(b)
  <2>1. ActiveLinks(b)' = ActiveLinks(b) /\ i \notin ActiveLinks(b)
    BY <1>1, <1>5 DEF ActiveLinks
  <2>2. \A j \in ActiveLinks(b) : identity'[j].user = identity[j].user
    BY <1>1, <2>1 DEF ActiveLinks
  <2> QED BY <2>1, <2>2, OwnerStays
<1> QED BY <1>2, <1>4, <1>5

LEMMA LostOwner ==
  ASSUME IInv, NEW k \in Challenges, NEW a \in Accounts, NEW i, Lost(k, a, i)
  PROVE  /\ Owner(a) # NoUser /\ Owner(a)' = NoUser
         /\ \A b \in Accounts : b # a => Owner(b)' = Owner(b)
<1>1. /\ i \in Links /\ identity[i].status = "active" /\ identity[i].account = a
      /\ identity'[i].status = "unlinked" /\ identity'[i].account = a
      /\ \A j \in Links : j # i => identity'[j] = identity[j]
  <2>1. identity[i].account = a
    BY DEF Lost
  <2> QED BY <2>1, LostRows
<1>2. ActiveLinks(a) = {i}
  BY <1>1 DEF IInv, Distinct, ActiveLinks
<1>3. Owner(a) # NoUser
  <2>1. Owner(a) = identity[i].user
    BY <1>1, <1>2, OwnerOf
  <2> QED BY <1>1, <2>1, IdentityAssumption DEF IInv, RowInv
<1>4. ActiveLinks(a)' = {}
  BY <1>1, <1>2 DEF ActiveLinks
<1>5. Owner(a)' = NoUser
  BY <1>4 DEF Owner
<1>6. ASSUME NEW b \in Accounts, b # a
      PROVE  Owner(b)' = Owner(b)
  <2>1. ActiveLinks(b)' = ActiveLinks(b) /\ i \notin ActiveLinks(b)
    BY <1>1, <1>6 DEF ActiveLinks
  <2>2. \A j \in ActiveLinks(b) : identity'[j].user = identity[j].user
    BY <1>1, <2>1 DEF ActiveLinks
  <2> QED BY <2>1, <2>2, OwnerStays
<1> QED BY <1>3, <1>5, <1>6

Owners == [a \in Accounts |-> Owner(a)]

(* Identity implements Ownership: an account acts for one user, and passes   *)
(* to another only by way of nobody (channel_identities_active_external_     *)
(* unique and the inserts and updates under it).                             *)
THEOREM OwnershipIsKept == IdentitySpec => KeepsOwnership
<1>1. IdentityInit => Owned!OwnershipInit
  <2> SUFFICES ASSUME IdentityInit
               PROVE  \A a \in Accounts : Owner(a) = NoUser
    BY DEF Owned!OwnershipInit
  <2>1. \A a \in Accounts : ActiveLinks(a) = {}
    BY DEF IdentityInit, AbsentIdentity, ActiveLinks
  <2> QED BY <2>1 DEF Owner
<1>2. ASSUME IInv, [IdentityNext]_identityVars
      PROVE  [Owned!OwnershipNext]_Owners
  <2>1. ASSUME NEW k \in Challenges, NEW a \in Accounts, NEW i, Gained(k, a, i)
        PROVE  Owned!OwnershipNext
    <3>1. /\ Owner(a) = NoUser /\ Owner(a)' = challenge[k].user /\ challenge[k].user \in Users
          /\ \A b \in Accounts : b # a => Owner(b)' = Owner(b)
      BY <1>2, <2>1, GainedOwner
    <3>2. Owners' = [Owners EXCEPT ![a] = challenge[k].user]
      BY <3>1 DEF Owners
    <3>3. Owned!Link(a, challenge[k].user)
      BY <3>1, <3>2 DEF Owned!Link, Owners
    <3> QED BY <3>1, <3>3 DEF Owned!OwnershipNext
  <2>2. ASSUME NEW k \in Challenges, NEW a \in Accounts, NEW i, Lost(k, a, i)
        PROVE  Owned!OwnershipNext
    <3>1. /\ Owner(a) # NoUser /\ Owner(a)' = NoUser
          /\ \A b \in Accounts : b # a => Owner(b)' = Owner(b)
      BY <1>2, <2>2, LostOwner
    <3>2. Owners' = [Owners EXCEPT ![a] = NoUser]
      BY <3>1 DEF Owners
    <3>3. Owned!Unlink(a)
      BY <3>1, <3>2 DEF Owned!Unlink, Owners
    <3> QED BY <3>3 DEF Owned!OwnershipNext
  <2>3. ASSUME UNCHANGED identity
        PROVE  Owners' = Owners
    BY <2>3 DEF Owners, Owner, Resolved, ActiveLinks
  <2> QED BY <1>2, <2>1, <2>2, <2>3, Classified
          DEF Moves, Spent, ChallengeExpires, Issued, Issue, identityVars
<1> QED BY <1>1, <1>2, InductiveInvariant, PTL
       DEF IdentitySpec, KeepsOwnership, Owned!OwnershipSpec, Owners
===============================================================================
