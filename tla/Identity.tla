------------------------------- MODULE Identity -------------------------------
(***************************************************************************)
(* Telegram identities and the one-use challenges that link and unlink     *)
(* them: packages/adapters/src/postgres/identity-store.ts with             *)
(* packages/domain/src/identity/identity.ts.                               *)
(*                                                                         *)
(* Each operation is one transaction under the locks of the rows it        *)
(* decides about.  Identities are kept for ever and numbered in the order  *)
(* of their insertion.  The hourly issuance limit is left open: an         *)
(* issuance may or may not happen.                                         *)
(***************************************************************************)
EXTENDS Naturals, FiniteSets

CONSTANTS
  Users, NoUser,
  Accounts, NoAccount,       \* Telegram accounts
  Challenges, NoChallenge,   \* one-use tokens
  MaxLinks                   \* bound: identities ever linked

ASSUME IdentityAssumption ==
  /\ MaxLinks \in Nat
  /\ NoUser \notin Users
  /\ NoAccount \notin Accounts
  /\ NoChallenge \notin Challenges

VARIABLES
  identity,    \* channel_identities, with the challenges that moved each row
  challenge    \* channel_link_challenges

identityVars == <<identity, challenge>>

Links == 1..MaxLinks
NoLink == 0

AbsentIdentity == [status |-> "absent", user |-> NoUser, account |-> NoAccount,
                   linkedBy |-> NoChallenge, unlinkedBy |-> NoChallenge]
AbsentChallenge == [status |-> "absent", purpose |-> "none", user |-> NoUser,
                    target |-> NoLink, expired |-> FALSE]

(* Types, with the table's check that exactly unlink challenges have a target. *)
IdentityTypeOK ==
  /\ identity \in [Links ->
       [status : {"absent", "active", "unlinked"},
        user : Users \cup {NoUser}, account : Accounts \cup {NoAccount},
        linkedBy : Challenges \cup {NoChallenge},
        unlinkedBy : Challenges \cup {NoChallenge}]]
  /\ challenge \in [Challenges ->
       [status : {"absent", "open", "consumed"},
        purpose : {"none", "link", "unlink"}, user : Users \cup {NoUser},
        target : Links \cup {NoLink}, expired : BOOLEAN]]
  /\ \A k \in Challenges :
       challenge[k].purpose = "unlink" <=> challenge[k].target # NoLink

IdentityInit ==
  /\ identity = [i \in Links |-> AbsentIdentity]
  /\ challenge = [k \in Challenges |-> AbsentChallenge]

-----------------------------------------------------------------------------
ActiveLinks(a) ==
  {i \in Links : identity[i].status = "active" /\ identity[i].account = a}

(* resolveTelegramActor: the active identity of account a. *)
Resolved(a) == IF ActiveLinks(a) = {} THEN NoLink
                                      ELSE CHOOSE i \in ActiveLinks(a) : TRUE

Rows == Cardinality({i \in Links : identity[i].status # "absent"})

Issue(k, u, purpose, i) ==
  /\ challenge[k].status = "absent"
  /\ challenge' = [challenge EXCEPT ![k] =
       [status |-> "open", purpose |-> purpose, user |-> u, target |-> i,
        expired |-> FALSE]]
  /\ UNCHANGED identity

CreateLinkChallenge(k, u) == Issue(k, u, "link", NoLink)

CreateUnlinkUntargeted(k, u, i) ==      \* mutant: forgets the target
  /\ identity[i].status = "active" /\ identity[i].user = u
  /\ Issue(k, u, "unlink", NoLink)

(* Only the owner of an active identity may ask to unlink it. *)
CreateUnlinkChallenge(k, u, i) ==
  /\ identity[i].status = "active" /\ identity[i].user = u
  /\ Issue(k, u, "unlink", i)

(* From now on a Worker's clock may be past the challenge's expiry. *)
ChallengeExpires(k) ==
  /\ challenge[k].status = "open" /\ ~challenge[k].expired
  /\ challenge' = [challenge EXCEPT ![k].expired = TRUE]
  /\ UNCHANGED identity

-----------------------------------------------------------------------------
(* Presenting challenge k from account a, with the store's answer. *)
Presented(k, purpose) ==
  challenge[k].status # "absent" /\ challenge[k].purpose = purpose

Consumed(k) == challenge' = [challenge EXCEPT ![k].status = "consumed"]

(* Presentations that decide nothing about an identity. *)
ConsumeRefused(k, purpose, answer) ==
  /\ UNCHANGED identity
  /\ \/ ~Presented(k, purpose) /\ answer = "not_found" /\ UNCHANGED challenge
     \/ /\ Presented(k, purpose) /\ challenge[k].status = "consumed"
        /\ answer = "already_used" /\ UNCHANGED challenge
     \/ /\ Presented(k, purpose) /\ challenge[k].status = "open"
        /\ challenge[k].expired /\ answer = "expired" /\ Consumed(k)

UsableAlways(k, purpose) ==             \* mutant: forgets the consumption
  Presented(k, purpose)

Usable(k, purpose) == Presented(k, purpose) /\ challenge[k].status = "open"

ConsumeLinkReassigning(k, a, answer) == \* mutant: takes the account over
  \/ ConsumeRefused(k, "link", answer)
  \/ /\ Usable(k, "link") /\ Consumed(k)
     /\ answer = "linked" /\ Rows < MaxLinks
     /\ identity' = [identity EXCEPT ![Rows + 1] =
          [status |-> "active", user |-> challenge[k].user, account |-> a,
           linkedBy |-> k, unlinkedBy |-> NoChallenge]]

(* The insertion does nothing when the account already has an active         *)
(* identity, whoever owns it; the challenge is spent all the same.           *)
ConsumeLinkChallenge(k, a, answer) ==
  \/ ConsumeRefused(k, "link", answer)
  \/ /\ Usable(k, "link") /\ Consumed(k)
     /\ \/ /\ ActiveLinks(a) # {} /\ answer = "already_linked"
           /\ UNCHANGED identity
        \/ /\ ActiveLinks(a) = {} /\ answer = "linked" /\ Rows < MaxLinks
           /\ identity' = [identity EXCEPT ![Rows + 1] =
                [status |-> "active", user |-> challenge[k].user,
                 account |-> a, linkedBy |-> k, unlinkedBy |-> NoChallenge]]

ConsumeUnlinkDeleting(k, a, answer) ==  \* mutant: deletes the identity's row
  LET i == challenge[k].target IN
    \/ ConsumeRefused(k, "unlink", answer)
    \/ /\ Usable(k, "unlink") /\ identity[i].status = "active"
       /\ identity[i].account = a
       /\ answer = "unlinked" /\ Consumed(k)
       /\ identity' = [identity EXCEPT ![i] = AbsentIdentity]

(* A target unlinked before spends the challenge; an account that is not the *)
(* target's leaves it to the right one.                                      *)
ConsumeUnlinkChallenge(k, a, answer) ==
  LET i == challenge[k].target IN
    \/ ConsumeRefused(k, "unlink", answer)
    \/ /\ Usable(k, "unlink") /\ identity[i].status = "unlinked"
       /\ answer = "identity_mismatch" /\ Consumed(k) /\ UNCHANGED identity
    \/ /\ Usable(k, "unlink") /\ identity[i].status = "active"
       /\ identity[i].account # a
       /\ answer = "identity_mismatch" /\ UNCHANGED identityVars
    \/ /\ Usable(k, "unlink") /\ identity[i].status = "active"
       /\ identity[i].account = a
       /\ answer = "unlinked" /\ Consumed(k)
       /\ identity' = [identity EXCEPT ![i].status = "unlinked",
                                       ![i].unlinkedBy = k]

Answered == {"not_found", "already_used", "expired", "identity_mismatch",
             "already_linked", "linked", "unlinked"}

(* What happens on the web surface and by the passing of time. *)
Surface ==
  \E k \in Challenges :
    \/ ChallengeExpires(k)
    \/ \E u \in Users : \/ CreateLinkChallenge(k, u)
                        \/ \E i \in Links : CreateUnlinkChallenge(k, u, i)

IdentityNext ==
  \/ Surface
  \/ \E k \in Challenges, a \in Accounts, answer \in Answered :
       ConsumeLinkChallenge(k, a, answer) \/ ConsumeUnlinkChallenge(k, a, answer)

IdentitySpec == IdentityInit /\ [][IdentityNext]_identityVars

-----------------------------------------------------------------------------
(* A challenge moves one identity once, on the authority of the user it was  *)
(* issued to, however often and from wherever it is presented: a link        *)
(* challenge gives an account to that user, an unlink challenge takes away   *)
(* the identity it names and no other.                                       *)
MovedBy(k) == {i \in Links : k \in {identity[i].linkedBy, identity[i].unlinkedBy}}

OneUse ==
  \A k \in Challenges :
    /\ Cardinality(MovedBy(k)) <= 1
    /\ MovedBy(k) # {} => challenge[k].status = "consumed"
    /\ \A i \in MovedBy(k) :
         /\ identity[i].user = challenge[k].user
         /\ identity[i].unlinkedBy = k => challenge[k].target = i

(* An account acts for one user at most, and changes hands only unlinked. *)
Owner(a) ==
  IF ActiveLinks(a) = {} THEN NoUser ELSE identity[Resolved(a)].user

Owned == INSTANCE Ownership WITH owner <- [a \in Accounts |-> Owner(a)]

KeepsOwnership == Owned!OwnershipSpec

(* The record of an identity is history: who linked it to whom never         *)
(* changes, and what was unlinked is never linked again.                     *)
HistoryStays ==
  [][\A i \in Links :
       identity[i].status # "absent" =>
         /\ identity'[i].user = identity[i].user
         /\ identity'[i].account = identity[i].account
         /\ identity[i].status = "unlinked" => identity'[i] = identity[i]]_identityVars
=============================================================================
