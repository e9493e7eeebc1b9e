\* Two events, two accounts of one user, overlapping runs.
SPECIFICATION ProcessingSpec
CONSTANTS
  Users = {u1}
  NoUser = NoUser
  Accounts = {a1, a2}
  NoAccount = NoAccount
  Challenges = {k1, k2}
  NoChallenge = NoChallenge
  MaxLinks = 2
  Events = {e1, e2}
  NoEvent = NoEvent
  Consumers = {c1, c2}
  NoConsumer = NoConsumer
  MaxFaults = 2
SYMMETRY Symmetry
INVARIANTS
  ProcessingTypeOK
  ReplyIffProcessed
  CountedOnce
  AnswerWasTrue
  LinkEffectAnswered
  ReceiptMeansDecided
PROPERTY
  DecisionIsFinal
\* All decided, all tokens used: nothing is left to do.
CHECK_DEADLOCK FALSE
