\* Fair: two events, one token, one fault anywhere.
SPECIFICATION FairProcessing
CONSTANTS
  Users = {u1}
  NoUser = NoUser
  Accounts = {a1}
  NoAccount = NoAccount
  Challenges = {k1}
  NoChallenge = NoChallenge
  MaxLinks = 1
  Events = {e1, e2}
  NoEvent = NoEvent
  Consumers = {c1, c2}
  NoConsumer = NoConsumer
  MaxFaults = 1
PROPERTY
  EveryEventDecided
\* All decided, all tokens used: nothing is left to do.
CHECK_DEADLOCK FALSE
