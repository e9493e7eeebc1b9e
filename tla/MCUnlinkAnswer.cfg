\* One account that is unlinked and linked again.
SPECIFICATION ProcessingSpec
CONSTANTS
  Users = {u1}
  NoUser = NoUser
  Accounts = {a1}
  NoAccount = NoAccount
  Challenges = {k1, k2}
  NoChallenge = NoChallenge
  MaxLinks = 2
  Events = {e1, e2}
  NoEvent = NoEvent
  Consumers = {c1, c2}
  NoConsumer = NoConsumer
  MaxFaults = 1
SYMMETRY Symmetry
INVARIANT
  UnlinkEffectAnswered
CHECK_DEADLOCK FALSE
