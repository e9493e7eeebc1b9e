\* Two users contend for two accounts with four tokens.
SPECIFICATION IdentitySpec
CONSTANTS
  Users = {u1, u2}
  NoUser = NoUser
  Accounts = {a1, a2}
  NoAccount = NoAccount
  Challenges = {k1, k2, k3, k4}
  NoChallenge = NoChallenge
  MaxLinks = 3
SYMMETRY Symmetry
INVARIANTS
  IdentityTypeOK
  OneUse
PROPERTIES
  KeepsOwnership
  HistoryStays
\* Every token spent: nothing is left to do.
CHECK_DEADLOCK FALSE
