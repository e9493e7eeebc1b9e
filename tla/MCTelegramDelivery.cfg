\* One reply, three consumers racing two runs of the recovery workflow.
SPECIFICATION Spec
CONSTANTS
  Replies = {r1}
  NoReply = NoReply
  Consumers = {c1, c2, c3}
  Operators = {o1, o2}
  Recoveries = {k1, k2}
  NoRecovery = NoRecovery
  MaxAttempts = 3
SYMMETRY Symmetry
INVARIANTS
  TypeOK
  AcceptedAtMostOnce
  CallsWithinCeiling
  NoBlindRetry
  RecoveryPerRejection
PROPERTY
  HonestDelivery
