\* Three operations of two users race for one month's budget; a call costs
\* more than its profile reserves.
SPECIFICATION Spec
CONSTANTS
  Operations = {o1, o2, o3}
  NoOperation = NoOperation
  Metered = {o1, o2, o3}
  Users = {u1, u2}
  Environment = Environment
  Workers = {w1, w2}
  Prices = {1}
  Costs = {2}
  EnvironmentCeiling = 4
  UserCeiling = 3
  DailyLimit = 2
  MaxDispatches = 2
  MaxDay = 1
  Month <- OneMonth
SYMMETRY Symmetry
CONSTRAINT MessagesStay
INVARIANTS
  ChargesCovered
  PurchasesBounded
  AttemptsAgree
PROPERTIES
  KeepsLedger
  OutcomeIsFinal
\* Everything settled: nothing is left to do.
CHECK_DEADLOCK FALSE
