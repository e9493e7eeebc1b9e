\* Fair: two operations of one user across the end of a month.
SPECIFICATION FairSpec
CONSTANTS
  Operations = {o1, o2}
  NoOperation = NoOperation
  Metered = {o1, o2}
  Users = {u1}
  Environment = Environment
  Workers = {w1}
  Prices = {2}
  Costs = {1}
  EnvironmentCeiling = 4
  UserCeiling = 4
  DailyLimit = 2
  MaxDispatches = 2
  MaxDay = 2
  Month <- TwoMonths
INVARIANTS
  ModelTypeOK
  AccountsBalance
  DispatchesCounted
PROPERTY
  EveryOperationEnds
\* Everything settled: nothing is left to do.
CHECK_DEADLOCK FALSE
