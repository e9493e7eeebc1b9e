\* A call that outlives its lease while another wake-up settles it.
SPECIFICATION Spec
CONSTANTS
  Operations = {o1, o2}
  NoOperation = NoOperation
  Metered = {o1}
  Users = {u1}
  Environment = Environment
  Workers = {w1, w2}
  Prices = {2}
  Costs = {1}
  EnvironmentCeiling = 4
  UserCeiling = 3
  DailyLimit = 2
  MaxDispatches = 2
  MaxDay = 1
  Month <- OneMonth
INVARIANT
  SuccessIsDurable
CHECK_DEADLOCK FALSE
