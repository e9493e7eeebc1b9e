\* Fair: two rows claimed together by either of two invocations, so that a
\* conflict on one row interrupts the work on the other; m2 is at its last try.
SPECIFICATION LaterFairSpec
CONSTANTS
  Messages = {m1, m2}
  Dispatchers = {d1, d2}
  Delayed = {m2}
  MaxAttempts = 2
  BatchLimit = 2
  MaxRecoveries = 0

  
PROPERTIES
  NoMessageStranded
  ConsumptionConverges
