\* One row contended by three dispatcher invocations, two operator recoveries.
SPECIFICATION Spec
CONSTANTS
  Messages = {m1}
  Dispatchers = {d1, d2, d3}
  Delayed = {}
  MaxAttempts = 2
  BatchLimit = 1
  MaxRecoveries = 2
SYMMETRY Symmetry
INVARIANTS
  TypeOK
  FailedSpentItsBudget
  PublicationBudget
  PublishedOnEvidence
  ClaimIsExclusive
PROPERTIES
  
  KeepsPromise
