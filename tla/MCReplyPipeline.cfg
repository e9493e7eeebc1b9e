\* Fair: one reply, two consumers, one run of the recovery workflow at a time.
SPECIFICATION FairPipeline
CONSTANTS
  Replies = {r1}
  NoReply = NoReply
  Consumers = {c1, c2}
  Operators = {o1}
  Recoveries = {k1, k2}
  NoRecovery = NoRecovery
  MaxAttempts = 2
  MaxPublications = 2
  MaxJobs = 2
INVARIANTS
  PipelineTypeOK
  ConsumedMeansSettled
PROPERTIES
  EveryReplyLeftToSomeone
\* Every job lost, every row consumed or given up: nothing is left to do.
CHECK_DEADLOCK FALSE
