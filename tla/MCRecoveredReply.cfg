\* One recovery of one rejected reply: its job may be lost or dead-lettered.
SPECIFICATION FairPipeline
CONSTANTS
  Replies = {r1}
  NoReply = NoReply
  Consumers = {c1}
  Operators = {o1}
  Recoveries = {k1, k2}
  NoRecovery = NoRecovery
  MaxAttempts = 2
  MaxPublications = 2
  MaxJobs = 1
PROPERTY
  EveryReplyResolves
CHECK_DEADLOCK FALSE
