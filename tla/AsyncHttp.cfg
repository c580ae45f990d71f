CONSTANTS
  Stages = 3
  MaxHttp = 2
  MaxTask = 1
  RetryDelay = 2
  Timeout = 12
SPECIFICATION FairSpec
INVARIANTS
  TypeOK
  ArenaAliveWhileUsed
  AnswersMatchRequests
PROPERTY TaskEnds
