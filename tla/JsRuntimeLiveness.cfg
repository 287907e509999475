SPECIFICATION FairSpec
CONSTANTS
  s1 = s1
  s2 = s2
  b1 = b1
  b2 = b2
  m1 = m1
  None = None
  Failed = Failed
  Graceful = Graceful
  Scripts <- TwoScripts
  Batches <- OneBatch
  Size = 2
  Modules <- OneModule
PROPERTIES SettledIsSent EveryoneAnswered
CHECK_DEADLOCK FALSE
