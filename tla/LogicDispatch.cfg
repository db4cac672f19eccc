SPECIFICATION FairSpec
CONSTANTS
  s1 = s1  s2 = s2  s3 = s3
  NumWorkers = 2
  Sessions = {s1, s2, s3}
  None = None
  MaxMsgs = 2
INVARIANTS TypeOK NoLostWakeup InOrder DrainedOnExit
PROPERTIES AllHandled
