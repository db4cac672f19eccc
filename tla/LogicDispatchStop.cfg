SPECIFICATION FairSpec
CONSTANTS
  s1 = s1  s2 = s2  s3 = s3
  NumWorkers = 1
  Sessions = {s1}
  None = None
  MaxMsgs = 1
PROPERTIES StopEnds
