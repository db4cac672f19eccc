SPECIFICATION FairSpec
CONSTANTS
  s1 = s1  s2 = s2
  Sessions = {s1, s2}
  MaxSendQue = 1
  MaxMsgs = 3
INVARIANTS TypeOK Registered NoStaleBinding NoMessageLost OneWriter
PROPERTIES Released
