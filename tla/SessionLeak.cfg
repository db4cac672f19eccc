SPECIFICATION Spec
CONSTANTS
  s1 = s1  s2 = s2
  Sessions = {s1}
  MaxSendQue = 1
  MaxMsgs = 1
INVARIANTS NoLeak
