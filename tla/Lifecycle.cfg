SPECIFICATION FairSpec
CONSTANTS
  NumSessions = 4
  NumThreads = 2
  None = None
  MaxMsgs = 1
INVARIANTS TypeOK IoUsesLive JoinedFirst Served
PROPERTIES SignalStops
