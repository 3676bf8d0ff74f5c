SPECIFICATION FairSpec
CONSTANTS
  NumFds = 1
  Listener = 0
  Ops = {"recv"}
  Interests <- MCOneSocket
  MaxTimers = 1
PROPERTIES
  RecvTimesOut
