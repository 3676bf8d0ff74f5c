SPECIFICATION FairSpec
CONSTANTS
  NumFds = 2
  Listener = 1
  Ops = {"poll", "select", "recv", "send"}
  Interests <- MCInterests
  MaxTimers = 3
INVARIANTS
  TypeOK
  ReportedIsReady
  TimeoutIsReal
  QuietAtRest
  SelectFailsOnlyAfterPoll
  TimersBounded
PROPERTIES
  TimedCallsReturn
  ReadyCallsReturn
