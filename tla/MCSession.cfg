SPECIFICATION FairSpec
CONSTANTS
  RequestCap = 2
  ResponseCap = 1
  MaxSent = 3
  Servers = {"DNSMASQ", "DCMQRSCP", "DCMQRSCP child"}
  MaxWrites = 2
  MaxNotes = 2
  MaxAsk = 2
  Plans <- MCPlans
INVARIANTS
  TypeOK
  HarnessTimeoutIsReal
  NoSilentPoll
  NoteMeansAnswer
  ProgramSeesPrefix
PROPERTIES
  CallsReturn
CHECK_DEADLOCK FALSE
