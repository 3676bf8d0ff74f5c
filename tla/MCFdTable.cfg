SPECIFICATION Spec
CONSTANTS
  parent = parent
  child = child
  Procs <- MCProcs
  NFds = 3
  SOCKET_NUM = 2
  Servers = {"DNSMASQ", "DCMQRSCP"}
  MaxOpens = 4
INVARIANTS
  TypeOK
  Accounted
  OnlyItsOwnClient
CHECK_DEADLOCK FALSE
