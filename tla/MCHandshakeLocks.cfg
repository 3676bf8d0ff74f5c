SPECIFICATION Spec
CONSTANTS
  c1 = c1
  c2 = c2
  Server = server
  NoOne = nobody
  Clients = {c1, c2}
  Addresses = {"bound"}
  Mortal = {c1, c2}
  SocketNum = 3
  ConnectCap = 2
  AcceptCap = 1
  QueueCap = 1
  MaxSessions = 2
  MaxSends = 1
  MaxBoots = 1
INVARIANT LocksSurviveTheirOwners
CHECK_DEADLOCK FALSE
