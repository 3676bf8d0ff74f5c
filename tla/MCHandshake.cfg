SPECIFICATION Spec
CONSTANTS
  c1 = c1
  c2 = c2
  Server = server
  NoOne = nobody
  Clients = {c1, c2}
  Addresses = {"bound"}
  Mortal = {c1, c2, server}
  SocketNum = 2
  ConnectCap = 2
  AcceptCap = 1
  QueueCap = 1
  MaxSessions = 3
  MaxSends = 1
  MaxBoots = 2
INVARIANTS
  TypeOK
  UnitsAccounted
  OneSessionPerUnit
  FreshWhenOffered
  FlagsAreOurs
  NoCrossTalk
  LoneClientServed
  NoOneForgotten
CONSTRAINT FewOnceTorn
SYMMETRY Symmetry
CHECK_DEADLOCK FALSE
