SPECIFICATION FairSpec
CONSTANTS
  a = a
  b = b
  r1 = r1
  r2 = r2
  None = None
  Ips = {a, b}
  Inet6 = {b}
  Rcpts = {r1}
  PassTime = 1
  GreyExp = 2
  TrapExp = 2
  WhiteExp = 2
  Drivers = {"bdb"}
  SpamTraps = {r1}
  FileDomains = {r1}
  DbDomains = TRUE
  EnableIpv6 = TRUE
  HavePeer = TRUE
  Spf = TRUE
  SpfWhite = TRUE
  LowPrioMx = TRUE
  PeerExpires = {2}
  MaxTime = 2
  MaxMsgs = 1
  MaxOps = 1
  MaxFaults = 1
  PipeSize = 2
INVARIANT TypeOK
 
 
 
