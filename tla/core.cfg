SPECIFICATION Spec
CONSTANTS
  a = a
  b = b
  r1 = r1
  r2 = r2
  None = None
  Ips = {a}
  Inet6 = {}
  Rcpts = {r1, r2}
  PassTime = 1
  GreyExp = 4
  TrapExp = 3
  WhiteExp = 4
  Drivers = {"bdb", "sqlite", "mysql", "postgresql"}
  SpamTraps = {r2}
  FileDomains = {}
  DbDomains = FALSE
  EnableIpv6 = FALSE
  HavePeer = FALSE
  Spf = FALSE
  SpfWhite = FALSE
  LowPrioMx = FALSE
  PeerExpires = {}
  MaxTime = 5
  MaxMsgs = 3
  MaxOps = 0
  MaxFaults = 1
  PipeSize = 1
INVARIANT WhitelistEarned
INVARIANT GreyInv
PROPERTY ListsMatchDb
PROPERTY ScanPromotesRetried
PROPERTY ScanKeepsTraps
