SPECIFICATION Spec
CONSTANTS
  a = a
  b = b
  r1 = r1
  r2 = r2
  None = None
  Ips = {a}
  Inet6 = {}
  Rcpts = {r1, r2}
  PassTime = 1
  GreyExp = 4
  TrapExp = 3
  WhiteExp = 4
  Drivers = {"postgresql"}
  SpamTraps = {}
  FileDomains = {}
  DbDomains = FALSE
  EnableIpv6 = FALSE
  HavePeer = FALSE
  Spf = FALSE
  SpfWhite = FALSE
  LowPrioMx = FALSE
  PeerExpires = {}
  MaxTime = 5
  MaxMsgs = 4
  MaxOps = 0
  MaxFaults = 0
  PipeSize = 1
PROPERTY AlwaysPromotes
