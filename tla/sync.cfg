SPECIFICATION FairSpec
CONSTANTS
  h1 = h1
  h2 = h2
  a = a
  ones = ones
  r1 = r1
  r2 = r2
  None = None
  Hosts = {h1, h2}
  SyncHosts <- MCSyncHosts
  Iface = {h1}
  BindTo <- MCBindTo
  Ips = {a, ones}
  Inet6 = {}
  Ones = ones
  Rcpts = {r1, r2}
  SpamTraps <- MCSpamTraps
  PassTime = 1
  GreyExp = 3
  TrapExp = 2
  WhiteExp = 3
  Foreign <- MCForeign
  MaxDelay = 1
  MaxTime = 4
  MaxOps = 2
  MaxFaults = 1
  MaxNoise = 1
INVARIANT TypeOK
INVARIANT ClusterEarned
PROPERTY Quiet
