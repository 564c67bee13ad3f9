SPECIFICATION FairSpec
CONSTANTS
  e = e
  m = m
  d1 = d1
  p = p
  q = q
  None = None
  Same = Same
  Part = Part
  Entries = {e}
  Mails = {m}
  Doms = {d1}
  v1 = v1
  Vals = {v1}
  MaxRetry = 1
  Procs = {p, q}
  Dbs = {"bdb", "sqlite", "mysql", "postgresql"}
  Content = {e, m}
  MaxUpdates = 2
  MaxFaults = 1
INVARIANT TypeOK
 
 
PROPERTY ListComplete
 
CHECK_DEADLOCK FALSE
