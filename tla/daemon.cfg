SPECIFICATION FairSpec
CONSTANTS
  Chunks = 2
  PipeSize = 1
  Crashers = {"scanner", "main", "reader"}
  Targets = {"scanner", "main", "reader"}
  MaxCrashes = 1
  MaxSignals = 1
  MaxClients = 2
  MaxScans = 2
INVARIANT TypeOK
 
PROPERTY AllStop
 
PROPERTY StopsClean
CHECK_DEADLOCK FALSE
