SPECIFICATION Spec
CONSTANTS
  spam = spam
  pests = pests
  friends = friends
  nosuch = nosuch
  greytrap = greytrap
  Nil = Nil
  W = 3
  HashOf <- MCHashOf
  Setup <- MCSetup
  Black = {spam, pests}
  White = {friends}
  Feeds <- MCFeeds
  Traps = greytrap
  TrapLists <- MCTrapLists
  FwDriver = "netfilter"
  TableSize = 1
  MaxRuns = 1
  MaxTraps = 2
  MaxRestarts = 1
INVARIANT TypeOK
INVARIANT CollapseExact
 
INVARIANT TableIsMap
 
INVARIANT SameLengthFound
CHECK_DEADLOCK FALSE
