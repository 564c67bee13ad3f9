SPECIFICATION Spec
CONSTANTS
  spam = spam
  pests = pests
  friends = friends
  nosuch = nosuch
  greytrap = greytrap
  Nil = Nil
  W = 4
  HashOf <- MCHashOf
  Setup <- MCSetup
  Black = {spam, pests}
  White = {friends}
  Feeds <- MCShortFeeds
  Traps = greytrap
  TrapLists <- MCTrapLists
  FwDriver = "netfilter"
  TableSize = 1
  MaxRuns = 1
  MaxTraps = 0
  MaxRestarts = 0
INVARIANT MatchesList
CHECK_DEADLOCK FALSE
