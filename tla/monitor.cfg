SPECIFICATION MonitorFairSpec
CONSTANTS
  Enabled = {TRUE, FALSE}
  NumTypes = 8
  MaxQueries = 1
  Requests <- MCRequests
  Capacities = {0, 2}
  Params = {0, 1}
  Blank = Blank
INVARIANT StoppedOrRunning
INVARIANT WindowsDisjoint
INVARIANT CountedAsSent
PROPERTY StopReturns
PROPERTY ImplementsRecent
PROPERTY PageWhole
