SPECIFICATION Spec
CONSTANTS
  p1 = p1
  p2 = p2
  s1 = s1
  Publishers <- MCPublishers
  Shutters <- MCShutters
  CountMask = 3
  NoOwner = NoOwner
  MaxTasks = 2
INVARIANT TimeoutAbortsAll
