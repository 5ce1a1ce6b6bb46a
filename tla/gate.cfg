SPECIFICATION FairSpec
CONSTANTS
  p1 = p1
  p2 = p2
  p3 = p3
  s1 = s1
  s2 = s2
  Publishers <- MCPublishers
  Shutters <- MCShutters
  CountMask = 2
INVARIANTS CountIsGuards OneCloser DrainedIsEmpty NoLostWakeup
PROPERTIES ClosedAdmitsNobody ShutdownAnswered ImplementsFairLifecycle
