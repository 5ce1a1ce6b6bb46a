SPECIFICATION FairSpec
CONSTANTS
  c1 = c1
  c2 = c2
  E = E
  DeadLetter = DeadLetter
  Callers <- MCCallers
  NoOwner = NoOwner
  MaxId = 2
  Additions <- MCAdditions
INVARIANTS SnapshotSound IndexExact StatsMatchDispatch
PROPERTIES StopEndsChanges DroppedGuardRemoves
