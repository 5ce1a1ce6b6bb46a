SPECIFICATION FairSpec
CONSTANTS
  t1 = t1
  t2 = t2
  t3 = t3
  Tasks <- MCTasks
  Limit = 2
  NoStrategy = NoStrategy
  Policies <- MCPolicies
  AttemptBits = 2
  WideBits = 3
  NarrowBits = 2
  NanosBits = 5
  DurationMax = 40
INVARIANTS PermitsConserved AttemptsExact LettersExact DelayFollowsPolicy
PROPERTY TaskEnds
