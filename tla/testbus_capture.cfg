SPECIFICATION Spec
CONSTANTS
  c1 = c1
  c2 = c2
  c3 = c3
  e1 = e1
  e2 = e2
  NoBuffer = NoBuffer
  Captures <- MCCaptures
  Events <- MCEvents
INVARIANTS NeverTwice CompleteOnceQuiet
CHECK_DEADLOCK FALSE
