SPECIFICATION Spec
CONSTANTS
  c1 = c1
  c2 = c2
  E = E
  DeadLetter = DeadLetter
  Callers <- MCCallers
  NoOwner = NoOwner
  MaxId = 3
  Additions <- MCAsyncDeadLetter
INVARIANT DeadLettersAreSync
