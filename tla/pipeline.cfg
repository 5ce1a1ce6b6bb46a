SPECIFICATION Spec
CONSTANTS
  E = E
  EventType = E
  DeadLetter = DeadLetter
  Inputs <- MCInputs
INVARIANTS PathsAgree LettersFollowFailures
CHECK_DEADLOCK FALSE
