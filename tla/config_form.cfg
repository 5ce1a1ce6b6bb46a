SPECIFICATION Spec
CONSTANTS
  MaxEventTypes = 3
  MaxListeners = 3
  MaxEdits = 1
  Texts <- MCTexts
  Blank = ""
  DefaultNames <- MCDefaultNames
  Generated <- MCGenerated
INVARIANTS PositionsExist EditsStayPut
PROPERTY DeletionKeepsTargets
CHECK_DEADLOCK FALSE
