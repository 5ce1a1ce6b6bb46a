SPECIFICATION BuilderSpec
CONSTANTS
  Functions <- MCFunctions
  Literals <- MCLiterals
  Companions <- MCCompanions
  Limits <- MCLimits
  Defaults <- MCDefaults
  Types <- MCTypes
  MaxListeners = 2
INVARIANTS BuildAsWritten MacrosAgree
CHECK_DEADLOCK FALSE
