CONSTANTS
  MsgBytes = 4
  Byte = {0, 1, 2, 255}
  MinSpan = 1
  GenSubstrs = TRUE
  AnyChar = {1, 2}
  Printable = {1}
  Large = FALSE
  Decomposed <- MCDecomposed
  Rules <- PasswordRules
SPECIFICATION Spec
INVARIANT FullTextsAreJudged
CHECK_DEADLOCK FALSE
