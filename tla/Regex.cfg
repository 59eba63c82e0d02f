CONSTANTS
  MsgBytes = 5
  Byte = {0, 1, 2, 255}
  MinSpan = 1
  GenSubstrs = TRUE
  AnyChar = {1, 2}
  Printable = {1}
  Large = TRUE
  Decomposed <- MCDecomposed
  Rules <- PasswordRules
SPECIFICATION Spec
INVARIANTS
  NumberedByPosition
  OneRunAtATime
  AnchoredIsExact
  MatchIsSound
  ShortWordsAreFound
  RevealsWhatIsPublic
  StatementIsTrue
CHECK_DEADLOCK FALSE
