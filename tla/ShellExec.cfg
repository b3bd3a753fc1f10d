CONSTANTS
  Lines <- LinesDef
  Aliases <- AliasesDef
  MAX_PARAMS = 18
  MaxLen = 10
  MaxText = 5
  MAX_FAULTS = 2
SPECIFICATION Spec
CHECK_DEADLOCK FALSE
INVARIANT TypeOK
INVARIANT ParsesAsWritten
INVARIANT AliasIsItsText
INVARIANT AliasReadBack
INVARIANT ArgumentsAsTyped
INVARIANT SentencesAccepted
INVARIANT RunsTheBranches
INVARIANT BranchesExist
INVARIANT ThenAfterCondition
PROPERTY LineEnds
