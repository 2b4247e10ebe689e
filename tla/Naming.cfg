SPECIFICATION Spec
CONSTANTS
  maxLabelLength = 3
  maxArtifactNameLength = 18
  Lower = {"a", "v"}
  Digit = {"0", "1"}
  MaxTag = 7
  MaxText = 4
  Texts <- MCTexts
INVARIANTS GrammarExact NameTellsFields
CHECK_DEADLOCK FALSE
