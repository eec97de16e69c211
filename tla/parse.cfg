SPECIFICATION Spec
CONSTANTS
  NULL = NULL NoMailbox = NoMailbox listA = listA
  Texts <- McTexts
  Lists <- McLists
  Commands <- McCommands
INVARIANTS ParseTypeOK AcceptsWellFormed FifthValueIsReset StaysInArgs
CHECK_DEADLOCK FALSE
