SPECIFICATION Spec
CONSTANTS
  NULL = NULL NoMailbox = NoMailbox listA = listA
  Texts <- McTexts
  Lists <- McLists
  Commands <- McCommands
INVARIANT EmptyMailboxesRefused
CHECK_DEADLOCK FALSE
