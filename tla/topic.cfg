SPECIFICATION Spec
CONSTANTS
  NULL = NULL
  Bytes = {a, b, cr}
  Controls = {cr}
  MaxTopic = 3
  MaxBody = 5
  a = a b = b cr = cr
INVARIANTS TopicTypeOK TopicIsSafe TopicIsWhole
PROPERTY ReadsAtOnce
CHECK_DEADLOCK FALSE
