SPECIFICATION Spec
CONSTANTS
  NULL = NULL
  Bytes = {a, b, cr}
  Controls = {cr}
  MaxTopic = 3
  MaxBody = 5
  a = a b = b cr = cr
INVARIANT TopicIsNotCut
CHECK_DEADLOCK FALSE
