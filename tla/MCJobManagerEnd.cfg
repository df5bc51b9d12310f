CONSTANTS
  Submitters = {s1}
  Observers = {o1}
  Cancellers = {c1}
  Cap = 2
  MaxLines = 1
  None = None
SPECIFICATION Spec
PROPERTIES
  StreamEndsWithTheJob
CHECK_DEADLOCK FALSE
