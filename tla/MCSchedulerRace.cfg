\* The daemon's own goroutines only: two jobs may run at a time.
CONSTANTS
  Jobs = {j1, j2, j3, j4}
  Execs = {g1, g2, g3, g4}
  Callers = {}
  Answers = {"runtime", "busy"}
  Slots = 2
  None = None
SPECIFICATION Spec
PROPERTIES
  DequeuesWhatItScheduled
CHECK_DEADLOCK FALSE
