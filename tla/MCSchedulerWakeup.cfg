\* The daemon's own goroutines only; busy is answered only while a job runs.
CONSTANTS
  Jobs = {j1, j2}
  Execs = {g1, g2}
  Callers = {}
  Answers = {"runtime", "busy"}
  Slots = 1
  None = None
SPECIFICATION FairSpec
PROPERTIES
  QueuedIsRetried
CHECK_DEADLOCK FALSE
