\* Liveness: busy is answered only while a job runs.
CONSTANTS
  Jobs = {j1, j2}
  Execs = {g1, g2, g3}
  Callers = {c1}
  Answers = {"runtime", "nil", "busy", "refused"}
  Slots = 1
  None = None
SPECIFICATION FairSpec
PROPERTIES
  HeadIsRetried
CHECK_DEADLOCK FALSE
