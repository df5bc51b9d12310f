\* Safety: all answers, and an outside caller of OnJobCompletion.
CONSTANTS
  Jobs = {j1, j2, j3}
  Execs = {g1, g2, g3}
  Callers = {c1}
  Answers = {"runtime", "nil", "busy", "refused"}
  Slots = 0
  None = None
SPECIFICATION Spec
SYMMETRY Symmetry
INVARIANTS
  TypeOK
  QueuedOnce
  RemovedNeverRunsUnlessRaced
  HeadHeldUnlessRaced
  AtMostOnceUnlessRaced
  NoneLostUnlessRaced
PROPERTIES
  ImplementsUnlessRaced
\* An idle daemon waits for submissions.
CHECK_DEADLOCK FALSE
