CONSTANTS
  Submitters = {s1}
  Observers = {o1}
  Cancellers = {c1}
  Cap = 2
  MaxLines = 1
  None = None
SPECIFICATION Spec
INVARIANTS
  TypeOK
  OpenIffRegistered
  ResultOnlyWhenTerminal
  CompletedShowsResult
  NewsPending
PROPERTIES
  FinishedStaysTerminal
  SeesTheEnd
\* Every RPC may be over.
CHECK_DEADLOCK FALSE
