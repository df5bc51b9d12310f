CONSTANTS
  Daemons = {d1}
  First = d1
  Clients = {}
  Modes = {"standalone"}
SPECIFICATION LifeSpec
PROPERTIES StopStops
CHECK_DEADLOCK FALSE
