CONSTANTS
  Drivers = {}
  Direct = {j1}
  Archivers = {}
  NativeRuntimes = {gcc, icc}
  MaxStarts = 1
  MaxChanges = 1
SPECIFICATION CacheSpec
INVARIANTS PlacedHasARuntime
CHECK_DEADLOCK FALSE
