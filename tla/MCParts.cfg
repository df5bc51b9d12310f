CONSTANTS
  Drivers = {d1}
  Direct = {j1}
  Archivers = {m1}
  NativeRuntimes = {gcc, icc}
  MaxStarts = 2
  MaxChanges = 2
  Hosts <- MCHosts
  Leaves = {p, q}
  MaxFrames = 4
  Sessions = {t1, t2}
  Admins = {a1}
  Root = root
  Kids = {kid}
  Filed = {root}
  Console = console
  MaxCalls = 2
  Versions = {v, w}
  Runtimes = {"cpp", "remote", "cwd"}
  MaxBuilds = 2
  MaxEdits = 2
  Arguments <- MCArguments
  Toolchains <- MCToolchains
  Considered <- MCConsidered
  MaxArgs = 6
  ArArguments <- MCArArguments
  ArFiles <- MCArFiles
  MaxArArgs = 5
  Daemons = {b1, b2}
  First = b1
  Clients = {c1, c2}
  Modes = {"command", "standalone"}
SPECIFICATION PartsSpec
INVARIANTS
  PartsTypeOK
  SteadyRuntimesServe DriversDoNotCrashIt
  DetectsTheHost
  AnswerAllOrNothing
  SinksOfLoggersExist TailedUnlessDisturbed ConsoleShadowedByTailing
  RunsOnWhatWasHashed CompletedOutputIsOfThisRun TempDirDropsOutputs
  NoInputReachesTheCompiler
  ParsedAsItReads OnlyTheseAreLost AsksForItsToolchain
  ArchivesAsTyped
PROPERTIES
  QueryEnds StopsOnceUnwatched
CHECK_DEADLOCK FALSE
