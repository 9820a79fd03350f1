\* Three nodes on two ports, or two nodes with a stop and restart, up to the first overlap.
CONSTANTS
  MaxNodes = 3
  Host = {h1}
  Port = {p1, p2}
  RETRY_NUM = 1
  MAX_SAFE_QUEUE = 2
  MaxStops = 1
SPECIFICATION Spec
CONSTRAINT UntilOverlap
SYMMETRY PortSymmetry
INVARIANTS
  UniquePorts
  JoinTargetIsDying
  NoCrashWithoutRace
  ZombieOnlyByLoss
  NoNoticeOfDeleted
PROPERTIES
  ImplementsMonitor
