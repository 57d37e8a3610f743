SPECIFICATION MCSpec
CONSTANTS
  x1 = x1
  x2 = x2
  None = None
  Sweep = Sweep
  Tx = {x1, x2}
  Aggregates = {"a", "b"}
  MaxEmits = 2
  Finalizers = {x1, x2}
  Files = {"f1", "f2"}
  Legacy = {"f2"}
  Undecodable = {}
  Renditions <- TwoRenditions
  Zombies = FALSE
  Processes = {x1, x2}
  Limit = 2
  Seconds = 3
  PerSec = 1
  Rotation = 4
  MaxTime = 4
  MaxSkew = 0
  MaxDelay = 0
SYMMETRY Symmetric
CONSTRAINT Bounded
CHECK_DEADLOCK FALSE
INVARIANTS
  FlushSound
  UploadSound
  RequestsMetered
  FailuresContained
  QuietTurnsSound
PROPERTIES
  RefinesLog
