SPECIFICATION MCSpec
CONSTANTS
  x1 = x1
  x2 = x2
  None = None
  Workers = {x1, x2}
  MaxAttempts = 2
  MaxClaims = 3
  MaxRenders = 3
  MaxReplays = 1
  Crashes = TRUE
  Failures = {"retryable", "timeout", "early", "bookkeeping"}
  BatchLimit = 1
  Concurrency = 2
  MaxEvents = 2
  MaxWorks = 2
  MaxFails = 3
  MaxClients = 4
  Size = 2
  Call <- Calls
  Home <- OneHome
  NoCall = NoCall
  QueueLimit = 3
  RespawnLimit = 1
  MaxCrashes = 1
  MaxSpawns = 2
  BootLoss = TRUE
  MaxMessages = 2
  MaxRevision = 2
  MaxLosses = 0
  MaxCommands = 1
  MaxOther = 1
  Commands = {"answer"}
  OtherCommands = {"send"}
  Recovery = FALSE
  Unreliable = FALSE
SYMMETRY Symmetric
CHECK_DEADLOCK FALSE
INVARIANTS
  PdfSound
  ConnectionsSound
  ThreadSound
  LoopSound
  PoolSound
PROPERTIES
  ReadyIsFinal
  ThreadForward
