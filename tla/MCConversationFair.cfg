SPECIFICATION FairSpec
CONSTANTS
  p1 = p1
  p2 = p2
  c1 = c1
  c2 = c2
  Completers = {p1, p2}
  Files = {"f1"}
  Contents = {"k1"}
  Valid = {"k1"}
  SweepFails = FALSE
  Zombies = TRUE
  None = None
  Sweep = Sweep
  Refused = Refused
CHECK_DEADLOCK FALSE
INVARIANTS
  SigningSound
PROPERTIES
  EveryTurnEnds
  ClientsSettle
  CancelledIsAbandoned
  EventuallyAnswered
