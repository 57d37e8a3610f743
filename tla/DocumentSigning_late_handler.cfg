SPECIFICATION Spec
CONSTANTS
  Completers = {p1}
  Files = {"f1"}
  Contents = {"k1"}
  Valid = {"k1"}
  SweepFails = FALSE
  Zombies = TRUE
  None = None
  Sweep = Sweep
CHECK_DEADLOCK FALSE
INVARIANTS
  NeverSignedCancelled
