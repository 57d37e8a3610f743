SPECIFICATION Spec
CONSTANTS
  Calls = {"c1", "c2"}
  Deaf = {"c1"}
  Recorded = {"c1", "c2"}
  Clients = {"p1"}
  NoCall = NoCall
  NoClient = NoClient
  MaxStatements = 1
CHECK_DEADLOCK FALSE
INVARIANTS
  DoneIsCommitted
