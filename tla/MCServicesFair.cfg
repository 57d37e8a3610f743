SPECIFICATION FairSpec
CONSTANTS
  c1 = c1
  c2 = c2
  c3 = c3
  p1 = p1
  Calls = {c1, c2, c3}
  Deaf = {c1, c2}
  Recorded = {c1, c3}
  Clients = {p1}
  None = None
  Sweep = Sweep
  NoCall = NoCall
  NoClient = NoClient
  MaxStatements = 1
CHECK_DEADLOCK FALSE
INVARIANTS
  ExecutionAtomic
PROPERTIES
  RequestsEnd
  ProcessesLive
