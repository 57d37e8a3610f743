SPECIFICATION MCSpec
CONSTANTS
  x1 = x1
  x2 = x2
  y1 = y1
  y2 = y2
  None = None
  Command = {y1, y2}
  Request = {x1, x2}
  MaxCards = 1
  MaxRuns = 1
  MaxNotes = 0
  Fault = {"crash", "store"}
  MaxFaults = 1
  Caller = {x1, x2}
  ClientCommand = {"c1", "c2"}
  Conversation = {"c1", "c2"}
  ConversationOf <- OwnConversation
  Route = {"chat"}
  Cap <- Tight
  MaxDay = 1
  Overlap = TRUE
  Loss = {"unknown"}
  MaxLosses = 1
SYMMETRY Symmetric
CHECK_DEADLOCK FALSE
INVARIANTS
  TurnsSound
  BudgetSound
  ConversationSound
PROPERTIES
  TurnsKept
