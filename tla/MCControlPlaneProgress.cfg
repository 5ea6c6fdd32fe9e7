SPECIFICATION FairPlaneSpec
CONSTANTS
  Tasks = {t1}
  Messages = {m1}
  Workers = {w1}
  Recoverers = {r1}
  Operators = {}
  Clients = {c1}
  Inputs = {"create"}
  LowestPriority = 0
  EnqueueStates = {"live", "completed", "failed", "cancelled"}
  MaximumAttempts = 2
  MaxClaims = 3
  Capacity = 1
  HandlerFailures = {}
  Outputs = {"output"}
  MaxFaults = 1
  Nil = Nil
PROPERTIES Settles
CHECK_DEADLOCK FALSE
