SPECIFICATION PlaneSpec
CONSTANTS
  Tasks = {t1}
  Messages = {m1, m2}
  Workers = {w1}
  Recoverers = {}
  Operators = {}
  Clients = {c1, c2, c3}
  Inputs = {"create", "cancel", "retry", "dedupe expiry"}
  LowestPriority = 0
  EnqueueStates = {"live", "completed", "failed", "cancelled"}
  MaximumAttempts = 2
  MaxClaims = 2
  Capacity = 2
  HandlerFailures = {"permanent"}
  Outputs = {"output"}
  MaxFaults = 0
  Nil = Nil
SYMMETRY PlaneSymmetry
INVARIANTS NothingForgotten
CHECK_DEADLOCK FALSE
