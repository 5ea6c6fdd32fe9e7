SPECIFICATION PlaneSpec
CONSTANTS
  Tasks = {t1}
  Messages = {m1}
  Workers = {w1}
  Recoverers = {r1}
  Operators = {}
  Clients = {c1}
  Inputs = {"create"}
  LowestPriority = 0
  EnqueueStates = {"live", "completed", "failed", "cancelled"}
  MaximumAttempts = 2
  MaxClaims = 2
  Capacity = 2
  HandlerFailures = {"permanent", "rate limited"}
  Outputs = {"output"}
  MaxFaults = 1
  Nil = Nil
INVARIANTS DurableFirst NothingForgotten
PROPERTIES ImplementsContract
CHECK_DEADLOCK FALSE
