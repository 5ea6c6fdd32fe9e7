CONSTANTS
  Tasks = {t1}
  Messages = {m1, m2, m3}
  Workers = {w1}
  Recoverers = {}
  Operators = {o1, o2}
  LowestPriority = 0
  EnqueueStates = {"live"}
  MaximumAttempts = 1
  MaxClaims = 1
  Nil = Nil
SPECIFICATION Spec
CHECK_DEADLOCK FALSE
INVARIANTS SingleReplay
