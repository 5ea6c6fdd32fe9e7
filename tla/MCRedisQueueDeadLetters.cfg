CONSTANTS
  Tasks = {t1}
  Messages = {m1, m2, m3}
  Workers = {w1}
  Recoverers = {}
  Operators = {o1}
  LowestPriority = 1
  EnqueueStates = {"live", "failed"}
  MaximumAttempts = 1
  MaxClaims = 2
  Nil = Nil
SPECIFICATION Spec
CHECK_DEADLOCK FALSE
SYMMETRY Symmetry
INVARIANTS SingleReplay
PROPERTIES TombstoneFinal
