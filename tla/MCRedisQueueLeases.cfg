CONSTANTS
  Tasks = {t1}
  Messages = {m1}
  Workers = {w1}
  Recoverers = {r1, r2}
  Operators = {o1}
  LowestPriority = 0
  EnqueueStates = {"live"}
  MaximumAttempts = 2
  MaxClaims = 3
  Nil = Nil
SPECIFICATION Spec
CHECK_DEADLOCK FALSE
INVARIANTS IndexesAgree LeaseBacked RetryWellFormed RecoveryReadsCurrent
PROPERTIES DecisionKept NoMessageLost LiveLeaseKept GoneStaysGone
