SPECIFICATION AdaptersSpec
CONSTANTS
  Writers = {w1, w2}
  Outsider = other
  MaxCalls = 2
  MaxHeads = 2
  Getters = {g1, g2, g3}
  Deliveries = {d1, d2}
  ttl = 2
  LastSecond = 4
  Inbox <- TheInbox
  Chat = "chat"
  Role <- TheRole
  rate_limit = 2
  rate_window = 1
  maxlen = 2
  lifetime = 1
  maximum_retries = 1
  MaxTime = 2
  MaxHandled = 4
  MaxLives = 1
  Nil = Nil
INVARIANTS
  RefreshesCollapse
  ReplaysSpaced
  UpdatesOnce RateHeld 
PROPERTIES ImplementsBranchLog GetsEnd
CHECK_DEADLOCK FALSE
