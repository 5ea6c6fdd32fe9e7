SPECIFICATION ExecutionSpec
CONSTANTS
  Calls = {c1, c2}
  other = other
  gemini = gemini
  qwen = qwen
  Gemini = {gemini}
  Qwen = {qwen}
  Others = {other}
  Chain <- OtherThenBoth
  Tight = {2}
  Concurrency = 1
  max_model_calls = 2
  max_retries = 0
  retry_budget = 1
  failure_threshold = 2
  Paths = {"a", "b"}
  Existing = {"a"}
  Protected = {"b"}
  MaxFiles = 2
  StartStates = {"received", "executing"}
  Evidence = {"repository-context-built", "plan-generated", "human-approval-required", "execution-authorized"}
  Keys = {"k"}
  MaxEvents = 3
  ApprovalIds = {a1}
  Subjects = {s1, s2}
  Diffs = {"diff"}
  Scopes = {"write"}
  MaxGrants = 2
  LastMoment = 2
  MaxFlags = 1
  MaxRules = 2
  Shas = {"s1", "s2"}
  MaxAcquires = 3
  NoSha = "none"
  Nil = Nil
INVARIANTS
  PermitsConserved BreakerConsistent FallbackEarned CancellationHeeded
  AllOrNothing
  AuditChained PlanBacked
  GrantsAccountable
  StrongestWins
  CheckoutKept
PROPERTIES CallsEnd ToolCallsEnd
CHECK_DEADLOCK FALSE
