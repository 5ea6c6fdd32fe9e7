SPECIFICATION Spec
CONSTANTS
  Engines = {e1}
  StartStage = "execute_tools"
  Handled <- AllStages
  Correcting = {"final_verification"}
  Changing = {}
  Findings = {}
  max_corrective_rounds = 2
  repeat_limit = 2
  MaxVersion = 0
  MaxRestarts = 1
  Nil = Nil
INVARIANTS DraftUnblocked
CHECK_DEADLOCK FALSE
