SPECIFICATION Spec
CONSTANTS
  Engines = {e1}
  StartStage = "execute_tools"
  Handled <- AllStages
  Correcting = {"blind_review"}
  Changing = {"corrective_round"}
  Findings = {}
  max_corrective_rounds = 2
  repeat_limit = 2
  MaxVersion = 1
  MaxRestarts = 0
  Nil = Nil
INVARIANTS CorrectionRetested
CHECK_DEADLOCK FALSE
