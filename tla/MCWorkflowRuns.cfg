SPECIFICATION FairSpec
CONSTANTS
  Engines = {e1, e2}
  StartStage = "run_skills"
  Handled <- UpToReview
  Correcting = {"run_skills"}
  Changing = {"corrective_round"}
  Findings = {f1}
  max_corrective_rounds = 1
  repeat_limit = 2
  MaxVersion = 1
  MaxRestarts = 1
  Nil = Nil
INVARIANTS PathBacked CorrectionsBudgeted RecordedOnce
PROPERTIES RunsEnd
CHECK_DEADLOCK FALSE
