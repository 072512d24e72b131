\* A note on a closed task between an interrupted archive run and the next one.
SPECIFICATION Spec
CONSTANTS
  MaxTasks = 1
  MaxText = 1
  PromptRepair = FALSE
PROPERTY RefinesLedger
CHECK_DEADLOCK FALSE
