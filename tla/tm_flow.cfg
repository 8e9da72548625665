SPECIFICATION Spec
CONSTANTS
  Tools = {hammer, saw}
  ConfiguredTools = {hammer}
  VerifyGraspMaxRetries = 0
  Commands = {"reset", "stop", "mode_switch", "move_named", "fetch_tool"}
  FaultLevels = {"PROTECTIVE_STOP"}
  FaultTexts = {"collision"}
  LateTracks = FALSE
  Flaky = {"recover"}
  MaxCalls = 2
INVARIANTS
  IdleMeansStill
  GoalMatchesState
  GraspBacksHandover
  VisionServesTask
PROPERTY
  Supervised
