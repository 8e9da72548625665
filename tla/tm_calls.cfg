SPECIFICATION Spec
CONSTANTS
  Tools = {hammer}
  ConfiguredTools = {hammer}
  VerifyGraspMaxRetries = 1
  Commands = {"reset", "stop", "fetch_tool", "resume"}
  FaultLevels = {"PROTECTIVE_STOP"}
  FaultTexts = {"collision"}
  LateTracks = TRUE
  Flaky = {"set_mode", "recover", "robot_task"}
  MaxCalls = 2
INVARIANTS
  GoalTracked
  CancelTracked
  RecoveryTracked
  NormalTaskIsWatched
  
