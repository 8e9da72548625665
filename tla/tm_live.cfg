SPECIFICATION LiveSpec
CONSTANTS
  Tools = {hammer}
  ConfiguredTools = {hammer}
  VerifyGraspMaxRetries = 0
  Commands = {"reset", "stop", "move_named", "fetch_tool", "resume"}
  FaultLevels = {"EMERGENCY_STOP"}
  FaultTexts = {"collision"}
  LateTracks = TRUE
  Flaky = {}
  MaxCalls = 2
PROPERTIES
  VisionWaitsEnd
  CancellingEnds
  RecoveryDecided
