SPECIFICATION Spec
CONSTANTS
  Tools = {hammer}
  ConfiguredTools = {hammer}
  VerifyGraspMaxRetries = 1
  Commands = {"reset", "stop", "fetch_tool", "resume"}
  FaultLevels = {"EMERGENCY_STOP"}
  FaultTexts = {"collision"}
  LateTracks = FALSE
  Flaky = {}
  MaxCalls = 2
INVARIANT GraspBacksHandover
