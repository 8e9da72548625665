SPECIFICATION Spec
CONSTANTS
  PullSamples = 2
  ResetBelow = 2
INVARIANTS
  GoalLeavesArmSafe
  OpensAsPromised
PROPERTIES
  ContactReported
  CancelEndsGoal
