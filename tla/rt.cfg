SPECIFICATION Spec
INVARIANTS
  GoalLeavesArmStill
  GraspSettled
PROPERTIES
  UnfedArmStops
  CancelEndsGoal
