SPECIFICATION Spec
CONSTANTS
  Pollers = {poll}
  Recoverers = {r1, r2}
  Goals = {g1, g2}
  RobotStates = {"STANDBY", "SAFE_STOP"}
  MaxFaults = 1
  ClientBreaks = TRUE
SYMMETRY Symmetric
INVARIANTS
  ManagerKnows
  OneGoalExecutes
  BusyOnlyWithLostGoals
