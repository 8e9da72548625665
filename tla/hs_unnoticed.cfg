SPECIFICATION LiveSpec
CONSTANTS
  Pollers = {poll}
  Recoverers = {r1}
  Goals = {g1}
  RobotStates = {"STANDBY", "EMERGENCY_STOP"}
  MaxFaults = 1
  ClientBreaks = FALSE
PROPERTY EmergencyNoticed
