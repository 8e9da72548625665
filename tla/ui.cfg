SPECIFICATION Spec
CONSTANTS
  Depth = 1
  MaxInbox = 1
  MaxFaults = 2
  MaxDeaths = 1
INVARIANTS
  FaultInView
  MicFreeForRecording
PROPERTIES
  
  FaultComesIntoView
  ClosingEnds
  ListensAgain
CHECK_DEADLOCK FALSE
