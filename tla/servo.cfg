SPECIFICATION Spec
CONSTANTS
  Tool = {hammer, wrench}
  NoTool = NoTool
  FistFrames = 2
  NStable = 1
  NStableZ = 2
  NStableV = 2
  NStableYaw = 2
INVARIANTS
  HeightOfTheGrasp
  NoDescentOnceReached
PROPERTIES
  FistOfThisHandover
  ClosesOnlySteady
  LoopEnds
