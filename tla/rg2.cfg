SPECIFICATION Spec
CONSTANTS
  Retries = 1
  MaxDrops = 2
INVARIANTS
  AnswerMatchesGripper
PROPERTIES
  CallEnds
  DeadSocketReplaced
  Promised
