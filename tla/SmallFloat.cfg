CONSTANTS
  MaxSize = 1200
  Requests = {0, 7, 15, 17, 118, 127, 128, 129, 450}
SPECIFICATION WalkSpec
CHECK_DEADLOCK FALSE
INVARIANTS
  RoundDownIsFloor
  RoundUpIsCeiling
  FitIsSound
