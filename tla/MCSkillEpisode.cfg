SPECIFICATION FairSpec
CONSTANTS
  Items = {"apple", "box"}
  Receptacles = {"box", "microwave"}
  Openable = {"box", "microwave"}
  Toggleable = {"microwave"}
  ShortNames = {"box"}
  NumTasks = 1
  MaxSteps = 4
  DropCanFail = TRUE
INVARIANTS
  TypeOK
  PlaceTold
PROPERTIES
  SuccessTold
  TaskEnds
CHECK_DEADLOCK FALSE
