SPECIFICATION Spec
CONSTANTS
  Items = {"apple", "egg"}
  Receptacles = {"sofa", "fridge"}
  Openable = {"fridge"}
  Toggleable = {}
  ShortNames = {"egg", "sofa"}
  NumTasks = 1
  MaxSteps = 3
  DropCanFail = FALSE
INVARIANTS
  FailedPutDrops
CHECK_DEADLOCK FALSE
