SPECIFICATION Spec
CONSTANTS
  MaxNumberOfObjects = 3
  BufferSize = 3
  Sizes = {1, 2}
  Slots = {1}
  MaxDepth = 3
  Careful = TRUE
INVARIANTS
  PoolWellFormed
  JumpTargetsAlive
  CheckpointedPartUntouched
  CountsAreExact
  HandlesNameObjects
PROPERTIES
  JumpRestores
CHECK_DEADLOCK FALSE
