SPECIFICATION Spec
CONSTANTS
  Calculation = {1, 3, 9}
  SizeOf <- MCSizeOf
  BufferSize = 11
  SizeOfOffset = 2
  NoCalculation = 0
INVARIANTS
  StoreReadable
  AreasDisjoint
PROPERTIES
  PushKeepsTheMost
  RememberedIsTaken
