\* Two Try blocks around two references each, on a stack of four blocks.
SPECIFICATION Spec
CONSTANTS
  MaxBlocks = 4
  MaxReferences = 2
  MaxDepth = 2
  Slots = {1, 2}
INVARIANTS
  ReferencesFollow
  IdentifiersNotShared
  MoveOverInvalidates
