SPECIFICATION Spec
CONSTANTS
  a = a
  X1 = X1
  NoRecord = NoRecord
  BaseName = {a, X1}
  Extension = {"func", "lis", "py", "sys"}
  SystemExtension = "sys"
  ScriptExtension = "py"
  VetoableExtension = {"lis"}
  Precedence <- MCPrecedence
  Reserved <- MCReserved
  SizeOfBase <- MCSizeOfBase
  SizeOfExtension <- MCSizeOfExtension
  SystemRecords <- MCSystemRecords
  EndOfSystemRecords = 11
  TotalSize = 27
  SizeOfHeader = 1
  Value = {0, 2}
  SizeOfValue <- MCSizeOfValue
INVARIANTS
  LayoutOK
  CacheOK
  NamesOK
PROPERTIES
  SystemRecordsNeverMove
  FailureChangesNothing
  DisplacementIsAllowed
  SweepEnds
  ImplementsRecordStore
CHECK_DEADLOCK FALSE
