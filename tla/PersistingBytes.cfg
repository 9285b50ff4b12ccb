SPECIFICATION Spec
CONSTANTS
  DeviceName = DeviceName
  ExamBytes = ExamBytes
  NoEntry = NoEntry
  NoWrite = NoWrite
  Off = Off
  Entry = {DeviceName, ExamBytes}
  Bit = {1, 2, 3}
  Slots <- MCSlots
  Default <- MCDefault
  Data <- MCData
  Factory <- MCFactory
INVARIANTS
  WriteTakes
PROPERTY
  ImplementsPersistentRegisters
