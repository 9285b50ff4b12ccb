SPECIFICATION Spec
CONSTANTS
  First = First
  Second = Second
  DataBit = {First, Second}
  Configurable = Configurable
  Cleared = Cleared
  Preset <- MCPreset
  Uninitialized <- MCUninitialized
  Lit <- MCPreset
  File = {f1, f2}
  Exam = Exam
  NoWrite = NoWrite
  Unpowered = Unpowered
  HostSwitches = TRUE
  HomeJumps = TRUE
  MaxResets = 2
PROPERTIES
  OnlySettingEndsExam
  ExamGoesOn
