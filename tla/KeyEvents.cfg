SPECIFICATION EventsSpec
CONSTANTS
  HostKeys = {"shift"}
  PageKeys = {"alpha", "backspace"}
  Prefixes = {"lp"}
  Shift = "shift"
  Alpha = "alpha"
  Backspace = "backspace"
  Code <- MCCode
  ShiftKeys = {"alpha", "backspace"}
  AlphaKeys = {"backspace", "lp"}
  ShiftAlphaKeys = {"backspace", "lp"}
  Repeatable <- MCRepeatable
  HostEvents <- MCHostEvents
  KeyForAction <- MCKeyForAction
  QueueLength = 2
  MaxHeld = 2
  Watched = "shift"
  MaxOwed = 1
VIEW MCView
PROPERTIES
  PressesAreReal
  ReleasesAreSeen
  FiresOnce
CHECK_DEADLOCK FALSE
