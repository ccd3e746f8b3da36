SPECIFICATION Spec
CONSTANTS
  MaxRuntimes = 3
  Cells = {0}
  Words = {0}
  Codes = {0}
  Garbage = {0}
  Breaks = {15, 16}
  StackPointers = {4196}
  Images <- TwoImages
  Descriptors = {3}
  Lengths = {1, 65535}
  Callers = {2}
INVARIANTS TypeOK FramesNest WaitIsDecided BreakAboveData
PROPERTIES WaitAnswersFork PidsAreFresh FailuresChangeNothing
