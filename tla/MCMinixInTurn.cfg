SPECIFICATION InTurnSpec
CONSTANTS
  MaxRuntimes = 3
  Cells = {0}
  Words = {0, 1}
  Codes = {0, 1}
  Garbage = {0}
  Breaks = {15}
  StackPointers = {4196}
  Images <- OneImage
  Descriptors = {3}
  Lengths = {1, 65535}
  Callers = {2}
PROPERTIES ImplementsUnix FailuresChangeNothing
