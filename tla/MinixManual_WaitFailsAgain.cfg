SPECIFICATION Spec
CONSTANTS
  MaxRuntimes = 3
  Cells = {0}
  Words = {0, 1}
  Codes = {0, 1}
  Garbage = {0}
  Breaks = {}
  StackPointers = {}
  Images <- OneImage
  Descriptors = {3}
  Lengths = {1}
  Callers = {}
INVARIANT WaitFailsAgain
