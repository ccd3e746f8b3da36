SPECIFICATION WatchedSpec
CONSTANTS
  Loads <- MCLoads
  OsStores <- MCOsStores
  OsReplies = {0}
  Leftovers = {0}
  Debug = FALSE

INVARIANT LongArithmeticRight
PROPERTIES JumpsDecideComparison PopsFindPushed
