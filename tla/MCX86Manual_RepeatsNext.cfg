SPECIFICATION Spec
CONSTANTS
  Loads <- MCLoads
  OsStores <- MCOsStores
  OsReplies = {0}
  Leftovers = {0}
  Debug = FALSE
PROPERTY RepeatsNext
