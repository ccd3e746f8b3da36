SPECIFICATION WatchedSpec
CONSTANTS
  Loads <- MCLoads
  OsStores <- MCOsStores
  OsReplies = {0, 65522}
  Leftovers = {0}
  Debug = TRUE
PROPERTY StringRight
PROPERTY StringsEnd
PROPERTY PrefixIsSpent
