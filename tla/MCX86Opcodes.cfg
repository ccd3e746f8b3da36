SPECIFICATION Spec
CONSTANTS
  Loads <- MCLoads
  OsStores <- MCOsStores
  OsReplies = {0}
  Leftovers = {0}
  Debug = FALSE
INVARIANT TypeOK
INVARIANT AddrFollowsPc
PROPERTY StoresStayInOperand
PROPERTY ListingInStep
PROPERTY ListingNamesChanges
PROPERTY MovesAsListed
