SPECIFICATION Spec
CONSTANTS
  Files <- MCFiles
  RootPath <- MCRootPath
  CommandLines <- MCCommandLines
  Requests <- MCRequests
  V6Calls <- MCV6Calls
  Leftovers = {0, 9}
INVARIANTS TypeOK ArgumentsArrive StackAligned ImageIntact
PROPERTY V6CallsAsListed
