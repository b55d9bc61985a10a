SPECIFICATION SpecCommandLine
CONSTANTS
  FixedCells = 2
  MaxNames = 2
  MaxPayload = 2
  MaxEntries = 3
  Capacity = 5
  Missing = Missing
  Tree <- MCTree
  RootLists <- MCRootLists
  Losses <- MCLosses
  Archives <- MCArchives
  Outdirs <- MCOutdirs
INVARIANTS OkCoversAllAsked
CHECK_DEADLOCK FALSE
