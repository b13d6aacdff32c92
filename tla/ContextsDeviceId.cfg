CONSTANTS
  Devices <- EightBitAlias
  Processes <- TwoProcesses
  Accesses = {"r"}
  DdtCells <- SomeDdtCells
  PdtRoots <- Roots
  PdtCells <- SomePdtCells
  GuestTables <- OnlyQIsMapped
  Caps <- TwoLevels
  CacheSize = 2
  MaxStores = 2
  InitialDdt <- Ddt1
  InitialPdt <- Pdt1
  NoProcess = NoProcess
  NoContext = NoContext
  NoEntry = NoEntry
SPECIFICATION Spec
INVARIANTS WideIdsAreRefused
