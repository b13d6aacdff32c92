CONSTANTS
  Levels1 = 2
  Levels2 = 2
  Span <- TwoToTheN
  GuestLimit = 8
  Cells <- AllCells
  Poisoned <- AnotherCell
  ReadOnly <- TwoCells
  Requests <- SomeRequests
  Stores <- SomeStores
  MaxStores = 2
  MsiMask = {0, 3}
  MsiPattern = {1, 2}
  PageBits = {0, 1, 2, 3}
  MsiTable <- SomeMsiPtes
  MsiMrif = TRUE
  InitialMem <- Tables
  NoCell = NoCell
SPECIFICATION Spec
INVARIANTS TypeOK AnswersAreMarked
PROPERTIES WritesOnlyMark TablesAreMarked WalkDescends WalkEnds
