CONSTANTS
  Pages <- FourPages
  Iovas <- TwoPages
  Ranges <- PageRanges
  Contexts <- GuestAndHost
  Accesses <- ReadWrite
  Privileges = {"U", "S"}
  FirstTables <- Firsts
  SecondTables <- Seconds
  BareRange <- BareMapsAll
  TlbSize = 2
  FillAts = {"T2GPA"}
  WholeLeaf = FALSE
  MaxStores = 1
  NoEntry = NoEntry
SPECIFICATION Spec
INVARIANTS TypeOK Coherent AnswersAreInForce RefusalsAreInForce
