CONSTANTS
  Vectors <- TwoVectors
  Sizes <- OnlySmall
  Slots = 2
  Causes <- OneCause
  Requests <- OnlyLast
  Wired = FALSE
  Active <- FaultsCommandsCounters
  MemoryFaults = TRUE
  Maps <- BothMaps
  IeWrites <- EitherIe
  AckWrites <- AckAllOrNone
  Blank = Blank
  v0 = v0
  v1 = v1
SPECIFICATION Spec
INVARIANTS TypeOK OthersWithheldArePending
PROPERTIES NewsPends SilentOnlyByLateEnable
