CONSTANTS
  Requesters <- MCRequesters
  Responses <- MCResponses
  RspWrap = 2
  MaxItags = 2
  Sizes <- OnlySmall
  Slots = 2
  Commands <- OneInvalAndFence
  CapATS = TRUE
  Wired = TRUE
  MemoryFaults = FALSE
  Coalesce = TRUE
  MaxLate = 1
  ResetInUse = FALSE
  CieWrites <- AlwaysCie
  AckWrites <- AckAll
SPECIFICATION FairSpec
PROPERTIES FenceResolves
