CONSTANTS
  Requesters <- MCRequesters
  Responses <- OneResponse
  RspWrap = 2
  MaxItags = 2
  Sizes <- OnlySmall
  Slots = 2
  Commands <- InvalAndFence
  CapATS = TRUE
  Wired = TRUE
  MemoryFaults = FALSE
  Coalesce = FALSE
  MaxLate = 1
  ResetInUse = FALSE
  CieWrites <- AlwaysCie
  AckWrites <- AckAll
SPECIFICATION FairSpec
INVARIANTS PrematureOnlyByLateAnswer
PROPERTIES WaitsShrink FenceResolves StallResolves DisableCompletes
