CONSTANTS
  Requesters <- MCRequesters
  Responses <- OneResponse
  RspWrap = 2
  MaxItags = 2
  Sizes <- SmallAndLarge
  Slots = 4
  Commands <- InvalAndFence
  CapATS = TRUE
  Wired = TRUE
  MemoryFaults = FALSE
  Coalesce = TRUE
  MaxLate = 0
  ResetInUse = FALSE
  CieWrites <- AlwaysCie
  AckWrites <- AckAll
SPECIFICATION Spec
INVARIANTS WaitingFenceIsAtHead
PROPERTIES KeepsFenceOrder
