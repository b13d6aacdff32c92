CONSTANTS
  Requesters <- MCRequesters
  Responses <- MCResponses
  RspWrap = 2
  MaxItags = 2
  Sizes <- OnlySmall
  Slots = 2
  Commands <- AllKinds
  CapATS = TRUE
  Wired = TRUE
  MemoryFaults = TRUE
  Coalesce = TRUE
  MaxLate = 0
  ResetInUse = FALSE
  CieWrites <- EitherCie
  AckWrites <- AckAllOrNone
SPECIFICATION Spec
INVARIANTS TypeOK TimeoutFlagIsReal BusyOnlyBehindFence WaitHasCause
PROPERTIES FenceGuarantee HeadMovesOverDoneCommands SilentOnlyByLateEnable 
