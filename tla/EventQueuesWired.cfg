CONSTANTS
  Vectors <- OneVector
  Sizes <- SmallAndLarge
  Slots = 4
  Causes <- OneCause
  Requests <- LastAndStop
  Wired = TRUE
  Active <- OnlyPageRequests
  MemoryFaults = TRUE
  Maps <- SharedMap
  IeWrites <- AlwaysIe
  AckWrites <- AckAllOrNone
  Blank = Blank
  v0 = v0
  v1 = v1
SPECIFICATION Spec
PROPERTIES KeepsFaultLog KeepsPageLog AnsweredOnce
