CONSTANTS
  NumHpm = 3
  Wrap = 4
  Half = 2
  EventLimit = 2
  IdBits = 3
  Events <- SomeEvents
  Selectors <- SomeSelectors
  Loads = {1, 2}
  Wsi <- BothKinds
  NoLoad = NoLoad
SPECIFICATION Spec
INVARIANTS TypeOK OverflowIsNoticed 
