CONSTANTS
  None = None
  idle = idle
  u1 = u1
  u2 = u2
  u3 = u3
  l1 = l1
  e1 = e1
  zero = zero
  code = code
  Idle = idle
  Files <- ThreeFiles
  Locks = {l1}
  Events = {e1}
  MaxPriority = 2
  DefaultQuantum = 1
  IdleQuantum = 1
  Program <- Programs
  TotalPages = 3
  NumRegions = 1
  PagesPerRegion = 1
  Size <- Sizes
  Image <- Images
  Data = {zero, code}
  Zero = zero
  MaxVPage <- Bounds
SPECIFICATION Spec
INVARIANTS
  GoneLeaveNothing
  OnlyTheKilledKeepMemory
  FirstListedStartsFirst
PROPERTY
  OthersPagesStay
