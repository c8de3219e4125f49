CONSTANTS
  None = None
  p1 = p1
  p2 = p2
  p3 = p3
  zero = zero
  code = code
  Pids = {p1, p2, p3}
  TotalPages = 3
  NumRegions = 1
  PagesPerRegion = 1
  Size <- SmallSizes
  Image <- Images
  Data = {zero, code}
  Zero = zero
  Growers = {}
  MaxVPage <- SmallBounds
  MaxGrowth = 1
SPECIFICATION Spec
INVARIANTS
  TypeOK
  FrameMapConsistent
  CleanCopiesAreCurrent
  SlotsConserved
  FaultsResolve
PROPERTIES
  LastUsedPageStays
  ImplementsVirtualMemory
CHECK_DEADLOCK FALSE
