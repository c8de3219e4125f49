CONSTANTS
  None = None
  p1 = p1
  p2 = p2
  p3 = p3
  zero = zero
  code = code
  Pids = {p1, p2, p3}
  TotalPages = 5
  NumRegions = 3
  PagesPerRegion = 2
  Size <- GrowingSizes
  Image <- Images
  Data = {code}
  Zero = code
  Growers = {p1}
  MaxVPage <- GrowingBounds
  MaxGrowth = 2
SPECIFICATION Spec
INVARIANTS
  FramesConserved
  MappedFramesAreOwn
CHECK_DEADLOCK FALSE
