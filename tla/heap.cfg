CONSTANTS
  None = None
  HeapStart = 2
  InitialSize = 4
  PageSize = 2
  Sizes = {1, 2, 3, 5}
  MaxEnd = 10
SPECIFICATION Spec
INVARIANTS
  TypeOK
  HeapConsistent
  GrowthSuffices
PROPERTIES
  FirstFitIsExact
  ImplementsHeapService
