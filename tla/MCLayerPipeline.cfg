SPECIFICATION Spec
CONSTANTS
  NumLayers = 5
  KvCapacity = 2
  NumExamples = 1
  a = a
  b = b
  Content <- MCContent
  Zero = Zero
  Fresh = Fresh
  NoKv = NoKv
  CheckLayersOf <- MCCheckLayersOf
  KeepNumOf <- MCKeepNumOf
SYMMETRY ContentSymmetry
INVARIANTS
  PipelineInv
  ServedSound
  TableTruth
  RowsMatch
  ReusedStaysReused
PROPERTIES
  LoadsOnlyReused
  RefinesFeed
