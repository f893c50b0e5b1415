SPECIFICATION ForwardSpec
CONSTANTS
  NumLayers = 48
  MaxModules = 20
  RatioNum = 96
  RatioDen = 100
  Scale = 1000000
  LastModule = 3
  FirstExample = 2
  MaxLength = 2
  MaxScore = 2
  MaxHops = 3
CHECK_DEADLOCK FALSE
INVARIANTS
  EveryCheckDrops
  LayersInOrder
  SomeLayerChecked
  KeptEnough
  BestKept
  NanContained
  SuffixInPlace
  RowsInOrder
