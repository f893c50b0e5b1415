SPECIFICATION FairSpec
CONSTANTS
  NumLayers = 5
  KvCapacity = 2
  NumExamples = 1
  a = a
  b = a
  Content <- MCContent
  Zero = Zero
  Fresh = Fresh
  NoKv = NoKv
  CheckLayersOf <- MCCheckLayersOf
  KeepNumOf <- MCKeepNumOf
PROPERTIES
  ForwardEnds
  RefinesFairFeed
