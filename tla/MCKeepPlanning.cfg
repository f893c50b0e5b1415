SPECIFICATION Spec
CONSTANTS
  o1 = o1
  o2 = o2
  a = a
  b = b
  q = q
  ObjId = {o1, o2}
  NoId = NoId
  Content = {a, b}
  NoContent = NoContent
  Query = {q}
  Length <- MCLength
  Similarity <- MCSimilarity
  StaticLength = 0
  KvCapacity = 1
  MaxPlace = 4
  NumLayers = 4
  NumExamples = 1
  Zero = Zero
  Fresh = Fresh
  NoKv = NoKv
  CheckLayersOf <- MCCheckLayersOf
  KeepNumOf <- MCKeepNumOf
SYMMETRY ObjSymmetry
INVARIANTS
  ReusesLastReport
PROPERTIES
  ImplementsPipeline
  ImplementsStore
