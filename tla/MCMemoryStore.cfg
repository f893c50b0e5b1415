SPECIFICATION Spec
CONSTANTS
  o1 = o1
  o2 = o2
  o3 = o3
  a = a
  b = b
  q1 = q1
  q2 = q2
  ObjId = {o1, o2, o3}
  NoId = NoId
  Content = {a, b}
  NoContent = NoContent
  Query = {q1, q2}
  Length <- MCLength
  Similarity <- MCSimilarity
  StaticLength = 1
  KvCapacity = 2
  MaxPlace = 6
  MaxFailures = 2
SYMMETRY ObjSymmetry
CHECK_DEADLOCK FALSE
INVARIANTS
  TypeOK
  MessagesCounted
  NeverStale
  NothingForgotten
  ApartByFailures
  FedMostSimilar
PROPERTIES
  LayoutChangeFlagged
