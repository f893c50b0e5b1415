SPECIFICATION Spec
CONSTANTS
  NumFile = 4
  Asked = 2
  MaxSimilarity = 2
INVARIANTS
  TopKSelected
