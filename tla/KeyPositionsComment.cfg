SPECIFICATION Spec
CONSTANTS
  LastModule = 2
  FirstExample = 2
  MaxLength = 1
  NumLayers = 3
INVARIANTS
  LoadedKeysAtPlace
