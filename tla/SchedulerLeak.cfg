SPECIFICATION Spec
CONSTANTS
  Group <- MCGroup
  Seqs <- MCSeqs
  Copies = 4
  GpuBlocks <- MCGpuBlocks
  CpuBlocks <- MCCpuBlocks
  Counts = {1, 2, 3, 4}
  BestOfs <- MCBestOfs
  PromptLens <- MCPromptLens
  BlockSize = 2
  MaxLen = 6
  PromptLimit = 7
  TokenBudget = 7
  MaxNumSeqs = 3
  Watermark = 1
  DelayFactor = TRUE
CHECK_DEADLOCK FALSE
INVARIANTS
  AllFreeAtTheEnd
