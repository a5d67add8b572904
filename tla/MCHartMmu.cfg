SPECIFICATION Spec
CONSTANTS
  NPage = 2
  NWord = 2
  NIndex = 2
  Ways = 1
  EpochMod = 3
  None = None
  Pte <- MCPte
  Stvec <- MCStvec
  Ranges <- MCRanges
INVARIANTS
  
  
  ScAtomic

  
