SPECIFICATION PlicSpec
CONSTANTS
  NHart = 2
  NCtx = 32
  Src = {1}
PROPERTIES
  EnableOwnContext
