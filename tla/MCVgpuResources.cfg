SPECIFICATION Spec
CONSTANTS
  Id = {1, 2}
  NScanout = 2
  MaxHostmem = 6
  Offsets = {0, 1}
  None = None
  Modes <- MCModes
  Sizes <- MCSizes
  Backings <- MCBackings
  Rects <- MCRects
INVARIANTS
  HostmemExact
  BindingsLive
  ShownIsBound
  CopiesExact
  
PROPERTIES
  ErrorsChangeNothing
