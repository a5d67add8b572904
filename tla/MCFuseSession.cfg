SPECIFICATION Spec
CONSTANTS
  dir = dir
  file1 = file1
  file2 = file2
  root = root
  name1 = name1
  name2 = name2
  Trees <- MCTrees
  MaxChanges = 2
  File <- MCFile
  Dir <- MCDir
  Root = root
  Name = {name1, name2}
  Numberings <- MCNumberings
  MaxFd = 1
  None = None
INVARIANTS
  NodesResolve
  FileReached
  HandlesBalanced
