SPECIFICATION Spec
CONSTANTS
  o1 = o1
  o2 = o2
  OsChunks <- MCOsChunks
  OsSize <- MCOsSize
  GrowHeapSize2 = 7
  MaxKeptOSChunks = 1
  GetSizes = {3, 4}
  ResizeSizes = {2, 3, 5}
  MinVar = 2
  MaxBlock = 3
  HeapWord = 32
  Nil = Nil
INVARIANTS
  UsedIsCounted
