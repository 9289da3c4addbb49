SPECIFICATION Spec
CONSTANTS
  Threads = {m, a}
  Main = m
  Orphaned = orphaned
  OsChunks = {o1, o2}
  small = small
  large = large
  ChunkIndex <- MCChunkIndex
  Slots <- MCSlots
  MaxKeptOSChunks = 1
  Nil = Nil
INVARIANTS
  KeptBound
