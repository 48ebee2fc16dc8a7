SPECIFICATION Spec
CONSTANTS
  Threads = {t1, t2}
  Objects = {a}
  Null = null
  Vars = {v, w}
  MaxJobs = 2
  Bytes = 24
  Alignments = {1, 8, 16, 32, 64}
  Heap = {32, 48}
  Word = 8
INVARIANTS
  TypeOK
  CountExact
  DeleteIsLast
  DeleteIsLegal
  BlockFits
PROPERTY GarbageIsFreed
CHECK_DEADLOCK FALSE
