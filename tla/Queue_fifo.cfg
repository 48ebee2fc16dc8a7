SPECIFICATION FairSpec
CONSTANTS
  t1 = t1
  t2 = t2
  n1 = n1
  n2 = n2
  Writers <- TwoWriters
  Nodes <- TwoNodes
  EmptyDummy = EmptyDummy
  BlockedDummy = BlockedDummy
  Null = Null
  MaxMsgs = 3
INVARIANTS
  TypeOK
  MemorySafe
  FetchIsLegal
  NoLostWakeup
PROPERTIES
  ImplementsMailbox
  SleeperWakes
