SPECIFICATION Spec
CONSTANTS
  s1 = s1
  s2 = s2
  w1 = w1
  w2 = w2
  Senders <- OneSender
  Workers <- TwoWorkers
  MaxThroughput = 2
  MaxMsgs = 4
  NDEBUG = FALSE
INVARIANTS
  TypeOK
  SingleReader
  FifoDelivery
  RefBalance
