SPECIFICATION Spec
CONSTANTS
  s1 = s1
  s2 = s2
  w1 = w1
  w2 = w2
  Senders <- TwoSenders
  Workers <- TwoWorkers
  MaxThroughput = 2
  MaxMsgs = 2
  NDEBUG = TRUE
INVARIANT
  SingleReader
