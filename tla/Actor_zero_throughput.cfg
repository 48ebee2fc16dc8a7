SPECIFICATION FairSpec
CONSTANTS
  s1 = s1
  s2 = s2
  w1 = w1
  w2 = w2
  Senders <- TwoSenders
  Workers <- OneWorker
  MaxThroughput = 0
  MaxMsgs = 3
  NDEBUG = FALSE
PROPERTIES
  ZeroThroughputAborts
