SPECIFICATION FairSpec
CONSTANTS
  w1 = w1
  w2 = w2
  w3 = w3
  j1 = j1
  j2 = j2
  j3 = j3
  Workers <- ThreeWorkers
  Jobs <- ThreeJobs
  Helper = Helper
  NoJob = NoJob
  NoWorker = NoWorker
INVARIANTS
  TypeOK
  WorkConserving
  JobAtOnePlace
  UnlockedAccessIsSafe
  RoundsCountWorkers
  StopIsClean
PROPERTIES
  StopReturns
  JobGetsTurn
