------------------------ MODULE MCCooperativeActor ------------------------
(* Instances of CooperativeActor for TLC.                                  *)
EXTENDS CooperativeActor, TLC

CONSTANTS s1, s2, w1, w2

OneSender  == {s1}
TwoSenders == {s1, s2}
OneWorker  == {w1}
TwoWorkers == {w1, w2}
=============================================================================
