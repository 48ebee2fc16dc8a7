---------------------------- MODULE MCWorkSharing ----------------------------
(* An instance of WorkSharing for TLC.                                       *)
EXTENDS WorkSharing

CONSTANTS w1, w2, w3, j1, j2, j3

ThreeWorkers == {w1, w2, w3}
ThreeJobs    == {j1, j2, j3}
=============================================================================
