-------------------------- MODULE MCSingleReaderQueue --------------------------
(* An instance of SingleReaderQueue for TLC.                                 *)
EXTENDS SingleReaderQueue

CONSTANTS t1, t2, n1, n2

TwoWriters == {t1, t2}
TwoNodes   == {n1, n2}
=============================================================================
