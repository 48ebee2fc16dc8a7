----------------------------- MODULE MCExamples -----------------------------
(* Examples for TLC; the .cfg files choose the programs and the bounds.     *)
EXTENDS Examples
=============================================================================
