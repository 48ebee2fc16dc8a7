---------------------------- MODULE MCRefCounting ----------------------------
(* RefCounting for TLC.                                                     *)
EXTENDS RefCounting
=============================================================================
