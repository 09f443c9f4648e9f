-------------------------- MODULE MCResponseStream --------------------------
(* Small instances of ResponseStream for TLC.                              *)
EXTENDS ResponseStream
=============================================================================
