------------------------------- MODULE MCTail -------------------------------
(* Instances of the journal small enough for TLC.                          *)
EXTENDS LiveTail

TwoReaders == {"dashboard", "validator"}
OneReader  == {"validator"}
=============================================================================
