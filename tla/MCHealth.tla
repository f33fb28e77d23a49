------------------------------ MODULE MCHealth ------------------------------
(* An instance of the health monitors small enough for TLC; the values are in *)
(* the configurations.                                                     *)
EXTENDS FeedHealth
=============================================================================
