------------------------------- MODULE MCApps -------------------------------
(* An instance of the two programs small enough for TLC.                      *)
EXTENDS BridgeApps

SecondLineIsBad == {2}
=============================================================================
