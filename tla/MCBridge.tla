------------------------------ MODULE MCBridge ------------------------------
(* Instances of the bridge small enough for TLC.                            *)
EXTENDS BridgeTransport

ThreeTicksOneDom == [tick |-> 3, dom |-> 1]
ThreeTicks       == [tick |-> 3, dom |-> 0]
TwoTicks         == [tick |-> 2, dom |-> 0]
SecondTickIsBad  == [tick |-> {2}, dom |-> {}]
SecondTickIsRefused == [tick |-> {2}, dom |-> {}]
ThirdTickIsRefused == [tick |-> {3}, dom |-> {}]
AllLinesGood     == [tick |-> {}, dom |-> {}]
=============================================================================
