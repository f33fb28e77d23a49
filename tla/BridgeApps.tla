----------------------------- MODULE BridgeApps -----------------------------
(***************************************************************************)
(* The two command lines, bridge_sender and bridge_receiver, as an operator     *)
(* pairs them (sender/app.py, receiver/app.py): both over HTTP, or both with      *)
(* files, the receiver then tailing an inbox. The choice is made once, when the    *)
(* programs start.                                                         *)
(***************************************************************************)
EXTENDS BridgeBoard, BridgeInbox

VARIABLE wired   \* the sender has --url and the receiver --http

avars == <<wired, bvars, ivars>>

AppsInit == wired \in BOOLEAN /\ BInit /\ IInit

OverHttp == wired /\ BNext /\ UNCHANGED <<wired, ivars>>
OverFiles == ~wired /\ INext /\ UNCHANGED <<wired, bvars>>

AppsNext == OverHttp \/ OverFiles

AppsSpec == AppsInit /\ [][AppsNext]_avars /\ BFairness
=============================================================================
