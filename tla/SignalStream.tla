---------------------------- MODULE SignalStream ----------------------------
(***************************************************************************)
(* What the rest of the dashboard may take for granted about the decisions of        *)
(* consecutive frames: a frame favours at most one side, whatever the reason, and a    *)
(* decision is a side that was favoured in each of the last Window frames. The         *)
(* trading side of the dashboard (TradeLifecycle) is modelled on this stream.         *)
(***************************************************************************)
EXTENDS Integers

CONSTANT Window

VARIABLES
  side,      \* the side that the newest frames favour, or "NONE"
  count,     \* how many frames in a row, up to Window
  decision

stream == <<side, count, decision>>

Init == side = "NONE" /\ count = 0 /\ decision = "NO_TRADE"

Counted(s) == IF s = "NONE" THEN 0
              ELSE IF s # side THEN 1
              ELSE IF count < Window THEN count + 1 ELSE count

Frame(s) ==
  /\ side' = s /\ count' = Counted(s)
  /\ decision' = IF count' = Window THEN s ELSE "NO_TRADE"

Next == \E s \in {"BUY", "SELL", "NONE"} : Frame(s)

Spec == Init /\ [][Next]_stream
=============================================================================
