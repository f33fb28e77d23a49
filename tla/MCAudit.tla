------------------------------- MODULE MCAudit -------------------------------
(* An instance of the audit: a window of three seconds with a checkpoint at each, prices    *)
(* that fork at each frame, and a day, a week and a month that end on the way.          *)
EXTENDS SignalAudit
MCQuotes == <<{10}, {12, 8}, {13}, {15, 9}, {12, 8}, {12, 14}, {16, 8}, {9},
              {14, 7}, {12}>>
MCLeans  == <<{"BUY", "NONE"}, {"BUY", "SELL"}, {"BUY", "SELL", "NONE"},
              {"BUY", "SELL"}, {"BUY", "SELL"}, {"BUY", "NONE"}, {"BUY", "SELL"},
              {"SELL"}, {"NONE"}, {"NONE"}>>
MCOffsets == {1, 2, 3}
MCEffects == {"HELPED"}
MCDay(t)   == t \div 3
MCWeek(t)  == t \div 6
MCMonth(t) == t \div 9
=============================================================================
