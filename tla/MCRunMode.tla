----------------------------- MODULE MCRunMode -----------------------------
(* Values for RunMode: every threshold one degree, every delay one minute    *)
(* and every interval two, but the delay of rule 7 and the interval after    *)
(* heating, which the BMS has set to 0.                                      *)
EXTENDS RunMode

MCAdjustTemp == [i \in 0..6 |-> 1]
MCChangeTime == [r \in Rules |-> IF r = 7 THEN 0 ELSE 1]
MCPeriod     == [p \in Intervals |-> IF p = 6 THEN 0 ELSE 2]
=============================================================================
