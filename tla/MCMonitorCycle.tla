--------------------------- MODULE MCMonitorCycle ---------------------------
\* Instances of MonitorCycle for TLC: three events, two of them of one type.
EXTENDS MonitorCycle

CONSTANTS a, b, c

TypeOf == [f \in {a, b, c} |-> IF f = c THEN "network" ELSE "gpu"]
RankOf == [f \in {a, b, c} |-> IF f = c THEN 2 ELSE 1]
HashOf == [f \in {a, b, c} |-> IF f = a THEN 1 ELSE IF f = b THEN 2 ELSE 3]
=============================================================================
