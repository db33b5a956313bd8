------------------------------- MODULE MCFailover -------------------------------
EXTENDS Failover

CONSTANT DayCap

\* The month's cap is larger than the day's, as in BudgetConfig::default.
MCCap == [t \in Periods |-> IF t = "day" THEN DayCap ELSE DayCap + 1]
===============================================================================
