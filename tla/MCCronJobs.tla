----------------------------- MODULE MCCronJobs -----------------------------
\* Schedules for model checking: one job every Period, one at a single time.
EXTENDS CronJobs

CONSTANTS hourly, once
MCOccurs == [j \in Jobs |-> IF j = hourly THEN {0, 2, 4} ELSE {3}]
=============================================================================
