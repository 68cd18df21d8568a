-------------------------- MODULE MCCronSchedules --------------------------
(* A small instance of CronSchedules for TLC. *)
EXTENDS CronSchedules

\* A cron expression is its period.
Periodic(cron, time) == ((time \div cron) + 1) * cron

\* One schedule's expression may be changed, the other's not.
SomeCrons ==
    LET busy == CHOOSE s \in Schedules : TRUE
    IN  [s \in Schedules |-> IF s = busy THEN {1, 2} ELSE {1}]
============================================================================
