------------------------------ MODULE MCCronTicks ------------------------------
(* Periods for TLC: exact ones, ones that must be coarsened, and the edges of the fields. *)
EXTENDS CronTicks

MCPeriods == {30, 31, 45, 59, 60, 61, 300, 1500, 2700, 3599, 3600, 3601, 5400, 7200}
=============================================================================
