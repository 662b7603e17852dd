-------------------------------- MODULE CronTicks --------------------------------
(***************************************************************************)
(* How often a periodic task of the worker runs: cron_ticks turns a period *)
(* of the configuration into the fields of an ARQ cron entry, cron_entry   *)
(* registers it (app/workers/scheduler.py), and ARQ fires it at every      *)
(* second whose fields match.  The reconciliation pass is registered this  *)
(* way (JOB_RECONCILIATION_INTERVAL_SECONDS: an integer, at least 30).     *)
(*                                                                         *)
(* Periods and clock are in seconds.  A step is the second, or the minute  *)
(* where the entry can only fire at second 0.                              *)
(***************************************************************************)
EXTENDS Integers

CONSTANTS
  Periods,  \* the intervals asked for, positive numbers of seconds
  Horizon   \* a bound on the clock, for TLC

VARIABLES
  asked,  \* the configured interval
  clock,  \* since midnight of the worker's first day
  fired   \* when the task was last started, Never before the first time

cronVars == <<asked, clock, fired>>

Never == -1

-----------------------------------------------------------------------------
(* cron_ticks                                                              *)

\* How many values a field has, and how many seconds one stands for.
Span == [second |-> 60, minute |-> 60, hour |-> 24]
Unit == [second |-> 1, minute |-> 60, hour |-> 3600]

\* SECOND_TICKS, MINUTE_TICKS, and the hours that tile a day.
Ticks ==
  [second |-> {1, 2, 3, 4, 5, 6, 10, 12, 15, 20, 30},
   minute |-> {1, 2, 3, 4, 5, 6, 10, 12, 15, 20, 30},
   hour |-> {1, 2, 3, 4, 6, 8, 12, 24}]

FieldFor(period) == IF period < 60 THEN "second" ELSE IF period <= 3600 THEN "minute" ELSE "hour"

\* The ticks that are not finer than asked, the whole field when there is none.
Coarser(field, period) == {n \in Ticks[field] : n * Unit[field] >= period}

Tick(field, period) ==
  IF Coarser(field, period) = {} THEN Span[field]
  ELSE CHOOSE n \in Coarser(field, period) : \A k \in Coarser(field, period) : n <= k

\* CronTick: the field that is filled, its values and the interval it is meant to run at.
CronTick(period) ==
  LET field == FieldFor(period)  tick == Tick(field, period)
  IN [field |-> field, values |-> {v \in 0 .. Span[field] - 1 : v % tick = 0},
      interval |-> tick * Unit[field], exact |-> tick * Unit[field] = period]

\* ARQ: a field that is not given matches any value, except that the second is 0.
Fires(entry, t) ==
  CASE entry.field = "second" -> t % 60 \in entry.values
    [] entry.field = "minute" -> t % 60 = 0 /\ (t \div 60) % 60 \in entry.values
    [] entry.field = "hour"   -> t % 60 = 0 /\ (t \div 3600) % 24 \in entry.values

-----------------------------------------------------------------------------
(* The worker                                                              *)

CronInit == asked \in Periods /\ clock = 0 /\ fired = Never

Step(entry) == IF entry.field = "second" THEN 1 ELSE 60

CronNext ==
  /\ clock + Step(CronTick(asked)) <= Horizon
  /\ clock' = clock + Step(CronTick(asked))
  /\ fired' = IF Fires(CronTick(asked), clock') THEN clock' ELSE fired
  /\ UNCHANGED asked

CronSpec == CronInit /\ [][CronNext]_cronVars

-----------------------------------------------------------------------------
(* Properties                                                              *)

DayLong == 86400

AtMost(a, b) == IF a <= b THEN a ELSE b

\* A task is not started again before the interval asked for, or a day, has passed since
\* its last start ("never *finer* than requested", scheduler.py:67).  Holds up to an hour
\* (TimesProofs); above, an entry that gives only the hour fires every minute of it.
NeverFiner ==
  [][fired' # fired /\ fired # Never => fired' - fired >= AtMost(asked, DayLong)]_cronVars
=============================================================================
