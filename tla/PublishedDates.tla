----------------------------- MODULE PublishedDates -----------------------------
(***************************************************************************)
(* How the dates a source publishes are read (app/utils/dates.py).         *)
(*                                                                         *)
(* A text is what its words say, not its characters: the form of the date, *)
(* the clock time if there is one, the numeric UTC offset if there is one  *)
(* and whether the date or the clock comes first.  Instants are minutes of *)
(* UTC since the start of 2000; seconds are left out, so the end of a day  *)
(* is its last minute.  Left out as well: a trailing "Z", values that      *)
(* arrive as date or datetime objects, which no connector sends, and an    *)
(* offset of a day or more, on which the reader raises.                    *)
(***************************************************************************)
EXTENDS Integers, FiniteSets

CONSTANTS
  None,         \* no value: null
  LocalOffset   \* of the source's time zone, in minutes

ASSUME LocalOffsetAssumption == LocalOffset \in -720 .. 840

ASSUME NoneAssumption == None \notin Int /\ None \notin {"am", "pm"}

\* 2026-09-15, 2026/09/15, 15-09-2026, 15/09/2026 (or with dots), 15 September 2026 (or
\* September 15, 2026), and words without a date.
Forms == {"iso", "isoSlashed", "dayFirst-", "dayFirst/", "named", "none"}

\* half: the am or pm after it.
Clocks == [h : Nat, mi : 0 .. 99, half : {"am", "pm", None}]

Zones == -1439 .. 1439

Texts ==
  [form : Forms, y : 2000 .. 2099, m : Nat, d : Nat, clock : Clocks \cup {None},
   zone : Zones \cup {None}, clockFirst : BOOLEAN]

-----------------------------------------------------------------------------
(* The calendar                                                            *)

IsLeap(y) == y % 4 = 0 /\ (y % 100 # 0 \/ y % 400 = 0)

LastDay(y, m) == <<31, IF IsLeap(y) THEN 29 ELSE 28, 31, 30, 31, 30, 31, 31, 30, 31, 30, 31>>[m]

\* Of a year without 29 February.
DaysBeforeMonth == <<0, 31, 59, 90, 120, 151, 181, 212, 243, 273, 304, 334>>

\* _safe_date: the day's number, None if there is no such day.
SafeDate(y, m, d) ==
  IF m \in 1 .. 12 /\ d \in 1 .. LastDay(y, m)
  THEN (y - 2000) * 365 + (y - 1997) \div 4 + DaysBeforeMonth[m]
       + (IF m > 2 /\ IsLeap(y) THEN 1 ELSE 0) + d - 1
  ELSE None

Day == 24 * 60
Midnight == 0
EndOfDay == Day - 1

\* Wall-clock time (minutes into a day) at a UTC offset.
Instant(day, time, offset) == day * Day + time - offset

-----------------------------------------------------------------------------
(* The parts of a text                                                     *)

\* _extract_date: each form has one reading, except that numbers which are no day-first
\* date are tried month-first.
DayFirstDate(t) ==
  IF (t.d > 12 /\ 12 >= t.m) \/ t.m <= 12
  THEN LET dayFirst == SafeDate(t.y, t.m, t.d)
       IN IF dayFirst # None THEN dayFirst ELSE SafeDate(t.y, t.d, t.m)
  ELSE None

DateIn(t) ==
  CASE t.form = "none"                       -> None
    [] t.form \in {"dayFirst-", "dayFirst/"} -> DayFirstDate(t)
    [] OTHER                                 -> SafeDate(t.y, t.m, t.d)

HourHalfAdded(c) == IF c.half = "pm" THEN c.h + 12 ELSE c.h   \* a mutant

\* _extract_time
Hour(c) == CASE c.half = "pm" /\ c.h < 12 -> c.h + 12
             [] c.half = "am" /\ c.h = 12 -> 0
             [] OTHER                     -> c.h

TimeOf(c) == IF Hour(c) <= 23 /\ c.mi <= 59 THEN Hour(c) * 60 + c.mi ELSE None

TimeIn(t) == IF t.clock = None THEN None ELSE TimeOf(t.clock)

\* _TZ_OFFSET_RE: a sign and four digits at the end of the text.  They may be the year of
\* a date written with hyphens.
EndsInYear(t) == t.form = "dayFirst-" /\ t.zone = None /\ (t.clock = None \/ t.clockFirst)

OffsetIn(t) ==
  CASE t.zone # None -> t.zone
    [] EndsInYear(t) -> -(((t.y \div 100) * 60) + (t.y % 100))
    [] OTHER         -> None

\* datetime.fromisoformat accepts it: the date first, the clock a 24-hour one.
IsIsoTimestamp(t) ==
  /\ t.form = "iso" /\ DateIn(t) # None /\ ~t.clockFirst
  /\ t.clock # None => t.clock.half = None /\ TimeIn(t) # None

Or(value, default) == IF value = None THEN default ELSE value

\* What parse_datetime returns; confidence is in hundredths.
Parsed == [value : Int \cup {None}, hasTime : BOOLEAN, confidence : {0, 70, 90, 100}]

Unread == [value |-> None, hasTime |-> FALSE, confidence |-> 0]

\* parse_datetime: the ISO path takes a date without a time for midnight, whatever default
\* the caller asked for.
ParseDatetime(t, default) ==
  LET hasTime == TimeIn(t) # None
      offset == OffsetIn(t)
  IN CASE IsIsoTimestamp(t) ->
            [value |-> Instant(DateIn(t), Or(TimeIn(t), Midnight), Or(t.zone, LocalOffset)),
             hasTime |-> hasTime, confidence |-> 100]
       [] ~IsIsoTimestamp(t) /\ DateIn(t) = None -> Unread
       [] OTHER ->
            [value |-> Instant(DateIn(t), Or(TimeIn(t), default), Or(offset, LocalOffset)),
             hasTime |-> hasTime,
             confidence |-> IF offset # None \/ hasTime THEN 90 ELSE 70]

\* parse_closing_datetime: 23:59:59 local when only a date is published.
ParseClosing(t) == ParseDatetime(t, EndOfDay)

-----------------------------------------------------------------------------
(* What a reader of the text understands: the reference the parser is held *)
(* to.                                                                     *)

\* 09/15/2026 can only be month-first, and a day-first date that exists is one.
UnderstoodDate(t) ==
  LET days == {SafeDate(t.y, t.m, t.d)} \cup
              (IF t.form \in {"dayFirst-", "dayFirst/"} /\ t.m > 12
               THEN {SafeDate(t.y, t.d, t.m)} ELSE {})
  IN IF t.form = "none" \/ days \subseteq {None} THEN None
     ELSE CHOOSE day \in days : day # None

\* A twelve-hour clock counts from 12; a twenty-four-hour one with "am" or "pm" after it keeps its hour.
IsClock(c) == c.mi \in 0 .. 59 /\ c.h \in 0 .. 23 /\ (c.half = "am" => c.h <= 12)

UnderstoodTime(c) ==
  LET hour == IF c.half = None \/ c.h > 12 THEN c.h
              ELSE (c.h % 12) + (IF c.half = "pm" THEN 12 ELSE 0)
  IN (hour * 60) + c.mi

Understood(t, default) ==
  Instant(UnderstoodDate(t), IF t.clock = None THEN default ELSE UnderstoodTime(t.clock),
          Or(t.zone, LocalOffset))
=============================================================================
