------------------------------- MODULE TimesProofs -------------------------------
(***************************************************************************)
(* Theorems about what the program makes of times: the dates a source      *)
(* publishes and the records they become (PublishedDates, TenderRules),    *)
(* for every text, time zone and instant, and the periods of the worker's  *)
(* cron entries (CronTicks), for every period of at most an hour.          *)
(***************************************************************************)
EXTENDS TenderRules, CronTicks, TLAPS

-----------------------------------------------------------------------------
(* The day a text names                                                    *)

\* A month has 28 days at least and 31 at most.
LEMMA MonthLength ==
  ASSUME NEW y \in Nat, NEW m \in 1 .. 12
  PROVE  LastDay(y, m) \in 28 .. 31
BY DEF LastDay

\* A day that exists is a number, and one that does not is none.
LEMMA SafeDateValue ==
  ASSUME NEW y \in Nat, NEW m \in Nat, NEW d \in Nat
  PROVE  /\ SafeDate(y, m, d) \in Int \cup {None}
         /\ SafeDate(y, m, d) # None <=> m \in 1 .. 12 /\ d \in 1 .. LastDay(y, m)
<1>1. CASE m \in 1 .. 12 /\ d \in 1 .. LastDay(y, m)
  <2>1. LastDay(y, m) \in Nat
    BY <1>1, MonthLength
  <2>2. d \in Nat /\ DaysBeforeMonth[m] \in Nat
    BY <1>1 DEF DaysBeforeMonth
  <2>3. /\ (y - 2000) * 365 \in Int
        /\ (y - 1997) \div 4 \in Int
        /\ (IF m > 2 /\ IsLeap(y) THEN 1 ELSE 0) \in Nat
    OBVIOUS
  <2>4. SafeDate(y, m, d) \in Int
    BY <1>1, <2>2, <2>3 DEF SafeDate
  <2> QED
    BY <1>1, <2>4, NoneAssumption
<1>2. CASE ~(m \in 1 .. 12 /\ d \in 1 .. LastDay(y, m))
  BY <1>2 DEF SafeDate
<1> QED
  BY <1>1, <1>2

\* The numbers of a day-first text, tried again month-first, name no day: what is not a
\* day of the month is no month.
LEMMA DayFirstReading ==
  ASSUME NEW t \in Texts
  PROVE  DayFirstDate(t) = IF t.m <= 12 THEN SafeDate(t.y, t.m, t.d) ELSE None
<1>1. PICK y \in Nat, m \in Nat, d \in Nat : t.y = y /\ t.m = m /\ t.d = d
  BY DEF Texts
<1>2. DayFirstDate(t) = IF m <= 12
                        THEN IF SafeDate(y, m, d) # None THEN SafeDate(y, m, d) ELSE SafeDate(y, d, m)
                        ELSE None
  BY <1>1 DEF DayFirstDate
<1>3. ASSUME m <= 12, SafeDate(y, m, d) = None
      PROVE  SafeDate(y, d, m) = None
  <2>1. ~(m \in 1 .. 12 /\ d \in 1 .. LastDay(y, m))
    BY <1>3, SafeDateValue
  <2>2. m \in 1 .. 12 => LastDay(y, m) \in 28 .. 31
    BY MonthLength
  <2>3. d \in 1 .. 12 => LastDay(y, d) \in 28 .. 31
    BY MonthLength
  <2>4. ~(d \in 1 .. 12 /\ m \in 1 .. LastDay(y, d))
    BY <1>3, <2>1, <2>2, <2>3
  <2> QED
    BY <2>4, SafeDateValue
<1> QED
  BY <1>1, <1>2, <1>3

\* The day a reader understands: the one the numbers name in the order they are written,
\* or month-first where they can be nothing else.
LEMMA UnderstoodReading ==
  ASSUME NEW t \in Texts
  PROVE  UnderstoodDate(t) = IF t.form = "none" THEN None
                             ELSE IF MonthFirst(t) THEN SafeDate(t.y, t.d, t.m)
                             ELSE SafeDate(t.y, t.m, t.d)
<1>1. PICK y \in Nat, m \in Nat, d \in Nat : t.y = y /\ t.m = m /\ t.d = d
  BY DEF Texts
<1>2. CASE MonthFirst(t)
  <2>1. SafeDate(t.y, t.m, t.d) = None
    <3>1. ~(m \in 1 .. 12)
      BY <1>1, <1>2 DEF MonthFirst
    <3>2. SafeDate(y, m, d) = None
      BY <3>1, SafeDateValue
    <3> QED
      BY <1>1, <3>2
  <2>2. t.form # "none"
    BY <1>2 DEF MonthFirst
  <2> DEFINE days == {None, SafeDate(t.y, t.d, t.m)}
  <2>3. UnderstoodDate(t) = IF days \subseteq {None} THEN None ELSE CHOOSE day \in days : day # None
    BY <1>2, <2>1, <2>2 DEF UnderstoodDate, MonthFirst
  <2>4. CASE SafeDate(t.y, t.d, t.m) = None
    BY <1>2, <2>2, <2>3, <2>4
  <2>5. CASE SafeDate(t.y, t.d, t.m) # None
    BY <1>2, <2>2, <2>3, <2>5
  <2> QED
    BY <2>4, <2>5
<1>3. CASE ~MonthFirst(t)
  <2> DEFINE days == {SafeDate(t.y, t.m, t.d)}
  <2>1. UnderstoodDate(t) = IF t.form = "none" \/ days \subseteq {None} THEN None
                            ELSE CHOOSE day \in days : day # None
    BY <1>3 DEF UnderstoodDate, MonthFirst
  <2>2. CASE SafeDate(t.y, t.m, t.d) = None
    BY <1>3, <2>1, <2>2
  <2>3. CASE SafeDate(t.y, t.m, t.d) # None
    BY <1>3, <2>1, <2>3
  <2> QED
    BY <2>2, <2>3
<1> QED
  BY <1>2, <1>3

\* A day is read only if the text names one, and then it is the day that is understood; a
\* day that is understood is read, unless it is month-first.
LEMMA DayRead ==
  ASSUME NEW t \in Texts
  PROVE  /\ UnderstoodDate(t) \in Int \cup {None}
         /\ DateIn(t) # None => DateIn(t) = UnderstoodDate(t)
         /\ UnderstoodDate(t) # None /\ ~MonthFirst(t) => DateIn(t) = UnderstoodDate(t)
<1>1. t.y \in Nat /\ t.m \in Nat /\ t.d \in Nat /\ t.form \in Forms
  BY DEF Texts
<1>2. UnderstoodDate(t) \in Int \cup {None}
  <2>1. PICK y \in Nat, m \in Nat, d \in Nat : t.y = y /\ t.m = m /\ t.d = d
    BY <1>1
  <2>2. SafeDate(y, m, d) \in Int \cup {None} /\ SafeDate(y, d, m) \in Int \cup {None}
    BY SafeDateValue
  <2> QED
    BY <2>1, <2>2, UnderstoodReading
<1>3. DateIn(t) = IF t.form = "none" \/ MonthFirst(t) THEN None ELSE SafeDate(t.y, t.m, t.d)
  <2>1. CASE t.form \in {"dayFirst-", "dayFirst/"}
    BY <1>1, <2>1, DayFirstReading DEF DateIn, MonthFirst
  <2>2. CASE t.form \notin {"dayFirst-", "dayFirst/"}
    BY <1>1, <2>2 DEF DateIn, MonthFirst
  <2> QED
    BY <2>1, <2>2
<1> QED
  BY <1>2, <1>3, UnderstoodReading

-----------------------------------------------------------------------------
(* The instant a text names                                                *)

\* A clock a reader understands is read as he does.
LEMMA ClockRead ==
  ASSUME NEW c \in Clocks, IsClock(c)
  PROVE  /\ TimeOf(c) = UnderstoodTime(c)
         /\ TimeOf(c) \in Nat /\ TimeOf(c) < Day
         /\ TimeOf(c) # None
<1>1. PICK h \in Nat, mi \in Nat :
        c.h = h /\ c.mi = mi /\ mi <= 59 /\ h <= 23 /\ (c.half = "am" => h <= 12)
  BY DEF Clocks, IsClock
<1>2. c.half \in {"am", "pm", None}
  BY DEF Clocks
<1>3. Hour(c) = IF c.half = None \/ h > 12 THEN h
                ELSE (h % 12) + (IF c.half = "pm" THEN 12 ELSE 0)
  BY <1>1, <1>2, NoneAssumption DEF Hour
<1>4. Hour(c) \in Nat /\ Hour(c) <= 23
  BY <1>1, <1>2, <1>3, NoneAssumption
<1>5. TimeOf(c) = Hour(c) * 60 + mi
  BY <1>1, <1>4 DEF TimeOf
<1>6. UnderstoodTime(c) = Hour(c) * 60 + mi
  BY <1>1, <1>3 DEF UnderstoodTime
<1> QED
  BY <1>1, <1>4, <1>5, <1>6, NoneAssumption DEF Day

\* What stands for an offset at the end of a text: one that is written, or a year.
LEMMA OffsetRead ==
  ASSUME NEW t \in Texts
  PROVE  /\ t.zone # None => OffsetIn(t) = t.zone
         /\ EndsInYear(t) => t.zone = None /\ OffsetIn(t) \in Int
                             /\ OffsetIn(t) >= -1299 /\ OffsetIn(t) <= -1200
         /\ t.zone = None /\ ~EndsInYear(t) => OffsetIn(t) = None
<1>1. PICK y \in Nat : t.y = y /\ y >= 2000 /\ y <= 2099
  BY DEF Texts
<1>2. y \div 100 = 20 /\ y % 100 \in Nat /\ y % 100 <= 99
  BY <1>1
<1>3. EndsInYear(t) => t.zone = None
  BY DEF EndsInYear
<1>4. EndsInYear(t) => OffsetIn(t) = -((20 * 60) + (y % 100))
  BY <1>1, <1>2, <1>3 DEF OffsetIn
<1> QED
  BY <1>2, <1>3, <1>4 DEF OffsetIn

\* Nothing is guessed: without a day there is no instant.
LEMMA InstantHasDay ==
  ASSUME NEW t \in Texts, NEW default
  PROVE  /\ ParseDatetime(t, default).value # None => DateIn(t) # None
         /\ ParseDatetime(t, default).value # None => UnderstoodDate(t) # None
<1>1. ParseDatetime(t, default).value # None => DateIn(t) # None
  BY DEF ParseDatetime, IsIsoTimestamp, Unread
<1> QED
  BY <1>1, DayRead

Read(t, default) == ParseDatetime(t, default).value

\* A text that means day and told at the offset local is read as day and time at offset.
ReadAs(t, default, day, told, time, local, offset) ==
  /\ Understood(t, default) = day * Day + told - local
  /\ Read(t, default) = day * Day + time - offset
  /\ time = told \/ (t.form = "iso" /\ t.clock = None /\ time = 0 /\ told = default)
  /\ told >= 0 /\ told < Day
  /\ offset = local \/ (EndsInYear(t) /\ offset >= -1299 /\ offset <= -1200
                                     /\ local = LocalOffset)

\* The instant a text with a sensible clock is read as: its day, its clock or the default
\* the caller names, midnight on the ISO path, and the offset at its end.
LEMMA InstantRead ==
  ASSUME NEW t \in Texts, DateIn(t) # None, t.clock # None => IsClock(t.clock),
         NEW default \in {Midnight, EndOfDay}
  PROVE  \E day, told, time, local, offset \in Int :
           ReadAs(t, default, day, told, time, local, offset)
<1> DEFINE told == IF t.clock = None THEN default ELSE UnderstoodTime(t.clock)
           local == Or(t.zone, LocalOffset)
           offset == IF IsIsoTimestamp(t) THEN local ELSE Or(OffsetIn(t), LocalOffset)
           time == IF IsIsoTimestamp(t) THEN Or(TimeIn(t), Midnight) ELSE Or(TimeIn(t), default)
<1>1. DateIn(t) \in Int /\ UnderstoodDate(t) = DateIn(t)
  BY DayRead
<1>2. told \in Int /\ told >= 0 /\ told < Day
  BY ClockRead DEF Texts, Midnight, EndOfDay, Day
<1>3. TimeIn(t) = IF t.clock = None THEN None ELSE told
  BY ClockRead DEF Texts, TimeIn
<1>4. told # None
  BY <1>2, NoneAssumption
<1>5. time \in Int /\ (time = told \/ (t.form = "iso" /\ t.clock = None /\ time = 0 /\ told = default))
  <2>1. CASE t.clock = None
    BY <1>2, <1>3, <2>1 DEF Or, Midnight, IsIsoTimestamp
  <2>2. CASE t.clock # None
    BY <1>2, <1>3, <1>4, <2>2 DEF Or
  <2> QED
    BY <2>1, <2>2
<1>6. local \in Int
  <2>1. t.zone \in Zones \cup {None} /\ \A z \in Zones : z \in Int
    BY DEF Texts, Zones
  <2> QED
    BY <2>1, LocalOffsetAssumption DEF Or
<1>7. /\ offset \in Int
      /\ offset = local \/ (EndsInYear(t) /\ offset >= -1299 /\ offset <= -1200 /\ local = LocalOffset)
  <2>1. CASE IsIsoTimestamp(t)
    BY <1>6, <2>1
  <2>2. CASE ~IsIsoTimestamp(t) /\ EndsInYear(t)
    BY <2>2, OffsetRead, NoneAssumption DEF Or
  <2>3. CASE ~IsIsoTimestamp(t) /\ ~EndsInYear(t)
    BY <1>6, <2>3, OffsetRead DEF Or
  <2> QED
    BY <2>1, <2>2, <2>3
<1>8. Understood(t, default) = DateIn(t) * Day + told - local
  BY <1>1 DEF Understood, Instant
<1>9. Read(t, default) = DateIn(t) * Day + time - offset
  <2>1. CASE IsIsoTimestamp(t)
    BY <2>1 DEF Read, ParseDatetime, Instant
  <2>2. CASE ~IsIsoTimestamp(t)
    BY <2>2 DEF Read, ParseDatetime, Instant
  <2> QED
    BY <2>1, <2>2
<1>10. ReadAs(t, default, DateIn(t), told, time, local, offset)
  BY <1>2, <1>5, <1>7, <1>8, <1>9 DEF ReadAs
<1> HIDE DEF told, local, offset, time
<1> QED
  BY <1>1, <1>2, <1>5, <1>6, <1>7, <1>10

\* A date with a sensible clock is at most a day early and thirty-six hours late; what is
\* read with midnight for its time is not early.
LEMMA MisreadByLittle ==
  ASSUME NEW t \in Texts, DateIn(t) # None, t.clock # None => IsClock(t.clock),
         NEW default \in {Midnight, EndOfDay}
  PROVE  /\ Read(t, default) \in Int /\ Understood(t, default) \in Int
         /\ Read(t, default) >= Understood(t, default) - default
         /\ Read(t, default) <= Understood(t, default) + 2139
<1>1. PICK day, told, time, local, offset \in Int :
           ReadAs(t, default, day, told, time, local, offset)
  BY InstantRead
<1>2. default \in Int /\ default >= 0
  BY DEF Midnight, EndOfDay, Day
<1>3. LocalOffset \in Int /\ LocalOffset >= -720 /\ LocalOffset <= 840
  BY LocalOffsetAssumption
<1>4. time >= told - default /\ time <= told
  BY <1>1, <1>2 DEF ReadAs
<1>5. offset <= local /\ offset >= local - 2139
  BY <1>1, <1>3 DEF ReadAs
<1> QED
  BY <1>1, <1>2, <1>4, <1>5 DEF Day, ReadAs

\* A date that is readably written is read as it is understood.
LEMMA ReadablyRead ==
  ASSUME NEW t \in Texts, ReadablyClosed(t)
  PROVE  /\ Read(t, EndOfDay) = Understood(t, EndOfDay)
         /\ Understood(t, EndOfDay) \in Int
<1>1. DateIn(t) # None
  BY DayRead DEF ReadablyClosed
<1>2. /\ t.clock # None => IsClock(t.clock)
      /\ t.clock = None => t.form # "iso"
      /\ ~EndsInYear(t)
  BY DEF ReadablyClosed
<1>3. \E day, told, time, local, offset \in Int :
           ReadAs(t, EndOfDay, day, told, time, local, offset)
  BY <1>1, <1>2, InstantRead
<1> QED
  BY <1>2, <1>3 DEF Day, ReadAs

-----------------------------------------------------------------------------
(* Items and records                                                       *)

Fields == {"title", "titleSays", "state", "stateSays", "reference", "description",
           "published", "closing", "organization", "contact", "documents", "value"}

\* An item with nothing but a title and a closing date, and one that has been changed in a
\* field, are items.
LEMMA ItemsStayItems ==
  /\ \A s \in Said.titleSays, c \in Closings : First(s, c) \in Item
  /\ DOMAIN Absent = Fields
  /\ \A i \in Item, f \in Fields : \A v \in Said[f] : [i EXCEPT ![f] = v] \in Item
<1>1. ASSUME NEW s \in Said.titleSays, NEW c \in Closings
      PROVE  First(s, c) \in Item
  <2>1. c \in Texts /\ s \in SUBSET Keywords
    BY RulesAssumption
  <2>2. Unpublished \in Texts
    BY DEF Unpublished, Texts, Forms
  <2> QED
    BY <2>1, <2>2 DEF First, Absent, Item, Titles, Statuses, Descriptions
<1>2. DOMAIN Absent = Fields
  BY DEF Absent, Fields
<1>3. ASSUME NEW i \in Item, NEW f \in Fields, NEW v \in Said[f]
      PROVE  [i EXCEPT ![f] = v] \in Item
  <2>1. CASE f \in {"title", "titleSays", "state", "stateSays"}
    BY <2>1, RulesAssumption DEF Item
  <2>2. CASE f \in {"reference", "description", "organization", "contact"}
    BY <2>2, RulesAssumption DEF Item
  <2>3. CASE f \in {"published", "closing", "documents", "value"}
    BY <2>3, RulesAssumption DEF Item
  <2> QED
    BY <2>1, <2>2, <2>3 DEF Fields
<1> QED
  BY <1>1, <1>2, <1>3

\* The record is what the last crawl made of the item as it is.
UpToDate == item \in Item /\ record = Curated(item)

\* Whatever the site changes, its item is one and the record is the item's
\* (normalizer.py: normalize; validator.py: validate).
THEOREM RecordUpToDate == Spec => []UpToDate
<1>1. ASSUME Init
      PROVE  UpToDate
  <2>1. PICK s \in Said.titleSays, c \in Closings : item = First(s, c)
    BY <1>1 DEF Init
  <2> QED
    BY <1>1, <2>1, ItemsStayItems DEF Init, UpToDate
<1>2. UpToDate /\ [Next]_vars => UpToDate'
  <2> SUFFICES ASSUME UpToDate, [Next]_vars
               PROVE  UpToDate'
    OBVIOUS
  <2>1. ASSUME NEW f \in DOMAIN Absent, NEW v \in Said[f], Change(f, v)
        PROVE  UpToDate'
    BY <2>1, ItemsStayItems DEF Change, UpToDate
  <2>2. CASE Next
    BY <2>1, <2>2 DEF Next, Complete, Correct
  <2>3. CASE UNCHANGED vars
    BY <2>3 DEF vars, UpToDate
  <2> QED
    BY <2>2, <2>3
<1> QED
  BY <1>1, <1>2, PTL DEF Spec

\* What validate finds in a record it grades.
LEMMA CuratedFields ==
  ASSUME NEW i \in Item, Curated(i) # None
  PROVE  /\ i.title \in {"short", "whole"}
         /\ Curated(i).closing = Read(i.closing, EndOfDay)
         /\ Curated(i).status = Status(i, Read(i.closing, EndOfDay))
         /\ Curated(i).quality = Quality(Normalized(i))
BY DEF Curated, Normalized, ParseClosing, Read, Item, Titles

\* What ReadAsUnderstood says of an item's record.
LEMMA ItemReadAsUnderstood ==
  ASSUME NEW i \in Item, Curated(i) # None
  PROVE  /\ Curated(i).closing # None => UnderstoodDate(i.closing) # None
         /\ ReadablyClosed(i.closing) =>
              /\ Curated(i).closing = Understood(i.closing, EndOfDay)
              /\ i.state = "UNKNOWN" /\ i.stateSays \cup i.titleSays = {} =>
                   (Curated(i).status = "OPEN") = (Understood(i.closing, EndOfDay) >= Now)
<1>1. i.closing \in Texts
  BY DEF Item
<1>2. Curated(i).closing # None => UnderstoodDate(i.closing) # None
  BY <1>1, CuratedFields, InstantHasDay DEF Read
<1>3. ASSUME ReadablyClosed(i.closing)
      PROVE  /\ Curated(i).closing = Understood(i.closing, EndOfDay)
             /\ Understood(i.closing, EndOfDay) \in Int
  BY <1>1, <1>3, CuratedFields, ReadablyRead
<1>4. ASSUME ReadablyClosed(i.closing), i.state = "UNKNOWN", i.stateSays \cup i.titleSays = {}
      PROVE  (Curated(i).status = "OPEN") = (Understood(i.closing, EndOfDay) >= Now)
  <2>1. PICK at \in Int : at = Understood(i.closing, EndOfDay)
    BY <1>3, <1>4
  <2>2. Curated(i).status = IF at = None THEN "UNKNOWN" ELSE IF at >= Now THEN "OPEN" ELSE "CLOSED"
    BY <1>3, <1>4, <2>1, CuratedFields DEF Status
  <2>3. at # None
    BY NoneAssumption
  <2> QED
    BY <2>1, <2>2, <2>3
<1> QED
  BY <1>2, <1>3, <1>4

\* Nothing is guessed and nothing is misread, for every text, time zone and instant of the
\* crawl: a closing date is read only where there is one, a readably written one is read
\* as it is understood, and without words of status a tender is open exactly until then
\* (dates.py: parse_datetime; normalizer.py: _status).
THEOREM ReadAsUnderstoodHolds == Spec => []ReadAsUnderstood
<1>1. UpToDate => ReadAsUnderstood
  BY ItemReadAsUnderstood DEF UpToDate, ReadAsUnderstood
<1> QED
  BY <1>1, RecordUpToDate, PTL

-----------------------------------------------------------------------------
(* Grades                                                                  *)

\* The dates of a plausible item are not suspicious, even misread.
LEMMA PlausibleNotSuspicious ==
  ASSUME NEW i \in Item, Plausible(i), i.title # None
  PROVE  ~Suspicious(Normalized(i))
<1> DEFINE r == Normalized(i)
           p == Read(i.published, Midnight)
           c == Read(i.closing, EndOfDay)
           meantP == Understood(i.published, Midnight)
           meantC == Understood(i.closing, EndOfDay)
<1>1. r.published = p /\ r.closing = c /\ r.documents = i.documents
  BY DEF Normalized, ParseClosing, Read
<1>2. i.published \in Texts /\ i.closing \in Texts
  BY DEF Item
<1>3. /\ i.published.clock # None => IsClock(i.published.clock)
      /\ i.closing.clock # None => IsClock(i.closing.clock)
      /\ "other" \notin i.documents
  BY DEF Plausible
<1>4. Midnight = 0 /\ EndOfDay = 1439 /\ Day = 1440 /\ Slip = 2880
  BY DEF Midnight, EndOfDay, Day, Slip
<1>5. ASSUME p # None
      PROVE  /\ p \in Int /\ meantP \in Int /\ meantP <= p /\ p <= meantP + 2139
             /\ meantP <= Now /\ meantP >= Now - MaxPast
             /\ UnderstoodDate(i.published) # None
  <2>1. DateIn(i.published) # None /\ UnderstoodDate(i.published) # None
    BY <1>2, <1>5, InstantHasDay DEF Read
  <2>2. p \in Int /\ meantP \in Int /\ p >= meantP - Midnight /\ p <= meantP + 2139
    BY <1>2, <1>3, <2>1, MisreadByLittle
  <2> QED
    BY <1>4, <2>1, <2>2 DEF Plausible
<1>6. ASSUME c # None
      PROVE  /\ c \in Int /\ meantC \in Int /\ meantC <= c + 1439 /\ c <= meantC + 2139
             /\ meantC <= Now + MaxFuture - Slip
             /\ UnderstoodDate(i.closing) # None
  <2>1. DateIn(i.closing) # None /\ UnderstoodDate(i.closing) # None
    BY <1>2, <1>6, InstantHasDay DEF Read
  <2>2. c \in Int /\ meantC \in Int /\ c >= meantC - EndOfDay /\ c <= meantC + 2139
    BY <1>2, <1>3, <2>1, MisreadByLittle
  <2> QED
    BY <1>4, <2>1, <2>2 DEF Plausible
<1>7. ASSUME p # None, c # None
      PROVE  meantC >= meantP + Slip
  BY <1>5, <1>6, <1>7 DEF Plausible
<1>8. Now \in Int /\ MaxPast \in Int /\ MaxFuture \in Int
  BY RulesAssumption DEF MaxPast, MaxFuture, Day
<1> HIDE DEF p, c, meantP, meantC, r
<1>9. ~SuspiciousPublished(r)
  BY <1>1, <1>4, <1>5, <1>8 DEF SuspiciousPublished
<1>10. ~SuspiciousClosing(r)
  BY <1>1, <1>4, <1>5, <1>6, <1>7, <1>8 DEF SuspiciousClosing
<1> QED
  BY <1>1, <1>3, <1>9, <1>10 DEF Suspicious, SuspiciousDocuments, r

\* The fields that count for completeness.
Shown(r) == [reference |-> r.reference, description |-> r.description,
             published |-> r.published # None, closing |-> r.closing # None,
             organization |-> r.organization, documents |-> r.documents # {},
             contact |-> r.contact]

\* A record with more of these fields is not less complete.
LEMMA MoreComplete ==
  ASSUME NEW r, NEW s,
         \A f \in DOMAIN Shown(r) : Shown(r)[f] => Shown(s)[f]
  PROVE  /\ Completeness(r) \in Nat /\ Completeness(s) \in Nat
         /\ Completeness(r) <= Completeness(s)
<1>1. /\ r.reference => s.reference
      /\ r.description => s.description
      /\ r.published # None => s.published # None
      /\ r.closing # None => s.closing # None
      /\ r.organization => s.organization
      /\ r.documents # {} => s.documents # {}
      /\ r.contact => s.contact
  BY DEF Shown
<1> QED
  BY <1>1 DEF Completeness

\* More of a record that is not suspicious is not a lower grade.
LEMMA GradeRises ==
  ASSUME NEW r, NEW s, r.title = s.title, r.title \in {"short", "whole"}, ~Suspicious(s),
         Completeness(r) \in Nat, Completeness(s) \in Nat,
         Completeness(r) <= Completeness(s)
  PROVE  Rank[Quality(s)] >= Rank[Quality(r)]
<1>1. CASE r.title = "short"
  BY <1>1 DEF Quality, Rank
<1>2. CASE r.title = "whole" /\ Suspicious(r)
  <2>1. Quality(r) = "NEEDS_REVIEW" /\ Quality(s) \in {"VALID", "INCOMPLETE", "NEEDS_REVIEW"}
    BY <1>2 DEF Quality
  <2> QED
    BY <2>1 DEF Rank
<1>3. CASE r.title = "whole" /\ ~Suspicious(r)
  <2>1. /\ Quality(r) = IF Completeness(r) >= 70 THEN "VALID"
                        ELSE IF Completeness(r) >= 30 THEN "INCOMPLETE" ELSE "NEEDS_REVIEW"
        /\ Quality(s) = IF Completeness(s) >= 70 THEN "VALID"
                        ELSE IF Completeness(s) >= 30 THEN "INCOMPLETE" ELSE "NEEDS_REVIEW"
    BY <1>3 DEF Quality
  <2> QED
    BY <2>1 DEF Rank
<1> QED
  BY <1>1, <1>2, <1>3

\* What an item did not say of one field, it may say.
LEMMA SaysMore ==
  ASSUME NEW i \in Item, NEW j \in Item, NEW f \in Optional,
         i[f] = Absent[f], j = [i EXCEPT ![f] = j[f]],
         NEW g \in DOMAIN Shown(Normalized(i)), Shown(Normalized(i))[g]
  PROVE  Shown(Normalized(j))[g]
<1>1. Read(Unpublished, Midnight) = None /\ Read(Unpublished, EndOfDay) = None
  BY DEF Read, ParseDatetime, IsIsoTimestamp, DateIn, Unpublished, Unread
<1>2. \A k \in Item : Shown(Normalized(k)) =
        [reference |-> k.reference, description |-> k.description # None,
         published |-> Read(k.published, Midnight) # None,
         closing |-> Read(k.closing, EndOfDay) # None,
         organization |-> k.organization, documents |-> k.documents # {},
         contact |-> k.contact \/ k.description = "withContact"]
  BY DEF Shown, Normalized, Read, ParseClosing, HasContact
<1>3. f \in {"reference", "description", "published", "closing", "organization", "contact",
             "documents", "value"}
  BY DEF Optional
<1>4. None # "withContact"
  BY RulesAssumption
<1>5. CASE f = "reference"
  <2>1. ~i.reference
    BY <1>5 DEF Absent
  <2> QED
    BY <1>2, <1>5, <2>1 DEF Item
<1>6. CASE f = "description"
  BY <1>2, <1>4, <1>6 DEF Absent, Item
<1>7. CASE f = "published"
  BY <1>1, <1>2, <1>7 DEF Absent, Item
<1>8. CASE f = "closing"
  BY <1>1, <1>2, <1>8 DEF Absent, Item
<1>9. CASE f = "organization"
  <2>1. ~i.organization
    BY <1>9 DEF Absent
  <2> QED
    BY <1>2, <1>9, <2>1 DEF Item
<1>10. CASE f = "contact"
  <2>1. ~i.contact
    BY <1>10 DEF Absent
  <2> QED
    BY <1>2, <1>10, <2>1 DEF Item
<1>11. CASE f = "documents"
  BY <1>2, <1>11 DEF Absent, Item
<1>12. CASE f = "value"
  BY <1>2, <1>12 DEF Item
<1> QED
  BY <1>3, <1>5, <1>6, <1>7, <1>8, <1>9, <1>10, <1>11, <1>12

\* An item that says more, and stays plausible, is graded no lower.
LEMMA ItemMoreIsNotWorse ==
  ASSUME NEW i \in Item, NEW j \in Item, NEW f \in Optional, Curated(i) # None,
         i[f] = Absent[f], j = [i EXCEPT ![f] = j[f]], Plausible(j)
  PROVE  Rank[Curated(j).quality] >= Rank[Curated(i).quality]
<1>1. i.title # None /\ j.title = i.title /\ i.title \in {"short", "whole"}
  BY DEF Curated, Optional, Item, Titles
<1>2. /\ Curated(i).quality = Quality(Normalized(i))
      /\ Curated(j).quality = Quality(Normalized(j))
  BY <1>1 DEF Curated, Normalized
<1>3. Normalized(i).title = i.title /\ Normalized(j).title = i.title
  BY <1>1 DEF Normalized
<1>4. ~Suspicious(Normalized(j))
  BY <1>1, PlausibleNotSuspicious
<1>5. \A g \in DOMAIN Shown(Normalized(i)) : Shown(Normalized(i))[g] => Shown(Normalized(j))[g]
  BY SaysMore
<1>6. /\ Completeness(Normalized(i)) \in Nat /\ Completeness(Normalized(j)) \in Nat
      /\ Completeness(Normalized(i)) <= Completeness(Normalized(j))
  BY <1>5, MoreComplete
<1> QED
  BY <1>1, <1>2, <1>3, <1>4, <1>6, GradeRises

\* A site that publishes more about a tender, and nothing implausible, never has its grade
\* lowered for it: for every item, time zone and instant of the crawl, its dates misread
\* or not (validator.py: validate, _classify).
THEOREM MoreIsNotWorseHolds == Spec => MoreIsNotWorse
<1>1. UpToDate /\ UpToDate' /\ [Next]_vars =>
        [\A f \in Optional :
           record # None /\ item[f] = Absent[f] /\ item' = [item EXCEPT ![f] = item'[f]]
           /\ Plausible(item')
             => Rank[record'.quality] >= Rank[record.quality]]_vars
  BY ItemMoreIsNotWorse DEF UpToDate
<1> QED
  BY <1>1, RecordUpToDate, PTL DEF Spec, MoreIsNotWorse

-----------------------------------------------------------------------------
(* A cron entry for a period of at most an hour never fires early          *)

Divisors == {1, 2, 3, 4, 5, 6, 10, 12, 15, 20, 30, 60}

SubHour == 1 .. 3600

\* A set of ticks that is not empty has a least one, which cron_ticks picks.
LEMMA LeastTick ==
  ASSUME NEW S, S \subseteq Divisors, S # {}
  PROVE  \E n \in S : \A k \in S : n <= k
<1>1. \A m \in Divisors : S \cap (1 .. m - 1) = {} => \A k \in S : m <= k
  BY DEF Divisors
<1>2. ASSUME \A m \in S : S \cap (1 .. m - 1) # {}
      PROVE  FALSE
  <2>1. /\ 1 \notin S /\ 2 \notin S /\ 3 \notin S /\ 4 \notin S /\ 5 \notin S /\ 6 \notin S
    BY <1>2 DEF Divisors
  <2>2. 10 \notin S /\ 12 \notin S /\ 15 \notin S
    BY <1>2, <2>1 DEF Divisors
  <2>3. 20 \notin S /\ 30 \notin S /\ 60 \notin S
    BY <1>2, <2>1, <2>2 DEF Divisors
  <2> QED
    BY <2>1, <2>2, <2>3 DEF Divisors
<1> QED
  BY <1>1, <1>2

\* A tick of the second or the minute field divides it and is not finer than asked.
LEMMA TickIsCoarser ==
  ASSUME NEW period \in SubHour
  PROVE  /\ FieldFor(period) \in {"second", "minute"}
         /\ Tick(FieldFor(period), period) \in Divisors
         /\ Tick(FieldFor(period), period) * Unit[FieldFor(period)] >= period
<1> DEFINE field == FieldFor(period)
<1>1. field \in {"second", "minute"}
  BY DEF FieldFor, SubHour
<1>2. Ticks[field] \subseteq Divisors /\ Span[field] = 60 /\ Unit[field] \in {1, 60}
  BY <1>1 DEF Ticks, Divisors, Span, Unit
<1>3. 60 * Unit[field] >= period
  <2>1. period \in Nat /\ period <= 3600
    BY DEF SubHour
  <2>2. CASE period < 60
    BY <2>1, <2>2 DEF FieldFor, Unit
  <2>3. CASE ~(period < 60)
    BY <2>1, <2>3 DEF FieldFor, Unit
  <2> QED
    BY <2>2, <2>3
<1>4. CASE Coarser(field, period) = {}
  BY <1>1, <1>2, <1>3, <1>4 DEF Tick, Divisors
<1>5. CASE Coarser(field, period) # {}
  <2>1. Coarser(field, period) \subseteq Divisors
    BY <1>2 DEF Coarser
  <2>2. \E n \in Coarser(field, period) : \A k \in Coarser(field, period) : n <= k
    BY <2>1, <1>5, LeastTick
  <2>3. Tick(field, period) \in Coarser(field, period)
    BY <2>2, <1>5 DEF Tick
  <2> QED
    BY <1>1, <2>1, <2>3 DEF Coarser
<1> QED
  BY <1>4, <1>5

\* Multiples of a divisor of sixty, sixty by sixty, are apart by it.
LEMMA Apart ==
  ASSUME NEW n \in Divisors, NEW a \in Nat, NEW b \in Nat, a < b,
         (a % 60) % n = 0, (b % 60) % n = 0
  PROVE  b - a >= n
  BY DEF Divisors

\* Two starts of one entry are the period apart at least.
LEMMA StartsApart ==
  ASSUME NEW period \in SubHour, NEW s \in Nat, NEW t \in Nat, s < t,
         Fires(CronTick(period), s), Fires(CronTick(period), t)
  PROVE  t - s >= period
<1> DEFINE field == FieldFor(period)
           tick == Tick(field, period)
<1>1. /\ field \in {"second", "minute"}
      /\ tick \in Divisors
      /\ tick * Unit[field] >= period
  BY TickIsCoarser
<1>2. /\ CronTick(period).field = field
      /\ CronTick(period).values = {v \in 0 .. Span[field] - 1 : v % tick = 0}
  BY DEF CronTick
<1> HIDE DEF tick
<1>3. CASE field = "second"
  <2>1. (s % 60) % tick = 0 /\ (t % 60) % tick = 0
    BY <1>2, <1>3 DEF Fires
  <2>2. t - s >= tick
    BY <1>1, <2>1, Apart
  <2>3. tick >= period
    BY <1>1, <1>3 DEF Unit, Divisors, SubHour
  <2> QED
    BY <1>1, <2>2, <2>3 DEF Divisors, SubHour
<1>4. CASE field = "minute"
  <2> DEFINE a == s \div 60
             b == t \div 60
  <2>1. /\ s % 60 = 0 /\ t % 60 = 0
        /\ (a % 60) % tick = 0 /\ (b % 60) % tick = 0
    BY <1>2, <1>4 DEF Fires
  <2>2. a \in Nat /\ b \in Nat /\ s = 60 * a /\ t = 60 * b
    BY <2>1
  <2>3. a < b
    BY <2>2
  <2>4. b - a >= tick
    BY <1>1, <2>1, <2>2, <2>3, Apart
  <2>5. tick * 60 >= period
    BY <1>1, <1>4 DEF Unit, SubHour
  <2> QED
    BY <1>1, <2>2, <2>4, <2>5 DEF Divisors, SubHour
<1> QED
  BY <1>1, <1>3, <1>4

\* Where the worker is: the last start is a moment the entry names.
CronInv ==
  /\ asked \in Periods /\ clock \in Nat
  /\ fired # Never =>
       fired \in Nat /\ fired <= clock /\ Fires(CronTick(asked), fired)

\* The last start of a task was at a second its entry matches.
LEMMA CronInvHolds == CronSpec => []CronInv
<1>1. CronInit => CronInv
  BY DEF CronInit, CronInv
<1>2. CronInv /\ [CronNext]_cronVars => CronInv'
  <2> SUFFICES ASSUME CronInv, [CronNext]_cronVars PROVE CronInv'
    OBVIOUS
  <2>1. CASE CronNext
    <3>1. /\ asked' = asked
          /\ clock' = clock + Step(CronTick(asked))
          /\ fired' = IF Fires(CronTick(asked), clock') THEN clock' ELSE fired
      BY <2>1 DEF CronNext
    <3>2. clock' \in Nat /\ clock < clock'
      BY <3>1 DEF CronInv, Step
    <3> QED
      BY <3>1, <3>2 DEF CronInv, Never
  <2>2. CASE UNCHANGED cronVars
    BY <2>2 DEF CronInv, cronVars
  <2> QED
    BY <2>1, <2>2
<1> QED
  BY <1>1, <1>2, PTL DEF CronSpec

\* With a period of at most an hour, no start comes before the period is over: what
\* cron_ticks promises for every period it keeps for these (scheduler.py:67).
THEOREM WithinAnHourNeverFiner ==
  ASSUME Periods \subseteq SubHour
  PROVE  CronSpec => NeverFiner
<1>1. CronInv /\ [CronNext]_cronVars
        => [fired' # fired /\ fired # Never => fired' - fired >= AtMost(asked, DayLong)]_cronVars
  <2> SUFFICES ASSUME CronInv, CronNext, fired' # fired, fired # Never
               PROVE  fired' - fired >= AtMost(asked, DayLong)
    BY DEF cronVars
  <2>1. /\ clock' = clock + Step(CronTick(asked))
        /\ fired' = clock' /\ Fires(CronTick(asked), clock')
    BY DEF CronNext
  <2>2. /\ asked \in SubHour
        /\ fired \in Nat /\ clock' \in Nat /\ fired < clock'
        /\ Fires(CronTick(asked), fired)
    BY <2>1 DEF CronInv, Step, Never
  <2>3. \A s, t \in Nat :
          s < t /\ Fires(CronTick(asked), s) /\ Fires(CronTick(asked), t) => t - s >= asked
    BY <2>2, StartsApart
  <2>4. clock' - fired >= asked
    BY <2>1, <2>2, <2>3
  <2> QED
    BY <2>1, <2>2, <2>4 DEF AtMost, DayLong, SubHour
<1> QED
  BY <1>1, CronInvHolds, PTL DEF CronSpec, NeverFiner
=============================================================================
