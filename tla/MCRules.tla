-------------------------------- MODULE MCRules --------------------------------
(* Items for TLC: every way to write a closing date on an item that says nothing else, *)
(* and every combination of the other fields with a few of them.                       *)
EXTENDS TenderRules

\* Johannesburg: UTC+02:00, no daylight saving.
MCOffset == 120

\* 10:00 on 15 September 2026.
MCNow == Instant(SafeDate(2026, 9, 15), 10 * 60, MCOffset)

Clock(h, mi, half) == [h |-> h, mi |-> mi, half |-> half]

MCClocks == {None, Clock(9, 30, None), Clock(11, 0, None), Clock(2, 30, "pm"), Clock(12, 30, "am"),
             Clock(12, 0, "pm"), Clock(25, 0, None), Clock(23, 75, None)}

On(form, y, m, d) == [Unpublished EXCEPT !.form = form, !.y = y, !.m = m, !.d = d]

\* Days of two months, one that does not exist, and month-first numbers.
Dates == {On(form, 2026, md[1], md[2]) :
            form \in Forms \ {"none"}, md \in {<<9, 15>>, <<9, 14>>, <<2, 28>>, <<2, 30>>, <<15, 9>>}}
         \cup {On("named", 2028, 2, 29), Unpublished}

\* An offset is written after the clock, and the clock after the date or before it.
MCClosings ==
  {[t EXCEPT !.clock = c, !.zone = z] : t \in Dates, c \in MCClocks \ {None}, z \in {None, 0, 330}}
  \cup {[t EXCEPT !.clock = c, !.clockFirst = (c # None)] : t \in Dates, c \in MCClocks}

MCSaid ==
  [title |-> Titles, titleSays |-> {{}, {"OPEN"}}, state |-> {"UNKNOWN", "AWARDED"},
   stateSays |-> {{}, {"EXTENDED", "OPEN"}}, reference |-> BOOLEAN, description |-> Descriptions,
   published |-> {Unpublished, On("iso", 2026, 9, 14),
                 [On("dayFirst-", 2026, 9, 14) EXCEPT !.clock = Clock(9, 30, None), !.clockFirst = TRUE]},
   closing |-> {Unpublished, On("iso", 2026, 9, 16), On("named", 2037, 1, 1),
                [On("dayFirst/", 2026, 9, 12) EXCEPT !.clock = Clock(11, 0, None)]},
   organization |-> BOOLEAN, contact |-> BOOLEAN,
   documents |-> {{}, {"http"}, {"http", "other"}},
   value |-> {None, [number |-> TRUE, amount |-> 5, currency |-> FALSE],
              [number |-> TRUE, amount |-> -5, currency |-> TRUE]}]
=============================================================================
