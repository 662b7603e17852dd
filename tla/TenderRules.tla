------------------------------- MODULE TenderRules -------------------------------
(***************************************************************************)
(* What becomes of one published item: Normalizer.normalize, which turns   *)
(* it into a canonical record, and Validator.validate, which grades the    *)
(* record (app/ingestion/normalizer.py, validator.py).                     *)
(*                                                                         *)
(* The site corrects and completes its item between crawls; every crawl    *)
(* normalizes and validates it afresh.  A text is reduced to whether it is *)
(* there and to the words that are looked for in it.  Left out, because    *)
(* the grade does not depend on them: the procurement type, the briefing,  *)
(* how a submission is made, and the URLs, of which only well-formed ones  *)
(* reach the validator.                                                    *)
(***************************************************************************)
EXTENDS PublishedDates, Sequences

CONSTANTS
  Now,       \* the instant of the crawls
  Closings,  \* the closing dates the first crawl may meet
  Said       \* per field, what the site may publish there later

Statuses == {"OPEN", "CLOSED", "CANCELLED", "AWARDED", "EXTENDED", "SUSPENDED", "UNKNOWN"}

\* STATUS_KEYWORDS: whose words are looked for first.
StatusOrder == <<"CANCELLED", "AWARDED", "EXTENDED", "SUSPENDED", "CLOSED", "OPEN">>

Keywords == Statuses \ {"UNKNOWN"}

Titles == {None, "short", "whole"}

Descriptions == {None, "plain", "withContact"}

\* A number, or text with a currency symbol; currency: a currency field is published.
Values == [number : BOOLEAN, amount : Int, currency : BOOLEAN]

Item ==
  [title : Titles, titleSays : SUBSET Keywords,
   state : Statuses, stateSays : SUBSET Keywords,   \* UNKNOWN: absent, or not a status
   reference : BOOLEAN, description : Descriptions,
   published : Texts, closing : Texts,
   organization : BOOLEAN,       \* in the item or in its source
   contact : BOOLEAN,            \* in fields of its own
   documents : SUBSET {"http", "other"},   \* by the URLs' scheme
   value : Values \cup {None}]

Qualities == {"INVALID", "NEEDS_REVIEW", "INCOMPLETE", "VALID"}

Record ==
  [title : Titles \ {None}, status : Statuses,
   reference : BOOLEAN, description : BOOLEAN, organization : BOOLEAN, contact : BOOLEAN,
   published : Int \cup {None}, closing : Int \cup {None},
   documents : SUBSET {"http", "other"}, amount : Nat \cup {None}, currency : BOOLEAN,
   confidence : 0 .. 100, quality : Qualities]

\* What a site may say of an item is an item.
ASSUME RulesAssumption ==
  /\ None \notin {"short", "whole", "plain", "withContact"}
  /\ Now \in Int /\ Closings \subseteq Texts
  /\ Said \in [title : SUBSET Titles, titleSays : SUBSET SUBSET Keywords,
               state : SUBSET Statuses, stateSays : SUBSET SUBSET Keywords,
               reference : SUBSET BOOLEAN, description : SUBSET Descriptions,
               published : SUBSET Texts, closing : SUBSET Texts,
               organization : SUBSET BOOLEAN, contact : SUBSET BOOLEAN,
               documents : SUBSET SUBSET {"http", "other"}, value : SUBSET (Values \cup {None})]

VARIABLES
  item,    \* as the site publishes it
  record   \* as the last crawl left it, None if normalize refused the item

vars == <<item, record>>

-----------------------------------------------------------------------------
(* Normalizer                                                              *)

\* The status whose keywords are found first.
FirstOf(says) == StatusOrder[CHOOSE i \in DOMAIN StatusOrder :
                               /\ StatusOrder[i] \in says
                               /\ \A j \in 1 .. i - 1 : StatusOrder[j] \notin says]

\* _status: what the source states, the words of the title, and only then the closing.
Status(i, closing) ==
  CASE i.state # "UNKNOWN" -> i.state
    [] i.state = "UNKNOWN" /\ i.stateSays # {} -> FirstOf(i.stateSays)
    [] i.state = "UNKNOWN" /\ i.stateSays = {} /\ i.titleSays # {} -> FirstOf(i.titleSays)
    [] OTHER -> IF closing = None THEN "UNKNOWN"
                ELSE IF closing >= Now THEN "OPEN" ELSE "CLOSED"

\* _value: a negative number is dropped; text holds no sign and brings its own currency.
Amount(v) == IF v = None \/ v.amount < 0 THEN None ELSE v.amount

HasCurrency(v) == v # None /\ (v.currency \/ ~v.number)

\* _contact: from its own fields, or the first address or number in the description.
HasContact(i) == i.contact \/ i.description = "withContact"

\* _confidence
Confidence(published, closing, reference) ==
  50 + ((20 * published + 20 * closing) \div 100) + (IF reference THEN 10 ELSE 0)

\* normalize, for an item with a title.
Normalized(i) ==
  LET published == ParseDatetime(i.published, Midnight)
      closing == ParseClosing(i.closing)
  IN [title |-> i.title, status |-> Status(i, closing.value),
      reference |-> i.reference, description |-> i.description # None,
      organization |-> i.organization, contact |-> HasContact(i),
      published |-> published.value, closing |-> closing.value,
      documents |-> i.documents, amount |-> Amount(i.value), currency |-> HasCurrency(i.value),
      confidence |-> Confidence(published.confidence, closing.confidence, i.reference),
      quality |-> "NEEDS_REVIEW"]

-----------------------------------------------------------------------------
(* Validator                                                               *)

MaxPast == 25 * 365 * Day
MaxFuture == 10 * 365 * Day

\* The issues that ask for a person: those of the fields in review_triggers with one of
\* the words looked for in their messages.
SuspiciousPublished(r) ==
  r.published # None /\ (r.published > Now + 2 * Day \/ r.published < Now - MaxPast)

SuspiciousClosing(r) ==
  /\ r.closing # None
  /\ \/ r.closing > Now + MaxFuture
     \/ r.published # None /\ r.closing < r.published - Day

SuspiciousDocuments(r) == "other" \in r.documents

\* A mutant: the value's issues count as well.
SuspiciousOrPriced(r) ==
  \/ SuspiciousPublished(r) \/ SuspiciousClosing(r) \/ SuspiciousDocuments(r)
  \/ r.amount # None /\ ~r.currency

Suspicious(r) == SuspiciousPublished(r) \/ SuspiciousClosing(r) \/ SuspiciousDocuments(r)

\* COMPLETENESS_WEIGHTS, in hundredths.
Completeness(r) ==
  LET Weight(there, weight) == IF there THEN weight ELSE 0
  IN Weight(r.reference, 15) + Weight(r.description, 15) + Weight(r.published # None, 15)
     + Weight(r.closing # None, 20) + Weight(r.organization, 10)
     + Weight(r.documents # {}, 15) + Weight(r.contact, 10)

\* _classify
Quality(r) ==
  CASE r.title = "short"                            -> "INVALID"
    [] r.title # "short" /\ Suspicious(r)           -> "NEEDS_REVIEW"
    [] r.title # "short" /\ ~Suspicious(r) ->
         IF Completeness(r) >= 70 THEN "VALID"
         ELSE IF Completeness(r) >= 30 THEN "INCOMPLETE" ELSE "NEEDS_REVIEW"

\* normalize raises for an item without a title; validate grades every record.
Curated(i) ==
  IF i.title = None THEN None
  ELSE [Normalized(i) EXCEPT !.quality = Quality(Normalized(i))]

-----------------------------------------------------------------------------
(* The site and the crawls                                                 *)

Unpublished ==
  [form |-> "none", y |-> 2000, m |-> 1, d |-> 1, clock |-> None, zone |-> None,
   clockFirst |-> FALSE]

\* What an item says of a field when it says nothing.
Absent ==
  [title |-> None, titleSays |-> {}, state |-> "UNKNOWN", stateSays |-> {},
   reference |-> FALSE, description |-> None, published |-> Unpublished,
   closing |-> Unpublished, organization |-> FALSE, contact |-> FALSE, documents |-> {},
   value |-> None]

Optional == {"reference", "description", "published", "closing", "organization", "contact",
             "documents", "value"}

\* The first crawl meets a title and a closing date.
First(says, closing) == [Absent EXCEPT !.title = "whole", !.titleSays = says, !.closing = closing]

Init ==
  /\ item \in {First(says, closing) : says \in Said.titleSays, closing \in Closings}
  /\ record = Curated(item)

\* The item of the next crawl differs in one field.  Only items within Said are changed.
Change(f, v) ==
  /\ \A g \in DOMAIN Absent : item[g] \in Said[g]
  /\ item' = [item EXCEPT ![f] = v]
  /\ record' = Curated(item')

Complete(f) == item[f] = Absent[f] /\ \E v \in Said[f] \ {Absent[f]} : Change(f, v)

Correct(f) == item[f] # Absent[f] /\ \E v \in Said[f] \ {item[f]} : Change(f, v)

Next == \E f \in DOMAIN Absent : Complete(f) \/ Correct(f)

Spec == Init /\ [][Next]_vars

-----------------------------------------------------------------------------
(* Properties                                                              *)

\* A month-first date among day-first ones is not read, whatever a comment says.
MonthFirst(t) == t.form \in {"dayFirst-", "dayFirst/"} /\ t.m > 12

\* The texts that are read as they are understood: a date with a clock time, or one whose
\* form does not reach the ISO path, and nothing at the end that passes for an offset.
ReadablyClosed(t) ==
  /\ UnderstoodDate(t) # None /\ ~MonthFirst(t) /\ ~EndsInYear(t)
  /\ IF t.clock = None THEN t.form # "iso" ELSE IsClock(t.clock)

\* Nothing is guessed and nothing is misread: a record has a closing date only if the text
\* has one, the instant is the one a reader of the text understands, whatever the order,
\* offset or half of the day it is written with, and a tender whose words say nothing of
\* its status is open exactly until then (dates.py: parse_datetime; normalizer.py: _status).
ReadAsUnderstood ==
  record # None =>
    /\ record.closing # None => UnderstoodDate(item.closing) # None
    /\ ReadablyClosed(item.closing) =>
         /\ record.closing = Understood(item.closing, EndOfDay)
         /\ item.state = "UNKNOWN" /\ item.stateSays \cup item.titleSays = {} =>
              (record.status = "OPEN") = (Understood(item.closing, EndOfDay) >= Now)

\* parse_closing_datetime's promise for a date without a time: "use 23:59:59 local"
\* (dates.py:251-255).  Broken twice: the ISO path takes such a date for midnight, so the
\* tender is closed all its last day, and a year after a hyphen is taken for an offset.
ClosesAtEndOfDay ==
  record # None /\ DateIn(item.closing) # None /\ item.closing.clock = None =>
    record.closing = Understood(item.closing, EndOfDay)

\* How far from what is meant a date may be read: an offset taken from a year is up to
\* 35 hours off, midnight taken for the end of the day is one day.
Slip == 2 * Day

\* What is published of an item fits together, as a reader understands it, whatever the
\* dates are misread for: nothing is published before its time, and a tender is open for
\* two days at least.
Plausible(i) ==
  LET published == Understood(i.published, Midnight)
      closing == Understood(i.closing, EndOfDay)
  IN /\ i.documents \subseteq {"http"}
     /\ \A t \in {i.published, i.closing} : t.clock # None => IsClock(t.clock)
     /\ UnderstoodDate(i.published) # None => published <= Now /\ published >= Now - MaxPast
     /\ UnderstoodDate(i.closing) # None => closing <= Now + MaxFuture - Slip
     /\ UnderstoodDate(i.published) # None /\ UnderstoodDate(i.closing) # None =>
          closing >= published + Slip

Rank == [INVALID |-> 0, NEEDS_REVIEW |-> 1, INCOMPLETE |-> 2, VALID |-> 3]

\* A site that publishes more about a tender, and nothing implausible, never has the
\* tender's grade lowered for it, misread dates included (validator.py:3-5: missing
\* optional fields "only lower its completeness").
MoreIsNotWorse ==
  [][\A f \in Optional :
       record # None /\ item[f] = Absent[f] /\ item' = [item EXCEPT ![f] = item'[f]] /\ Plausible(item')
         => Rank[record'.quality] >= Rank[record.quality]]_vars
=============================================================================
