---------------------------- MODULE SourceVerifier ----------------------------
(***************************************************************************)
(* The verification procedure of app/ingestion/verifier.py as a function   *)
(* from what the probe of a source meets to a report and a verdict.        *)
(***************************************************************************)
EXTENDS Naturals

Required == {"url", "access", "connector", "listing", "parse", "parser"}
Checks   == Required \cup {"robots", "detail", "documents", "pagination"}
Outcomes == {"PASSED", "WARNING", "FAILED", "SKIPPED"}
Verdicts == {"PASSED", "PASSED_WITH_WARNINGS", "FAILED"}
Passing  == {"PASSED", "PASSED_WITH_WARNINGS"}

\* A source and its web site, as far as the procedure looks.
Probes ==
  [connector : {"accepts", "undeclared", "needs_browser", "unknown"},
   resolves  : BOOLEAN,                             \* validate_url accepts base_url
   listing   : {"raises", "none", "one", "many"},   \* what discover() plans
   offsite   : BOOLEAN,                             \* some of it at another host
   answer    : {"raises", "denied", "missing", "unwell", "empty", "page"},
   rows      : {"unparsable", "unusable", "refused", "accepted"},
   \* the detail pages tried, two of at most MAX_DETAIL_PAGES
   detail    : {<<>>} \cup ({"lost", "error", "page"} \X {"lost", "error", "page"}),
   documents : BOOLEAN,                             \* the items have links
   ignores   : BOOLEAN,                             \* robots_policy = IGNORE
   paginated : BOOLEAN]                             \* pagination or max_pages set

-----------------------------------------------------------------------------
(* How far the procedure gets.                                             *)

Built(p)     == p.resolves /\ p.connector # "unknown"
Planned(p)   == Built(p) /\ p.listing \in {"one", "many"}
Responded(p) == Planned(p) /\ p.answer # "raises"
Parsed(p)    == Responded(p) /\ p.rows # "unparsable"
Itemised(p)  == Parsed(p) /\ p.rows \in {"refused", "accepted"}

Performed(p) ==
  {"connector", "url", "robots"}
    \cup (IF Built(p)     THEN {"listing", "detail", "documents", "pagination"} ELSE {})
    \cup (IF Planned(p)   THEN {"access"} ELSE {})
    \cup (IF Responded(p) THEN {"parse"}  ELSE {})
    \cup (IF Itemised(p)  THEN {"parser"} ELSE {})

-----------------------------------------------------------------------------
(* The checks.                                                             *)

ConnectorCheck(p) ==
  CASE p.connector \in {"unknown", "needs_browser"} -> "FAILED"
    [] p.connector = "undeclared"                   -> "WARNING"
    [] OTHER                                        -> "PASSED"

UrlCheck(p) == IF p.resolves THEN "PASSED" ELSE "FAILED"

ListingCheck(p) ==
  IF p.listing \in {"raises", "none"} THEN "FAILED"
  ELSE IF p.offsite THEN "WARNING" ELSE "PASSED"

AccessCheck(p) ==
  CASE p.answer = "page"   -> "PASSED"
    [] p.answer = "unwell" -> "WARNING"
    [] OTHER               -> "FAILED"

ParseCheck(p)  == IF Itemised(p) THEN "PASSED" ELSE "FAILED"

\* Mutant: an item that was parsed counts, valid or not.
AnyItem(p) == "PASSED"

ParserCheck(p) == IF p.rows = "accepted" THEN "PASSED" ELSE "FAILED"

RobotsCheck(p) == IF p.ignores THEN "WARNING" ELSE "PASSED"

\* A page that could not be fetched is not counted among the fetched ones.
DetailCheck(p) ==
  LET fetched == {i \in DOMAIN p.detail : p.detail[i] # "lost"}
      parsed  == {i \in DOMAIN p.detail : p.detail[i] = "page"}
  IN IF ~Itemised(p) \/ p.detail = <<>> THEN "SKIPPED"
     ELSE IF parsed = {} THEN "FAILED"
     ELSE IF parsed = fetched THEN "PASSED" ELSE "WARNING"

DocumentsCheck(p) ==
  IF ~Itemised(p) THEN "SKIPPED" ELSE IF p.documents THEN "PASSED" ELSE "WARNING"

PaginationCheck(p) ==
  IF p.listing = "many" THEN "PASSED" ELSE IF p.paginated THEN "WARNING" ELSE "SKIPPED"

Outcome(p, check) ==
  CASE check = "connector"  -> ConnectorCheck(p)
    [] check = "url"        -> UrlCheck(p)
    [] check = "listing"    -> ListingCheck(p)
    [] check = "access"     -> AccessCheck(p)
    [] check = "parse"      -> ParseCheck(p)
    [] check = "parser"     -> ParserCheck(p)
    [] check = "robots"     -> RobotsCheck(p)
    [] check = "detail"     -> DetailCheck(p)
    [] check = "documents"  -> DocumentsCheck(p)
    [] check = "pagination" -> PaginationCheck(p)

Report(p) == [check \in Performed(p) |-> Outcome(p, check)]

With(report, outcome) == {check \in DOMAIN report : report[check] = outcome}

Verdict(report) ==
  IF Required \cap With(report, "FAILED") # {} THEN "FAILED"
  ELSE IF With(report, "WARNING") # {} THEN "PASSED_WITH_WARNINGS" ELSE "PASSED"

-----------------------------------------------------------------------------
(* What a verdict is evidence of, stated without the checks.               *)

\* Can this configuration be turned into records?
Collectable(p) ==
  /\ p.resolves /\ p.connector \in {"accepts", "undeclared"}
  /\ p.listing \in {"one", "many"} /\ p.answer \in {"page", "unwell"}
  /\ p.rows = "accepted"

=============================================================================
