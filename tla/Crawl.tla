--------------------------------- MODULE Crawl ---------------------------------
(***************************************************************************)
(* A crawl of one source: a connector's run(), a generator of raw items    *)
(* over the pages its fetcher gets, driven by parse_source                 *)
(* (app/ingestion/parser.py), which hands the items to the pipeline one at *)
(* a time and turns an exception into one recorded error.                  *)
(*                                                                         *)
(* The generic connectors differ in what their targets are and in what     *)
(* they do with a page: http.json and custom.etender_ocds read a fixed     *)
(* list of them; wordpress.rest reads max_pages of the REST API and then,  *)
(* if it has an html_fallback and the API failed or gave nothing, reads    *)
(* that as html.listing; html.listing follows the links to the next page   *)
(* and, if asked, each item's own page; pdf.repository may read the file   *)
(* behind each link.  browser.playwright renders its pages itself and is   *)
(* left out.  Redirects are left out: a page answers under its own URL.    *)
(***************************************************************************)
EXTENDS Fetcher, SequencesExt

CONSTANTS
  Items,    \* the tenders a site lists
  Sites,    \* the sites and configurations considered, see Site
  MaxItems  \* MAX_ITEMS_PER_RUN

Connectors ==
  {"http.json", "html.listing", "wordpress.rest", "pdf.repository", "custom.etender_ocds"}

\* A body is a JSON list of records, another JSON value, or text, HTML included.
Bodies == {"list", "object", "text"}

\* What the site publishes, and the configuration of the source.
Site ==
  [connector : Connectors,
   paths : Seq(Pages),       \* listing_paths
   root : Pages,             \* the page at base_url
   rest : Seq(Pages),        \* pages 1 .. max_pages of the API, for wordpress.rest
   fallback : BOOLEAN,       \* html_fallback, with its own paths and maxPages
   maxPages : Nat,           \* pagination.max_pages
   selector : BOOLEAN,       \* item_selector is given
   follow : BOOLEAN,         \* follow_detail; title_from = "pdf"
   served : SUBSET Pages,    \* the pages there are
   body : [Pages -> Bodies],
   lists : [Pages -> Seq(Items)],
   next : [Pages -> Pages \cup {Nothing}],  \* where next_selector leads
   titled : SUBSET Items,    \* items with a title
   own : [Items -> Pages \cup {Nothing}]]   \* the item's own page, if it has one

Errors == FetchErrors \cup {"parse", "max_items"}

ASSUME SitesAssumption ==
  Sites \subseteq Site /\ MaxItems \in Nat /\ Nothing \notin Items \cup Errors

VARIABLES
  site,   \* the source being crawled
  run,    \* where its generator is
  given,  \* the items handed to the pipeline so far
  error   \* the StageError recorded for the crawl

vars == <<site, run, given, error, request, limiter, robots>>

-----------------------------------------------------------------------------

\* at: "idle" before the first crawl, "targets" between pages, "listing" and "detail" while one
\* is fetched, "items" while those of a page are handed out, "done".  mode: which driver reads
\* the pages.
Runs ==
  [at : {"idle", "targets", "listing", "items", "detail", "done"}, mode : {"api", "html"},
   targets : Seq(Pages),   \* not begun yet
   page : Pages \cup {Nothing},
   pages : Nat,            \* read of the current target
   batch : Seq(Items),     \* parsed and not handed out yet
   produced : BOOLEAN]     \* the REST API gave an item

Mode(s) == IF s.connector = "html.listing" THEN "html" ELSE "api"

\* discover: the configured listings or the site's root; custom.etender_ocds has no default.
ListingTargets(s) == IF s.paths = <<>> THEN <<s.root>> ELSE s.paths

OcdsTargets(s) == s.paths

RestTargets(s) == s.rest

Targets(s) ==
  CASE s.connector = "wordpress.rest"      -> RestTargets(s)
    [] s.connector = "custom.etender_ocds" -> OcdsTargets(s)
    [] OTHER                               -> ListingTargets(s)

Started(s) ==
  [at |-> "targets", mode |-> Mode(s), targets |-> Targets(s), page |-> Nothing,
   pages |-> 0, batch |-> <<>>, produced |-> FALSE]

CrawlTypeOK ==
  /\ FetcherTypeOK
  /\ site \in Sites
  /\ run \in Runs
  /\ given \in Seq(Items) /\ Len(given) <= MaxItems
  /\ error \in Errors \cup {Nothing}

Init ==
  /\ site \in Sites
  /\ run = [Started(site) EXCEPT !.at = "idle"]
  /\ given = <<>> /\ error = Nothing
  /\ request = Idle /\ limiter = Unused /\ robots = Unread

\* ingest_source: another job, with a fetcher of its own.
Begin(s) ==
  /\ run.at \in {"idle", "done"}
  /\ site' = s /\ run' = Started(s) /\ given' = <<>> /\ error' = Nothing
  /\ request' = Idle /\ limiter' = Unused /\ robots' = Unread

-----------------------------------------------------------------------------
(* The end of a crawl                                                      *)

\* Mutant: the HTML listing that is the fall-back falls back to itself.
FallsBackAgain == site.connector = "wordpress.rest" /\ site.fallback

\* WordPressConnector.run: the HTML listing instead, whatever was read before.
FallsBack == site.connector = "wordpress.rest" /\ run.mode = "api" /\ site.fallback

FallenBack == [Started(site) EXCEPT !.mode = "html", !.targets = ListingTargets(site)]

Stop == [run EXCEPT !.at = "done", !.batch = <<>>, !.page = Nothing]

\* An exception leaves the generator, which cannot be resumed: parse_source records it.
Raise(e) ==
  IF FallsBack THEN run' = FallenBack /\ UNCHANGED error
  ELSE run' = Stop /\ error' = e

\* The generator is exhausted.
Exhausted ==
  /\ run' = IF FallsBack /\ ~run.produced THEN FallenBack ELSE Stop
  /\ UNCHANGED error

-----------------------------------------------------------------------------
(* Pages                                                                   *)

\* A target's page is read while there are fewer than max_pages of it.
Within(n) == run.mode = "api" \/ n < site.maxPages

\* A link to the next page that leads back to the same page is not followed.
Onward(s, page) == IF s.next[page] = page THEN Nothing ELSE s.next[page]

\* discover, and the loop over what it returned.
NextTarget ==
  /\ run.at = "targets"
  /\ IF site.connector = "custom.etender_ocds" /\ Targets(site) = <<>>
     THEN Raise("parse") /\ UNCHANGED <<request, robots>>
     ELSE IF run.targets = <<>> THEN Exhausted /\ UNCHANGED <<request, robots>>
     ELSE LET page == Head(run.targets)
              taken == [run EXCEPT !.targets = Tail(@), !.pages = 0] IN
          IF Within(0)
          THEN Ask(page) /\ run' = [taken EXCEPT !.at = "listing", !.page = page]
               /\ UNCHANGED error
          ELSE run' = taken /\ UNCHANGED <<request, robots, error>>
  /\ UNCHANGED <<site, given, limiter>>

\* parse, by connector: whether a body is an error, or how much of it is read.
\* A JSON object that is not what records_path leads to is one record without a title.
JsonReads(s, body) == IF body = "text" THEN "error" ELSE IF body = "list" THEN "all" ELSE "none"

RestReads(s, body) == IF body = "list" THEN "all" ELSE "error"

OcdsReads(s, body) == IF body = "list" THEN "all" ELSE "error"

\* Anything parses as HTML; what is not, matches no selector.
HtmlReads(s, body) ==
  IF ~s.selector THEN "error" ELSE IF body = "text" THEN "all" ELSE "none"

LinksRead(s, body) == IF body = "text" THEN "all" ELSE "none"

Reads(s, mode, page) ==
  LET body == s.body[page] IN
  IF mode = "html" THEN HtmlReads(s, body)
  ELSE CASE s.connector = "http.json"           -> JsonReads(s, body)
         [] s.connector = "wordpress.rest"      -> RestReads(s, body)
         [] s.connector = "custom.etender_ocds" -> OcdsReads(s, body)
         [] OTHER                               -> LinksRead(s, body)

\* Mutant: a page without items is not counted.
PagesWithItems(batch) == IF batch = <<>> THEN run.pages ELSE run.pages + 1

PagesRead(batch) == run.pages + 1

Parse(page) ==
  LET batch == IF Reads(site, run.mode, page) = "all" THEN site.lists[page] ELSE <<>> IN
  IF Reads(site, run.mode, page) = "error" THEN Raise("parse")
  ELSE /\ run' = [run EXCEPT !.at = "items", !.pages = PagesRead(batch), !.batch = batch]
       /\ UNCHANGED error

\* The pages of the current target are followed by html.listing only.
TurnPage ==
  /\ run.at = "items" /\ run.batch = <<>>
  /\ LET next == IF run.mode = "html" THEN Onward(site, run.page) ELSE Nothing IN
     IF next # Nothing /\ Within(run.pages)
     THEN Ask(next) /\ run' = [run EXCEPT !.at = "listing", !.page = next]
     ELSE run' = [run EXCEPT !.at = "targets", !.page = Nothing]
          /\ UNCHANGED <<request, robots>>
  /\ UNCHANGED <<site, given, error, limiter>>

-----------------------------------------------------------------------------
(* Items                                                                   *)

\* Mutant: the ceiling is looked at one item late.
OneTooMany(item, rest) ==
  IF Len(given) > MaxItems
  THEN run' = Stop /\ error' = "max_items" /\ UNCHANGED given
  ELSE /\ given' = Append(given, item)
       /\ run' = [run EXCEPT !.at = "items", !.batch = rest, !.produced = TRUE]
       /\ UNCHANGED error

\* parse_source: the item past the ceiling is not handed out, and ends the crawl.
Yield(item, rest) ==
  IF Len(given) = MaxItems
  THEN run' = Stop /\ error' = "max_items" /\ UNCHANGED given
  ELSE /\ given' = Append(given, item)
       /\ run' = [run EXCEPT !.at = "items", !.batch = rest, !.produced = TRUE]
       /\ UNCHANGED error

HasDetail(item) ==
  /\ site.follow /\ site.own[item] # Nothing
  /\ run.mode = "html" \/ site.connector = "pdf.repository"

\* validate, and the item's own page if it is wanted.
TakeItem ==
  /\ run.at = "items" /\ run.batch # <<>>
  /\ LET item == Head(run.batch) IN
     IF item \notin site.titled
     THEN /\ run' = [run EXCEPT !.batch = Tail(@)]
          /\ UNCHANGED <<given, error, request, robots>>
     ELSE IF HasDetail(item)
     THEN /\ Ask(site.own[item]) /\ run' = [run EXCEPT !.at = "detail"]
          /\ UNCHANGED <<given, error>>
     ELSE Yield(item, Tail(run.batch)) /\ UNCHANGED <<request, robots>>
  /\ UNCHANGED <<site, limiter>>

-----------------------------------------------------------------------------
(* Answers                                                                 *)

\* Mutant: an item whose own page fails is dropped.
DetailOrNothing(outcome) ==
  IF outcome = "page" THEN Yield(Head(run.batch), Tail(run.batch))
  ELSE run' = [run EXCEPT !.at = "items", !.batch = Tail(@)] /\ UNCHANGED <<given, error>>

\* _enrich_from_detail, PDFRepositoryConnector.run: a failure degrades the item.
Detail(outcome) == Yield(Head(run.batch), Tail(run.batch))

\* What the end of a fetch means to the crawl.
Answered(outcome) ==
  CASE outcome = "again"   -> UNCHANGED <<run, given, error>>
    [] run.at = "detail" /\ outcome # "again" -> Detail(outcome)
    [] run.at = "listing" /\ outcome = "page" -> Parse(run.page) /\ UNCHANGED given
    [] OTHER -> Raise(outcome) /\ UNCHANGED given

\* A page the site does not have is refused.
Attempt(answer) ==
  /\ answer = "page" => request.page \in site.served
  /\ \E outcome \in {"again", answer} : Send(answer, outcome) /\ Answered(outcome)
  /\ UNCHANGED site

TurnedAway == Refuse /\ Answered("disallowed") /\ UNCHANGED site

Wait == Tick /\ UNCHANGED <<site, run, given, error>>

-----------------------------------------------------------------------------

Step == NextTarget \/ TurnPage \/ TakeItem \/ TurnedAway \/ Wait \/ \E a \in Answers : Attempt(a)

Next == Step \/ \E s \in Sites : Begin(s)

Spec == Init /\ [][Next]_vars

\* The event loop keeps running the crawl it has begun.
FairSpec == Spec /\ WF_vars(Step)

-----------------------------------------------------------------------------
(* What a crawl delivers                                                   *)

\* The pages html.listing reads from a page on, at most n of them.
Walk(s) ==
  LET from[n \in Nat] == [p \in Pages \cup {Nothing} |->
        IF n = 0 \/ p = Nothing THEN <<>> ELSE <<p>> \o from[n - 1][Onward(s, p)]]
  IN  from

\* What the members of a sequence give, one after the other, up to the first that stops it.
Gather(S, part, stop) ==
  LET of[q \in Seq(S)] ==
        IF q = <<>> \/ Head(q) \in stop THEN <<>> ELSE part[Head(q)] \o of[Tail(q)]
  IN  of

\* The pages read from a list of targets.
PagesOf(s, mode) ==
  Gather(Pages, [p \in Pages |-> IF mode = "html" THEN Walk(s)[s.maxPages][p] ELSE <<p>>], {})

\* Items without a title are passed over.
Titled(s) == Gather(Items, [i \in Items |-> IF i \in s.titled THEN <<i>> ELSE <<>>], {})

\* What the pages hold, up to the first that cannot be read.
ItemsOf(s, mode) ==
  Gather(Pages,
         [p \in Pages |-> IF Reads(s, mode, p) = "all" THEN Titled(s)[s.lists[p]] ELSE <<>>],
         {p \in Pages : Reads(s, mode, p) = "error"})

ByApi(s) == ItemsOf(s, "api")[PagesOf(s, "api")[Targets(s)]]

ByHtml(s) == ItemsOf(s, "html")[PagesOf(s, "html")[ListingTargets(s)]]

\* What a crawl may have to give, in order: what the site's listings hold; of a source that
\* fell back, what the API gave before it failed and then what the HTML listing holds.
Promised(s, mode) ==
  IF mode = "api" THEN {ByApi(s)}
  ELSE IF Mode(s) = "html" THEN {ByHtml(s)}
  ELSE {SubSeq(ByApi(s), 1, k) \o ByHtml(s) : k \in 0 .. Len(ByApi(s))}

\* Whatever fails, the pipeline has been given what the listings hold, in order, up to the
\* failure: no title is skipped because its own page is lost, no page because another item
\* failed.  A fallback starts over with its own listing.  A crawl without an error has
\* given everything.
GivenInOrder ==
  \E items \in Promised(site, run.mode) :
    IF run.at = "done" /\ error = Nothing THEN given = items ELSE IsPrefix(given, items)

\* Two requests to the host are as far apart as the limiter of the fetcher says, retries
\* and the pages of single items included.
Polite == [][(\E a \in Answers : Attempt(a)) => limiter.since >= Min(Spacing)]_vars

\* What remains of a crawl, the longest to do first: the drivers, their targets, the pages of
\* the target, the items of the page, each with its own page, the attempts, the waiting.
DriversLeft == IF run.at = "done" THEN 0 ELSE IF run.mode = "api" THEN 2 ELSE 1

PagesLeft ==
  IF run.at \notin {"listing", "items", "detail"} THEN 0
  ELSE IF run.mode = "html" THEN 1 + site.maxPages - run.pages
  ELSE IF run.at = "listing" THEN 2 ELSE 1

ItemsLeft ==
  CASE run.at = "items"  -> 2 * Len(run.batch) + 1
    [] run.at = "detail" -> 2 * Len(run.batch)
    [] OTHER             -> 0

AttemptsLeft == IF request = Idle THEN 0 ELSE 1 + MaxRetries - request.attempt

Remaining ==
  <<DriversLeft, Len(run.targets), PagesLeft, ItemsLeft, AttemptsLeft, request.sleep + limiter.wait>>

Amounts == Nat \X Nat \X Nat \X Nat \X Nat \X Nat

Less(a, b) == \E k \in 1 .. 6 : a[k] < b[k] /\ \A j \in 1 .. k - 1 : a[j] = b[j]

\* Whatever a crawl meets, each of its steps leaves less to do: neither pages that link in a
\* circle, nor targets that fail, nor retries let it go on for ever.
RunsOut == [][Step => Remaining' \in Amounts /\ Less(Remaining', Remaining)]_vars

\* A crawl that has begun ends: links that lead in a circle, retries and sleeps included.
CrawlEnds == run.at \notin {"idle", "done"} ~> run.at = "done"
=============================================================================
