------------------------------ MODULE TenderListing ------------------------------
(***************************************************************************)
(* Reading the catalogue page by page: GET /api/v1/tenders and /search     *)
(* (app/services/tender_service.py) while crawls commit to it.             *)
(*                                                                         *)
(* A request counts the rows that match, then selects its page of them, in *)
(* two statements that under READ COMMITTED each see what is committed at  *)
(* that moment.  Its client asks for the next page for as long as the last *)
(* answer says there is one.  The filters that compare a column with a     *)
(* value are one, on status; dates are numbers, and two columns stand for  *)
(* those a listing can be sorted by; how well a row matches the text of a  *)
(* search is its rank, 0 when it does not.  Rows are inserted and updated, *)
(* never deleted.  The ceiling of 10 000 pages is left out.                *)
(***************************************************************************)
EXTENDS Integers, FiniteSets, SequencesExt

CONSTANTS
  Tenders,     \* ids, which the database can compare: numbers
  Rows,        \* the contents of a row
  Filters,     \* what clients ask for
  PageSizes,   \* page_size of a request
  MaxPageSize, \* MAX_PAGE_SIZE
  Ranked,      \* the search backend ranks: PostgreSQL does, the SQL fallback does not
  MaxCommits,  \* a bound on the commits during a walk, for TLC
  None         \* null

Moments == Nat \cup {None}

Row == [status : {"OPEN", "CLOSED"}, published : Moments, closing : Moments, rank : Nat,
        fixture : BOOLEAN]

Filter == [status : {"OPEN", "CLOSED", None}, after : Moments, before : Moments,  \* of closing
           fixtures : BOOLEAN, text : BOOLEAN,   \* q is given
           sort : {"published", "closing", "relevance"}, descending : BOOLEAN]

ASSUME ListingAssumption ==
  /\ Tenders \subseteq Nat /\ IsFiniteSet(Tenders) /\ Rows \subseteq Row /\ Filters \subseteq Filter
  /\ PageSizes \subseteq Nat \ {0} /\ MaxPageSize \in Nat /\ MaxCommits \in Nat

VARIABLES
  table,   \* the committed row of each tender, None before it is inserted
  walk,    \* the client's walk: the filter and page size it keeps to, the page it is at, the
           \*   last total it was told, and how far its request is
  shown,   \* the pages it was given
  drift    \* since the walk began: the tenders that came into the listing, that left it, that
           \*   changed place in it, the commits so far, and whether one fell between the
           \*   count and the select of the present request (split)

vars == <<table, walk, shown, drift>>

Steady == [entered |-> {}, left |-> {}, moved |-> {}, commits |-> 0, split |-> FALSE]

-----------------------------------------------------------------------------
(* The query                                                               *)

\* _check_ranges and get_pagination: anything else is answered 422.
Accepted(f, size) ==
  /\ f.after # None /\ f.before # None => f.after <= f.before
  /\ size <= MaxPageSize

\* _apply_filters and apply_text_filter: a comparison with a null is not true.
Matches(row, f) ==
  /\ f.text => row.rank > 0
  /\ f.fixtures \/ ~row.fixture
  /\ f.status # None => row.status = f.status
  /\ f.after # None => row.closing # None /\ row.closing >= f.after
  /\ f.before # None => row.closing # None /\ row.closing <= f.before

Listed(rows, f) == {t \in Tenders : rows[t] # None /\ Matches(rows[t], f)}

\* _apply_sort: relevance falls back to the newest first where nothing is ranked.
ByRank(f) == f.sort = "relevance" /\ f.text /\ Ranked

SortKey(row, f) == IF ByRank(f) THEN row.rank
                   ELSE IF f.sort = "closing" THEN row.closing ELSE row.published

Descending(f) == f.sort = "relevance" \/ f.descending

\* Nulls come last either way.
KeyBefore(a, b, f) ==
  \/ a # None /\ b = None
  \/ a # None /\ b # None /\ IF Descending(f) THEN a > b ELSE a < b

\* A mutant: no tiebreaker.
BeforeByKey(rows, t, u, f) == KeyBefore(SortKey(rows[t], f), SortKey(rows[u], f), f)

Before(rows, t, u, f) ==
  \/ KeyBefore(SortKey(rows[t], f), SortKey(rows[u], f), f)
  \/ SortKey(rows[t], f) = SortKey(rows[u], f) /\ t < u

\* The orders in which the database may return the listing: one, if ties are broken.
Orders(rows, f) ==
  {s \in SetToSeqs(Listed(rows, f)) :
     \A i, j \in DOMAIN s : Before(rows, s[i], s[j], f) => i < j}

Offset(w) == (w.page - 1) * w.size

Page(s, w) == SubSeq(s, Offset(w) + 1, IF Offset(w) + w.size < Len(s) THEN Offset(w) + w.size ELSE Len(s))

\* PaginationMeta.build: page < total_pages.
HasNext(w) == w.page * w.size < w.total

-----------------------------------------------------------------------------
(* The walk                                                                *)

Init ==
  /\ table \in [Tenders -> Rows \cup {None}]
  /\ walk \in {[at |-> "idle", filter |-> f, size |-> n, page |-> 1, total |-> 0] :
                 f \in Filters, n \in PageSizes}
  /\ shown = <<>> /\ drift = Steady

\* The first request of a walk.
Ask ==
  /\ walk.at = "idle"
  /\ walk' = [walk EXCEPT !.at = IF Accepted(walk.filter, walk.size) THEN "count" ELSE "refused"]
  /\ UNCHANGED <<table, shown, drift>>

\* _count
CountRows ==
  /\ walk.at = "count"
  /\ walk' = [walk EXCEPT !.at = "select", !.total = Cardinality(Listed(table, walk.filter))]
  /\ drift' = [drift EXCEPT !.split = FALSE]
  /\ UNCHANGED <<table, shown>>

\* list_tenders and search: the page, and the client's next request.
SelectPage ==
  /\ walk.at = "select"
  /\ \E s \in Orders(table, walk.filter) : shown' = Append(shown, Page(s, walk))
  /\ walk' = IF HasNext(walk) THEN [walk EXCEPT !.at = "count", !.page = walk.page + 1]
             ELSE [walk EXCEPT !.at = "done"]
  /\ UNCHANGED <<table, drift>>

\* What a commit does to the listing under the walk.
Drifted(rows) ==
  LET f == walk.filter  old == Listed(table, f)  new == Listed(rows, f)
      place(rs, t) == SortKey(rs[t], f)
  IN [entered |-> drift.entered \cup (new \ old), left |-> drift.left \cup (old \ new),
      moved |-> drift.moved \cup {t \in old \cap new : place(rows, t) # place(table, t)},
      commits |-> drift.commits + 1, split |-> TRUE]

\* A crawl commits one tender: a new one, or what changed of a known one.
Commit(t, row) ==
  /\ walk.at \in {"count", "select"} /\ drift.commits < MaxCommits
  /\ row # table[t]
  /\ table' = [table EXCEPT ![t] = row]
  /\ drift' = Drifted(table')
  /\ UNCHANGED <<walk, shown>>

Insert(t, row) == table[t] = None /\ Commit(t, row)

\* _update_existing writes no null over a value, and nothing makes a tender a fixture.
Update(t, row) ==
  /\ table[t] # None
  /\ row.fixture = table[t].fixture
  /\ table[t].published # None => row.published # None
  /\ table[t].closing # None => row.closing # None
  /\ Commit(t, row)

Next ==
  \/ Ask \/ CountRows \/ SelectPage
  \/ \E t \in Tenders, row \in Rows : Insert(t, row) \/ Update(t, row)

Spec == Init /\ [][Next]_vars

-----------------------------------------------------------------------------
(* Properties                                                              *)

Shown == UNION {ToSet(shown[i]) : i \in DOMAIN shown}

Repeated(t) ==
  \E i, j \in DOMAIN shown : \E m \in DOMAIN shown[i], n \in DOMAIN shown[j] :
    <<i, m>> # <<j, n>> /\ shown[i][m] = t /\ shown[j][n] = t

\* What a walk through the pages can rely on.  Unless a tender comes into the listing or
\* changes place, none is shown twice; unless one leaves or changes place, all that were
\* there at the start are shown, provided nothing was committed between the last
\* count and its page.  A listing at rest is therefore shown completely and once
\* (tender_service.py:305-319; docs/API.md:117).
WalkIsReliable ==
  /\ drift.entered \cup drift.moved = {} => \A t \in Shown : ~Repeated(t)
  /\ walk.at = "done" /\ drift.left \cup drift.moved = {} /\ ~drift.split =>
       Listed(table, walk.filter) \ drift.entered \subseteq Shown

\* What the guide promises of every walk: "pages never overlap or skip rows" (docs/API.md:117).
\* Pages are offsets into a listing that changes between the requests.
PagesNeverOverlapOrSkip ==
  /\ \A t \in Shown : ~Repeated(t)
  /\ walk.at = "done" =>
       Listed(table, walk.filter) \ (drift.entered \cup drift.moved) \subseteq Shown
=============================================================================
