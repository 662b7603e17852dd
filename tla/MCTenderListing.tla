----------------------------- MODULE MCTenderListing -----------------------------
(* Three tenders with few contents, so that places in the listing are shared, for TLC. *)
EXTENDS TenderListing

Plain == [status |-> "OPEN", published |-> 1, closing |-> 2, rank |-> 1, fixture |-> FALSE]

MCRows == {Plain, [Plain EXCEPT !.published = 2, !.closing = None], [Plain EXCEPT !.status = "CLOSED", !.closing = 1, !.rank = 0],
           [Plain EXCEPT !.published = None, !.rank = 2], [Plain EXCEPT !.fixture = TRUE]}

Newest == [status |-> None, after |-> None, before |-> None, fixtures |-> FALSE, text |-> FALSE,
           sort |-> "published", descending |-> TRUE]

MCFilters == {Newest, [Newest EXCEPT !.status = "OPEN", !.sort = "closing", !.descending = FALSE],
              [Newest EXCEPT !.after = 2, !.before = 1],
              [Newest EXCEPT !.after = 1, !.before = 2, !.text = TRUE, !.sort = "relevance"],
              [Newest EXCEPT !.sort = "relevance"]}
==================================================================================
