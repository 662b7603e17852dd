-------------------------------- MODULE MCCrawl --------------------------------
(* Sites of four pages and three tenders for TLC, one or two of each connector. *)
EXTENDS Crawl

CONSTANTS p1, p2, p3, p4, i1, i2, i3

MCPages == {p1, p2, p3, p4}

Nowhere == [p \in MCPages |-> Nothing]
Empty == [p \in MCPages |-> <<>>]
All(body) == [p \in MCPages |-> body]

\* Two listings; the second tender has no title.
Lists == (p1 :> <<i1, i2>>) @@ (p2 :> <<i3>>) @@ Empty

Json ==
  [connector |-> "http.json", paths |-> <<p1, p2>>, root |-> p4, rest |-> <<>>,
   fallback |-> FALSE, maxPages |-> 1, selector |-> TRUE, follow |-> FALSE,
   served |-> MCPages, body |-> All("list"), lists |-> Lists, next |-> Nowhere,
   titled |-> {i1, i3}, own |-> [i \in {i1, i2, i3} |-> Nothing]]

Html == [Json EXCEPT !.connector = "html.listing", !.body = All("text")]

\* Two pages of the API and max_pages = 3; the fourth page is HTML.
WordPress == [Json EXCEPT !.connector = "wordpress.rest", !.rest = <<p1, p2, p3>>, !.paths = <<>>,
                          !.served = {p1, p2, p4}, !.body = (p4 :> "text") @@ All("list")]

WithListing(s, listing) == [s EXCEPT !.fallback = TRUE, !.lists = (p4 :> listing) @@ s.lists]

OwnPages == (i1 :> p3) @@ (i3 :> p4) @@ (i2 :> Nothing)

Circle == (p1 :> p2) @@ (p2 :> p1) @@ Nowhere

MCSites == {
  Json,
  [Json EXCEPT !.body = (p2 :> "text") @@ All("list")],
  [Json EXCEPT !.body = (p1 :> "object") @@ All("list")],
  [Json EXCEPT !.connector = "custom.etender_ocds", !.paths = <<>>],
  [Json EXCEPT !.connector = "custom.etender_ocds", !.body = (p2 :> "object") @@ All("list")],
  [Json EXCEPT !.connector = "pdf.repository", !.body = All("text"), !.follow = TRUE,
               !.own = OwnPages, !.titled = {i1, i2, i3}],
  \* Pages in a circle, items with pages of their own, one of them lost.
  [Html EXCEPT !.paths = <<p1>>, !.maxPages = 3, !.next = Circle, !.follow = TRUE,
               !.own = OwnPages, !.served = {p1, p2, p3}],
  \* A circle of pages without a tender.
  [Html EXCEPT !.maxPages = 2, !.lists = Empty, !.next = Circle],
  \* The last page leads to itself; no page at all; no item_selector; nothing but JSON.
  [Html EXCEPT !.maxPages = 3, !.next = (p1 :> p2) @@ (p2 :> p2) @@ Nowhere],
  [Html EXCEPT !.maxPages = 0],
  [Html EXCEPT !.selector = FALSE],
  [Html EXCEPT !.paths = <<>>, !.body = All("object")],
  \* Fewer pages of the API than max_pages, with and without a fallback; an API that is
  \* empty, and one that is not there.
  WordPress,
  WithListing(WordPress, <<i1, i3>>),
  WithListing([WordPress EXCEPT !.lists = Empty, !.served = MCPages], <<i1, i3>>),
  WithListing([WordPress EXCEPT !.body = All("text"), !.follow = TRUE, !.own = OwnPages], <<i3, i1>>)}
=============================================================================
