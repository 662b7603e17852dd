--------------------------- MODULE MCSourceLifecycle ---------------------------
(***************************************************************************)
(* A small registry: one source, two scripts at a time, and the ways in    *)
(* which a probe may end.                                                  *)
(***************************************************************************)
EXTENDS SourceLifecycle, TLC

Fine == [connector |-> "accepts", resolves |-> TRUE, listing |-> "many", offsite |-> FALSE,
         answer |-> "page", rows |-> "accepted", detail |-> <<"page", "page">>,
         documents |-> TRUE, ignores |-> FALSE, paginated |-> TRUE]

MCSites ==
  {Fine,
   [Fine EXCEPT !.connector = "needs_browser"],
   [Fine EXCEPT !.resolves = FALSE],
   [Fine EXCEPT !.listing = "none"],
   [Fine EXCEPT !.answer = "denied"],
   [Fine EXCEPT !.answer = "unwell", !.rows = "unparsable"],
   [Fine EXCEPT !.rows = "refused"],
   [Fine EXCEPT !.detail = <<"lost", "error">>, !.ignores = TRUE]}
MCTargets == {"ACTIVE", "PAUSED"}

Symmetry == Permutations(Scripts) \cup Permutations(Sources)

=============================================================================
