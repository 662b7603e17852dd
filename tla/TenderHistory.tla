---------------------------- MODULE TenderHistory ----------------------------
(***************************************************************************)
(* What the catalogue promises of a tender's history (app/ingestion/       *)
(* versioning.py: "History is never overwritten"): it is a log that only   *)
(* grows, and a version is written only when there is something new in it. *)
(***************************************************************************)
EXTENDS Naturals, Sequences

CONSTANT Opps     \* identities of opportunities

VARIABLE log      \* [Opps -> Seq(contents)]: the versions of an opportunity

Init == log = [o \in Opps |-> <<>>]

GrowsFrom(old, new) ==
  /\ Len(old) <= Len(new)
  /\ \A n \in 1 .. Len(old) : new[n] = old[n]

AlwaysNews(versions) ==
  \A n \in 1 .. Len(versions) - 1 : versions[n] # versions[n + 1]

\* One transaction may publish versions of several opportunities.
Publish == \A o \in Opps : GrowsFrom(log[o], log'[o]) /\ AlwaysNews(log'[o])

Spec == Init /\ [][Publish]_log
=============================================================================
