----------------------------- MODULE MCIngestion -----------------------------
(* Ingestion on a small instance for TLC.                                  *)
EXTENDS Ingestion, TLC

CONSTANTS r1, r2, r3, x1, t1, t2, d1, u1, s1, s2, s3, m1, m2

\* Two sources of one municipality and one of another.
MCIssuer == [s \in Sources |-> IF s = s3 THEN m2 ELSE m1]

\* r1 and r2 are spellings of one reference.
MCComparable == [r \in Refs |-> IF r = r3 THEN 2 ELSE 1]

\* Two titles that are alike; dates are near.
MCSimilar == [p \in Titles \X Titles |-> IF p[1] = p[2] THEN "probable" ELSE "review"]
MCAlike == [p \in Titles \X Titles |-> "probable"]
MCNear == Dates \X Dates

Rec(ref, ext, title, closing, docs) ==
  [ref |-> ref, ext |-> ext, title |-> title, closing |-> closing, docs |-> docs]

\* One tender, listed with more and with less of it known, by two sources of its
\* issuer; and a tender of the other issuer that reads the same.
MCPublished == [s \in Sources |->
  CASE s = s1 -> {Rec(None, x1, t1, d1, {}), Rec(r1, x1, t1, None, {u1}),
                Rec(r3, None, t2, None, {})}
    [] s = s2 -> {Rec(r2, None, t2, d1, {})}
    [] s = s3 -> {Rec(None, None, t1, d1, {u1})}]

MCSymmetry == Permutations(Opps) \cup Permutations(Crawls)
=============================================================================
