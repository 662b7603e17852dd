--------------------------- MODULE MCSourceClaims ---------------------------
(* SourceClaims on a small instance for TLC.                               *)
EXTENDS SourceClaims, TLC

\* Healthy, then twice the interval after the first failure (FailCap = 1).
MCMultiplier == [f \in 0 .. FailCap |-> f + 1]

\* Sources, jobs, schedulers and worker slots are interchangeable.
MCSymmetry ==
  Permutations(Sources) \cup Permutations(Jobs) \cup Permutations(Schedulers) \cup Permutations(Workers)
=============================================================================
