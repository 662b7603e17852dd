---------------------------- MODULE MCJobRecovery ----------------------------
(* JobRecovery on a small instance for TLC.                                *)
EXTENDS JobRecovery, TLC

\* Healthy, then twice the interval after the first failure (FailCap = 1).
MCMultiplier == [f \in 0 .. FailCap |-> f + 1]

\* Worker slots, schedulers and reconcilers are interchangeable.
MCSymmetry ==
  Permutations(Sources) \cup Permutations(Jobs) \cup Permutations(Schedulers) \cup Permutations(Workers) \cup Permutations(Reconcilers)
=============================================================================
