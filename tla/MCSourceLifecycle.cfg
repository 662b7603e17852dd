SPECIFICATION Spec
CONSTANTS
  Sources = {s1}
  Scripts = {p1, p2}
  Sites <- MCSites
  Targets <- MCTargets
SYMMETRY Symmetry
INVARIANT LifecycleTypeOK ClaimableWasCollected PauseHolds
 
