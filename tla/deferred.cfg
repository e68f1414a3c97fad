\* Two vehicles compete for one slot.
CONSTANTS
  v1 = v1
  v2 = v2
  Vehicle = {v1, v2}
  MaxPending = 1
  OnUnavailable = "downgrade"
  Faults = {}
SPECIFICATION FairSpec
INVARIANTS OneEmission NobodyInLimbo ClassAIsEarned
PROPERTIES PromiseKept ShutdownEnds
