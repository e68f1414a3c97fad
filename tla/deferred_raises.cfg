\* The emission callback may raise, before or after the draft reached ingest.
CONSTANTS
  v1 = v1
  v2 = v2
  Vehicle = {v1, v2}
  MaxPending = 1
  OnUnavailable = "downgrade"
  Faults = {"before", "after"}
SPECIFICATION WorkerSpec
INVARIANTS Accounted
