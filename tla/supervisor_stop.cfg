\* The shipped proportion: 12 s of patience for a drain of 45 s.
CONSTANTS
  c1 = c1
  c2 = c2
  Camera = {c1}
  StopTimeout = 1
  ShutdownWait = 4
  Interval = 1
  MinBackoff = 1
  MaxBackoff = 4
  StableUptime = 3
  Service = "works"
  MaxFaults = 0
SPECIFICATION Spec
INVARIANTS NoneLostOnStop
CHECK_DEADLOCK FALSE
