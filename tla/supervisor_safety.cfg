\* Two cameras that share the supervisor's clock, with no VLM service.
CONSTANTS
  c1 = c1
  c2 = c2
  Camera = {c1, c2}
  StopTimeout = 1
  ShutdownWait = 2
  Interval = 1
  MinBackoff = 1
  MaxBackoff = 4
  StableUptime = 2
  Service = "off"
  MaxFaults = 1
SYMMETRY Symmetry
SPECIFICATION Spec
INVARIANTS OneProcess
PROPERTIES RestartsBackOff
CHECK_DEADLOCK FALSE
