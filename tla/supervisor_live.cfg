\* One camera, a service that starts, one failing call, and a drain that is
\* shorter than the patience of the supervisor.
CONSTANTS
  c1 = c1
  c2 = c2
  Camera = {c1}
  StopTimeout = 3
  ShutdownWait = 2
  Interval = 1
  MinBackoff = 1
  MaxBackoff = 2
  StableUptime = 2
  Service = "works"
  MaxFaults = 1
SPECIFICATION FairSpec
PROPERTIES CamerasFollowed ServiceComesBack ServiceOutlivesWorkers
CHECK_DEADLOCK FALSE
