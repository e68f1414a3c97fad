\* One camera with more jobs than slots, or two cameras that compete for the one
\* place in the queue; the service dies, a job may be undecodable, another
\* unencodable.  The clocks, in ticks of thirty seconds: 60 s in the queue (90 s as
\* shipped), 120 s for the camera, 45 s of drain as one tick; bytes take up to 30 s
\* to be handled, a vehicle up to 120 s.
CONSTANTS
  c1 = c1
  c2 = c2
  Camera = {c1, c2}
  JobsPerCamera = 2
  Workloads <- NoneAloneOrTwo
  MaxConnections = 2
  MaxCrashes = 1
  ClientPending = 1
  QueueSize = 1
  Undecodable <- OtherJob
  Unencodable <- LastJob
  Sender = {c1, c2}
  MaxJobs = 2
  MaxTime = 5
  MaxBacklog = 1
  MaxJobAge = 2
  JobTimeout = 4
  ShutdownWait = 1
  MaxDelay = 1
  MaxRun = 4
SPECIFICATION VlmSpec
INVARIANTS InflightIsUnderway
PROPERTIES ContractKept EveryJobAnswered NoWastedRun
CHECK_DEADLOCK FALSE
