\* Three events, over HTTP or stored by the worker itself; every kind of failure,
\* a spool with room for two, and a stream with pauses.
CONSTANTS
  Events = 3
  Cap = 2
  Limit = 2
  MaxTimeouts = 1
  MaxOutages = 1
  MaxExits = 1
  MaxDiskFaults = 1
SPECIFICATION QuietSpec
INVARIANTS StoredOnce LossIsAccounted
PROPERTIES SpooledIsDelivered
CHECK_DEADLOCK FALSE
