\* One camera; its stream could be opened at any time.
CONSTANTS
  Cameras = 1
  Handlers = {"h1"}
  MaxWorkers = 2
SPECIFICATION LegacySpec
PROPERTIES CameraComesOnline
CHECK_DEADLOCK FALSE
