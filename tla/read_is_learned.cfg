\* A misread that was filed under the plate it resembles, then corrected.
SPECIFICATION GateSpec
CONSTANTS
    ReconnectMin = 1
    ReconnectMax = 4
    ReadTimeout = 2
    MaxFrames = 3
    MaxOutages = 2
    Plates = {"p", "q"}
    Modes = {"inline", "deferred"}
    Declared = {"out"}
    SameWindow = 2
    ReversalWindow = 1
    MaxEntries = 1
    MaxTime = 3
    MaxVehicles = 3
    MaxFaults = 1
    Texts = {"R", "B", "m"}
    Vehicles <- MCVehicles
    Inferred <- MCInferred
    Rules <- MCRules
    Drafts <- MCDrafts
    MinConfidence = 6
    Threshold = 2
    Window = 2
    NightFrom = 3
    NightTo = 1
    DayLength = 4
    Requests = {"r1", "r2"}
    MaxEvents = 2
    MaxCorrections = 1
    MaxClock = 3
    Cameras = 1
    Handlers = {"h1", "h2"}
    MaxWorkers = 3
INVARIANTS ReadIsLearned
CHECK_DEADLOCK FALSE
