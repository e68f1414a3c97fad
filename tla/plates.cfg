\* Reads of one vehicle that agree, disagree, are noisy, short or garbled; looks
\* at one or two plates; and calls on every short text, path and box.
SPECIFICATION Spec
CONSTANTS
  Letter = {"O", "D", "B"}
  Digit = {"0", "8"}
  Foreign = {"e"}
  ToAlpha <- MCToAlpha
  ToDigit <- MCToDigit
  SameType <- MCSameType
  StateCodes <- MCStateCodes
  Districts = {1}
  Series = {0, 1}
  Numbers = {1, 2}
  MinGenerated = 5
  Marked <- MCMarked
  Hologram <- MCHologram
  MinLen = 4
  MaxLen = 6
  MinComplete = 6
  MaxFixes = 2
  MaxLead = 2
  MaxTail = 1
  MinProb = 10
  MinRatio = 25
  MaxSubstitutions = 2
  StateRatio = 15
  CostConfusable = 4
  CostSub = 10
  CostIndel = 9
  MaxCost = 20
  MinMargin = 8
  MaxLengthDelta = 2
  Keep = 2
  BestK = 2
  MinQuality = 35
  MinHamming = 6
  MinFrameGap = 2
  MaxHypotheses = 2
  MaxHeld = 3
  KeptReads = 3
  MinReads = 3
  DropLowConfidence = FALSE
  Registry <- MCRegistry
  LineA <- MCLineA
  LineB <- MCLineB
  Threshold = 5
  FrameWidth = 24
  FrameHeight = 24
  InsideTolerance = 15
  MinWidthRatio = 8
  MaxWidthRatio = 65
  MinVertical = 30
  MaxVertical = 102
  MaxEdgeClip = 2
  PlateEdgeMargin = 2
  Views <- MCViews
  Crops <- MCCrops
  Intervals = {1, 2}
  Reach = 3
  ContinuityFrames = 1
  Glimpses <- MCGlimpses
  Recognized <- MCRecognized
  LastFrame = 4
  MaxReads = 4
  CallInputs <- MCCallInputs
INVARIANTS  DoubtIsNotConfirmed ImagesBelongToPlate
INVARIANTS RepairIsUnique DecodeIsBacked OneResident EvidenceStaysAligned
INVARIANTS NoCrossingMissed OnePlateOneVehicle
CHECK_DEADLOCK FALSE
