CONSTANTS
  FrameTimes = {1, 6, 7}
  Wrap = 7
  Nulls = {6}
  Minute = 2
  Hour = 4
  Freshness = 3
  Delay = 1
  RawFor = 3
  RollFor = 6
  LateFrames = 1
  MinuteIntervals = 1
  HourRollups = 1
  RetentionRows = 2
  MaxNow = 12
  MaxStop = 1
SPECIFICATION Spec
INVARIANTS
    HourIsCurrent
PROPERTIES
    EvidenceStaysUsable FramesAreCounted
CHECK_DEADLOCK FALSE
