CONSTANTS
  FrameTimes = {4, 5, 6}
  Wrap = 100
  Nulls = {}
  Minute = 2
  Hour = 4
  Freshness = 3
  Delay = 1
  RawFor = 3
  RollFor = 6
  LateFrames = 1
  MinuteIntervals = 2
  HourRollups = 1
  RetentionRows = 2
  MaxNow = 9
  MaxStop = 0
SPECIFICATION Spec
CHECK_DEADLOCK FALSE
INVARIANT DeltaIsOfItsMinute
