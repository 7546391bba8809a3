SPECIFICATION PartsSpec
CONSTANTS
  Messages = {m1, m2, m3}
  NoMessage = NoMessage
  Priorities = {0, 1}
  MaxSeq = 5
  Characters <- MCCharacters
  MaxFrameSize = 12
  LineLimit = 5
  MaxSent = 2
  Decimal <- MCDecimal
  Frames <- MCFrames
INVARIANT FramesSurvive
PROPERTY PopsInSequence
CHECK_DEADLOCK FALSE
