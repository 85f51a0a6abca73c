SPECIFICATION FairSpec
CONSTANTS
  Pty = FALSE
  Timed = FALSE
  Buffer = 1
  PipeSize = 1
  MaxOutput = 6
PROPERTY RunsOn
CHECK_DEADLOCK FALSE
