SPECIFICATION FairSpec
CONSTANTS
  Pty = TRUE
  Timed = FALSE
  Buffer = 1
  PipeSize = 1
  MaxOutput = 4
PROPERTY StreamKept
CHECK_DEADLOCK FALSE
