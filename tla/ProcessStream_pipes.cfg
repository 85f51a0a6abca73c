SPECIFICATION FairSpec
CONSTANTS
  Pty = FALSE
  Timed = TRUE
  Buffer = 1
  PipeSize = 1
  MaxOutput = 4
INVARIANT TypeOK
PROPERTIES
  StreamKept
  Completes
CHECK_DEADLOCK FALSE
