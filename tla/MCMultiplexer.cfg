SPECIFICATION Spec
CONSTANTS
  c1 = c1  c2 = c2  c3 = c3
  Consumers = {c1, c2, c3}
  Buffer = 1
  Senders = 2
  MaxSent = 3
SYMMETRY MCSymmetry
INVARIANTS
  TypeOK
  Gapless
  NothingMissed
CHECK_DEADLOCK FALSE
