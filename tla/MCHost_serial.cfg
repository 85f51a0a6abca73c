\* Clients that wait for their answers; the service restarts, or the machine
\* reboots, once.
SPECIFICATION Spec
CONSTANTS
  u1 = u1  u2 = u2
  NoReq = 0  NoUser = NoUser
  Users = {u1, u2}
  Reqs = {1, 2, 3}
  Ops = {"create", "kill"}
  NumNbd = 2
  ForceNbd = 1
  FirstIp = 1
  LastIp = 2
  Attempts = 3
  Hits <- MCHits
  LineHits <- NoHits
  Impatient = {}
  MaxRestarts = 1
SYMMETRY MCSymmetry
CONSTRAINT InOrder
INVARIANTS
  TypeOK
  UniqueAddresses
  DiskExclusive
  RunningVmIntact
  NoUntrackedProcess
  DevicesAccounted
PROPERTY PromiseKept
CHECK_DEADLOCK FALSE
