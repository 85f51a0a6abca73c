SPECIFICATION Spec
CONSTANTS
  u1 = u1  u2 = u2
  NoReq = 0  NoUser = NoUser
  Users = {u1, u2}
  Reqs = {1, 2, 3}
  Ops = {"create", "force"}
  NumNbd = 2
  ForceNbd = 1
  FirstIp = 1
  LastIp = 3
  Attempts = 2
  Hits <- MCHits
  LineHits <- NoHits
  Impatient = {}
  MaxRestarts = 0
CONSTRAINT InOrder
INVARIANT RunningVmIntact
CHECK_DEADLOCK FALSE
