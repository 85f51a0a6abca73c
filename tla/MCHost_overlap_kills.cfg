SPECIFICATION Spec
CONSTANTS
  u1 = u1  u2 = u2
  NoReq = 0  NoUser = NoUser
  Users = {u1}
  Reqs = {1, 2, 3, 4}
  Ops = {"create", "kill"}
  NumNbd = 2
  ForceNbd = 1
  FirstIp = 1
  LastIp = 3
  Attempts = 2
  Hits <- MCHits
  LineHits <- NoHits
  Impatient <- KillRetries
  MaxRestarts = 0
CONSTRAINT InOrder
INVARIANT PersistsUntilKilled
CHECK_DEADLOCK FALSE
