\* Clients overlap everything, forced kills included.
SPECIFICATION FairSpec
CONSTANTS
  u1 = u1  u2 = u2
  NoReq = 0  NoUser = NoUser
  Users = {u1}
  Reqs = {1, 2, 3}
  Ops = {"create", "kill", "force"}
  NumNbd = 2
  ForceNbd = 1
  FirstIp = 1
  LastIp = 2
  Attempts = 2
  Hits <- MCHits
  LineHits <- MCHits
  Impatient <- Anything
  MaxRestarts = 1
CONSTRAINT InOrder
INVARIANT UniqueAddresses
PROPERTIES
  Answered
  OrphansSwept
CHECK_DEADLOCK FALSE
