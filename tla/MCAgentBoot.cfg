\* A boot in which services end and other clients post /init as well.
SPECIFICATION FairSpec
CONSTANTS
  Requests = {"host", "twin", "older", "plain"}
  Keys = {"key", "url"}
  NoOne = NoOne
  Stamp <- MCStamp
  Sets <- MCSets
  Token <- MCToken
  NoToken = "none"
  Defaults = {"older"}
  HostRequest = "host"
  Refused <- MCRefused
  Attempts = 2
  MaxCrashes = 2
INVARIANTS
  TypeOK
  NewestKept
  Unmixed
  AgentHasItsKeys
PROPERTIES
  BootEnds
  AgentReturns
CHECK_DEADLOCK FALSE
