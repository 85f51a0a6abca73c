\* A boot of which nothing goes wrong: no service ends, nobody else posts.
SPECIFICATION FairSpec
CONSTANTS
  Requests = {"host"}
  Keys = {"key", "url"}
  NoOne = NoOne
  Stamp <- MCStamp
  Sets <- MCSets
  Token <- MCToken
  NoToken = "none"
  Defaults = {}
  HostRequest = "host"
  Refused <- MCRefused
  Attempts = 2
  MaxCrashes = 0
INVARIANTS
  AnnouncedHasKeys
CHECK_DEADLOCK FALSE
