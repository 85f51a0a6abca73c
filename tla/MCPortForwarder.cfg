\* Servers come and go while the forwarder works; one socat fails.
SPECIFICATION FairSpec
CONSTANTS
  Keys = {"1-80", "2-80", "3-90"}
  PortOf <- MCPortOf
  MaxFaults = 1
  MaxReopens = 1
INVARIANTS
  TypeOK
  SocatsFollowSnapshot
PROPERTIES
  NewPortForwarded
  ClosedPortStops
