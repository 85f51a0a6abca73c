\* Two tasks of one user and a request of another, while VMs come and go.
SPECIFICATION FairSpec
CONSTANTS
  NoUser = "nobody"
  Users = {"u1", "u2"}
  Tasks = {1, 2, 3}
  UserOf <- MCUserOf
  WithFile = {1}
  Mistaken = {}
  Reads = {3}
  Length = 2
  LastIp = 2
  MaxCrashes = 1
INVARIANTS
  TypeOK
  OwnVm
  OwnAnswers
  FilesWithTask
  ResultForEveryone
PROPERTY Served
CHECK_DEADLOCK FALSE
