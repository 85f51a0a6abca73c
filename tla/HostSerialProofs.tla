---- MODULE HostSerialProofs ----
(***************************************************************************)
(* What the host keeps for clients that wait for each answer and force no  *)
(* kills: announced agents stay intact, no two microVMs write one device,  *)
(* no process is left without its entry, no device is lost unaccounted.    *)
(***************************************************************************)
EXTENDS HostProofs

\* Every client waits for its answers, and none forces a kill.
Patient == Impatient = {} /\ "force" \notin Ops

\* The labels at which a kill has let go of its victim's device.
Released == {"killnbd", "killdir"}

\* A user has one request in flight at most.
OneAtATime ==
  \A r, q \in Reqs :
    r # q /\ pc[r] \in InFlight /\ pc[q] \in InFlight => user[r] # user[q]

\* An entry names a VM of its user that was launched; a user whose VM is not
\* launched yet has no entry, and a kill's victim is its user's entry.
EntryInv ==
  /\ \A u \in Users :
       microvms[u] # NoReq =>
         /\ user[microvms[u]] = u
         /\ pc[microvms[u]] \in {"envd", "fastapi", "created", "failed"}
  /\ \A r \in Reqs : pc[r] \in Booting => microvms[user[r]] = NoReq
  /\ \A k \in Reqs :
       pc[k] \in KillAwaits => victim[k] # NoReq /\ victim[k] = microvms[user[k]]

\* A create in flight, and an entry until its kill releases it, hold their
\* device: whoever else disconnects a device disconnects another one.
Holds(r) ==
  \/ pc[r] \in CreateAwaits
  \/ /\ user[r] \in Users /\ microvms[user[r]] = r
     /\ \A k \in Reqs : user[k] = user[r] => pc[k] \notin Released

DeviceInv == \A r \in Reqs : Holds(r) => nbd[dev[r]] = r

\* Before the launch a directory is as its create left it, or swept.
FilesInv ==
  \A r \in Reqs :
    pc[r] \in Booting =>
      \/ vmdir[user[r]].config = NoReq
      \/ vmdir[user[r]] = [made |-> TRUE, image |-> r, config |-> r, sock |-> FALSE]

\* A live process runs its own config on its own image and is its user's
\* entry, with no kill under way.
AliveInv ==
  \A p \in Reqs :
    Alive(p) =>
      /\ runs[p] = p
      /\ user[p] \in Users
      /\ microvms[user[p]] = p
      /\ vmdir[user[p]].image = p
      /\ pc[p] \in {"envd", "fastapi", "created"}
      /\ \A k \in Reqs : user[k] = user[p] => pc[k] \notin KillAwaits

\* Once announced, it keeps its network.
NetworkInv ==
  \A p \in Reqs :
    Alive(p) /\ pc[p] = "created" =>
      user[p] \in taps /\ <<ip[p], user[p]>> \in routes

SerialInv == OneAtATime /\ EntryInv /\ DeviceInv /\ FilesInv /\ AliveInv /\ NetworkInv

USE NoReqAssumption, NbdAssumption, IpAssumption, LimitAssumption
USE DEF Labels, InFlight, CreateAwaits, KillAwaits, Answers, Released, Booting

LEMMA InitSerialInv == Init => SerialInv
  BY DEF Init, SerialInv, OneAtATime, EntryInv, DeviceInv, Holds, FilesInv,
         AliveInv, NetworkInv, Alive

LEMMA SerialIntact ==
  ASSUME TypeInv, SerialInv
  PROVE  RunningVmIntact /\ DiskExclusive /\ NoUntrackedProcess
  <1>1. ASSUME NEW p \in Reqs, Alive(p) PROVE nbd[dev[p]] = p
    <2>1. Holds(p)
      BY <1>1 DEF SerialInv, AliveInv, Holds
    <2> QED
      BY <2>1 DEF SerialInv, DeviceInv
  <1>2. RunningVmIntact
    BY <1>1 DEF RunningVmIntact, Intact, SerialInv, AliveInv, NetworkInv
  <1>3. DiskExclusive
    BY <1>1 DEF DiskExclusive, SerialInv, AliveInv
  <1>4. NoUntrackedProcess
    BY DEF NoUntrackedProcess, SerialInv, AliveInv
  <1> QED
    BY <1>2, <1>3, <1>4

-----------------------------------------------------------------------------
(* A create under way.                                                     *)

\* The moves of a create from one label to the next, Launch apart.
CreateMove(from, to) ==
  \/ from = "tap" /\ to = "route"
  \/ from = "route" /\ to = "launch"
  \/ from = "envd" /\ to = "fastapi"
  \/ from = "fastapi" /\ to = "created"
  \/ from \in CreateAwaits /\ to = "failed"

LEMMA CreateMoveSerial ==
  ASSUME TypeInv, SerialInv, NEW r \in Reqs, NEW label,
         CreateMove(pc[r], label), Goto(r, label),
         UNCHANGED <<microvms, user, ip, dev, victim, vmdir, nbd>>,
         \A p \in Reqs : Alive(p)' => Alive(p) /\ runs'[p] = runs[p],
         label = "failed" => ~Alive(r)',
         taps \subseteq taps', routes \subseteq routes',
         label = "created" => Intact(r)
  PROVE  SerialInv'
  <1>1. pc' = [pc EXCEPT ![r] = label] /\ pc \in [Reqs -> Labels]
    BY DEF Goto, TypeInv, TypeOK
  <1>2. pc[r] \in CreateAwaits /\ label \in CreateAwaits \union {"created", "failed"}
    BY DEF CreateMove
  <1>3. OneAtATime'
    BY <1>1, <1>2 DEF SerialInv, OneAtATime
  <1>4. EntryInv'
    <2>1. \A u \in Users : microvms[u] # NoReq => microvms[u] \in Reqs
      BY DEF TypeInv, TypeOK, VMs
    <2>2. ASSUME NEW u \in Users, microvms[u] # NoReq
          PROVE  /\ user[microvms[u]] = u
                 /\ pc'[microvms[u]] \in {"envd", "fastapi", "created", "failed"}
      BY <1>1, <2>1, <2>2 DEF SerialInv, EntryInv, CreateMove
    <2>3. ASSUME NEW q \in Reqs, pc'[q] \in Booting PROVE microvms[user[q]] = NoReq
      BY <1>1, <2>3 DEF SerialInv, EntryInv, CreateMove
    <2>4. ASSUME NEW k \in Reqs, pc'[k] \in KillAwaits
          PROVE  victim[k] # NoReq /\ victim[k] = microvms[user[k]]
      BY <1>1, <1>2, <2>4 DEF SerialInv, EntryInv
    <2> QED
      BY <2>2, <2>3, <2>4 DEF EntryInv
  <1>5. DeviceInv'
    <2>1. \A q \in Reqs : pc'[q] \in CreateAwaits => pc[q] \in CreateAwaits
      BY <1>1, <1>2
    <2>2. \A q \in Reqs : pc'[q] \in Released <=> pc[q] \in Released
      BY <1>1, <1>2
    <2>3. \A q \in Reqs : Holds(q)' => Holds(q)
      BY <2>1, <2>2 DEF Holds
    <2> QED
      BY <2>3 DEF SerialInv, DeviceInv
  <1>6. FilesInv'
    <2>1. \A q \in Reqs : pc'[q] \in Booting => pc[q] \in Booting
      BY <1>1 DEF CreateMove
    <2> QED
      BY <2>1 DEF SerialInv, FilesInv
  <1>7. AliveInv'
    <2>1. ASSUME NEW p \in Reqs, Alive(p)'
          PROVE  /\ pc'[p] \in {"envd", "fastapi", "created"}
                 /\ \A k \in Reqs : user[k] = user[p] => pc'[k] \notin KillAwaits
      BY <1>1, <1>2, <2>1 DEF SerialInv, AliveInv, CreateMove
    <2> QED
      BY <2>1 DEF SerialInv, AliveInv
  <1>8. NetworkInv'
    <2>1. ASSUME NEW p \in Reqs, Alive(p)', pc'[p] = "created"
          PROVE  user[p] \in taps' /\ <<ip[p], user[p]>> \in routes'
      BY <1>1, <2>1 DEF SerialInv, NetworkInv, Intact
    <2> QED
      BY <2>1 DEF NetworkInv
  <1> QED
    BY <1>3, <1>4, <1>5, <1>6, <1>7, <1>8 DEF SerialInv

LEMMA CreateStepSerial ==
  ASSUME TypeInv, SerialInv, NEW r \in Reqs,
         \/ TapAdd(r) \/ RouteAdd(r) \/ NetworkFails(r) \/ LaunchFails(r)
         \/ EnvdReady(r) \/ FastApiReady(r) \/ BootTimeout(r)
  PROVE  SerialInv'
  <1>1. UNCHANGED <<microvms, user, ip, dev, victim, vmdir, nbd>>
    BY DEF TapAdd, RouteAdd, NetworkFails, LaunchFails, EnvdReady, FastApiReady,
           BootTimeout, local
  <1>2. taps \subseteq taps' /\ routes \subseteq routes'
    BY DEF TapAdd, RouteAdd, NetworkFails, LaunchFails, EnvdReady, FastApiReady,
           BootTimeout
  <1>3. \A p \in Reqs : Alive(p)' => Alive(p) /\ runs'[p] = runs[p]
    BY DEF TapAdd, RouteAdd, NetworkFails, LaunchFails, EnvdReady, FastApiReady,
           BootTimeout, Alive, TypeInv, TypeOK
  <1>4. CASE TapAdd(r)
    BY <1>1, <1>2, <1>3, <1>4, CreateMoveSerial DEF TapAdd, CreateMove
  <1>5. CASE RouteAdd(r)
    BY <1>1, <1>2, <1>3, <1>5, CreateMoveSerial DEF RouteAdd, CreateMove
  <1>6. CASE NetworkFails(r) \/ LaunchFails(r)
    <2>1. pc[r] \in Booting /\ runs' = runs /\ Goto(r, "failed")
      BY <1>6 DEF NetworkFails, LaunchFails
    <2>2. ~Alive(r)'
      BY <2>1 DEF Alive, SerialInv, AliveInv
    <2> QED
      BY <1>1, <1>2, <1>3, <2>1, <2>2, CreateMoveSerial DEF CreateMove
  <1>7. CASE EnvdReady(r)
    BY <1>1, <1>2, <1>3, <1>7, CreateMoveSerial DEF EnvdReady, CreateMove
  <1>8. CASE FastApiReady(r)
    BY <1>1, <1>2, <1>3, <1>8, CreateMoveSerial DEF FastApiReady, CreateMove, Reachable
  <1>9. CASE BootTimeout(r)
    <2>1. ~Alive(r)'
      BY <1>9 DEF BootTimeout, Alive, TypeInv, TypeOK
    <2> QED
      BY <1>1, <1>2, <1>3, <1>9, <2>1, CreateMoveSerial DEF BootTimeout, CreateMove
  <1> QED
    BY <1>4, <1>5, <1>6, <1>7, <1>8, <1>9

-----------------------------------------------------------------------------
(* Steps that only end processes and sweep what nobody tracks.             *)

LEMMA SweepSerial ==
  ASSUME TypeInv, SerialInv,
         UNCHANGED <<microvms, pc, user, ip, dev, victim, nbd>>,
         \A p \in Reqs : runs'[p] = runs[p] \/ runs'[p] = NoReq,
         \A u \in Users : vmdir'[u] = vmdir[u]
                            \/ (vmdir'[u] \in {NoDir, Emptied} /\ microvms[u] = NoReq),
         \A u \in taps : microvms[u] # NoReq => u \in taps',
         \A x \in routes :
           (\E u \in Users : microvms[u] # NoReq /\ x = <<ip[microvms[u]], u>>)
             => x \in routes'
  PROVE  SerialInv'
  <1>1. \A p \in Reqs : Alive(p)' => Alive(p) /\ runs'[p] = runs[p]
    BY DEF Alive
  <1>2. OneAtATime' /\ EntryInv'
    BY DEF SerialInv, OneAtATime, EntryInv
  <1>3. DeviceInv'
    BY DEF SerialInv, DeviceInv, Holds
  <1>4. FilesInv'
    <2>1. \A q \in Reqs : pc[q] \in Booting => user[q] \in Users
      BY DEF TypeInv, SentInv
    <2> QED
      BY <2>1 DEF SerialInv, FilesInv, NoDir, Emptied
  <1>5. AliveInv'
    <2>1. ASSUME NEW p \in Reqs, Alive(p) PROVE vmdir'[user[p]] = vmdir[user[p]]
      BY <2>1 DEF SerialInv, AliveInv
    <2> QED
      BY <1>1, <2>1 DEF SerialInv, AliveInv
  <1>6. NetworkInv'
    <2>1. ASSUME NEW p \in Reqs, Alive(p), pc[p] = "created"
          PROVE  user[p] \in taps' /\ <<ip[p], user[p]>> \in routes'
      <3>1. user[p] \in Users /\ microvms[user[p]] = p /\ p # NoReq
        BY <2>1 DEF SerialInv, AliveInv
      <3>2. user[p] \in taps /\ <<ip[p], user[p]>> \in routes
        BY <2>1 DEF SerialInv, NetworkInv
      <3> QED
        BY <3>1, <3>2
    <2> QED
      BY <1>1, <2>1 DEF NetworkInv
  <1> QED
    BY <1>2, <1>3, <1>4, <1>5, <1>6 DEF SerialInv

LEMMA EnvironmentSerial ==
  ASSUME TypeInv, SerialInv,
         \/ Maintenance
         \/ \E p \in Reqs : VmExits(p)
         \/ UNCHANGED vars
  PROVE  SerialInv'
  <1>1. CASE Maintenance
    <2>1. PICK rs \in SUBSET OrphanRoutes, ts \in SUBSET OrphanTaps,
               ps \in SUBSET OrphanProcs, ds \in SUBSET OrphanDirs :
            \E es \in SUBSET (OrphanDirs \ ds) : Sweep(rs, ts, ps, ds, es)
      BY <1>1 DEF Maintenance
    <2>2. UNCHANGED <<microvms, pc, user, ip, dev, victim, nbd>>
      BY <2>1 DEF Sweep, local
    <2>3. \A p \in Reqs : runs'[p] = runs[p] \/ runs'[p] = NoReq
      BY <2>1 DEF Sweep
    <2>4. \A u \in Users : vmdir'[u] = vmdir[u]
                             \/ (vmdir'[u] \in {NoDir, Emptied} /\ microvms[u] = NoReq)
      BY <2>1 DEF Sweep, OrphanDirs, Tracked
    <2>5. \A u \in Users : u \in ts => microvms[u] = NoReq
      BY DEF OrphanTaps, Tracked
    <2>6. \A u \in taps : microvms[u] # NoReq => u \in taps'
      BY <2>1, <2>5 DEF Sweep, TypeInv, TypeOK
    <2>7. ASSUME NEW x \in routes, NEW u \in Users, microvms[u] # NoReq,
                 x = <<ip[microvms[u]], u>>
          PROVE  x \in routes'
      <3>1. microvms[u] \in TrackedVMs /\ x[1] = ip[microvms[u]]
        BY <2>7 DEF TrackedVMs, Tracked
      <3>2. x \notin rs
        BY <3>1 DEF OrphanRoutes
      <3>3. x[2] \notin ts
        BY <2>5, <2>7
      <3> QED
        BY <2>1, <3>2, <3>3 DEF Sweep, RoutesWithout
    <2> QED
      BY <2>2, <2>3, <2>4, <2>6, <2>7, SweepSerial
  <1>2. CASE \E p \in Reqs : VmExits(p)
    BY <1>2, SweepSerial DEF VmExits, local, TypeInv, TypeOK
  <1>3. CASE UNCHANGED vars
    BY <1>3, SweepSerial DEF vars
  <1> QED
    BY <1>1, <1>2, <1>3

LEMMA RestartSerial ==
  ASSUME TypeInv, NEW ts, NEW rs, Restart(ts, rs)
  PROVE  SerialInv'
  <1>1. /\ \A r \in Reqs : pc'[r] \notin InFlight /\ runs'[r] = NoReq
        /\ \A u \in Users : microvms'[u] = NoReq
    BY DEF Restart, TypeInv, TypeOK
  <1> QED
    BY <1>1 DEF SerialInv, OneAtATime, EntryInv, DeviceInv, Holds, FilesInv,
       AliveInv, NetworkInv, Alive

-----------------------------------------------------------------------------
(* Requests that arrive.                                                   *)

LEMMA SendAlone ==
  ASSUME Patient, TypeInv, NEW r \in Reqs, NEW u \in Users, NEW op, Send(r, u, op)
  PROVE  /\ op # "force" /\ pc[r] = "idle" /\ user' = [user EXCEPT ![r] = u]
         /\ \A q \in Reqs : user[q] = u => pc[q] \notin InFlight
  <1>1. ~InProgress(u, "create") /\ ~InProgress(u, "kill")
    BY DEF Patient, Send
  <1> QED
    BY <1>1 DEF Patient, Send, InProgress, Awaits

LEMMA AnsweredAtOnceSerial ==
  ASSUME Patient, TypeInv, SerialInv, NEW r \in Reqs, NEW u \in Users,
         AlreadyExists(r, u) \/ NotFound(r, u)
  PROVE  SerialInv'
  <1>1. /\ pc[r] = "idle" /\ user' = [user EXCEPT ![r] = u]
        /\ pc' = [pc EXCEPT ![r] = "exists"] \/ pc' = [pc EXCEPT ![r] = "notfound"]
    BY SendAlone DEF AlreadyExists, NotFound, Goto
  <1>2. UNCHANGED <<microvms, ip, dev, victim, vmdir, nbd, taps, routes, runs>>
    BY DEF AlreadyExists, NotFound
  <1>3. /\ pc'[r] \notin InFlight \union {"created"}
        /\ \A q \in Reqs : q # r => pc'[q] = pc[q] /\ user'[q] = user[q]
    BY <1>1 DEF TypeInv, TypeOK
  <1>4. OneAtATime'
    BY <1>3 DEF SerialInv, OneAtATime
  <1>5. EntryInv'
    <2>1. \A w \in Users : microvms[w] # NoReq => microvms[w] \in Reqs /\ microvms[w] # r
      BY <1>1 DEF TypeInv, TypeOK, VMs, SerialInv, EntryInv
    <2> QED
      BY <1>2, <1>3, <2>1 DEF SerialInv, EntryInv
  <1>6. DeviceInv'
    <2>1. \A q \in Reqs : Holds(q)' => q # r
      BY <1>1, <1>2, <1>3 DEF Holds, SerialInv, EntryInv
    <2>2. \A q \in Reqs : Holds(q)' => Holds(q)
      BY <1>1, <1>2, <1>3, <2>1 DEF Holds
    <2> QED
      BY <1>2, <2>2 DEF SerialInv, DeviceInv
  <1>7. FilesInv'
    BY <1>2, <1>3 DEF SerialInv, FilesInv
  <1>8. AliveInv' /\ NetworkInv'
    <2>1. \A p \in Reqs : Alive(p)' => Alive(p) /\ p # r
      BY <1>1, <1>2 DEF Alive, SerialInv, AliveInv
    <2> QED
      BY <1>2, <1>3, <2>1 DEF SerialInv, AliveInv, NetworkInv
  <1> QED
    BY <1>4, <1>5, <1>6, <1>7, <1>8 DEF SerialInv

LEMMA CreateStartSerial ==
  ASSUME Patient, TypeInv, SerialInv, NEW r \in Reqs, NEW u \in Users,
         CreateStart(r, u)
  PROVE  SerialInv'
  <1>1. /\ pc[r] = "idle" /\ user' = [user EXCEPT ![r] = u]
        /\ \A q \in Reqs : user[q] = u => pc[q] \notin InFlight
    BY SendAlone DEF CreateStart
  <1>2. /\ microvms[u] = NoReq /\ ip' = [ip EXCEPT ![r] = nextIp]
        /\ UNCHANGED <<microvms, victim, taps, routes, runs>>
    BY DEF CreateStart, AllocateIp
  <1>3. \/ pc' = [pc EXCEPT ![r] = "failed"] /\ UNCHANGED <<nbd, dev>>
        \/ /\ \/ pc' = [pc EXCEPT ![r] = "failed"]
              \/ /\ pc' = [pc EXCEPT ![r] = "tap"]
                 /\ vmdir'[u] = [made |-> TRUE, image |-> r, config |-> r, sock |-> FALSE]
           /\ \E d \in Devices : /\ nbd[d] = NoReq
                                 /\ nbd' = [nbd EXCEPT ![d] = r]
                                 /\ dev' = [dev EXCEPT ![r] = d]
    BY DEF CreateStart, ImageFails, NbdFails, ConfigFails, NbdConnected, Connect,
           Goto, FreeNbd, TypeInv, TypeOK
  <1>4. \A w \in Users : w # u => vmdir'[w] = vmdir[w]
    BY DEF CreateStart, ImageFails, NbdFails, ConfigFails, NbdConnected, Connect,
           TypeInv, TypeOK
  <1>5. /\ \A q \in Reqs : q # r => /\ pc'[q] = pc[q] /\ user'[q] = user[q]
                                    /\ ip'[q] = ip[q] /\ dev'[q] = dev[q]
        /\ user'[r] = u /\ pc'[r] \in {"failed", "tap"}
    BY <1>1, <1>2, <1>3 DEF TypeInv, TypeOK
  <1>6. OneAtATime'
    BY <1>1, <1>5 DEF SerialInv, OneAtATime
  <1>7. \A w \in Users : microvms[w] # NoReq => microvms[w] \in Reqs /\ microvms[w] # r
    BY <1>1 DEF TypeInv, TypeOK, VMs, SerialInv, EntryInv
  <1>8. EntryInv'
    BY <1>2, <1>5, <1>7 DEF SerialInv, EntryInv
  <1>9. DeviceInv'
    <2>1. ASSUME NEW q \in Reqs, q # r, Holds(q)' PROVE nbd'[dev'[q]] = q
      <3>1. Holds(q)
        BY <1>1, <1>2, <1>5, <2>1 DEF Holds
      <3>2. nbd[dev[q]] = q /\ dev'[q] = dev[q]
        BY <1>5, <2>1, <3>1 DEF SerialInv, DeviceInv
      <3> QED
        BY <1>3, <3>2 DEF TypeInv, TypeOK
    <2>2. ASSUME Holds(r)' PROVE nbd'[dev'[r]] = r
      <3>1. pc' = [pc EXCEPT ![r] = "tap"]
        BY <1>2, <1>3, <1>5, <2>2 DEF Holds, TypeInv, TypeOK
      <3> QED
        BY <1>3, <3>1 DEF TypeInv, TypeOK
    <2> QED
      BY <2>1, <2>2 DEF DeviceInv
  <1>10. FilesInv'
    <2>1. ASSUME NEW q \in Reqs, pc'[q] \in Booting, q # r
          PROVE  vmdir'[user'[q]] = vmdir[user[q]] /\ pc[q] \in Booting /\ user'[q] = user[q]
      BY <1>1, <1>4, <1>5, <2>1 DEF TypeInv, SentInv
    <2>2. pc'[r] \in Booting =>
            vmdir'[u] = [made |-> TRUE, image |-> r, config |-> r, sock |-> FALSE]
      BY <1>3, <1>5 DEF TypeInv, TypeOK
    <2>3. ASSUME NEW q \in Reqs, pc'[q] \in Booting
          PROVE  \/ vmdir'[user'[q]].config = NoReq
                 \/ vmdir'[user'[q]] =
                      [made |-> TRUE, image |-> q, config |-> q, sock |-> FALSE]
      <3>1. CASE q = r
        BY <1>5, <2>2, <2>3, <3>1
      <3>2. CASE q # r
        BY <2>1, <2>3, <3>2 DEF SerialInv, FilesInv
      <3> QED
        BY <3>1, <3>2
    <2> QED
      BY <2>3 DEF FilesInv
  <1>11. AliveInv' /\ NetworkInv'
    <2>1. \A p \in Reqs : Alive(p)' => Alive(p) /\ p # r /\ user[p] \in Users /\ user[p] # u
      BY <1>1, <1>2 DEF Alive, SerialInv, AliveInv
    <2>2. \A p \in Reqs : Alive(p)' => vmdir'[user[p]] = vmdir[user[p]]
      BY <1>4, <2>1
    <2> QED
      BY <1>2, <1>5, <2>1, <2>2 DEF SerialInv, AliveInv, NetworkInv
  <1> QED
    BY <1>6, <1>8, <1>9, <1>10, <1>11 DEF SerialInv

LEMMA LaunchSerial ==
  ASSUME TypeInv, SerialInv, NEW r \in Reqs, Launch(r)
  PROVE  SerialInv'
  <1> DEFINE u == user[r]
  <1>1. /\ u \in Users /\ pc[r] = "launch" /\ microvms[u] = NoReq
        /\ UNCHANGED <<user, ip, dev, victim, nbd, taps, routes>>
    BY DEF Launch, local, TypeInv, SentInv, SerialInv, EntryInv
  <1>2. /\ pc' = [pc EXCEPT ![r] = "envd"]
        /\ microvms' = [microvms EXCEPT ![u] = r]
    BY DEF Launch, Goto
  <1>3. /\ pc'[r] = "envd" /\ \A q \in Reqs : q # r => pc'[q] = pc[q]
        /\ microvms'[u] = r /\ \A w \in Users : w # u => microvms'[w] = microvms[w]
    BY <1>1, <1>2 DEF TypeInv, TypeOK
  <1>4. \A q \in Reqs : q # r /\ pc[q] \in InFlight => user[q] # u
    BY <1>1 DEF SerialInv, OneAtATime
  <1>5. /\ \A w \in Users : w # u => vmdir'[w] = vmdir[w]
        /\ vmdir'[u].image = vmdir[u].image
    BY <1>1 DEF Launch, TypeInv, TypeOK, Dir
  <1>6. \A p \in Reqs : Alive(p) => p # r /\ user[p] \in Users /\ user[p] # u
    BY <1>1 DEF SerialInv, AliveInv
  <1>7. OneAtATime'
    BY <1>1, <1>3 DEF SerialInv, OneAtATime
  <1>8. EntryInv'
    <2>1. \A w \in Users : microvms[w] # NoReq => microvms[w] \in Reqs
      BY DEF TypeInv, TypeOK, VMs
    <2>2. \A w \in Users : microvms'[w] # NoReq =>
            /\ user[microvms'[w]] = w
            /\ pc'[microvms'[w]] \in {"envd", "fastapi", "created", "failed"}
      BY <1>1, <1>3, <2>1 DEF SerialInv, EntryInv
    <2>3. \A q \in Reqs : pc[q] # "idle" => user[q] \in Users
      BY DEF TypeInv, SentInv
    <2>4. \A q \in Reqs : pc'[q] \in Booting => microvms'[user[q]] = NoReq
      BY <1>3, <1>4, <2>3 DEF SerialInv, EntryInv
    <2>5. \A k \in Reqs :
            pc'[k] \in KillAwaits => victim[k] # NoReq /\ victim[k] = microvms'[user[k]]
      BY <1>3, <1>4, <2>3 DEF SerialInv, EntryInv
    <2> QED
      BY <1>1, <2>2, <2>4, <2>5 DEF EntryInv
  <1>9. DeviceInv'
    <2>1. \A q \in Reqs : Holds(q)' => Holds(q)
      BY <1>1, <1>3 DEF Holds
    <2> QED
      BY <1>1, <2>1 DEF SerialInv, DeviceInv
  <1>10. FilesInv'
    <2>1. ASSUME NEW q \in Reqs, pc'[q] \in Booting
          PROVE  pc[q] \in Booting /\ vmdir'[user[q]] = vmdir[user[q]]
      BY <1>3, <1>4, <1>5, <2>1 DEF TypeInv, SentInv
    <2> QED
      BY <1>1, <2>1 DEF SerialInv, FilesInv
  <1>11. \/ runs' = runs
         \/ runs' = [runs EXCEPT ![r] = r] /\ vmdir[u].image = r
    <2>1. CASE Boots(u)
      <3>1. vmdir[u].config # NoReq
        BY <2>1 DEF Boots
      <3>2. vmdir[u] = [made |-> TRUE, image |-> r, config |-> r, sock |-> FALSE]
        BY <1>1, <3>1 DEF SerialInv, FilesInv
      <3>3. runs' = [runs EXCEPT ![r] = vmdir[u].config]
        BY <2>1 DEF Launch
      <3> QED
        BY <3>2, <3>3
    <2>2. CASE ~Boots(u)
      BY <2>2 DEF Launch
    <2> QED
      BY <2>1, <2>2
  <1>12. \A p \in Reqs : Alive(p)' =>
           \/ p = r /\ runs'[p] = r /\ vmdir[u].image = r
           \/ Alive(p) /\ runs'[p] = runs[p] /\ p # r
    BY <1>6, <1>11 DEF Alive, TypeInv, TypeOK
  <1>13. AliveInv'
    BY <1>1, <1>3, <1>4, <1>5, <1>6, <1>12 DEF SerialInv, AliveInv
  <1>14. NetworkInv'
    BY <1>1, <1>3, <1>12 DEF SerialInv, NetworkInv
  <1> QED
    BY <1>7, <1>8, <1>9, <1>10, <1>13, <1>14 DEF SerialInv

-----------------------------------------------------------------------------
(* A kill under way.                                                       *)

\* A step of the kill r of u's entry v: v's process is dead, r moves on to
\* label, and whatever it takes away is v's.
KillMove(r, u, v, label) ==
  /\ user' = user \/ (pc[r] = "idle" /\ user' = [user EXCEPT ![r] = u])
  /\ user'[r] = u
  /\ victim' = victim \/ victim' = [victim EXCEPT ![r] = v]
  /\ victim'[r] = v
  /\ Goto(r, label)
  /\ UNCHANGED <<ip, dev>>
  /\ \A p \in Reqs : runs'[p] = runs[p] \/ runs'[p] = NoReq
  /\ runs'[v] = NoReq
  /\ \A w \in Users : w # u => vmdir'[w] = vmdir[w]
  /\ \/ nbd' = nbd
     \/ /\ nbd' = [nbd EXCEPT ![dev[v]] = NoReq]
        /\ pc[r] \notin Released /\ label = "killnbd"
  /\ \/ microvms' = microvms /\ label \in KillAwaits
     \/ microvms' = [microvms EXCEPT ![u] = NoReq] /\ label = "killed"
  /\ label = "killtap" => pc[r] \notin Released
  /\ \A w \in taps : w # u => w \in taps'
  /\ \A x \in routes : x[1] # ip[v] /\ x[2] # u => x \in routes'

LEMMA KillMoveSerial ==
  ASSUME TypeInv, AddressInv, SerialInv, NEW r \in Reqs, NEW u \in Users,
         NEW v \in Reqs, NEW label, KillMove(r, u, v, label),
         microvms[u] = v, user[v] = u, v # r,
         pc[r] = "idle" \/ pc[r] \in KillAwaits,
         \A q \in Reqs : q # r /\ user[q] = u => pc[q] \notin InFlight
  PROVE  SerialInv'
  <1>1. /\ pc'[r] = label /\ \A q \in Reqs : q # r => pc'[q] = pc[q]
        /\ label \in KillAwaits \union {"killed"}
    BY DEF KillMove, Goto, TypeInv, TypeOK
  <1>2. /\ user'[r] = u /\ \A q \in Reqs : q # r => user'[q] = user[q]
        /\ pc[r] = "idle" \/ user[r] = u
    BY DEF KillMove, TypeInv, TypeOK
  <1>3. victim'[r] = v /\ \A q \in Reqs : q # r => victim'[q] = victim[q]
    BY DEF KillMove, TypeInv, TypeOK
  <1>4. \A w \in Users : w # u => microvms'[w] = microvms[w]
    BY DEF KillMove, TypeInv, TypeOK
  <1>5. \/ label \in KillAwaits /\ microvms'[u] = v
        \/ label = "killed" /\ microvms'[u] = NoReq
    BY DEF KillMove, TypeInv, TypeOK
  <1>6. \A w \in Users : microvms[w] # NoReq => microvms[w] \in Reqs /\ microvms[w] # r
    BY DEF TypeInv, TypeOK, VMs, SerialInv, EntryInv
  <1>7. \A q \in Reqs : pc[q] # "idle" => user[q] \in Users
    BY DEF TypeInv, SentInv
  <1>8. OneAtATime'
    BY <1>1, <1>2 DEF SerialInv, OneAtATime
  <1>9. EntryInv'
    <2>1. \A w \in Users : microvms'[w] # NoReq =>
            microvms'[w] = microvms[w] /\ microvms[w] # NoReq
      BY <1>4, <1>5
    <2>2. \A w \in Users : microvms'[w] # NoReq =>
            /\ user'[microvms'[w]] = w
            /\ pc'[microvms'[w]] \in {"envd", "fastapi", "created", "failed"}
      BY <1>1, <1>2, <1>6, <2>1 DEF SerialInv, EntryInv
    <2>3. \A q \in Reqs : pc'[q] \in Booting => microvms'[user'[q]] = NoReq
      BY <1>1, <1>2, <1>4, <1>7 DEF SerialInv, EntryInv
    <2>4. \A k \in Reqs :
            pc'[k] \in KillAwaits => victim'[k] # NoReq /\ victim'[k] = microvms'[user'[k]]
      BY <1>1, <1>2, <1>3, <1>4, <1>5, <1>7 DEF SerialInv, EntryInv
    <2> QED
      BY <2>2, <2>3, <2>4 DEF EntryInv
  <1>10. DeviceInv'
    <2> SUFFICES ASSUME NEW q \in Reqs, Holds(q)' PROVE nbd'[dev'[q]] = q
      BY DEF DeviceInv
    <2>1. q # r
      BY <1>1, <1>2, <1>5 DEF Holds
    <2>2. CASE q = v
      <3>1. label = "killtap"
        BY <1>1, <1>2, <1>5, <2>2 DEF Holds
      <3>2. nbd' = nbd /\ pc[r] \notin Released /\ dev' = dev
        BY <3>1 DEF KillMove
      <3>3. Holds(v)
        BY <3>2 DEF Holds
      <3> QED
        BY <2>2, <3>2, <3>3 DEF SerialInv, DeviceInv
    <2>3. CASE q # v
      <3>1. Holds(q)
        BY <1>1, <1>2, <1>4, <1>5, <2>1, <2>3 DEF Holds
      <3>2. nbd[dev[q]] = q /\ dev' = dev
        BY <3>1 DEF SerialInv, DeviceInv, KillMove
      <3>3. CASE nbd' = nbd
        BY <3>2, <3>3
      <3>4. CASE nbd' = [nbd EXCEPT ![dev[v]] = NoReq] /\ pc[r] \notin Released
        <4>1. Holds(v)
          BY <3>4 DEF Holds
        <4>2. nbd[dev[v]] = v
          BY <4>1 DEF SerialInv, DeviceInv
        <4> QED
          BY <2>3, <3>2, <3>4, <4>2 DEF TypeInv, TypeOK
      <3> QED
        BY <3>3, <3>4 DEF KillMove
    <2> QED
      BY <2>2, <2>3
  <1>11. FilesInv'
    <2>1. ASSUME NEW q \in Reqs, pc'[q] \in Booting
          PROVE  /\ pc[q] \in Booting /\ user'[q] = user[q]
                 /\ vmdir'[user[q]] = vmdir[user[q]]
      BY <1>1, <1>2, <1>7, <2>1 DEF KillMove
    <2> QED
      BY <2>1 DEF SerialInv, FilesInv
  <1>12. \A p \in Reqs : Alive(p)' =>
           Alive(p) /\ runs'[p] = runs[p] /\ p # r /\ user[p] \in Users /\ user[p] # u
    BY DEF KillMove, Alive, SerialInv, AliveInv
  <1>13. AliveInv'
    <2>1. ASSUME NEW p \in Reqs, Alive(p)'
          PROVE  /\ user'[p] = user[p] /\ pc'[p] = pc[p]
                 /\ microvms'[user[p]] = microvms[user[p]]
                 /\ vmdir'[user[p]] = vmdir[user[p]]
      BY <1>1, <1>2, <1>4, <1>12, <2>1 DEF KillMove
    <2> QED
      BY <1>1, <1>2, <1>12, <2>1 DEF SerialInv, AliveInv
  <1>14. NetworkInv'
    <2>1. ASSUME NEW p \in Reqs, Alive(p)', pc'[p] = "created"
          PROVE  user'[p] \in taps' /\ <<ip'[p], user'[p]>> \in routes'
      <3>1. /\ user'[p] = user[p] /\ user[p] # u /\ ip'[p] = ip[p]
            /\ user[p] \in taps /\ <<ip[p], user[p]>> \in routes
        BY <1>1, <1>2, <1>12, <2>1 DEF SerialInv, NetworkInv, KillMove
      <3>2. ip[p] # ip[v]
        BY <1>12, <2>1, <3>1 DEF SerialInv, AliveInv, AddressInv, RunInv, CounterInv
      <3> QED
        BY <3>1, <3>2 DEF KillMove
    <2> QED
      BY <2>1 DEF NetworkInv
  <1> QED
    BY <1>8, <1>9, <1>10, <1>11, <1>13, <1>14 DEF SerialInv

\* What one attempt on the directory does to the rest.
LEMMA RemoveDirMoves ==
  ASSUME TypeInv, NEW r \in Reqs, NEW u \in Users, RemoveDir(r, u), microvms[u] # NoReq
  PROVE  \E label :
           /\ Goto(r, label)
           /\ \A w \in Users : w # u => vmdir'[w] = vmdir[w]
           /\ \/ microvms' = microvms /\ label = "killdir"
              \/ microvms' = [microvms EXCEPT ![u] = NoReq] /\ label = "killed"
  <1>1. \A w \in Users : w # u => vmdir'[w] = vmdir[w]
    BY DEF RemoveDir, TypeInv, TypeOK
  <1> QED
    BY <1>1 DEF RemoveDir

\* What one attempt of a kill does, from the TAP on.
LEMMA DeleteTapMoves ==
  ASSUME TypeInv, NEW r \in Reqs, NEW u \in Users, NEW v \in Reqs, NEW rts,
         DeleteTap(r, u, v, rts), microvms[u] = v, pc[r] \notin Released,
         rts \subseteq routes, \A x \in routes : x[1] # ip[v] => x \in rts
  PROVE  \E label :
           /\ Goto(r, label)
           /\ \A w \in Users : w # u => vmdir'[w] = vmdir[w]
           /\ \/ nbd' = nbd
              \/ nbd' = [nbd EXCEPT ![dev[v]] = NoReq] /\ label = "killnbd"
           /\ \/ microvms' = microvms /\ label \in KillAwaits
              \/ microvms' = [microvms EXCEPT ![u] = NoReq] /\ label = "killed"
           /\ \A w \in taps : w # u => w \in taps'
           /\ \A x \in routes : x[1] # ip[v] /\ x[2] # u => x \in routes'
  <1>1. /\ \A w \in taps : w # u => w \in taps'
        /\ \A x \in routes : x[1] # ip[v] /\ x[2] # u => x \in routes'
    BY DEF DeleteTap, RoutesWithout
  <1>2. CASE /\ Goto(r, "killtap") /\ UNCHANGED <<nbd, vmdir, microvms>>
    BY <1>1, <1>2
  <1>3. CASE DetachNbd(r, u, v)
    <2>1. CASE /\ nbd' \in {nbd, [nbd EXCEPT ![dev[v]] = NoReq]}
               /\ Goto(r, "killnbd") /\ UNCHANGED <<vmdir, microvms>>
      BY <1>1, <2>1
    <2>2. CASE nbd' = nbd /\ RemoveDir(r, u)
      BY <1>1, <2>2, RemoveDirMoves
    <2> QED
      BY <1>3, <2>1, <2>2 DEF DetachNbd
  <1> QED
    BY <1>2, <1>3 DEF DeleteTap

\* A kill that arrives finds its user's entry, and nothing else of it in flight.
LEMMA KillStartMoves ==
  ASSUME Patient, TypeInv, SerialInv, NEW r \in Reqs, NEW u \in Users,
         KillStart(r, u)
  PROVE  /\ microvms[u] \in Reqs /\ user[microvms[u]] = u /\ microvms[u] # r
         /\ pc[r] = "idle"
         /\ \A q \in Reqs : q # r /\ user[q] = u => pc[q] \notin InFlight
         /\ \E label : KillMove(r, u, microvms[u], label)
  <1> DEFINE v == microvms[u]
  <1>1. /\ pc[r] = "idle" /\ user' = [user EXCEPT ![r] = u]
        /\ \A q \in Reqs : user[q] = u => pc[q] \notin InFlight
    BY SendAlone DEF KillStart
  <1>2. v \in Reqs /\ user[v] = u /\ v # r
    BY <1>1 DEF KillStart, TypeInv, TypeOK, VMs, SerialInv, EntryInv
  <1>3. PICK rts \in {routes, routes \ RoutesTo(routes, ip[v])} :
          DeleteTap(r, u, v, rts)
    BY DEF KillStart
  <1>4. rts \subseteq routes /\ \A x \in routes : x[1] # ip[v] => x \in rts
    BY DEF RoutesTo
  <1>5. /\ victim' = [victim EXCEPT ![r] = v] /\ runs' = [runs EXCEPT ![v] = NoReq]
        /\ UNCHANGED <<ip, dev>>
    BY DEF KillStart
  <1>6. PICK label :
           /\ Goto(r, label)
           /\ \A w \in Users : w # u => vmdir'[w] = vmdir[w]
           /\ \/ nbd' = nbd
              \/ nbd' = [nbd EXCEPT ![dev[v]] = NoReq] /\ label = "killnbd"
           /\ \/ microvms' = microvms /\ label \in KillAwaits
              \/ microvms' = [microvms EXCEPT ![u] = NoReq] /\ label = "killed"
           /\ \A w \in taps : w # u => w \in taps'
           /\ \A x \in routes : x[1] # ip[v] /\ x[2] # u => x \in routes'
    BY <1>1, <1>2, <1>3, <1>4, DeleteTapMoves
  <1>7. KillMove(r, u, v, label)
    BY <1>1, <1>2, <1>5, <1>6 DEF KillMove, TypeInv, TypeOK
  <1> QED
    BY <1>1, <1>2, <1>7

LEMMA KillStartSerial ==
  ASSUME Patient, TypeInv, AddressInv, SerialInv, NEW r \in Reqs, NEW u \in Users,
         KillStart(r, u)
  PROVE  SerialInv'
  BY KillStartMoves, KillMoveSerial

\* A kill that is resumed still has its victim as its user's only entry.
LEMMA KillResumes ==
  ASSUME TypeInv, SerialInv, NEW r \in Reqs, pc[r] \in KillAwaits
  PROVE  /\ user[r] \in Users /\ victim[r] = microvms[user[r]]
         /\ victim[r] \in Reqs /\ user[victim[r]] = user[r] /\ victim[r] # r
         /\ ~Alive(victim[r])
         /\ \A q \in Reqs : q # r /\ user[q] = user[r] => pc[q] \notin InFlight
  <1>1. user[r] \in Users /\ victim[r] = microvms[user[r]]
    BY DEF TypeInv, SentInv, SerialInv, EntryInv
  <1>2. victim[r] \in Reqs
    BY <1>1 DEF TypeInv, TypeOK, VMs, SerialInv, EntryInv
  <1>3. user[victim[r]] = user[r] /\ victim[r] # r
    BY <1>1 DEF SerialInv, EntryInv
  <1>4. ~Alive(victim[r])
    BY <1>2, <1>3 DEF SerialInv, AliveInv
  <1> QED
    BY <1>1, <1>2, <1>3, <1>4 DEF SerialInv, OneAtATime

LEMMA KillResumeMoves ==
  ASSUME TypeInv, SerialInv, NEW r \in Reqs,
         KillTap(r) \/ KillDir(r) \/ KillDirAgain(r)
  PROVE  /\ pc[r] \in KillAwaits
         /\ \E label : KillMove(r, user[r], victim[r], label)
  <1> DEFINE u == user[r]
             v == victim[r]
  <1>1. /\ pc[r] \in KillAwaits
        /\ UNCHANGED <<user, ip, dev, victim, runs>>
    BY DEF KillTap, KillDir, KillDirAgain
  <1>2. /\ u \in Users /\ v = microvms[u] /\ v \in Reqs /\ user[v] = u /\ v # r
        /\ ~Alive(v)
        /\ \A q \in Reqs : q # r /\ user[q] = u => pc[q] \notin InFlight
    BY <1>1, KillResumes
  <1>3. \E label : KillMove(r, u, v, label)
    <2>1. CASE KillTap(r)
      <3>1. pc[r] = "killtap" /\ DeleteTap(r, u, v, routes)
        BY <2>1 DEF KillTap
      <3>2. PICK label :
           /\ Goto(r, label)
           /\ \A w \in Users : w # u => vmdir'[w] = vmdir[w]
           /\ \/ nbd' = nbd
              \/ nbd' = [nbd EXCEPT ![dev[v]] = NoReq] /\ label = "killnbd"
           /\ \/ microvms' = microvms /\ label \in KillAwaits
              \/ microvms' = [microvms EXCEPT ![u] = NoReq] /\ label = "killed"
           /\ \A w \in taps : w # u => w \in taps'
           /\ \A x \in routes : x[1] # ip[v] /\ x[2] # u => x \in routes'
        BY <1>2, <3>1, DeleteTapMoves
      <3> QED
        BY <1>1, <1>2, <3>1, <3>2 DEF KillMove, Alive
    <2>2. CASE KillDir(r) \/ KillDirAgain(r)
      <3>1. RemoveDir(r, u) /\ UNCHANGED <<nbd, taps, routes>>
        BY <2>2 DEF KillDir, KillDirAgain
      <3>2. PICK label :
           /\ Goto(r, label)
           /\ \A w \in Users : w # u => vmdir'[w] = vmdir[w]
           /\ \/ microvms' = microvms /\ label = "killdir"
              \/ microvms' = [microvms EXCEPT ![u] = NoReq] /\ label = "killed"
        BY <1>2, <3>1, RemoveDirMoves
      <3> QED
        BY <1>1, <1>2, <3>1, <3>2 DEF KillMove, Alive
    <2> QED
      BY <2>1, <2>2
  <1> QED
    BY <1>1, <1>3

LEMMA KillResumeSerial ==
  ASSUME TypeInv, AddressInv, SerialInv, NEW r \in Reqs,
         KillTap(r) \/ KillDir(r) \/ KillDirAgain(r)
  PROVE  SerialInv'
  BY KillResumeMoves, KillResumes, KillMoveSerial

-----------------------------------------------------------------------------

LEMMA NextSerialInv ==
  ASSUME Patient, TypeInv, AddressInv, SerialInv, [Next]_vars
  PROVE  SerialInv'
  <1>1. ASSUME NEW r \in Reqs, NEW u \in Users, Arrive(r, u) PROVE SerialInv'
    <2>1. ~ForceKill(r, u)
      BY SendAlone DEF ForceKill
    <2> QED
      BY <1>1, <2>1, AnsweredAtOnceSerial, CreateStartSerial, KillStartSerial DEF Arrive
  <1>2. ASSUME NEW r \in Reqs, Resume(r) PROVE SerialInv'
    BY <1>2, CreateStepSerial, LaunchSerial, KillResumeSerial DEF Resume
  <1> QED
    BY <1>1, <1>2, EnvironmentSerial, RestartSerial DEF Next, HostRestart, HostReboot

(* Where an attached device may come from.                                 *)

\* A VM whose device is not forgotten: its create is under way or failed, or
\* it is an entry, or some kill has had it as its victim.
Accounted(q) ==
  /\ pc[q] # "idle"
  /\ \/ pc[q] \in Booting \union {"failed"}
     \/ microvms[user[q]] = q
     \/ \E k \in Reqs : victim[k] = q

AccountInv ==
  /\ \A d \in Devices : nbd[d] # NoReq => dev[nbd[d]] = d /\ Accounted(nbd[d])
  /\ \A r \in Reqs : pc[r] = "idle" => victim[r] = NoReq

LEMMA AccountKept ==
  ASSUME TypeInv, AccountInv,
         \A d \in Devices : nbd'[d] = nbd[d] \/ nbd'[d] = NoReq,
         \A q \in Reqs : Accounted(q) => dev'[q] = dev[q] /\ Accounted(q)',
         \A r \in Reqs : pc'[r] = "idle" => pc[r] = "idle" /\ victim'[r] = victim[r]
  PROVE  AccountInv'
  <1>1. \A d \in Devices : nbd[d] # NoReq => nbd[d] \in Reqs
    BY DEF TypeInv, TypeOK, VMs
  <1> QED
    BY <1>1 DEF AccountInv

LEMMA AnsweredAtOnceAccount ==
  ASSUME Patient, TypeInv, AccountInv, NEW r \in Reqs, NEW u \in Users,
         AlreadyExists(r, u) \/ NotFound(r, u)
  PROVE  AccountInv'
  <1>1. /\ pc[r] = "idle" /\ user' = [user EXCEPT ![r] = u]
        /\ pc' = [pc EXCEPT ![r] = "exists"] \/ pc' = [pc EXCEPT ![r] = "notfound"]
        /\ UNCHANGED <<microvms, victim, nbd, dev>>
    BY SendAlone DEF AlreadyExists, NotFound, Goto
  <1>2. \A q \in Reqs : Accounted(q) => Accounted(q)'
    BY <1>1 DEF Accounted, TypeInv, TypeOK
  <1> QED
    BY <1>1, <1>2, AccountKept DEF TypeInv, TypeOK

LEMMA CreateStartAccount ==
  ASSUME Patient, TypeInv, AccountInv, NEW r \in Reqs, NEW u \in Users,
         CreateStart(r, u)
  PROVE  AccountInv'
  <1>1. /\ pc[r] = "idle" /\ user' = [user EXCEPT ![r] = u]
        /\ UNCHANGED <<microvms, victim>>
    BY SendAlone DEF CreateStart
  <1>2. /\ pc' = [pc EXCEPT ![r] = "failed"] \/ pc' = [pc EXCEPT ![r] = "tap"]
        /\ \/ UNCHANGED <<nbd, dev>>
           \/ \E d \in Devices : /\ nbd' = [nbd EXCEPT ![d] = r]
                                 /\ dev' = [dev EXCEPT ![r] = d]
    BY DEF CreateStart, ImageFails, NbdFails, ConfigFails, NbdConnected, Connect, Goto
  <1>3. /\ \A q \in Reqs : q # r => /\ pc'[q] = pc[q] /\ user'[q] = user[q]
                                    /\ dev'[q] = dev[q]
        /\ pc'[r] \in {"failed", "tap"}
    BY <1>1, <1>2 DEF TypeInv, TypeOK
  <1>4. \A q \in Reqs : Accounted(q) => q # r /\ dev'[q] = dev[q] /\ Accounted(q)'
    BY <1>1, <1>3 DEF Accounted
  <1>5. Accounted(r)'
    BY <1>3 DEF Accounted
  <1>6. \A e \in Devices : nbd[e] # NoReq => nbd[e] \in Reqs
    BY DEF TypeInv, TypeOK, VMs
  <1>7. CASE UNCHANGED <<nbd, dev>>
    BY <1>1, <1>3, <1>4, <1>7, AccountKept
  <1>8. ASSUME NEW d \in Devices, nbd' = [nbd EXCEPT ![d] = r], dev' = [dev EXCEPT ![r] = d]
        PROVE  AccountInv'
    <2>1. /\ nbd'[d] = r /\ dev'[r] = d
          /\ \A e \in Devices : e # d => nbd'[e] = nbd[e]
      BY <1>8 DEF TypeInv, TypeOK
    <2>2. ASSUME NEW e \in Devices, nbd'[e] # NoReq
          PROVE  (dev[nbd[e]] = e /\ Accounted(nbd[e]))'
      <3>1. PICK q \in Reqs : q = nbd'[e]
        BY <1>6, <2>1, <2>2
      <3>2. dev'[q] = e /\ Accounted(q)'
        BY <1>4, <1>5, <2>1, <3>1 DEF AccountInv
      <3> QED
        BY <3>1, <3>2 DEF Accounted
    <2>3. \A q \in Reqs : pc'[q] = "idle" => victim'[q] = NoReq
      BY <1>1, <1>3 DEF AccountInv
    <2> QED
      BY <2>2, <2>3 DEF AccountInv
  <1> QED
    BY <1>2, <1>7, <1>8

LEMMA CreateStepAccount ==
  ASSUME TypeInv, AccountInv, NEW r \in Reqs,
         \/ TapAdd(r) \/ RouteAdd(r) \/ NetworkFails(r) \/ LaunchFails(r)
         \/ EnvdReady(r) \/ FastApiReady(r) \/ BootTimeout(r)
  PROVE  AccountInv'
  <1>1. UNCHANGED <<microvms, user, dev, victim, nbd>>
    BY DEF TapAdd, RouteAdd, NetworkFails, LaunchFails, EnvdReady, FastApiReady,
           BootTimeout, local
  <1>2. /\ \A q \in Reqs : q # r => pc'[q] = pc[q]
        /\ pc'[r] # "idle"
        /\ pc[r] \in Booting \union {"failed"} => pc'[r] \in Booting \union {"failed"}
    BY DEF TapAdd, RouteAdd, NetworkFails, LaunchFails, EnvdReady, FastApiReady,
           BootTimeout, Goto, TypeInv, TypeOK
  <1>3. \A q \in Reqs : Accounted(q) => Accounted(q)'
    BY <1>1, <1>2 DEF Accounted
  <1> QED
    BY <1>1, <1>2, <1>3, AccountKept

LEMMA LaunchAccount ==
  ASSUME TypeInv, SerialInv, AccountInv, NEW r \in Reqs, Launch(r)
  PROVE  AccountInv'
  <1> DEFINE u == user[r]
  <1>1. /\ u \in Users /\ pc[r] = "launch" /\ microvms[u] = NoReq
        /\ UNCHANGED <<user, dev, victim, nbd>>
    BY DEF Launch, local, TypeInv, SentInv, SerialInv, EntryInv
  <1>2. /\ pc'[r] = "envd" /\ \A q \in Reqs : q # r => pc'[q] = pc[q]
        /\ microvms'[u] = r /\ \A w \in Users : w # u => microvms'[w] = microvms[w]
        /\ \A q \in Reqs : pc[q] # "idle" => user[q] \in Users
    BY <1>1 DEF Launch, Goto, TypeInv, TypeOK, SentInv
  <1>3. \A q \in Reqs : Accounted(q) => Accounted(q)'
    BY <1>1, <1>2 DEF Accounted
  <1> QED
    BY <1>1, <1>2, <1>3, AccountKept

LEMMA KillMoveAccount ==
  ASSUME TypeInv, SerialInv, AccountInv, NEW r \in Reqs, NEW u \in Users,
         NEW v \in Reqs, NEW label, KillMove(r, u, v, label),
         microvms[u] = v, v # r,
         pc[r] = "idle" \/ (pc[r] \in KillAwaits /\ victim[r] = v)
  PROVE  AccountInv'
  <1>1. /\ pc'[r] # "idle" /\ \A q \in Reqs : q # r => pc'[q] = pc[q]
        /\ victim'[r] = v /\ \A q \in Reqs : q # r => victim'[q] = victim[q]
        /\ user'[r] = u /\ \A q \in Reqs : q # r => user'[q] = user[q]
        /\ pc[r] = "idle" \/ user[r] = u
    <2>1. pc'[r] = label /\ \A q \in Reqs : q # r => pc'[q] = pc[q]
      BY DEF KillMove, Goto, TypeInv, TypeOK
    <2>2. label \in KillAwaits \union {"killed"}
      BY DEF KillMove
    <2>3. victim'[r] = v /\ \A q \in Reqs : q # r => victim'[q] = victim[q]
      BY DEF KillMove, TypeInv, TypeOK
    <2>4. /\ user'[r] = u /\ \A q \in Reqs : q # r => user'[q] = user[q]
          /\ pc[r] = "idle" \/ user[r] = u
      BY DEF KillMove, TypeInv, TypeOK
    <2> QED
      BY <2>1, <2>2, <2>3, <2>4
  <1>2. /\ \A w \in Users : w # u => microvms'[w] = microvms[w]
        /\ \A q \in Reqs : pc[q] # "idle" => user[q] \in Users
        /\ dev' = dev
        /\ \A d \in Devices : nbd'[d] = nbd[d] \/ nbd'[d] = NoReq
    BY DEF KillMove, TypeInv, TypeOK, SentInv
  <1>3. ASSUME NEW q \in Reqs, Accounted(q)
        PROVE  Accounted(q)'
    <2>1. pc'[q] # "idle"
      BY <1>1, <1>3 DEF Accounted
    <2>2. CASE pc[q] \in Booting \union {"failed"}
      BY <1>1, <2>1, <2>2 DEF Accounted
    <2>3. CASE microvms[user[q]] = q
      <3>1. q # r
        BY <1>1, <1>3, <2>3 DEF Accounted
      <3>2. CASE user[q] = u
        BY <1>1, <2>1, <2>3, <3>2 DEF Accounted
      <3>3. CASE user[q] # u
        BY <1>1, <1>2, <1>3, <2>1, <2>3, <3>1, <3>3 DEF Accounted
      <3> QED
        BY <3>2, <3>3
    <2>4. ASSUME NEW k \in Reqs, victim[k] = q
          PROVE  Accounted(q)'
      <3>1. victim'[k] = q
        BY <1>1, <2>4 DEF AccountInv
      <3> QED
        BY <2>1, <3>1 DEF Accounted
    <2> QED
      BY <1>3, <2>2, <2>3, <2>4 DEF Accounted
  <1> QED
    BY <1>1, <1>2, <1>3, AccountKept

LEMMA NextAccountInv ==
  ASSUME Patient, TypeInv, SerialInv, AccountInv, [Next]_vars
  PROVE  AccountInv'
  <1>1. ASSUME NEW r \in Reqs, NEW u \in Users, Arrive(r, u) PROVE AccountInv'
    <2>1. ~ForceKill(r, u)
      BY SendAlone DEF ForceKill
    <2>2. CASE KillStart(r, u)
      BY <2>2, KillStartMoves, KillMoveAccount
    <2> QED
      BY <1>1, <2>1, <2>2, AnsweredAtOnceAccount, CreateStartAccount DEF Arrive
  <1>2. ASSUME NEW r \in Reqs, Resume(r) PROVE AccountInv'
    <2>1. CASE KillTap(r) \/ KillDir(r) \/ KillDirAgain(r)
      BY <2>1, KillResumeMoves, KillResumes, KillMoveAccount
    <2> QED
      BY <1>2, <2>1, CreateStepAccount, LaunchAccount DEF Resume
  <1>3. CASE Maintenance \/ (\E p \in Reqs : VmExits(p)) \/ UNCHANGED vars
    <2>1. UNCHANGED <<microvms, pc, user, dev, victim, nbd>>
      BY <1>3 DEF Maintenance, Sweep, VmExits, vars, local
    <2> QED
      BY <2>1 DEF AccountInv, Accounted
  <1>4. CASE HostRestart \/ HostReboot
    <2>1. /\ \A d \in Devices : nbd'[d] = NoReq
          /\ \A r \in Reqs : pc'[r] = "idle" => pc[r] = "idle"
          /\ victim' = victim
      BY <1>4 DEF HostRestart, HostReboot, Restart
    <2> QED
      BY <2>1 DEF AccountInv
  <1> QED
    BY <1>1, <1>2, <1>3, <1>4 DEF Next

-----------------------------------------------------------------------------

LEMMA SerialInvariant ==
  ASSUME Patient
  PROVE  Spec => [](TypeInv /\ SerialInv)
  <1>1. Init => TypeInv /\ AddressInv /\ SerialInv
    BY InitTypeInv, InitAddressInv, InitSerialInv
  <1>2. TypeInv /\ AddressInv /\ SerialInv /\ [Next]_vars
          => (TypeInv /\ AddressInv /\ SerialInv)'
    BY NextTypeInv, NextAddressInv, NextSerialInv
  <1> QED
    BY <1>1, <1>2, PTL DEF Spec

\* For clients that wait for their answers, an announced agent that still runs
\* keeps its entry, its disk, its image and its network, whatever the other
\* users' creates and kills, the sweeps and the restarts do.
THEOREM AnnouncedVmsStayIntact ==
  ASSUME Patient
  PROVE  Spec => []RunningVmIntact
  <1>1. TypeInv /\ SerialInv => RunningVmIntact
    BY SerialIntact
  <1> QED
    BY <1>1, SerialInvariant, PTL

\* For the same clients, no two live microVMs write the same block device.
THEOREM DisksStayExclusive ==
  ASSUME Patient
  PROVE  Spec => []DiskExclusive
  <1>1. TypeInv /\ SerialInv => DiskExclusive
    BY SerialIntact
  <1> QED
    BY <1>1, SerialInvariant, PTL

\* And no Firecracker process is ever left without its user's entry.
THEOREM ProcessesStayTracked ==
  ASSUME Patient
  PROVE  Spec => []NoUntrackedProcess
  <1>1. TypeInv /\ SerialInv => NoUntrackedProcess
    BY SerialIntact
  <1> QED
    BY <1>1, SerialInvariant, PTL

\* And an attached device is never forgotten in another way than by a failed
\* create or by a kill whose qemu-nbd -d did nothing.
THEOREM DevicesStayAccounted ==
  ASSUME Patient
  PROVE  Spec => []DevicesAccounted
  <1>1. Init => AccountInv
    BY DEF Init, AccountInv
  <1>2. TypeInv /\ SerialInv /\ AccountInv /\ [Next]_vars => AccountInv'
    BY NextAccountInv
  <1>3. AccountInv => DevicesAccounted
    BY DEF AccountInv, Accounted, DevicesAccounted
  <1> QED
    BY <1>1, <1>2, <1>3, SerialInvariant, PTL DEF Spec

====
