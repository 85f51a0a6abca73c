---- MODULE Host ----
(***************************************************************************)
(* The host service (host/): a FastAPI process that creates, tracks and    *)
(* kills one Firecracker microVM per user, plus the maintenance sweep that *)
(* cron triggers.  Handlers run on one asyncio event loop: a stretch of    *)
(* code between two awaits is one atomic action here, and the handlers     *)
(* interleave at their awaits only.  Everything the handlers change        *)
(* outside Python (NBD devices, TAPs, routes, directories, processes) is   *)
(* kernel or file-system state that outlives the service.                  *)
(*                                                                         *)
(* A create request names the incarnation of the VM it makes: its disk     *)
(* image, its config file, its NBD attachment, its entry in microvms and   *)
(* its Firecracker process all carry the request's name.                   *)
(***************************************************************************)
EXTENDS Integers, FiniteSets

CONSTANTS
  Users,            \* user ids
  Reqs,             \* HTTP requests; a create request also names its VM
  NoReq,            \* no request, no VM, nothing attached
  NoUser,           \* the user of a request not sent yet
  Ops,              \* which of "create", "kill", "force" the clients send
  NumNbd,           \* NBD devices the scan tries (32)
  ForceNbd,         \* NBD devices a forced kill disconnects (16)
  FirstIp, LastIp,  \* first address octet (100), last usable one (255)
  Attempts,         \* attempts of a kill's retry loops (3)
  Hits,             \* <<u, w>>: the pgrep pattern for u matches w's processes
  LineHits,         \* <<u, w>>: u[:11] occurs in the ip link line of w's TAP
  Impatient,        \* <<op, k>>: clients send op with a request of kind k,
                    \* "create" or "kill", of the same user unanswered
  MaxRestarts       \* bound on service restarts and host reboots

ASSUME NoReqAssumption == NoReq \notin Reqs /\ NoUser \notin Users
ASSUME NbdAssumption == NumNbd \in Nat \ {0} /\ ForceNbd \in Nat
ASSUME IpAssumption == FirstIp \in Nat \ {0} /\ LastIp \in Nat
ASSUME LimitAssumption == Attempts \in Nat \ {0} /\ MaxRestarts \in Nat
ASSUME ClientAssumption ==
  /\ Ops \subseteq {"create", "kill", "force"}
  /\ Impatient \subseteq {"create", "kill", "force"} \X {"create", "kill"}
ASSUME HitsAssumption == Hits \subseteq Users \X Users /\ LineHits \subseteq Users \X Users

VARIABLES
  microvms,  \* the tracking dict: the VM each user's entry names
  nextIp,    \* next_ip
  pc,        \* where each request is: idle, an await point, or its answer
  user,      \* user_id of each request
  ip,        \* a create's vm_ip; 0 before it is allocated
  dev,       \* a create's nbd_device
  victim,    \* a kill's vm: the entry it read when it started
  tries,     \* a kill's failed attempts in its current retry loop
  vmdir,     \* WORK_DIR/user: made, whose image and config, socket file
  nbd,       \* whose image each NBD device serves
  taps,      \* users whose TAP device exists
  routes,    \* <<ip, user>>: route to 10.0.1.ip over the user's TAP
  runs,      \* the config each request's Firecracker process runs, if alive
  restarts   \* service restarts and reboots so far

local == <<user, ip, dev, victim, tries>>
vars == <<microvms, nextIp, pc, user, ip, dev, victim, tries,
          vmdir, nbd, taps, routes, runs, restarts>>

-----------------------------------------------------------------------------
(* Requests and resources.                                                 *)

VMs == Reqs \union {NoReq}
Devices == 0 .. NumNbd - 1

CreateAwaits == {"tap", "route", "launch", "envd", "fastapi"}
KillAwaits == {"killtap", "killnbd", "killdir"}
InFlight == CreateAwaits \union KillAwaits
Answers == {"created", "exists", "failed", "killed", "forced",
            "notfound", "error", "lost"}

Labels == {"idle"} \union InFlight \union Answers

Dir == [made : BOOLEAN, image : VMs, config : VMs, sock : BOOLEAN]
NoDir == [made |-> FALSE, image |-> NoReq, config |-> NoReq, sock |-> FALSE]
Emptied == [made |-> TRUE, image |-> NoReq, config |-> NoReq, sock |-> FALSE]

\* What is left of u's directory when rmtree fails: it could not open the
\* directory, or not remove it once the files were gone.
Leftovers(u) == IF vmdir[u].made THEN {vmdir[u], Emptied} ELSE {}

Alive(p) == runs[p] # NoReq

\* qemu holds a write lock on an image while an NBD device serves it.
Locked(u) == \E d \in Devices : nbd[d] = vmdir[u].image /\ nbd[d] # NoReq

\* Variant: the scan trusts the tracking dict instead of the device.
FreeNbd_ByEntries(d) == \A u \in Users : microvms[u] # NoReq => dev[microvms[u]] # d

\* The scan takes the first device of size zero.
FreeNbd(d) == nbd[d] = NoReq /\ \A e \in Devices : e < d => nbd[e] # NoReq

\* A route goes away with the TAP device it uses.
RoutesWithout(rs, us) == {x \in rs : x[2] \notin us}
RoutesTo(rs, a) == {x \in rs : x[1] = a}

Awaits(kind) == IF kind = "create" THEN CreateAwaits ELSE KillAwaits

InProgress(u, kind) == \E r \in Reqs : user[r] = u /\ pc[r] \in Awaits(kind)

Busy(u) == InProgress(u, "create") \/ InProgress(u, "kill")

Send(r, u, op) ==
  /\ op \in Ops
  /\ pc[r] = "idle"
  /\ \A kind \in {"create", "kill"} :
       InProgress(u, kind) => <<op, kind>> \in Impatient
  /\ user' = [user EXCEPT ![r] = u]

Goto(r, label) == pc' = [pc EXCEPT ![r] = label]

-----------------------------------------------------------------------------
(* create_microvm                                                          *)

\* A user with an entry is told that its VM exists.  (An unknown runtime is
\* refused with 400 before anything changes: such a request is never sent.)
AlreadyExists(r, u) ==
  /\ Send(r, u, "create")
  /\ microvms[u] # NoReq
  /\ Goto(r, "exists")
  /\ UNCHANGED <<microvms, nextIp, ip, dev, victim, tries, vmdir, nbd, taps,
                 routes, runs, restarts>>

\* Variant: the counter starts again at the end of the octet.
AllocateIp_Wraps(r) ==
  /\ ip' = [ip EXCEPT ![r] = nextIp]
  /\ nextIp' = IF nextIp >= LastIp THEN FirstIp ELSE nextIp + 1

AllocateIp(r) ==
  /\ ip' = [ip EXCEPT ![r] = nextIp]
  /\ nextIp' = nextIp + 1

\* qemu-img create refuses a locked image, and may fail for other reasons
\* (~Locked is no guard here); the address is spent and the directory stays.
ImageFails(r, u) ==
  /\ vmdir' = [vmdir EXCEPT ![u].made = TRUE]
  /\ Goto(r, "failed")
  /\ UNCHANGED <<nbd, dev>>

\* No free NBD device, or qemu-nbd -c failed: the image stays.
NbdFails(r, u) ==
  /\ ~Locked(u)
  /\ vmdir' = [vmdir EXCEPT ![u].made = TRUE, ![u].image = r]
  /\ Goto(r, "failed")
  /\ UNCHANGED <<nbd, dev>>

\* qemu-nbd serves the new image; an old socket file is removed.
Connect(r, u, config) ==
  /\ ~Locked(u)
  /\ \E d \in Devices : /\ FreeNbd(d)
                        /\ nbd' = [nbd EXCEPT ![d] = r]
                        /\ dev' = [dev EXCEPT ![r] = d]
  /\ vmdir' = [vmdir EXCEPT ![u] =
                 [made |-> TRUE, image |-> r, config |-> config, sock |-> FALSE]]

\* The disk is full: no config, and the device stays connected.
ConfigFails(r, u) == Connect(r, u, NoReq) /\ Goto(r, "failed")

NbdConnected(r, u) == Connect(r, u, r) /\ Goto(r, "tap")

\* From the request to the first await of the network commands.
CreateStart(r, u) ==
  /\ Send(r, u, "create")
  /\ microvms[u] = NoReq
  /\ AllocateIp(r)
  /\ \/ ImageFails(r, u) \/ NbdFails(r, u)
     \/ ConfigFails(r, u) \/ NbdConnected(r, u)
  /\ UNCHANGED <<microvms, victim, tries, taps, routes, runs, restarts>>

\* ip tuntap add, then addr add and link up: a failure goes unnoticed.
TapAdd(r) ==
  /\ pc[r] = "tap"
  /\ taps' \in {taps, taps \union {user[r]}}
  /\ Goto(r, "route")
  /\ UNCHANGED <<microvms, nextIp, local, vmdir, nbd, routes, runs, restarts>>

\* ip route add fails without the TAP, with another route to the address, past
\* the last octet, or for other reasons: that goes unnoticed.
RouteAdd(r) ==
  /\ pc[r] = "route"
  /\ \/ routes' = routes
     \/ /\ user[r] \in taps
        /\ RoutesTo(routes, ip[r]) = {}
        /\ ip[r] <= LastIp
        /\ routes' = routes \union {<<ip[r], user[r]>>}
  /\ Goto(r, "launch")
  /\ UNCHANGED <<microvms, nextIp, local, vmdir, nbd, taps, runs, restarts>>

\* A network command could not be spawned: 500, and everything stays.
NetworkFails(r) ==
  /\ pc[r] \in {"tap", "route"}
  /\ Goto(r, "failed")
  /\ UNCHANGED <<microvms, nextIp, local, vmdir, nbd, taps, routes, runs, restarts>>

\* The log cannot be opened (the directory is gone) or Popen fails.
LaunchFails(r) ==
  /\ pc[r] = "launch"
  /\ Goto(r, "failed")
  /\ UNCHANGED <<microvms, nextIp, local, vmdir, nbd, taps, routes, runs, restarts>>

\* Variant: a socket file is no obstacle.
Boots_OverSocket(u) == vmdir[u].config # NoReq

\* Firecracker exits at once without a config or with a socket file there.
Boots(u) == vmdir[u].config # NoReq /\ ~vmdir[u].sock

\* Popen, and the entry in microvms, with no await in between.
Launch(r) ==
  LET u == user[r] IN
  /\ pc[r] = "launch"
  /\ vmdir[u].made
  /\ IF Boots(u)
     THEN /\ runs' = [runs EXCEPT ![r] = vmdir[u].config]
          /\ vmdir' = [vmdir EXCEPT ![u].sock = TRUE]
     ELSE UNCHANGED <<runs, vmdir>>
  /\ microvms' = [microvms EXCEPT ![u] = r]
  /\ Goto(r, "envd")
  /\ UNCHANGED <<nextIp, local, nbd, taps, routes, restarts>>

\* Some process runs r's config, on r's disk, and r's address leads to it.
Intact(r) ==
  /\ nbd[dev[r]] = r
  /\ user[r] \in taps
  /\ <<ip[r], user[r]>> \in routes

Reachable(r) == Intact(r) /\ \E p \in Reqs : runs[p] = r

EnvdReady(r) ==
  /\ pc[r] = "envd"
  /\ Reachable(r)
  /\ Goto(r, "fastapi")
  /\ UNCHANGED <<microvms, nextIp, local, vmdir, nbd, taps, routes, runs, restarts>>

FastApiReady(r) ==
  /\ pc[r] = "fastapi"
  /\ Reachable(r)
  /\ Goto(r, "created")
  /\ UNCHANGED <<microvms, nextIp, local, vmdir, nbd, taps, routes, runs, restarts>>

\* Variant: wait_for_envd has no limit.
BootTimeout_EnvdWaits(r) ==
  /\ pc[r] = "fastapi"
  /\ runs' = [runs EXCEPT ![r] = NoReq]
  /\ Goto(r, "failed")
  /\ UNCHANGED <<microvms, nextIp, local, vmdir, nbd, taps, routes, restarts>>

\* wait_for_envd or wait_for_fastapi gave up: the handler kills its own
\* process and nothing else; the entry in microvms stays.
BootTimeout(r) ==
  /\ pc[r] \in {"envd", "fastapi"}
  /\ runs' = [runs EXCEPT ![r] = NoReq]
  /\ Goto(r, "failed")
  /\ UNCHANGED <<microvms, nextIp, local, vmdir, nbd, taps, routes, restarts>>

-----------------------------------------------------------------------------
(* kill_microvm                                                            *)

\* Variant: one retry too many.
RemoveDir_OneMore(r, u) ==
  \/ /\ \E left \in Leftovers(u) : vmdir' = [vmdir EXCEPT ![u] = left]
     /\ Goto(r, "killdir")
     /\ UNCHANGED microvms
  \/ /\ vmdir' = [vmdir EXCEPT ![u] = NoDir]
     /\ microvms' = [microvms EXCEPT ![u] = NoReq]
     /\ Goto(r, "killed")

\* Variant: the entry is not deleted.
RemoveDir_KeepsEntry(r, u) ==
  /\ vmdir' = [vmdir EXCEPT ![u] = NoDir]
  /\ Goto(r, "killed")
  /\ UNCHANGED microvms

\* One rmtree attempt, and the end of the handler unless it will retry.
\* The third failure falls back on rm -rf, which may fail too.
RemoveDir(r, u) ==
  \/ /\ tries'[r] < Attempts - 1
     /\ \E left \in Leftovers(u) : vmdir' = [vmdir EXCEPT ![u] = left]
     /\ Goto(r, "killdir")
     /\ UNCHANGED microvms
  \/ /\ \E left \in {NoDir} \union Leftovers(u) :
          /\ vmdir' = [vmdir EXCEPT ![u] = left]
          /\ left # NoDir => tries'[r] = Attempts - 1
     /\ microvms' = [microvms EXCEPT ![u] = NoReq]
     /\ Goto(r, IF microvms[u] = NoReq THEN "error" ELSE "killed")

\* qemu-nbd -d on the device read at the start, its exit code ignored, then a
\* sleep; when the command times out there is no sleep.
DetachNbd(r, u, v) ==
  /\ tries' = [tries EXCEPT ![r] = 0]
  /\ \/ /\ nbd' \in {nbd, [nbd EXCEPT ![dev[v]] = NoReq]}
        /\ Goto(r, "killnbd")
        /\ UNCHANGED <<vmdir, microvms>>
     \/ nbd' = nbd /\ RemoveDir(r, u)

\* One ip link delete, with the routes as rts before it: it succeeds (or the
\* TAP is gone already) and the handler goes on, or it fails and the handler
\* sleeps before a retry, except after the last attempt.
DeleteTap(r, u, v, rts) ==
  \/ /\ taps' = taps \ {u}
     /\ routes' = RoutesWithout(rts, {u})
     /\ DetachNbd(r, u, v)
  \/ /\ u \in taps
     /\ taps' = taps /\ routes' = rts
     /\ IF tries[r] = Attempts - 1
        THEN DetachNbd(r, u, v)
        ELSE /\ tries' = [tries EXCEPT ![r] = @ + 1]
             /\ Goto(r, "killtap")
             /\ UNCHANGED <<nbd, vmdir, microvms>>

NotFound(r, u) ==
  /\ Send(r, u, "kill")
  /\ microvms[u] = NoReq
  /\ Goto(r, "notfound")
  /\ UNCHANGED <<microvms, nextIp, ip, dev, victim, tries, vmdir, nbd, taps,
                 routes, runs, restarts>>

Kills(u) == {w \in Users : <<u, w>> \in Hits}
Unlinks(u) == {w \in taps : <<u, w>> \in LineHits}

\* Force mode without an entry: kill what pgrep matches, Firecracker and
\* qemu-nbd alike, delete the TAPs whose line holds the id's first characters
\* (their names are hashes: a short or generic id matches anyone's, the user's
\* own id seldom), disconnect the first ForceNbd devices whoever uses them,
\* remove the directory.  Exit codes are ignored.
ForceKill(r, u) ==
  /\ Send(r, u, "force")
  /\ microvms[u] = NoReq
  /\ runs' = [p \in Reqs |-> IF user[p] \in Kills(u) THEN NoReq ELSE runs[p]]
  /\ nbd' = [d \in Devices |->
               IF \/ d < ForceNbd
                  \/ nbd[d] # NoReq /\ user[nbd[d]] \in Kills(u)
               THEN NoReq ELSE nbd[d]]
  /\ \E ts \in SUBSET Unlinks(u) :
       taps' = taps \ ts /\ routes' = RoutesWithout(routes, ts)
  /\ \E left \in {NoDir} \union Leftovers(u) : vmdir' = [vmdir EXCEPT ![u] = left]
  /\ Goto(r, "forced")
  /\ UNCHANGED <<microvms, nextIp, ip, dev, victim, tries, restarts>>

\* From the request to the first await: SIGKILL, ip route del (which may
\* time out), the first attempt on the TAP.
KillStart(r, u) ==
  LET v == microvms[u] IN
  /\ Send(r, u, "kill") \/ Send(r, u, "force")
  /\ v # NoReq
  /\ victim' = [victim EXCEPT ![r] = v]
  /\ runs' = [runs EXCEPT ![v] = NoReq]
  /\ \E rts \in {routes, routes \ RoutesTo(routes, ip[v])} :
       DeleteTap(r, u, v, rts)
  /\ UNCHANGED <<nextIp, ip, dev, restarts>>

\* Awake after a failed attempt on the TAP.
KillTap(r) ==
  /\ pc[r] = "killtap"
  /\ DeleteTap(r, user[r], victim[r], routes)
  /\ UNCHANGED <<nextIp, user, ip, dev, victim, runs, restarts>>

\* Awake after the NBD device was released.
KillDir(r) ==
  /\ pc[r] = "killnbd"
  /\ tries' = tries
  /\ RemoveDir(r, user[r])
  /\ UNCHANGED <<nextIp, user, ip, dev, victim, nbd, taps, routes, runs, restarts>>

\* Awake after a failed rmtree.
KillDirAgain(r) ==
  /\ pc[r] = "killdir"
  /\ tries' = [tries EXCEPT ![r] = @ + 1]
  /\ RemoveDir(r, user[r])
  /\ UNCHANGED <<nextIp, user, ip, dev, victim, nbd, taps, routes, runs, restarts>>

-----------------------------------------------------------------------------
(* maintenance: one stretch without awaits.                                *)

Tracked == {u \in Users : microvms[u] # NoReq}
TrackedVMs == {microvms[u] : u \in Tracked}

\* Variant: entries looked up by a name that TAPs do not have.
OrphanTaps_ByUserId == taps

\* Variant: a directory in use by an NBD device is left alone.
OrphanDirs_NotInUse == {u \in Users \ Tracked : vmdir[u].made /\ ~Locked(u)}

\* The search looks for "/32 dev tap-", which ip route show prints for a host
\* route only if it prints the prefix length (iproute2 leaves /32 out): these
\* may be deleted, and nothing below counts on it.
OrphanRoutes == {x \in routes : \A v \in TrackedVMs : x[1] # ip[v]}
OrphanTaps == taps \ Tracked
OrphanProcs == {p \in Reqs : Alive(p) /\ p \notin TrackedVMs}
OrphanDirs == {u \in Users \ Tracked : vmdir[u].made}

\* Variant: the sweep also forgets the entries of VMs that have ended.
Sweep_DropsDead(rs, ts, ps, ds, es) ==
  /\ microvms' = [u \in Users |-> IF u \in Tracked /\ ~Alive(microvms[u])
                                  THEN NoReq ELSE microvms[u]]
  /\ routes' = RoutesWithout(routes \ rs, ts)
  /\ taps' = taps \ ts
  /\ UNCHANGED <<nextIp, pc, local, vmdir, nbd, runs, restarts>>

\* Each command may fail by itself, so a sweep removes some of the orphans: rs,
\* ts, ps, ds, and of the directories es the files only.  It never looks at
\* the NBD devices.
Sweep(rs, ts, ps, ds, es) ==
  /\ routes' = RoutesWithout(routes \ rs, ts)
  /\ taps' = taps \ ts
  /\ runs' = [p \in Reqs |-> IF p \in ps THEN NoReq ELSE runs[p]]
  /\ vmdir' = [u \in Users |-> IF u \in es THEN Emptied
                               ELSE IF u \in ds THEN NoDir ELSE vmdir[u]]
  /\ UNCHANGED <<microvms, nextIp, pc, local, nbd, restarts>>

Maintenance ==
  \E rs \in SUBSET OrphanRoutes, ts \in SUBSET OrphanTaps,
     ps \in SUBSET OrphanProcs, ds \in SUBSET OrphanDirs :
    \E es \in SUBSET (OrphanDirs \ ds) : Sweep(rs, ts, ps, ds, es)

\* A sweep whose command for one resource worked, whatever its others did.
TapSwept(u) == u \in OrphanTaps /\ Maintenance /\ u \notin taps'
ProcSwept(p) == p \in OrphanProcs /\ Maintenance /\ ~Alive(p)'
DirSwept(u) == u \in OrphanDirs /\ Maintenance /\ ~vmdir'[u].made

-----------------------------------------------------------------------------
(* The environment: guests that stop, the service's unit file.             *)

\* A guest that reboots or panics ends its Firecracker process.
VmExits(p) ==
  /\ Alive(p)
  /\ runs' = [runs EXCEPT ![p] = NoReq]
  /\ UNCHANGED <<microvms, nextIp, pc, local, vmdir, nbd, taps, routes, restarts>>

\* Variant: KillMode=process, only Python is restarted.
Restart_KeepsProcesses(ts, rs) ==
  /\ restarts < MaxRestarts
  /\ restarts' = restarts + 1
  /\ microvms' = [u \in Users |-> NoReq]
  /\ nextIp' = FirstIp
  /\ pc' = [r \in Reqs |-> IF pc[r] \in InFlight THEN "lost" ELSE pc[r]]
  /\ taps' = ts /\ routes' = rs
  /\ UNCHANGED <<user, ip, dev, victim, tries, vmdir, nbd, runs>>

\* systemd ends every process of the service (qemu-nbd and Firecracker too)
\* and starts it afresh.  A reboot of the machine loses TAPs and routes as
\* well; a restart of the service leaves them.
Restart(ts, rs) ==
  /\ restarts < MaxRestarts
  /\ restarts' = restarts + 1
  /\ microvms' = [u \in Users |-> NoReq]
  /\ nextIp' = FirstIp
  /\ pc' = [r \in Reqs |-> IF pc[r] \in InFlight THEN "lost" ELSE pc[r]]
  /\ ip' = [r \in Reqs |-> 0]
  /\ nbd' = [d \in Devices |-> NoReq]
  /\ runs' = [r \in Reqs |-> NoReq]
  /\ taps' = ts /\ routes' = rs
  /\ UNCHANGED <<user, dev, victim, tries, vmdir>>

HostRestart == Restart(taps, routes)
HostReboot == Restart({}, {})

-----------------------------------------------------------------------------

Init ==
  /\ microvms = [u \in Users |-> NoReq]
  /\ nextIp = FirstIp
  /\ pc = [r \in Reqs |-> "idle"]
  /\ user = [r \in Reqs |-> NoUser]
  /\ ip = [r \in Reqs |-> 0]
  /\ dev = [r \in Reqs |-> 0]
  /\ victim = [r \in Reqs |-> NoReq]
  /\ tries = [r \in Reqs |-> 0]
  /\ vmdir = [u \in Users |-> NoDir]
  /\ nbd = [d \in Devices |-> NoReq]
  /\ taps = {}
  /\ routes = {}
  /\ runs = [r \in Reqs |-> NoReq]
  /\ restarts = 0

\* A request arrives.
Arrive(r, u) ==
  \/ AlreadyExists(r, u) \/ CreateStart(r, u)
  \/ NotFound(r, u) \/ ForceKill(r, u) \/ KillStart(r, u)

\* The event loop resumes a request in flight.
Resume(r) ==
  \/ TapAdd(r) \/ RouteAdd(r) \/ NetworkFails(r)
  \/ Launch(r) \/ LaunchFails(r)
  \/ EnvdReady(r) \/ FastApiReady(r) \/ BootTimeout(r)
  \/ KillTap(r) \/ KillDir(r) \/ KillDirAgain(r)

Next ==
  \/ \E r \in Reqs, u \in Users : Arrive(r, u)
  \/ \E r \in Reqs : Resume(r)
  \/ Maintenance
  \/ \E p \in Reqs : VmExits(p)
  \/ HostRestart
  \/ HostReboot

Spec == Init /\ [][Next]_vars

\* Commands end, sleeps expire and boots time out, so a request in flight is
\* resumed; cron keeps calling maintenance, and the command for a TAP, process
\* or directory that stays orphaned works in one of the sweeps.
Fairness ==
  /\ \A r \in Reqs : WF_vars(Resume(r)) /\ WF_vars(ProcSwept(r))
  /\ \A u \in Users : WF_vars(TapSwept(u)) /\ WF_vars(DirSwept(u))

FairSpec == Spec /\ Fairness

-----------------------------------------------------------------------------
(* Properties.                                                             *)

\* Every variable has its type; a kill's tries stay below its loop bound.
TypeOK ==
  /\ microvms \in [Users -> VMs]
  /\ nextIp \in Nat
  /\ pc \in [Reqs -> Labels]
  /\ user \in [Reqs -> Users \union {NoUser}]
  /\ ip \in [Reqs -> Nat]
  /\ dev \in [Reqs -> Devices]
  /\ victim \in [Reqs -> VMs]
  /\ tries \in [Reqs -> 0 .. Attempts - 1]
  /\ vmdir \in [Users -> Dir]
  /\ nbd \in [Devices -> VMs]
  /\ taps \subseteq Users
  /\ routes \subseteq Nat \X Users
  /\ runs \in [Reqs -> VMs]
  /\ restarts \in 0 .. MaxRestarts

\* Two live microVMs never have the same address, in whatever order creates,
\* kills, sweeps and restarts of the counter (next_ip = 100) interleave.
UniqueAddresses ==
  \A p, q \in Reqs :
    p # q /\ Alive(p) /\ Alive(q) => ip[runs[p]] # ip[runs[q]]

\* Two live microVMs never write the same block device: a device is scanned,
\* released and reused by handlers that interleave (README.md: "Complete
\* isolation of each microVM").
DiskExclusive ==
  \A p, q \in Reqs :
    p # q /\ Alive(p) /\ Alive(q) => dev[runs[p]] # dev[runs[q]]

\* An agent announced to its user and still running is tracked, runs its own
\* config, and keeps its disk, image, TAP and route, whatever the other
\* users' requests and the maintenance sweep do meanwhile.
RunningVmIntact ==
  \A r \in Reqs :
    pc[r] = "created" /\ Alive(r) =>
      /\ microvms[user[r]] = r
      /\ runs[r] = r
      /\ vmdir[user[r]].image = r
      /\ Intact(r)

\* Every live Firecracker process has its user's entry: no sequence of kills,
\* failed boots and restarts leaves a VM that only the sweep can find.
NoUntrackedProcess ==
  \A p \in Reqs : Alive(p) => microvms[user[p]] = p

\* An announced agent's entry goes only with a kill that found that agent, or
\* with the host (README.md:7, "a persistent claude agent until microVM is
\* killed"): no handler that was started for an older VM removes it.
PersistsUntilKilled ==
  \A r \in Reqs :
    pc[r] = "created" /\ microvms[user[r]] # r =>
      restarts > 0 \/ \E k \in Reqs : victim[k] = r

\* A device that serves an image is that of a create under way, of an entry, of
\* a create that failed, or of a VM whose kill disconnected it in vain: between
\* the scan, the sweeps, the kills and a restart none is lost in another way
\* (maintenance.py looks at no device: only these two kinds of leak exist).
DevicesAccounted ==
  \A d \in Devices : nbd[d] # NoReq =>
    LET r == nbd[d] IN
    /\ dev[r] = d
    /\ \/ pc[r] \in CreateAwaits \union {"failed"}
       \/ microvms[user[r]] = r
       \/ \E k \in Reqs : victim[k] = r

\* Every request is answered: the retry loops and the boot waits end, and with
\* them every kill (the liveness that Sandbox promises).
Answered ==
  \A r \in Reqs : pc[r] \in InFlight ~> pc[r] \notin InFlight

\* A TAP, with its routes, a directory or a process of u's is left on the host
\* with neither an entry nor a request.  (An NBD device may be left too, as
\* DevicesAccounted says; no sweep releases it.)
Orphaned(u) ==
  /\ microvms[u] = NoReq /\ ~Busy(u)
  /\ \/ u \in taps
     \/ vmdir[u].made
     \/ \E x \in routes : x[2] = u
     \/ \E p \in Reqs : user[p] = u /\ Alive(p)

\* The TAPs, directories and processes that overlapping and forced kills, failed
\* creates and restarts orphan go, each by a sweep of its own if need be
\* (maintenance.py:19-22), also those of a user whose device stays attached.
OrphansSwept == \A u \in Users : Orphaned(u) ~> ~Orphaned(u)

-----------------------------------------------------------------------------
(* Host implements Sandbox.                                                *)

\* The abstract state of u's agent.  "broken" is none of Sandbox's states.
AgentState(u) ==
  LET r == microvms[u] IN
  IF r = NoReq \/ pc[r] # "created" THEN "none"
  ELSE IF Busy(u) THEN "ending"
  ELSE IF ~Alive(r) THEN "exited"
  ELSE IF Intact(r) /\ vmdir[u].image = r THEN "up" ELSE "broken"

\* The kill requests of u that found an entry to kill.
KillsOf(u) == {r \in Reqs : user[r] = u /\ victim[r] # NoReq}

Promise == INSTANCE Sandbox WITH
  agent <- [u \in Users |-> AgentState(u)],
  kills <- [u \in Users |-> Cardinality(KillsOf(u))],
  losses <- restarts

\* Every step of the host is a step of the promise, or invisible to it, also
\* over a restart of the service or the machine.  (That a kill which has begun
\* ends, the fairness of Promise!Spec, is a case of Answered.)
PromiseKept == Promise!Safety

====
