---- MODULE HostProofs ----
(***************************************************************************)
(* Type correctness of Host, and UniqueAddresses for every number of users *)
(* and requests, every workload and every interleaving.                    *)
(***************************************************************************)
EXTENDS Host, TLAPS

\* What a request that is under way knows.
SentInv ==
  \A r \in Reqs :
    /\ pc[r] # "idle" => user[r] \in Users
    /\ pc[r] = "killtap" => victim[r] \in Reqs
    /\ pc[r] = "killdir" => tries[r] < Attempts - 1

TypeInv == TypeOK /\ SentInv

USE NoReqAssumption, NbdAssumption, IpAssumption, LimitAssumption
USE DEF Labels, InFlight, CreateAwaits, KillAwaits, Answers

LEMMA InitTypeInv == Init => TypeInv
  BY DEF Init, TypeInv, TypeOK, SentInv, VMs, Devices, Dir, NoDir

\* A request moved to a label that carries no obligation keeps SentInv.
LEMMA GotoSent ==
  ASSUME TypeInv, NEW r \in Reqs, NEW label \in Labels \ {"idle", "killtap", "killdir"},
         Goto(r, label), UNCHANGED <<user, victim, tries>>, pc[r] # "idle"
  PROVE  pc' \in [Reqs -> Labels] /\ SentInv'
  BY DEF TypeInv, TypeOK, SentInv, Goto

\* So does one that has just been sent.
LEMMA SendSent ==
  ASSUME TypeInv, NEW r \in Reqs, NEW label \in Labels \ {"idle", "killtap", "killdir"},
         NEW u \in Users, NEW op, Send(r, u, op),
         Goto(r, label), UNCHANGED <<victim, tries>>
  PROVE  pc' \in [Reqs -> Labels] /\ user' \in [Reqs -> Users \union {NoUser}] /\ SentInv'
  BY DEF TypeInv, TypeOK, SentInv, Goto, Send

\* What the file operations make of a directory is a directory.
LEMMA DirTyped ==
  ASSUME vmdir \in [Users -> Dir], NEW r \in Reqs, NEW u \in Users
  PROVE  /\ [vmdir EXCEPT ![u].made = TRUE] \in [Users -> Dir]
         /\ [vmdir EXCEPT ![u].made = TRUE, ![u].image = r] \in [Users -> Dir]
         /\ [vmdir EXCEPT ![u].sock = TRUE] \in [Users -> Dir]
         /\ \A left \in {NoDir} \union Leftovers(u) :
              [vmdir EXCEPT ![u] = left] \in [Users -> Dir]
         /\ [vmdir EXCEPT ![u] = [made |-> TRUE, image |-> r, config |-> r,
                                  sock |-> FALSE]] \in [Users -> Dir]
         /\ [vmdir EXCEPT ![u] = [made |-> TRUE, image |-> r, config |-> NoReq,
                                  sock |-> FALSE]] \in [Users -> Dir]
  <1>1. NoDir \in Dir /\ Emptied \in Dir
    BY DEF Dir, VMs, NoDir, Emptied
  <1>2. \A left \in {NoDir} \union Leftovers(u) :
          [vmdir EXCEPT ![u] = left] \in [Users -> Dir]
    <2>1. \A left \in {NoDir} \union Leftovers(u) : left \in Dir
      BY <1>1 DEF Leftovers
    <2> QED
      BY <2>1
  <1>3. /\ [vmdir EXCEPT ![u].made = TRUE] \in [Users -> Dir]
        /\ [vmdir EXCEPT ![u].made = TRUE, ![u].image = r] \in [Users -> Dir]
        /\ [vmdir EXCEPT ![u].sock = TRUE] \in [Users -> Dir]
    BY DEF Dir, VMs
  <1>4. \A c \in VMs : [made |-> TRUE, image |-> r, config |-> c, sock |-> FALSE] \in Dir
    BY DEF Dir, VMs
  <1> QED
    BY <1>2, <1>3, <1>4 DEF VMs

LEMMA CreateStartTypeInv ==
  ASSUME TypeInv, NEW r \in Reqs, NEW u \in Users, CreateStart(r, u)
  PROVE  TypeInv'
  <1>1. Send(r, u, "create") /\ UNCHANGED <<victim, tries>>
    BY DEF CreateStart
  <1>2. ip' \in [Reqs -> Nat] /\ nextIp' \in Nat
    BY DEF CreateStart, AllocateIp, TypeInv, TypeOK
  <1>3. vmdir' \in [Users -> Dir]
    <2>1. vmdir \in [Users -> Dir]
      BY DEF TypeInv, TypeOK
    <2>2. CASE vmdir' = [vmdir EXCEPT ![u].made = TRUE]
      BY <2>1, <2>2, DirTyped
    <2>3. CASE vmdir' = [vmdir EXCEPT ![u].made = TRUE, ![u].image = r]
      BY <2>1, <2>3, DirTyped
    <2>4. CASE vmdir' = [vmdir EXCEPT ![u] =
                           [made |-> TRUE, image |-> r, config |-> r, sock |-> FALSE]]
      BY <2>1, <2>4, DirTyped
    <2>5. CASE vmdir' = [vmdir EXCEPT ![u] =
                           [made |-> TRUE, image |-> r, config |-> NoReq, sock |-> FALSE]]
      BY <2>1, <2>5, DirTyped
    <2> QED
      BY <2>2, <2>3, <2>4, <2>5
         DEF CreateStart, ImageFails, NbdFails, ConfigFails, NbdConnected, Connect
  <1>4. nbd' \in [Devices -> VMs] /\ dev' \in [Reqs -> Devices]
    BY DEF CreateStart, ImageFails, NbdFails, ConfigFails, NbdConnected, Connect, TypeInv, TypeOK, VMs
  <1>5. Goto(r, "failed") \/ Goto(r, "tap")
    BY DEF CreateStart, ImageFails, NbdFails, ConfigFails, NbdConnected, Connect
  <1>6. pc' \in [Reqs -> Labels] /\ user' \in [Reqs -> Users \union {NoUser}] /\ SentInv'
    <2>1. CASE Goto(r, "failed")
      BY <1>1, <2>1, SendSent
    <2>2. CASE Goto(r, "tap")
      BY <1>1, <2>2, SendSent
    <2> QED
      BY <1>5, <2>1, <2>2
  <1> QED
    BY <1>2, <1>3, <1>4, <1>6 DEF CreateStart, TypeInv, TypeOK

-----------------------------------------------------------------------------
(* The steps of a kill.                                                    *)

\* The label a kill is left at, and what it then knows.
KillLabel(r, label) ==
  /\ label \in KillAwaits \union {"killed", "error"}
  /\ Goto(r, label)
  /\ label = "killdir" => tries'[r] < Attempts - 1

LEMMA KillSent ==
  ASSUME TypeInv, NEW r \in Reqs, NEW u \in Users, NEW v \in Reqs, NEW label,
         user' = [user EXCEPT ![r] = u], victim' = [victim EXCEPT ![r] = v],
         NEW n \in 0 .. Attempts - 1, tries' = [tries EXCEPT ![r] = n],
         KillLabel(r, label)
  PROVE  pc' \in [Reqs -> Labels] /\ SentInv'
  BY DEF TypeInv, TypeOK, SentInv, Goto, KillLabel

LEMMA RemoveDirTyped ==
  ASSUME TypeInv, NEW r \in Reqs, NEW u \in Users, RemoveDir(r, u)
  PROVE  /\ vmdir' \in [Users -> Dir]
         /\ microvms' \in [Users -> VMs]
         /\ \E label : KillLabel(r, label)
  <1>1. vmdir \in [Users -> Dir] /\ microvms \in [Users -> VMs]
    BY DEF TypeInv, TypeOK
  <1>2. [microvms EXCEPT ![u] = NoReq] \in [Users -> VMs]
    BY <1>1 DEF VMs
  <1>3. vmdir' \in [Users -> Dir] /\ microvms' \in [Users -> VMs]
    <2>1. \A left \in {NoDir} \union Leftovers(u) :
            [vmdir EXCEPT ![u] = left] \in [Users -> Dir]
      BY <1>1, DirTyped
    <2>2. \E left \in {NoDir} \union Leftovers(u) : vmdir' = [vmdir EXCEPT ![u] = left]
      BY DEF RemoveDir
    <2>3. microvms' = microvms \/ microvms' = [microvms EXCEPT ![u] = NoReq]
      BY DEF RemoveDir
    <2> QED
      BY <1>1, <1>2, <2>1, <2>2, <2>3
  <1>4. KillLabel(r, "killdir") \/ KillLabel(r, "error") \/ KillLabel(r, "killed")
    <2>1. CASE tries'[r] < Attempts - 1 /\ Goto(r, "killdir")
      BY <2>1 DEF KillLabel
    <2>2. CASE Goto(r, IF microvms[u] = NoReq THEN "error" ELSE "killed")
      BY <2>2 DEF KillLabel
    <2> QED
      BY <2>1, <2>2 DEF RemoveDir
  <1> QED
    BY <1>3, <1>4

LEMMA DetachNbdTyped ==
  ASSUME TypeInv, NEW r \in Reqs, NEW u \in Users, NEW v \in Reqs,
         DetachNbd(r, u, v)
  PROVE  /\ nbd' \in [Devices -> VMs]
         /\ vmdir' \in [Users -> Dir]
         /\ microvms' \in [Users -> VMs]
         /\ tries' = [tries EXCEPT ![r] = 0]
         /\ \E label : KillLabel(r, label)
  <1>1. /\ vmdir \in [Users -> Dir] /\ microvms \in [Users -> VMs]
        /\ nbd \in [Devices -> VMs]
    BY DEF TypeInv, TypeOK
  <1>2. CASE RemoveDir(r, u) /\ nbd' = nbd
    BY <1>1, <1>2, RemoveDirTyped DEF DetachNbd
  <1>3. CASE /\ nbd' \in {nbd, [nbd EXCEPT ![dev[v]] = NoReq]}
             /\ Goto(r, "killnbd")
             /\ UNCHANGED <<vmdir, microvms>>
    <2>1. KillLabel(r, "killnbd")
      BY <1>3 DEF KillLabel
    <2> QED
      BY <1>1, <1>3, <2>1 DEF DetachNbd, VMs
  <1> QED
    BY <1>2, <1>3 DEF DetachNbd

LEMMA DeleteTapTyped ==
  ASSUME TypeInv, NEW r \in Reqs, NEW u \in Users, NEW v \in Reqs,
         NEW rts \in SUBSET (Nat \X Users), DeleteTap(r, u, v, rts)
  PROVE  /\ taps' \subseteq Users
         /\ routes' \subseteq Nat \X Users
         /\ nbd' \in [Devices -> VMs]
         /\ vmdir' \in [Users -> Dir]
         /\ microvms' \in [Users -> VMs]
         /\ \E n \in 0 .. Attempts - 1 : tries' = [tries EXCEPT ![r] = n]
         /\ \E label : KillLabel(r, label)
  <1>1. taps' \subseteq Users /\ routes' \subseteq Nat \X Users
    BY DEF DeleteTap, RoutesWithout, TypeInv, TypeOK
  <1>2. CASE DetachNbd(r, u, v)
    <2>1. 0 \in 0 .. Attempts - 1
      OBVIOUS
    <2> QED
      BY <1>1, <1>2, <2>1, DetachNbdTyped
  <1>3. CASE /\ tries[r] # Attempts - 1
             /\ tries' = [tries EXCEPT ![r] = @ + 1]
             /\ Goto(r, "killtap")
             /\ UNCHANGED <<nbd, vmdir, microvms>>
    <2>1. tries[r] + 1 \in 0 .. Attempts - 1
      BY <1>3 DEF TypeInv, TypeOK
    <2>2. KillLabel(r, "killtap")
      BY <1>3 DEF KillLabel
    <2> QED
      BY <1>1, <1>3, <2>1, <2>2 DEF TypeInv, TypeOK
  <1> QED
    BY <1>2, <1>3 DEF DeleteTap

LEMMA KillStartTypeInv ==
  ASSUME TypeInv, NEW r \in Reqs, NEW u \in Users, KillStart(r, u)
  PROVE  TypeInv'
  <1> DEFINE v == microvms[u]
  <1>1. v \in Reqs
    BY DEF KillStart, TypeInv, TypeOK, VMs
  <1>2. user' = [user EXCEPT ![r] = u] /\ victim' = [victim EXCEPT ![r] = v]
    BY DEF KillStart, Send
  <1>3. runs' \in [Reqs -> VMs]
    BY <1>1 DEF KillStart, TypeInv, TypeOK, VMs
  <1>4. PICK rts \in {routes, routes \ RoutesTo(routes, ip[v])} : DeleteTap(r, u, v, rts)
    BY DEF KillStart
  <1>5. rts \in SUBSET (Nat \X Users)
    BY <1>4 DEF TypeInv, TypeOK
  <1>6. /\ taps' \subseteq Users
        /\ routes' \subseteq Nat \X Users
        /\ nbd' \in [Devices -> VMs]
        /\ vmdir' \in [Users -> Dir]
        /\ microvms' \in [Users -> VMs]
        /\ \E n \in 0 .. Attempts - 1 : tries' = [tries EXCEPT ![r] = n]
        /\ \E label : KillLabel(r, label)
    BY <1>1, <1>4, <1>5, DeleteTapTyped
  <1>7. pc' \in [Reqs -> Labels] /\ SentInv'
    BY <1>1, <1>2, <1>6, KillSent
  <1>8. /\ user' \in [Reqs -> Users \union {NoUser}]
        /\ victim' \in [Reqs -> VMs]
        /\ tries' \in [Reqs -> 0 .. Attempts - 1]
    BY <1>1, <1>2, <1>6 DEF TypeInv, TypeOK, VMs
  <1> QED
    BY <1>3, <1>6, <1>7, <1>8 DEF KillStart, TypeInv, TypeOK

\* A kill that goes on keeps its user and its victim.
LEMMA KillResumed ==
  ASSUME TypeInv, NEW r \in Reqs, pc[r] \in KillAwaits, victim[r] \in Reqs,
         UNCHANGED <<user, victim>>,
         NEW n \in 0 .. Attempts - 1, tries' = [tries EXCEPT ![r] = n],
         NEW label, KillLabel(r, label)
  PROVE  SentInv'
  BY DEF TypeInv, TypeOK, SentInv, Goto, KillLabel

LEMMA KillTapTypeInv ==
  ASSUME TypeInv, NEW r \in Reqs, KillTap(r)
  PROVE  TypeInv'
  <1>1. user[r] \in Users /\ victim[r] \in Reqs /\ pc[r] \in KillAwaits
    BY DEF KillTap, TypeInv, SentInv
  <1>2. routes \in SUBSET (Nat \X Users)
    BY DEF TypeInv, TypeOK
  <1>3. DeleteTap(r, user[r], victim[r], routes)
    BY DEF KillTap
  <1>4. /\ taps' \subseteq Users
        /\ routes' \subseteq Nat \X Users
        /\ nbd' \in [Devices -> VMs]
        /\ vmdir' \in [Users -> Dir]
        /\ microvms' \in [Users -> VMs]
        /\ \E n \in 0 .. Attempts - 1 : tries' = [tries EXCEPT ![r] = n]
        /\ \E label : KillLabel(r, label)
    BY <1>1, <1>2, <1>3, DeleteTapTyped
  <1>5. SentInv'
    BY <1>1, <1>4, KillResumed DEF KillTap
  <1>6. tries' \in [Reqs -> 0 .. Attempts - 1] /\ pc' \in [Reqs -> Labels]
    BY <1>4 DEF TypeInv, TypeOK, KillLabel, Goto
  <1> QED
    BY <1>4, <1>5, <1>6 DEF KillTap, TypeInv, TypeOK

LEMMA KillDirTypeInv ==
  ASSUME TypeInv, NEW r \in Reqs, KillDir(r) \/ KillDirAgain(r)
  PROVE  TypeInv'
  <1>1. user[r] \in Users /\ pc[r] \in {"killnbd", "killdir"}
    BY DEF KillDir, KillDirAgain, TypeInv, SentInv
  <1>2. RemoveDir(r, user[r])
    BY DEF KillDir, KillDirAgain
  <1>3. /\ vmdir' \in [Users -> Dir]
        /\ microvms' \in [Users -> VMs]
        /\ \E label : KillLabel(r, label)
    BY <1>1, <1>2, RemoveDirTyped
  <1>4. \E n \in 0 .. Attempts - 1 : tries' = [tries EXCEPT ![r] = n]
    <2>1. CASE KillDir(r)
      BY <2>1 DEF KillDir, TypeInv, TypeOK
    <2>2. CASE KillDirAgain(r)
      <3>1. tries[r] + 1 \in 0 .. Attempts - 1
        BY <2>2 DEF KillDirAgain, TypeInv, TypeOK, SentInv
      <3> QED
        BY <2>2, <3>1 DEF KillDirAgain
    <2> QED
      BY <2>1, <2>2
  <1>5. PICK label : KillLabel(r, label)
    BY <1>3
  <1>6. label # "killtap"
    BY <1>2, <1>5 DEF RemoveDir, KillLabel, Goto, TypeInv, TypeOK
  <1>7. UNCHANGED <<user, victim>>
    BY DEF KillDir, KillDirAgain
  <1>8. SentInv'
    BY <1>1, <1>4, <1>5, <1>6, <1>7 DEF TypeInv, TypeOK, SentInv, Goto, KillLabel
  <1>9. tries' \in [Reqs -> 0 .. Attempts - 1] /\ pc' \in [Reqs -> Labels]
    BY <1>4, <1>5 DEF TypeInv, TypeOK, KillLabel, Goto
  <1> QED
    BY <1>3, <1>7, <1>8, <1>9 DEF KillDir, KillDirAgain, TypeInv, TypeOK

-----------------------------------------------------------------------------
(* The other steps, and the theorem.                                       *)

LEMMA ArriveTypeInv ==
  ASSUME TypeInv, NEW r \in Reqs, NEW u \in Users, Arrive(r, u)
  PROVE  TypeInv'
  <1>1. CASE AlreadyExists(r, u)
    <2>1. pc' \in [Reqs -> Labels] /\ user' \in [Reqs -> Users \union {NoUser}] /\ SentInv'
      BY <1>1, SendSent DEF AlreadyExists
    <2> QED
      BY <1>1, <2>1 DEF AlreadyExists, TypeInv, TypeOK
  <1>2. CASE NotFound(r, u)
    <2>1. pc' \in [Reqs -> Labels] /\ user' \in [Reqs -> Users \union {NoUser}] /\ SentInv'
      BY <1>2, SendSent DEF NotFound
    <2> QED
      BY <1>2, <2>1 DEF NotFound, TypeInv, TypeOK
  <1>3. CASE ForceKill(r, u)
    <2>1. pc' \in [Reqs -> Labels] /\ user' \in [Reqs -> Users \union {NoUser}] /\ SentInv'
      BY <1>3, SendSent DEF ForceKill
    <2>2. vmdir' \in [Users -> Dir]
      <3>1. vmdir \in [Users -> Dir]
        BY DEF TypeInv, TypeOK
      <3>2. PICK left \in {NoDir} \union Leftovers(u) :
              vmdir' = [vmdir EXCEPT ![u] = left]
        BY <1>3 DEF ForceKill
      <3> QED
        BY <3>1, <3>2, DirTyped
    <2>3. nbd' \in [Devices -> VMs] /\ runs' \in [Reqs -> VMs]
      BY <1>3 DEF ForceKill, TypeInv, TypeOK, VMs
    <2>4. taps' \subseteq Users /\ routes' \subseteq Nat \X Users
      BY <1>3 DEF ForceKill, RoutesWithout, TypeInv, TypeOK
    <2> QED
      BY <1>3, <2>1, <2>2, <2>3, <2>4 DEF ForceKill, TypeInv, TypeOK
  <1> QED
    BY <1>1, <1>2, <1>3, CreateStartTypeInv, KillStartTypeInv DEF Arrive

LEMMA ResumeTypeInv ==
  ASSUME TypeInv, NEW r \in Reqs, Resume(r)
  PROVE  TypeInv'
  <1>1. CASE TapAdd(r)
    <2>1. pc' \in [Reqs -> Labels] /\ SentInv'
      BY <1>1, GotoSent DEF TapAdd, local
    <2> QED
      BY <1>1, <2>1 DEF TapAdd, local, TypeInv, TypeOK, SentInv
  <1>2. CASE RouteAdd(r)
    <2>1. pc' \in [Reqs -> Labels] /\ SentInv'
      BY <1>2, GotoSent DEF RouteAdd, local
    <2>2. routes' \subseteq Nat \X Users
      BY <1>2 DEF RouteAdd, TypeInv, TypeOK, SentInv
    <2> QED
      BY <1>2, <2>1, <2>2 DEF RouteAdd, local, TypeInv, TypeOK
  <1>3. CASE NetworkFails(r) \/ LaunchFails(r)
    <2>1. pc' \in [Reqs -> Labels] /\ SentInv'
      BY <1>3, GotoSent DEF NetworkFails, LaunchFails, local
    <2> QED
      BY <1>3, <2>1 DEF NetworkFails, LaunchFails, local, TypeInv, TypeOK
  <1>4. CASE Launch(r)
    <2>1. pc' \in [Reqs -> Labels] /\ SentInv'
      BY <1>4, GotoSent DEF Launch, local
    <2>2. user[r] \in Users
      BY <1>4 DEF Launch, TypeInv, SentInv
    <2>3. vmdir' \in [Users -> Dir]
      <3>1. vmdir \in [Users -> Dir]
        BY DEF TypeInv, TypeOK
      <3>2. [vmdir EXCEPT ![user[r]].sock = TRUE] \in [Users -> Dir]
        BY <2>2, <3>1, DirTyped
      <3>3. vmdir' = vmdir \/ vmdir' = [vmdir EXCEPT ![user[r]].sock = TRUE]
        BY <1>4 DEF Launch
      <3> QED
        BY <3>1, <3>2, <3>3
    <2>4. vmdir[user[r]].config \in VMs
      BY <2>2 DEF TypeInv, TypeOK, Dir
    <2>5. runs' \in [Reqs -> VMs] /\ microvms' \in [Users -> VMs]
      BY <1>4, <2>2, <2>4 DEF Launch, TypeInv, TypeOK, VMs
    <2> QED
      BY <1>4, <2>1, <2>3, <2>5 DEF Launch, local, TypeInv, TypeOK
  <1>5. CASE EnvdReady(r) \/ FastApiReady(r)
    <2>1. pc' \in [Reqs -> Labels] /\ SentInv'
      BY <1>5, GotoSent DEF EnvdReady, FastApiReady, local
    <2> QED
      BY <1>5, <2>1 DEF EnvdReady, FastApiReady, local, TypeInv, TypeOK
  <1>6. CASE BootTimeout(r)
    <2>1. pc' \in [Reqs -> Labels] /\ SentInv'
      BY <1>6, GotoSent DEF BootTimeout, local
    <2> QED
      BY <1>6, <2>1 DEF BootTimeout, local, TypeInv, TypeOK, VMs
  <1> QED
    BY <1>1, <1>2, <1>3, <1>4, <1>5, <1>6, KillTapTypeInv, KillDirTypeInv DEF Resume

LEMMA EnvironmentTypeInv ==
  ASSUME TypeInv,
         Maintenance \/ (\E p \in Reqs : VmExits(p)) \/ HostRestart \/ HostReboot
  PROVE  TypeInv'
  <1>1. CASE Maintenance
    <2>1. PICK rs \in SUBSET OrphanRoutes, ts \in SUBSET OrphanTaps,
               ps \in SUBSET OrphanProcs, ds \in SUBSET OrphanDirs :
            \E es \in SUBSET (OrphanDirs \ ds) : Sweep(rs, ts, ps, ds, es)
      BY <1>1 DEF Maintenance
    <2>2. taps' \subseteq Users /\ routes' \subseteq Nat \X Users
      BY <2>1 DEF Sweep, RoutesWithout, TypeInv, TypeOK
    <2>3. runs' \in [Reqs -> VMs] /\ vmdir' \in [Users -> Dir]
      BY <2>1 DEF Sweep, TypeInv, TypeOK, VMs, Dir, NoDir, Emptied
    <2> QED
      BY <2>1, <2>2, <2>3 DEF Sweep, local, TypeInv, TypeOK, SentInv
  <1>2. ASSUME NEW p \in Reqs, VmExits(p) PROVE TypeInv'
    BY <1>2 DEF VmExits, local, TypeInv, TypeOK, SentInv, VMs
  <1>3. ASSUME NEW ts, NEW rs, Restart(ts, rs), ts \subseteq taps, rs \subseteq routes
        PROVE TypeInv'
    <2>1. pc' \in [Reqs -> Labels]
      BY <1>3 DEF Restart, TypeInv, TypeOK
    <2>2. taps' \subseteq Users /\ routes' \subseteq Nat \X Users /\ restarts' \in 0 .. MaxRestarts
      BY <1>3 DEF Restart, TypeInv, TypeOK
    <2>3. /\ microvms' \in [Users -> VMs] /\ nbd' \in [Devices -> VMs]
          /\ runs' \in [Reqs -> VMs] /\ ip' \in [Reqs -> Nat] /\ nextIp' \in Nat
      BY <1>3 DEF Restart, VMs
    <2>4. SentInv'
      BY <1>3 DEF Restart, TypeInv, TypeOK, SentInv
    <2> QED
      BY <1>3, <2>1, <2>2, <2>3, <2>4 DEF Restart, TypeInv, TypeOK
  <1> QED
    BY <1>1, <1>2, <1>3 DEF HostRestart, HostReboot

LEMMA NextTypeInv == TypeInv /\ [Next]_vars => TypeInv'
  <1> SUFFICES ASSUME TypeInv, [Next]_vars PROVE TypeInv'
    OBVIOUS
  <1>1. CASE UNCHANGED vars
    BY <1>1 DEF vars, TypeInv, TypeOK, SentInv
  <1> QED
    BY <1>1, ArriveTypeInv, ResumeTypeInv, EnvironmentTypeInv DEF Next

\* Every variable of the host keeps its type, and a kill's retry loops stop at
\* their bound, for any number of users, requests, devices and restarts.
THEOREM TypeCorrect == Spec => []TypeOK
  <1>1. TypeInv => TypeOK
    BY DEF TypeInv
  <1> QED
    BY <1>1, InitTypeInv, NextTypeInv, PTL DEF Spec

-----------------------------------------------------------------------------
(* Addresses.                                                              *)

Booting == {"tap", "route", "launch"}

\* Addresses given out since the last restart are below the counter, distinct.
CounterInv ==
  /\ nextIp > 0
  /\ \A r \in Reqs : ip[r] < nextIp
  /\ \A r, q \in Reqs : r # q /\ ip[r] = ip[q] => ip[r] = 0

\* A config file in a user's directory was written by a create of that user.
\* The one a request about to launch finds is no older than the restart: it
\* is its own or that of a later create, whatever happened to the directory.
ConfigInv ==
  /\ \A u \in Users :
       vmdir[u].config # NoReq =>
         user[vmdir[u].config] = u /\ pc[vmdir[u].config] # "idle"
  /\ \A p \in Reqs :
       pc[p] \in Booting /\ vmdir[user[p]].config # NoReq =>
         ip[vmdir[user[p]].config] # 0

\* No two processes run the same config: the first one leaves its socket file
\* next to it, and a create that removes the socket writes a new config.
RunInv ==
  /\ \A p \in Reqs : Alive(p) => ip[runs[p]] # 0 /\ pc[runs[p]] # "idle"
  /\ \A p, q \in Reqs : p # q /\ Alive(p) => runs[p] # runs[q]
  /\ \A p \in Reqs, u \in Users :
       Alive(p) /\ vmdir[u].config = runs[p] => vmdir[u].sock

AddressInv == CounterInv /\ ConfigInv /\ RunInv

LEMMA InitAddressInv == Init => AddressInv
  BY DEF Init, AddressInv, CounterInv, ConfigInv, RunInv, Alive, NoDir, Booting

LEMMA AddressesUnique == TypeInv /\ AddressInv => UniqueAddresses
  <1> SUFFICES ASSUME TypeInv, AddressInv, NEW p \in Reqs, NEW q \in Reqs,
                      p # q, Alive(p), Alive(q)
               PROVE  ip[runs[p]] # ip[runs[q]]
    BY DEF UniqueAddresses
  <1>1. runs[p] \in Reqs /\ runs[q] \in Reqs /\ runs[p] # runs[q]
    BY DEF TypeInv, TypeOK, VMs, Alive, AddressInv, RunInv
  <1> QED
    BY <1>1 DEF AddressInv, RunInv, CounterInv

\* Most steps give out no address, start no process, write no config and start
\* no boot: processes end, directories go, requests move on.
Quiet ==
  /\ ip' = ip /\ nextIp' = nextIp
  /\ \A p \in Reqs : runs'[p] = runs[p] \/ runs'[p] = NoReq
  /\ \A u \in Users : vmdir'[u] = vmdir[u] \/ vmdir'[u] \in {NoDir, Emptied}
  /\ \A p \in Reqs : pc[p] # "idle" => pc'[p] # "idle" /\ user'[p] = user[p]
  /\ \A p \in Reqs : pc'[p] \in Booting => pc[p] \in Booting

LEMMA QuietAddressInv ==
  ASSUME TypeInv, AddressInv, Quiet
  PROVE  AddressInv'
  <1>1. CounterInv'
    BY DEF Quiet, AddressInv, CounterInv
  <1>2. ConfigInv'
    <2>1. ASSUME NEW u \in Users, vmdir'[u].config # NoReq
          PROVE  user'[vmdir'[u].config] = u /\ pc'[vmdir'[u].config] # "idle"
      <3>1. vmdir'[u] = vmdir[u]
        BY <2>1 DEF Quiet, NoDir, Emptied
      <3>2. vmdir[u].config \in Reqs
        BY <2>1, <3>1 DEF TypeInv, TypeOK, Dir, VMs
      <3> QED
        BY <2>1, <3>1, <3>2 DEF Quiet, AddressInv, ConfigInv
    <2>2. ASSUME NEW p \in Reqs, pc'[p] \in Booting, vmdir'[user'[p]].config # NoReq
          PROVE  ip'[vmdir'[user'[p]].config] # 0
      <3>1. pc[p] \in Booting /\ user'[p] = user[p] /\ user[p] \in Users
        BY <2>2 DEF Quiet, Booting, TypeInv, SentInv
      <3>2. vmdir'[user[p]] = vmdir[user[p]]
        BY <2>2, <3>1 DEF Quiet, NoDir, Emptied
      <3> QED
        BY <2>2, <3>1, <3>2 DEF Quiet, AddressInv, ConfigInv
    <2> QED
      BY <2>1, <2>2 DEF ConfigInv
  <1>3. RunInv'
    <2>1. \A p \in Reqs : Alive(p)' => Alive(p) /\ runs'[p] = runs[p] /\ runs[p] \in Reqs
      BY DEF Quiet, Alive, TypeInv, TypeOK, VMs
    <2>2. \A p \in Reqs : Alive(p)' => ip'[runs'[p]] # 0 /\ pc'[runs'[p]] # "idle"
      BY <2>1 DEF Quiet, AddressInv, RunInv
    <2>3. \A p, q \in Reqs : p # q /\ Alive(p)' => runs'[p] # runs'[q]
      BY <2>1 DEF Quiet, AddressInv, RunInv
    <2>4. \A p \in Reqs, u \in Users :
            Alive(p)' /\ vmdir'[u].config = runs'[p] => vmdir'[u].sock
      BY <2>1 DEF Quiet, NoDir, Emptied, AddressInv, RunInv, Alive
    <2> QED
      BY <2>2, <2>3, <2>4 DEF RunInv
  <1> QED
    BY <1>1, <1>2, <1>3 DEF AddressInv

\* A create spends an address, and writes a config only over a new image.
LEMMA CreateStartAddressInv ==
  ASSUME TypeInv, AddressInv, NEW r \in Reqs, NEW u \in Users, CreateStart(r, u)
  PROVE  AddressInv'
  <1>1. pc[r] = "idle" /\ user' = [user EXCEPT ![r] = u] /\ runs' = runs
    BY DEF CreateStart, Send
  <1>2. ip' = [ip EXCEPT ![r] = nextIp] /\ nextIp' = nextIp + 1
    BY DEF CreateStart, AllocateIp
  <1>3. \/ pc' = [pc EXCEPT ![r] = "failed"] /\ vmdir'[u].config = vmdir[u].config
           /\ vmdir'[u].sock = vmdir[u].sock
        \/ pc' = [pc EXCEPT ![r] = "failed"] /\ vmdir'[u].config = NoReq
        \/ pc' = [pc EXCEPT ![r] = "tap"] /\ vmdir'[u].config = r
    BY DEF CreateStart, ImageFails, NbdFails, ConfigFails, NbdConnected, Connect, Goto, TypeInv, TypeOK, Dir
  <1>4. \A w \in Users : w # u => vmdir'[w] = vmdir[w]
    BY DEF CreateStart, ImageFails, NbdFails, ConfigFails, NbdConnected, Connect, TypeInv, TypeOK
  <1>5. CounterInv'
    BY <1>2 DEF AddressInv, CounterInv, TypeInv, TypeOK
  <1>6. ConfigInv'
    <2>1. ASSUME NEW w \in Users, vmdir'[w].config # NoReq
          PROVE  user'[vmdir'[w].config] = w /\ pc'[vmdir'[w].config] # "idle"
      <3>1. CASE vmdir'[w].config = r /\ w = u
        BY <1>1, <1>3, <3>1 DEF TypeInv, TypeOK
      <3>2. CASE vmdir'[w].config = vmdir[w].config
        <4>1. vmdir[w].config \in Reqs /\ vmdir[w].config # r
          BY <1>1, <2>1, <3>2 DEF TypeInv, TypeOK, Dir, VMs, AddressInv, ConfigInv
        <4> QED
          BY <1>1, <1>3, <2>1, <3>2, <4>1 DEF AddressInv, ConfigInv, TypeInv, TypeOK
      <3> QED
        BY <1>3, <1>4, <2>1, <3>1, <3>2
    <2>2. ASSUME NEW p \in Reqs, pc'[p] \in Booting, vmdir'[user'[p]].config # NoReq
          PROVE  ip'[vmdir'[user'[p]].config] # 0
      <3>1. \/ p = r
            \/ pc[p] \in Booting /\ user'[p] = user[p] /\ user[p] \in Users
        <4>1. CASE p = r
          BY <4>1
        <4>2. CASE p # r
          <5>1. pc'[p] = pc[p] /\ user'[p] = user[p]
            BY <1>1, <1>3, <4>2 DEF TypeInv, TypeOK
          <5> QED
            BY <2>2, <5>1 DEF Booting, TypeInv, SentInv
        <4> QED
          BY <4>1, <4>2
      <3>2. nextIp # 0 /\ ip'[r] = nextIp
        BY <1>2 DEF AddressInv, CounterInv, TypeInv, TypeOK
      <3>3. CASE vmdir'[user'[p]].config = r
        BY <3>2, <3>3
      <3>4. CASE vmdir'[user'[p]].config # r
        <4>1. user'[p] \in Users
          BY <1>1, <3>1 DEF TypeInv, TypeOK
        <4>2. vmdir'[user'[p]].config = vmdir[user'[p]].config
          BY <1>3, <1>4, <2>2, <3>4, <4>1
        <4>3. p # r
          BY <1>1, <1>3, <2>2, <3>4 DEF Booting, TypeInv, TypeOK
        <4>4. vmdir[user[p]].config \in Reqs
          BY <2>2, <3>1, <4>2, <4>3 DEF TypeInv, TypeOK, Dir, VMs
        <4> QED
          BY <1>2, <2>2, <3>1, <3>4, <4>2, <4>3, <4>4
             DEF AddressInv, ConfigInv, TypeInv, TypeOK
      <3> QED
        BY <3>3, <3>4
    <2> QED
      BY <2>1, <2>2 DEF ConfigInv
  <1>7. RunInv'
    <2>1. \A p \in Reqs : Alive(p) => runs[p] \in Reqs /\ runs[p] # r
      BY <1>1 DEF Alive, TypeInv, TypeOK, VMs, AddressInv, RunInv
    <2>2. \A p \in Reqs : Alive(p)' => ip'[runs'[p]] # 0 /\ pc'[runs'[p]] # "idle"
      BY <1>1, <1>2, <1>3, <2>1 DEF Alive, AddressInv, RunInv, TypeInv, TypeOK
    <2>3. \A p, q \in Reqs : p # q /\ Alive(p)' => runs'[p] # runs'[q]
      BY <1>1 DEF Alive, AddressInv, RunInv
    <2>4. \A p \in Reqs, w \in Users :
            Alive(p)' /\ vmdir'[w].config = runs'[p] => vmdir'[w].sock
      BY <1>1, <1>3, <1>4, <2>1 DEF Alive, AddressInv, RunInv
    <2> QED
      BY <2>2, <2>3, <2>4 DEF RunInv
  <1> QED
    BY <1>5, <1>6, <1>7 DEF AddressInv

\* A process starts on the config it finds, if nobody's socket is there.
LEMMA LaunchAddressInv ==
  ASSUME TypeInv, AddressInv, NEW r \in Reqs, Launch(r)
  PROVE  AddressInv'
  <1> DEFINE u == user[r]
  <1>1. u \in Users /\ pc[r] = "launch" /\ UNCHANGED <<ip, nextIp, user>>
    BY DEF Launch, local, TypeInv, SentInv
  <1>2. pc' = [pc EXCEPT ![r] = "envd"]
    BY DEF Launch, Goto
  <1>3. \A w \in Users : /\ vmdir'[w].config = vmdir[w].config
                         /\ vmdir[w].sock => vmdir'[w].sock
    BY <1>1 DEF Launch, TypeInv, TypeOK, Dir
  <1>4. CounterInv'
    BY <1>1 DEF AddressInv, CounterInv
  <1>5. ConfigInv'
    <2>1. \A w \in Users : vmdir[w].config # NoReq => vmdir[w].config \in Reqs
      BY DEF TypeInv, TypeOK, Dir, VMs
    <2>2. \A p \in Reqs : pc'[p] # "idle" <=> pc[p] # "idle"
      BY <1>1, <1>2 DEF TypeInv, TypeOK
    <2>3. \A p \in Reqs : pc'[p] \in Booting => pc[p] \in Booting /\ user[p] \in Users
      BY <1>2 DEF Booting, TypeInv, TypeOK, SentInv
    <2> QED
      BY <1>1, <1>3, <2>1, <2>2, <2>3 DEF AddressInv, ConfigInv
  <1>6. RunInv'
    <2>1. CASE ~Boots(u)
      <3>1. runs' = runs /\ vmdir' = vmdir
        BY <2>1 DEF Launch
      <3>2. \A p \in Reqs : Alive(p) => runs[p] \in Reqs
        BY DEF Alive, TypeInv, TypeOK, VMs
      <3> QED
        BY <1>1, <1>2, <3>1, <3>2 DEF AddressInv, RunInv, Alive, TypeInv, TypeOK
    <2>2. CASE Boots(u)
      <3> DEFINE c == vmdir[u].config
      <3>1. c \in Reqs /\ ~vmdir[u].sock /\ user[c] = u /\ pc[c] # "idle" /\ ip[c] # 0
        BY <1>1, <2>2 DEF Boots, TypeInv, TypeOK, Dir, VMs, AddressInv, ConfigInv, Booting
      <3>2. runs' = [runs EXCEPT ![r] = c] /\ vmdir'[u].sock
        BY <1>1, <2>2 DEF Launch, TypeInv, TypeOK, Dir
      <3>3. \A p \in Reqs : Alive(p) => runs[p] # c
        BY <1>1, <3>1 DEF AddressInv, RunInv
      <3>4. \A p \in Reqs : Alive(p)' =>
              \/ p = r /\ runs'[p] = c
              \/ Alive(p) /\ runs'[p] = runs[p] /\ runs[p] \in Reqs
        BY <3>2 DEF Alive, TypeInv, TypeOK, VMs
      <3>5. \A p \in Reqs : Alive(p)' => ip'[runs'[p]] # 0 /\ pc'[runs'[p]] # "idle"
        <4>1. \A p \in Reqs : pc[p] # "idle" => pc'[p] # "idle"
          BY <1>2 DEF TypeInv, TypeOK
        <4> SUFFICES ASSUME NEW p \in Reqs, Alive(p)'
                     PROVE  ip'[runs'[p]] # 0 /\ pc'[runs'[p]] # "idle"
          OBVIOUS
        <4>2. CASE runs'[p] = c
          BY <1>1, <3>1, <4>1, <4>2
        <4>3. CASE Alive(p) /\ runs'[p] = runs[p] /\ runs[p] \in Reqs
          BY <1>1, <4>1, <4>3 DEF AddressInv, RunInv
        <4> QED
          BY <3>4, <4>2, <4>3
      <3>6. \A p, q \in Reqs : p # q /\ Alive(p)' => runs'[p] # runs'[q]
        BY <3>1, <3>2, <3>3 DEF AddressInv, RunInv, Alive, TypeInv, TypeOK
      <3>7. \A p \in Reqs, w \in Users :
              Alive(p)' /\ vmdir'[w].config = runs'[p] => vmdir'[w].sock
        <4> SUFFICES ASSUME NEW p \in Reqs, NEW w \in Users, Alive(p)',
                            vmdir'[w].config = runs'[p]
                     PROVE  vmdir'[w].sock
          OBVIOUS
        <4>1. CASE runs'[p] = c
          BY <1>1, <1>3, <3>1, <3>2, <4>1 DEF AddressInv, ConfigInv
        <4>2. CASE Alive(p) /\ runs'[p] = runs[p]
          BY <1>3, <4>2 DEF AddressInv, RunInv
        <4> QED
          BY <3>4, <4>1, <4>2
      <3> QED
        BY <3>5, <3>6, <3>7 DEF RunInv
    <2> QED
      BY <2>1, <2>2
  <1> QED
    BY <1>4, <1>5, <1>6 DEF AddressInv

LEMMA RestartAddressInv ==
  ASSUME TypeInv, AddressInv, NEW ts, NEW rs, Restart(ts, rs)
  PROVE  AddressInv'
  <1>1. CounterInv'
    BY DEF Restart, CounterInv
  <1>2. \A p \in Reqs : pc'[p] \notin Booting /\ (pc[p] # "idle" => pc'[p] # "idle")
    BY DEF Restart, Booting, TypeInv, TypeOK
  <1>3. \A u \in Users : vmdir[u].config # NoReq => vmdir[u].config \in Reqs
    BY DEF TypeInv, TypeOK, Dir, VMs
  <1>4. ConfigInv'
    BY <1>2, <1>3 DEF Restart, AddressInv, ConfigInv
  <1>5. RunInv'
    BY DEF Restart, RunInv, Alive
  <1> QED
    BY <1>1, <1>4, <1>5 DEF AddressInv

LEMMA KillQuiet ==
  ASSUME TypeInv, NEW r \in Reqs, NEW u \in Users,
         \/ KillStart(r, u)
         \/ KillTap(r) \/ KillDir(r) \/ KillDirAgain(r)
  PROVE  Quiet
  <1>1. user' = user \/ (pc[r] = "idle" /\ user' = [user EXCEPT ![r] = u])
    BY DEF KillStart, KillTap, KillDir, KillDirAgain, Send
  <1>2. \E label \in KillAwaits \union {"killed", "error"} : Goto(r, label)
    BY DEF KillStart, KillTap, KillDir, KillDirAgain, DeleteTap, DetachNbd, RemoveDir
  <1>3. /\ \A p \in Reqs : pc[p] # "idle" => pc'[p] # "idle" /\ user'[p] = user[p]
        /\ \A p \in Reqs : pc'[p] \in Booting => pc[p] \in Booting
    BY <1>1, <1>2 DEF Goto, TypeInv, TypeOK, Booting
  <1>4. \A p \in Reqs : runs'[p] = runs[p] \/ runs'[p] = NoReq
    BY DEF KillStart, KillTap, KillDir, KillDirAgain, TypeInv, TypeOK
  <1>5. \/ vmdir' = vmdir
        \/ \E w \in Users \union {user[r]} :
             \E left \in {vmdir[w], NoDir, Emptied} : vmdir' = [vmdir EXCEPT ![w] = left]
    BY DEF KillStart, KillTap, KillDir, KillDirAgain, DeleteTap, DetachNbd, RemoveDir,
           Leftovers
  <1>6. \A w \in Users : vmdir'[w] = vmdir[w] \/ vmdir'[w] \in {NoDir, Emptied}
    BY <1>5 DEF TypeInv, TypeOK
  <1>7. ip' = ip /\ nextIp' = nextIp
    BY DEF KillStart, KillTap, KillDir, KillDirAgain
  <1> QED
    BY <1>3, <1>4, <1>6, <1>7 DEF Quiet

LEMMA ArriveAddressInv ==
  ASSUME TypeInv, AddressInv, NEW r \in Reqs, NEW u \in Users, Arrive(r, u)
  PROVE  AddressInv'
  <1>1. CASE AlreadyExists(r, u) \/ NotFound(r, u)
    <2>1. Quiet
      BY <1>1 DEF AlreadyExists, NotFound, Send, Goto, Quiet, Booting, TypeInv, TypeOK
    <2> QED
      BY <2>1, QuietAddressInv
  <1>2. CASE ForceKill(r, u)
    <2>1. Quiet
      BY <1>2 DEF ForceKill, Send, Goto, Quiet, Leftovers, Booting, TypeInv, TypeOK
    <2> QED
      BY <2>1, QuietAddressInv
  <1>3. CASE KillStart(r, u)
    BY <1>3, KillQuiet, QuietAddressInv
  <1> QED
    BY <1>1, <1>2, <1>3, CreateStartAddressInv DEF Arrive

LEMMA ResumeAddressInv ==
  ASSUME TypeInv, AddressInv, NEW r \in Reqs, Resume(r)
  PROVE  AddressInv'
  <1>1. CASE \/ TapAdd(r) \/ RouteAdd(r) \/ NetworkFails(r) \/ LaunchFails(r)
             \/ EnvdReady(r) \/ FastApiReady(r) \/ BootTimeout(r)
    <2>1. UNCHANGED <<ip, nextIp, user, vmdir>>
      BY <1>1 DEF TapAdd, RouteAdd, NetworkFails, LaunchFails, EnvdReady,
         FastApiReady, BootTimeout, local
    <2>2. \A p \in Reqs : runs'[p] = runs[p] \/ runs'[p] = NoReq
      BY <1>1 DEF TapAdd, RouteAdd, NetworkFails, LaunchFails, EnvdReady,
         FastApiReady, BootTimeout, TypeInv, TypeOK
    <2>3. /\ \A p \in Reqs : pc[p] # "idle" => pc'[p] # "idle"
          /\ \A p \in Reqs : pc'[p] \in Booting => pc[p] \in Booting
      BY <1>1 DEF TapAdd, RouteAdd, NetworkFails, LaunchFails, EnvdReady,
         FastApiReady, BootTimeout, Goto, Booting, TypeInv, TypeOK
    <2> QED
      BY <2>1, <2>2, <2>3, QuietAddressInv DEF Quiet
  <1>2. CASE KillTap(r) \/ KillDir(r) \/ KillDirAgain(r)
    <2>1. user[r] \in Users
      BY <1>2 DEF KillTap, KillDir, KillDirAgain, TypeInv, SentInv
    <2> QED
      BY <1>2, <2>1, KillQuiet, QuietAddressInv
  <1> QED
    BY <1>1, <1>2, LaunchAddressInv DEF Resume

LEMMA NextAddressInv == TypeInv /\ AddressInv /\ [Next]_vars => AddressInv'
  <1> SUFFICES ASSUME TypeInv, AddressInv, [Next]_vars PROVE AddressInv'
    OBVIOUS
  <1>1. CASE Maintenance
    <2>1. Quiet
      BY <1>1 DEF Maintenance, Sweep, local, Quiet
    <2> QED
      BY <2>1, QuietAddressInv
  <1>2. ASSUME NEW p \in Reqs, VmExits(p) PROVE AddressInv'
    <2>1. Quiet
      BY <1>2 DEF VmExits, local, Quiet, TypeInv, TypeOK
    <2> QED
      BY <2>1, QuietAddressInv
  <1>3. CASE UNCHANGED vars
    <2>1. Quiet
      BY <1>3 DEF vars, Quiet
    <2> QED
      BY <2>1, QuietAddressInv
  <1> QED
    BY <1>1, <1>2, <1>3, ArriveAddressInv, ResumeAddressInv, RestartAddressInv
       DEF Next, HostRestart, HostReboot

\* No two live microVMs ever have the same address: whatever the workload, the
\* overlap of creates and kills, the sweeps and the restarts of the counter.
THEOREM AddressesStayUnique == Spec => []UniqueAddresses
  BY InitTypeInv, NextTypeInv, InitAddressInv, NextAddressInv, AddressesUnique,
     PTL DEF Spec

====
