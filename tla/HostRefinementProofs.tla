---- MODULE HostRefinementProofs ----
(***************************************************************************)
(* The host keeps the promise of Sandbox to clients that wait for their    *)
(* answers, for any number of users, requests and devices, over sweeps,    *)
(* guests that stop and restarts of the service.                           *)
(***************************************************************************)
EXTENDS HostSerialProofs, FiniteSetTheorems

USE NoReqAssumption, NbdAssumption, IpAssumption, LimitAssumption
USE DEF Labels, InFlight, CreateAwaits, KillAwaits, Answers, Released, Booting

\* A create that waits for its boot still has its entry.
LaunchedInv ==
  \A r \in Reqs : pc[r] \in {"envd", "fastapi"} => microvms[user[r]] = r

\* A request not sent has no victim, and so far finitely many kills had one.
KillsInv ==
  /\ \A r \in Reqs : pc[r] = "idle" => victim[r] = NoReq
  /\ \A u \in Users : IsFiniteSet(KillsOf(u))

RefinementInv == TypeInv /\ AddressInv /\ SerialInv /\ LaunchedInv /\ KillsInv

Killing(u) == \E k \in Reqs : user[k] = u /\ pc[k] \in KillAwaits

\* For these clients u's agent is never "broken", and Sandbox's view of it is
\* that of four variables.
PlainState(u) ==
  IF microvms[u] = NoReq \/ pc[microvms[u]] # "created" THEN "none"
  ELSE IF Killing(u) THEN "ending"
  ELSE IF Alive(microvms[u]) THEN "up" ELSE "exited"

PlainView == \A u \in Users : AgentState(u) = PlainState(u)

LEMMA AgentsArePlain ==
  ASSUME RefinementInv
  PROVE  PlainView
<1> SUFFICES ASSUME NEW u \in Users, microvms[u] # NoReq, pc[microvms[u]] = "created"
             PROVE  AgentState(u) = PlainState(u)
  BY DEF PlainView, AgentState, PlainState
<1> DEFINE r == microvms[u]
<1>1. r \in Reqs /\ user[r] = u
  BY DEF RefinementInv, TypeInv, TypeOK, VMs, SerialInv, EntryInv
<1>2. Busy(u) <=> Killing(u)
  <2>1. ASSUME NEW q \in Reqs, user[q] = u, pc[q] \in CreateAwaits
        PROVE  FALSE
    <3>1. CASE pc[q] \in Booting
      BY <2>1, <3>1 DEF RefinementInv, SerialInv, EntryInv
    <3>2. CASE pc[q] \in {"envd", "fastapi"}
      BY <2>1, <3>2 DEF RefinementInv, LaunchedInv
    <3> QED
      BY <2>1, <3>1, <3>2
  <2> QED
    BY <2>1 DEF Busy, InProgress, Awaits, Killing
<1>3. Alive(r) => Intact(r) /\ vmdir[u].image = r
  BY <1>1, SerialIntact DEF RefinementInv, RunningVmIntact
<1> QED
  BY <1>2, <1>3 DEF AgentState, PlainState

-----------------------------------------------------------------------------
(* The steps, as far as Sandbox can tell them apart.                       *)

\* A request arrives and is answered, or waits in a create.
Comes(r, u) ==
  /\ pc[r] = "idle" /\ user' = [user EXCEPT ![r] = u]
  /\ \E label \in {"exists", "notfound", "failed", "tap"} : Goto(r, label)
  /\ UNCHANGED <<microvms, runs, victim, restarts>>

\* A create goes on, or fails, unannounced.
GoesOn(r) ==
  /\ \E label \in CreateAwaits \union {"failed"} :
       /\ Goto(r, label)
       /\ label \in {"envd", "fastapi"} => pc[r] \in {"envd", "fastapi"}
  /\ pc[r] \in CreateAwaits
  /\ \A p \in Reqs : p # r => runs'[p] = runs[p]
  /\ UNCHANGED <<microvms, user, victim, restarts>>

\* Nobody tracked stops.
Sweeps ==
  /\ \A p \in Reqs : Alive(p)' <=> Alive(p)
  /\ UNCHANGED <<microvms, pc, user, victim, restarts>>

\* A kill of u's entry v arrives or goes on.
KillStep(r, u, v) ==
  /\ \/ pc[r] = "idle" /\ user' = [user EXCEPT ![r] = u]
        /\ victim' = [victim EXCEPT ![r] = v]
     \/ pc[r] \in KillAwaits /\ user[r] = u /\ UNCHANGED <<user, victim>>
  /\ v \in Reqs /\ microvms[u] = v /\ user[v] = u /\ v # r
  /\ \A q \in Reqs : q # r /\ user[q] = u => pc[q] \notin InFlight
  /\ \A p \in Reqs : p # v => runs'[p] = runs[p]
  /\ \/ \E label \in KillAwaits : Goto(r, label) /\ microvms' = microvms
     \/ Goto(r, "killed") /\ microvms' = [microvms EXCEPT ![u] = NoReq]
  /\ restarts' = restarts

KillGoes(r, u) == \E v \in Reqs : KillStep(r, u, v)

LEMMA StepKinds ==
  ASSUME Patient, RefinementInv, [Next]_vars
  PROVE  \/ \E r \in Reqs, u \in Users : Comes(r, u)
         \/ \E r \in Reqs : GoesOn(r) \/ Launch(r) \/ FastApiReady(r)
         \/ \E r \in Reqs, u \in Users : KillGoes(r, u)
         \/ Sweeps
         \/ \E p \in Reqs : VmExits(p)
         \/ HostRestart \/ HostReboot
<1> USE DEF local
<1>1. TypeInv /\ SerialInv /\ AddressInv
  BY DEF RefinementInv
<1>2. ASSUME NEW r \in Reqs, NEW u \in Users, Arrive(r, u)
      PROVE  Comes(r, u) \/ KillGoes(r, u)
  <2>1. CASE AlreadyExists(r, u) \/ NotFound(r, u)
    BY <2>1 DEF AlreadyExists, NotFound, Send, Comes
  <2>2. CASE CreateStart(r, u)
    BY <2>2 DEF CreateStart, Send, ImageFails, NbdFails, ConfigFails, NbdConnected, Comes
  <2>3. CASE ForceKill(r, u)
    BY <1>1, <2>3, SendAlone DEF ForceKill
  <2>4. CASE KillStart(r, u)
    <3> DEFINE v == microvms[u]
    <3>1. /\ v \in Reqs /\ user[v] = u /\ v # r /\ pc[r] = "idle"
          /\ \A q \in Reqs : q # r /\ user[q] = u => pc[q] \notin InFlight
      BY <1>1, <2>4, KillStartMoves
    <3>2. PICK label : KillMove(r, u, v, label)
      BY <1>1, <2>4, KillStartMoves
    <3>3. /\ user' = [user EXCEPT ![r] = u] /\ victim' = [victim EXCEPT ![r] = v]
          /\ restarts' = restarts /\ runs' = [runs EXCEPT ![v] = NoReq]
      BY <2>4 DEF KillStart, Send
    <3>4. \A p \in Reqs : p # v => runs'[p] = runs[p]
      BY <1>1, <3>3 DEF TypeInv, TypeOK
    <3>5. KillStep(r, u, v)
      BY <3>1, <3>2, <3>3, <3>4 DEF KillMove, KillStep
    <3> QED
      BY <3>1, <3>5 DEF KillGoes
  <2> QED
    BY <1>2, <2>1, <2>2, <2>3, <2>4 DEF Arrive
<1>3. ASSUME NEW r \in Reqs, Resume(r)
      PROVE  \/ GoesOn(r) \/ Launch(r) \/ FastApiReady(r)
             \/ \E u \in Users : KillGoes(r, u)
  <2>1. CASE TapAdd(r) \/ RouteAdd(r) \/ NetworkFails(r) \/ LaunchFails(r) \/ EnvdReady(r)
    BY <2>1 DEF TapAdd, RouteAdd, NetworkFails, LaunchFails, EnvdReady, GoesOn
  <2>2. CASE BootTimeout(r)
    BY <1>1, <2>2 DEF BootTimeout, GoesOn, TypeInv, TypeOK
  <2>3. CASE KillTap(r) \/ KillDir(r) \/ KillDirAgain(r)
    <3> DEFINE u == user[r]
               v == victim[r]
    <3>1. pc[r] \in KillAwaits
      BY <1>1, <2>3, KillResumeMoves
    <3>2. PICK label : KillMove(r, u, v, label)
      BY <1>1, <2>3, KillResumeMoves
    <3>3. /\ u \in Users /\ v = microvms[u] /\ v \in Reqs /\ user[v] = u /\ v # r
          /\ \A q \in Reqs : q # r /\ user[q] = u => pc[q] \notin InFlight
      BY <1>1, <3>1, KillResumes
    <3>4. UNCHANGED <<user, victim, runs, restarts>>
      BY <2>3 DEF KillTap, KillDir, KillDirAgain
    <3>5. KillStep(r, u, v)
      BY <3>1, <3>2, <3>3, <3>4 DEF KillMove, KillStep
    <3> QED
      BY <3>3, <3>5 DEF KillGoes
  <2> QED
    BY <1>3, <2>1, <2>2, <2>3 DEF Resume
<1>4. CASE Maintenance
  <2>1. OrphanProcs = {}
    <3>1. ASSUME NEW p \in Reqs, Alive(p) PROVE p \in TrackedVMs
      BY <1>1, <3>1 DEF SerialInv, AliveInv, TrackedVMs, Tracked
    <3> QED
      BY <3>1 DEF OrphanProcs
  <2>2. /\ \A p \in Reqs : runs'[p] = runs[p]
        /\ UNCHANGED <<microvms, pc, user, victim, restarts>>
    BY <1>4, <2>1 DEF Maintenance, Sweep
  <2> QED
    BY <2>2 DEF Sweeps, Alive
<1>5. CASE UNCHANGED vars
  BY <1>5 DEF vars, Sweeps, Alive
<1> QED
  BY <1>2, <1>3, <1>4, <1>5 DEF Next

-----------------------------------------------------------------------------
(* The invariant.                                                          *)

LEMMA InitRefinementInv == Init => RefinementInv
<1> SUFFICES ASSUME Init
             PROVE  RefinementInv
  OBVIOUS
<1>1. LaunchedInv
  BY DEF Init, LaunchedInv
<1>2. \A u \in Users : KillsOf(u) = {}
  BY DEF Init, KillsOf
<1>3. KillsInv
  BY <1>2, FS_EmptySet DEF Init, KillsInv
<1> QED
  BY <1>1, <1>3, InitTypeInv, InitAddressInv, InitSerialInv DEF RefinementInv

LEMMA NextLaunchedInv ==
  ASSUME Patient, RefinementInv, [Next]_vars
  PROVE  LaunchedInv'
<1> USE DEF RefinementInv, LaunchedInv, Goto, TypeInv, TypeOK
<1>1. ASSUME NEW r \in Reqs, NEW u \in Users, Comes(r, u)
      PROVE  LaunchedInv'
  BY <1>1 DEF Comes
<1>2. ASSUME NEW r \in Reqs, GoesOn(r) \/ FastApiReady(r)
      PROVE  LaunchedInv'
  BY <1>2 DEF GoesOn, FastApiReady, local
<1>3. ASSUME NEW r \in Reqs, Launch(r)
      PROVE  LaunchedInv'
  <2>1. /\ pc[r] = "launch" /\ user[r] \in Users /\ user' = user
        /\ microvms' = [microvms EXCEPT ![user[r]] = r]
        /\ pc' = [pc EXCEPT ![r] = "envd"]
    BY <1>3 DEF Launch, local, SentInv
  <2>2. \A q \in Reqs : q # r /\ pc[q] \in InFlight => user[q] # user[r]
    BY <2>1 DEF SerialInv, OneAtATime
  <2> QED
    BY <2>1, <2>2
<1>4. ASSUME NEW r \in Reqs, NEW u \in Users, KillGoes(r, u)
      PROVE  LaunchedInv'
  <2>1. PICK v \in Reqs : KillStep(r, u, v)
    BY <1>4 DEF KillGoes
  <2>2. /\ pc'[r] \in KillAwaits \union {"killed"}
        /\ \A q \in Reqs : q # r => pc'[q] = pc[q] /\ user'[q] = user[q]
        /\ \A w \in Users : w # u => microvms'[w] = microvms[w]
        /\ \A q \in Reqs : q # r /\ user[q] = u => pc[q] \notin InFlight
    BY <2>1 DEF KillStep
  <2>3. ASSUME NEW q \in Reqs, pc'[q] \in {"envd", "fastapi"}
        PROVE  microvms'[user'[q]] = q
    <3>1. q # r /\ pc[q] \in {"envd", "fastapi"} /\ user'[q] = user[q]
      BY <2>2, <2>3
    <3>2. user[q] \in Users /\ user[q] # u
      BY <2>2, <3>1 DEF SentInv
    <3> QED
      BY <2>2, <3>1, <3>2
  <2> QED
    BY <2>3
<1>5. CASE Sweeps \/ \E p \in Reqs : VmExits(p)
  BY <1>5 DEF Sweeps, VmExits, local
<1>6. CASE HostRestart \/ HostReboot
  BY <1>6 DEF HostRestart, HostReboot, Restart
<1> QED
  BY <1>1, <1>2, <1>3, <1>4, <1>5, <1>6, StepKinds

\* A kill that arrives is one more of its user's.
LEMMA KillCounts ==
  ASSUME RefinementInv, NEW r \in Reqs, NEW u \in Users, KillGoes(r, u), pc[r] = "idle"
  PROVE  /\ \A q \in Reqs : pc'[q] = "idle" => victim'[q] = NoReq
         /\ \A w \in Users : w # u => KillsOf(w)' = KillsOf(w)
         /\ r \notin KillsOf(u)
         /\ KillsOf(u)' = KillsOf(u) \union {r}
<1> USE DEF RefinementInv, KillsInv, Goto, TypeInv, TypeOK
<1>1. PICK v \in Reqs : KillStep(r, u, v)
  BY DEF KillGoes
<1>2. /\ pc'[r] # "idle" /\ \A q \in Reqs : q # r => pc'[q] = pc[q]
      /\ user' = [user EXCEPT ![r] = u] /\ victim' = [victim EXCEPT ![r] = v]
  BY <1>1 DEF KillStep
<1> QED
  BY <1>2 DEF KillsOf

\* No other step counts as a kill.
LEMMA KillsChange ==
  ASSUME Patient, RefinementInv, [Next]_vars,
         \A r \in Reqs, u \in Users : KillGoes(r, u) => pc[r] # "idle"
  PROVE  /\ \A r \in Reqs : pc'[r] = "idle" => victim'[r] = NoReq
         /\ \A u \in Users : KillsOf(u)' = KillsOf(u)
<1> USE DEF RefinementInv, KillsInv, Goto, TypeInv, TypeOK
<1>1. CASE UNCHANGED <<user, victim>> /\ \A r \in Reqs : pc'[r] = "idle" => pc[r] = "idle"
  BY <1>1 DEF KillsOf
<1>2. ASSUME NEW r \in Reqs, NEW u \in Users, Comes(r, u)
      PROVE  /\ \A q \in Reqs : pc'[q] = "idle" => victim'[q] = NoReq
             /\ \A w \in Users : KillsOf(w)' = KillsOf(w)
  BY <1>2 DEF Comes, KillsOf
<1>3. ASSUME NEW r \in Reqs, GoesOn(r) \/ Launch(r) \/ FastApiReady(r)
      PROVE  UNCHANGED <<user, victim>> /\ \A q \in Reqs : pc'[q] = "idle" => pc[q] = "idle"
  BY <1>3 DEF GoesOn, Launch, FastApiReady, local
<1>4. ASSUME NEW r \in Reqs, NEW u \in Users, KillGoes(r, u)
      PROVE  UNCHANGED <<user, victim>> /\ \A q \in Reqs : pc'[q] = "idle" => pc[q] = "idle"
  <2>1. PICK v \in Reqs : KillStep(r, u, v)
    BY <1>4 DEF KillGoes
  <2> QED
    BY <1>4, <2>1 DEF KillStep
<1>5. CASE Sweeps \/ (\E p \in Reqs : VmExits(p)) \/ HostRestart \/ HostReboot
  BY <1>1, <1>5 DEF Sweeps, VmExits, HostRestart, HostReboot, Restart, local
<1> QED
  BY <1>1, <1>2, <1>3, <1>4, <1>5, StepKinds DEF KillsOf

LEMMA NextKillsInv ==
  ASSUME Patient, RefinementInv, [Next]_vars
  PROVE  KillsInv'
<1>1. CASE \A r \in Reqs, u \in Users : KillGoes(r, u) => pc[r] # "idle"
  BY <1>1, KillsChange DEF RefinementInv, KillsInv
<1>2. ASSUME NEW r \in Reqs, NEW u \in Users, KillGoes(r, u), pc[r] = "idle"
      PROVE  KillsInv'
  <2>1. IsFiniteSet(KillsOf(u) \union {r})
    BY FS_AddElement DEF RefinementInv, KillsInv
  <2> QED
    BY <1>2, <2>1, KillCounts DEF RefinementInv, KillsInv
<1> QED
  BY <1>1, <1>2

LEMMA NextRefinementInv ==
  ASSUME Patient, RefinementInv, [Next]_vars
  PROVE  RefinementInv'
BY NextTypeInv, NextAddressInv, NextSerialInv, NextLaunchedInv, NextKillsInv
DEF RefinementInv

-----------------------------------------------------------------------------
(* The agents.                                                             *)

\* A step of request r for user u leaves the agents of the other users alone.
LEMMA OthersKept ==
  ASSUME RefinementInv, NEW r \in Reqs, NEW u \in Users,
         user' = user \/ (pc[r] = "idle" /\ user' = [user EXCEPT ![r] = u]),
         pc[r] = "idle" \/ user[r] = u,
         \A q \in Reqs : q # r => pc'[q] = pc[q],
         NEW w \in Users, w # u, microvms'[w] = microvms[w],
         pc'[r] \in KillAwaits => user'[r] = u,
         \A p \in Reqs : user[p] = w => runs'[p] = runs[p]
  PROVE  PlainState(w)' = PlainState(w)
<1>1. microvms[w] # NoReq => /\ microvms[w] \in Reqs /\ user[microvms[w]] = w
                            /\ microvms[w] # r
  BY DEF RefinementInv, TypeInv, TypeOK, VMs, SerialInv, EntryInv
<1>2. Killing(w)' <=> Killing(w)
  BY DEF Killing, RefinementInv, TypeInv, TypeOK
<1> QED
  BY <1>1, <1>2 DEF PlainState, Alive

\* What each kind of step does to the agents.
LEMMA UnannouncedSteps ==
  ASSUME RefinementInv,
         \/ \E r \in Reqs, u \in Users : Comes(r, u)
         \/ \E r \in Reqs : GoesOn(r) \/ Launch(r)
         \/ Sweeps
  PROVE  \A w \in Users : PlainState(w)' = PlainState(w)
<1> USE DEF Goto, TypeInv, TypeOK
<1>1. TypeInv /\ SerialInv /\ LaunchedInv
  BY DEF RefinementInv
<1>2. \A w \in Users : microvms[w] # NoReq => microvms[w] \in Reqs /\ user[microvms[w]] = w
  BY <1>1 DEF VMs, SerialInv, EntryInv
<1>3. ASSUME NEW r \in Reqs, NEW u \in Users, Comes(r, u)
      PROVE  \A w \in Users : PlainState(w)' = PlainState(w)
  <2>1. \A w \in Users : Killing(w)' <=> Killing(w)
    BY <1>1, <1>3 DEF Comes, Killing
  <2>2. \A w \in Users : microvms[w] # NoReq => microvms[w] # r
    BY <1>1, <1>3 DEF Comes, SerialInv, EntryInv
  <2> QED
    BY <1>1, <1>2, <1>3, <2>1, <2>2 DEF Comes, PlainState, Alive
<1>4. ASSUME NEW r \in Reqs, GoesOn(r)
      PROVE  \A w \in Users : PlainState(w)' = PlainState(w)
  <2>1. \A w \in Users : Killing(w)' <=> Killing(w)
    BY <1>1, <1>4 DEF GoesOn, Killing
  <2> QED
    BY <1>1, <1>2, <1>4, <2>1 DEF GoesOn, PlainState, Alive
<1>5. ASSUME NEW r \in Reqs, Launch(r)
      PROVE  \A w \in Users : PlainState(w)' = PlainState(w)
  <2>1. /\ pc[r] = "launch" /\ pc' = [pc EXCEPT ![r] = "envd"] /\ user[r] \in Users
        /\ microvms' = [microvms EXCEPT ![user[r]] = r] /\ user' = user
        /\ \A p \in Reqs : p # r => runs'[p] = runs[p]
    BY <1>1, <1>5 DEF Launch, local, SentInv
  <2>2. \A w \in Users : Killing(w)' <=> Killing(w)
    BY <1>1, <2>1 DEF Killing
  <2>3. microvms[user[r]] = NoReq
    BY <1>1, <2>1 DEF SerialInv, EntryInv
  <2>4. ASSUME NEW w \in Users
        PROVE  PlainState(w)' = PlainState(w)
    <3>1. CASE w = user[r]
      BY <1>1, <2>1, <2>3, <3>1 DEF PlainState
    <3>2. CASE w # user[r]
      BY <1>1, <1>2, <2>1, <2>2, <3>2 DEF PlainState, Alive
    <3> QED
      BY <3>1, <3>2
  <2> QED
    BY <2>4
<1>6. CASE Sweeps
  BY <1>2, <1>6 DEF Sweeps, PlainState, Killing
<1> QED
  BY <1>3, <1>4, <1>5, <1>6

LEMMA AnnounceStep ==
  ASSUME RefinementInv, NEW r \in Reqs, FastApiReady(r)
  PROVE  /\ user[r] \in Users
         /\ PlainState(user[r]) = "none" /\ PlainState(user[r])' = "up"
         /\ \A w \in Users : w # user[r] => PlainState(w)' = PlainState(w)
<1> DEFINE u == user[r]
<1>1. TypeInv /\ SerialInv /\ LaunchedInv
  BY DEF RefinementInv
<1>2. /\ pc[r] = "fastapi" /\ pc' = [pc EXCEPT ![r] = "created"] /\ u \in Users
      /\ UNCHANGED <<microvms, user, runs>> /\ Reachable(r)
  BY <1>1 DEF FastApiReady, Goto, local, TypeInv, SentInv
<1>3. microvms[u] = r
  BY <1>1, <1>2 DEF LaunchedInv
<1>4. Alive(r)
  BY <1>1, <1>2 DEF Reachable, Alive, SerialInv, AliveInv
<1>5. ~Killing(u)'
  BY <1>1, <1>2 DEF Killing, SerialInv, OneAtATime, TypeInv, TypeOK
<1>6. PlainState(u) = "none" /\ PlainState(u)' = "up"
  BY <1>1, <1>2, <1>3, <1>4, <1>5 DEF PlainState, Alive, TypeInv, TypeOK
<1> QED
  BY <1>1, <1>2, <1>6, OthersKept DEF TypeInv, TypeOK

LEMMA ExitStep ==
  ASSUME RefinementInv, NEW p \in Reqs, VmExits(p)
  PROVE  \E u \in Users :
           /\ \/ PlainState(u)' = PlainState(u)
              \/ PlainState(u) = "up" /\ PlainState(u)' = "exited"
           /\ \A w \in Users : w # u => PlainState(w)' = PlainState(w)
<1>1. TypeInv /\ SerialInv
  BY DEF RefinementInv
<1>2. /\ Alive(p) /\ runs' = [runs EXCEPT ![p] = NoReq]
      /\ UNCHANGED <<microvms, pc, user>>
  BY DEF VmExits, local
<1>U. PICK u \in Users : u = user[p]
  BY <1>1, <1>2 DEF SerialInv, AliveInv
<1>3. microvms[u] = p /\ ~Killing(u)
  BY <1>1, <1>2, <1>U DEF SerialInv, AliveInv, Killing
<1>4. \/ PlainState(u)' = PlainState(u)
      \/ PlainState(u) = "up" /\ PlainState(u)' = "exited"
  BY <1>1, <1>2, <1>3 DEF PlainState, Killing, Alive, TypeInv, TypeOK
<1>5. ASSUME NEW w \in Users, w # u
      PROVE  PlainState(w)' = PlainState(w)
  <2>1. microvms[w] # NoReq => microvms[w] \in Reqs /\ microvms[w] # p
    BY <1>1, <1>5, <1>U DEF VMs, SerialInv, EntryInv, TypeInv, TypeOK
  <2> QED
    BY <1>1, <1>2, <2>1 DEF PlainState, Killing, Alive, TypeInv, TypeOK
<1> QED
  BY <1>3, <1>4, <1>5

LEMMA KillSteps ==
  ASSUME RefinementInv, NEW r \in Reqs, NEW u \in Users, KillGoes(r, u)
  PROVE  /\ pc[r] = "idle" =>
              /\ PlainState(u) # "ending"
              /\ \/ PlainState(u)' = "none"
                 \/ PlainState(u) # "none" /\ PlainState(u)' = "ending"
         /\ pc[r] # "idle" =>
              \/ PlainState(u)' = PlainState(u)
              \/ PlainState(u) = "ending" /\ PlainState(u)' = "none"
         /\ \A w \in Users : w # u => PlainState(w)' = PlainState(w)
<1>1. TypeInv /\ SerialInv
  BY DEF RefinementInv
<1>2. PICK v \in Reqs : KillStep(r, u, v)
  BY DEF KillGoes
<1>3. /\ microvms[u] = v /\ v # r /\ user[v] = u /\ v # NoReq
      /\ \A q \in Reqs : q # r => pc'[q] = pc[q] /\ user'[q] = user[q]
      /\ \A q \in Reqs : q # r /\ user[q] = u => pc[q] \notin InFlight
      /\ user'[r] = u
      /\ \/ pc'[r] \in KillAwaits /\ microvms'[u] = v
         \/ pc'[r] = "killed" /\ microvms'[u] = NoReq
  BY <1>1, <1>2 DEF KillStep, Goto, TypeInv, TypeOK
<1>4. pc[r] = "idle" => ~Killing(u)
  BY <1>3 DEF Killing
<1>5. pc[r] # "idle" => Killing(u)
  BY <1>2 DEF KillStep, Killing
<1>6. pc'[r] \in KillAwaits => Killing(u)'
  BY <1>3 DEF Killing
<1>7. \/ PlainState(u)' = "none"
      \/ /\ microvms'[u] = v /\ Killing(u)' /\ pc'[v] = "created" /\ pc[v] = "created"
         /\ PlainState(u)' = "ending" /\ PlainState(u) # "none"
  BY <1>3, <1>6 DEF PlainState
<1>8. pc[r] # "idle" => PlainState(u) \in {"none", "ending"}
  BY <1>5 DEF PlainState
<1>9. pc[r] = "idle" => PlainState(u) # "ending"
  BY <1>4 DEF PlainState
<1>10. ASSUME NEW w \in Users, w # u
       PROVE  PlainState(w)' = PlainState(w)
  <2>1. microvms'[w] = microvms[w]
    BY <1>1, <1>2, <1>10 DEF KillStep, TypeInv, TypeOK
  <2>2. user' = user \/ (pc[r] = "idle" /\ user' = [user EXCEPT ![r] = u])
    BY <1>2 DEF KillStep
  <2>3. pc[r] = "idle" \/ user[r] = u
    BY <1>2 DEF KillStep
  <2>4. \A p \in Reqs : user[p] = w => runs'[p] = runs[p]
    BY <1>2, <1>3, <1>10 DEF KillStep
  <2> QED
    BY <1>3, <1>10, <2>1, <2>2, <2>3, <2>4, OthersKept
<1> QED
  BY <1>7, <1>8, <1>9, <1>10

-----------------------------------------------------------------------------
(* The refinement.                                                         *)

\* Every step of the host is a step of Sandbox, or invisible to it.
LEMMA StepsKeepThePromise ==
  ASSUME Patient, RefinementInv, PlainView, PlainView', [Next]_vars
  PROVE  [Promise!Next]_(Promise!vars)
<1> DEFINE agent == [u \in Users |-> AgentState(u)]
           kills == [u \in Users |-> Cardinality(KillsOf(u))]
<1> USE DEF Promise!vars, Promise!Next
<1>1. /\ \A w \in Users : agent[w] = PlainState(w) /\ agent'[w] = PlainState(w)'
  BY DEF PlainView
<1>2. ASSUME NEW u \in Users, \A w \in Users : w # u => PlainState(w)' = PlainState(w)
      PROVE  agent' = [agent EXCEPT ![u] = PlainState(u)']
  BY <1>1, <1>2
<1>3. (\A w \in Users : PlainState(w)' = PlainState(w)) => agent' = agent
  BY <1>1
<1>4. ASSUME NEW r \in Reqs, NEW u \in Users, KillGoes(r, u), pc[r] = "idle"
      PROVE  Promise!Kill(u)
  <2>1. /\ PlainState(u) # "ending"
        /\ \/ PlainState(u)' = "none"
           \/ PlainState(u) # "none" /\ PlainState(u)' = "ending"
        /\ \A w \in Users : w # u => PlainState(w)' = PlainState(w)
    BY <1>4, KillSteps
  <2>2. agent' = [agent EXCEPT ![u] = PlainState(u)']
    BY <1>2, <2>1
  <2>3. /\ \A w \in Users : w # u => KillsOf(w)' = KillsOf(w)
        /\ r \notin KillsOf(u) /\ KillsOf(u)' = KillsOf(u) \union {r}
    BY <1>4, KillCounts
  <2>4. Cardinality(KillsOf(u) \union {r}) = Cardinality(KillsOf(u)) + 1
    BY <2>3, FS_AddElement DEF RefinementInv, KillsInv
  <2>5. kills' = [kills EXCEPT ![u] = @ + 1]
    BY <2>3, <2>4
  <2>6. restarts' = restarts
    BY <1>4 DEF KillGoes, KillStep
  <2> QED
    BY <1>1, <2>1, <2>2, <2>5, <2>6 DEF Promise!Kill, Promise!Becomes
<1>5. CASE \A r \in Reqs, u \in Users : KillGoes(r, u) => pc[r] # "idle"
  <2>1. kills' = kills
    BY <1>5, KillsChange
  <2>2. CASE \/ \E r \in Reqs, u \in Users : Comes(r, u)
             \/ \E r \in Reqs : GoesOn(r) \/ Launch(r)
             \/ Sweeps
    <3>1. agent' = agent
      BY <1>3, <2>2, UnannouncedSteps
    <3>2. restarts' = restarts
      BY <2>2 DEF Comes, GoesOn, Launch, Sweeps
    <3> QED
      BY <2>1, <3>1, <3>2
  <2>3. ASSUME NEW r \in Reqs, FastApiReady(r)
        PROVE  Promise!Next
    <3>1. /\ user[r] \in Users
          /\ PlainState(user[r]) = "none" /\ PlainState(user[r])' = "up"
          /\ \A w \in Users : w # user[r] => PlainState(w)' = PlainState(w)
      BY <2>3, AnnounceStep
    <3>2. PICK u \in Users : u = user[r]
      BY <3>1
    <3>3. PlainState(u) = "none" /\ PlainState(u)' = "up"
      BY <3>1, <3>2, <2>3 DEF FastApiReady, local
    <3>4. agent' = [agent EXCEPT ![u] = "up"]
      BY <1>2, <3>1, <3>2, <3>3
    <3>5. restarts' = restarts
      BY <2>3 DEF FastApiReady
    <3> QED
      BY <1>1, <2>1, <3>3, <3>4, <3>5 DEF Promise!Announce, Promise!Becomes
  <2>4. ASSUME NEW r \in Reqs, NEW u \in Users, KillGoes(r, u)
        PROVE  [Promise!Next]_(Promise!vars)
    <3>1. /\ \/ PlainState(u)' = PlainState(u)
             \/ PlainState(u) = "ending" /\ PlainState(u)' = "none"
          /\ \A w \in Users : w # u => PlainState(w)' = PlainState(w)
      BY <1>5, <2>4, KillSteps
    <3>2. restarts' = restarts
      BY <2>4 DEF KillGoes, KillStep
    <3>3. CASE PlainState(u)' = PlainState(u)
      BY <1>3, <2>1, <3>1, <3>2, <3>3
    <3>4. CASE PlainState(u) = "ending" /\ PlainState(u)' = "none"
      BY <1>1, <1>2, <2>1, <3>1, <3>2, <3>4 DEF Promise!EndKill, Promise!Becomes
    <3> QED
      BY <3>1, <3>3, <3>4
  <2>5. ASSUME NEW p \in Reqs, VmExits(p)
        PROVE  [Promise!Next]_(Promise!vars)
    <3>1. PICK u \in Users :
            /\ \/ PlainState(u)' = PlainState(u)
               \/ PlainState(u) = "up" /\ PlainState(u)' = "exited"
            /\ \A w \in Users : w # u => PlainState(w)' = PlainState(w)
      BY <2>5, ExitStep
    <3>2. restarts' = restarts
      BY <2>5 DEF VmExits
    <3>3. CASE PlainState(u)' = PlainState(u)
      BY <1>3, <2>1, <3>1, <3>2, <3>3
    <3>4. CASE PlainState(u) = "up" /\ PlainState(u)' = "exited"
      BY <1>1, <1>2, <2>1, <3>1, <3>2, <3>4 DEF Promise!Exit, Promise!Becomes
    <3> QED
      BY <3>1, <3>3, <3>4
  <2>6. CASE HostRestart \/ HostReboot
    <3>1. restarts' = restarts + 1 /\ \A u \in Users : PlainState(u)' = "none"
      BY <2>6 DEF HostRestart, HostReboot, Restart, PlainState
    <3>2. agent' = [u \in Users |-> "none"]
      BY <1>1, <3>1
    <3> QED
      BY <2>1, <3>1, <3>2 DEF Promise!HostLoss
  <2> QED
    BY <2>2, <2>3, <2>4, <2>5, <2>6, StepKinds
<1> QED
  BY <1>4, <1>5

LEMMA InitPromise == Init => Promise!Init
<1> SUFFICES ASSUME Init
             PROVE  Promise!Init
  OBVIOUS
<1>1. \A u \in Users : AgentState(u) = "none"
  BY DEF Init, AgentState
<1>2. \A u \in Users : KillsOf(u) = {}
  BY DEF Init, KillsOf
<1>3. \A u \in Users : Cardinality(KillsOf(u)) = 0
  BY <1>2, FS_EmptySet
<1> QED
  BY <1>1, <1>3 DEF Init, Promise!Init

\* For clients that wait for their answers the host implements Sandbox: an agent
\* that was announced stays whole until its user's kill, its own end or a restart
\* of the host, and every kill that was carried out is seen to begin and to end
\* once, however the requests of different users, sweeps, failures and restarts
\* interleave.
THEOREM PatientClientsArePromised ==
  ASSUME Patient
  PROVE  Spec => PromiseKept
<1>1. Init => RefinementInv /\ Promise!Init
  BY InitRefinementInv, InitPromise
<1>2. RefinementInv /\ [Next]_vars => RefinementInv'
  BY NextRefinementInv
<1>3. RefinementInv => PlainView
  BY AgentsArePlain
<1>4. RefinementInv /\ PlainView /\ PlainView' /\ [Next]_vars
        => [Promise!Next]_(Promise!vars)
  BY StepsKeepThePromise
<1> QED
  BY <1>1, <1>2, <1>3, <1>4, PTL DEF Spec, PromiseKept, Promise!Safety

====
