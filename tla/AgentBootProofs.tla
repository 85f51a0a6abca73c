---- MODULE AgentBootProofs ----
(***************************************************************************)
(* Proofs about AgentBoot: for any requests, variables and timestamps,     *)
(* however often the services of the guest end, envd keeps the newest      *)
(* variables unmixed and an agent server that asked in time has its keys.  *)
(***************************************************************************)
EXTENDS AgentBoot, TLAPS

USE RequestsAssumption, HostAssumption, RefusedAssumption, BoundsAssumption

\* Set by a request without a timestamp, or by one that is not older than r.
AsNewAs(v, r) == v # NoOne /\ (Stamp[v] = 0 \/ Stamp[v] >= Stamp[r])

Entered(r) == phase[r] \in {"storing", "applied", "refused"}

\* Nobody has variables left to store but the one that holds the lock.
LeftInv ==
  \A r \in Requests :
    left[r] \subseteq Sets[r] /\ (phase[r] # "storing" => left[r] = {})

\* No request that was let in is newer than the last time; the one that holds
\* the lock is the newest, if it has a timestamp at all.
StampInv ==
  \A r \in Requests :
    /\ Entered(r) => Stamp[r] <= lastSetTime
    /\ phase[r] = "storing" => Stamp[r] \in {0, lastSetTime}

\* What a request has stored so far is there, or was replaced by newer.
StoredInv ==
  \A r \in Requests : Entered(r) =>
    \A k \in Sets[r] \ left[r] : AsNewAs(envVars[k], r)

\* What the holder of the lock has stored so far is its own.
OwnInv ==
  \A r \in Requests : phase[r] = "storing" =>
    \A k \in Sets[r] \ left[r] : envVars[k] = r

EnvdInv ==
  Envd!TypeOK /\ LeftInv /\ StampInv /\ StoredInv /\ OwnInv /\ Unmixed

\* While GET /envs goes over the variables of an envd that has those of the
\* host, so has what it has answered; a fetch under way is not over.
FetchInv ==
  agent = "fetching" =>
    /\ ~fetched
    /\ acked => /\ phase[HostRequest] = "applied"
                /\ \A k \in Sets[HostRequest] \ unread :
                     AsNewAs(answer[k], HostRequest)

\* Envd and its answer have no variable that nobody posted.
PostedInv ==
  \A k \in Keys : /\ envVars[k] # NoOne => Posted(envVars[k])
                  /\ answer[k] # NoOne => Posted(answer[k])

-----------------------------------------------------------------------------
(* envd.                                                                   *)

LEMMA InitEnvdInv == Envd!Init => EnvdInv
<1> SUFFICES ASSUME Envd!Init
             PROVE  EnvdInv
  OBVIOUS
<1>1. Envd!TypeOK /\ LeftInv
  BY DEF Envd!Init, Envd!Empty, Envd!TypeOK, LeftInv
<1>2. \A r \in Requests : phase[r] = "idle"
  BY DEF Envd!Init
<1> QED
  BY <1>1, <1>2 DEF EnvdInv, StampInv, StoredInv, OwnInv, Entered, Unmixed,
                    Envd!Unmixed, Envd!Done

\* A request that goes where it has nothing to store and is not let in.
LEMMA OutsideInv ==
  ASSUME EnvdInv, NEW r \in Requests, ~Entered(r),
         NEW label \in {"idle", "waiting", "ignored", "lost"}, Envd!Goto(r, label),
         UNCHANGED <<up, left, lastSetTime, envVars>>
  PROVE  EnvdInv'
<1>1. Envd!TypeOK'
  BY DEF EnvdInv, Envd!TypeOK, Envd!Goto
<1>2. \A q \in Requests : Entered(q)' => Entered(q) /\ phase'[q] = phase[q]
  BY DEF EnvdInv, Envd!TypeOK, Envd!Goto, Entered
<1>3. LeftInv'
  BY DEF EnvdInv, Envd!TypeOK, Envd!Goto, LeftInv, Entered
<1>4. StampInv' /\ StoredInv' /\ OwnInv'
  BY <1>2 DEF EnvdInv, StampInv, StoredInv, OwnInv, AsNewAs, Entered
<1>5. Unmixed'
  BY <1>2 DEF EnvdInv, Unmixed, Envd!Unmixed, Envd!Done, Entered
<1> QED
  BY <1>1, <1>3, <1>4, <1>5 DEF EnvdInv

\* Only a request without a timestamp, or one as new as all before, is let in.
LEMMA EnterInv ==
  ASSUME EnvdInv, NEW r \in Requests, Envd!Enter(r)
  PROVE  EnvdInv'
<1>1. CASE Stamp[r] # 0 /\ lastSetTime > Stamp[r]
  <2>1. Envd!Goto(r, "ignored") /\ UNCHANGED <<up, left, lastSetTime, envVars>>
    BY <1>1 DEF Envd!Enter, EnvdInv, Envd!TypeOK
  <2>2. ~Entered(r)
    BY DEF Envd!Enter, Entered
  <2> QED
    BY <2>1, <2>2, OutsideInv
<1>2. CASE Stamp[r] = 0 \/ lastSetTime <= Stamp[r]
  <2>1. /\ phase[r] = "waiting"
        /\ phase' = [phase EXCEPT ![r] = "storing"]
        /\ left' = [left EXCEPT ![r] = Sets[r]]
        /\ lastSetTime' = IF Stamp[r] = 0 THEN lastSetTime ELSE Stamp[r]
        /\ UNCHANGED <<up, envVars>>
        /\ \A q \in Requests : phase[q] # "storing"
    BY <1>2 DEF Envd!Enter, Envd!Goto, Envd!LockFree, EnvdInv, Envd!TypeOK
  <2>2. Envd!TypeOK'
    BY <2>1 DEF EnvdInv, Envd!TypeOK
  <2>3. LeftInv'
    BY <2>1 DEF EnvdInv, Envd!TypeOK, LeftInv
  <2>4. lastSetTime' >= lastSetTime /\ Stamp[r] <= lastSetTime'
    BY <1>2, <2>1 DEF EnvdInv, Envd!TypeOK
  <2>5. StampInv'
    BY <2>1, <2>4 DEF EnvdInv, Envd!TypeOK, StampInv, Entered
  <2>6. StoredInv'
    BY <2>1 DEF EnvdInv, Envd!TypeOK, StoredInv, Entered, AsNewAs
  <2>7. OwnInv'
    BY <2>1 DEF EnvdInv, Envd!TypeOK, OwnInv
  <2>8. Unmixed'
    BY <2>1 DEF EnvdInv, Envd!TypeOK, Unmixed, Envd!Unmixed, Envd!Done
  <2> QED
    BY <2>2, <2>3, <2>5, <2>6, <2>7, <2>8 DEF EnvdInv
<1> QED
  BY <1>1, <1>2 DEF Envd!Enter

\* What the holder of the lock stores is as new as anything that is there.
LEMMA StoreInv ==
  ASSUME EnvdInv, NEW r \in Requests, NEW k \in Keys, Envd!Store(r, k)
  PROVE  EnvdInv'
<1>1. /\ phase[r] = "storing" /\ k \in left[r]
      /\ envVars' = [envVars EXCEPT ![k] = r]
      /\ left' = [left EXCEPT ![r] = @ \ {k}]
      /\ UNCHANGED <<up, phase, lastSetTime>>
  BY DEF Envd!Store
<1>2. \A q \in Requests : phase[q] = "storing" => q = r
  BY <1>1 DEF EnvdInv, Envd!TypeOK
<1>3. Envd!TypeOK'
  BY <1>1 DEF EnvdInv, Envd!TypeOK
<1>4. LeftInv'
  BY <1>1 DEF EnvdInv, Envd!TypeOK, LeftInv
<1>5. StampInv'
  BY <1>1 DEF EnvdInv, StampInv, Entered
<1>6. StoredInv'
  <2>1. SUFFICES ASSUME NEW q \in Requests, Entered(q)', NEW l \in Sets[q] \ left'[q]
                 PROVE  AsNewAs(envVars'[l], q)
    BY DEF StoredInv, AsNewAs
  <2>2. CASE l = k
    <3>1. envVars'[l] = r /\ r # NoOne
      BY <1>1, <2>2 DEF EnvdInv, Envd!TypeOK
    <3>2. Stamp[q] <= lastSetTime /\ Stamp[r] \in {0, lastSetTime}
      BY <1>1, <2>1 DEF EnvdInv, StampInv, Entered
    <3> QED
      BY <3>1, <3>2 DEF AsNewAs, EnvdInv, Envd!TypeOK
  <2>3. CASE l # k
    <3>1. l \in Sets[q] \ left[q] /\ envVars'[l] = envVars[l]
      BY <1>1, <2>1, <2>3 DEF EnvdInv, Envd!TypeOK
    <3> QED
      BY <1>1, <2>1, <3>1 DEF EnvdInv, StoredInv, Entered
  <2> QED
    BY <2>2, <2>3
<1>7. OwnInv'
  BY <1>1, <1>2 DEF EnvdInv, Envd!TypeOK, OwnInv
<1>8. Unmixed'
  BY <1>1 DEF EnvdInv, Envd!TypeOK, Unmixed, Envd!Unmixed, Envd!Done
<1> QED
  BY <1>3, <1>4, <1>5, <1>6, <1>7, <1>8 DEF EnvdInv

\* When a request is done, all of its variables are its own.
LEMMA FinishInv ==
  ASSUME EnvdInv, NEW r \in Requests, Envd!Finish(r)
  PROVE  EnvdInv'
<1>1. PICK label \in {"applied", "refused"} :
        /\ phase[r] = "storing" /\ left[r] = {}
        /\ phase' = [phase EXCEPT ![r] = label]
        /\ UNCHANGED <<up, left, lastSetTime, envVars>>
  BY DEF Envd!Finish, Envd!Goto
<1>2. Envd!TypeOK'
  BY <1>1 DEF EnvdInv, Envd!TypeOK
<1>3. LeftInv' /\ StampInv' /\ OwnInv'
  BY <1>1 DEF EnvdInv, Envd!TypeOK, LeftInv, StampInv, OwnInv, Entered
<1>4. StoredInv'
  BY <1>1 DEF EnvdInv, Envd!TypeOK, StoredInv, Entered, AsNewAs
<1>5. Unmixed'
  <2>1. SUFFICES ASSUME NEW p \in Requests, NEW q \in Requests,
                        p \in Envd!Done', q \in Envd!Done', p # q,
                        NEW k \in Sets[p] \intersect Sets[q],
                        NEW l \in Sets[p] \intersect Sets[q],
                        envVars'[k] = p
                 PROVE  envVars'[l] # q
    BY DEF Unmixed, Envd!Unmixed, Envd!Done
  <2>2. envVars[k] = p /\ envVars'[l] = envVars[l]
    BY <1>1, <2>1
  <2>3. \A n \in Sets[r] : envVars[n] = r
    BY <1>1 DEF EnvdInv, OwnInv
  <2>4. CASE p = r \/ q = r
    BY <2>1, <2>2, <2>3, <2>4
  <2>5. CASE p # r /\ q # r
    <3>1. p \in Envd!Done /\ q \in Envd!Done
      BY <1>1, <2>1, <2>5 DEF Envd!Done, EnvdInv, Envd!TypeOK
    <3> QED
      BY <2>1, <2>2, <3>1 DEF EnvdInv, Unmixed, Envd!Unmixed
  <2> QED
    BY <2>4, <2>5
<1> QED
  BY <1>2, <1>3, <1>4, <1>5 DEF EnvdInv

LEMMA CrashInv ==
  ASSUME EnvdInv, Envd!Crash
  PROVE  EnvdInv'
<1>1. /\ up' = FALSE /\ lastSetTime' = 0
      /\ phase' = [r \in Requests |-> IF phase[r] = "idle" THEN "idle" ELSE "lost"]
      /\ left' = [r \in Requests |-> {}]
      /\ envVars' = [k \in Keys |-> NoOne]
  BY DEF Envd!Crash
<1>2. Envd!TypeOK' /\ LeftInv'
  BY <1>1 DEF EnvdInv, Envd!TypeOK, LeftInv
<1>3. \A r \in Requests : phase'[r] \in {"idle", "lost"}
  BY <1>1
<1>4. StampInv' /\ StoredInv' /\ OwnInv'
  BY <1>3 DEF StampInv, StoredInv, OwnInv, Entered
<1>5. Unmixed'
  BY <1>3 DEF Unmixed, Envd!Unmixed, Envd!Done
<1> QED
  BY <1>2, <1>4, <1>5 DEF EnvdInv

LEMMA UnchangedInv ==
  ASSUME EnvdInv, UNCHANGED envd
  PROVE  EnvdInv'
BY DEF envd, EnvdInv, Envd!TypeOK, LeftInv, StampInv, StoredInv, OwnInv, Entered,
       AsNewAs, Unmixed, Envd!Unmixed, Envd!Done

LEMMA ArriveInv ==
  ASSUME EnvdInv, NEW r \in Requests, Envd!Arrive(r)
  PROVE  EnvdInv'
BY OutsideInv DEF Envd!Arrive, Envd!memory, Entered

LEMMA PostInitInv ==
  ASSUME EnvdInv, NEW r \in Requests, Envd!PostInit(r)
  PROVE  EnvdInv'
BY ArriveInv, EnterInv, StoreInv, FinishInv DEF Envd!PostInit

LEMMA ListenInv ==
  ASSUME EnvdInv, Envd!Listen
  PROVE  EnvdInv'
BY DEF Envd!Listen, Envd!memory, EnvdInv, Envd!TypeOK, LeftInv, StampInv, StoredInv,
       OwnInv, Entered, AsNewAs, Unmixed, Envd!Unmixed, Envd!Done

-----------------------------------------------------------------------------
(* The host and the agent server.                                          *)

\* What envd keeps does not depend on the host or on the agent server.
LEMMA NextEnvdInv ==
  ASSUME EnvdInv, [Next]_vars
  PROVE  EnvdInv'
<1>1. CASE EnvdStep
  BY <1>1, ListenInv, PostInitInv DEF EnvdStep
<1>2. CASE EnvdEnds
  BY <1>2, CrashInv DEF EnvdEnds
<1>3. CASE InitEnvd
  BY <1>3, ArriveInv, UnchangedInv DEF InitEnvd
<1>4. CASE WaitForEnvd \/ InitEnvdEnds \/ WaitForFastApi
  BY <1>4, UnchangedInv DEF WaitForEnvd, InitEnvdEnds, WaitForFastApi
<1>5. CASE Agent \/ AgentEnds
  BY <1>5, UnchangedInv
  DEF Agent, AgentEnds, Startup, GetEnvs, EnvsAnswered, EnvsFail, ClientReady
<1>6. CASE UNCHANGED vars
  BY <1>6, UnchangedInv DEF vars
<1> QED
  BY <1>1, <1>2, <1>3, <1>4, <1>5, <1>6 DEF Next, Host

\* What TypeOK says of the host and of the agent server.
RestType ==
  /\ host \in {"envd", "init", "posted", "fastapi", "announced", "failed"}
  /\ tries \in 0 .. Attempts - 1
  /\ agent \in {"down", "fetching", "client", "ready"}
  /\ unread \subseteq Keys /\ (agent # "fetching" => unread = {})
  /\ answer \in [Keys -> Requests \union {NoOne}]
  /\ environ \in [Keys -> Requests \union {NoOne}]
  /\ fetched \in BOOLEAN /\ acked \in BOOLEAN
  /\ crashes \in 0 .. MaxCrashes

\* A poll counts up to the last one of its wait.
LEMMA PollType ==
  ASSUME RestType, NEW label, NEW answers, Poll(label, answers, "init")
                                        \/ Poll(label, answers, "announced"),
         UNCHANGED <<agentVars, crashes>>, label \in {"envd", "fastapi"}
  PROVE  RestType'
BY DEF RestType, Poll, agentVars

LEMMA NextType ==
  ASSUME EnvdInv, RestType, [Next]_vars
  PROVE  RestType'
<1>1. CASE WaitForEnvd \/ WaitForFastApi
  BY <1>1, PollType DEF WaitForEnvd, WaitForFastApi
<1>2. CASE InitEnvd \/ InitEnvdEnds
  BY <1>2 DEF InitEnvd, InitEnvdEnds, RestType, agentVars
<1>3. CASE EnvdStep
  BY <1>3 DEF EnvdStep, RestType, hostVars, agentVars
<1>4. CASE EnvdEnds
  BY <1>4 DEF EnvdEnds, RestType, hostVars, Bare
<1>5. CASE AgentEnds
  <2>1. fetched' \in BOOLEAN /\ acked' \in BOOLEAN
    BY <1>5, Zenon DEF AgentEnds
  <2> QED
    BY <1>5, <2>1 DEF AgentEnds, RestType, hostVars, Bare
<1>6. CASE Startup
  BY <1>6 DEF Startup, RestType, hostVars, Bare
<1>7. ASSUME NEW k \in Keys, GetEnvs(k)
      PROVE  RestType'
  BY <1>7 DEF GetEnvs, RestType, hostVars, EnvdInv, Envd!TypeOK
<1>8. CASE EnvsAnswered \/ EnvsFail \/ ClientReady
  BY <1>8 DEF EnvsAnswered, EnvsFail, ClientReady, RestType, hostVars, Bare
<1>9. CASE UNCHANGED vars
  BY <1>9 DEF vars, RestType, hostVars, agentVars
<1> QED
  BY <1>1, <1>2, <1>3, <1>4, <1>5, <1>6, <1>7, <1>8, <1>9 DEF Next, Host, Agent

\* A request that was carried out stays so until envd ends.
LEMMA AppliedStays ==
  ASSUME EnvdInv, phase[HostRequest] = "applied", InitEnvd \/ EnvdStep
  PROVE  phase'[HostRequest] = "applied"
<1>1. ASSUME NEW r \in Requests, Envd!PostInit(r)
      PROVE  phase'[HostRequest] = "applied"
  <2>1. phase[r] # "applied"
    BY <1>1 DEF Envd!PostInit, Envd!Arrive, Envd!Enter, Envd!Store, Envd!Finish
  <2>2. phase' = phase \/ \E label : Envd!Goto(r, label)
    BY <1>1 DEF Envd!PostInit, Envd!Arrive, Envd!Enter, Envd!Store, Envd!Finish
  <2> QED
    BY <2>1, <2>2 DEF EnvdInv, Envd!TypeOK, Envd!Goto
<1>2. CASE EnvdStep
  BY <1>1, <1>2 DEF EnvdStep, Envd!Listen
<1>3. CASE InitEnvd
  BY <1>1, <1>3 DEF InitEnvd, Envd!PostInit, envd
<1> QED
  BY <1>2, <1>3

\* A request that was posted is never as if it had not been.
LEMMA PostedStays ==
  ASSUME EnvdInv, [Next]_vars, NEW q \in Requests, Posted(q)
  PROVE  Posted(q)'
<1>1. ASSUME NEW r \in Requests, Envd!PostInit(r)
      PROVE  Posted(q)'
  <2>1. phase' = phase \/ \E label \in {"waiting", "ignored", "storing", "applied", "refused"} :
                             Envd!Goto(r, label)
    BY <1>1 DEF Envd!PostInit, Envd!Arrive, Envd!Enter, Envd!Store, Envd!Finish
  <2> QED
    BY <2>1 DEF EnvdInv, Envd!TypeOK, Envd!Goto, Posted
<1>2. CASE EnvdStep
  BY <1>1, <1>2 DEF EnvdStep, Envd!Listen, Envd!memory, Posted
<1>3. CASE InitEnvd
  BY <1>1, <1>3 DEF InitEnvd, Envd!PostInit, envd, Posted
<1>4. CASE EnvdEnds
  BY <1>4 DEF EnvdEnds, Envd!Crash, Posted
<1>5. CASE UNCHANGED phase
  BY <1>5 DEF Posted
<1> QED
  BY <1>2, <1>3, <1>4, <1>5
  DEF Next, Host, Agent, WaitForEnvd, InitEnvdEnds, WaitForFastApi, AgentEnds, Startup,
      GetEnvs, EnvsAnswered, EnvsFail, ClientReady, vars, envd

LEMMA NextPosted ==
  ASSUME EnvdInv, RestType, PostedInv, [Next]_vars
  PROVE  PostedInv'
<1>1. /\ envVars \in [Keys -> Requests \union {NoOne}]
      /\ answer \in [Keys -> Requests \union {NoOne}]
  BY DEF EnvdInv, Envd!TypeOK, RestType
<1>2. \A q \in Requests : Posted(q) => Posted(q)'
  BY PostedStays
<1>3. ASSUME NEW k \in Keys
      PROVE  answer'[k] \in {answer[k], envVars[k], NoOne}
  BY <1>1
  DEF Next, Host, EnvdStep, Agent, AgentEnds, EnvdEnds, WaitForEnvd, InitEnvd, InitEnvdEnds,
      WaitForFastApi, Startup, GetEnvs, EnvsAnswered, EnvsFail, ClientReady, vars, agentVars,
      Bare
<1>4. ASSUME NEW k \in Keys
      PROVE  envVars'[k] \in {envVars[k], NoOne} \/ Posted(envVars'[k])
  <2>1. ASSUME NEW r \in Requests, Envd!PostInit(r)
        PROVE  envVars'[k] = envVars[k] \/ Posted(envVars'[k])
    BY <2>1, <1>1 DEF Envd!PostInit, Envd!Arrive, Envd!Enter, Envd!Store, Envd!Finish,
                      Envd!memory, Posted
  <2>2. CASE EnvdStep
    BY <2>1, <2>2 DEF EnvdStep, Envd!Listen, Envd!memory
  <2>3. CASE InitEnvd
    BY <2>1, <2>3 DEF InitEnvd, Envd!PostInit, envd
  <2>4. CASE EnvdEnds
    BY <2>4 DEF EnvdEnds, Envd!Crash
  <2>5. CASE UNCHANGED envVars
    BY <2>5
  <2> QED
    BY <2>2, <2>3, <2>4, <2>5
    DEF Next, Host, Agent, WaitForEnvd, InitEnvdEnds, WaitForFastApi, AgentEnds, Startup,
        GetEnvs, EnvsAnswered, EnvsFail, ClientReady, vars, envd
<1>5. ASSUME NEW k \in Keys, NEW q, q = envVars'[k], q # NoOne
      PROVE  Posted(q)'
  <2>1. q \in Requests /\ Posted(q)
    <3>1. CASE q = envVars[k]
      BY <1>1, <1>5, <3>1 DEF PostedInv
    <3>2. CASE q # envVars[k]
      <4>1. Posted(q)
        BY <1>4, <1>5, <3>2
      <4>2. envVars'[k] \in Requests \union {NoOne}
        BY NextEnvdInv DEF EnvdInv, Envd!TypeOK
      <4> QED
        BY <1>5, <4>1, <4>2
    <3> QED
      BY <3>1, <3>2
  <2> QED
    BY <1>2, <2>1
<1>6. ASSUME NEW k \in Keys, NEW q, q = answer'[k], q # NoOne
      PROVE  Posted(q)'
  BY <1>1, <1>2, <1>3, <1>6 DEF PostedInv
<1> QED
  BY <1>5, <1>6 DEF PostedInv, Posted

KeysInv == FetchInv /\ AgentHasItsKeys

LEMMA SameKeys ==
  ASSUME KeysInv, UNCHANGED <<agent, unread, answer, environ, fetched, acked>>,
         \A r \in Requests : Posted(r) => Posted(r)',
         agent = "fetching" /\ phase[HostRequest] = "applied" =>
           phase'[HostRequest] = "applied"
  PROVE  KeysInv'
BY DEF KeysInv, FetchInv, AgentHasItsKeys, AsNewAs

\* What GET /envs finds when the request of the host was carried out is what it
\* stored, or newer; and the answer is that of one life of envd.
LEMMA NextKeys ==
  ASSUME EnvdInv, RestType, PostedInv, KeysInv, [Next]_vars
  PROVE  KeysInv'
<1>p. \A r \in Requests : Posted(r) => Posted(r)'
  BY PostedStays
<1>1. CASE InitEnvd \/ EnvdStep
  BY <1>1, <1>p, SameKeys, AppliedStays DEF InitEnvd, EnvdStep, agentVars
<1>2. CASE WaitForEnvd \/ InitEnvdEnds \/ WaitForFastApi \/ UNCHANGED vars
  BY <1>2, <1>p, SameKeys DEF WaitForEnvd, InitEnvdEnds, WaitForFastApi, vars, agentVars, envd
<1>3. CASE EnvdEnds
  <2>1. CASE agent = "fetching"
    BY <1>3, <2>1 DEF EnvdEnds, KeysInv, FetchInv, AgentHasItsKeys
  <2>2. CASE agent # "fetching"
    BY <1>3, <1>p, <2>2, SameKeys DEF EnvdEnds
  <2> QED
    BY <2>1, <2>2
<1>4. CASE AgentEnds
  BY <1>4 DEF AgentEnds, KeysInv, FetchInv, AgentHasItsKeys
<1>5. CASE Startup
  <2>1. ~fetched' /\ (agent' = "fetching" => unread' = Keys)
    BY <1>5 DEF Startup
  <2>2. acked' => phase'[HostRequest] = "applied"
    BY <1>5 DEF Startup, envd
  <2>3. Sets[HostRequest] \ Keys = {}
    OBVIOUS
  <2> QED
    BY <2>1, <2>2, <2>3 DEF KeysInv, FetchInv, AgentHasItsKeys
<1>6. ASSUME NEW k \in Keys, GetEnvs(k)
      PROVE  KeysInv'
  <2>1. /\ agent = "fetching" /\ unread' = unread \ {k}
        /\ answer' = [answer EXCEPT ![k] = envVars[k]]
        /\ UNCHANGED <<agent, phase, fetched, acked>>
    BY <1>6 DEF GetEnvs, envd
  <2>2. ~fetched /\ AgentHasItsKeys'
    BY <2>1 DEF KeysInv, FetchInv, AgentHasItsKeys
  <2>3. ASSUME acked, NEW l \in Sets[HostRequest] \ unread'
        PROVE  AsNewAs(answer'[l], HostRequest)
    <3>1. CASE l = k
      <4>1. Entered(HostRequest) /\ l \in Sets[HostRequest] \ left[HostRequest]
        BY <2>1, <2>3 DEF KeysInv, FetchInv, Entered, EnvdInv, LeftInv
      <4>2. AsNewAs(envVars[l], HostRequest)
        BY <4>1 DEF EnvdInv, StoredInv
      <4> QED
        BY <2>1, <3>1, <4>2 DEF RestType
    <3>2. CASE l # k
      BY <2>1, <2>3, <3>2 DEF KeysInv, FetchInv, RestType
    <3> QED
      BY <3>1, <3>2
  <2> QED
    BY <2>1, <2>2, <2>3 DEF KeysInv, FetchInv, AsNewAs
<1>7. CASE EnvsAnswered
  <2>1. PICK set \in SUBSET (Answered \ Refuses) :
          /\ Refuses = {} => set = Answered
          /\ environ' = [k \in Keys |-> IF k \in set THEN answer[k] ELSE NoOne]
    BY <1>7 DEF EnvsAnswered
  <2>2. /\ agent = "fetching" /\ unread = {} /\ agent' = "client"
        /\ UNCHANGED <<phase, acked>>
    BY <1>7 DEF EnvsAnswered, envd
  <2>3. ASSUME acked, NEW k \in Sets[HostRequest]
        PROVE  AsNewAs(answer[k], HostRequest) /\ k \in Keys /\ k \in Answered
    BY <2>2, <2>3 DEF KeysInv, FetchInv, AsNewAs, Answered
  <2>4. ASSUME acked, NEW k \in Sets[HostRequest], environ'[k] # NoOne
        PROVE  AsNewAs(environ'[k], HostRequest)
    BY <2>1, <2>3, <2>4
  <2>5. ASSUME \A r \in Requests : Posted(r) => Refused[r] = {}
        PROVE  Refuses = {}
    BY <2>5 DEF Refuses, Answered, PostedInv, RestType
  <2>6. ASSUME acked, NEW k \in Sets[HostRequest],
               \A r \in Requests : Posted(r) => Refused[r] = {}
        PROVE  environ'[k] # NoOne
    BY <2>1, <2>3, <2>5, <2>6 DEF AsNewAs
  <2> QED
    BY <2>2, <2>4, <2>6 DEF KeysInv, FetchInv, AgentHasItsKeys, AsNewAs, Posted
<1>8. CASE EnvsFail
  BY <1>8 DEF EnvsFail, KeysInv, FetchInv, AgentHasItsKeys
<1>9. CASE ClientReady
  BY <1>9 DEF ClientReady, KeysInv, FetchInv, AgentHasItsKeys, Posted, envd
<1> QED
  BY <1>1, <1>2, <1>3, <1>4, <1>5, <1>6, <1>7, <1>8, <1>9 DEF Next, Host, Agent

Inv == EnvdInv /\ RestType /\ PostedInv /\ KeysInv

LEMMA InitInv == Init => Inv
<1> SUFFICES ASSUME Init
             PROVE  Inv
  OBVIOUS
<1>1. EnvdInv
  BY InitEnvdInv DEF Init
<1>2. RestType
  <2>1. fetched \in BOOLEAN /\ acked \in BOOLEAN
    BY Zenon DEF Init
  <2> QED
    BY <2>1 DEF Init, RestType, Bare
<1>3. KeysInv
  BY DEF Init, KeysInv, FetchInv, AgentHasItsKeys
<1>4. PostedInv
  BY DEF Init, Envd!Init, Envd!Empty, PostedInv, Bare
<1> QED
  BY <1>1, <1>2, <1>3, <1>4 DEF Inv

LEMMA SpecInv == Spec => []Inv
<1>1. Inv /\ [Next]_vars => Inv'
  BY NextEnvdInv, NextType, NextPosted, NextKeys DEF Inv
<1> QED
  BY InitInv, <1>1, PTL DEF Spec

-----------------------------------------------------------------------------
(* The theorems.                                                           *)

\* Every variable has its type; of the requests that are posted at the same
\* time, one at most is past initLock; a wait of the host never makes more than
\* Attempts polls.
THEOREM TypesKept == Spec => []TypeOK
<1>1. Inv => TypeOK
  BY DEF Inv, EnvdInv, RestType, TypeOK
<1> QED
  BY SpecInv, <1>1, PTL

\* Of what a request that was carried out, or refused for its token, has set,
\* nothing is missing or was replaced by something older, for any number of
\* requests and timestamps, while envd ends and comes back: whoever stores holds
\* the lock and is as new as all who did before.
THEOREM VariablesNewest == Spec => []NewestKept
<1>1. Inv => NewestKept
  BY DEF Inv, EnvdInv, LeftInv, StoredInv, Entered, AsNewAs, NewestKept,
         Envd!NewestKept, Envd!Done
<1> QED
  BY SpecInv, <1>1, PTL

\* Two requests that are done, carried out or refused for their token, and set
\* the same variables, are never mixed: of what both set there is not one variable
\* of this and one of that, for the one that stored last stored all of its own
\* under the lock; and while a request is still storing, what it has stored so far
\* stays its own, nobody stores in between.  The rest of its variables are those
\* of the requests before, and GET /envs, which does not take the lock, sees them
\* side by side.
THEOREM VariablesUnmixed == Spec => [](Unmixed /\ OwnInv)
<1>1. Inv => Unmixed /\ OwnInv
  BY DEF Inv, EnvdInv
<1> QED
  BY SpecInv, <1>1, PTL

\* The agent server that asked for the variables after the host's /init had been
\* carried out, and was answered, has none that is older than the host's, and has
\* all of them unless someone posted a variable that os.environ refuses, whoever
\* else posts, and whatever ends, while it asks: envd's are as new as the host's
\* all through the answer, and of an answer that breaks off nothing is used.
THEOREM AgentGetsItsKeys == Spec => []AgentHasItsKeys
<1>1. Inv => AgentHasItsKeys
  BY DEF Inv, KeysInv
<1> QED
  BY SpecInv, <1>1, PTL

====
