---- MODULE AgentBoot ----
(***************************************************************************)
(* How a microVM comes up after Firecracker was started: the host waits    *)
(* for envd, posts /init, waits for the agent server and announces the VM  *)
(* (host/api_routes/execute_routes.py); in the guest, systemd starts envd  *)
(* and the agent server in no particular order and restarts them when they *)
(* end (Dockerfile-claude-fastapi), and the agent server reads envd's      *)
(* variables once, at its start (server/claude_main.py).                   *)
(***************************************************************************)
EXTENDS Naturals

CONSTANTS
  Requests, Keys, NoOne, Stamp, Sets, Token, NoToken, Defaults,  \* see EnvdInit
  HostRequest,  \* the POST /init of the host; the others are other clients'
  Refused,      \* of the variables a request sets, those that os.environ refuses:
                \* a name that is empty or holds "=", a NUL byte
  Attempts,     \* bound: polls of one wait (6000 and 600 in the code)
  MaxCrashes    \* bound: services of the guest that end

ASSUME RequestsAssumption ==
  /\ NoOne \notin Requests
  /\ Stamp \in [Requests -> Nat]
  /\ Sets \in [Requests -> SUBSET Keys]
  /\ Requests \subseteq DOMAIN Token /\ Defaults \subseteq Requests
ASSUME HostAssumption == HostRequest \in Requests
ASSUME RefusedAssumption == Refused \in [Requests -> SUBSET Keys]
ASSUME BoundsAssumption == Attempts \in Nat \ {0} /\ MaxCrashes \in Nat

VARIABLES
  up, phase, left, lastSetTime, envVars, accessToken, defaults,  \* envd's
  host,     \* where create_microvm is after Popen
  tries,    \* the polls of its present wait
  agent,    \* where the agent server is in its startup
  unread,   \* the variables that GET /envs has still to visit
  answer,   \* what it has answered so far: who stored each variable
  environ,  \* the environment of the agent server, likewise
  fetched,  \* GET /envs was answered
  acked,    \* it was sent after /init had been carried out (history)
  crashes

Envd == INSTANCE EnvdInit

envd == <<up, phase, left, lastSetTime, envVars, accessToken, defaults>>
hostVars == <<host, tries>>
agentVars == <<agent, unread, answer, environ, fetched, acked>>
vars == <<envd, hostVars, agentVars, crashes>>

Bare == [k \in Keys |-> NoOne]

Init ==
  /\ Envd!Init
  /\ host = "envd" /\ tries = 0
  /\ agent = "down" /\ unread = {} /\ answer = Bare /\ environ = Bare
  /\ fetched = FALSE /\ acked = FALSE
  /\ crashes = 0

-----------------------------------------------------------------------------
(* The host.                                                               *)

\* Mutant: a poll that is not answered is not counted.
Poll_Uncounted(label, answers, next) ==
  /\ host = label
  /\ \/ answers /\ host' = next /\ tries' = 0
     \/ host' = label /\ tries' = tries

\* Mutant: one poll more than the loop has turns.
Poll_OneMore(label, answers, next) ==
  /\ host = label
  /\ \/ answers /\ host' = next /\ tries' = 0
     \/ tries < Attempts /\ host' = label /\ tries' = tries + 1
     \/ tries = Attempts /\ host' = "failed" /\ tries' = 0

\* A poll fails when the service does not answer, or not in two seconds.
Poll(label, answers, next) ==
  /\ host = label
  /\ \/ answers /\ host' = next /\ tries' = 0
     \/ tries + 1 < Attempts /\ host' = label /\ tries' = tries + 1
     \/ tries + 1 = Attempts /\ host' = "failed" /\ tries' = 0

\* wait_for_envd: /health answers 204 as soon as the daemon listens.
WaitForEnvd ==
  /\ Poll("envd", up, "init")
  /\ UNCHANGED <<envd, agentVars, crashes>>

\* init_envd sends the request; a connection that is refused is only printed.
InitEnvd ==
  /\ host = "init"
  /\ \/ /\ Envd!Arrive(HostRequest) /\ host' = "posted"
     \/ /\ ~up /\ host' = "fastapi"
        /\ UNCHANGED envd
  /\ UNCHANGED <<tries, agentVars, crashes>>

\* Whatever the answer, or after five seconds without one, boot goes on.
InitEnvdEnds ==
  /\ host = "posted" /\ host' = "fastapi"
  /\ UNCHANGED <<envd, tries, agentVars, crashes>>

\* /health is served once startup() has returned, and then the client is there.
Healthy == agent = "ready"

WaitForFastApi ==
  /\ Poll("fastapi", Healthy, "announced")
  /\ UNCHANGED <<envd, agentVars, crashes>>

Host == WaitForEnvd \/ InitEnvd \/ InitEnvdEnds \/ WaitForFastApi

\* A boot that failed ends in proc.kill(): the guest is gone.
GuestRuns == host # "failed"

-----------------------------------------------------------------------------
(* The guest.                                                              *)

EnvdStep ==
  /\ GuestRuns
  /\ \/ Envd!Listen
     \/ \E r \in Requests :
          /\ r = HostRequest => phase[r] # "idle"
          /\ Envd!PostInit(r)
  /\ UNCHANGED <<hostVars, agentVars, crashes>>

\* startup() asks for /envs, or finds nobody to ask.
Startup ==
  /\ GuestRuns /\ agent = "down"
  /\ agent' = IF up THEN "fetching" ELSE "client"
  /\ unread' = IF up THEN Keys ELSE {}
  /\ answer' = Bare /\ environ' = Bare
  /\ fetched' = FALSE
  /\ acked' = (up /\ phase[HostRequest] = "applied")
  /\ UNCHANGED <<envd, hostVars, crashes>>

\* The Range over envd's map visits the variables one by one.
GetEnvs(k) ==
  /\ GuestRuns /\ agent = "fetching" /\ k \in unread
  /\ unread' = unread \ {k}
  /\ answer' = [answer EXCEPT ![k] = envVars[k]]
  /\ UNCHANGED <<envd, hostVars, agent, environ, fetched, acked, crashes>>

Answered == {k \in Keys : answer[k] # NoOne}
Refuses == {k \in Answered : k \in Refused[answer[k]]}

\* startup() sets the variables of the answer one after the other; at one that
\* os.environ refuses it stops without a word and keeps those it has set, in
\* whatever order the answer names them.
EnvsAnswered ==
  /\ GuestRuns /\ agent = "fetching" /\ unread = {}
  /\ agent' = "client" /\ fetched' = TRUE
  /\ \E set \in SUBSET (Answered \ Refuses) :
       /\ Refuses = {} => set = Answered
       /\ environ' = [k \in Keys |-> IF k \in set THEN answer[k] ELSE NoOne]
  /\ answer' = Bare
  /\ UNCHANGED <<envd, hostVars, unread, acked, crashes>>

\* An error or five seconds without a whole answer: no variable was set yet, and
\* startup() goes on without.
EnvsFail ==
  /\ GuestRuns /\ agent = "fetching"
  /\ agent' = "client"
  /\ unread' = {} /\ answer' = Bare
  /\ UNCHANGED <<envd, hostVars, environ, fetched, acked, crashes>>

\* Mutant: an agent server that was started again does not come up.
ClientReady_Once ==
  /\ GuestRuns /\ agent = "client" /\ crashes = 0
  /\ agent' = "ready"
  /\ UNCHANGED <<envd, hostVars, unread, answer, environ, fetched, acked, crashes>>

\* The session of the SDK's client is open, and uvicorn serves requests.
ClientReady ==
  /\ GuestRuns /\ agent = "client"
  /\ agent' = "ready"
  /\ UNCHANGED <<envd, hostVars, unread, answer, environ, fetched, acked, crashes>>

\* The agent server ends: its client does not start, or later.
AgentEnds ==
  /\ GuestRuns /\ agent \in {"client", "ready"}
  /\ crashes < MaxCrashes /\ crashes' = crashes + 1
  /\ agent' = "down" /\ environ' = Bare /\ fetched' = FALSE /\ acked' = FALSE
  /\ UNCHANGED <<envd, hostVars, unread, answer>>

\* envd ends, and with it a GET /envs in flight.
EnvdEnds ==
  /\ GuestRuns /\ Envd!Crash
  /\ crashes < MaxCrashes /\ crashes' = crashes + 1
  /\ IF agent = "fetching"
       THEN agent' = "client" /\ unread' = {} /\ answer' = Bare
       ELSE UNCHANGED <<agent, unread, answer>>
  /\ UNCHANGED <<hostVars, environ, fetched, acked>>

Agent ==
  \/ Startup \/ EnvsAnswered \/ EnvsFail \/ ClientReady
  \/ \E k \in Keys : GetEnvs(k)

Next == Host \/ EnvdStep \/ Agent \/ AgentEnds \/ EnvdEnds

Spec == Init /\ [][Next]_vars

\* The host's loop goes on.  Nothing is assumed of a guest that is booting, it may
\* hang; the agent server of a VM that came up can be started again.
FairSpec ==
  Spec /\ WF_vars(Host) /\ WF_vars(host = "announced" /\ Agent)

-----------------------------------------------------------------------------
(* Properties.                                                             *)

\* Every variable has its type.
TypeOK ==
  /\ Envd!TypeOK
  /\ host \in {"envd", "init", "posted", "fastapi", "announced", "failed"}
  /\ tries \in 0 .. Attempts - 1
  /\ agent \in {"down", "fetching", "client", "ready"}
  /\ unread \subseteq Keys /\ (agent # "fetching" => unread = {})
  /\ answer \in [Keys -> Requests \union {NoOne}]
  /\ environ \in [Keys -> Requests \union {NoOne}]
  /\ fetched \in BOOLEAN /\ acked \in BOOLEAN
  /\ crashes \in 0 .. MaxCrashes

\* See EnvdInit: the variables of /init while services end and start again.
NewestKept == Envd!NewestKept
Unmixed == Envd!Unmixed

\* Has been posted, at least.
Posted(r) == phase[r] # "idle"

\* An agent server that asked for the variables after the host's /init had
\* been carried out, and was answered, has none that is older than the host's;
\* and unless someone posted a variable that os.environ refuses, which makes
\* the agent server drop others with it, it has all of them
\* (execute_routes.py:314, "this is how we inject API keys"), whoever else
\* posts at the time.  One that asked before: see AnnouncedHasKeys.
AgentHasItsKeys ==
  agent \in {"client", "ready"} /\ fetched /\ acked =>
    \A k \in Sets[HostRequest] :
      /\ environ[k] # NoOne =>
           Stamp[environ[k]] = 0 \/ Stamp[environ[k]] >= Stamp[HostRequest]
      /\ (\A r \in Requests : Posted(r) => Refused[r] = {}) => environ[k] # NoOne

\* src/README.md:315: the agent server is "to get Anth. API keys from microVM
\* (you pass them on on startup)", so that of an announced VM whose envd has them
\* has them too.  The code does not see to that: the agent server asks once, and
\* nothing makes it wait for the host's /init.
AnnouncedHasKeys ==
  host = "announced" /\ agent = "ready" /\ phase[HostRequest] = "applied" =>
    \A k \in Sets[HostRequest] : environ[k] # NoOne

\* A create is answered, even by a guest that never comes up: the waits count
\* their polls, and init_envd gives up (execute_routes.py:305).
BootEnds == host \notin {"announced", "failed"} ~> host \in {"announced", "failed"}

\* The agent server of an announced VM comes back when it has ended.
AgentReturns ==
  host = "announced" /\ agent = "down" ~> agent = "ready"

====
