---- MODULE EnvdInit ----
(***************************************************************************)
(* What POST /init leaves in envd: its variables, access token and         *)
(* defaults (envd-mini/internal/api/init.go, with the maximum of           *)
(* internal/utils/atomic.go and the map of internal/utils/map.go).  All of *)
(* it is memory of the daemon, which systemd restarts.                     *)
(***************************************************************************)
EXTENDS Naturals

CONSTANTS
  Requests,  \* the POST /init requests
  Keys,      \* names of environment variables
  NoOne,     \* no request
  Stamp,     \* the timestamp of a request; 0: it has none
  Sets,      \* the variables it sets
  Token,     \* its access token
  NoToken,   \* a request without one
  Defaults   \* the requests that set the default user and working directory

VARIABLES
  up,           \* the daemon listens
  phase,        \* where each request is
  left,         \* the variables that it still has to store
  lastSetTime,  \* the greatest timestamp accepted
  envVars,      \* who stored each variable last
  accessToken,  \* the token in use
  defaults      \* who set the defaults last

vars == <<up, phase, left, lastSetTime, envVars, accessToken, defaults>>

memory == <<lastSetTime, envVars, accessToken, defaults>>

Empty ==
  /\ lastSetTime = 0
  /\ envVars = [k \in Keys |-> NoOne]
  /\ accessToken = NoToken
  /\ defaults = NoOne

Init ==
  /\ up = FALSE
  /\ phase = [r \in Requests |-> "idle"]
  /\ left = [r \in Requests |-> {}]
  /\ Empty

Goto(r, label) == phase' = [phase EXCEPT ![r] = label]

Listen ==
  /\ ~up /\ up' = TRUE
  /\ UNCHANGED <<phase, left, memory>>

\* The body is decoded, and the handler comes to initLock.
Arrive(r) ==
  /\ up /\ phase[r] = "idle"
  /\ Goto(r, "waiting")
  /\ UNCHANGED <<up, left, memory>>

LockFree == \A r \in Requests : phase[r] # "storing"

\* Mutant: timestamps are recorded, but not compared.
Enter_Older(r) ==
  /\ phase[r] = "waiting" /\ LockFree
  /\ Goto(r, "storing")
  /\ left' = [left EXCEPT ![r] = Sets[r]]
  /\ lastSetTime' = IF Stamp[r] = 0 THEN lastSetTime ELSE Stamp[r]
  /\ UNCHANGED <<up, envVars, accessToken, defaults>>

\* Mutant: the handler does not take initLock.
Enter_Unlocked(r) ==
  /\ phase[r] = "waiting"
  /\ \/ /\ Stamp[r] = 0 \/ lastSetTime <= Stamp[r]
        /\ Goto(r, "storing")
        /\ left' = [left EXCEPT ![r] = Sets[r]]
        /\ lastSetTime' = IF Stamp[r] = 0 THEN lastSetTime ELSE Stamp[r]
     \/ /\ Stamp[r] # 0 /\ lastSetTime > Stamp[r]
        /\ Goto(r, "ignored")
        /\ UNCHANGED <<left, lastSetTime>>
  /\ UNCHANGED <<up, envVars, accessToken, defaults>>

\* A request without a timestamp is always applied; one with a timestamp if
\* none that is later was.  An older one is answered as if it had been.
Enter(r) ==
  /\ phase[r] = "waiting" /\ LockFree
  /\ \/ /\ Stamp[r] = 0 \/ lastSetTime <= Stamp[r]
        /\ Goto(r, "storing")
        /\ left' = [left EXCEPT ![r] = Sets[r]]
        /\ lastSetTime' = IF Stamp[r] = 0 THEN lastSetTime ELSE Stamp[r]
     \/ /\ Stamp[r] # 0 /\ lastSetTime > Stamp[r]
        /\ Goto(r, "ignored")
        /\ UNCHANGED <<left, lastSetTime>>
  /\ UNCHANGED <<up, envVars, accessToken, defaults>>

\* Mutant: LoadOrStore, which keeps what is there.
Store_Keeps(r, k) ==
  /\ phase[r] = "storing" /\ k \in left[r]
  /\ envVars' = [envVars EXCEPT ![k] = IF @ = NoOne THEN r ELSE @]
  /\ left' = [left EXCEPT ![r] = @ \ {k}]
  /\ UNCHANGED <<up, phase, lastSetTime, accessToken, defaults>>

\* One turn of the range over a Go map: the keys come in any order, and a
\* GET /envs sees the variables stored so far.
Store(r, k) ==
  /\ phase[r] = "storing" /\ k \in left[r]
  /\ envVars' = [envVars EXCEPT ![k] = r]
  /\ left' = [left EXCEPT ![r] = @ \ {k}]
  /\ UNCHANGED <<up, phase, lastSetTime, accessToken, defaults>>

\* The rest of SetData, and the answer.  A token that is not the one in use is
\* refused with 409: the variables stay stored, the defaults are not reached.
Finish(r) ==
  /\ phase[r] = "storing" /\ left[r] = {}
  /\ \/ /\ Token[r] # NoToken /\ accessToken \notin {NoToken, Token[r]}
        /\ Goto(r, "refused")
        /\ UNCHANGED <<accessToken, defaults>>
     \/ /\ Token[r] = NoToken \/ accessToken \in {NoToken, Token[r]}
        /\ Goto(r, "applied")
        /\ accessToken' = IF Token[r] = NoToken THEN accessToken ELSE Token[r]
        /\ defaults' = IF r \in Defaults THEN r ELSE defaults
  /\ UNCHANGED <<up, left, lastSetTime, envVars>>

\* The daemon ends, systemd will start it again; what it held is lost.
Crash ==
  /\ up /\ up' = FALSE
  /\ phase' = [r \in Requests |-> IF phase[r] = "idle" THEN "idle" ELSE "lost"]
  /\ left' = [r \in Requests |-> {}]
  /\ lastSetTime' = 0
  /\ envVars' = [k \in Keys |-> NoOne]
  /\ accessToken' = NoToken
  /\ defaults' = NoOne

PostInit(r) == Arrive(r) \/ Enter(r) \/ (\E k \in Keys : Store(r, k)) \/ Finish(r)

Next == Listen \/ Crash \/ \E r \in Requests : PostInit(r)

Spec == Init /\ [][Next]_vars

-----------------------------------------------------------------------------
(* Properties.                                                             *)

\* Every variable has its type, and one request at most holds initLock.
TypeOK ==
  /\ up \in BOOLEAN
  /\ phase \in [Requests ->
       {"idle", "waiting", "storing", "applied", "refused", "ignored", "lost"}]
  /\ left \in [Requests -> SUBSET Keys]
  /\ lastSetTime \in Nat
  /\ envVars \in [Keys -> Requests \union {NoOne}]
  /\ \A r, q \in Requests : phase[r] = "storing" /\ phase[q] = "storing" => r = q

Done == {r \in Requests : phase[r] \in {"applied", "refused"}}

\* Of the variables a stamped request has set, none is missing or older than
\* the request, whatever was posted before, after or at the same time
\* (init.go:42, "update data only if the request is newer").
NewestKept ==
  \A r \in Done : \A k \in Sets[r] :
    /\ envVars[k] # NoOne
    /\ Stamp[envVars[k]] = 0 \/ Stamp[envVars[k]] >= Stamp[r]

\* Two requests that set the same variables do not mix: when both are done,
\* the one that came later has all of them.
Unmixed ==
  \A r, q \in Done : \A k, l \in Sets[r] \intersect Sets[q] :
    r # q /\ envVars[k] = r => envVars[l] # q

====
