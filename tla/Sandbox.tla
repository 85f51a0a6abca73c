---- MODULE Sandbox ----
(***************************************************************************)
(* What the host promises its clients: an agent that was announced to a    *)
(* user stays whole until the user has it killed, it ends by itself, or    *)
(* the host goes down (README.md, "a persistent claude agent until microVM *)
(* is killed").  This module is the abstract specification; Host           *)
(* implements it for clients that wait for their answers.                  *)
(***************************************************************************)
EXTENDS Naturals

CONSTANT Users

VARIABLES
  agent,  \* per user: none, up, exited by itself, or being killed ("ending")
  kills,  \* per user: how many kill requests were carried out
  losses  \* how often the host went down

vars == <<agent, kills, losses>>

Init ==
  /\ agent = [u \in Users |-> "none"]
  /\ kills = [u \in Users |-> 0]
  /\ losses = 0

Becomes(u, state) == agent' = [agent EXCEPT ![u] = state]

\* A create is answered "created".
Announce(u) ==
  /\ agent[u] = "none" /\ Becomes(u, "up")
  /\ UNCHANGED <<kills, losses>>

\* The guest ends its own VM.
Exit(u) ==
  /\ agent[u] = "up" /\ Becomes(u, "exited")
  /\ UNCHANGED <<kills, losses>>

\* The user's kill, of an agent or of what a failed create left: it may be
\* over at once, or take its time.
Kill(u) ==
  /\ agent[u] # "ending"
  /\ kills' = [kills EXCEPT ![u] = @ + 1]
  /\ \/ Becomes(u, "none")
     \/ agent[u] # "none" /\ Becomes(u, "ending")
  /\ losses' = losses

EndKill(u) ==
  /\ agent[u] = "ending" /\ Becomes(u, "none")
  /\ UNCHANGED <<kills, losses>>

\* The service restarts or the machine reboots.
HostLoss ==
  /\ losses' = losses + 1
  /\ agent' = [u \in Users |-> "none"]
  /\ kills' = kills

Next ==
  \/ HostLoss
  \/ \E u \in Users : Announce(u) \/ Exit(u) \/ Kill(u) \/ EndKill(u)

Safety == Init /\ [][Next]_vars

\* A kill that has begun ends.
Spec == Safety /\ \A u \in Users : WF_vars(EndKill(u))

====
