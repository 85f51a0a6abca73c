---- MODULE MCHost ----
(* Model-checking instances of Host. *)
EXTENDS Host, TLC

CONSTANTS u1, u2

\* Clients that time out on a kill: they send it again, or create anew.
KillRetries == {<<"kill", "kill">>, <<"create", "kill">>}

\* Clients that wait for nothing.
Anything == {"create", "kill", "force"} \X {"create", "kill"}

\* No user id is part of another.  (Of the names of TAPs: a short id is part
\* of its user's own, or of none.)
MCHits == {<<u, u>> : u \in Users}
NoHits == {}

MCSymmetry == Permutations(Users)

\* Requests are interchangeable until they are sent: they arrive in order.
InOrder == \A r, q \in Reqs : r < q /\ pc[q] # "idle" => pc[r] # "idle"

====
