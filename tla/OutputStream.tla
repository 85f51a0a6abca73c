---- MODULE OutputStream ----
(***************************************************************************)
(* What envd promises the client that starts a command (service Process,   *)
(* method Start): an event that it has started, then all of its output in  *)
(* order, then one event that it has ended.  A signal or a timeout may cut *)
(* the output short.  The abstract specification of ProcessStream.         *)
(***************************************************************************)
EXTENDS Naturals

VARIABLES
  seen,      \* what the client was told: "nothing", "started", "ended"
  received,  \* how many pieces of output it got, the first ones
  written,   \* how many the command wrote
  stopped    \* a signal or a timeout came

vars == <<seen, received, written, stopped>>

Init == seen = "nothing" /\ received = 0 /\ written = 0 /\ stopped = FALSE

Write == written' = written + 1 /\ seen # "ended" /\ UNCHANGED <<seen, received, stopped>>

Begin == seen = "nothing" /\ seen' = "started" /\ UNCHANGED <<received, written, stopped>>

Receive ==
  /\ seen = "started" /\ received < written
  /\ received' = received + 1
  /\ UNCHANGED <<seen, written, stopped>>

Stop == stopped' = TRUE /\ UNCHANGED <<seen, received, written>>

End ==
  /\ seen = "started"
  /\ received = written \/ stopped
  /\ seen' = "ended"
  /\ UNCHANGED <<received, written, stopped>>

Next == Write \/ Begin \/ Receive \/ Stop \/ End

Safety == Init /\ [][Next]_vars

====
