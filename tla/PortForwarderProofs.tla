---- MODULE PortForwarderProofs ----
(***************************************************************************)
(* Proofs about PortForwarder: for any servers, ports, faults and          *)
(* reopenings, no socat process escapes the forwarder's map.               *)
(***************************************************************************)
EXTENDS PortForwarder, TLAPS

-----------------------------------------------------------------------------
(* Type correctness.                                                       *)

LEMMA InitTypeOK == Init => TypeOK
BY DEF Init, TypeOK, Known, Live

\* The servers and socat processes keep the types.
LEMMA MachineTypeOK ==
  ASSUME TypeOK, NEW k \in Keys, Open(k) \/ Close(k) \/ Bind(k) \/ SocatDies(k)
  PROVE  TypeOK'
<1>1. CASE Open(k)
  BY <1>1 DEF TypeOK, Open, Known, forwarder
<1>2. CASE Close(k)
  BY <1>2 DEF TypeOK, Close, Known, forwarder
<1>3. CASE Bind(k)
  BY <1>3 DEF TypeOK, Bind, Known, forwarder, machine
<1>4. CASE SocatDies(k)
  BY <1>4 DEF TypeOK, SocatDies, Fault, Known, forwarder, machine
<1> QED
  BY <1>1, <1>2, <1>3, <1>4

\* The scanner and the forwarder keep the types: marking the entries of the map
\* neither adds nor deletes one.
LEMMA ForwarderTypeOK ==
  ASSUME TypeOK, Scan \/ ScanFails \/ Forward
  PROVE  TypeOK'
<1>1. CASE Scan \/ ScanFails
  BY <1>1 DEF TypeOK, Scan, ScanFails, Known, forwarder, machine
<1>2. CASE Receive
  <2>1. Known' = Known
    BY <1>2 DEF TypeOK, Receive, Known
  <2>2. state' \in [Keys -> {"absent", "FORWARD", "DELETE"}]
    BY <1>2 DEF Receive
  <2> QED
    BY <1>2, <2>1, <2>2 DEF TypeOK, Receive, machine
<1>3. CASE Await
  BY <1>3 DEF TypeOK, Await, Known, machine
<1>4. ASSUME NEW k \in Keys, StartNew(k)
      PROVE  TypeOK'
  BY <1>4 DEF TypeOK, StartNew, Fault, Known, machine
<1>5. ASSUME NEW k \in Keys, StopOld(k)
      PROVE  TypeOK'
  BY <1>5 DEF TypeOK, StopOld, Known, machine
<1> QED
  BY <1>1, <1>2, <1>3, <1>4, <1>5 DEF Forward

\* Every variable keeps its type, and only entries of the map hold a socat.
THEOREM ForwarderTypeCorrect == Spec => []TypeOK
<1>1. ASSUME TypeOK, [Next]_vars
      PROVE  TypeOK'
  <2>1. CASE Next
    BY <1>1, <2>1, MachineTypeOK, ForwarderTypeOK DEF Next
  <2>2. CASE UNCHANGED vars
    BY <1>1, <2>2 DEF TypeOK, Known, vars, forwarder, machine
  <2> QED
    BY <1>1, <2>1, <2>2
<1> QED
  BY InitTypeOK, <1>1, PTL DEF Spec

-----------------------------------------------------------------------------
(* No socat escapes.                                                       *)

\* A socat that runs is held by its entry.
HeldInv == \A k \in Keys : socat[k] \in Live => k \in handles

\* An entry that a refresh has marked, or made, is in its snapshot.
MarkedInv == \A k \in Keys : state[k] = "FORWARD" => k \in procs

\* No refresh ends before the socats of all deleted entries are stopped.
StoppedInv == loop = "receive" => \A k \in handles : state[k] # "DELETE"

Inv == TypeOK /\ HeldInv /\ MarkedInv /\ StoppedInv

LEMMA InitInv == Init => HeldInv /\ MarkedInv /\ StoppedInv
BY DEF Init, HeldInv, MarkedInv, StoppedInv, Live

\* What happens on the machine starts no socat.
LEMMA MachineInv ==
  ASSUME Inv, NEW k \in Keys,
         Open(k) \/ Close(k) \/ Bind(k) \/ SocatDies(k)
  PROVE  HeldInv' /\ MarkedInv' /\ StoppedInv'
<1>1. UNCHANGED forwarder
  BY DEF Open, Close, Bind, SocatDies, forwarder
<1>2. MarkedInv' /\ StoppedInv'
  BY <1>1 DEF Inv, MarkedInv, StoppedInv, forwarder
<1>3. \A j \in Keys : socat'[j] \in Live => socat[j] \in Live
  BY DEF Inv, TypeOK, Open, Close, Bind, SocatDies, Live
<1>4. HeldInv'
  BY <1>1, <1>3 DEF Inv, HeldInv, forwarder
<1> QED
  BY <1>2, <1>4

\* A refresh marks the entries, starts the new ones, stops the old ones, and
\* waits only when there is none of either left.
LEMMA ForwardInv ==
  ASSUME Inv, Forward
  PROVE  HeldInv' /\ MarkedInv' /\ StoppedInv'
<1>1. CASE Receive
  BY <1>1 DEF Inv, TypeOK, Receive, HeldInv, MarkedInv, StoppedInv, Known
<1>2. CASE Await
  BY <1>2 DEF Inv, Await, Old, HeldInv, MarkedInv, StoppedInv
<1>3. ASSUME NEW k \in Keys, StartNew(k)
      PROVE  HeldInv' /\ MarkedInv' /\ StoppedInv'
  BY <1>3 DEF Inv, TypeOK, StartNew, New, HeldInv, MarkedInv, StoppedInv
<1>4. ASSUME NEW k \in Keys, StopOld(k)
      PROVE  HeldInv' /\ MarkedInv' /\ StoppedInv'
  BY <1>4 DEF Inv, TypeOK, StopOld, HeldInv, MarkedInv, StoppedInv, Live
<1> QED
  BY <1>1, <1>2, <1>3, <1>4 DEF Forward

LEMMA InvFollows == Inv => SocatsFollowSnapshot
BY DEF Inv, TypeOK, HeldInv, MarkedInv, StoppedInv, SocatsFollowSnapshot, Known

\* However servers come and go while the forwarder works, and whichever socat
\* or scan fails, the ones that run are held by entries, and between two refreshes by
\* entries of the last snapshot.
THEOREM NoSocatEscapes == Spec => []SocatsFollowSnapshot
<1>1. Init => Inv
  BY InitTypeOK, InitInv DEF Inv
<1>2. ASSUME Inv, [Next]_vars
      PROVE  Inv'
  <2>1. TypeOK'
    <3>1. CASE Next
      BY <1>2, <3>1, MachineTypeOK, ForwarderTypeOK DEF Next, Inv
    <3>2. CASE UNCHANGED vars
      BY <1>2, <3>2 DEF Inv, TypeOK, Known, vars, forwarder, machine
    <3> QED
      BY <1>2, <3>1, <3>2
  <2>2. HeldInv' /\ MarkedInv' /\ StoppedInv'
    <3>1. CASE Forward
      BY <1>2, <3>1, ForwardInv
    <3>2. ASSUME NEW k \in Keys, Open(k) \/ Close(k) \/ Bind(k) \/ SocatDies(k)
          PROVE  HeldInv' /\ MarkedInv' /\ StoppedInv'
      BY <1>2, <3>2, MachineInv
    <3>3. CASE Scan \/ ScanFails \/ UNCHANGED vars
      BY <1>2, <3>3
      DEF Inv, HeldInv, MarkedInv, StoppedInv, Scan, ScanFails, vars, forwarder
    <3> QED
      BY <1>2, <3>1, <3>2, <3>3 DEF Next
  <2> QED
    BY <2>1, <2>2 DEF Inv
<1> QED
  BY <1>1, <1>2, InvFollows, PTL DEF Spec

====
