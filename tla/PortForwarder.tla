---- MODULE PortForwarder ----
(***************************************************************************)
(* envd's port scanner and port forwarder: once per period the scanner     *)
(* hands the forwarder a snapshot of the sockets that listen on localhost, *)
(* and the forwarder keeps one socat process per (pid, port) in step with  *)
(* it (envd-mini/internal/port/scan.go, scanSubscriber.go, forward.go).    *)
(***************************************************************************)
EXTENDS Naturals, FiniteSets

CONSTANTS
  Keys,       \* what "pid-port" can be: a server process on a port
  PortOf,     \* the port of a key
  MaxFaults,  \* bound: socats that fail for no reason of the forwarder's
  MaxReopens  \* bound: servers that close their port and open it again

ASSUME KeysAssumption ==
  /\ IsFiniteSet(Keys) /\ Keys \subseteq DOMAIN PortOf
ASSUME BoundsAssumption == MaxFaults \in Nat /\ MaxReopens \in Nat

VARIABLES
  listening,  \* the keys that listen on localhost now
  opened,     \* the keys that have listened
  reopened,   \* those that closed and listened once more
  scanner,    \* it sleeps, or offers its snapshot on Messages
  scan,       \* the snapshot it took last
  procs,      \* the snapshot the forwarder received last
  loop,       \* the forwarder waits for a snapshot, or refreshes its map
  state,      \* the state of each entry of f.ports; entries are never deleted
  handles,    \* the entries whose p.socat is not nil
  socat,      \* the socat process started for a key
  broken      \* the keys whose socat met a fault, or that a failed scan
              \* made the forwarder drop (history)

vars ==
  <<listening, opened, reopened, scanner, scan, procs, loop, state, handles,
    socat, broken>>

forwarder == <<procs, loop, state, handles>>
machine == <<listening, opened, reopened>>

Live == {"starting", "bound"}

Init ==
  /\ listening = {} /\ opened = {} /\ reopened = {}
  /\ scanner = "sleeps" /\ scan = {}
  /\ procs = {} /\ loop = "receive"
  /\ state = [k \in Keys |-> "absent"]
  /\ handles = {}
  /\ socat = [k \in Keys |-> "none"]
  /\ broken = {}

-----------------------------------------------------------------------------
(* The machine: servers and socat processes.                               *)

Open(k) ==
  /\ k \notin listening
  /\ k \in opened => k \notin reopened /\ Cardinality(reopened) < MaxReopens
  /\ listening' = listening \union {k}
  /\ opened' = opened \union {k}
  /\ reopened' = reopened \union (opened \intersect {k})
  /\ UNCHANGED <<scanner, scan, forwarder, socat, broken>>

Close(k) ==
  /\ k \in listening
  /\ listening' = listening \ {k}
  /\ UNCHANGED <<opened, reopened, scanner, scan, forwarder, socat, broken>>

BoundTo(port) == {k \in Keys : PortOf[k] = port /\ socat[k] = "bound"}

\* socat binds its port on eth0, or ends: another one has the port.
Bind(k) ==
  /\ socat[k] = "starting"
  /\ socat' = [socat EXCEPT ![k] =
                 IF BoundTo(PortOf[k]) = {} THEN "bound" ELSE "gone"]
  /\ UNCHANGED <<machine, scanner, scan, forwarder, broken>>

Fault(k) ==
  /\ Cardinality(broken) < MaxFaults
  /\ broken' = broken \union {k}

SocatDies(k) ==
  /\ socat[k] \in Live /\ Fault(k)
  /\ socat' = [socat EXCEPT ![k] = "gone"]
  /\ UNCHANGED <<machine, scanner, scan, forwarder>>

-----------------------------------------------------------------------------
(* The scanner: one snapshot, one hand-over on an unbuffered channel.      *)

Known == {k \in Keys : state[k] # "absent"}

Scan ==
  /\ scanner = "sleeps"
  /\ scanner' = "offers" /\ scan' = listening
  /\ UNCHANGED <<machine, forwarder, socat, broken>>

\* net.Connections fails (gopsutil returns no list then): its error is dropped,
\* and the forwarder gets an empty snapshot.
ScanFails ==
  /\ scanner = "sleeps"
  /\ scanner' = "offers" /\ scan' = {}
  /\ broken' = broken \union Known \union procs
  /\ UNCHANGED <<machine, forwarder, socat>>

-----------------------------------------------------------------------------
(* The forwarder.                                                          *)

New == procs \ Known
Old == {k \in handles : state[k] = "DELETE"}

\* Mutant: entries that are not in the snapshot are deleted from the map.
Receive_Forgets ==
  /\ loop = "receive" /\ scanner = "offers"
  /\ procs' = scan /\ scan' = {} /\ scanner' = "sleeps"
  /\ loop' = "refresh"
  /\ state' = [k \in Keys |->
                 IF k \in Known \intersect scan THEN "FORWARD" ELSE "absent"]
  /\ UNCHANGED <<machine, handles, socat, broken>>

\* Mutant: the entries are not marked DELETE first.
Receive_Unmarked ==
  /\ loop = "receive" /\ scanner = "offers"
  /\ procs' = scan /\ scan' = {} /\ scanner' = "sleeps"
  /\ loop' = "refresh"
  /\ UNCHANGED <<machine, state, handles, socat, broken>>

\* The snapshot is handed over: every entry is marked DELETE, and those in
\* the snapshot FORWARD again, whether or not their socat runs.
Receive ==
  /\ loop = "receive" /\ scanner = "offers"
  /\ procs' = scan /\ scan' = {} /\ scanner' = "sleeps"
  /\ loop' = "refresh"
  /\ state' = [k \in Keys |->
                 IF k \notin Known THEN "absent"
                 ELSE IF k \in scan THEN "FORWARD" ELSE "DELETE"]
  /\ UNCHANGED <<machine, handles, socat, broken>>

\* Mutant: the entry is stored, but startPortForwarding is not called.
StartNew_EntryOnly(k) ==
  /\ loop = "refresh" /\ k \in New
  /\ state' = [state EXCEPT ![k] = "FORWARD"]
  /\ UNCHANGED <<machine, scanner, scan, procs, loop, handles, socat, broken>>

\* A key without an entry gets one and a socat.
StartNew(k) ==
  /\ loop = "refresh" /\ k \in New
  /\ state' = [state EXCEPT ![k] = "FORWARD"]
  /\ \/ /\ socat' = [socat EXCEPT ![k] = "starting"]
        /\ handles' = handles \union {k}
        /\ broken' = broken
     \/ \* cmd.Start fails: the entry stays, without a socat.
        Fault(k) /\ UNCHANGED <<handles, socat>>
  /\ UNCHANGED <<machine, scanner, scan, procs, loop>>

\* Mutant: the handle is cleared, but only the parent is signalled.
StopOld_NoKill(k) ==
  /\ loop = "refresh" /\ New = {} /\ k \in Old
  /\ handles' = handles \ {k}
  /\ UNCHANGED <<machine, scanner, scan, procs, loop, state, socat, broken>>

\* The socat of an entry that stayed DELETE is killed with its process
\* group; if it had ended by itself the kill fails, which is only logged.
StopOld(k) ==
  /\ loop = "refresh" /\ New = {} /\ k \in Old
  /\ socat' = [socat EXCEPT ![k] = "gone"]
  /\ handles' = handles \ {k}
  /\ UNCHANGED <<machine, scanner, scan, procs, loop, state, broken>>

Await ==
  /\ loop = "refresh" /\ New = {} /\ Old = {}
  /\ loop' = "receive"
  /\ UNCHANGED <<machine, scanner, scan, procs, state, handles, socat, broken>>

Forward == Receive \/ Await \/ \E k \in Keys : StartNew(k) \/ StopOld(k)

Next ==
  \/ Scan \/ ScanFails \/ Forward
  \/ \E k \in Keys : Open(k) \/ Close(k) \/ Bind(k) \/ SocatDies(k)

Spec == Init /\ [][Next]_vars

\* Two goroutines that run, scans that do not fail for ever, and socats that get
\* to their bind.
Fairness ==
  /\ SF_vars(Scan) /\ WF_vars(Forward)
  /\ \A k \in Keys : WF_vars(Bind(k))

FairSpec == Spec /\ Fairness

-----------------------------------------------------------------------------
(* Properties.                                                             *)

\* Every variable has its type; a socat is held only by an entry of the map.
TypeOK ==
  /\ listening \subseteq opened /\ reopened \subseteq opened /\ opened \subseteq Keys
  /\ scanner \in {"sleeps", "offers"} /\ scan \subseteq Keys
  /\ procs \subseteq Keys /\ loop \in {"receive", "refresh"}
  /\ state \in [Keys -> {"absent", "FORWARD", "DELETE"}]
  /\ handles \subseteq Known
  /\ socat \in [Keys -> {"none", "starting", "bound", "gone"}]
  /\ broken \subseteq Keys

\* No socat escapes: while the forwarder waits, every one that runs is held by
\* an entry and belongs to a key of the last snapshot, however ports opened
\* and closed while it worked (forward.go:139, "stop forwarding all ports
\* that stayed marked").
SocatsFollowSnapshot ==
  \A k \in Keys :
    socat[k] \in Live =>
      k \in handles /\ (loop = "receive" => k \in procs)

\* No other server has had k's port.
Sole(k) == \A j \in opened : PortOf[j] = PortOf[k] => j = k

\* A server that opens a port and keeps it is forwarded, from some time on for
\* good, however old the snapshots are that the forwarder gets and whatever else
\* opens and closes meanwhile (forward.go:127).  This is all the code gives:
\*  - a server that opens its port again finds its entry and gets no socat (116);
\*  - a failed scan stops the socats of all servers known by then, in the same
\*    way for good; one that comes before the server is known does no harm;
\*  - the socat of a server that takes a port over within one period starts
\*    before the old one is stopped, and cannot bind (135 comes before 143).
NewPortForwarded ==
  \A k \in Keys :
    <>[](k \in listening \ (reopened \union broken) /\ Sole(k))
      => <>[](socat[k] = "bound")

\* The socat of a server that has gone is stopped, unless the server comes
\* back (forward.go:102 to 145).
ClosedPortStops ==
  \A k \in Keys :
    socat[k] \in Live /\ k \notin listening ~>
      socat[k] \notin Live \/ k \in listening

====
