---- MODULE AgentTasksProofs ----
(***************************************************************************)
(* Proofs about AgentTasks: for any users, tasks and addresses, however    *)
(* VMs are created and killed while requests are on their way, none        *)
(* reaches the VM of another user, its file is where the task is, and the  *)
(* answers of an agent are enough for all its tasks, and those of a task   *)
(* that has the agent for itself.                                          *)
(***************************************************************************)
EXTENDS AgentTasks, FiniteSetTheorems, SequenceTheorems, FunctionTheorems,
        TLAPS

USE TasksAssumption, BoundsAssumption

Labels == InFlight \union {"listing", "idle", "notfound", "done", "ended"}

\* What TypeOK says of the host and of its handlers.
HostType ==
  /\ microvms \in [Users -> Addrs \union {NoVm}]
  /\ nextIp \in 1 .. LastIp + 1
  /\ owner \in [Addrs -> Users \union {NoUser}] /\ alive \subseteq Addrs
  /\ pc \in [Tasks -> Labels]
  /\ addr \in [Tasks -> Addrs \union {NoVm}]
  /\ reached \in [Tasks -> SUBSET (Users \union {NoUser})]

\* An address that was given to a user stays his.
Given(a, u) == a \in Addrs /\ a < nextIp /\ owner[a] = u

\* Each entry has an address of its user.
EntryInv == \A u \in Users : microvms[u] # NoVm => Given(microvms[u], u)

\* A request that found its VM holds an address that its user had.
Started(t) == pc[t] \notin {"idle", "notfound"}
HeldInv == \A t \in Tasks : Started(t) => Given(addr[t], UserOf[t])

Inv == HostType /\ EntryInv /\ HeldInv /\ OwnVm

LEMMA InitInv == Init => Inv
BY DEF Init, Inv, HostType, Labels, InFlight, EntryInv, HeldInv, Started, OwnVm, Addrs, NoVm

\* A create takes an address that nobody had; a kill takes none away from those
\* who have read it.
LEMMA VmsInv ==
  ASSUME Inv, Vms
  PROVE  Inv'
<1>1. ASSUME NEW u \in Users, Create(u)
      PROVE  Inv'
  <2>1. nextIp \in Addrs /\ nextIp' = nextIp + 1
    BY <1>1 DEF Inv, HostType, Create, Addrs
  <2>2. HostType'
    BY <1>1, <2>1 DEF Inv, HostType, Create, Addrs
  <2>3. \A a, v : Given(a, v) => Given(a, v)'
    BY <1>1, <2>1 DEF Inv, HostType, Create, Given, Addrs
  <2>4. EntryInv'
    BY <1>1, <2>1, <2>3 DEF Inv, HostType, Create, EntryInv, Given, Addrs
  <2>5. HeldInv'
    BY <1>1, <2>3 DEF Inv, Create, HeldInv, Started
  <2> QED
    BY <1>1, <2>2, <2>4, <2>5 DEF Inv, OwnVm, Create
<1>2. ASSUME NEW u \in Users, Kill(u)
      PROVE  Inv'
  BY <1>2 DEF Inv, HostType, EntryInv, HeldInv, Started, OwnVm, Kill, Given
<1>3. ASSUME NEW a \in Addrs, VmExits(a)
      PROVE  Inv'
  BY <1>3 DEF Inv, HostType, EntryInv, HeldInv, Started, OwnVm, VmExits, host, Given
<1> QED
  BY <1>1, <1>2, <1>3 DEF Vms

\* A request that goes on to a label where it holds an address keeps the one
\* that it has.
LEMMA StaysHeld ==
  ASSUME Inv, NEW t \in Tasks, NEW label \in Labels, Goto(t, label),
         UNCHANGED <<host, alive, addr>>, reached' = reached,
         label \notin {"idle", "notfound"} => Started(t)
  PROVE  Inv'
<1>1. HostType'
  BY DEF Inv, HostType, Goto, host
<1>2. HeldInv'
  BY DEF Inv, HostType, HeldInv, Started, Goto, host, Given
<1> QED
  BY <1>1, <1>2 DEF Inv, EntryInv, OwnVm, host, Given

\* A request that reaches a VM reaches the one whose address it holds.
LEMMA ReachesOwn ==
  ASSUME Inv, NEW t \in Tasks, Started(t), Reach(t),
         NEW label \in Labels, pc' = [pc EXCEPT ![t] = label] \/ pc' = pc,
         UNCHANGED <<host, alive, addr>>
  PROVE  Inv'
<1>1. addr[t] \in Addrs /\ owner[addr[t]] = UserOf[t]
  BY DEF Inv, HeldInv, Started, Given
<1>2. reached' = [reached EXCEPT ![t] = @ \union {UserOf[t]}]
  BY <1>1 DEF Reach
<1>3. HostType' /\ OwnVm'
  BY <1>2 DEF Inv, HostType, OwnVm, host
<1>4. HeldInv'
  BY DEF Inv, HostType, HeldInv, Started, host, Given
<1> QED
  BY <1>3, <1>4 DEF Inv, EntryInv, host, Given

LEMMA RequestInv ==
  ASSUME Inv, NEW t \in Tasks, Request(t)
  PROVE  Inv'
<1> USE DEF Labels, InFlight, Started
<1>1. CASE NotFound(t)
  BY <1>1, StaysHeld DEF NotFound
<1>2. CASE Relay(t)
  <2>1. Given(microvms[UserOf[t]], UserOf[t])
    BY <1>2 DEF Relay, Inv, EntryInv
  <2>2. HostType'
    BY <1>2 DEF Relay, Goto, Inv, HostType, host
  <2>3. HeldInv'
    BY <1>2, <2>1 DEF Relay, Goto, Inv, HostType, HeldInv, Started, Given, host
  <2> QED
    BY <1>2, <2>2, <2>3 DEF Relay, Inv, EntryInv, OwnVm, Given, host
<1>3. CASE UploadEnds(t)
  BY <1>3, StaysHeld DEF UploadEnds
<1>4. CASE GiveUp(t)
  BY <1>4, StaysHeld DEF GiveUp
<1>5. CASE ListFiles(t)
  BY <1>5, StaysHeld DEF ListFiles
<1>6. CASE DownloadFile(t)
  <2>1. PICK label \in {"done", "ended"} : Goto(t, label)
    BY <1>6 DEF DownloadFile
  <2> QED
    BY <1>6, <2>1, ReachesOwn DEF DownloadFile, AtEnvd, Goto
<1>7. CASE OpenFile(t)
  BY <1>7, ReachesOwn DEF OpenFile
<1>8. CASE CloseFile(t)
  BY <1>8 DEF CloseFile, Inv, HostType, EntryInv, HeldInv, Started, OwnVm, Given, host
<1>9. CASE Ask(t)
  BY <1>9, ReachesOwn DEF Ask, Goto
<1>10. CASE Receive(t)
  <2>1. PICK label \in {"done", "receive"} : Goto(t, label)
    BY <1>10 DEF Receive
  <2> QED
    BY <1>10, <2>1, StaysHeld DEF Receive
<1>11. CASE TakeList(t)
  BY <1>11, ReachesOwn DEF TakeList, AtEnvd, Goto
<1> QED
  BY <1>1, <1>2, <1>3, <1>4, <1>5, <1>6, <1>7, <1>8, <1>9, <1>10, <1>11 DEF Request

\* The agent's messages and its end change no address.
LEMMA AgentInv ==
  ASSUME Inv, NEW a \in Addrs, Produce(a) \/ AgentEnds(a)
  PROVE  Inv'
<1>1. CASE Produce(a)
  BY <1>1 DEF Produce, Inv, HostType, EntryInv, HeldInv, Started, OwnVm, Given, host
<1>2. CASE AgentEnds(a)
  <2>1. /\ UNCHANGED <<host, alive, addr, reached>>
        /\ pc' = [t \in Tasks |-> IF t \in Receiving(a) THEN "ended" ELSE pc[t]]
    BY <1>2 DEF AgentEnds
  <2>2. HostType'
    BY <2>1 DEF Inv, HostType, Labels, InFlight, host
  <2>3. HeldInv'
    BY <2>1 DEF Inv, HeldInv, Started, Receiving, Given, host
  <2> QED
    BY <2>1, <2>2, <2>3 DEF Inv, EntryInv, OwnVm, Given, host
<1> QED
  BY <1>1, <1>2

LEMMA NextInv ==
  ASSUME Inv, [Next]_vars
  PROVE  Inv'
<1>1. CASE Next
  BY <1>1, VmsInv, RequestInv, AgentInv DEF Next
<1>2. CASE UNCHANGED vars
  BY <1>2 DEF vars, host, Inv, HostType, EntryInv, HeldInv, Started, OwnVm, Given
<1> QED
  BY <1>1, <1>2

\* No request reaches the VM of another user, for any number of users, tasks and
\* addresses: an address is given out once, so the one that a request holds
\* was its user's or is nobody's any more.
THEOREM RequestsReachTheirOwnVm == Spec => []OwnVm
<1>1. Inv => OwnVm
  BY DEF Inv
<1> QED
  BY InitInv, NextInv, <1>1, PTL DEF Spec

-----------------------------------------------------------------------------
(* The types of the rest.                                                  *)

EnvdType ==
  /\ writer \in [Tasks -> {"none", "open", "closed", "failed"}]
  /\ stored \subseteq Tasks
  /\ disk \in [Addrs -> SUBSET [of : Tasks, bytes : {"part", "all", "decoded"}]]

SdkType ==
  /\ asked \in [Addrs -> Seq(Tasks)] /\ said \in [Addrs -> 0 .. Length - 1]
  /\ out \in [Addrs -> Seq(Messages)] /\ got \in [Tasks -> Seq(Messages)]
  /\ lives \in [Addrs -> SUBSET Tasks] /\ alone \subseteq Tasks
  /\ crashes \in 0 .. MaxCrashes

-----------------------------------------------------------------------------
(* Files.                                                                  *)

\* Only a task with a file, and with an address, uploads.
WriterInv ==
  \A t \in Tasks :
    /\ pc[t] = "idle" => writer[t] = "none"
    /\ writer[t] # "none" => t \in WithFile /\ addr[t] \in Addrs
    /\ t \in stored => writer[t] = "closed"

\* The file of a VM that one task has written to is that task's, all of it when
\* the task's handler has seen no error.
Left(t) == IF writer[t] = "closed" THEN All(t) ELSE Part(t)

DiskInv ==
  \A t \in Tasks : writer[t] # "none" =>
    \/ disk[addr[t]] = {Left(t)}
    \/ \E q \in WithFile \ {t} : addr[q] = addr[t] /\ writer[q] # "none"

FileInv == WriterInv /\ DiskInv

-----------------------------------------------------------------------------
(* Answers.                                                                *)

Unasked == {"idle", "notfound", "upload", "send", "listing"}

\* The agent server knows the tasks that were sent to it, and no others.
LivesInv ==
  \A t \in Tasks :
    /\ pc[t] \in Unasked => got[t] = <<>>
    /\ pc[t] = "receive" => addr[t] \in Addrs /\ t \in lives[addr[t]]
    /\ \A a \in Addrs : t \in lives[a] => addr[t] = a /\ pc[t] \notin Unasked

\* The messages end with a result when no query is left to answer.
QueueInv ==
  \A a \in Addrs : asked[a] = <<>> =>
    said[a] = 0 /\ (out[a] = <<>> \/ Len(out[a]) \in Results(a))

Finished(a) == {q \in lives[a] : pc[q] = "done"}

\* Each query has one result: it was received, it waits, or it is to come.
CountInv ==
  \A a \in Addrs :
    Cardinality(Finished(a)) + Cardinality(Results(a)) + Len(asked[a])
      = Cardinality(lives[a])

\* A task that has the agent for itself: what is out is the next part of its
\* answer, what is to come is the rest.
Serves(a, t) ==
  /\ Receiving(a) = {t}
  /\ \A i \in DOMAIN out[a] : out[a][i] = [of |-> t, n |-> Len(got[t]) + i]
  /\ \/ asked[a] = <<t>> /\ Len(got[t]) + Len(out[a]) = said[a]
     \/ asked[a] = <<>> /\ Len(got[t]) + Len(out[a]) = Length

Told(t) ==
  /\ pc[t] \in {"receive", "done", "ended"}
  /\ \A i \in DOMAIN got[t] : got[t][i] = [of |-> t, n |-> i]
  /\ pc[t] = "done" => Len(got[t]) = Length
  /\ pc[t] = "receive" => Serves(addr[t], t)

AloneInv == \A t \in alone : Told(t)

SdkInv == LivesInv /\ QueueInv /\ CountInv /\ AloneInv

-----------------------------------------------------------------------------
(* Sequences of messages.                                                  *)

\* Where the results are.
Marks(s) == {i \in DOMAIN s : s[i].n = Length}

LEMMA MarksFinite ==
  ASSUME NEW s \in Seq(Messages)
  PROVE  /\ Marks(s) \subseteq 1 .. Len(s) /\ IsFiniteSet(Marks(s))
         /\ Cardinality(Marks(s)) \in Nat
<1>1. Marks(s) \subseteq 1 .. Len(s)
  BY DEF Marks
<1>2. Len(s) \in Nat
  BY LenProperties
<1>3. IsFiniteSet(1 .. Len(s))
  BY <1>2, FS_Interval
<1>4. IsFiniteSet(Marks(s))
  BY <1>1, <1>3, FS_Subset
<1> QED
  BY <1>1, <1>4, FS_CardinalityType

LEMMA AppendMarks ==
  ASSUME NEW s \in Seq(Messages), NEW m \in Messages
  PROVE  Cardinality(Marks(Append(s, m))) =
           IF m.n = Length THEN Cardinality(Marks(s)) + 1 ELSE Cardinality(Marks(s))
<1>1. /\ Len(Append(s, m)) = Len(s) + 1
      /\ \A i \in 1 .. Len(s) : Append(s, m)[i] = s[i]
      /\ Append(s, m)[Len(s) + 1] = m
  BY AppendProperties
<1>2. Marks(Append(s, m)) =
        IF m.n = Length THEN Marks(s) \union {Len(s) + 1} ELSE Marks(s)
  BY <1>1 DEF Marks
<1>3. Len(s) + 1 \notin Marks(s) /\ IsFiniteSet(Marks(s))
  BY MarksFinite, LenProperties
<1>4. Cardinality(Marks(s) \union {Len(s) + 1}) = Cardinality(Marks(s)) + 1
  BY <1>3, FS_AddElement
<1> QED
  BY <1>2, <1>4

LEMMA TailMarks ==
  ASSUME NEW s \in Seq(Messages), s # <<>>
  PROVE  Cardinality(Marks(Tail(s))) =
           IF Head(s).n = Length THEN Cardinality(Marks(s)) - 1
                                 ELSE Cardinality(Marks(s))
<1>1. /\ Len(Tail(s)) = Len(s) - 1
      /\ \A i \in 1 .. Len(Tail(s)) : Tail(s)[i] = s[i + 1]
      /\ Head(s) = s[1]
  BY HeadTailProperties
<1> DEFINE S == Marks(s) \ {1}
           T == Marks(Tail(s))
           f == [i \in S |-> i - 1]
<1>2. f \in [S -> T]
  BY <1>1 DEF Marks
<1>3. \A i, j \in S : f[i] = f[j] => i = j
  BY DEF Marks
<1>4. \A j \in T : j + 1 \in S /\ f[j + 1] = j
  BY <1>1 DEF Marks
<1>5. f \in Bijection(S, T)
  BY <1>2, <1>3, <1>4, Fun_IsBij
<1>6. IsFiniteSet(S) /\ Cardinality(T) = Cardinality(S)
  <2>1. IsFiniteSet(S)
    BY MarksFinite, FS_RemoveElement
  <2>2. ExistsBijection(S, T)
    BY <1>5 DEF ExistsBijection
  <2> HIDE DEF S, T
  <2> QED
    BY <2>1, <2>2, FS_Bijection
<1>7. 1 \in Marks(s) <=> Head(s).n = Length
  BY <1>1 DEF Marks
<1> QED
  BY <1>6, <1>7, MarksFinite, FS_RemoveElement

-----------------------------------------------------------------------------
(* The file of a task.                                                     *)

LEMMA InitFile == Init => EnvdType /\ FileInv
BY DEF Init, EnvdType, FileInv, WriterInv, DiskInv

\* A request whose address is known goes on; nobody writes.
LEMMA SameFiles ==
  ASSUME HostType, EnvdType, FileInv, NEW t \in Tasks, NEW label \in Labels,
         Goto(t, label), label \notin {"upload", "idle"}, UNCHANGED <<addr, envd>>
  PROVE  EnvdType' /\ FileInv'
BY DEF HostType, EnvdType, FileInv, WriterInv, DiskInv, Left, Goto, envd

LEMMA RequestFile ==
  ASSUME HostType, EnvdType, FileInv, NEW t \in Tasks, Request(t),
         Relay(t) => microvms[UserOf[t]] \in Addrs
  PROVE  EnvdType' /\ FileInv'
<1> USE DEF Labels, InFlight
<1>1. CASE NotFound(t) \/ GiveUp(t) \/ TakeList(t) \/ ListFiles(t)
  BY <1>1, SameFiles DEF NotFound, GiveUp, TakeList, ListFiles
<1>2. CASE DownloadFile(t) \/ Ask(t) \/ Receive(t)
  <2>1. PICK label \in {"done", "ended", "receive"} : Goto(t, label)
    BY <1>2 DEF DownloadFile, Ask, Receive
  <2> QED
    BY <1>2, <2>1, SameFiles DEF DownloadFile, Ask, Receive
<1>3. CASE Relay(t)
  <2>1. /\ writer[t] = "none"
        /\ addr' = [addr EXCEPT ![t] = microvms[UserOf[t]]]
        /\ pc' = [pc EXCEPT ![t] = IF t \in WithFile THEN "upload" ELSE "send"]
        /\ UNCHANGED envd
    BY <1>3 DEF Relay, Goto, FileInv, WriterInv
  <2>2. \A q \in Tasks : writer[q] # "none" => addr'[q] = addr[q]
    BY <2>1 DEF HostType
  <2>3. EnvdType' /\ WriterInv'
    BY <2>1 DEF HostType, EnvdType, FileInv, WriterInv, envd
  <2>4. DiskInv'
    BY <2>1, <2>2 DEF FileInv, DiskInv, Left, envd
  <2> QED
    BY <2>3, <2>4 DEF FileInv
<1>4. CASE UploadEnds(t)
  BY <1>4 DEF UploadEnds, Goto, HostType, EnvdType, FileInv, WriterInv, DiskInv,
                  Left
<1>5. CASE OpenFile(t)
  <2>1. /\ t \in WithFile /\ pc[t] # "idle" /\ addr[t] \in Addrs
        /\ writer[t] = "none" /\ writer' = [writer EXCEPT ![t] = "open"]
        /\ disk' = [disk EXCEPT ![addr[t]] =
                      {Part(q) : q \in Writing(addr[t]) \union {t}}]
        /\ UNCHANGED <<pc, addr, stored>>
    BY <1>5 DEF OpenFile, HostType
  <2>2. EnvdType' /\ WriterInv'
    <3>1. {Part(q) : q \in Writing(addr[t]) \union {t}}
            \subseteq [of : Tasks, bytes : {"part", "all", "decoded"}]
      BY DEF Part, Writing
    <3>2. EnvdType'
      BY <2>1, <3>1 DEF EnvdType
    <3> QED
      BY <2>1, <3>2 DEF EnvdType, FileInv, WriterInv
  <2>3. ASSUME NEW q \in Tasks, writer'[q] # "none"
        PROVE  \/ disk'[addr[q]] = {Left(q)'}
               \/ \E p \in WithFile \ {q} : addr[p] = addr[q] /\ writer'[p] # "none"
    <3>1. CASE q # t /\ addr[q] = addr[t]
      BY <2>1, <3>1 DEF EnvdType
    <3>2. CASE q # t /\ addr[q] # addr[t]
      <4>1. /\ disk'[addr[q]] = disk[addr[q]] /\ writer[q] # "none"
            /\ Left(q)' = Left(q)
        BY <2>1, <2>3, <3>2 DEF EnvdType, FileInv, WriterInv, Left, All, Part
      <4> QED
        BY <2>1, <4>1 DEF FileInv, DiskInv, EnvdType
    <3>3. CASE q = t /\ Writing(addr[t]) \subseteq {t}
      <4>1. disk'[addr[t]] = {Part(t)}
        BY <2>1, <3>3 DEF EnvdType
      <4>2. Left(t)' = Part(t)
        BY <2>1 DEF EnvdType, Left, Part
      <4> QED
        BY <2>1, <3>3, <4>1, <4>2
    <3>4. CASE q = t /\ ~(Writing(addr[t]) \subseteq {t})
      <4>1. PICK p \in Tasks \ {t} : writer[p] = "open" /\ addr[p] = addr[t]
        BY <3>4 DEF Writing
      <4>2. p \in WithFile /\ writer'[p] # "none"
        BY <2>1, <4>1 DEF FileInv, WriterInv, EnvdType
      <4> QED
        BY <3>4, <4>1, <4>2
    <3> QED
      BY <3>1, <3>2, <3>3, <3>4
  <2>4. DiskInv'
    BY <2>1, <2>3 DEF DiskInv
  <2> QED
    BY <2>2, <2>4 DEF FileInv
<1>6. CASE CloseFile(t)
  <2>1. /\ writer[t] = "open" /\ addr[t] \in Addrs /\ UNCHANGED <<pc, addr, stored>>
        /\ \/ /\ writer' = [writer EXCEPT ![t] = "closed"]
              /\ disk' = [disk EXCEPT ![addr[t]] =
                            IF @ = {Part(t)} THEN {All(t)} ELSE @]
           \/ /\ writer' = [writer EXCEPT ![t] = "failed"]
              /\ disk' = disk
    BY <1>6 DEF CloseFile, HostType
  <2>2. /\ \A q \in Tasks : writer'[q] # "none" <=> writer[q] # "none"
        /\ \A q \in Tasks \ {t} : writer'[q] = writer[q]
        /\ \A a \in Addrs \ {addr[t]} : disk'[a] = disk[a]
    BY <2>1 DEF EnvdType
  <2>3. EnvdType' /\ WriterInv'
    <3>1. All(t) \in [of : Tasks, bytes : {"part", "all", "decoded"}]
      BY DEF All
    <3>2. EnvdType'
      BY <2>1, <3>1 DEF EnvdType
    <3> QED
      BY <2>1, <2>2, <3>2 DEF EnvdType, FileInv, WriterInv
  <2>4. ASSUME NEW q \in Tasks, writer'[q] # "none"
        PROVE  \/ disk'[addr[q]] = {Left(q)'}
               \/ \E p \in WithFile \ {q} : addr[p] = addr[q] /\ writer'[p] # "none"
    <3>1. CASE q # t /\ addr[q] = addr[t]
      BY <2>1, <2>2, <3>1 DEF FileInv, WriterInv
    <3>2. CASE q # t /\ addr[q] # addr[t]
      <4>1. /\ disk'[addr[q]] = disk[addr[q]] /\ writer[q] # "none"
            /\ Left(q)' = Left(q)
        BY <2>2, <2>4, <3>2 DEF FileInv, WriterInv, Left, All, Part
      <4> QED
        BY <2>2, <4>1 DEF FileInv, DiskInv
    <3>3. CASE q = t /\ disk[addr[t]] = {Part(t)}
      <4>1. \/ disk'[addr[t]] = {All(t)} /\ writer'[t] = "closed"
            \/ disk'[addr[t]] = {Part(t)} /\ writer'[t] = "failed"
        BY <2>1, <3>3 DEF EnvdType
      <4>2. Left(t)' = IF writer'[t] = "closed" THEN All(t) ELSE Part(t)
        BY DEF Left, All, Part
      <4> QED
        BY <2>1, <3>3, <4>1, <4>2
    <3>4. CASE q = t /\ disk[addr[t]] # {Part(t)}
      <4>1. PICK p \in WithFile \ {t} : addr[p] = addr[t] /\ writer[p] # "none"
        BY <2>1, <3>4 DEF FileInv, DiskInv, Left
      <4> QED
        BY <2>2, <3>4, <4>1
    <3> QED
      BY <3>1, <3>2, <3>3, <3>4
  <2>5. DiskInv'
    BY <2>1, <2>4 DEF DiskInv
  <2> QED
    BY <2>3, <2>5 DEF FileInv
<1> QED
  BY <1>1, <1>2, <1>3, <1>4, <1>5, <1>6 DEF Request

LEMMA NextFile ==
  ASSUME Inv, EnvdType, FileInv, [Next]_vars
  PROVE  EnvdType' /\ FileInv'
<1>1. CASE Vms \/ UNCHANGED vars \/ \E a \in Addrs : Produce(a)
  BY <1>1 DEF Vms, Create, Kill, VmExits, Produce, vars, envd, EnvdType, FileInv,
              WriterInv, DiskInv, Left
<1>2. ASSUME NEW t \in Tasks, Request(t)
      PROVE  EnvdType' /\ FileInv'
  <2>1. Relay(t) => microvms[UserOf[t]] \in Addrs
    BY DEF Relay, Inv, EntryInv, Given
  <2> QED
    BY <1>2, <2>1, RequestFile DEF Inv
<1>3. ASSUME NEW a \in Addrs, AgentEnds(a)
      PROVE  EnvdType' /\ FileInv'
  <2>1. /\ UNCHANGED <<addr, envd>>
        /\ pc' = [t \in Tasks |-> IF t \in Receiving(a) THEN "ended" ELSE pc[t]]
    BY <1>3 DEF AgentEnds
  <2> QED
    BY <2>1 DEF envd, EnvdType, FileInv, WriterInv, DiskInv, Left
<1> QED
  BY <1>1, <1>2, <1>3 DEF Next

-----------------------------------------------------------------------------
(* The answers of an agent.                                                *)

\* What an agent has out, and who has a result, are finite.
LEMMA SdkFinite ==
  ASSUME SdkType, NEW a \in Addrs
  PROVE  /\ IsFiniteSet(lives[a]) /\ IsFiniteSet(Finished(a))
         /\ IsFiniteSet(Results(a))
         /\ Cardinality(lives[a]) \in Nat /\ Cardinality(Finished(a)) \in Nat
         /\ Cardinality(Results(a)) \in Nat /\ Len(asked[a]) \in Nat
<1>1. lives[a] \subseteq Tasks /\ Finished(a) \subseteq lives[a]
  BY DEF SdkType, Finished
<1>2. IsFiniteSet(lives[a])
  BY <1>1, FS_Subset
<1>3. IsFiniteSet(Finished(a))
  BY <1>1, <1>2, FS_Subset
<1>4. out[a] \in Seq(Messages) /\ asked[a] \in Seq(Tasks)
  BY DEF SdkType
<1>5. Results(a) = Marks(out[a])
  BY DEF Results, Marks
<1>6. IsFiniteSet(Results(a)) /\ Cardinality(Results(a)) \in Nat
  BY <1>4, <1>5, MarksFinite
<1>7. Cardinality(lives[a]) \in Nat /\ Cardinality(Finished(a)) \in Nat
  BY <1>2, <1>3, FS_CardinalityType
<1> QED
  BY <1>2, <1>3, <1>4, <1>6, <1>7, LenProperties

LEMMA InitSdk == Init => SdkType /\ SdkInv
<1> SUFFICES ASSUME Init
             PROVE  SdkType /\ SdkInv
  OBVIOUS
<1>1. SdkType
  BY DEF Init, SdkType
<1>2. LivesInv /\ QueueInv /\ AloneInv
  BY DEF Init, LivesInv, QueueInv, AloneInv
<1>3. \A a \in Addrs : Finished(a) = {} /\ Results(a) = {} /\ asked[a] = <<>>
                       /\ lives[a] = {}
  BY DEF Init, Finished, Results
<1>4. Cardinality({}) = 0 /\ Len(<<>>) = 0
  BY FS_EmptySet
<1>5. ASSUME NEW a \in Addrs
      PROVE  Cardinality(Finished(a)) + Cardinality(Results(a)) + Len(asked[a])
               = Cardinality(lives[a])
  <2>1. Finished(a) = {} /\ Results(a) = {} /\ asked[a] = <<>> /\ lives[a] = {}
    BY <1>3
  <2> QED
    BY <2>1, <1>4
<1> QED
  BY <1>1, <1>2, <1>5 DEF SdkInv, CountInv

\* What a task was told does not change when nothing happens to it, nor to the
\* agent that it waits for.
LEMMA StaysTold ==
  ASSUME NEW t, Told(t), got'[t] = got[t], addr'[t] = addr[t],
         pc'[t] \in {pc[t], "ended"},
         pc'[t] = "receive" =>
           /\ Receiving(addr[t])' = Receiving(addr[t])
           /\ asked'[addr[t]] = asked[addr[t]]
           /\ said'[addr[t]] = said[addr[t]]
           /\ out'[addr[t]] = out[addr[t]]
  PROVE  Told(t)'
<1>1. CASE pc'[t] = "receive"
  <2>1. Serves(addr[t], t)
    BY <1>1 DEF Told
  <2>2. Serves(addr[t], t)'
    BY <1>1, <2>1 DEF Serves
  <2> QED
    BY <1>1, <2>2 DEF Told
<1>2. CASE pc'[t] # "receive"
  BY <1>2 DEF Told
<1> QED
  BY <1>1, <1>2

\* A request that the agent server does not know may go anywhere but to it.
LEMMA OutsideSdk ==
  ASSUME SdkType, SdkInv, NEW t \in Tasks, pc[t] \in Unasked,
         \A q \in Tasks \ {t} : pc'[q] = pc[q] /\ addr'[q] = addr[q],
         pc'[t] # "receive", UNCHANGED <<sdk, got, alone, crashes>>
  PROVE  SdkType' /\ SdkInv'
<1>1. UNCHANGED <<asked, said, out, lives, got, alone, crashes>>
  BY DEF sdk
<1>2. t \notin alone /\ \A a \in Addrs : t \notin lives[a]
  BY DEF SdkInv, LivesInv, AloneInv, Told, Unasked
<1>3. SdkType'
  BY <1>1 DEF SdkType
<1>4. LivesInv'
  BY <1>1, <1>2 DEF SdkInv, LivesInv
<1>5. \A a \in Addrs : Finished(a)' = Finished(a) /\ Results(a)' = Results(a)
  BY <1>1, <1>2 DEF Finished, Results, SdkType
<1>6. QueueInv' /\ CountInv'
  BY <1>1, <1>5 DEF SdkInv, QueueInv, CountInv
<1>7. \A a : Receiving(a)' = Receiving(a)
  BY DEF Receiving, Unasked
<1>8. AloneInv'
  BY <1>1, <1>2, <1>7, StaysTold DEF SdkInv, AloneInv, SdkType
<1> QED
  BY <1>3, <1>4, <1>6, <1>8 DEF SdkInv

LEMMA SameSdk ==
  ASSUME SdkType, SdkInv, UNCHANGED <<pc, addr, sdk, got, alone, crashes>>
  PROVE  SdkType' /\ SdkInv'
<1>1. SdkType' /\ LivesInv'
  BY DEF sdk, SdkType, SdkInv, LivesInv
<1>2. QueueInv' /\ CountInv'
  BY DEF sdk, SdkInv, QueueInv, CountInv, Finished, Results
<1>3. AloneInv'
  BY StaysTold DEF sdk, SdkInv, AloneInv, Receiving
<1> QED
  BY <1>1, <1>2, <1>3 DEF SdkInv

\* Who gives up is not told his result: it stays with the agent.
LEMMA GiveUpSdk ==
  ASSUME HostType, SdkType, SdkInv, NEW t \in Tasks, GiveUp(t)
  PROVE  SdkType' /\ SdkInv'
<1>1. /\ pc' = [pc EXCEPT ![t] = "ended"] /\ pc[t] \in {"send", "listing", "receive"}
      /\ UNCHANGED <<addr, asked, said, out, lives, got, alone, crashes>>
  BY DEF GiveUp, Goto, sdk
<1>2. CASE pc[t] \in {"send", "listing"}
  BY <1>1, <1>2, OutsideSdk DEF Unasked, HostType, sdk
<1>3. CASE pc[t] = "receive"
  <2>1. SdkType' /\ LivesInv'
    BY <1>1, <1>3 DEF HostType, SdkType, SdkInv, LivesInv, Unasked
  <2>2. \A a \in Addrs : Finished(a)' = Finished(a) /\ Results(a)' = Results(a)
    BY <1>1, <1>3 DEF Finished, Results, HostType, SdkType
  <2>3. QueueInv' /\ CountInv'
    BY <1>1, <2>2 DEF SdkInv, QueueInv, CountInv
  <2>4. ASSUME NEW q \in alone
        PROVE  Told(q)'
    <3>1. q \in Tasks /\ Told(q) /\ pc'[q] \in {pc[q], "ended"}
      BY <1>1 DEF HostType, SdkType, SdkInv, AloneInv
    <3>2. ASSUME pc'[q] = "receive"
          PROVE  Receiving(addr[q])' = Receiving(addr[q])
      <4>1. q # t /\ pc[q] = "receive" /\ Receiving(addr[q]) = {q}
        BY <1>1, <3>1, <3>2 DEF HostType, Told, Serves
      <4>2. addr[t] # addr[q]
        BY <1>3, <4>1 DEF Receiving
      <4> QED
        BY <1>1, <4>2 DEF HostType, Receiving
    <3> QED
      BY <1>1, <3>1, <3>2, StaysTold
  <2>5. AloneInv'
    BY <1>1, <2>4 DEF AloneInv
  <2> QED
    BY <2>1, <2>3, <2>5 DEF SdkInv
<1> QED
  BY <1>1, <1>2, <1>3

\* An agent whose tasks were all told their results is at rest.
LEMMA AtRest ==
  ASSUME SdkType, SdkInv, NEW a \in Addrs, \A q \in lives[a] : pc[q] = "done"
  PROVE  asked[a] = <<>> /\ said[a] = 0 /\ out[a] = <<>> /\ Receiving(a) = {}
<1>1. Finished(a) = lives[a]
  BY DEF Finished
<1>2. Cardinality(Results(a)) + Len(asked[a]) = 0
  BY <1>1, SdkFinite DEF SdkInv, CountInv
<1>3. Cardinality(Results(a)) = 0 /\ Len(asked[a]) = 0
  BY <1>2, SdkFinite
<1>4. asked[a] = <<>>
  BY <1>3, EmptySeq DEF SdkType
<1>5. Results(a) = {}
  BY <1>3, SdkFinite, FS_EmptySet
<1>6. Receiving(a) = {}
  BY DEF Receiving, SdkInv, LivesInv
<1> QED
  BY <1>4, <1>5, <1>6 DEF SdkInv, QueueInv

\* One that joins has no part in what others were alone with; one that finds the
\* agent at rest has it for itself.
LEMMA AskSdk ==
  ASSUME HostType, SdkType, SdkInv, NEW t \in Tasks, Ask(t)
  PROVE  SdkType' /\ SdkInv'
<1>1. PICK a \in Addrs :
      /\ pc[t] = "send" /\ a = addr[t]
      /\ pc' = [pc EXCEPT ![t] = "receive"]
      /\ asked' = [asked EXCEPT ![a] = Append(@, t)]
      /\ lives' = [lives EXCEPT ![a] = @ \union {t}]
      /\ alone' = IF \A q \in lives[a] : pc[q] = "done"
                    THEN alone \union {t} ELSE alone \ Receiving(a)
      /\ UNCHANGED <<addr, said, out, got, crashes>>
  BY DEF Ask, Query, Goto, HostType
<1>2. got[t] = <<>> /\ t \notin alone /\ \A b \in Addrs : t \notin lives[b]
  BY <1>1 DEF SdkInv, LivesInv, AloneInv, Told, Unasked
<1>3. SdkType'
  BY <1>1 DEF SdkType
<1>4. LivesInv'
  BY <1>1, <1>2 DEF HostType, SdkType, SdkInv, LivesInv, Unasked
<1>5. /\ Len(asked'[a]) = Len(asked[a]) + 1 /\ asked'[a] # <<>>
      /\ \A b \in Addrs \ {a} : asked'[b] = asked[b] /\ lives'[b] = lives[b]
      /\ lives'[a] = lives[a] \union {t}
  <2>1. asked'[a] = Append(asked[a], t) /\ asked[a] \in Seq(Tasks)
    BY <1>1 DEF SdkType
  <2>2. Len(asked'[a]) = Len(asked[a]) + 1 /\ asked'[a] # <<>>
    BY <2>1, AppendProperties
  <2> QED
    BY <1>1, <2>2 DEF SdkType
<1>6. \A b \in Addrs : Finished(b)' = Finished(b) /\ Results(b)' = Results(b)
  BY <1>1, <1>2, <1>5 DEF Finished, Results, HostType, SdkType
<1>7. QueueInv'
  BY <1>1, <1>5, <1>6 DEF SdkInv, QueueInv
<1>8. Cardinality(lives'[a]) = Cardinality(lives[a]) + 1
  <2>1. IsFiniteSet(lives[a]) /\ t \notin lives[a]
    BY <1>1, <1>2, SdkFinite
  <2>2. Cardinality(lives[a] \union {t}) = Cardinality(lives[a]) + 1
    BY <2>1, FS_AddElement
  <2> QED
    BY <1>5, <2>2
<1>9. CountInv'
  <2>1. ASSUME NEW b \in Addrs \ {a}
        PROVE  Cardinality(Finished(b)') + Cardinality(Results(b)') + Len(asked'[b])
                 = Cardinality(lives'[b])
    BY <1>5, <1>6 DEF SdkInv, CountInv
  <2>2. Cardinality(Finished(a)) + Cardinality(Results(a)) + Len(asked[a])
          = Cardinality(lives[a])
    BY <1>1 DEF SdkInv, CountInv
  <2>3. Cardinality(Finished(a)') + Cardinality(Results(a)') + Len(asked'[a])
          = Cardinality(lives'[a])
    <3>1. Finished(a)' = Finished(a) /\ Results(a)' = Results(a)
      BY <1>6
    <3>2. /\ Cardinality(Finished(a)) \in Nat /\ Cardinality(Results(a)) \in Nat
          /\ Len(asked[a]) \in Nat
      BY SdkFinite
    <3> QED
      BY <1>5, <1>8, <2>2, <3>1, <3>2
  <2> QED
    BY <2>1, <2>3 DEF CountInv
<1>10. \A q \in alone : q # t /\ q \in Tasks /\ pc'[q] = pc[q]
  BY <1>1, <1>2 DEF HostType, SdkType
<1>11. CASE \A q \in lives[a] : pc[q] = "done"
  <2>1. asked[a] = <<>> /\ said[a] = 0 /\ out[a] = <<>> /\ Receiving(a) = {}
    BY <1>1, <1>11, AtRest
  <2>2. asked'[a] = <<t>> /\ out'[a] = <<>> /\ said'[a] = 0
    BY <1>1, <2>1 DEF SdkType
  <2>3. Receiving(a)' = {t}
    BY <1>1, <2>1 DEF Receiving, HostType
  <2>4. Told(t)'
    <3>1. Serves(a, t)'
      BY <1>1, <1>2, <2>1, <2>2, <2>3 DEF Serves
    <3> QED
      BY <1>1, <1>2, <3>1 DEF Told, HostType
  <2>5. ASSUME NEW q \in alone
        PROVE  Told(q)'
    <3>1. q \in Tasks /\ Told(q) /\ pc'[q] = pc[q]
      BY <1>10 DEF SdkInv, AloneInv
    <3>2. ASSUME pc[q] = "receive"
          PROVE  Receiving(addr[q])' = Receiving(addr[q])
                 /\ asked'[addr[q]] = asked[addr[q]]
      <4>1. addr[q] \in Addrs \ {a}
        BY <2>1, <3>1, <3>2 DEF Receiving, SdkInv, LivesInv
      <4> QED
        BY <1>1, <1>5, <4>1 DEF Receiving, HostType
    <3> QED
      BY <1>1, <3>1, <3>2, StaysTold
  <2>6. AloneInv'
    BY <1>1, <1>11, <2>4, <2>5 DEF AloneInv
  <2> QED
    BY <1>3, <1>4, <1>7, <1>9, <2>6 DEF SdkInv
<1>12. CASE ~ \A q \in lives[a] : pc[q] = "done"
  <2>1. alone' = alone \ Receiving(a)
    BY <1>1, <1>12
  <2>2. ASSUME NEW q \in alone, q \notin Receiving(a)
        PROVE  Told(q)'
    <3>1. q \in Tasks /\ Told(q) /\ pc'[q] = pc[q]
      BY <1>10 DEF SdkInv, AloneInv
    <3>2. ASSUME pc[q] = "receive"
          PROVE  Receiving(addr[q])' = Receiving(addr[q])
                 /\ asked'[addr[q]] = asked[addr[q]]
      <4>1. addr[q] \in Addrs \ {a}
        BY <2>2, <3>1, <3>2 DEF Receiving, SdkInv, LivesInv
      <4> QED
        BY <1>1, <1>5, <4>1 DEF Receiving, HostType
    <3> QED
      BY <1>1, <3>1, <3>2, StaysTold
  <2>3. AloneInv'
    BY <2>1, <2>2 DEF AloneInv
  <2> QED
    BY <1>3, <1>4, <1>7, <1>9, <2>3 DEF SdkInv
<1> QED
  BY <1>11, <1>12

\* Each message is the next one of the query that came first; with the last one
\* the query is a result.
LEMMA ProduceSdk ==
  ASSUME SdkType, SdkInv, NEW a \in Addrs, Produce(a)
  PROVE  SdkType' /\ SdkInv'
<1> DEFINE m == [of |-> Head(asked[a]), n |-> said[a] + 1]
<1>1. /\ asked[a] # <<>> /\ asked[a] \in Seq(Tasks) /\ said[a] \in 0 .. Length - 1
      /\ out[a] \in Seq(Messages)
  BY DEF Produce, SdkType
<1>2. /\ out' = [out EXCEPT ![a] = Append(@, m)]
      /\ IF said[a] + 1 = Length
           THEN said' = [said EXCEPT ![a] = 0] /\ asked' = [asked EXCEPT ![a] = Tail(@)]
           ELSE said' = [said EXCEPT ![a] = @ + 1] /\ asked' = asked
      /\ UNCHANGED <<pc, addr, lives, got, alone, crashes>>
  BY DEF Produce
<1>3. m \in Messages /\ Tail(asked[a]) \in Seq(Tasks) /\ m.n = said[a] + 1
      /\ Len(Tail(asked[a])) = Len(asked[a]) - 1
  BY <1>1, HeadTailProperties DEF Messages
<1>4. /\ out'[a] = Append(out[a], m) /\ out'[a] \in Seq(Messages)
      /\ Len(out'[a]) = Len(out[a]) + 1 /\ out'[a][Len(out[a]) + 1] = m
      /\ \A i \in 1 .. Len(out[a]) : out'[a][i] = out[a][i]
  <2>1. out'[a] = Append(out[a], m)
    BY <1>2 DEF SdkType
  <2> HIDE DEF m
  <2> QED
    BY <1>1, <1>3, <2>1, AppendProperties
<1>5. \A b \in Addrs \ {a} :
        asked'[b] = asked[b] /\ said'[b] = said[b] /\ out'[b] = out[b]
  BY <1>2 DEF SdkType
<1> HIDE DEF m
<1>6. SdkType'
  <2>1. out' \in [Addrs -> Seq(Messages)]
    BY <1>2, <1>4 DEF SdkType
  <2>2. said' \in [Addrs -> 0 .. Length - 1] /\ asked' \in [Addrs -> Seq(Tasks)]
    <3>1. CASE said[a] + 1 = Length
      <4>1. said' = [said EXCEPT ![a] = 0] /\ asked' = [asked EXCEPT ![a] = Tail(@)]
        BY <1>2, <3>1
      <4>2. said' \in [Addrs -> 0 .. Length - 1]
        BY <4>1 DEF SdkType
      <4>3. asked' \in [Addrs -> Seq(Tasks)]
        BY <1>3, <4>1 DEF SdkType
      <4> QED
        BY <4>2, <4>3
    <3>2. CASE said[a] + 1 # Length
      <4>1. said[a] + 1 \in 0 .. Length - 1
        BY <1>1, <3>2
      <4> QED
        BY <1>2, <3>2, <4>1 DEF SdkType
    <3> QED
      BY <3>1, <3>2
  <2> QED
    BY <1>2, <2>1, <2>2 DEF SdkType
<1>7. LivesInv'
  BY <1>2 DEF SdkInv, LivesInv
<1>8. \A b \in Addrs : Finished(b)' = Finished(b) /\ Receiving(b)' = Receiving(b)
  BY <1>2 DEF Finished, Receiving
<1>9. \A b \in Addrs \ {a} : Results(b)' = Results(b)
  BY <1>5 DEF Results
<1>10. Cardinality(Results(a)') =
         IF said[a] + 1 = Length THEN Cardinality(Results(a)) + 1
                                 ELSE Cardinality(Results(a))
  <2>1. Results(a) = Marks(out[a]) /\ Results(a)' = Marks(Append(out[a], m))
    BY <1>4 DEF Results, Marks
  <2> QED
    BY <1>1, <1>3, <2>1, AppendMarks
<1>11. Len(asked'[a]) = IF said[a] + 1 = Length THEN Len(asked[a]) - 1 ELSE Len(asked[a])
  BY <1>2, <1>3 DEF SdkType
<1>12. CountInv'
  <2>1. ASSUME NEW b \in Addrs \ {a}
        PROVE  Cardinality(Finished(b)') + Cardinality(Results(b)') + Len(asked'[b])
                 = Cardinality(lives'[b])
    BY <1>2, <1>5, <1>8, <1>9 DEF SdkInv, CountInv
  <2>2. Cardinality(Finished(a)') + Cardinality(Results(a)') + Len(asked'[a])
          = Cardinality(lives'[a])
    <3>1. Finished(a)' = Finished(a) /\ lives'[a] = lives[a]
      BY <1>2, <1>8
    <3>2. /\ Cardinality(Finished(a)) \in Nat /\ Cardinality(Results(a)) \in Nat
          /\ Len(asked[a]) \in Nat
      BY SdkFinite
    <3>3. Cardinality(Finished(a)) + Cardinality(Results(a)) + Len(asked[a])
            = Cardinality(lives[a])
      BY DEF SdkInv, CountInv
    <3> QED
      BY <1>10, <1>11, <3>1, <3>2, <3>3
  <2> QED
    BY <2>1, <2>2 DEF CountInv
<1>13. QueueInv'
  <2>1. ASSUME asked'[a] = <<>>
        PROVE  said'[a] = 0 /\ Len(out'[a]) \in Results(a)'
    <3>1. said[a] + 1 = Length /\ said'[a] = 0
      BY <1>1, <1>2, <2>1 DEF SdkType
    <3>2. Len(out'[a]) \in DOMAIN out'[a] /\ out'[a][Len(out'[a])].n = Length
      BY <1>1, <1>3, <1>4, <3>1, LenProperties
    <3> QED
      BY <3>1, <3>2 DEF Results
  <2> QED
    BY <1>5, <1>9, <2>1 DEF SdkInv, QueueInv
<1>14. ASSUME NEW q \in alone
       PROVE  Told(q)'
  <2>1. q \in Tasks /\ Told(q)
    BY DEF SdkType, SdkInv, AloneInv
  <2>2. CASE pc[q] = "receive" /\ addr[q] = a
    <3>1. Serves(a, q)
      BY <2>1, <2>2 DEF Told
    <3>2. asked[a] = <<q>> /\ Len(got[q]) + Len(out[a]) = said[a]
      BY <1>1, <3>1 DEF Serves
    <3>3. Len(got[q]) \in Nat /\ Len(out[a]) \in Nat /\ said[a] \in Nat
      BY <1>1, <2>1, LenProperties DEF SdkType
    <3> DEFINE g == Len(got[q])
               o == Len(out[a])
    <3>sum. said[a] + 1 = g + (o + 1)
      <4> HIDE DEF g, o
      <4>1. g \in Nat /\ o \in Nat /\ said[a] \in Nat /\ g + o = said[a]
        BY <3>2, <3>3 DEF g, o
      <4> QED
        BY <4>1
    <3>4. m = [of |-> q, n |-> Len(got[q]) + (Len(out[a]) + 1)]
      <4>1. Head(asked[a]) = q
        BY <3>2
      <4> QED
        BY <3>sum, <4>1 DEF m
    <3>5. \A i \in DOMAIN out'[a] : out'[a][i] = [of |-> q, n |-> Len(got[q]) + i]
      <4> SUFFICES ASSUME NEW i \in DOMAIN out'[a]
                   PROVE  out'[a][i] = [of |-> q, n |-> Len(got[q]) + i]
        OBVIOUS
      <4>1. i \in 1 .. Len(out[a]) + 1 /\ DOMAIN out[a] = 1 .. Len(out[a])
        BY <1>1, <1>4, LenProperties
      <4>2. CASE i = Len(out[a]) + 1
        BY <1>4, <3>4, <4>2
      <4>3. CASE i # Len(out[a]) + 1
        <5>1. i \in DOMAIN out[a] /\ i \in 1 .. Len(out[a])
          BY <3>3, <4>1, <4>3
        <5>2. out[a][i] = [of |-> q, n |-> Len(got[q]) + i]
          BY <3>1, <5>1 DEF Serves
        <5> QED
          BY <1>4, <5>1, <5>2
      <4> QED
        BY <4>2, <4>3
    <3>6. \/ asked'[a] = <<q>> /\ Len(got[q]) + Len(out'[a]) = said'[a]
          \/ asked'[a] = <<>> /\ Len(got[q]) + Len(out'[a]) = Length
      <4>1. CASE said[a] + 1 = Length
        <5>1. asked'[a] = Tail(asked[a]) /\ Len(asked'[a]) = 0
          BY <1>2, <1>11, <3>2, <4>1 DEF SdkType
        <5>2. asked'[a] = <<>>
          BY <1>3, <5>1, EmptySeq
        <5>3. Len(out'[a]) = Len(out[a]) + 1
          BY <1>4
        <5>4. Len(got[q]) + (Len(out[a]) + 1) = Length
          BY <3>sum, <4>1
        <5> QED
          BY <5>2, <5>3, <5>4
      <4>2. CASE said[a] + 1 # Length
        BY <1>1, <1>2, <1>4, <3>2, <3>3, <4>2 DEF SdkType
      <4> QED
        BY <4>1, <4>2
    <3>7. Serves(a, q)'
      BY <1>2, <1>8, <3>1, <3>5, <3>6 DEF Serves
    <3> QED
      BY <1>2, <2>1, <2>2, <3>7 DEF Told
  <2>3. CASE ~(pc[q] = "receive" /\ addr[q] = a)
    <3>1. pc[q] = "receive" => addr[q] \in Addrs \ {a}
      BY <2>1, <2>3 DEF SdkInv, LivesInv
    <3> QED
      BY <1>2, <1>5, <1>8, <2>1, <3>1, StaysTold
  <2> QED
    BY <2>2, <2>3
<1> QED
  BY <1>2, <1>6, <1>7, <1>12, <1>13, <1>14 DEF SdkInv, AloneInv

\* Who takes a result takes one that was there for him, or for another one.
LEMMA ReceiveSdk ==
  ASSUME HostType, SdkType, SdkInv, NEW t \in Tasks, Receive(t)
  PROVE  SdkType' /\ SdkInv'
<1>1. PICK a \in Addrs :
        /\ a = addr[t] /\ pc[t] = "receive" /\ out[a] # <<>>
        /\ got' = [got EXCEPT ![t] = Append(@, Head(out[a]))]
        /\ out' = [out EXCEPT ![a] = Tail(@)]
        /\ pc' = [pc EXCEPT ![t] =
                    IF Head(out[a]).n = Length THEN "done" ELSE "receive"]
        /\ UNCHANGED <<addr, asked, said, lives, alone, crashes>>
  BY DEF Receive, Goto, EndsWith, SdkInv, LivesInv
<1>2. /\ out[a] \in Seq(Messages) /\ Head(out[a]) \in Messages
      /\ Head(out[a]) = out[a][1] /\ 1 \in DOMAIN out[a]
      /\ Tail(out[a]) \in Seq(Messages) /\ Len(Tail(out[a])) = Len(out[a]) - 1
      /\ \A i \in 1 .. Len(Tail(out[a])) : Tail(out[a])[i] = out[a][i + 1]
  <2>1. out[a] \in Seq(Messages)
    BY DEF SdkType
  <2> QED
    BY <1>1, <2>1, HeadTailProperties
<1>3. /\ out'[a] = Tail(out[a])
      /\ \A b \in Addrs \ {a} : out'[b] = out[b]
  BY <1>1 DEF SdkType
<1>4. /\ got[t] \in Seq(Messages)
      /\ got'[t] = Append(got[t], Head(out[a]))
      /\ \A q \in Tasks \ {t} : got'[q] = got[q] /\ pc'[q] = pc[q]
      /\ pc'[t] = IF Head(out[a]).n = Length THEN "done" ELSE "receive"
  BY <1>1 DEF SdkType, HostType
<1>5. SdkType'
  <2>1. out' \in [Addrs -> Seq(Messages)]
    BY <1>1, <1>2 DEF SdkType
  <2>2. got' \in [Tasks -> Seq(Messages)]
    BY <1>1, <1>2, <1>4, AppendProperties DEF SdkType
  <2> QED
    BY <1>1, <2>1, <2>2 DEF SdkType
<1>6. t \in lives[a] /\ \A b \in Addrs \ {a} : t \notin lives[b]
  BY <1>1 DEF SdkInv, LivesInv
<1>7. LivesInv'
  BY <1>1, <1>4, <1>6 DEF SdkInv, LivesInv, SdkType, Unasked
<1>8. \A b \in Addrs \ {a} :
        /\ Finished(b)' = Finished(b) /\ Results(b)' = Results(b)
        /\ Receiving(b)' = Receiving(b)
  BY <1>1, <1>3, <1>4, <1>6 DEF Finished, Results, Receiving, SdkType
<1>9. Cardinality(Results(a)') =
        IF Head(out[a]).n = Length THEN Cardinality(Results(a)) - 1
                                   ELSE Cardinality(Results(a))
  <2>1. Results(a) = Marks(out[a]) /\ Results(a)' = Marks(Tail(out[a]))
    BY <1>3 DEF Results, Marks
  <2> QED
    BY <1>1, <1>2, <2>1, TailMarks
<1>10. Cardinality(Finished(a)') =
         IF Head(out[a]).n = Length THEN Cardinality(Finished(a)) + 1
                                    ELSE Cardinality(Finished(a))
  <2>1. t \notin Finished(a) /\ IsFiniteSet(Finished(a))
    BY <1>1, SdkFinite DEF Finished
  <2>2. Cardinality(Finished(a) \union {t}) = Cardinality(Finished(a)) + 1
    BY <2>1, FS_AddElement
  <2>3. Finished(a)' =
          IF Head(out[a]).n = Length THEN Finished(a) \union {t} ELSE Finished(a)
    BY <1>1, <1>4, <1>6 DEF Finished, SdkType
  <2> QED
    BY <2>2, <2>3
<1>11. CountInv'
  <2>1. ASSUME NEW b \in Addrs \ {a}
        PROVE  Cardinality(Finished(b)') + Cardinality(Results(b)') + Len(asked'[b])
                 = Cardinality(lives'[b])
    BY <1>1, <1>8 DEF SdkInv, CountInv
  <2>2. Cardinality(Finished(a)') + Cardinality(Results(a)') + Len(asked'[a])
          = Cardinality(lives'[a])
    <3>1. asked'[a] = asked[a] /\ lives'[a] = lives[a]
      BY <1>1
    <3>2. /\ Cardinality(Finished(a)) \in Nat /\ Cardinality(Results(a)) \in Nat
          /\ Len(asked[a]) \in Nat
      BY SdkFinite
    <3>3. Cardinality(Finished(a)) + Cardinality(Results(a)) + Len(asked[a])
            = Cardinality(lives[a])
      BY DEF SdkInv, CountInv
    <3> QED
      BY <1>9, <1>10, <3>1, <3>2, <3>3
  <2> QED
    BY <2>1, <2>2 DEF CountInv
<1>12. QueueInv'
  <2>1. ASSUME asked[a] = <<>>
        PROVE  said[a] = 0 /\ (out'[a] = <<>> \/ Len(out'[a]) \in Results(a)')
    <3>1. said[a] = 0 /\ Len(out[a]) \in Results(a)
      BY <1>1, <2>1 DEF SdkInv, QueueInv
    <3>2. CASE Len(out'[a]) = 0
      BY <1>2, <1>3, <3>1, <3>2, EmptySeq
    <3>3. CASE Len(out'[a]) # 0
      <4>1. Len(out'[a]) \in 1 .. Len(Tail(out[a])) /\ Len(out'[a]) + 1 = Len(out[a])
        <5> DEFINE o == Len(out[a])
        <5>1. o \in Nat /\ Len(out'[a]) = o - 1 /\ Len(Tail(out[a])) = o - 1
          BY <1>2, <1>3, LenProperties
        <5>2. o - 1 # 0
          BY <3>3, <5>1
        <5> HIDE DEF o
        <5>3. o - 1 \in 1 .. o - 1 /\ (o - 1) + 1 = o
          BY <5>1, <5>2
        <5> QED
          BY <5>1, <5>3 DEF o
      <4>2. out'[a][Len(out'[a])].n = Length /\ Len(out'[a]) \in DOMAIN out'[a]
        BY <1>2, <1>3, <3>1, <4>1 DEF Results
      <4> QED
        BY <3>1, <4>2 DEF Results
    <3> QED
      BY <3>2, <3>3
  <2> QED
    BY <1>1, <1>3, <1>8, <2>1 DEF SdkInv, QueueInv
<1>13. ASSUME NEW q \in alone
       PROVE  Told(q)'
  <2>1. q \in Tasks /\ Told(q)
    BY DEF SdkType, SdkInv, AloneInv
  <2>2. CASE q = t
    <3>1. Serves(a, t)
      BY <1>1, <2>1, <2>2 DEF Told
    <3> DEFINE g == Len(got[t])
               o == Len(out[a])
    <3>2. g \in Nat /\ o \in Nat /\ Len(got'[t]) = g + 1 /\ Len(out'[a]) = o - 1
      BY <1>2, <1>3, <1>4, LenProperties, AppendProperties
    <3>3. Head(out[a]) = [of |-> t, n |-> g + 1]
      BY <1>2, <3>1 DEF Serves
    <3>4. \A i \in DOMAIN got'[t] : got'[t][i] = [of |-> t, n |-> i]
      <4> SUFFICES ASSUME NEW i \in DOMAIN got'[t]
                   PROVE  got'[t][i] = [of |-> t, n |-> i]
        OBVIOUS
      <4>1. i \in 1 .. g + 1 /\ DOMAIN got[t] = 1 .. g
        BY <1>2, <1>4, <3>2, LenProperties, AppendProperties
      <4>2. CASE i = g + 1
        BY <1>2, <1>4, <3>3, <4>2, AppendProperties
      <4>3. CASE i # g + 1
        <5>1. i \in 1 .. g
          BY <3>2, <4>1, <4>3
        <5>2. got'[t][i] = got[t][i]
          BY <1>2, <1>4, <5>1, AppendProperties
        <5> QED
          BY <2>1, <2>2, <4>1, <5>1, <5>2 DEF Told
      <4> QED
        BY <4>2, <4>3
    <3>5. \A i \in DOMAIN out'[a] : out'[a][i] = [of |-> t, n |-> Len(got'[t]) + i]
      <4> SUFFICES ASSUME NEW i \in DOMAIN out'[a]
                   PROVE  out'[a][i] = [of |-> t, n |-> Len(got'[t]) + i]
        OBVIOUS
      <4>1. i \in 1 .. Len(Tail(out[a])) /\ i + 1 \in DOMAIN out[a]
        BY <1>2, <1>3, LenProperties
      <4>2. out[a][i + 1] = [of |-> t, n |-> g + (i + 1)]
        BY <3>1, <4>1 DEF Serves
      <4>3. g + (i + 1) = Len(got'[t]) + i
        <5>1. g \in Nat /\ i \in Nat /\ Len(got'[t]) = g + 1
          BY <3>2, <4>1
        <5> HIDE DEF g
        <5>2. g + (i + 1) = (g + 1) + i
          BY <5>1
        <5> QED
          BY <5>1, <5>2
      <4> QED
        BY <1>2, <1>3, <4>1, <4>2, <4>3
    <3>6. Len(got'[t]) + Len(out'[a]) = g + o
      <4> HIDE DEF g, o
      <4> QED
        BY <3>2
    <3>7. CASE Head(out[a]).n = Length
      BY <1>1, <1>4, <2>2, <3>2, <3>3, <3>4, <3>7 DEF Told
    <3>8. CASE Head(out[a]).n # Length
      <4>1. Receiving(a)' = {t}
        BY <1>1, <1>4, <3>1, <3>8 DEF Serves, Receiving
      <4>2. Serves(a, t)'
        BY <1>1, <3>1, <3>5, <3>6, <4>1 DEF Serves
      <4> QED
        BY <1>1, <1>4, <2>2, <3>4, <3>8, <4>2 DEF Told
    <3> QED
      BY <3>7, <3>8
  <2>3. CASE q # t
    <3>1. pc[q] = "receive" => addr[q] \in Addrs \ {a}
      <4> SUFFICES ASSUME pc[q] = "receive"
                   PROVE  addr[q] # a
        BY <2>1 DEF SdkInv, LivesInv
      <4>1. Receiving(addr[q]) = {q}
        BY <2>1 DEF Told, Serves
      <4> QED
        BY <1>1, <2>3, <4>1 DEF Receiving
    <3> QED
      BY <1>1, <1>3, <1>4, <1>8, <2>1, <2>3, <3>1, StaysTold
  <2> QED
    BY <2>2, <2>3
<1> QED
  BY <1>1, <1>5, <1>7, <1>11, <1>12, <1>13 DEF SdkInv, AloneInv

\* A new agent server knows no task, and what the old one had to say is lost.
LEMMA AgentEndsSdk ==
  ASSUME HostType, SdkType, SdkInv, NEW a \in Addrs, AgentEnds(a)
  PROVE  SdkType' /\ SdkInv'
<1>1. /\ pc' = [t \in Tasks |-> IF t \in Receiving(a) THEN "ended" ELSE pc[t]]
      /\ asked' = [asked EXCEPT ![a] = <<>>] /\ said' = [said EXCEPT ![a] = 0]
      /\ out' = [out EXCEPT ![a] = <<>>] /\ lives' = [lives EXCEPT ![a] = {}]
      /\ crashes < MaxCrashes /\ crashes' = crashes + 1
      /\ UNCHANGED <<addr, got, alone>>
  BY DEF AgentEnds
<1>2. SdkType'
  BY <1>1 DEF SdkType
<1>3. \A b \in Addrs \ {a} :
        /\ asked'[b] = asked[b] /\ said'[b] = said[b] /\ out'[b] = out[b]
        /\ lives'[b] = lives[b]
  BY <1>1 DEF SdkType
<1>4. asked'[a] = <<>> /\ said'[a] = 0 /\ out'[a] = <<>> /\ lives'[a] = {}
  BY <1>1 DEF SdkType
<1>5. \A t \in Tasks : pc'[t] = IF t \in Receiving(a) THEN "ended" ELSE pc[t]
  BY <1>1
<1>6. LivesInv'
  BY <1>1, <1>3, <1>4, <1>5 DEF SdkInv, LivesInv, Unasked, Receiving
<1>7. \A b \in Addrs \ {a} :
        /\ Finished(b)' = Finished(b) /\ Results(b)' = Results(b)
        /\ Receiving(b)' = Receiving(b)
  <2>1. \A b \in Addrs \ {a} : \A t \in Tasks :
          t \in lives[b] \/ addr[t] = b => pc'[t] = pc[t]
    BY <1>5 DEF SdkInv, LivesInv, Receiving
  <2> QED
    BY <1>1, <1>3, <2>1 DEF Finished, Results, Receiving, SdkType
<1>8. QueueInv'
  BY <1>3, <1>4, <1>7 DEF SdkInv, QueueInv
<1>9. CountInv'
  <2>1. ASSUME NEW b \in Addrs \ {a}
        PROVE  Cardinality(Finished(b)') + Cardinality(Results(b)') + Len(asked'[b])
                 = Cardinality(lives'[b])
    BY <1>3, <1>7 DEF SdkInv, CountInv
  <2>2. Finished(a)' = {} /\ Results(a)' = {}
    BY <1>4 DEF Finished, Results
  <2>3. Cardinality({}) = 0 /\ Len(<<>>) = 0
    BY FS_EmptySet
  <2>4. Cardinality(Finished(a)') + Cardinality(Results(a)') + Len(asked'[a])
          = Cardinality(lives'[a])
    BY <1>4, <2>2, <2>3
  <2> QED
    BY <2>1, <2>4 DEF CountInv
<1>10. ASSUME NEW q \in alone
       PROVE  Told(q)'
  <2>1. q \in Tasks /\ Told(q) /\ pc'[q] \in {pc[q], "ended"}
    BY <1>5 DEF SdkType, SdkInv, AloneInv
  <2>2. pc'[q] = "receive" => addr[q] \in Addrs \ {a}
    BY <1>5, <2>1 DEF Receiving, SdkInv, LivesInv
  <2> QED
    BY <1>1, <1>3, <1>7, <2>1, <2>2, StaysTold
<1> QED
  BY <1>1, <1>2, <1>6, <1>8, <1>9, <1>10 DEF SdkInv, AloneInv

LEMMA RequestSdk ==
  ASSUME HostType, SdkType, SdkInv, NEW t \in Tasks, Request(t)
  PROVE  SdkType' /\ SdkInv'
<1>1. CASE \/ NotFound(t) \/ Relay(t) \/ UploadEnds(t)
         \/ TakeList(t) \/ ListFiles(t) \/ DownloadFile(t)
  <2>1. /\ pc[t] \in Unasked
        /\ \E label \in {"notfound", "upload", "send", "listing", "done", "ended"} :
             Goto(t, label)
        /\ UNCHANGED <<sdk, got, alone, crashes>>
    BY <1>1 DEF NotFound, Relay, UploadEnds, TakeList, ListFiles, DownloadFile, AtEnvd,
                Unasked
  <2>2. pc'[t] # "receive" /\ \A q \in Tasks \ {t} : pc'[q] = pc[q]
    BY <2>1 DEF HostType, Goto
  <2>3. \A q \in Tasks \ {t} : addr'[q] = addr[q]
    BY <1>1 DEF HostType, NotFound, Relay, UploadEnds, TakeList, ListFiles, DownloadFile
  <2> QED
    BY <2>1, <2>2, <2>3, OutsideSdk
<1>2. CASE OpenFile(t) \/ CloseFile(t)
  BY <1>2, SameSdk DEF OpenFile, CloseFile
<1> QED
  BY <1>1, <1>2, GiveUpSdk, AskSdk, ReceiveSdk DEF Request

LEMMA NextSdk ==
  ASSUME HostType, SdkType, SdkInv, [Next]_vars
  PROVE  SdkType' /\ SdkInv'
<1>1. CASE Vms \/ UNCHANGED vars
  BY <1>1, SameSdk DEF Vms, Create, Kill, VmExits, vars
<1> QED
  BY <1>1, RequestSdk, ProduceSdk, AgentEndsSdk DEF Next

-----------------------------------------------------------------------------
(* The theorems.                                                           *)

TasksInv == Inv /\ EnvdType /\ FileInv /\ SdkType /\ SdkInv

LEMMA SpecTasksInv == Spec => []TasksInv
<1>1. Init => TasksInv
  BY InitInv, InitFile, InitSdk DEF TasksInv
<1>2. ASSUME TasksInv, [Next]_vars
      PROVE  TasksInv'
  <2>1. Inv'
    BY <1>2, NextInv DEF TasksInv
  <2> QED
    BY <1>2, <2>1, NextFile, NextSdk DEF TasksInv, Inv
<1> QED
  BY <1>1, <1>2, PTL DEF Spec

\* Every variable has its type: no answer has more messages than Length, and
\* none is of a task that was not asked.
THEOREM TasksTyped == Spec => []TypeOK
<1>1. TasksInv => TypeOK
  BY DEF TasksInv, Inv, HostType, Labels, EnvdType, SdkType, TypeOK
<1> QED
  BY SpecTasksInv, <1>1, PTL

\* For any number of tasks, messages and VMs: a task that has an agent at rest
\* for itself is told its own answer from the beginning to the end.  An agent
\* whose tasks were all told a result has none left over, because each query has
\* one and a result is always the last thing that is out.
THEOREM AloneMeansOwnAnswer == Spec => []OwnAnswers
<1>1. TasksInv => OwnAnswers
  BY DEF TasksInv, SdkInv, AloneInv, Told, OwnAnswers
<1> QED
  BY SpecTasksInv, <1>1, PTL

\* A task whose upload was answered finds all that its client sent, unless it is
\* text that b64decode took for base64, or another task opened the file of that
\* VM: a handler that saw no error of its own has left all of it or has not been
\* the only one.
THEOREM FileStaysWithTask == Spec => []FilesWithTask
<1>1. TasksInv => FilesWithTask
  BY DEF TasksInv, EnvdType, FileInv, WriterInv, DiskInv, FilesWithTask, Left, All
<1> QED
  BY SpecTasksInv, <1>1, PTL

\* However many tasks share an agent, there is a result, out or to come, for each
\* that waits for one.
THEOREM ResultsSuffice == Spec => []ResultForEveryone
<1>1. ASSUME TasksInv, NEW a \in Addrs
      PROVE  Cardinality(Receiving(a)) <= Cardinality(Results(a)) + Len(asked[a])
  <2>1. /\ Receiving(a) \subseteq lives[a] /\ Finished(a) \subseteq lives[a]
        /\ Receiving(a) \intersect Finished(a) = {}
    BY <1>1 DEF TasksInv, SdkInv, LivesInv, Receiving, Finished
  <2>2. /\ IsFiniteSet(lives[a]) /\ IsFiniteSet(Finished(a))
        /\ Cardinality(lives[a]) \in Nat /\ Cardinality(Finished(a)) \in Nat
        /\ Cardinality(Results(a)) \in Nat /\ Len(asked[a]) \in Nat
    BY <1>1, SdkFinite DEF TasksInv
  <2>3. IsFiniteSet(Receiving(a))
    BY <2>1, <2>2, FS_Subset
  <2>4. Cardinality(Receiving(a)) \in Nat
    BY <2>3, FS_CardinalityType
  <2>5. Cardinality(Receiving(a) \union Finished(a)) =
          Cardinality(Receiving(a)) + Cardinality(Finished(a))
    <3>1. Cardinality(Receiving(a) \union Finished(a)) =
            Cardinality(Receiving(a)) + Cardinality(Finished(a))
              - Cardinality(Receiving(a) \intersect Finished(a))
      BY <2>2, <2>3, FS_Union
    <3>2. Cardinality(Receiving(a) \intersect Finished(a)) = 0
      BY <2>1, FS_EmptySet
    <3> QED
      BY <2>2, <2>4, <3>1, <3>2
  <2>6. Cardinality(Receiving(a) \union Finished(a)) <= Cardinality(lives[a])
    <3>1. Receiving(a) \union Finished(a) \in SUBSET lives[a]
      BY <2>1
    <3> QED
      BY <2>2, <3>1, FS_Subset
  <2>7. Cardinality(Finished(a)) + Cardinality(Results(a)) + Len(asked[a])
          = Cardinality(lives[a])
    BY <1>1 DEF TasksInv, SdkInv, CountInv
  <2> QED
    BY <2>2, <2>4, <2>5, <2>6, <2>7
<1>2. TasksInv => ResultForEveryone
  BY <1>1 DEF ResultForEveryone
<1> QED
  BY SpecTasksInv, <1>2, PTL

====
