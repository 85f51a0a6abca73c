---- MODULE AgentTasks ----
(***************************************************************************)
(* The way of a client's requests through the host to the agent of its     *)
(* user: claude_in_the_box, list_workspace_files and download_file         *)
(* (host/api_routes/execute_routes.py), the upload of a task's file        *)
(* (envd-mini/internal/api/upload.go), and the one SDK client that all     *)
(* tasks of an agent server share (server/claude_main.py).  Creates and    *)
(* kills are those of Host, each in one step here: what a request holds is *)
(* the address that it read.                                               *)
(***************************************************************************)
EXTENDS Naturals, Sequences, FiniteSets

CONSTANTS
  NoUser,        \* nobody
  Users, Tasks,  \* a task is one request to the host
  UserOf,        \* whose it is
  WithFile,      \* the tasks that upload a file, of the same name for all of them
  Mistaken,      \* those whose file, sent as text, b64decode takes for base64
  Reads,         \* requests that list or download instead
  Length,        \* messages of an answer; the last one is its ResultMessage
  LastIp,        \* bound: the last address
  MaxCrashes     \* bound: agent servers that end

ASSUME TasksAssumption ==
  /\ NoUser \notin Users
  /\ UserOf \in [Tasks -> Users] /\ IsFiniteSet(Tasks)
  /\ WithFile \subseteq Tasks /\ Reads \subseteq Tasks \ WithFile
  /\ Mistaken \subseteq WithFile
ASSUME BoundsAssumption ==
  Length \in Nat \ {0} /\ LastIp \in Nat /\ MaxCrashes \in Nat

Addrs == 1 .. LastIp
NoVm == 0

VARIABLES
  microvms,  \* the address in each user's entry
  nextIp,    \* the next address to give out
  owner,     \* per address: whose VM has it now or had it last
  alive,     \* the addresses whose VM runs
  pc, addr,  \* per request: where its handler is, the address it read
  writer,    \* per task: envd's handler of its upload
  stored,    \* the upload was answered before the handler went on (history)
  disk,      \* per VM: whose bytes its copy of the file may hold, and which
  asked,     \* per VM: the queries the SDK client has sent and not finished
  said,      \* per VM: the messages out for the first of them
  out,       \* per VM: the messages nobody has received
  got,       \* per task: the messages it received
  lives,     \* per VM: the tasks its agent server has asked since its start
  alone,     \* tasks whose predecessors had all ended and that none joined
  reached,   \* per request: the users whose VM it reached (history)
  crashes

host == <<microvms, nextIp, owner>>
envd == <<writer, stored, disk>>
sdk == <<asked, said, out, lives>>
vars == <<host, alive, pc, addr, envd, sdk, got, alone, reached, crashes>>

Init ==
  /\ microvms = [u \in Users |-> NoVm]
  /\ nextIp = 1
  /\ owner = [a \in Addrs |-> NoUser]
  /\ alive = {}
  /\ pc = [t \in Tasks |-> "idle"]
  /\ addr = [t \in Tasks |-> NoVm]
  /\ writer = [t \in Tasks |-> "none"]
  /\ stored = {}
  /\ disk = [a \in Addrs |-> {}]
  /\ asked = [a \in Addrs |-> <<>>]
  /\ said = [a \in Addrs |-> 0]
  /\ out = [a \in Addrs |-> <<>>]
  /\ got = [t \in Tasks |-> <<>>]
  /\ lives = [a \in Addrs |-> {}]
  /\ alone = {}
  /\ reached = [t \in Tasks |-> {}]
  /\ crashes = 0

-----------------------------------------------------------------------------
(* VMs come and go (module Host).                                          *)

\* Mutant: the lowest address that no entry has.
Create_Reuses(u) ==
  /\ microvms[u] = NoVm
  /\ \E a \in Addrs :
       /\ \A v \in Users : microvms[v] # a
       /\ \A b \in 1 .. a - 1 : \E v \in Users : microvms[v] = b
       /\ microvms' = [microvms EXCEPT ![u] = a]
       /\ owner' = [owner EXCEPT ![a] = u]
       /\ alive' = alive \union {a}
  /\ UNCHANGED <<nextIp, pc, addr, envd, sdk, got, alone, reached, crashes>>

\* create_microvm: every create since the start of the service takes a new
\* address.
Create(u) ==
  /\ microvms[u] = NoVm /\ nextIp <= LastIp
  /\ microvms' = [microvms EXCEPT ![u] = nextIp]
  /\ nextIp' = nextIp + 1
  /\ owner' = [owner EXCEPT ![nextIp] = u]
  /\ alive' = alive \union {nextIp}
  /\ UNCHANGED <<pc, addr, envd, sdk, got, alone, reached, crashes>>

\* kill_microvm: requests that read the entry before hold its address.
Kill(u) ==
  /\ microvms[u] # NoVm
  /\ microvms' = [microvms EXCEPT ![u] = NoVm]
  /\ alive' = alive \ {microvms[u]}
  /\ UNCHANGED <<nextIp, owner, pc, addr, envd, sdk, got, alone, reached, crashes>>

VmExits(a) ==
  /\ a \in alive /\ alive' = alive \ {a}
  /\ UNCHANGED <<host, pc, addr, envd, sdk, got, alone, reached, crashes>>

-----------------------------------------------------------------------------
(* The host's handlers.                                                    *)

Goto(t, label) == pc' = [pc EXCEPT ![t] = label]
Reach(t) == reached' = [reached EXCEPT ![t] = @ \union {owner[addr[t]]}]

NotFound(t) ==
  /\ pc[t] = "idle" /\ microvms[UserOf[t]] = NoVm
  /\ Goto(t, "notfound")
  /\ UNCHANGED <<host, alive, addr, envd, sdk, got, alone, reached, crashes>>

\* vm_ip is read once, before the first await.
Relay(t) ==
  /\ pc[t] = "idle" /\ microvms[UserOf[t]] # NoVm
  /\ addr' = [addr EXCEPT ![t] = microvms[UserOf[t]]]
  /\ Goto(t, IF t \in WithFile THEN "upload" ELSE "send")
  /\ UNCHANGED <<host, alive, envd, sdk, got, alone, reached, crashes>>

\* The upload was answered, or failed, or took more than five seconds: the
\* error is printed and the task is sent all the same.
UploadEnds(t) ==
  /\ pc[t] = "upload"
  /\ Goto(t, "send")
  /\ stored' = IF writer[t] = "closed" THEN stored \union {t} ELSE stored
  /\ UNCHANGED <<host, alive, addr, writer, disk, sdk, got, alone, reached, crashes>>

\* Mutant: when a client leaves, what nobody has received is thrown away.
GiveUp_Flushes(t) ==
  /\ pc[t] \in {"send", "listing", "receive"}
  /\ Goto(t, "ended")
  /\ out' = IF pc[t] = "receive" THEN [out EXCEPT ![addr[t]] = <<>>] ELSE out
  /\ UNCHANGED <<host, alive, addr, envd, asked, said, lives, got, alone, reached,
                 crashes>>

\* The agent or envd cannot be reached or ends, half an hour passes without a
\* message, or the client leaves: what the SDK client has still to say stays there.
GiveUp(t) ==
  /\ pc[t] \in {"send", "listing", "receive"}
  /\ Goto(t, "ended")
  /\ UNCHANGED <<host, alive, addr, envd, sdk, got, alone, reached, crashes>>

AtEnvd(t) == pc[t] = "send" /\ t \in Reads /\ addr[t] \in alive

\* envd takes the ListDir request.
TakeList(t) ==
  /\ AtEnvd(t) /\ Goto(t, "listing") /\ Reach(t)
  /\ UNCHANGED <<host, alive, addr, envd, sdk, got, alone, crashes>>

\* envd answers; the host has set no time by which it must.
ListFiles(t) ==
  /\ pc[t] = "listing" /\ addr[t] \in alive
  /\ Goto(t, "done")
  /\ UNCHANGED <<host, alive, addr, envd, sdk, got, alone, reached, crashes>>

\* The 404 for a file that is not there is raised inside the try, and becomes a
\* 500 like every other error.
DownloadFile(t) ==
  /\ AtEnvd(t) /\ Goto(t, IF disk[addr[t]] # {} THEN "done" ELSE "ended") /\ Reach(t)
  /\ UNCHANGED <<host, alive, addr, envd, sdk, got, alone, crashes>>

-----------------------------------------------------------------------------
(* envd's upload: os.Create truncates the file, ReadFrom fills it.         *)

Writing(a) == {q \in Tasks : writer[q] = "open" /\ addr[q] = a}

\* A part of what a task uploads, be it none of it; and all of it, as the host
\* sends it: b64decode drops from a text all that is not of its alphabet.
Part(t) == [of |-> t, bytes |-> "part"]
All(t) == [of |-> t, bytes |-> IF t \in Mistaken THEN "decoded" ELSE "all"]

\* envd may come to it when the host has stopped waiting.
OpenFile(t) ==
  /\ t \in WithFile /\ pc[t] \notin {"idle", "notfound"}
  /\ writer[t] = "none" /\ addr[t] \in alive
  /\ writer' = [writer EXCEPT ![t] = "open"]
  /\ disk' = [disk EXCEPT ![addr[t]] = {Part(q) : q \in Writing(addr[t]) \union {t}}]
  /\ Reach(t)
  /\ UNCHANGED <<host, alive, pc, addr, stored, sdk, got, alone, crashes>>

\* Mutant: the error of ReadFrom is not looked at.
CloseFile_Unchecked(t) ==
  /\ writer[t] = "open" /\ addr[t] \in alive
  /\ writer' = [writer EXCEPT ![t] = "closed"]
  /\ disk' \in {disk, [disk EXCEPT ![addr[t]] = IF @ = {Part(t)} THEN {All(t)} ELSE @]}
  /\ UNCHANGED <<host, alive, pc, addr, stored, sdk, got, alone, reached, crashes>>

\* All of the body was written, or the disk or the connection failed and the file
\* stays short.  What another handler that has it open wrote stays in between.
CloseFile(t) ==
  /\ writer[t] = "open" /\ addr[t] \in alive
  /\ \/ /\ writer' = [writer EXCEPT ![t] = "closed"]
        /\ disk' = [disk EXCEPT ![addr[t]] = IF @ = {Part(t)} THEN {All(t)} ELSE @]
     \/ /\ writer' = [writer EXCEPT ![t] = "failed"]
        /\ disk' = disk
  /\ UNCHANGED <<host, alive, pc, addr, stored, sdk, got, alone, reached, crashes>>

-----------------------------------------------------------------------------
(* The agent server: one SDK client, one stream of messages.               *)

Receiving(a) == {q \in Tasks : pc[q] = "receive" /\ addr[q] = a}

\* execute_task: the query is added to those of the client.
Query(t, a) ==
  /\ asked' = [asked EXCEPT ![a] = Append(@, t)]
  /\ lives' = [lives EXCEPT ![a] = @ \union {t}]
  /\ alone' = IF \A q \in lives[a] : pc[q] = "done"
                THEN alone \union {t} ELSE alone \ Receiving(a)

\* Mutant: the address is looked up again after the upload.
Ask_LooksUp(t) ==
  LET a == microvms[UserOf[t]] IN
  /\ pc[t] = "send" /\ t \notin Reads /\ a \in alive
  /\ addr' = [addr EXCEPT ![t] = a]
  /\ Query(t, a) /\ Goto(t, "receive") /\ Reach(t)
  /\ UNCHANGED <<host, alive, envd, said, out, got, crashes>>

\* The task is sent to the address that the handler holds.
Ask(t) ==
  /\ pc[t] = "send" /\ t \notin Reads /\ addr[t] \in alive
  /\ Query(t, addr[t]) /\ Goto(t, "receive") /\ Reach(t)
  /\ UNCHANGED <<host, alive, addr, envd, said, out, got, crashes>>

\* Mutant: the next answer goes on counting from the one before.
Produce_Counts(a) ==
  /\ a \in alive /\ asked[a] # <<>>
  /\ out' = [out EXCEPT ![a] = Append(@, [of |-> Head(asked[a]), n |-> said[a] + 1])]
  /\ said' = [said EXCEPT ![a] = @ + 1]
  /\ asked' = IF said[a] + 1 < Length THEN asked ELSE [asked EXCEPT ![a] = Tail(@)]
  /\ UNCHANGED <<host, alive, pc, addr, envd, lives, got, alone, reached, crashes>>

\* The SDK's process answers one query after the other.
Produce(a) ==
  /\ a \in alive /\ asked[a] # <<>>
  /\ out' = [out EXCEPT ![a] = Append(@, [of |-> Head(asked[a]), n |-> said[a] + 1])]
  /\ IF said[a] + 1 = Length
       THEN said' = [said EXCEPT ![a] = 0] /\ asked' = [asked EXCEPT ![a] = Tail(@)]
       ELSE said' = [said EXCEPT ![a] = @ + 1] /\ asked' = asked
  /\ UNCHANGED <<host, alive, pc, addr, envd, lives, got, alone, reached, crashes>>

\* Mutant: the iteration ends with the first message, not with the result.
EndsWith_First(t, message) == TRUE

\* Mutant: a task waits for its own result.
EndsWith_Own(t, message) == message = [of |-> t, n |-> Length]

\* A ResultMessage ends the iteration over receive_response(), whosever it is.
EndsWith(t, message) == message.n = Length

\* Whoever waits for a message takes the next one.
Receive(t) ==
  LET a == addr[t] IN
  /\ pc[t] = "receive" /\ a \in alive /\ out[a] # <<>>
  /\ got' = [got EXCEPT ![t] = Append(@, Head(out[a]))]
  /\ out' = [out EXCEPT ![a] = Tail(@)]
  /\ Goto(t, IF EndsWith(t, Head(out[a])) THEN "done" ELSE "receive")
  /\ UNCHANGED <<host, alive, addr, envd, asked, said, lives, alone, reached, crashes>>

\* The agent server ends, and systemd starts it with a new client.
AgentEnds(a) ==
  /\ a \in alive /\ crashes < MaxCrashes
  /\ crashes' = crashes + 1
  /\ pc' = [t \in Tasks |-> IF t \in Receiving(a) THEN "ended" ELSE pc[t]]
  /\ asked' = [asked EXCEPT ![a] = <<>>]
  /\ said' = [said EXCEPT ![a] = 0]
  /\ out' = [out EXCEPT ![a] = <<>>]
  /\ lives' = [lives EXCEPT ![a] = {}]
  /\ UNCHANGED <<host, alive, addr, envd, got, alone, reached>>

Vms ==
  \/ \E u \in Users : Create(u) \/ Kill(u)
  \/ \E a \in Addrs : VmExits(a)

Request(t) ==
  \/ NotFound(t) \/ Relay(t) \/ UploadEnds(t) \/ GiveUp(t)
  \/ TakeList(t) \/ ListFiles(t) \/ DownloadFile(t)
  \/ OpenFile(t) \/ CloseFile(t) \/ Ask(t) \/ Receive(t)

Next ==
  \/ Vms
  \/ \E t \in Tasks : Request(t)
  \/ \E a \in Addrs : Produce(a) \/ AgentEnds(a)

Spec == Init /\ [][Next]_vars

\* Something that can move does: an agent that was asked answers, whoever waits
\* for a message takes it, an upload is over after five seconds, and nobody waits
\* for ever for a VM that is gone: httpx has its timeouts, 1800 seconds for a task,
\* and a connection that nobody accepts is given up.  A listing that envd has
\* taken has no timeout: neither its answer nor its end is taken for granted.
\* Every request makes finitely many steps, so one condition for all of them is
\* enough.
Progress ==
  \/ \E a \in Addrs : Produce(a)
  \/ \E t \in Tasks :
       \/ UploadEnds(t) \/ TakeList(t) \/ DownloadFile(t) \/ Ask(t) \/ Receive(t)
       \/ pc[t] # "listing" /\ addr[t] \notin alive /\ GiveUp(t)

FairSpec == Spec /\ WF_vars(Progress)

-----------------------------------------------------------------------------
(* Properties.                                                             *)

InFlight == {"upload", "send", "receive"}
Messages == [of : Tasks, n : 1 .. Length]

\* Every variable has its type.
TypeOK ==
  /\ microvms \in [Users -> Addrs \union {NoVm}]
  /\ nextIp \in 1 .. LastIp + 1
  /\ owner \in [Addrs -> Users \union {NoUser}] /\ alive \subseteq Addrs
  /\ pc \in [Tasks -> InFlight \union {"listing", "idle", "notfound", "done", "ended"}]
  /\ addr \in [Tasks -> Addrs \union {NoVm}]
  /\ writer \in [Tasks -> {"none", "open", "closed", "failed"}]
  /\ stored \subseteq Tasks
  /\ disk \in [Addrs -> SUBSET [of : Tasks, bytes : {"part", "all", "decoded"}]]
  /\ asked \in [Addrs -> Seq(Tasks)] /\ said \in [Addrs -> 0 .. Length - 1]
  /\ out \in [Addrs -> Seq(Messages)] /\ got \in [Tasks -> Seq(Messages)]
  /\ lives \in [Addrs -> SUBSET Tasks] /\ alone \subseteq Tasks
  /\ reached \in [Tasks -> SUBSET (Users \union {NoUser})]
  /\ crashes \in 0 .. MaxCrashes

\* A request reaches no VM but its user's, although the address it holds may be
\* that of a VM that was killed, and others were created, while it uploaded or
\* waited (execute_routes.py:404).
OwnVm == \A t \in Tasks : reached[t] \subseteq {UserOf[t]}

\* A task that found the agent at rest, every earlier task read to its end, and
\* that no other one joined, is told its own answer from the beginning, and all
\* of it when it is told the end; whoever shares the agent before and after
\* (claude_main.py:133).
OwnAnswers ==
  \A t \in alone :
    /\ \A i \in DOMAIN got[t] : got[t][i] = [of |-> t, n |-> i]
    /\ pc[t] = "done" => Len(got[t]) = Length

\* A task whose upload was answered runs where its file is, with all that its
\* client sent, unless another task wrote to the file of that VM, or its text
\* was taken for base64 (execute_routes.py:419, 426, upload.go:86).
FilesWithTask ==
  \A t \in stored \ Mistaken :
    pc[t] \in {"receive", "done"} =>
      \/ disk[addr[t]] = {[of |-> t, bytes |-> "all"]}
      \/ \E q \in WithFile \ {t} : addr[q] = addr[t] /\ writer[q] # "none"

Results(a) == {i \in DOMAIN out[a] : out[a][i].n = Length}

\* However the answers of tasks that share an agent mix, there is a result for
\* everyone that waits for one: nobody takes two, nobody is left without.
ResultForEveryone ==
  \A a \in Addrs :
    Cardinality(Receiving(a)) <= Cardinality(Results(a)) + Len(asked[a])

\* Requests that found their VM do not wait for ever: of those that there are,
\* each of which comes once, all are answered or end, or are listings that envd
\* has taken.  What becomes of these the code leaves to envd
\* (execute_routes.py:515).
Served ==
  (\E t \in Tasks : pc[t] \in InFlight) ~> (\A t \in Tasks : pc[t] \notin InFlight)

====
