# Claude-in-the-box in TLA+

This directory specifies the program in `src/`: what it does, what it promises, and which of its promises hold.
TLA+ modules translate the code, TLC checks them on small instances, TLAPS proves the most important results for
all instances.

- `PROJECT.json` maps every definition to the lines it models, and lists the runs, the mutants, the hazards, the
  findings and the theorems.
- `tlc -config MCHost_serial.cfg MCHost` runs a check, `tlapm HostProofs.tla` the proofs.

## 1. The system

A cloud machine runs the **host service** (`host/`). For each user it makes one Firecracker **microVM**; inside
it run **envd** (`envd-mini/`, a Go daemon: processes, files, ports, initialisation) and the **agent server**
(`server/`, FastAPI around one Claude client). A **cron** job (`cron/`) calls every host's maintenance endpoint.

```
 client --HTTP--> host service --Popen--> Firecracker (one per user)
 cron ---HTTP--->   microvms, next_ip        |  disk: qcow2 image -> qemu-nbd -> /dev/nbdN
                    TAPs, routes, dirs       |  net:  route 10.0.1.x -> TAP
                                             +-- envd         :49983
                                             +-- agent server :49999
```

### Components, their state, operations and hard behaviours

| component | state | operations | hard behaviours | correct when |
|---|---|---|---|---|
| host: `create_microvm` | entry in `microvms`, `next_ip`; NBD device, directory, TAP, route, process | one handler, five stretches between awaits | other handlers and the sweep run at its awaits; each command may fail, some unnoticed | an announced VM owns all its resources; addresses and disks are never shared |
| host: `kill_microvm` | the entry it read at its start | tracked kill, forced kill | retry loops with sleeps; a second kill or a create meanwhile | ends; removes this VM and nothing else |
| host: `maintenance` | none | one sweep | sees a create in the middle as an orphan | orphaned processes, TAPs and directories go, tracked VMs stay |
| host: unit file | everything in memory | restart, reboot | the counter restarts, files, TAPs and routes stay | nothing old leaks into a new VM |
| host: relay, listing, download | none | HTTP relays | the address is read before an await; upload errors are swallowed; a listing has no timeout | no request reaches another user's VM; every request ends but a listing that envd has taken |
| cron | none | loop over the hosts | `return` at the first dead host | every live host is swept |
| agent server | environment read at its start; one SDK client, its message stream | start, health, task | starts before or after the host's `/init`; two tasks at once, a client that leaves; systemd restarts it | it has its keys if it asked after `/init` and nobody posted a variable it refuses; a task alone on it gets its own messages; nobody waits for ever |
| envd multiplexer | consumers, exit flag, RW lock | run, Fork, remove | sends under the lock; exit races with Fork | every consumer gets all data and the close |
| envd process service | pid map, output and end channels | start, signal, list (connect and stdin are stubs) | streams that go away; reuse of pids; order of output and end | a stream is Start, Data..., End |
| envd port forwarder | map of ports, socat processes | scan, start, stop | old snapshots; a scan fails; a port reopens; socat dies | a port that opens once, alone and in every scan, is forwarded, closed ones are not, no socat escapes |
| envd init and env | timestamp, token, variables | POST /init, GET /envs | equal and old timestamps; partial failure; envd restarts empty | newest request wins, as a whole |
| envd upload and paths | file system | POST /files, GET /files | truncated before written; the host stops waiting | 200 means written |
| envd filesystem service, logs, metrics, `main` | none of their own | thin wrappers | - | not modelled: single calls and formatting |

Interactions: the host talks to envd (`/health`, `/init`) and to the agent server (`/health`, tasks) over the
VM's route; the agent server reads `/envs` of envd once, when it starts; cron reaches the host over HTTP. All
host handlers share `microvms` and the machine's devices; they run on one event loop, so **only awaits
interleave**: `subprocess.run` and `time`-less code block the loop and make a stretch atomic.

The full list of hazards, each at its line and with the properties that cover it, is in `PROJECT.json`.

## 2. Modules

| module | what it is |
|---|---|
| `Sandbox` | the abstract promise: an announced agent is `up` until its user's kill, its own exit or the loss of the host |
| `Host` | the host service: create, kill, forced kill, maintenance, restart, and the devices they use |
| `MCHost` | instances of `Host` for TLC |
| `HostProofs` | type correctness and unique addresses, for all clients |
| `HostSerialProofs` | intact VMs, exclusive disks, tracked processes, devices accounted for, for patient clients |
| `HostRefinementProofs` | `Host` implements `Sandbox`, for patient clients |
| `Multiplexer` | envd's `MultiplexedChannel`: one source, consumers that come and go |
| `MCMultiplexer` | an instance of `Multiplexer` for TLC |
| `MultiplexerProofs` | what a consumer gets, for any number of consumers |
| `OutputStream` | the abstract promise to a client that starts a command: start, all output in order, end |
| `ProcessStream` | envd's `handleStart` and the goroutines of one command, composed with `Multiplexer` (`Data == INSTANCE Multiplexer`) |
| `ProcessStreamProofs` | types, and on pipes the refinement of `OutputStream`; uses the lemmas of `MultiplexerProofs` |
| `PortForwarder` | envd's port scanner, port forwarder and the socat processes |
| `MCPortForwarder` | an instance of `PortForwarder` for TLC |
| `PortForwarderProofs` | type correctness, and no socat escapes |
| `EnvdInit` | what `POST /init` leaves in envd's memory |
| `AgentBoot` | a boot: the host's waits, envd (`Envd == INSTANCE EnvdInit`) and the start of the agent server |
| `AgentBootProofs` | types, envd's variables newest and unmixed, the agent's keys |
| `MCAgentBoot` | instances of `AgentBoot` for TLC |
| `AgentTasks` | the way of a client's requests through the host to the agent of its user |
| `AgentTasksProofs` | no request reaches another user's VM; files, own answers, results for all |
| `MCAgentTasks` | an instance of `AgentTasks` for TLC |

`Host` implements `Sandbox`, `ProcessStream` implements `OutputStream`. `AgentBoot` opens up the two labels
`envd` and `fastapi` of `Host`, where nothing of the host but the request itself moves; `AgentTasks` takes over
from `Host` what a request can see: the entry with its address, and whether the VM runs.

### Host

State: `microvms` and `nextIp` are the service's memory; `pc`, `user`, `ip`, `dev`, `victim`, `tries` are the
locals of the handlers, one handler per request; `vmdir`, `nbd`, `taps`, `routes`, `runs` are the machine. A
create request names the VM it makes: its image, device, entry and process carry the request's name, so that one
incarnation is told from the next. `runs[r]` is the config file the process started by `r` runs: two creates of
one user that overlap can boot each other's file.

Actions: a handler is cut at its awaits and nowhere else.

| label | waiting in | next action |
|---|---|---|
| `idle` | - | `AlreadyExists`, `CreateStart` (with its four outcomes), `NotFound`, `ForceKill`, `KillStart` |
| `tap`, `route` | `proc.wait()` of the `ip` commands | `TapAdd`, `RouteAdd`, `NetworkFails` |
| `launch` | the route command | `Launch` (Popen and the entry), `LaunchFails` |
| `envd`, `fastapi` | the boot waits | `EnvdReady`, `FastApiReady`, `BootTimeout` |
| `killtap` | the sleep after a failed TAP deletion | `KillTap` |
| `killnbd` | the sleep after `qemu-nbd -d` | `KillDir` |
| `killdir` | the sleep after a failed `rmtree` | `KillDirAgain` |

The three `ip` commands of lines 194-210 are one action: nothing else reads what the second and the third
change. `init_envd` is part of `EnvdReady`: it touches no state of the host. Commands fail where the code lets
them: some are noticed (500), some are not (the exit codes of the network commands and of `qemu-nbd -d` are
ignored), and a sweep may do any part of its work.

Two searches match by text and are kept as they are. A forced kill without an entry kills the processes whose
command line holds the user id (`Hits`) and deletes the TAPs whose line of `ip link show` holds its first eleven
characters (`LineHits`, admin_routes.py:127): the names of TAPs are hashes, so a short or generic id meets
anybody's line. The sweep looks for routes by `/32 dev tap-`, which iproute2 seldom prints (`OrphanRoutes`): it
*may* delete them, and no property counts on it; routes go with their TAP.

What is abstracted:

- the external programs: `qemu-img create` refuses an image that a device still serves (its write lock);
  `qemu-nbd -d` frees a device; a TAP takes its routes along; Firecracker ends at once when its socket file
  exists or its config does not;
- SIGKILL works, and a pid is not reused while a handler remembers it;
- an `rmtree` that fails either could not open the directory or could not remove it once it was empty (the
  service is root, unlinking the files in between does not fail);
- after a restart a create's `ip` is set to 0: addresses of an earlier epoch mean nothing;
- the VM is one process that may exit at any time (`VmExits`); its inside is in `AgentBoot` and `AgentTasks`.

### Properties

- `UniqueAddresses`: two live VMs never have the same address. It must survive the counter that restarts at 100
  while old routes stay, and overlapping creates of one user that boot each other's config. It holds for all
  clients.
- `DiskExclusive`: two live VMs never write the same device.
- `RunningVmIntact`: an announced VM that runs is tracked, runs its own config, and has its disk, image, TAP and
  route. The sweep, other users' creates and kills, silent failures of commands could each break it.
- `NoUntrackedProcess`: every live Firecracker has its entry: none is left for the sweep.
- `DevicesAccounted`: a device that serves an image is that of a create under way, of an entry, of a create that
  failed, or of a VM whose kill disconnected it in vain. The last two are leaks: a create that fails between `qemu-nbd -c`
  and its entry (`ConfigFails`, `NetworkFails`, `LaunchFails`), and the ignored exit code of `qemu-nbd -d`. No
  sweep looks at devices, so these stay until the service restarts (or a forced kill disconnects 0 to 15); the
  property says that sweeps, kills and restarts add no third kind.
- `PromiseKept`: `Host` implements the safety part of `Sandbox`; that a kill ends is a case of `Answered`. The
  refinement maps a user's entry, request and resources to `none`, `up`, `exited`, `ending`; a state `broken`
  outside of `Sandbox` would be an error.
- `Answered`: every request is answered.
- `OrphansSwept`: processes, TAPs (with their routes) and directories of a user with neither entry nor request
  are swept, though no sweep need do all of its work. **Devices are not part of it**: see `DevicesAccounted`.
- `PersistsUntilKilled`: what src/README.md says, and the code does not do.

A boot that fails kills its process and keeps its entry (execute_routes.py:272): the user's next create is
answered that the VM exists, until a kill. That is one assignment of `BootTimeout`, and no run is spent on it.

### Multiplexer

State: `sent`, `taken`, `closed` are the channel `Source` (with the values that blocked senders hold); `loop`,
`view`, `turn`, `exited` the goroutine, its slice and index and the flag; `channels` the field. Values are
numbered as they are sent. `at[c]`, `got[c]` are the consumer. `base[c]` is a history variable, the last value
that was copied before `c` joined, and `shut` the set of closed channels.

A send on an unbuffered channel needs both sides, so `Deliver(c)` is one step of two goroutines. `Fork` is two
actions, since the flag is read before the lock is taken. `RLocked` is the read lock; `Join` and `Remove` need
it free. `remove` shifts the array in place, and the slice the goroutine ranges over may be in the same array
(`shared`): the model shifts `view` too, and the append of a later `Fork` may overwrite it. That the lock is
held during the loop makes this harmless; the mutant of `Gapless` is a `remove` without the lock.

- `Gapless`: from its `Fork` on, a consumer gets the values of the source one by one, in order.
- `NothingMissed`: a consumer that is told the end (a closed channel) got everything since its `Fork`.

The last loop closes the channels *without* the lock. With several consumers, a `remove` during that loop can
make it close one channel twice, which panics (`loop = "panicked"`), and a consumer whose `Fork` passed the
check of the flag before the end and joins after it is never closed. In envd neither is a problem: `handleStart`
has one consumer per multiplexer, and on pipes it joins before the command starts.

### ProcessStream

One command, from the request to the deletion of its key. `handler`, `stream`, `waiter` are the program counters
of `handleStart`, of its stream goroutine and of `proc.Wait`; `command`, `written`, `broken` are the process and
its output; `ctxDone`, `outDone` the contexts. The output goes through an instance of `Multiplexer` whose one
consumer is the stream. The multiplexers of the start event and of the end event carry one value each:
`Announce` is the send of the one (straight to the consumer's channel, start.go:213), `endEvent` the way of the
other.

| code | actions |
|---|---|
| start.go 59-111, before the command | `New`, `ForkData`, `JoinData`, `ForkEnd` |
| start.go 206-231 | `Start`, `Announce`, `Selected` |
| start.go 102-109, the deferred calls in reverse order | `EndCancel`, `DataCancel` |
| start.go 111-204, the stream goroutine | `Announce`, `StreamData`, `StreamDataEnds`, `StreamEnd`, `StreamCancelled` |
| handler.go 154-293, readers | `Read`, `ReadEnds` |
| handler.go 372-409, `Wait`, and the goroutine of `EndEvent` | `WaitOutput`, `Reap`, `OfferEnd`, `LockEnd`, `Delete` |
| handler.go 298-308; start.go 70-80 | `SendSignal`; `Timeout` |

What is abstracted: the content of the output (a read is a number, and stdout and stderr are not told apart); a
blocked send is merged with the read before it, since the multiplexer counts what blocked senders hold; a
command's children that keep the pipe open; keepalive messages; several commands at once, and with them the
reuse of pids and the lookup by tag; stdin, which no request of this program writes. A pseudo-terminal has one
reader and its command starts in `New`; pipes have two readers.

- `StreamKept`: `ProcessStream` implements the safety part of `OutputStream`. Output and end travel through two
  channels, the pipes are closed by `cmd.Wait` and the readers are goroutines of their own, and yet the client
  gets all output, then the end.
- `Completes`: a command that has exited is reaped and unlisted and its client told, unless the request was
  given up.
- `RunsOn`: a command whose client has left goes on; the code violates it.

### PortForwarder

State: `listening` is what the machine has open on localhost, `scanner` and `scan` the scanner and the snapshot
it holds out, `procs` and `loop` the forwarder's copy and place, `state` and `handles` the map `f.ports` (an
entry is never deleted, its `socat` field is set or nil), `socat` the processes. A key is a process on a port,
as in the code; two keys can have one port.

| code | actions |
|---|---|
| scan.go 45-61 with scanSubscriber.go 35-50 | `Scan`: take a snapshot, filter it, block on the unbuffered channel |
| scan.go 48 | `ScanFails`: the error of `net.Connections` is dropped, and the forwarder gets an empty list |
| forward.go 96-118 | `Receive`: the hand-over, all entries marked `DELETE`, those seen marked `FORWARD` |
| forward.go 127-136, 150-207 | `StartNew`: an entry and a socat, or an entry whose `cmd.Start` failed |
| forward.go 141-145, 209-233 | `StopOld`: kill the process group, forget the handle |
| forward.go 98, 147 | `Await` |
| outside | `Open`, `Close` (servers), `Bind` (socat binds its port, or ends because it is taken), `SocatDies` |

- `SocatsFollowSnapshot`: no socat escapes: while the forwarder waits, all that run are held by an entry and
  belong to the last snapshot.
- `NewPortForwarded`: a server that opens a port once and keeps it is forwarded, from some time on for good, if
  no other server has had the port and no scan failed once it was known.
- `ClosedPortStops`: the socat of a server that has gone is stopped.

The conditions of `NewPortForwarded` are what the code gives, and each is a way in which a port that listens is
not forwarded:

- a server that closes its port and opens it again with the same pid finds its entry, is marked `FORWARD` and
  gets no new socat (`reopened`, forward.go:116);
- a failed scan is an empty one: every socat is stopped, and the entries, which are never deleted, get no new
  one. `broken` holds the keys that were known, or in the snapshot under way, when a scan failed; a scan that
  fails before that does no harm. (`gopsutil` returns no list with an error; a list that misses only some
  servers is, for these, the same.)
- when another process takes over a port within one period, its socat starts before the old one is killed,
  cannot bind, and is never tried again (forward.go:135 comes before 143): the model has this step (`Bind`), and
  `Sole` excludes it;
- a socat that fails is not replaced (`broken` too).

### EnvdInit

State: `up` (the daemon listens), `lastSetTime`, `envVars`, `accessToken`, `defaults` its memory; `phase`,
`left` the handlers. A variable's value is the request that stored it. `Arrive` brings a request to `initLock`;
`Enter` is `SetToGreater` (equal timestamps are accepted, older ones answered 204 and ignored); `Store` is one
turn of the range over the variables, in any order; `Finish` is the token, the defaults and the answer (409 with
the variables already stored); `Crash` loses everything. A request being `storing` is the lock.

- `NewestKept`: of a stamped request that was carried out, no variable is missing or overwritten by an older
  one.
- `Unmixed`: two requests that set the same variables, and are done, do not mix.

### AgentBoot

State: that of `EnvdInit`; `host`, `tries` (where create_microvm is after Popen, and the polls of its wait);
`agent`, `unread`, `answer`, `environ`, `fetched` (the agent server's startup, what `/envs` has answered so far,
and what the server's environment got of it). `acked` is a history variable: the server asked after the host's
`/init` had been carried out.

`startup()` sets the variables of the answer one by one inside a `try` (claude_main.py:31-36). A variable that
`os.environ` refuses (`Refused`: an empty name, a name with `=`, a NUL byte) ends the loop without a word, and
the variables before it stay: `EnvsAnswered` sets any subset of the others then, since the order is that of a Go
map. An error of the request itself (`EnvsFail`, or envd ends) comes before any of them is set.

| code | actions |
|---|---|
| execute_routes.py 278-307, 331-381 | `WaitForEnvd`, `WaitForFastApi`: both are a `Poll` |
| execute_routes.py 310-328 | `InitEnvd` (sent, or refused), `InitEnvdEnds` (answered, or five seconds are over: envd goes on) |
| claude_main.py 23-74, api/envs.go 15-20 | `Startup`, `GetEnvs` (one variable), `EnvsAnswered`, `EnvsFail`, `ClientReady` |
| Dockerfile-claude-fastapi 47-87 | `Envd!Listen`, `AgentEnds`, `EnvdEnds`: `Restart=always`, and `After=` orders the start of two `Type=simple` services, not their readiness |

- `AgentHasItsKeys`: an agent server that asked after the host's `/init` was carried out, and was answered, has
  none of the host's variables in an older version; and it has all of them, unless someone has posted a variable
  that `os.environ` refuses.
- `AnnouncedHasKeys`: the agent server of an announced VM whose envd has the host's variables has them too. The
  code violates it: the server asks once, the host's `/init` races with that at every boot, and `/health` is
  ready all the same.
- `BootEnds`: a create is answered. `AgentReturns`: the agent server of an announced VM comes back when it has
  ended.

### AgentTasks

State: `microvms`, `nextIp`, `owner`, `alive` (of `Host`, with create and kill in one step each); `pc`, `addr`
the handlers of the host and the address each has read; `writer`, `disk` envd's uploads of one file (a record
per task that wrote to it: `part` of its bytes, `all`, or what is `decoded` of a `Mistaken` text); `asked`,
`said`, `out` the SDK client: the queries it was sent, how far it is with the first, and the messages nobody has
taken; `got` what each task received. `stored`, `lives`, `alone`, `reached` are history.

| code | actions |
|---|---|
| execute_routes.py 397-409 | `NotFound`, `Relay` (the address is read here) |
| execute_routes.py 409-433, upload.go 37-109 | `OpenFile` (truncates; envd may come to it when the host has stopped waiting), `CloseFile` (all of it, or an error and a short file), `UploadEnds` (at any time: the host stops after five seconds) |
| execute_routes.py 439-477 | `Ask`, `GiveUp` |
| claude_main.py 101-150 | `Ask` (the query), `Receive` (a ResultMessage ends the iteration, whosever it is) |
| execute_routes.py 480-590 | `TakeList`, `ListFiles` (the request is at envd in between), `DownloadFile` |
| external | `Produce` (the SDK), `VmExits`; `AgentEnds` (systemd) |

- `OwnVm`: a request reaches no VM but its user's, although its address may be that of a VM that was killed. It
  rests on addresses that are not given out twice; its mutant reuses the lowest free one.
- `OwnAnswers`: a task that found the agent at rest, and that no other joined, is told its own answer, whole.
  For others this does not hold: the iteration takes whatever comes next, so two tasks read each other's
  messages, and a task after one whose client left begins with the rest of the old answer and ends at the old
  result.
- `ResultForEveryone`: whatever mixes, there is a result for each that waits.
- `Served`: every request ends, but for a listing that envd has taken. `list_workspace_files` gives neither
  `ConnectClient` nor `execute_unary` a timeout (execute_routes.py:499-517), so nothing in this code ends one
  whose VM hangs or is killed.
- `FilesWithTask`: a task whose upload was answered runs where its file is, with every byte its client sent,
  unless another task wrote to it or its text was taken for base64: `b64decode` drops what is not of its
  alphabet (execute_routes.py:419), and the exception is `Mistaken`.

## 3. Runs

Clients are a constant: `Ops` is what they send, `Impatient` which requests they send while one of the same user
is unanswered. A *patient* client has `Impatient = {}`.

| run | instance | checks | result |
|---|---|---|---|
| `host_serial` | 2 users, 3 requests, patient, no forced kills, 3 attempts per loop, 1 restart or reboot | `TypeOK`, `UniqueAddresses`, `DiskExclusive`, `RunningVmIntact`, `NoUntrackedProcess`, `DevicesAccounted`, `PromiseKept` | holds |
| `host_overlap` | 1 user that waits for nothing, all operations, 1 restart | `UniqueAddresses`, `Answered`, `OrphansSwept` | holds |
| `host_force` | 2 users, forced kills | `RunningVmIntact` | violated |
| `host_overlap_kills` | 1 user that repeats a slow kill | `PersistsUntilKilled` | violated |
| `multiplexer` | 3 consumers, 3 values, buffer 1, 2 senders | `TypeOK`, `Gapless`, `NothingMissed` | holds |
| `process_pipes` | pipes, a timeout, 4 reads of output, buffer 1, pipe 1 | `TypeOK`, `StreamKept`, `Completes` | holds |
| `process_pty` | a pseudo-terminal, no timeout | `StreamKept` | violated |
| `process_gone` | pipes, no timeout, 6 reads of output | `RunsOn` | violated |
| `port_forwarder` | 3 servers on 2 ports, 1 reopening, 1 failing socat, scans that fail | `TypeOK`, `SocatsFollowSnapshot`, `NewPortForwarded`, `ClosedPortStops` | holds |
| `agent_boot` | 4 requests to `/init`, one with a refused variable, 2 variables, 2 polls per wait, 2 services that end | `TypeOK`, `NewestKept`, `Unmixed`, `AgentHasItsKeys`, `BootEnds`, `AgentReturns` | holds |
| `agent_boot_race` | the host's `/init` only, no service ends | `AnnouncedHasKeys` | violated |
| `agent_tasks` | 2 tasks of one user, one with a file, a listing or download of another; 2 addresses, answers of 2 messages, 1 agent that ends | `TypeOK`, `OwnVm`, `OwnAnswers`, `FilesWithTask`, `ResultForEveryone`, `Served` | holds |

Bounds of `Host`. Three requests are a create, the kill or the failure of it, and the create that meets its
leftovers; or two VMs and a kill. With four requests and no restart the safety properties of `host_serial` were
checked too (578680 states) and hold. Two NBD devices make both the choice and the exhaustion happen (`NumNbd`
32 in the code), `ForceNbd` 1 stands for 16 of 32. `LastIp` 2 lets the third create run past the octet.
`Attempts` 3 gives a first, a middle and a last attempt (3 in the code). One restart is enough to have two
epochs. `InOrder` is a constraint on names only: requests are interchangeable until they are sent, so they are
sent in order. `LineHits` lets the forced kills of `host_overlap` delete the user's own TAP, at any time; in the
other runs no id is in anyone's line. `CHECK_DEADLOCK FALSE`: the requests are finite, and a host with nothing
to do stops.

Bounds of envd. Three consumers are one that stays, one that is removed before it in the array and one that
joins into the room that was made. A buffer of one (64 in the code) with two senders makes the buffer full, with
one sender blocked. Three or four values fill every place on the way at once; six do so for `process_gone` with
a further one that the command cannot write. A stream that has ended stops, so `CHECK_DEADLOCK FALSE`.

Bounds of the guest. Two servers on one port meet each other's socat, the third has nothing to do with them. Of
the four requests to `/init` one is the host's, one has its timestamp (they have seconds), one is older and one
has none (its variable is refused by `os.environ`, as any client's may be); two bring different tokens, so a
request is refused. Two crashes end envd and the agent server, or one of them twice. Polls are 2 (6000 and 600
in the code): a first and a last. In `agent_tasks` two tasks share an agent, one may follow the other's early
end, and a second VM of the same or the other user takes the second address. `Mistaken` is empty: its tasks are
exempt from `FilesWithTask`; the theorem has any. The safety properties were checked too with a file for both
tasks (5.9 million states) and with three tasks of one user on one VM (439106 states).

Fairness of `Host`. Each request in flight is resumed (`WF Resume(r)`): subprocesses end, sleeps expire, the
boot waits count their attempts. For each TAP, process and directory that stays an orphan a sweep comes whose
command for it works, whatever else fails in the same sweep (`WF` of `TapSwept`, `ProcSwept`, `DirSwept`): cron
calls maintenance every five minutes. Nothing is assumed of guests and clients.

Fairness of `ProcessStream`. Every goroutine that can move does (`WF`), the server notices a client that has
left, and a command that is not blocked on its output writes on or exits. `SF` of `DataCancel`: the multiplexer
locks and unlocks for every value, and a waiting writer of a Go `RWMutex` keeps new readers out, so it gets its
turn if the lock is free again and again. Clients need not leave, signals and timeouts need not come.
`process_gone` is a counterexample under the same fairness.

Fairness of the guest. `PortForwarder`: the two goroutines run (`WF` of `Forward`), scans do not fail for ever
(`SF` of `Scan`: a failed scan takes its place and sleeps as long) and a socat gets to its bind. Servers need
not open or close anything. `AgentBoot`: the host's loop goes on, because each poll ends after at most two
seconds and `init_envd` after five (`WF(Host)`). Of a guest that boots nothing is assumed: it may hang, and
`BootEnds` must hold. The agent server of an announced VM starts again, because systemd restarts it and `/envs`
is given five seconds (`WF` of `Agent` once the VM is announced). Nothing is assumed of crashes. `AgentTasks`:
`WF(Progress)`: something that can move does - the agent that was asked answers, a message is taken by who waits
for it, an upload is over, and a connection to a VM that is gone ends, except that of a listing: neither its
answer nor its end is assumed. Clients need not leave. Each request makes finitely many steps, so one condition
for all is enough.

### What the violations mean

- `host_force`: the forced kill of a user *without* an entry disconnects nbd0 to nbd15 whoever uses them. The
  comment above the loop means its own device; README.md:7 promises a persistent agent.
- `host_overlap_kills`: `del microvms[user_id]` at the end of a kill does not look whether the entry is still
  the VM it killed. Two kills and a create in between lose a new agent. (With five requests the device read at
  the start of the slow kill is stale too, and the disks of two VMs mix.)
- `process_pty`: `pty.StartWithSize` starts the command in `handler.New`, before line 105 of start.go joins the
  multiplexer. What the reader has sent by then is given to nobody. The comment next to it wants the output
  "correctly passed though".
- `process_gone`: the stream goroutine returns when its context is done, with the multiplexer in the middle of a
  send to it under the read lock. `dataCancel` waits for the write lock for ever, so the consumer is never taken
  away; the output channel and the pipe fill, and the command blocks. It is not killed, as the comment at
  start.go:76 says, but it cannot go on either. (With more than 64 reads of output in the code, a bound of 1
  here.)
- `agent_boot_race`: systemd starts both services, the agent server asks when envd listens and before the host
  has posted, gets an empty answer and is ready; the host posts, polls `/health` and announces.
  src/README.md:315 has the agent server get its API keys on startup.

## 4. Proofs

Every safety property of every passing run is a theorem: type correctness, the invariants and both refinements.
The theorems hold for every value of the constants that the named `ASSUME`s of the modules allow, and from no
fairness. (`AgentTasks` and `PortForwarder` assume finitely many tasks and servers, `Host` and `AgentBoot`
nothing of that kind.) Two hypotheses are needed beyond that, and each is stated in the theorem: *patience*
(`Patient`: clients wait for their answers and force no kills) for what `Host` keeps beyond unique addresses,
and *pipes* (`Pty = FALSE`) for `StreamKept`. The runs that expect a violation show that neither can be dropped.

Each proof has the same shape: `Init => Inv`, one lemma per group of actions for `Inv /\ [Next]_vars => Inv'`,
and a PTL step; a refinement adds that under `Inv` the step is one of the abstract specification or leaves its
variables alone.

**Host**

- `TypeCorrect` (`TypeOK`). Inductive invariant `TypeInv`: `TypeOK` and `SentInv`, that a request in flight has
  a user.
- `AddressesStayUnique` (`UniqueAddresses`), for **all** clients. `AddressInv`: `CounterInv` (the addresses
  given out since the last restart are below the counter and distinct), `ConfigInv` (a config in a user's
  directory was written by a create of that user, and the one that a booting request finds is of this epoch) and
  `RunInv` (a live process runs a config with an address, no two run the same one, and a config that is run has
  its socket file next to it). The argument is that the socket file guards the config: an overlapping create
  overwrites the config and removes the socket *in one stretch*, so no config is run twice.
- `AnnouncedVmsStayIntact` (`RunningVmIntact`), `DisksStayExclusive` (`DiskExclusive`), `ProcessesStayTracked`
  (`NoUntrackedProcess`), for **patient** clients without forced kills; `host_force` and `host_overlap_kills`
  show that these assumptions are needed. `DevicesStayAccounted` (`DevicesAccounted`) for the same clients:
  `AccountInv` adds that a device's create still names it, and that a request which was not sent has no victim.
  `SerialInv`: `OneAtATime` (one request in flight per user), `EntryInv` (whose entry there is at each point of
  a handler), `DeviceInv` (creates in flight and entries hold their device), `FilesInv` (and their directory,
  with their own config), `AliveInv` (a live process is that of an entry), `NetworkInv` (an announced VM has its
  TAP and route).
- `PatientClientsArePromised` (`PromiseKept`): `Host` implements `Sandbox!Safety`, for patient clients.
  `RefinementInv` adds to the above `LaunchedInv` (a create in its boot waits still has its entry) and
  `KillsInv` (a request that was not sent has no victim, and the kills of a user, which the mapping counts, are
  finitely many: no assumption on `Reqs` is needed). From these, `AgentsArePlain`: no agent is ever `broken`,
  and what `Sandbox` sees of a user is in four variables, `PlainState`. `StepKinds` sorts the actions of `Host`
  by what `Sandbox` can tell of them: `FastApiReady` is its `Announce`, `VmExits` its `Exit`, a kill's first
  stretch its `Kill`, its last one its `EndKill`, the two restarts its `HostLoss`; every other step, the sweep
  included, leaves all agents as they are.

**envd**

- `MultiplexerTypeCorrect`, `ValuesArriveInOrder` (`Gapless`), `NothingIsMissed` (`NothingMissed`), for any
  number of consumers, senders, values and any buffer, from `SourceAssumption` alone. `Inv` adds `ExitInv`
  (channels are closed only after the range over the source, which ends when it is closed and empty),
  `MemberInv` (until then the channels are those of the consumers that joined and were not removed, each once,
  and during a loop the slice is the field) and `ProgressInv` (a consumer has all values from `base` to the last
  one taken, except the one in hand, if it is `Pending`: not delivered to it in this loop). `Gapless` is not
  inductive without the last one: the next value must be the successor of the last one received.
- `StreamTyped` (`TypeOK`), on pipes and on a terminal, and `PipesKeepThePromise` (`StreamKept`), on pipes:
  `ProcessStream` implements `OutputStream!Safety` for any size of pipe, channel and output. What happens to
  `DataEvent` is not proved again: a step of `ProcessStream` is one of its `Multiplexer` with one consumer
  (`DataKept`), and the facts needed are `DeliverFacts` (what is delivered is the next piece) and
  `SeeCloseFacts` (a stream that finds its channel closed got the last one). `PipesInv` adds `StartInv` (before
  `Start` no process, no output and no close, so the stream's `base` is 0: it joins in time), `EndInv` (the end
  is offered only after `cmd.Wait` reaped the command), `PipeInv` (`Source` is closed with all output read,
  unless a signal or timeout closed the pipes, or nothing was started) and `StreamInv` (past its data loop the
  stream has sent on all that was read). On a terminal `StartInv` fails at its first step, which is what
  `process_pty` shows.
- `ForwarderTypeCorrect` (`TypeOK`) and `NoSocatEscapes` (`SocatsFollowSnapshot`), for any set of servers and
  ports and any number of faults and reopenings. `Inv` adds `HeldInv` (a socat that runs is held by its entry),
  `MarkedInv` (an entry in the state `FORWARD` is in the snapshot) and `StoppedInv` (when the forwarder waits,
  no entry in the state `DELETE` holds one): the property itself says nothing of a refresh that is half done.

**The guest**

- `TypesKept`, `VariablesNewest` (`NewestKept`), `VariablesUnmixed` (`Unmixed`) and `AgentGetsItsKeys`
  (`AgentHasItsKeys`), for any requests to `/init`, variables, timestamps, refused variables and number of
  crashes. `Unmixed` speaks of requests that are done only. Of the one that is still storing the theorem states
  what is true, `OwnInv`: what it has stored so far is its own; the rest is of the requests before it, and a
  `GET /envs` at that moment sees both. The rest of the invariant: `LeftInv` (only the holder of `initLock` has
  variables left to store), `StampInv` (who was let in is not newer than `lastSetTime`, and the holder is as
  new, or has no timestamp) and `StoredInv` (what a request has stored so far is there or was replaced by
  newer).
- `AgentGetsItsKeys` rests on `FetchInv`, the same of what `GET /envs` has read so far (it holds though a writer
  may be half done, because a variable is only ever replaced by one as new), and on `PostedInv`: envd and its
  answer hold only what someone posted, so an answer has no refused variable if nobody posted one, and then all
  of it is set.
- `TasksTyped`, `AloneMeansOwnAnswer` (`OwnAnswers`), `FileStaysWithTask` (`FilesWithTask`) and `ResultsSuffice`
  (`ResultForEveryone`), for any users, tasks, addresses and lengths of answers. `FileInv`: `WriterInv` (only a
  task with a file and an address uploads) and `DiskInv` (the file of a VM with one writer is what that writer
  has `Left`: all of it when its handler saw no error, else a part). `SdkInv`: `LivesInv` (an agent knows the
  tasks it was asked for, and no others), `QueueInv` (an agent with nothing left to answer has a result as the
  last of what is out), `CountInv` and `AloneInv`. `CountInv` is the heart of it: the tasks that were told a
  result, the results that nobody has taken and the queries not yet answered add up to the queries of this
  agent's life. Hence there is a result for each that waits, and an agent all of whose tasks were told one has
  no message left for the next.
- `RequestsReachTheirOwnVm` (`OwnVm`), for any users, tasks and addresses. `Inv` adds `EntryInv` and `HeldInv`:
  the address in an entry, or in the hands of a request that found its VM (ended ones too: an upload may begin
  late), is below the counter and its user had it. A create takes the address at the counter, so it never
  changes the owner of one that somebody holds.

Model-checked only: the liveness properties (`Answered`, `OrphansSwept`, `Completes`, `NewPortForwarded`,
`ClosedPortStops`, `BootEnds`, `AgentReturns`, `Served`), which need `ENABLED` and fairness and are beyond the
prover. They are checked on the instances of section 3.

## 5. Plan

Done: all modules of section 2, their runs, and the proofs of section 4. Next:

1. Wider hypotheses for `Host`: which of the theorems for patient clients hold when only creates, or only
   requests of different kinds, may overlap.
2. What a terminal keeps of `OutputStream` (start before output before end, with output lost at the beginning
   only).
3. `ProcessStream` with two commands and one pid, for the map of processes.

## 6. Not modelled

- Status and process listings, metrics, logging and the rest of `main` read state or wire it; generated
  protobuf, connect and OpenAPI code has no logic of the program; images, Dockerfiles (but for the two units)
  and API-key checks have no running state.
- The filesystem service consists of single system calls. Process listing, lookup by tag (a search over one
  reading of the map that stops at the first process with another tag, service.go:58), keepalive messages, stdin
  and the reuse of pids are left out of `ProcessStream`.
- The cron loop over several hosts: it keeps no state, and `return`s at the first host that is down
  (host_cleanup_.py:23). One host's sweep at any moment is in `Host`.
- A keepalive interval of zero in a client's header makes `time.NewTicker` panic (permissions/keepalive.go); no
  client of this program sends one.
- `POST /init` may set the guest's clock; no other part modelled here reads it.
- An upload of several parts, path resolution, and the directories that two uploads make at once (one of them
  gets 500: in the model, an upload that fails).
- The process behind the SDK client may die while the agent server lives; then every later task ends with an
  error, and the server stays "ready". `AgentTasks` ends both together.
- `Scanner.Unsubscribe` and `Destroy` are not called while envd serves.
