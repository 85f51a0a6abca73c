---- MODULE ProcessStream ----
(***************************************************************************)
(* One command that envd starts for a client (services/process): handler   *)
(* start.go handleStart, its stream goroutine, the goroutine that waits    *)
(* for the command, the goroutines of handler.go that read its output, and *)
(* the multiplexers between them.  The output goes through a Multiplexer   *)
(* with the stream as its one consumer; the multiplexers of the start      *)
(* event and of the end event carry one value each and are modelled here.  *)
(* A read of output, and its send to Source, is numbered as in Multiplexer.*)
(***************************************************************************)
EXTENDS Integers, Sequences

CONSTANTS
  Pty,        \* the command runs on a pseudo-terminal, not on pipes
  Timed,      \* the request has a timeout
  Buffer,     \* capacity of the output channel (outputBufferSize, 64)
  PipeSize,   \* reads of output that fit into the pipe
  MaxOutput   \* bound on the output of the command, in reads

ASSUME ModeAssumption == Pty \in BOOLEAN /\ Timed \in BOOLEAN
ASSUME SizeAssumption ==
  Buffer \in Nat \ {0} /\ PipeSize \in Nat \ {0} /\ MaxOutput \in Nat

VARIABLES
  sent, taken, closed, loop, view, turn, exited, channels, shared, at, got,
  base, shut,  \* DataEvent, see Multiplexer
  command,   \* not started, running, exited (a zombie), reaped
  written,   \* output written by the command
  broken,    \* the reading end of the output is closed
  outDone,   \* outCtx is done
  client,    \* the client is there
  ctxDone,   \* the context of the request is done
  handler,   \* where handleStart is
  stream,    \* where its stream goroutine is
  waiter,    \* where proc.Wait is
  endEvent,  \* the end event on its way through EndEvent
  endJoined, \* the stream is a consumer of EndEvent
  listed,    \* the command is in processes
  seen,      \* what the client was told
  received,  \* the output it was sent
  stopped    \* history: a signal or the timeout came

The == "stream"
Consumers == {The}
Senders == IF Pty THEN 1 ELSE 2
MaxSent == MaxOutput

Data == INSTANCE Multiplexer

data == <<sent, taken, closed, loop, view, turn, exited, channels, shared, at,
          got, base, shut>>
process == <<command, written, broken, outDone, stopped>>
request == <<client, ctxDone, seen, received>>
ending == <<waiter, endEvent, listed>>
vars == <<data, process, request, ending, handler, stream, endJoined>>

-----------------------------------------------------------------------------
(* The command and the goroutines that read its output.                    *)

Write ==
  /\ command = "running"
  /\ written < MaxOutput /\ written - sent < PipeSize
  /\ written' = written + 1
  /\ UNCHANGED <<data, command, broken, outDone, stopped, request, ending,
                 handler, stream, endJoined>>

CommandExits ==
  /\ command = "running"
  /\ command' = "exited"
  /\ UNCHANGED <<data, written, broken, outDone, stopped, request, ending,
                 handler, stream, endJoined>>

\* Variant: a read of no bytes is sent as well.
Read_Empty ==
  /\ ~broken
  /\ Data!Send
  /\ UNCHANGED <<process, request, ending, handler, stream, endJoined>>

\* A read, and its send to Source.
Read ==
  /\ ~broken
  /\ sent < written
  /\ Data!Send
  /\ UNCHANGED <<process, request, ending, handler, stream, endJoined>>

\* Variant: the readers leave Source open.
ReadEnds_Open ==
  /\ broken \/ (command = "exited" /\ sent = written)
  /\ ~outDone
  /\ outDone' = TRUE
  /\ UNCHANGED <<data, command, written, broken, stopped, request, ending,
                 handler, stream, endJoined>>

\* The end of the output, or a read error: Source is closed and outCtx done.
ReadEnds ==
  /\ broken \/ (command = "exited" /\ sent = written)
  /\ Data!Close
  /\ outDone' = TRUE
  /\ UNCHANGED <<command, written, broken, stopped, request, ending, handler,
                 stream, endJoined>>

-----------------------------------------------------------------------------
(* handleStart.                                                            *)

\* handler.New; on a pseudo-terminal the command starts here.  A request that
\* is refused changes nothing.
New ==
  /\ handler = "new"
  /\ \/ /\ handler' = "fork"
        /\ command' = IF Pty THEN "running" ELSE command
     \/ handler' = "returned" /\ UNCHANGED command
  /\ UNCHANGED <<data, written, broken, outDone, stopped, request, ending,
                 stream, endJoined>>

ForkData ==
  /\ handler = "fork"
  /\ Data!Fork(The)
  /\ handler' = IF exited THEN "forkend" ELSE "join"
  /\ UNCHANGED <<process, request, ending, stream, endJoined>>

JoinData ==
  /\ handler = "join"
  /\ Data!Join(The)
  /\ handler' = "forkend"
  /\ UNCHANGED <<process, request, ending, stream, endJoined>>

\* EndEvent has not ended (its Source is never closed); the stream goroutine.
ForkEnd ==
  /\ handler = "forkend"
  /\ endJoined' = TRUE
  /\ stream' = "start"
  /\ handler' = "start"
  /\ UNCHANGED <<data, process, request, ending>>

\* proc.Start, and processes.Store.  A command that cannot be started has its
\* pipes closed.
Start ==
  /\ handler = "start"
  /\ \/ /\ command' = IF Pty THEN command ELSE "running"
        /\ listed' = TRUE
        /\ handler' = "announce"
        /\ UNCHANGED broken
     \/ /\ ~Pty
        /\ broken' = TRUE
        /\ handler' = "endcancel"
        /\ UNCHANGED <<command, listed>>
  /\ UNCHANGED <<data, written, outDone, stopped, request, waiter,
                 endEvent, stream, endJoined>>

\* stream.Send: a client that is gone may make it fail, and then the stream
\* goroutine cancels the context and returns.
Sends(told, label) ==
  \/ told /\ ctxDone' = ctxDone /\ stream' = label
  \/ /\ ~client
     /\ UNCHANGED <<seen, received>>
     /\ ctxDone' = TRUE /\ stream' = "over"

\* start <- event, received by the stream goroutine.
Announce ==
  /\ handler = "announce"
  /\ stream = "start"
  /\ Sends(seen' = "started" /\ received' = received, "data")
  /\ handler' = "select"
  /\ waiter' = "out"
  /\ UNCHANGED <<data, process, client, endEvent, listed, endJoined>>

\* The select: the context is done, or the stream goroutine has returned.
Selected ==
  /\ handler = "select"
  /\ ctxDone \/ stream = "over"
  /\ handler' = "endcancel"
  /\ UNCHANGED <<data, process, request, ending, stream, endJoined>>

\* The deferred calls.  endCancel waits for the lock of EndEvent.
EndCancel ==
  /\ handler = "endcancel"
  /\ endEvent # "offered"
  /\ endJoined' = FALSE
  /\ handler' = "datacancel"
  /\ UNCHANGED <<data, process, request, ending, stream>>

DataCancel ==
  /\ handler = "datacancel"
  /\ Data!Remove(The)
  /\ handler' = "returned"
  /\ UNCHANGED <<process, request, ending, stream, endJoined>>

-----------------------------------------------------------------------------
(* The stream goroutine.                                                   *)

\* <-ctx.Done(), in any of its selects.
StreamCancelled ==
  /\ stream \in {"start", "data", "end"}
  /\ ctxDone \/ handler = "returned"
  /\ stream' = "over"
  /\ ctxDone' = TRUE
  /\ UNCHANGED <<data, process, client, seen, received, ending, handler,
                 endJoined>>

\* A piece of output from the multiplexer.
StreamData ==
  /\ stream = "data"
  /\ Data!Deliver(The)
  /\ Sends(seen' = seen /\ received' = received + 1, "data")
  /\ UNCHANGED <<process, client, ending, handler, endJoined>>

\* The channel is closed: the data loop ends.
StreamDataEnds ==
  /\ stream = "data"
  /\ Data!SeeClose(The)
  /\ stream' = "end"
  /\ UNCHANGED <<process, request, ending, handler, endJoined>>

\* Variant: one select for output and end.
StreamEnd_AnyTime ==
  /\ stream \in {"data", "end"}
  /\ endEvent = "offered"
  /\ endEvent' = "delivered"
  /\ Sends(seen' = "ended" /\ received' = received, "over")
  /\ UNCHANGED <<data, process, client, waiter, listed, handler, endJoined>>

StreamEnd ==
  /\ stream = "end"
  /\ endEvent = "offered"
  /\ endEvent' = "delivered"
  /\ Sends(seen' = "ended" /\ received' = received, "over")
  /\ UNCHANGED <<data, process, client, waiter, listed, handler, endJoined>>

-----------------------------------------------------------------------------
(* proc.Wait and the goroutine of EndEvent.                                *)

WaitOutput ==
  /\ waiter = "out"
  /\ outDone
  /\ waiter' = "reap"
  /\ UNCHANGED <<data, process, request, endEvent, listed, handler, stream,
                 endJoined>>

\* cmd.Wait reaps the command and closes the pipes (Wait, the terminal).
Reap ==
  /\ waiter = "reap"
  /\ command = "exited"
  /\ command' = "reaped" /\ broken' = TRUE
  /\ waiter' = "offer"
  /\ UNCHANGED <<data, written, outDone, stopped, request, endEvent, listed,
                 handler, stream, endJoined>>

\* EndEvent.Source <- event, received by the goroutine of EndEvent.
OfferEnd ==
  /\ waiter = "offer"
  /\ endEvent' = "taken"
  /\ waiter' = "delete"
  /\ UNCHANGED <<data, process, request, listed, handler, stream, endJoined>>

\* It takes the read lock; without a consumer the event is dropped.
LockEnd ==
  /\ endEvent = "taken"
  /\ endEvent' = IF endJoined THEN "offered" ELSE "dropped"
  /\ UNCHANGED <<data, process, request, waiter, listed, handler, stream,
                 endJoined>>

\* processes.Delete.
Delete ==
  /\ waiter = "delete"
  /\ waiter' = "over" /\ listed' = FALSE
  /\ UNCHANGED <<data, process, request, endEvent, handler, stream, endJoined>>

-----------------------------------------------------------------------------
(* Signals, timeouts, clients that leave.                                  *)

\* SendSignal finds the command in processes.  SIGTERM may be handled.
SendSignal ==
  /\ listed
  /\ outDone' = TRUE /\ stopped' = TRUE
  /\ command' \in {command} \union (IF command = "running" THEN {"exited"} ELSE {})
  /\ UNCHANGED <<data, written, broken, request, ending, handler, stream,
                 endJoined>>

\* procCtx: the command is killed, outCtx is done.
Timeout ==
  /\ Timed
  /\ command \in {"running", "exited"}
  /\ command' = "exited"
  /\ outDone' = TRUE /\ stopped' = TRUE
  /\ UNCHANGED <<data, written, broken, request, ending, handler, stream,
                 endJoined>>

ClientLeaves ==
  /\ client
  /\ client' = FALSE
  /\ UNCHANGED <<data, process, ctxDone, seen, received, ending, handler,
                 stream, endJoined>>

\* The server notices, or the request's own deadline passes.
ContextDone ==
  /\ ~client \/ Timed
  /\ ~ctxDone
  /\ ctxDone' = TRUE
  /\ UNCHANGED <<data, process, client, seen, received, ending, handler,
                 stream, endJoined>>

-----------------------------------------------------------------------------

Init ==
  /\ Data!Init
  /\ command = "none" /\ written = 0 /\ broken = FALSE /\ outDone = FALSE
  /\ client = TRUE /\ ctxDone = FALSE
  /\ handler = "new" /\ stream = "none" /\ waiter = "none"
  /\ endEvent = "none" /\ endJoined = FALSE
  /\ listed = FALSE /\ seen = "nothing" /\ received = 0 /\ stopped = FALSE

Readers == Read \/ ReadEnds

\* The goroutine of DataEvent; a send is the stream goroutine's step as well.
Copies ==
  /\ \/ Data!Take \/ Data!RLock \/ Data!RUnlock \/ Data!Exit
     \/ Data!StartClosing \/ Data!CloseConsumer \/ Data!Finish
  /\ UNCHANGED <<process, request, ending, handler, stream, endJoined>>

HandleStart ==
  \/ New \/ ForkData \/ JoinData \/ ForkEnd \/ Start \/ Announce
  \/ Selected \/ EndCancel \/ DataCancel

Streams == StreamCancelled \/ StreamData \/ StreamDataEnds \/ StreamEnd

Waits == WaitOutput \/ Reap \/ OfferEnd \/ LockEnd \/ Delete

Next ==
  \/ Write \/ CommandExits \/ Readers \/ Copies
  \/ HandleStart \/ Streams \/ Waits
  \/ SendSignal \/ Timeout \/ ClientLeaves \/ ContextDone

Spec == Init /\ [][Next]_vars

\* A command that is not blocked on its output goes on and exits some time.
CommandGoes == Write \/ (CommandExits /\ written - sent < PipeSize)

\* Goroutines run, the server notices a client that has left, and locks are
\* granted (a waiting writer keeps new readers of an RWMutex out).
Fairness ==
  /\ WF_vars(CommandGoes) /\ WF_vars(Readers) /\ WF_vars(Copies)
  /\ WF_vars(HandleStart) /\ SF_vars(DataCancel)
  /\ WF_vars(Streams) /\ WF_vars(Waits)
  /\ WF_vars(~client /\ ContextDone)

FairSpec == Spec /\ Fairness

-----------------------------------------------------------------------------
(* Properties.                                                             *)

\* Every variable has its type, and the goroutines agree on how far they are.
TypeOK ==
  /\ Data!TypeOK
  /\ command \in {"none", "running", "exited", "reaped"}
  /\ written \in 0 .. MaxOutput /\ sent <= written
  /\ {broken, outDone, client, ctxDone, endJoined, listed, stopped} \subseteq BOOLEAN
  /\ handler \in {"new", "fork", "join", "forkend", "start", "announce",
                  "select", "endcancel", "datacancel", "returned"}
  /\ stream \in {"none", "start", "data", "end", "over"}
  /\ waiter \in {"none", "out", "reap", "offer", "delete", "over"}
  /\ endEvent \in {"none", "taken", "offered", "delivered", "dropped"}
  /\ seen \in {"nothing", "started", "ended"}
  /\ received \in 0 .. taken

Promise == INSTANCE OutputStream

\* The client gets the start event, the whole output in order and then the
\* end event, though output and end travel through two channels.
StreamKept == Promise!Safety

\* A command that has exited is reaped and unlisted, and its client told,
\* unless the request was given up before.
Completes == command = "exited" ~> ctxDone \/ (seen = "ended" /\ ~listed)

\* A command whose client has left runs to its end (start.go:76, "We do not
\* want the command to be killed if the request context is cancelled").
RunsOn == ctxDone /\ ~stopped ~> command # "running" \/ stopped

====
