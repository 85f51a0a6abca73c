---- MODULE ProcessStreamProofs ----
(***************************************************************************)
(* Proofs about ProcessStream: the types, and that a command on pipes      *)
(* keeps the promise of OutputStream, for any size of the pipe, the buffer *)
(* and the output, whatever is signalled, times out or leaves.  What the   *)
(* stream gets from DataEvent is proved in MultiplexerProofs.              *)
(***************************************************************************)
EXTENDS ProcessStream, TLAPS

Mux == INSTANCE MultiplexerProofs

USE ModeAssumption, SizeAssumption

\* What TypeOK says of all but DataEvent.
RestType ==
  /\ command \in {"none", "running", "exited", "reaped"}
  /\ written \in 0 .. MaxOutput /\ sent <= written
  /\ handler \in {"new", "fork", "join", "forkend", "start", "announce",
                  "select", "endcancel", "datacancel", "returned"}
  /\ stream \in {"none", "start", "data", "end", "over"}
  /\ waiter \in {"none", "out", "reap", "offer", "delete", "over"}
  /\ endEvent \in {"none", "taken", "offered", "delivered", "dropped"}
  /\ seen \in {"nothing", "started", "ended"}
  /\ received \in Nat

FlagType ==
  /\ broken \in BOOLEAN /\ outDone \in BOOLEAN /\ client \in BOOLEAN
  /\ ctxDone \in BOOLEAN /\ endJoined \in BOOLEAN /\ listed \in BOOLEAN
  /\ stopped \in BOOLEAN

\* The client was sent no more than the stream got, and that no more than there
\* was.
GotInv == received <= Len(got[The]) /\ Len(got[The]) <= taken

Early == {"new", "fork", "join", "forkend", "start"}

\* On pipes nothing runs before Start, and nobody is told before Announce.
StartInv ==
  /\ handler \in Early => command = "none" /\ ~broken /\ ~closed /\ ~listed
  /\ handler \in Early \union {"announce"} =>
       seen = "nothing" /\ waiter = "none" /\ stream \notin {"data", "end"}
  /\ handler \in {"new", "fork", "join", "forkend"} => stream = "none"
  /\ command = "none" => written = 0

\* The command is reaped before its end is on the way to the client.
EndInv ==
  /\ waiter \notin {"none", "out"} => outDone
  /\ waiter \in {"offer", "delete", "over"} => command = "reaped"
  /\ endEvent # "none" => waiter \in {"delete", "over"}
  /\ seen = "ended" => endEvent = "delivered"

\* The pipes are closed when all was read, or after a signal or timeout, or
\* because there is no command.
PipeInv ==
  /\ outDone => closed \/ stopped
  /\ broken => \/ command = "none" /\ handler \notin Early
               \/ command = "reaped" /\ (closed \/ stopped)
  /\ closed => command # "running" /\ (stopped \/ sent = written)

\* The stream goroutine has sent on what it got, from the first piece of output
\* on; past its data loop it has got all that was read.
StreamInv ==
  /\ stream \in {"data", "end"} => seen = "started"
  /\ stream # "over" => received = Len(got[The])
  /\ base[The] = 0
  /\ stream = "end" => closed /\ Len(got[The]) = sent

TypeInv == Mux!Inv /\ RestType /\ FlagType /\ GotInv
PipesInv == StartInv /\ EndInv /\ PipeInv /\ StreamInv


-----------------------------------------------------------------------------
(* DataEvent.                                                              *)

\* A step of this Multiplexer is one of those that MultiplexerProofs is about.
LEMMA Sources == Mux!SourceAssumption
BY DEF Mux!SourceAssumption, Senders, MaxSent

Copying ==
  \/ Data!Take \/ Data!RLock \/ Data!RUnlock \/ Data!Exit
  \/ Data!StartClosing \/ Data!CloseConsumer \/ Data!Finish

Joining == Data!Fork(The) \/ Data!Join(The) \/ Data!SeeClose(The) \/ Data!Remove(The)

DataStep ==
  Data!Send \/ Data!Close \/ Copying \/ Data!Deliver(The) \/ Joining \/ UNCHANGED data

LEMMA DataKept ==
  ASSUME Mux!Inv, DataStep
  PROVE  Mux!Inv'
<1> USE Sources DEF Data!source, Data!ranging, Data!members, Mux!source, Mux!ranging,
                    Mux!members
<1>1. The \in Consumers
  BY DEF Consumers
<1>2. CASE Data!Send \/ Data!Close
  BY <1>2, Mux!SourceSteps DEF Data!Send, Data!Close, Mux!Send, Mux!Close
<1>3. CASE Data!Take
  BY <1>3, Mux!TakeStep DEF Data!Take, Mux!Take
<1>4. CASE Data!RLock
  BY <1>4, Mux!RLockStep DEF Data!RLock, Mux!RLock
<1>5. CASE Data!RUnlock
  BY <1>5, Mux!RUnlockStep DEF Data!RUnlock, Mux!RUnlock
<1>6. CASE Data!Exit \/ Data!StartClosing \/ Data!CloseConsumer \/ Data!Finish
  BY <1>6, Mux!ClosingSteps
  DEF Data!Exit, Data!StartClosing, Data!CloseConsumer, Data!Finish,
      Mux!Exit, Mux!StartClosing, Mux!CloseConsumer, Mux!Finish
<1>7. CASE Data!Deliver(The)
  BY <1>1, <1>7, Mux!DeliverStep DEF Data!Deliver, Mux!Deliver
<1>8. CASE Data!Fork(The)
  BY <1>1, <1>8, Mux!ForkStep DEF Data!Fork, Data!Move, Mux!Fork, Mux!Move
<1>9. CASE Data!Join(The)
  BY <1>1, <1>9, Mux!JoinStep
  DEF Data!Join, Data!Move, Data!RLocked, Mux!Join, Mux!Move, Mux!RLocked
<1>10. CASE Data!SeeClose(The)
  BY <1>1, <1>10, Mux!ConsumerSteps DEF Data!SeeClose, Data!Move, Mux!SeeClose, Mux!Move
<1>11. CASE Data!Remove(The)
  BY <1>1, <1>11, Mux!RemoveStep
  DEF Data!Remove, Data!Move, Data!RLocked, Data!Without, Data!Shifted,
      Mux!Remove, Mux!Move, Mux!RLocked, Mux!Without, Mux!Shifted
<1>12. CASE UNCHANGED data
  BY <1>12, Mux!NextInv DEF data, Mux!vars
<1> QED
  BY <1>2, <1>3, <1>4, <1>5, <1>6, <1>7, <1>8, <1>9, <1>10, <1>11, <1>12
  DEF DataStep, Copying, Joining

\* What the proofs need to know of the multiplexer's state.
LEMMA DataFacts ==
  ASSUME Mux!Inv
  PROVE  /\ Data!TypeOK
         /\ sent \in Nat /\ taken \in 0 .. sent /\ closed \in BOOLEAN
         /\ got[The] \in Seq(Nat) /\ Len(got[The]) \in Nat /\ base[The] \in Nat
         /\ loop = "taken" => taken > 0
         /\ exited => closed
<1>1. Mux!TypeOK /\ The \in Consumers
  BY DEF Mux!Inv, Consumers
<1>2. Data!TypeOK
  BY <1>1 DEF Mux!TypeOK, Data!TypeOK, Mux!Loop, Data!Loop, Mux!Places, Data!Places
<1>3. got[The] \in Seq(Nat) /\ base[The] \in Nat
  BY <1>1 DEF Mux!TypeOK
<1>4. sent \in Nat /\ taken \in 0 .. sent /\ closed \in BOOLEAN
  BY <1>1 DEF Mux!TypeOK, MaxSent
<1>5. (loop = "taken" => taken > 0) /\ (exited => closed)
  BY DEF Mux!Inv, Mux!ProgressInv, Mux!ExitInv
<1> QED
  BY <1>2, <1>3, <1>4, <1>5

\* A piece of output that is delivered is the next one.
LEMMA DeliverFacts ==
  ASSUME Mux!Inv, Data!Deliver(The)
  PROVE  /\ Len(got'[The]) = Len(got[The]) + 1 /\ Len(got[The]) + 1 <= taken
         /\ UNCHANGED <<sent, taken, closed, base>>
<1>1. /\ got' = [got EXCEPT ![The] = Append(@, taken)] /\ at[The] = "reading"
      /\ loop = "send" /\ turn <= Len(view) /\ view[turn] = The
      /\ UNCHANGED <<sent, taken, closed, base>>
  BY DEF Data!Deliver, Data!source
<1>2. The \in Consumers /\ Mux!TypeOK
  BY DEF Consumers, Mux!Inv
<1>3. got[The] \in Seq(Nat) /\ taken \in Nat /\ base[The] \in Nat
  BY <1>2, DataFacts
<1>4. Mux!Pending(The)
  BY <1>1, <1>2 DEF Mux!Pending, Mux!TypeOK
<1>5. base[The] + Len(got[The]) = taken - 1
  BY <1>1, <1>2, <1>4 DEF Mux!Inv, Mux!ProgressInv
<1>6. got'[The] = Append(got[The], taken)
  BY <1>1, <1>2 DEF Mux!TypeOK
<1>7. Len(got'[The]) = Len(got[The]) + 1
  BY <1>3, <1>6
<1> DEFINE g == Len(got[The])
<1>8. g \in Nat
  BY <1>3
<1>9. g + 1 <= taken
  <2> HIDE DEF g
  <2>1. base[The] + g = taken - 1
    BY <1>5 DEF g
  <2> QED
    BY <1>3, <1>8, <2>1
<1> QED
  BY <1>1, <1>7, <1>9

\* A stream that finds its channel closed has got the last piece of output.
LEMMA SeeCloseFacts ==
  ASSUME Mux!Inv, Data!SeeClose(The)
  PROVE  closed /\ base[The] + Len(got[The]) = sent
<1>1. at[The] = "reading" /\ The \in shut /\ The \in Consumers
  BY DEF Data!SeeClose, Consumers
<1>2. exited /\ closed /\ taken = sent /\ loop \notin {"taken", "send"}
  BY <1>1 DEF Mux!Inv, Mux!ExitInv
<1>3. ~Mux!Pending(The)
  BY <1>2 DEF Mux!Pending
<1> QED
  BY <1>1, <1>2, <1>3 DEF Mux!Inv, Mux!ProgressInv


-----------------------------------------------------------------------------
(* The types.                                                              *)

\* What each step does to DataEvent.
LEMMA NextData ==
  ASSUME [Next]_vars
  PROVE  /\ DataStep
         /\ sent' = sent \/ Read
         /\ closed' = closed \/ ReadEnds
         /\ got' = got \/ StreamData
         /\ taken' \in {taken, taken + 1}
         /\ base' = base \/ ForkData \/ JoinData
<1> USE DEF data, Data!source, Data!ranging, Data!members, DataStep
<1>1. CASE UNCHANGED data
  BY <1>1
<1>2. CASE Read \/ ReadEnds
  BY <1>2 DEF Read, ReadEnds, Data!Send, Data!Close
<1>3. CASE Copies
  <2>1. Copying
    BY <1>3 DEF Copies, Copying
  <2>2. UNCHANGED <<sent, closed, got, base>> /\ taken' \in {taken, taken + 1}
    BY <2>1 DEF Copying, Data!Take, Data!RLock, Data!RUnlock, Data!Exit,
                Data!StartClosing, Data!CloseConsumer, Data!Finish
  <2> QED
    BY <2>1, <2>2
<1>4. CASE ForkData \/ JoinData
  BY <1>4 DEF ForkData, JoinData, Joining, Data!Fork, Data!Join
<1>5. CASE DataCancel \/ StreamDataEnds
  BY <1>5 DEF DataCancel, StreamDataEnds, Joining, Data!Remove, Data!SeeClose
<1>6. CASE StreamData
  BY <1>6 DEF StreamData, Data!Deliver
<1>7. ~(Readers \/ Copies \/ ForkData \/ JoinData \/ DataCancel \/ StreamDataEnds
        \/ StreamData) => UNCHANGED data
  BY DEF Next, vars, HandleStart, Streams, Waits, Write, CommandExits, New, ForkEnd,
         Start, Announce, Selected, EndCancel, StreamCancelled, StreamEnd, WaitOutput,
         Reap, OfferEnd, LockEnd, Delete, SendSignal, Timeout, ClientLeaves, ContextDone
<1> QED
  BY <1>1, <1>2, <1>3, <1>4, <1>5, <1>6, <1>7 DEF Readers

LEMMA NextGot ==
  ASSUME TypeInv, [Next]_vars
  PROVE  GotInv'
<1>1. /\ taken \in Nat /\ taken' \in {taken, taken + 1} /\ Len(got[The]) \in Nat
      /\ received \in Nat
  BY NextData, DataFacts DEF TypeInv, RestType
<1>2. CASE StreamData
  <2>1. Data!Deliver(The) /\ received' \in {received, received + 1}
    BY <1>2 DEF StreamData, Sends
  <2>2. /\ Len(got'[The]) = Len(got[The]) + 1 /\ Len(got[The]) + 1 <= taken
        /\ taken' = taken
    BY <2>1, DeliverFacts DEF TypeInv
  <2> QED
    BY <1>1, <2>1, <2>2 DEF TypeInv, GotInv
<1>3. CASE ~StreamData
  <2>1. got' = got
    BY <1>3, NextData
  <2>2. received' = received
    BY <1>3 DEF Next, vars, request, Readers, Copies, HandleStart, Streams, Waits, Write,
         CommandExits, Read, ReadEnds, New, ForkData, JoinData, ForkEnd, Start, Announce,
         Selected, EndCancel, DataCancel, StreamCancelled, StreamDataEnds, StreamEnd,
         Sends, WaitOutput, Reap, OfferEnd, LockEnd, Delete, SendSignal, Timeout,
         ClientLeaves, ContextDone
  <2> QED
    BY <1>1, <2>1, <2>2 DEF TypeInv, GotInv
<1> QED
  BY <1>2, <1>3

LEMMA NextRest ==
  ASSUME TypeInv, [Next]_vars
  PROVE  RestType'
<1> USE DEF RestType, process, request, ending
<1>1. RestType /\ sent \in Nat
  BY DataFacts DEF TypeInv
<1>2. CASE Read
  BY <1>1, <1>2 DEF Read, Data!Send
<1>3. CASE ~Read
  <2>1. sent' = sent
    BY <1>3, NextData
  <2>2. CASE Write \/ CommandExits
    BY <1>1, <2>1, <2>2 DEF Write, CommandExits
  <2>3. CASE ReadEnds \/ Copies
    BY <1>1, <2>1, <2>3 DEF ReadEnds, Copies
  <2>4. CASE New \/ ForkData \/ JoinData \/ ForkEnd
    BY <1>1, <2>1, <2>4 DEF New, ForkData, JoinData, ForkEnd
  <2>5. CASE Start \/ Announce
    BY <1>1, <2>1, <2>5 DEF Start, Announce, Sends
  <2>6. CASE Selected \/ EndCancel \/ DataCancel
    BY <1>1, <2>1, <2>6 DEF Selected, EndCancel, DataCancel
  <2>7. CASE Streams
    BY <1>1, <2>1, <2>7 DEF Streams, StreamCancelled, StreamData, StreamDataEnds,
                            StreamEnd, Sends
  <2>8. CASE Waits
    BY <1>1, <2>1, <2>8 DEF Waits, WaitOutput, Reap, OfferEnd, LockEnd, Delete
  <2>9. CASE SendSignal \/ Timeout
    BY <1>1, <2>1, <2>9 DEF SendSignal, Timeout
  <2>10. CASE ClientLeaves \/ ContextDone
    BY <1>1, <2>1, <2>10 DEF ClientLeaves, ContextDone
  <2>11. CASE UNCHANGED vars
    BY <1>1, <2>1, <2>11 DEF vars
  <2> QED
    BY <1>3, <2>2, <2>3, <2>4, <2>5, <2>6, <2>7, <2>8, <2>9, <2>10, <2>11
    DEF Next, Readers, HandleStart
<1> QED
  BY <1>2, <1>3

LEMMA NextFlags ==
  ASSUME FlagType, [Next]_vars
  PROVE  FlagType'
<1> USE DEF FlagType, process, request, ending
<1>1. CASE Write \/ CommandExits \/ Read \/ ReadEnds \/ Copies \/ UNCHANGED vars
  BY <1>1, Zenon DEF Write, CommandExits, Read, ReadEnds, Copies, vars
<1>2. CASE New \/ ForkData \/ JoinData \/ ForkEnd \/ Start
  BY <1>2, Zenon DEF New, ForkData, JoinData, ForkEnd, Start
<1>3. CASE Announce \/ Selected \/ EndCancel \/ DataCancel
  BY <1>3, Zenon DEF Announce, Sends, Selected, EndCancel, DataCancel
<1>4. CASE Streams
  BY <1>4, Zenon DEF Streams, StreamCancelled, StreamData, StreamDataEnds, StreamEnd, Sends
<1>5. CASE Waits
  BY <1>5, Zenon DEF Waits, WaitOutput, Reap, OfferEnd, LockEnd, Delete
<1>6. CASE SendSignal \/ Timeout \/ ClientLeaves \/ ContextDone
  BY <1>6, Zenon DEF SendSignal, Timeout, ClientLeaves, ContextDone
<1> QED
  BY <1>1, <1>2, <1>3, <1>4, <1>5, <1>6 DEF Next, Readers, HandleStart

LEMMA InitTypes == Init => TypeInv
<1> SUFFICES ASSUME Init
             PROVE  TypeInv
  OBVIOUS
<1>1. Mux!Inv
  BY Sources, Mux!InitInv DEF Init, Data!Init, Mux!Init
<1>2. RestType
  BY DEF Init, Data!Init, RestType
<1>5. FlagType
  BY Zenon DEF Init, FlagType
<1>3. got[The] = <<>>
  BY DEF Init, Data!Init, Consumers
<1>4. GotInv
  BY <1>3 DEF Init, Data!Init, GotInv
<1> QED
  BY <1>1, <1>2, <1>4, <1>5 DEF TypeInv

LEMMA NextTypes ==
  ASSUME TypeInv, [Next]_vars
  PROVE  TypeInv'
BY NextData, NextGot, NextRest, NextFlags, DataKept DEF TypeInv

\* Every variable has its type, on pipes and on a terminal: no more is read than
\* the command wrote, and no more sent to the client than was taken from Source.
THEOREM StreamTyped == Spec => []TypeOK
<1>1. TypeInv => TypeOK
  <2> SUFFICES ASSUME TypeInv
               PROVE  TypeOK
    OBVIOUS
  <2>1. Data!TypeOK
    BY DataFacts DEF TypeInv
  <2>2. received \in 0 .. taken
    BY DataFacts DEF TypeInv, RestType, GotInv
  <2> QED
    BY <2>1, <2>2 DEF TypeInv, RestType, FlagType, TypeOK
<1> QED
  BY InitTypes, NextTypes, <1>1, PTL DEF Spec

-----------------------------------------------------------------------------
(* A command on pipes.                                                     *)

LEMMA InitPipes == Init => PipesInv
<1> SUFFICES ASSUME Init
             PROVE  PipesInv
  OBVIOUS
<1>1. /\ command = "none" /\ written = 0 /\ handler = "new" /\ stream = "none"
      /\ waiter = "none" /\ endEvent = "none" /\ seen = "nothing" /\ received = 0
  BY DEF Init
<1>2. ~broken /\ ~closed /\ ~listed /\ ~outDone
  BY Zenon DEF Init, Data!Init
<1>3. got[The] = <<>> /\ base[The] = 0
  BY DEF Init, Data!Init, Consumers
<1> QED
  BY <1>1, <1>2, <1>3 DEF PipesInv, StartInv, EndInv, PipeInv, StreamInv, Early

LEMMA NextStart ==
  ASSUME Pty = FALSE, StartInv, [Next]_vars
  PROVE  StartInv'
<1> USE DEF StartInv, Early, process, request, ending
<1>1. closed' = closed \/ ReadEnds
  BY NextData
<1>2. CASE ReadEnds
  BY <1>2 DEF ReadEnds
<1>3. CASE ~ReadEnds
  <2>1. closed' = closed
    BY <1>1, <1>3
  <2>2. CASE Write \/ CommandExits \/ Read \/ Copies \/ UNCHANGED vars
    BY <2>1, <2>2 DEF Write, CommandExits, Read, Copies, vars
  <2>3. CASE New \/ ForkData \/ JoinData \/ ForkEnd
    BY <2>1, <2>3 DEF New, ForkData, JoinData, ForkEnd
  <2>4. CASE Start \/ Announce
    BY <2>1, <2>4 DEF Start, Announce, Sends
  <2>5. CASE Selected \/ EndCancel \/ DataCancel
    BY <2>1, <2>5 DEF Selected, EndCancel, DataCancel
  <2>6. CASE Streams
    BY <2>1, <2>6 DEF Streams, StreamCancelled, StreamData, StreamDataEnds, StreamEnd,
                      Sends
  <2>7. CASE Waits
    BY <2>1, <2>7 DEF Waits, WaitOutput, Reap, OfferEnd, LockEnd, Delete
  <2>8. CASE SendSignal \/ Timeout \/ ClientLeaves \/ ContextDone
    BY <2>1, <2>8 DEF SendSignal, Timeout, ClientLeaves, ContextDone
  <2> QED
    BY <1>3, <2>2, <2>3, <2>4, <2>5, <2>6, <2>7, <2>8 DEF Next, Readers, HandleStart
<1> QED
  BY <1>2, <1>3

LEMMA NextEnd ==
  ASSUME Pty = FALSE, StartInv, EndInv, [Next]_vars
  PROVE  EndInv'
<1> USE DEF EndInv, process, request, ending
<1>1. CASE Write \/ CommandExits \/ Readers \/ Copies \/ UNCHANGED vars
  BY <1>1 DEF Write, CommandExits, Readers, Read, ReadEnds, Copies, vars
<1>2. CASE New \/ ForkData \/ JoinData \/ ForkEnd \/ Start
  BY <1>2 DEF New, ForkData, JoinData, ForkEnd, Start, StartInv, Early
<1>3. CASE Announce
  BY <1>3 DEF Announce, Sends, StartInv, Early
<1>4. CASE Selected \/ EndCancel \/ DataCancel
  BY <1>4 DEF Selected, EndCancel, DataCancel
<1>5. CASE Streams
  BY <1>5 DEF Streams, StreamCancelled, StreamData, StreamDataEnds, StreamEnd, Sends
<1>6. CASE Waits
  BY <1>6 DEF Waits, WaitOutput, Reap, OfferEnd, LockEnd, Delete
<1>7. CASE SendSignal \/ Timeout \/ ClientLeaves \/ ContextDone
  BY <1>7 DEF SendSignal, Timeout, ClientLeaves, ContextDone
<1> QED
  BY <1>1, <1>2, <1>3, <1>4, <1>5, <1>6, <1>7 DEF Next, HandleStart

LEMMA NextPipe ==
  ASSUME Pty = FALSE, TypeInv, StartInv, EndInv, PipeInv, [Next]_vars
  PROVE  PipeInv'
<1> USE DEF PipeInv, process, request, ending
<1>1. /\ sent \in Nat /\ written \in Nat /\ sent <= written
      /\ sent' = sent \/ Read
      /\ closed' = closed \/ ReadEnds
  BY DataFacts, NextData DEF TypeInv, RestType
<1>2. CASE ReadEnds
  <2>1. closed' /\ ~closed /\ sent' = sent
    BY <1>2 DEF ReadEnds, Data!Close
  <2>2. command # "running" /\ (stopped \/ sent = written)
    BY <1>1, <1>2, <2>1 DEF ReadEnds, StartInv
  <2> QED
    BY <1>2, <2>1, <2>2 DEF ReadEnds
<1>3. CASE Read
  BY <1>3 DEF Read, Data!Send
<1>4. CASE ~ReadEnds /\ ~Read
  <2>1. closed' = closed /\ sent' = sent
    BY <1>1, <1>4
  <2>2. CASE Write \/ CommandExits \/ Copies \/ UNCHANGED vars
    BY <1>1, <2>1, <2>2 DEF Write, CommandExits, Copies, vars
  <2>3. CASE New \/ ForkData \/ JoinData \/ ForkEnd
    BY <2>1, <2>3 DEF New, ForkData, JoinData, ForkEnd, StartInv, Early
  <2>4. CASE Start
    BY <2>1, <2>4 DEF Start, StartInv, Early
  <2>5. CASE Announce \/ Selected \/ EndCancel \/ DataCancel
    BY <2>1, <2>5 DEF Announce, Selected, EndCancel, DataCancel, Early
  <2>6. CASE Streams
    BY <2>1, <2>6 DEF Streams, StreamCancelled, StreamData, StreamDataEnds, StreamEnd
  <2>7. CASE Waits
    BY <2>1, <2>7 DEF Waits, WaitOutput, Reap, OfferEnd, LockEnd, Delete, EndInv
  <2>8. CASE SendSignal \/ Timeout \/ ClientLeaves \/ ContextDone
    BY <2>1, <2>8 DEF SendSignal, Timeout, ClientLeaves, ContextDone
  <2> QED
    BY <1>4, <2>2, <2>3, <2>4, <2>5, <2>6, <2>7, <2>8 DEF Next, Readers, HandleStart
<1> QED
  BY <1>2, <1>3, <1>4

\* The stream has joined before there is any output, so it misses none.
LEMMA NextBase ==
  ASSUME TypeInv, StartInv, base[The] = 0, [Next]_vars
  PROVE  base'[The] = 0
<1>1. /\ base' = base \/ ForkData \/ JoinData
      /\ taken \in 0 .. sent /\ sent \in Nat /\ sent <= written
      /\ (loop = "taken" => taken > 0) /\ (exited => closed)
      /\ base \in [Consumers -> Nat] /\ The \in Consumers
  BY NextData, DataFacts DEF TypeInv, RestType, Data!TypeOK, Consumers
<1>2. CASE ForkData
  <2>1. ~exited
    BY <1>1, <1>2 DEF ForkData, StartInv, Early
  <2> QED
    BY <1>2, <2>1 DEF ForkData, Data!Fork
<1>3. CASE JoinData
  <2>1. written = 0
    BY <1>3 DEF JoinData, StartInv, Early
  <2>2. taken = 0 /\ loop # "taken"
    BY <1>1, <2>1
  <2> QED
    BY <1>1, <1>3, <2>2 DEF JoinData, Data!Join
<1> QED
  BY <1>1, <1>2, <1>3

LEMMA NextStream ==
  ASSUME Pty = FALSE, TypeInv, StartInv, StreamInv, [Next]_vars
  PROVE  StreamInv'
<1> USE DEF process, request, ending
<1>1. base'[The] = 0
  BY NextBase DEF StreamInv
<1>2. /\ Len(got[The]) \in Nat /\ sent \in Nat /\ received \in Nat
      /\ got' = got \/ StreamData
      /\ closed' = closed \/ ReadEnds
      /\ sent' = sent \/ Read
  BY DataFacts, NextData DEF TypeInv, RestType
<1>3. closed => closed' /\ sent' = sent
  BY <1>2 DEF Read, ReadEnds, Data!Send, Data!Close
<1>4. CASE StreamData
  <2>1. Data!Deliver(The) /\ stream = "data"
    BY <1>4 DEF StreamData
  <2>2. Len(got'[The]) = Len(got[The]) + 1
    BY <2>1, DeliverFacts DEF TypeInv
  <2>3. \/ stream' = "data" /\ seen' = seen /\ received' = received + 1
        \/ stream' = "over"
    BY <1>4 DEF StreamData, Sends
  <2> QED
    BY <1>1, <2>1, <2>2, <2>3 DEF StreamInv
<1>5. CASE StreamDataEnds
  <2>1. closed /\ base[The] + Len(got[The]) = sent
    BY <1>5, SeeCloseFacts DEF StreamDataEnds, TypeInv
  <2>2. stream = "data" /\ stream' = "end" /\ UNCHANGED <<got, seen, received>>
    BY <1>5 DEF StreamDataEnds, Data!SeeClose
  <2>3. Len(got[The]) = sent
    BY <1>2, <2>1 DEF StreamInv
  <2> QED
    BY <1>1, <1>3, <2>1, <2>2, <2>3 DEF StreamInv
<1>6. CASE ~StreamData /\ ~StreamDataEnds
  <2>1. got' = got
    BY <1>2, <1>6
  <2>2. \/ UNCHANGED <<stream, seen, received>>
        \/ stream' = "over" /\ received' = received
        \/ stream = "none" /\ stream' = "start" /\ received' = received
        \/ stream # "over" /\ stream' = "data" /\ seen' = "started" /\ received' = received
    <3>1. CASE ForkEnd \/ Announce
      BY <3>1 DEF ForkEnd, Announce, Sends, StartInv, Early
    <3>2. CASE StreamCancelled \/ StreamEnd
      BY <3>2 DEF StreamCancelled, StreamEnd, Sends
    <3>3. CASE ~(ForkEnd \/ Announce \/ StreamCancelled \/ StreamEnd)
      BY <1>6, <3>3 DEF Next, vars, Readers, Copies, HandleStart, Streams, Waits, Write,
         CommandExits, Read, ReadEnds, New, ForkData, JoinData, Start, Selected,
         EndCancel, DataCancel, WaitOutput, Reap, OfferEnd, LockEnd, Delete, SendSignal,
         Timeout, ClientLeaves, ContextDone
    <3> QED
      BY <3>1, <3>2, <3>3
  <2> QED
    BY <1>1, <1>3, <2>1, <2>2 DEF StreamInv
<1> QED
  BY <1>4, <1>5, <1>6

LEMMA NextPipes ==
  ASSUME Pty = FALSE, TypeInv, PipesInv, [Next]_vars
  PROVE  PipesInv'
BY NextStart, NextEnd, NextPipe, NextStream DEF PipesInv

\* Every step on pipes is a step of OutputStream, or invisible to it: the end is
\* sent only when the stream has passed on all that the command wrote, or after
\* a signal or timeout.
LEMMA StepsKeepThePromise ==
  ASSUME Pty = FALSE, TypeInv, PipesInv, [Next]_vars
  PROVE  [Promise!Next]_(Promise!vars)
<1> USE DEF process, request, ending, Promise!vars, Promise!Next
<1>1. /\ Len(got[The]) \in Nat /\ sent \in Nat /\ received \in Nat /\ written \in Nat
      /\ taken \in Nat /\ taken <= sent /\ sent <= written
  BY DataFacts DEF TypeInv, RestType
<1>2. CASE Write
  <2>1. seen # "ended"
    BY <1>2 DEF Write, PipesInv, EndInv
  <2> QED
    BY <1>2, <2>1 DEF Write, Promise!Write
<1>3. CASE Announce
  BY <1>3 DEF Announce, Sends, PipesInv, StartInv, Early, Promise!Begin
<1>4. CASE StreamData
  <2>1. Len(got[The]) + 1 <= taken
    BY <1>4, DeliverFacts DEF StreamData, TypeInv
  <2>2. received < written /\ seen = "started"
    BY <1>1, <1>4, <2>1 DEF StreamData, PipesInv, StreamInv
  <2> QED
    BY <1>4, <2>2 DEF StreamData, Sends, Promise!Receive
<1>5. CASE StreamEnd
  <2>1. seen = "started" /\ (received = written \/ stopped)
    BY <1>5 DEF StreamEnd, PipesInv, StreamInv, PipeInv
  <2> QED
    BY <1>5, <2>1 DEF StreamEnd, Sends, Promise!End
<1>6. CASE SendSignal \/ Timeout
  BY <1>6 DEF SendSignal, Timeout, Promise!Stop
<1>7. ~(Write \/ Announce \/ StreamData \/ StreamEnd \/ SendSignal \/ Timeout) =>
        UNCHANGED <<seen, received, written, stopped>>
  BY DEF Next, vars, Readers, Copies, HandleStart, Streams, Waits, CommandExits, Read,
     ReadEnds, New, ForkData, JoinData, ForkEnd, Start, Selected, EndCancel, DataCancel,
     StreamCancelled, StreamDataEnds, WaitOutput, Reap, OfferEnd, LockEnd, Delete,
     ClientLeaves, ContextDone
<1> QED
  BY <1>2, <1>3, <1>4, <1>5, <1>6, <1>7

\* The client of a command on pipes gets the start event, all of the output in
\* order and then the end, for any size of the pipe, the channel and the output:
\* only a signal or a timeout cuts the output short.  (On a terminal it is not
\* so: there the command runs before the stream has joined.)
THEOREM PipesKeepThePromise ==
  ASSUME Pty = FALSE
  PROVE  Spec => StreamKept
<1>1. Init => TypeInv /\ PipesInv /\ Promise!Init
  <2>1. Init => Promise!Init
    BY DEF Init, Promise!Init
  <2> QED
    BY <2>1, InitTypes, InitPipes
<1>2. TypeInv /\ PipesInv /\ [Next]_vars => (TypeInv /\ PipesInv)'
  BY NextTypes, NextPipes
<1>3. TypeInv /\ PipesInv /\ [Next]_vars => [Promise!Next]_(Promise!vars)
  BY StepsKeepThePromise
<1> QED
  BY <1>1, <1>2, <1>3, PTL DEF Spec, StreamKept, Promise!Safety

====
