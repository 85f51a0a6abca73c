---- MODULE Multiplexer ----
(***************************************************************************)
(* MultiplexedChannel of envd (services/process/handler/multiplex.go): a   *)
(* goroutine copies every value of the channel Source to the unbuffered    *)
(* channels of its consumers.  Fork adds a consumer and remove takes one   *)
(* away, under the write lock; the goroutine sends under the read lock,    *)
(* and closes the consumers' channels at the end under no lock at all.     *)
(*                                                                         *)
(* The values are numbered: the n-th value sent to Source is n.            *)
(***************************************************************************)
EXTENDS Integers, Sequences

CONSTANTS
  Consumers,  \* callers of Fork, each with a channel of its own
  Buffer,     \* capacity of Source
  Senders,    \* goroutines that send to Source, one value at a time each
  MaxSent     \* bound on the values sent

ASSUME SourceAssumption ==
  Buffer \in Nat /\ Senders \in Nat \ {0} /\ MaxSent \in Nat

VARIABLES
  sent,      \* values given to Source; a blocked sender's value included
  taken,     \* values the goroutine has received from Source
  closed,    \* Source is closed
  loop,      \* where the goroutine is
  view,      \* the slice of channels it ranges over
  turn,      \* its index in view
  exited,    \* the flag exited
  channels,  \* the field channels
  shared,    \* view and channels are in one backing array
  at,        \* where each consumer is
  got,       \* the values each consumer received
  base,      \* history: the last value of Source that misses the consumer
  shut       \* consumers whose channel is closed

source == <<sent, taken, closed>>
ranging == <<loop, view, turn, exited>>
members == <<channels, shared, at, got, base, shut>>
vars == <<source, ranging, members>>

\* The goroutine: receiving from Source, waiting for the read lock, sending,
\* about to close the channels, closing them, gone.
Loop == {"range", "taken", "send", "exited", "closing", "done", "panicked"}

\* A consumer: not there yet, past the check of Fork, receiving, told that its
\* channel is closed, no longer receiving, removed.
Places == {"out", "forking", "reading", "ended", "leaving", "left"}

\* The goroutine holds the read lock.
RLocked == loop = "send"

-----------------------------------------------------------------------------
(* Source.                                                                 *)

\* A sender that finds the buffer full blocks with its value in hand.
Send ==
  /\ ~closed
  /\ sent < MaxSent /\ sent - taken < Buffer + Senders
  /\ sent' = sent + 1
  /\ UNCHANGED <<taken, closed, ranging, members>>

\* The senders are done, none of them blocked.
Close ==
  /\ ~closed
  /\ sent - taken <= Buffer
  /\ closed' = TRUE
  /\ UNCHANGED <<sent, taken, ranging, members>>

-----------------------------------------------------------------------------
(* The goroutine.                                                          *)

\* Variant: a receive that does not ask whether Source is closed.
Take_Blindly ==
  /\ loop = "range"
  /\ taken < sent \/ (closed /\ taken < MaxSent)
  /\ taken' = taken + 1
  /\ loop' = "taken"
  /\ UNCHANGED <<sent, closed, view, turn, exited, members>>

Take ==
  /\ loop = "range"
  /\ taken < sent
  /\ taken' = taken + 1
  /\ loop' = "taken"
  /\ UNCHANGED <<sent, closed, view, turn, exited, members>>

\* The read lock, and the evaluation of c.channels.
RLock ==
  /\ loop = "taken"
  /\ loop' = "send"
  /\ view' = channels /\ turn' = 1 /\ shared' = TRUE
  /\ UNCHANGED <<source, exited, channels, at, got, base, shut>>

\* cons <- v: both sides have to be there.
Deliver(c) ==
  /\ loop = "send"
  /\ turn <= Len(view) /\ view[turn] = c
  /\ at[c] = "reading"
  /\ got' = [got EXCEPT ![c] = Append(@, taken)]
  /\ turn' = turn + 1
  /\ UNCHANGED <<source, loop, view, exited, channels, shared, at, base, shut>>

RUnlock ==
  /\ loop = "send"
  /\ turn > Len(view)
  /\ loop' = "range"
  /\ UNCHANGED <<source, view, turn, exited, members>>

\* Variant: a closed source is left with values in its buffer.
Exit_Undrained ==
  /\ loop = "range"
  /\ closed
  /\ exited' = TRUE /\ loop' = "exited"
  /\ UNCHANGED <<source, view, turn, members>>

\* The range over Source ends: it is closed and empty.
Exit ==
  /\ loop = "range"
  /\ closed /\ taken = sent
  /\ exited' = TRUE /\ loop' = "exited"
  /\ UNCHANGED <<source, view, turn, members>>

\* The evaluation of c.channels in the last loop, without the lock.
StartClosing ==
  /\ loop = "exited"
  /\ loop' = "closing"
  /\ view' = channels /\ turn' = 1 /\ shared' = TRUE
  /\ UNCHANGED <<source, exited, channels, at, got, base, shut>>

\* close(cons) panics when the channel is closed already.
CloseConsumer ==
  /\ loop = "closing"
  /\ turn <= Len(view)
  /\ IF view[turn] \in shut
     THEN loop' = "panicked" /\ UNCHANGED <<turn, shut>>
     ELSE loop' = loop /\ turn' = turn + 1 /\ shut' = shut \union {view[turn]}
  /\ UNCHANGED <<source, view, exited, channels, shared, at, got, base>>

Finish ==
  /\ loop = "closing"
  /\ turn > Len(view)
  /\ loop' = "done"
  /\ UNCHANGED <<source, view, turn, exited, members>>

-----------------------------------------------------------------------------
(* The consumers.                                                          *)

Move(c, place) == at' = [at EXCEPT ![c] = place]

\* The check of Fork: after the end, the consumer gets a closed channel.
Fork(c) ==
  /\ at[c] = "out"
  /\ IF exited
     THEN /\ Move(c, "reading")
          /\ shut' = shut \union {c}
          /\ base' = [base EXCEPT ![c] = taken]
     ELSE Move(c, "forking") /\ UNCHANGED <<shut, base>>
  /\ UNCHANGED <<source, ranging, channels, shared, got>>

\* The rest of Fork, under the write lock.  The append writes over an entry of
\* view where a remove has made room in their array; otherwise it leaves view as
\* it is, and goes on in that array or in a larger one.
Join(c) ==
  /\ at[c] = "forking"
  /\ ~RLocked
  /\ channels' = Append(channels, c)
  /\ IF shared /\ Len(channels) < Len(view)
     THEN view' = [view EXCEPT ![Len(channels) + 1] = c] /\ shared' = shared
     ELSE view' = view /\ shared' \in {shared, FALSE}
  /\ base' = [base EXCEPT ![c] = IF loop = "taken" THEN taken - 1 ELSE taken]
  /\ Move(c, "reading")
  /\ UNCHANGED <<source, loop, turn, exited, got, shut>>

\* A receive finds the channel closed.
SeeClose(c) ==
  /\ at[c] = "reading"
  /\ c \in shut
  /\ Move(c, "ended")
  /\ UNCHANGED <<source, ranging, channels, shared, got, base, shut>>

\* The consumer stops receiving.
Leave(c) ==
  /\ at[c] \in {"reading", "ended"}
  /\ Move(c, "leaving")
  /\ UNCHANGED <<source, ranging, channels, shared, got, base, shut>>

\* append(channels[:i], channels[i+1:]...): the array without its i-th entry,
\* and what a slice of the same array shows then.
Without(s, i) == [j \in 1 .. Len(s) - 1 |-> IF j < i THEN s[j] ELSE s[j + 1]]
Shifted(s, i, n) == [j \in 1 .. Len(s) |-> IF i <= j /\ j < n THEN channels[j + 1] ELSE s[j]]

\* Variant: remove does not lock.
Remove_Unlocked(c) ==
  /\ at[c] \in {"reading", "ended", "leaving"}
  /\ \/ /\ \A i \in 1 .. Len(channels) : channels[i] # c
        /\ UNCHANGED <<channels, view>>
     \/ \E i \in 1 .. Len(channels) :
          /\ channels[i] = c
          /\ channels' = Without(channels, i)
          /\ view' = IF shared THEN Shifted(view, i, Len(channels)) ELSE view
  /\ Move(c, "left")
  /\ UNCHANGED <<source, loop, turn, exited, shared, got, base, shut>>

\* remove, under the write lock, by whichever goroutine: the consumer may be
\* receiving still.  (One that forked after the end has nothing to remove.)
Remove(c) ==
  /\ at[c] \in {"reading", "ended", "leaving"}
  /\ ~RLocked
  /\ \/ /\ \A i \in 1 .. Len(channels) : channels[i] # c
        /\ UNCHANGED <<channels, view>>
     \/ \E i \in 1 .. Len(channels) :
          /\ channels[i] = c
          /\ channels' = Without(channels, i)
          /\ view' = IF shared THEN Shifted(view, i, Len(channels)) ELSE view
  /\ Move(c, "left")
  /\ UNCHANGED <<source, loop, turn, exited, shared, got, base, shut>>

-----------------------------------------------------------------------------

Init ==
  /\ sent = 0 /\ taken = 0 /\ closed = FALSE
  /\ loop = "range" /\ view = <<>> /\ turn = 1 /\ exited = FALSE
  /\ channels = <<>> /\ shared = FALSE
  /\ at = [c \in Consumers |-> "out"]
  /\ got = [c \in Consumers |-> <<>>]
  /\ base = [c \in Consumers |-> 0]
  /\ shut = {}

Goroutine ==
  \/ Take \/ RLock \/ (\E c \in Consumers : Deliver(c)) \/ RUnlock
  \/ Exit \/ StartClosing \/ CloseConsumer \/ Finish

Consumer(c) == Fork(c) \/ Join(c) \/ SeeClose(c) \/ Leave(c) \/ Remove(c)

\* A panic ends envd.
Next ==
  /\ loop # "panicked"
  /\ Send \/ Close \/ Goroutine \/ \E c \in Consumers : Consumer(c)

Spec == Init /\ [][Next]_vars

-----------------------------------------------------------------------------
(* Properties.                                                             *)

\* Every variable has its type, and the goroutine takes what was sent.
TypeOK ==
  /\ sent \in 0 .. MaxSent /\ taken \in 0 .. sent
  /\ closed \in BOOLEAN /\ exited \in BOOLEAN /\ shared \in BOOLEAN
  /\ loop \in Loop /\ turn \in Nat \ {0}
  /\ view \in Seq(Consumers) /\ channels \in Seq(Consumers)
  /\ at \in [Consumers -> Places]
  /\ got \in [Consumers -> Seq(Nat)]
  /\ base \in [Consumers -> Nat]
  /\ shut \subseteq Consumers

\* From the moment it joins, a consumer gets the values of Source one by one:
\* none twice, none left out, in order, whoever joins or leaves meanwhile.
Gapless == \A c \in Consumers : \A i \in 1 .. Len(got[c]) : got[c][i] = base[c] + i

\* A consumer that is told the end (a closed channel) has got everything.
NothingMissed == \A c \in Consumers : at[c] = "ended" => base[c] + Len(got[c]) = sent

====
