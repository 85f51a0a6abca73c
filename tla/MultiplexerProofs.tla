---- MODULE MultiplexerProofs ----
(***************************************************************************)
(* What a consumer of Multiplexer gets, for any number of consumers that   *)
(* join and leave at any time.                                             *)
(***************************************************************************)
EXTENDS Multiplexer, SequenceTheorems, TLAPS

USE SourceAssumption DEF SourceAssumption, Loop, Places, source, ranging, members, Move

\* The flag says that the goroutine is past its range over Source, for which
\* Source had to be closed and empty; only then are channels closed.
ExitInv ==
  /\ exited <=> loop \in {"exited", "closing", "done", "panicked"}
  /\ exited => closed /\ taken = sent
  /\ shut # {} => exited

\* Until then the channels are those of the consumers that joined and were not
\* removed, each one once; and they do not change while they are ranged over.
MemberInv ==
  /\ \A i, j \in 1 .. Len(channels) : channels[i] = channels[j] => i = j
  /\ \A i \in 1 .. Len(channels) : at[channels[i]] \in {"reading", "ended", "leaving"}
  /\ \A c \in Consumers :
       ~exited /\ at[c] = "reading" => \E i \in 1 .. Len(channels) : channels[i] = c
  /\ loop = "send" => view = channels
  /\ \A c \in Consumers : at[c] = "ended" => exited

\* The goroutine has yet to send consumer c the value in its hand.
Pending(c) ==
  \/ loop = "taken"
  \/ loop = "send" /\ \E i \in turn .. Len(view) : view[i] = c

\* A consumer has all values from the one after base to the last one taken,
\* but for the one in hand.
ProgressInv ==
  /\ \A c \in Consumers : at[c] \in {"out", "forking"} => got[c] = <<>>
  /\ loop = "taken" => taken > 0
  /\ \A c \in Consumers :
       at[c] \in {"reading", "ended"} =>
         base[c] + Len(got[c]) = IF Pending(c) THEN taken - 1 ELSE taken

Inv == TypeOK /\ ExitInv /\ MemberInv /\ ProgressInv /\ Gapless

\* Sequences: an entry taken out, an entry changed, an entry added.
LEMMA WithoutSeq ==
  ASSUME NEW S, NEW s \in Seq(S), NEW k \in 1 .. Len(s)
  PROVE  /\ Without(s, k) \in Seq(S)
         /\ Len(Without(s, k)) = Len(s) - 1
         /\ \A j \in 1 .. Len(s) - 1 :
              Without(s, k)[j] = IF j < k THEN s[j] ELSE s[j + 1]
  <1>1. \A j \in 1 .. Len(s) - 1 : (IF j < k THEN s[j] ELSE s[j + 1]) \in S
    OBVIOUS
  <1>2. Without(s, k) \in [1 .. Len(s) - 1 -> S]
    BY <1>1 DEF Without
  <1>3. Len(s) - 1 \in Nat
    OBVIOUS
  <1>4. Without(s, k) \in Seq(S) /\ Len(Without(s, k)) = Len(s) - 1
    BY <1>2, <1>3
  <1> QED
    BY <1>4 DEF Without

LEMMA ShiftedSeq ==
  ASSUME NEW S, NEW s \in Seq(S), NEW k \in 1 .. Len(channels), channels \in Seq(S)
  PROVE  Shifted(s, k, Len(channels)) \in Seq(S)
  <1>1. Shifted(s, k, Len(channels)) \in [1 .. Len(s) -> S]
    BY DEF Shifted
  <1> QED
    BY <1>1

LEMMA AppendSeq ==
  ASSUME NEW S, NEW s \in Seq(S), NEW e \in S
  PROVE  /\ Append(s, e) \in Seq(S)
         /\ Len(Append(s, e)) = Len(s) + 1
         /\ \A i \in 1 .. Len(s) + 1 : Append(s, e)[i] = IF i <= Len(s) THEN s[i] ELSE e
  OBVIOUS

LEMMA InitInv == Init => Inv
  <1> SUFFICES ASSUME Init PROVE Inv
    OBVIOUS
  <1>1. TypeOK
    <2>1. <<>> \in Seq(Consumers) /\ <<>> \in Seq(Nat)
      OBVIOUS
    <2>2. sent \in 0 .. MaxSent /\ taken \in 0 .. sent /\ turn \in Nat \ {0}
      BY DEF Init
    <2>3. /\ at \in [Consumers -> Places] /\ base \in [Consumers -> Nat]
          /\ got \in [Consumers -> Seq(Nat)]
      BY <2>1 DEF Init
    <2> QED
      BY <2>1, <2>2, <2>3 DEF Init, TypeOK
  <1>2. ExitInv
    BY DEF Init, ExitInv
  <1>3. MemberInv
    BY DEF Init, MemberInv
  <1>4. ProgressInv
    BY DEF Init, ProgressInv
  <1>5. Gapless
    BY DEF Init, Gapless
  <1> QED
    BY <1>1, <1>2, <1>3, <1>4, <1>5 DEF Inv

LEMMA InvNothingMissed == Inv => NothingMissed
  BY DEF Inv, TypeOK, ExitInv, MemberInv, ProgressInv, NothingMissed, Pending

\* Source: a value arrives in its buffer, or it is closed.
LEMMA SourceSteps ==
  ASSUME Inv, Send \/ Close
  PROVE  Inv'
  <1>1. UNCHANGED <<ranging, members, taken>>
    BY DEF Send, Close
  <1>2. TypeOK'
    <2>1. CASE Send
      <3>1. sent' = sent + 1 /\ closed' = closed /\ sent < MaxSent
        BY <2>1 DEF Send
      <3>2. sent' \in 0 .. MaxSent /\ taken \in 0 .. sent'
        BY <3>1 DEF Inv, TypeOK
      <3> QED
        BY <1>1, <3>1, <3>2 DEF Inv, TypeOK
    <2>2. CASE Close
      BY <1>1, <2>2 DEF Inv, TypeOK, Close
    <2> QED
      BY <2>1, <2>2
  <1>3. ExitInv'
    BY <1>1 DEF Inv, TypeOK, ExitInv, Send, Close
  <1>4. MemberInv' /\ ProgressInv' /\ Gapless'
    BY <1>1 DEF Inv, MemberInv, ProgressInv, Gapless, Pending
  <1> QED
    BY <1>2, <1>3, <1>4 DEF Inv

\* The goroutine receives a value: every consumer has it pending.
LEMMA TakeStep ==
  ASSUME Inv, Take
  PROVE  Inv'
  <1>1. TypeOK' /\ ExitInv' /\ MemberInv' /\ Gapless'
    BY DEF Inv, TypeOK, ExitInv, MemberInv, Gapless, Take
  <1>2. ProgressInv'
    BY DEF Inv, TypeOK, ProgressInv, Pending, Take
  <1> QED
    BY <1>1, <1>2 DEF Inv

\* It locks: the consumers that have it pending are those of the slice.
LEMMA RLockStep ==
  ASSUME Inv, RLock
  PROVE  Inv'
  <1>1. TypeOK' /\ ExitInv' /\ Gapless'
    BY DEF Inv, TypeOK, ExitInv, Gapless, RLock
  <1>2. MemberInv'
    BY DEF Inv, MemberInv, RLock
  <1>3. ProgressInv'
    <2>1. ASSUME NEW c \in Consumers, at[c] \in {"reading", "ended"}
          PROVE  Pending(c)'
      BY <2>1 DEF Inv, ExitInv, MemberInv, Pending, RLock
    <2> QED
      BY <2>1 DEF Inv, ProgressInv, Pending, RLock
  <1> QED
    BY <1>1, <1>2, <1>3 DEF Inv

\* It sends the value to the next of them: nobody else has it pending less.
LEMMA DeliverStep ==
  ASSUME Inv, NEW c \in Consumers, Deliver(c)
  PROVE  Inv'
  <1>1. /\ got' = [got EXCEPT ![c] = Append(got[c], taken)]
        /\ got[c] \in Seq(Nat) /\ taken \in Nat
    BY DEF Inv, TypeOK, Deliver
  <1>2. TypeOK'
    <2>1. got' \in [Consumers -> Seq(Nat)]
      BY <1>1 DEF Inv, TypeOK
    <2> QED
      BY <2>1 DEF Inv, TypeOK, Deliver
  <1>3. ExitInv' /\ MemberInv'
    BY DEF Inv, ExitInv, MemberInv, Deliver
  <1>4. base[c] + Len(got[c]) = taken - 1 /\ base[c] \in Nat
    BY DEF Inv, TypeOK, ProgressInv, Pending, Deliver
  <1>5. ASSUME NEW i \in turn + 1 .. Len(view) PROVE view[i] # c
    BY DEF Inv, TypeOK, MemberInv, Deliver
  <1>6. /\ loop = "send" /\ loop' = "send" /\ view' = view /\ turn' = turn + 1
        /\ turn \in 1 .. Len(view) /\ view[turn] = c /\ at[c] = "reading"
        /\ UNCHANGED <<at, base, taken>>
    BY DEF Inv, TypeOK, Deliver
  <1>7. ~Pending(c)'
    BY <1>5, <1>6 DEF Pending
  <1>8. ASSUME NEW d \in Consumers, d # c PROVE Pending(d)' <=> Pending(d)
    <2>1. Len(view) \in Nat /\ turn \in Nat
      BY DEF Inv, TypeOK
    <2>2. (\E i \in turn + 1 .. Len(view) : view[i] = d)
            <=> (\E i \in turn .. Len(view) : view[i] = d)
      <3>1. \A i \in turn .. Len(view) : i = turn \/ i \in turn + 1 .. Len(view)
        BY <2>1
      <3>2. \A i \in turn + 1 .. Len(view) : i \in turn .. Len(view)
        BY <2>1
      <3> QED
        BY <1>6, <1>8, <3>1, <3>2
    <2> QED
      BY <1>6, <2>2 DEF Pending
  <1>9. /\ Len(got'[c]) = Len(got[c]) + 1
        /\ \A i \in 1 .. Len(got[c]) + 1 :
             got'[c][i] = IF i <= Len(got[c]) THEN got[c][i] ELSE taken
    <2>1. got'[c] = Append(got[c], taken)
      BY <1>1 DEF Inv, TypeOK
    <2> QED
      BY <1>1, <2>1, AppendSeq
  <1>10. \A d \in Consumers : d # c => got'[d] = got[d]
    BY <1>1 DEF Inv, TypeOK
  <1>11. Len(got[c]) \in Nat
    BY <1>1
  <1>12. ProgressInv'
    <2>1. ASSUME NEW d \in Consumers, at'[d] \in {"reading", "ended"}
          PROVE  base'[d] + Len(got'[d]) = IF Pending(d)' THEN taken' - 1 ELSE taken'
      <3>1. CASE d = c
        <4>1. Len(got'[c]) = Len(got[c]) + 1 /\ base'[c] = base[c] /\ taken' = taken
          BY <1>6, <1>9
        <4>2. base'[c] + Len(got'[c]) = taken'
          BY <1>1, <1>4, <1>11, <4>1
        <4> QED
          BY <1>7, <3>1, <4>2
      <3>2. CASE d # c
        BY <1>6, <1>8, <1>10, <2>1, <3>2 DEF Inv, ProgressInv
      <3> QED
        BY <3>1, <3>2
    <2>2. \A d \in Consumers : at'[d] \in {"out", "forking"} => got'[d] = <<>>
      BY <1>6, <1>10 DEF Inv, ProgressInv
    <2> QED
      BY <1>6, <2>1, <2>2 DEF ProgressInv
  <1>13. Gapless'
    <2>1. ASSUME NEW d \in Consumers, NEW i \in 1 .. Len(got'[d])
          PROVE  got'[d][i] = base'[d] + i
      <3>1. CASE d = c /\ i <= Len(got[c])
        BY <1>6, <1>9, <1>11, <3>1 DEF Inv, Gapless
      <3>2. CASE d = c /\ i > Len(got[c])
        <4>1. i = Len(got[c]) + 1 /\ got'[c][i] = taken /\ base'[c] = base[c]
          <5>1. i \in 1 .. Len(got[c]) + 1 /\ i > Len(got[c])
            BY <1>9, <3>2
          <5>2. i = Len(got[c]) + 1
            BY <1>11, <5>1
          <5>3. got'[c][i] = taken
            BY <1>9, <5>1
          <5> QED
            BY <1>6, <5>2, <5>3
        <4>2. base[c] + (Len(got[c]) + 1) = taken
          <5>1. taken \in Nat /\ base[c] \in Nat
            BY <1>1, <1>4
          <5>2. base[c] + Len(got[c]) = taken - 1
            BY <1>4
          <5> QED
            BY <1>11, <5>1, <5>2
        <4> QED
          BY <3>2, <4>1, <4>2
      <3>3. CASE d # c
        BY <1>6, <1>10, <3>3 DEF Inv, Gapless
      <3> QED
        BY <1>9, <1>11, <3>1, <3>2, <3>3
    <2> QED
      BY <2>1 DEF Gapless
  <1> QED
    BY <1>2, <1>3, <1>12, <1>13 DEF Inv

\* It unlocks when no consumer has the value pending.
LEMMA RUnlockStep ==
  ASSUME Inv, RUnlock
  PROVE  Inv'
  <1>1. TypeOK' /\ ExitInv' /\ MemberInv' /\ Gapless'
    BY DEF Inv, TypeOK, ExitInv, MemberInv, Gapless, RUnlock
  <1>2. ASSUME NEW c \in Consumers PROVE ~Pending(c) /\ ~Pending(c)'
    BY DEF Inv, TypeOK, Pending, RUnlock
  <1>3. ProgressInv'
    BY <1>2 DEF Inv, ProgressInv, RUnlock
  <1> QED
    BY <1>1, <1>3 DEF Inv

\* From the end of Source on it sends nothing.
LEMMA ClosingSteps ==
  ASSUME Inv, Exit \/ StartClosing \/ CloseConsumer \/ Finish
  PROVE  Inv'
  <1>1. TypeOK'
    <2>1. UNCHANGED <<source, channels, at, got, base>>
      BY DEF Exit, StartClosing, CloseConsumer, Finish
    <2>2. loop' \in Loop /\ exited' \in BOOLEAN /\ shared' \in BOOLEAN
      BY DEF Inv, TypeOK, Exit, StartClosing, CloseConsumer, Finish
    <2>3. view' \in Seq(Consumers) /\ turn' \in Nat \ {0}
      BY DEF Inv, TypeOK, Exit, StartClosing, CloseConsumer, Finish
    <2>4. shut' \subseteq Consumers
      BY DEF Inv, TypeOK, Exit, StartClosing, CloseConsumer, Finish
    <2> QED
      BY <2>1, <2>2, <2>3, <2>4 DEF Inv, TypeOK
  <1>2. ExitInv'
    BY DEF Inv, TypeOK, ExitInv, Exit, StartClosing, CloseConsumer, Finish
  <1>3. MemberInv' /\ Gapless'
    BY DEF Inv, ExitInv, MemberInv, Gapless, Exit, StartClosing, CloseConsumer, Finish
  <1>4. ASSUME NEW c \in Consumers PROVE ~Pending(c) /\ ~Pending(c)'
    BY DEF Pending, Exit, StartClosing, CloseConsumer, Finish
  <1>5. ProgressInv'
    BY <1>4 DEF Inv, ProgressInv, Exit, StartClosing, CloseConsumer, Finish
  <1> QED
    BY <1>1, <1>2, <1>3, <1>5 DEF Inv

\* Fork, its check: nothing is sent after the end, so nothing is missing.
LEMMA ForkStep ==
  ASSUME Inv, NEW c \in Consumers, Fork(c)
  PROVE  Inv'
  <1>1. CASE exited
    <2>1. /\ at[c] = "out" /\ at' = [at EXCEPT ![c] = "reading"]
          /\ shut' = shut \union {c} /\ base' = [base EXCEPT ![c] = taken]
          /\ UNCHANGED <<source, ranging, channels, shared, got>>
      BY <1>1 DEF Fork
    <2>2. got[c] = <<>> /\ taken \in Nat /\ taken = sent /\ Len(got[c]) = 0
      BY <1>1, <2>1 DEF Inv, TypeOK, ExitInv, ProgressInv
    <2>3. TypeOK'
      BY <2>1, <2>2 DEF Inv, TypeOK
    <2>4. ExitInv'
      BY <1>1, <2>1 DEF Inv, ExitInv
    <2>5. MemberInv'
      BY <1>1, <2>1 DEF Inv, TypeOK, ExitInv, MemberInv
    <2>6. ASSUME NEW d \in Consumers PROVE ~Pending(d) /\ ~Pending(d)'
      BY <1>1, <2>1 DEF Inv, ExitInv, Pending
    <2>7. ProgressInv'
      <3>1. ASSUME NEW d \in Consumers, at'[d] \in {"reading", "ended"}
            PROVE  base'[d] + Len(got'[d]) = taken'
        <4>1. CASE d = c
          BY <2>1, <2>2, <4>1 DEF Inv, TypeOK
        <4>2. CASE d # c
          BY <2>1, <2>6, <3>1, <4>2 DEF Inv, TypeOK, ProgressInv
        <4> QED
          BY <4>1, <4>2
      <3>2. \A d \in Consumers : at'[d] \in {"out", "forking"} => got'[d] = <<>>
        BY <2>1 DEF Inv, TypeOK, ProgressInv
      <3> QED
        BY <1>1, <2>1, <2>6, <3>1, <3>2 DEF Inv, ExitInv, ProgressInv
    <2>8. Gapless'
      <3>1. ASSUME NEW d \in Consumers, NEW i \in 1 .. Len(got[d])
            PROVE  got[d][i] = base'[d] + i
        <4>1. CASE d = c
          BY <2>2, <4>1
        <4>2. CASE d # c
          BY <2>1, <4>2 DEF Inv, TypeOK, Gapless
        <4> QED
          BY <4>1, <4>2
      <3> QED
        BY <2>1, <3>1 DEF Gapless
    <2> QED
      BY <2>3, <2>4, <2>5, <2>7, <2>8 DEF Inv
  <1>2. CASE ~exited
    <2>1. /\ at[c] = "out" /\ at' = [at EXCEPT ![c] = "forking"]
          /\ UNCHANGED <<source, ranging, channels, shared, got, shut, base>>
      BY <1>2 DEF Fork
    <2>2. TypeOK' /\ ExitInv' /\ Gapless'
      BY <2>1 DEF Inv, TypeOK, ExitInv, Gapless
    <2>3. MemberInv'
      BY <2>1 DEF Inv, TypeOK, MemberInv
    <2>4. ASSUME NEW d \in Consumers PROVE Pending(d)' <=> Pending(d)
      BY <2>1 DEF Pending
    <2>5. ProgressInv'
      BY <2>1, <2>4 DEF Inv, TypeOK, ProgressInv
    <2> QED
      BY <2>2, <2>3, <2>5 DEF Inv
  <1> QED
    BY <1>1, <1>2

\* Fork, the rest: the lock keeps a new consumer out of a loop that sends, and
\* the value that waits for the lock is its first one.
LEMMA JoinStep ==
  ASSUME Inv, NEW c \in Consumers, Join(c)
  PROVE  Inv'
  <1>1. /\ at[c] = "forking" /\ at' = [at EXCEPT ![c] = "reading"]
        /\ loop # "send" /\ channels' = Append(channels, c)
        /\ UNCHANGED <<source, loop, turn, exited, got, shut>>
        /\ base' = [base EXCEPT ![c] = IF loop = "taken" THEN taken - 1 ELSE taken]
    BY DEF Join, RLocked
  <1>2. got[c] = <<>> /\ taken \in Nat /\ (loop = "taken" => taken > 0) /\ Len(got[c]) = 0
    BY <1>1 DEF Inv, TypeOK, ProgressInv
  <1>3. /\ channels' \in Seq(Consumers) /\ Len(channels') = Len(channels) + 1
        /\ \A i \in 1 .. Len(channels) + 1 :
             channels'[i] = IF i <= Len(channels) THEN channels[i] ELSE c
        /\ Len(channels) \in Nat
    BY <1>1, AppendSeq DEF Inv, TypeOK
  <1>4. view' \in Seq(Consumers) /\ shared' \in BOOLEAN
    <2>1. view \in Seq(Consumers) /\ shared \in BOOLEAN
      BY DEF Inv, TypeOK
    <2>2. CASE shared /\ Len(channels) < Len(view)
      <3>1. view' = [view EXCEPT ![Len(channels) + 1] = c] /\ shared' = shared
        BY <2>2 DEF Join
      <3>2. view' \in Seq(Consumers)
        BY <1>3, <2>1, <2>2, <3>1, ExceptSeq
      <3> QED
        BY <2>1, <3>1, <3>2
    <2>3. CASE ~(shared /\ Len(channels) < Len(view))
      BY <2>1, <2>3 DEF Join
    <2> QED
      BY <2>2, <2>3
  <1>5. TypeOK'
    <2>1. at' \in [Consumers -> Places] /\ base' \in [Consumers -> Nat]
      BY <1>1, <1>2 DEF Inv, TypeOK
    <2> QED
      BY <1>1, <1>3, <1>4, <2>1 DEF Inv, TypeOK
  <1>6. ExitInv'
    BY <1>1 DEF Inv, ExitInv
  <1>7. MemberInv'
    <2>1. \A i \in 1 .. Len(channels) : channels[i] # c
      BY <1>1 DEF Inv, MemberInv
    <2>2. \A i, j \in 1 .. Len(channels') : channels'[i] = channels'[j] => i = j
      BY <1>3, <2>1 DEF Inv, MemberInv
    <2>3. \A i \in 1 .. Len(channels') : at'[channels'[i]] \in {"reading", "ended", "leaving"}
      BY <1>1, <1>3, <2>1 DEF Inv, TypeOK, MemberInv
    <2>4. ASSUME NEW d \in Consumers, ~exited', at'[d] = "reading"
          PROVE  \E i \in 1 .. Len(channels') : channels'[i] = d
      <3>1. CASE d = c
        BY <1>3, <3>1
      <3>2. CASE d # c
        <4>1. ~exited /\ at[d] = "reading"
          BY <1>1, <2>4, <3>2 DEF Inv, TypeOK
        <4>2. PICK i \in 1 .. Len(channels) : channels[i] = d
          BY <4>1 DEF Inv, MemberInv
        <4>3. i \in 1 .. Len(channels') /\ channels'[i] = d
          BY <1>3, <4>2
        <4> QED
          BY <4>3
      <3> QED
        BY <3>1, <3>2
    <2>5. \A d \in Consumers : at'[d] = "ended" => exited'
      BY <1>1 DEF Inv, TypeOK, MemberInv
    <2> QED
      BY <1>1, <2>2, <2>3, <2>4, <2>5 DEF MemberInv
  <1>8. ASSUME NEW d \in Consumers
        PROVE  (Pending(d)' <=> loop = "taken") /\ (Pending(d) <=> loop = "taken")
    BY <1>1 DEF Pending
  <1>9. ProgressInv'
    <2>1. ASSUME NEW d \in Consumers, at'[d] \in {"reading", "ended"}
          PROVE  base'[d] + Len(got'[d]) = IF Pending(d)' THEN taken' - 1 ELSE taken'
      <3>1. CASE d = c
        BY <1>1, <1>2, <1>8, <3>1 DEF Inv, TypeOK
      <3>2. CASE d # c
        <4>1. at[d] \in {"reading", "ended"} /\ base'[d] = base[d]
          BY <1>1, <2>1, <3>2 DEF Inv, TypeOK
        <4> QED
          BY <1>1, <1>8, <4>1 DEF Inv, ProgressInv
      <3> QED
        BY <3>1, <3>2
    <2>2. \A d \in Consumers : at'[d] \in {"out", "forking"} => got'[d] = <<>>
      BY <1>1 DEF Inv, TypeOK, ProgressInv
    <2> QED
      BY <1>1, <1>2, <2>1, <2>2 DEF ProgressInv
  <1>10. Gapless'
    <2>1. ASSUME NEW d \in Consumers, NEW i \in 1 .. Len(got[d])
          PROVE  got[d][i] = base'[d] + i
      <3>1. CASE d = c
        BY <1>2, <3>1
      <3>2. CASE d # c
        BY <1>1, <3>2 DEF Inv, TypeOK, Gapless
      <3> QED
        BY <3>1, <3>2
    <2> QED
      BY <1>1, <2>1 DEF Gapless
  <1> QED
    BY <1>5, <1>6, <1>7, <1>9, <1>10 DEF Inv

\* A consumer is told the end only after the last value.
LEMMA ConsumerSteps ==
  ASSUME Inv, NEW c \in Consumers, SeeClose(c) \/ Leave(c)
  PROVE  Inv'
  <1>1. /\ at[c] \in {"reading", "ended"}
        /\ \/ c \in shut /\ at[c] = "reading" /\ at' = [at EXCEPT ![c] = "ended"]
           \/ at' = [at EXCEPT ![c] = "leaving"]
        /\ UNCHANGED <<source, ranging, channels, shared, got, base, shut>>
    BY DEF SeeClose, Leave
  <1>2. TypeOK' /\ ExitInv' /\ Gapless'
    BY <1>1 DEF Inv, TypeOK, ExitInv, Gapless
  <1>3. MemberInv'
    <2>1. \A i \in 1 .. Len(channels) : channels[i] \in Consumers
      BY DEF Inv, TypeOK
    <2>2. \A i \in 1 .. Len(channels) : at'[channels[i]] \in {"reading", "ended", "leaving"}
      BY <1>1, <2>1 DEF Inv, TypeOK, MemberInv
    <2>3. \A d \in Consumers :
            /\ at'[d] = "reading" => at[d] = "reading"
            /\ at'[d] = "ended" => exited
      BY <1>1 DEF Inv, TypeOK, ExitInv, MemberInv
    <2>4. UNCHANGED <<channels, view, exited, loop>>
      BY <1>1
    <2>5. /\ \A i, j \in 1 .. Len(channels) : channels[i] = channels[j] => i = j
          /\ loop = "send" => view = channels
      BY DEF Inv, MemberInv
    <2>6. ASSUME NEW d \in Consumers, ~exited, at'[d] = "reading"
          PROVE  \E i \in 1 .. Len(channels) : channels[i] = d
      BY <2>3, <2>6 DEF Inv, MemberInv
    <2> QED
      BY <2>2, <2>3, <2>4, <2>5, <2>6 DEF MemberInv
  <1>4. ASSUME NEW d \in Consumers PROVE Pending(d)' <=> Pending(d)
    BY <1>1 DEF Pending
  <1>5. ProgressInv'
    BY <1>1, <1>4 DEF Inv, TypeOK, ProgressInv
  <1> QED
    BY <1>2, <1>3, <1>5 DEF Inv

\* remove leaves the other consumers where they are, each one once.
LEMMA RemoveStep ==
  ASSUME Inv, NEW c \in Consumers, Remove(c)
  PROVE  Inv'
  <1>1. /\ at[c] \in {"reading", "ended", "leaving"} /\ at' = [at EXCEPT ![c] = "left"]
        /\ loop # "send"
        /\ UNCHANGED <<source, loop, turn, exited, shared, got, base, shut>>
    BY DEF Remove, RLocked
  <1>2. /\ channels \in Seq(Consumers) /\ view \in Seq(Consumers)
        /\ Len(channels) \in Nat
    BY DEF Inv, TypeOK
  <1>3. /\ channels' \in Seq(Consumers) /\ view' \in Seq(Consumers)
        /\ \A i, j \in 1 .. Len(channels') : channels'[i] = channels'[j] => i = j
        /\ \A i \in 1 .. Len(channels') :
             /\ channels'[i] # c
             /\ \E j \in 1 .. Len(channels) : channels'[i] = channels[j]
        /\ \A j \in 1 .. Len(channels) :
             channels[j] # c => \E i \in 1 .. Len(channels') : channels'[i] = channels[j]
    <2>1. CASE /\ \A i \in 1 .. Len(channels) : channels[i] # c
               /\ UNCHANGED <<channels, view>>
      BY <1>2, <2>1 DEF Inv, MemberInv
    <2>2. ASSUME NEW k \in 1 .. Len(channels), channels[k] = c,
                 channels' = Without(channels, k),
                 view' = IF shared THEN Shifted(view, k, Len(channels)) ELSE view
          PROVE  <1>3!:
      <3>1. view' \in Seq(Consumers)
        BY <1>2, <2>2, ShiftedSeq
      <3>2. /\ channels' \in Seq(Consumers)
            /\ Len(channels') = Len(channels) - 1
            /\ \A j \in 1 .. Len(channels) - 1 :
                 channels'[j] = IF j < k THEN channels[j] ELSE channels[j + 1]
        BY <1>2, <2>2, WithoutSeq
      <3>3. \A i, j \in 1 .. Len(channels) : channels[i] = channels[j] => i = j
        BY DEF Inv, MemberInv
      <3>4. ASSUME NEW i \in 1 .. Len(channels'), NEW j \in 1 .. Len(channels'),
                   channels'[i] = channels'[j]
            PROVE  i = j
        BY <1>2, <3>2, <3>3, <3>4
      <3>5. ASSUME NEW i \in 1 .. Len(channels')
            PROVE  /\ channels'[i] # c
                   /\ \E j \in 1 .. Len(channels) : channels'[i] = channels[j]
        <4>1. CASE i < k
          <5>1. channels'[i] = channels[i] /\ i \in 1 .. Len(channels)
            BY <1>2, <3>2, <4>1
          <5> QED
            BY <2>2, <3>3, <4>1, <5>1
        <4>2. CASE i >= k
          <5>1. channels'[i] = channels[i + 1] /\ i + 1 \in 1 .. Len(channels)
            BY <1>2, <3>2, <4>2
          <5>2. i + 1 # k
            BY <4>2
          <5> QED
            BY <2>2, <3>3, <5>1, <5>2
        <4> QED
          BY <4>1, <4>2
      <3>6. ASSUME NEW j \in 1 .. Len(channels), channels[j] # c
            PROVE  \E i \in 1 .. Len(channels') : channels'[i] = channels[j]
        <4>1. CASE j < k
          <5>1. j \in 1 .. Len(channels') /\ channels'[j] = channels[j]
            BY <1>2, <3>2, <4>1
          <5> QED
            BY <5>1
        <4>2. CASE j > k
          <5>1. j - 1 \in 1 .. Len(channels') /\ channels'[j - 1] = channels[j]
            BY <1>2, <3>2, <4>2
          <5> QED
            BY <5>1
        <4> QED
          BY <2>2, <3>6, <4>1, <4>2
      <3> QED
        BY <3>1, <3>2, <3>4, <3>5, <3>6
    <2> QED
      BY <2>1, <2>2 DEF Remove
  <1>4. TypeOK' /\ ExitInv' /\ Gapless'
    BY <1>1, <1>3 DEF Inv, TypeOK, ExitInv, Gapless
  <1>5. MemberInv'
    <2>1. \A i \in 1 .. Len(channels') : at'[channels'[i]] \in {"reading", "ended", "leaving"}
      <3>1. ASSUME NEW i \in 1 .. Len(channels'), NEW j \in 1 .. Len(channels),
                   channels'[i] # c, channels'[i] = channels[j]
            PROVE  at'[channels'[i]] \in {"reading", "ended", "leaving"}
        <4>1. channels[j] \in Consumers
          BY <1>2
        <4>2. at'[channels[j]] = at[channels[j]]
          BY <1>1, <3>1, <4>1 DEF Inv, TypeOK
        <4> QED
          BY <3>1, <4>2 DEF Inv, MemberInv
      <3> QED
        BY <1>3, <3>1
    <2>2. ASSUME NEW d \in Consumers, ~exited', at'[d] = "reading"
          PROVE  \E i \in 1 .. Len(channels') : channels'[i] = d
      <3>1. d # c /\ ~exited /\ at[d] = "reading"
        BY <1>1, <2>2 DEF Inv, TypeOK
      <3>2. PICK j \in 1 .. Len(channels) : channels[j] = d
        BY <3>1 DEF Inv, MemberInv
      <3> QED
        BY <1>3, <3>1, <3>2
    <2>3. \A d \in Consumers : at'[d] = "ended" => exited'
      BY <1>1 DEF Inv, TypeOK, MemberInv
    <2> QED
      BY <1>1, <1>3, <2>1, <2>2, <2>3 DEF MemberInv
  <1>6. ASSUME NEW d \in Consumers PROVE Pending(d)' <=> Pending(d)
    BY <1>1 DEF Pending
  <1>7. ProgressInv'
    BY <1>1, <1>6 DEF Inv, TypeOK, ProgressInv
  <1> QED
    BY <1>4, <1>5, <1>7 DEF Inv

LEMMA NextInv == Inv /\ [Next]_vars => Inv'
  <1> SUFFICES ASSUME Inv, [Next]_vars PROVE Inv'
    OBVIOUS
  <1>1. CASE Send \/ Close
    BY <1>1, SourceSteps
  <1>2. CASE Goroutine
    BY <1>2, TakeStep, RLockStep, DeliverStep, RUnlockStep, ClosingSteps DEF Goroutine
  <1>3. CASE \E c \in Consumers : Consumer(c)
    BY <1>3, ForkStep, JoinStep, ConsumerSteps, RemoveStep DEF Consumer
  <1>4. CASE UNCHANGED vars
    BY <1>4 DEF vars, Inv, TypeOK, ExitInv, MemberInv, ProgressInv, Pending, Gapless
  <1> QED
    BY <1>1, <1>2, <1>3, <1>4 DEF Next

LEMMA SpecInv == Spec => []Inv
  BY InitInv, NextInv, PTL DEF Spec

\* Every variable keeps its type, and nothing is taken that was not sent.
THEOREM MultiplexerTypeCorrect == Spec => []TypeOK
  <1>1. Inv => TypeOK
    BY DEF Inv
  <1> QED
    BY <1>1, SpecInv, PTL

\* multiplex.go sends every consumer the values from its Fork on, in order, none
\* twice and none left out, for any number of consumers that come and go.
THEOREM ValuesArriveInOrder == Spec => []Gapless
  <1>1. Inv => Gapless
    BY DEF Inv
  <1> QED
    BY <1>1, SpecInv, PTL

\* A consumer whose channel is found closed has received the last value.
THEOREM NothingIsMissed == Spec => []NothingMissed
  BY InvNothingMissed, SpecInv, PTL

====
