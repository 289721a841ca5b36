--------------------------- MODULE ConnectionProofs ---------------------------
(***************************************************************************)
(* The bytes of a Connection are never stranded, cut off or mixed, for any *)
(* number of threads, calls and bytes.  The write event and the FIN depend *)
(* on each other: shutdownInLoop() looks at the event to learn whether the *)
(* buffer is empty, so that the two invariants are inductive together.     *)
(* That the stream stays intact needs more: what is said of the stream has *)
(* to be said of the functors and the calls that messages come from.       *)
(***************************************************************************)
EXTENDS Connection, SequenceTheorems, TLAPS

IndInv == TypeOK /\ WritingExact /\ FinAfterData

\* A message is a string of bytes.
LEMMA BytesType ==
    ASSUME NEW msg \in 0..MaxCalls
    PROVE  Bytes(msg) \in Seq(Byte) /\ Bytes(msg) # <<>>
  <1>1. MsgLen \in Nat \ {0}
    BY ConnectionAssumption
  <1>2. Bytes(msg) \in [1..MsgLen -> Byte]
    BY <1>1 DEF Bytes, Byte
  <1>3. Bytes(msg) \in Seq(Byte) /\ Len(Bytes(msg)) = MsgLen
    BY <1>1, <1>2
  <1> QED
    BY <1>1, <1>3

\* The bytes that ::write() has taken, and those that it has left.
LEMMA SplitBytes ==
    ASSUME NEW s \in Seq(Byte), NEW n \in 0..Len(s)
    PROVE  /\ SubSeq(s, 1, n) \in Seq(Byte)
           /\ SubSeq(s, n + 1, Len(s)) \in Seq(Byte)
           /\ SubSeq(s, n + 1, Len(s)) = <<>> <=> n = Len(s)
  <1>1. Len(s) \in Nat /\ \A i \in 1..Len(s) : s[i] \in Byte
    BY LenProperties, ElementOfSeq
  <1>2. n \in Int /\ n + 1 \in Int /\ Len(s) \in Int /\ 1 \in Int
    BY <1>1
  <1>3. SubSeq(s, 1, n) \in Seq(Byte)
    BY <1>1, <1>2, SubSeqProperties
  <1>4. /\ SubSeq(s, n + 1, Len(s)) \in Seq(Byte)
        /\ Len(SubSeq(s, n + 1, Len(s))) = IF n + 1 <= Len(s) THEN Len(s) - (n + 1) + 1 ELSE 0
    BY <1>1, <1>2, SubSeqProperties
  <1> DEFINE t == SubSeq(s, n + 1, Len(s))
  <1>5. t \in Seq(Byte) /\ Len(t) = IF n + 1 <= Len(s) THEN Len(s) - (n + 1) + 1 ELSE 0
    BY <1>4
  <1> HIDE DEF t
  <1>6. Len(t) = Len(s) - n
    BY <1>1, <1>5
  <1>7. t = <<>> <=> Len(t) = 0
    BY <1>5, EmptySeq
  <1>8. t = <<>> <=> n = Len(s)
    BY <1>1, <1>6, <1>7
  <1> QED
    BY <1>3, <1>5, <1>8 DEF t

\* Functors, and bytes that are appended.
LEMMA JobType ==
    /\ \A op \in {"idle", "send", "setShutdown", "setForce", "shutdown", "force",
                  "writeComplete", "highWater"} : Do(op) \in Job
    /\ \A msg \in 0..MaxCalls : DoSend(msg) \in Job
  <1> QED
    BY ConnectionAssumption DEF Do, DoSend, Job

\* sendInLoop() keeps the buffer, the event and the FIN in step.
LEMMA SendStep ==
    ASSUME IndInv, NEW data \in Seq(Byte), sendInLoop(data), closes' = closes
    PROVE  /\ output' \in Seq(Byte) /\ wire' \in Seq(Byte) /\ queue' \in Seq(Job)
           /\ writing' \in BOOLEAN /\ fin' \in BOOLEAN /\ killed' \in BOOLEAN
           /\ socket' \in {"open", "reset", "broken"}
           /\ WritingExact' /\ FinAfterData'
  <1> USE DEF IndInv
  <1>1. /\ output \in Seq(Byte) /\ wire \in Seq(Byte) /\ queue \in Seq(Job)
        /\ writing \in BOOLEAN /\ fin \in BOOLEAN /\ killed \in BOOLEAN
        /\ socket \in {"open", "reset", "broken"}
    BY DEF TypeOK
  <1>2. ASSUME NEW rest \in Seq(Byte), NEW done \in Seq(Job), KeepRest(rest, done)
        PROVE  /\ output' = output \o rest /\ output' \in Seq(Byte)
               /\ queue' \in Seq(Job)
               /\ writing' = (writing \/ rest # <<>>) /\ writing' \in BOOLEAN
    <2> DEFINE high == IF rest # <<>> /\ Len(output) < HighWater
                              /\ Len(output \o rest) >= HighWater
                       THEN <<Do("highWater")>> ELSE <<>>
    <2>1. high \in Seq(Job)
      BY JobType
    <2>2. queue' = queue \o done \o high
      BY <1>2 DEF KeepRest
    <2> HIDE DEF high
    <2>3. queue \o done \in Seq(Job)
      BY <1>1, ConcatProperties
    <2>4. queue' \in Seq(Job)
      BY <2>1, <2>2, <2>3, ConcatProperties
    <2>5. output \o rest \in Seq(Byte)
      BY <1>1, ConcatProperties
    <2> QED
      BY <1>1, <1>2, <2>4, <2>5 DEF KeepRest
  <1>3. CASE state = "Disconnected" /\ UNCHANGED <<outVars, kernelVars>>
    BY <1>1, <1>3 DEF outVars, kernelVars, WritingExact, FinAfterData
  <1>4. CASE SendDirectly(data)
    <2>1. PICK n \in 0..Len(data) :
              /\ wire' = wire \o SubSeq(data, 1, n)
              /\ KeepRest(SubSeq(data, n + 1, Len(data)),
                          IF n = Len(data) THEN <<Do("writeComplete")>> ELSE <<>>)
      BY <1>4 DEF SendDirectly
    <2> DEFINE rest == SubSeq(data, n + 1, Len(data))
               done == IF n = Len(data) THEN <<Do("writeComplete")>> ELSE <<>>
    <2>2. SubSeq(data, 1, n) \in Seq(Byte) /\ rest \in Seq(Byte)
      BY SplitBytes
    <2>3. done \in Seq(Job)
      BY JobType
    <2>4. KeepRest(rest, done)
      BY <2>1
    <2> HIDE DEF rest, done
    <2>5. /\ output' = output \o rest /\ output' \in Seq(Byte) /\ queue' \in Seq(Job)
          /\ writing' = (writing \/ rest # <<>>) /\ writing' \in BOOLEAN
      BY <1>2, <2>2, <2>3, <2>4
    <2>6. wire' \in Seq(Byte)
      BY <1>1, <2>1, <2>2, ConcatProperties
    <2>7. ~writing /\ output = <<>> /\ ~fin /\ UNCHANGED <<fin, socket, killed>>
      BY <1>4 DEF SendDirectly, Writable
    <2>8. output' = rest
      BY <2>2, <2>5, <2>7, ConcatEmptySeq
    <2> QED
      BY <1>1, <2>5, <2>6, <2>7, <2>8 DEF WritingExact, FinAfterData
  <1>5. CASE SendFails
    <2>1. /\ UNCHANGED <<writing, output, queue, wire, fin>>
          /\ socket' \in {"open", "reset", "broken"} /\ killed' \in BOOLEAN
      BY <1>1, <1>5 DEF SendFails, WriteFails, TakeError, outVars
    <2> QED
      BY <1>1, <2>1 DEF WritingExact, FinAfterData
  <1>6. CASE SendBehind(data)
    <2>1. <<>> \in Seq(Job) /\ KeepRest(data, <<>>)
      BY <1>6, EmptySeq DEF SendBehind
    <2>2. /\ output' = output \o data /\ output' \in Seq(Byte) /\ queue' \in Seq(Job)
          /\ writing' = (writing \/ data # <<>>) /\ writing' \in BOOLEAN
      BY <1>2, <2>1
    <2>3. (writing \/ output # <<>>) /\ UNCHANGED <<wire, fin, socket, killed>>
      BY <1>6 DEF SendBehind, kernelVars
    <2>4. ASSUME closes = 0
          PROVE  writing /\ ~fin /\ output' # <<>>
      <3>1. writing /\ output # <<>> /\ ~fin
        BY <2>3, <2>4 DEF WritingExact, FinAfterData
      <3>2. output \o data # <<>>
        BY <1>1, <3>1, ConcatEqualIffEmpty
      <3> QED
        BY <2>2, <3>1, <3>2
    <2> QED
      BY <1>1, <2>2, <2>3, <2>4 DEF WritingExact, FinAfterData
  <1> QED
    BY <1>3, <1>4, <1>5, <1>6 DEF sendInLoop

\* Closing keeps the types, and nothing is promised of a closed connection.
LEMMA CloseStep ==
    ASSUME IndInv, handleClose
    PROVE  /\ state' = "Disconnected" /\ reading' \in BOOLEAN /\ writing' \in BOOLEAN
           /\ closes' \in Nat /\ UNCHANGED <<output, queue>>
           /\ WritingExact' /\ FinAfterData'
  <1>1. closes \in Nat
    BY DEF IndInv, TypeOK
  <1>2. closes' \in Nat /\ closes' # 0
    BY <1>1 DEF handleClose
  <1>3. WritingExact' /\ FinAfterData'
    BY <1>2 DEF WritingExact, FinAfterData
  <1> QED
    BY <1>2, <1>3 DEF handleClose

\* forceCloseInLoop() closes or does nothing.
LEMMA ForceCloseStep ==
    ASSUME IndInv, forceCloseInLoop, fin' = fin
    PROVE  /\ state' \in {"Connecting", "Connected", "Disconnecting", "Disconnected"}
           /\ reading' \in BOOLEAN /\ writing' \in BOOLEAN
           /\ closes' \in Nat /\ UNCHANGED <<output, queue>>
           /\ WritingExact' /\ FinAfterData'
  <1>1. CASE handleClose
    BY <1>1, CloseStep
  <1>2. CASE UNCHANGED <<state, reading, closes, outVars>>
    BY <1>2 DEF IndInv, TypeOK, outVars, WritingExact, FinAfterData
  <1> QED
    BY <1>1, <1>2 DEF forceCloseInLoop

\* shutdownInLoop() sends the FIN only where the buffer is empty.
LEMMA ShutdownStep ==
    ASSUME IndInv, shutdownInLoop, UNCHANGED <<outVars, closes>>
    PROVE  /\ fin' \in BOOLEAN /\ UNCHANGED <<wire, socket, killed>>
           /\ WritingExact' /\ FinAfterData'
  <1> QED
    BY DEF IndInv, TypeOK, shutdownInLoop, outVars, WritingExact, FinAfterData

\* handleWrite() takes bytes off the front of the buffer.
LEMMA WriteStep ==
    ASSUME IndInv, NEW n \in 1..Len(output), handleWrite(n)
    PROVE  IndInv'
  <1> USE DEF IndInv
  <1>1. /\ output \in Seq(Byte) /\ wire \in Seq(Byte) /\ queue \in Seq(Job)
        /\ Len(output) \in Nat /\ n \in 0..Len(output)
    BY LenProperties DEF TypeOK
  <1>2. /\ SubSeq(output, 1, n) \in Seq(Byte)
        /\ SubSeq(output, n + 1, Len(output)) \in Seq(Byte)
        /\ SubSeq(output, n + 1, Len(output)) = <<>> <=> n = Len(output)
    BY <1>1, SplitBytes
  <1>3. wire' \in Seq(Byte)
    BY <1>1, <1>2, ConcatProperties DEF handleWrite
  <1>4. queue' \in Seq(Job)
    BY <1>1, JobType DEF handleWrite
  <1>5. output' \in Seq(Byte) /\ (output' = <<>> <=> n = Len(output))
    BY <1>2 DEF handleWrite
  <1>6. /\ writing' = (n < Len(output)) /\ fin' = (n = Len(output) /\ state = "Disconnecting")
        /\ revents' = {}
        /\ UNCHANGED <<state, reading, closes, phase, batch, delayed, socket, killed,
                       pc, sender, calls>>
    BY DEF handleWrite, callVars
  <1>7. writing' <=> output' # <<>>
    <2>1. n < Len(output) <=> n # Len(output)
      BY <1>1
    <2> QED
      BY <2>1, <1>5, <1>6
  <1>8. fin' => output' = <<>>
    BY <1>5, <1>6
  <1>9. revents' \in Events
    BY <1>6 DEF Events
  <1>10. writing' \in BOOLEAN /\ fin' \in BOOLEAN
    BY <1>6
  <1>11. TypeOK'
    BY <1>3, <1>4, <1>5, <1>6, <1>9, <1>10 DEF TypeOK
  <1> QED
    BY <1>7, <1>8, <1>11 DEF WritingExact, FinAfterData

\* The other events of a dispatch.
LEMMA EventStep ==
    ASSUME IndInv,
           \/ \E evs \in Events : Poll(evs)
           \/ HandleHangUp \/ handleError \/ ReadSome \/ ReadEnd \/ WriteNothing
    PROVE  IndInv'
  <1> USE DEF IndInv
  <1>1. ASSUME NEW S \in SUBSET {"hup", "err", "in", "out"}
        PROVE  revents \ S \in Events
    BY DEF TypeOK, Events
  <1>2. CASE \E evs \in Events : Poll(evs)
    BY <1>2 DEF Poll, outVars, kernelVars, callVars, TypeOK, WritingExact, FinAfterData
  <1>3. CASE HandleHangUp
    <2>1. revents' \in Events
      BY <1>1, <1>3 DEF HandleHangUp
    <2>2. UNCHANGED <<phase, batch, delayed, wire, fin, socket, killed, pc, sender, calls>>
      BY <1>3 DEF HandleHangUp, kernelVars, callVars
    <2>3. CASE handleClose
      BY <2>1, <2>2, <2>3, CloseStep DEF TypeOK
    <2>4. CASE UNCHANGED <<state, reading, closes, outVars>>
      BY <2>1, <2>2, <2>4 DEF outVars, TypeOK, WritingExact, FinAfterData
    <2> QED
      BY <1>3, <2>3, <2>4 DEF HandleHangUp
  <1>4. CASE handleError \/ ReadSome
    <2>1. revents' \in Events
      BY <1>1, <1>4 DEF handleError, ReadSome
    <2>2. UNCHANGED <<state, reading, closes, writing, output, queue, phase, batch, delayed,
                      wire, fin, killed, pc, sender, calls>>
      BY <1>4 DEF handleError, ReadSome, outVars, callVars
    <2>3. socket' \in {"open", "reset", "broken"}
      BY <1>4 DEF handleError, ReadSome, TakeError, TypeOK
    <2> QED
      BY <2>1, <2>2, <2>3 DEF TypeOK, WritingExact, FinAfterData
  <1>5. CASE ReadEnd
    <2>1. revents' \in Events
      BY <1>1, <1>5 DEF ReadEnd
    <2>2. UNCHANGED <<phase, batch, delayed, wire, fin, socket, killed, pc, sender, calls>>
      BY <1>5 DEF ReadEnd, kernelVars, callVars
    <2> QED
      BY <1>5, <2>1, <2>2, CloseStep DEF ReadEnd, TypeOK
  <1>6. CASE WriteNothing
    <2>1. revents' \in Events
      BY <1>6 DEF WriteNothing, Events
    <2>2. UNCHANGED <<state, reading, closes, writing, output, queue, phase, batch, delayed,
                      wire, fin, pc, sender, calls>>
      BY <1>6 DEF WriteNothing, WriteFails, outVars, kernelVars, callVars
    <2>3. socket' \in {"open", "reset", "broken"} /\ killed' \in BOOLEAN
      BY <1>6 DEF WriteNothing, WriteFails, TakeError, kernelVars, TypeOK
    <2> QED
      BY <2>1, <2>2, <2>3 DEF TypeOK, WritingExact, FinAfterData
  <1> QED
    BY <1>2, <1>3, <1>4, <1>5, <1>6

\* The functors and the timers of a round.
LEMMA FunctorStep ==
    ASSUME IndInv, SwapFunctors \/ RunFunctor \/ RunTimers
    PROVE  IndInv'
  <1> USE DEF IndInv
  <1>1. CASE SwapFunctors
    <2>1. <<>> \in Seq(Job)
      BY EmptySeq
    <2> QED
      BY <1>1, <2>1 DEF SwapFunctors, kernelVars, callVars, TypeOK, WritingExact, FinAfterData
  <1>2. CASE RunFunctor
    <2>1. batch \in Seq(Job) /\ batch # <<>>
      BY <1>2 DEF RunFunctor, TypeOK
    <2>2. Head(batch) \in Job /\ Tail(batch) \in Seq(Job)
      BY <2>1, HeadTailProperties
    <2>3. batch' \in Seq(Job) /\ UNCHANGED <<phase, revents, delayed, pc, sender, calls>>
      BY <1>2, <2>2 DEF RunFunctor, callVars
    <2>4. CASE Head(batch).op = "send"
      <3>1. /\ sendInLoop(Bytes(Head(batch).msg))
            /\ UNCHANGED <<state, reading, closes>>
        BY <1>2, <2>4 DEF RunFunctor
      <3>2. Bytes(Head(batch).msg) \in Seq(Byte)
        BY <2>2, BytesType DEF Job
      <3> QED
        BY <2>3, <3>1, <3>2, SendStep DEF TypeOK
    <2>5. CASE Head(batch).op = "shutdown"
      <3>1. shutdownInLoop /\ UNCHANGED <<state, reading, closes, outVars>>
        BY <1>2, <2>5 DEF RunFunctor
      <3> QED
        BY <2>3, <3>1, ShutdownStep DEF TypeOK, outVars
    <2>6. CASE Head(batch).op = "force"
      <3>1. forceCloseInLoop /\ UNCHANGED <<wire, fin, socket, killed>>
        BY <1>2, <2>6 DEF RunFunctor, kernelVars
      <3> QED
        BY <2>3, <3>1, ForceCloseStep DEF TypeOK
    <2>7. CASE Head(batch).op \notin {"send", "shutdown", "force"}
      <3>1. UNCHANGED <<state, reading, closes, outVars, kernelVars>>
        BY <1>2, <2>7 DEF RunFunctor
      <3> QED
        BY <2>3, <3>1 DEF outVars, kernelVars, TypeOK, WritingExact, FinAfterData
    <2> QED
      BY <2>4, <2>5, <2>6, <2>7
  <1>3. CASE RunTimers
    <2>1. /\ phase' = "poll"
          /\ UNCHANGED <<revents, batch, wire, fin, socket, killed, pc, sender, calls>>
      BY <1>3 DEF RunTimers, kernelVars, callVars
    <2>2. CASE UNCHANGED <<delayed, state, reading, closes, outVars>>
      BY <2>1, <2>2 DEF outVars, TypeOK, WritingExact, FinAfterData
    <2>3. CASE delayed' = FALSE /\ forceCloseInLoop
      BY <2>1, <2>3, ForceCloseStep DEF TypeOK
    <2> QED
      BY <1>3, <2>2, <2>3 DEF RunTimers
  <1> QED
    BY <1>1, <1>2, <1>3

\* The calls in the loop thread.
LEMMA LoopCallStep ==
    ASSUME IndInv, LoopSend \/ LoopShutdown \/ LoopForceClose \/ LoopForceCloseWithDelay
    PROVE  IndInv'
  <1> USE DEF IndInv
  <1>1. /\ calls < MaxCalls /\ calls' = calls + 1 /\ calls' \in 0..MaxCalls
        /\ sender \in Seq(Thread \cup {"loop"})
        /\ Len(sender) \in Nat /\ Len(sender) <= calls /\ Len(sender) <= calls'
        /\ Len(sender) + 1 \in 0..MaxCalls
    BY LenProperties, ConnectionAssumption
       DEF TypeOK, LoopSend, LoopShutdown, LoopForceClose, LoopForceCloseWithDelay, Called
  <1>2. CASE LoopSend
    <2>1. Bytes(Len(sender) + 1) \in Seq(Byte)
      BY <1>1, BytesType
    <2>2. /\ sender' = Append(sender, "loop") /\ sendInLoop(Bytes(Len(sender) + 1))
          /\ UNCHANGED <<state, reading, closes, phase, revents, batch, delayed, pc>>
      BY <1>2 DEF LoopSend, loopVars
    <2>3. sender' \in Seq(Thread \cup {"loop"}) /\ Len(sender') = Len(sender) + 1
      BY <1>1, <2>2
    <2>4. Len(sender') <= calls'
      <3>1. Len(sender) + 1 <= calls + 1
        BY <1>1, ConnectionAssumption DEF TypeOK
      <3> QED
        BY <1>1, <2>3, <3>1
    <2> QED
      BY <1>1, <2>1, <2>2, <2>3, <2>4, SendStep DEF TypeOK
  <1>3. CASE LoopShutdown
    <2>1. /\ state' = "Disconnecting" /\ shutdownInLoop
          /\ UNCHANGED <<reading, closes, outVars, phase, revents, batch, delayed, pc, sender>>
      BY <1>3 DEF LoopShutdown, loopVars
    <2> QED
      BY <1>1, <2>1, ShutdownStep DEF TypeOK, outVars
  <1>4. CASE LoopForceClose
    <2>1. queue' \in Seq(Job)
      BY <1>4, JobType DEF LoopForceClose, TypeOK
    <2> QED
      BY <1>1, <1>4, <2>1
         DEF LoopForceClose, loopVars, kernelVars, TypeOK, WritingExact, FinAfterData
  <1>5. CASE LoopForceCloseWithDelay
    BY <1>1, <1>5
       DEF LoopForceCloseWithDelay, outVars, kernelVars, TypeOK, WritingExact, FinAfterData
  <1> QED
    BY <1>2, <1>3, <1>4, <1>5

\* The calls in the other threads.
LEMMA ThreadStepKeeps ==
    ASSUME IndInv, NEW t \in Thread, SendCalled(t) \/ CloseCalled(t) \/ ThreadStep(t)
    PROVE  IndInv'
  <1> USE DEF IndInv
  <1>1. CASE SendCalled(t)
    <2>1. /\ calls < MaxCalls /\ calls' = calls + 1 /\ calls' \in 0..MaxCalls
          /\ sender \in Seq(Thread \cup {"loop"})
          /\ Len(sender) \in Nat /\ Len(sender) <= calls
          /\ Len(sender) + 1 \in 0..MaxCalls
      BY <1>1, LenProperties, ConnectionAssumption DEF TypeOK, SendCalled, Called
    <2>2. /\ sender' \in Seq(Thread \cup {"loop"}) /\ Len(sender') = Len(sender) + 1
      BY <1>1, <2>1 DEF SendCalled
    <2>3. Len(sender') <= calls'
      <3>1. Len(sender) + 1 <= calls + 1
        BY <2>1, ConnectionAssumption DEF TypeOK
      <3> QED
        BY <2>1, <2>2, <3>1
    <2>4. pc' \in [Thread -> Job]
      BY <1>1, <2>1, JobType DEF SendCalled, TypeOK
    <2>5. UNCHANGED <<state, reading, closes, writing, output, queue, phase, revents, batch,
                      delayed, wire, fin, socket, killed>>
      BY <1>1 DEF SendCalled, outVars, loopVars, kernelVars
    <2> QED
      BY <2>1, <2>2, <2>3, <2>4, <2>5 DEF TypeOK, WritingExact, FinAfterData
  <1>2. CASE CloseCalled(t)
    <2>1. /\ calls' \in 0..MaxCalls /\ sender' = sender /\ Len(sender') <= calls'
      BY <1>2, LenProperties, ConnectionAssumption DEF TypeOK, CloseCalled, Called
    <2>2. pc' \in [Thread -> Job]
      BY <1>2, JobType DEF CloseCalled, TypeOK
    <2>3. UNCHANGED <<state, reading, closes, writing, output, queue, phase, revents, batch,
                      delayed, wire, fin, socket, killed>>
      BY <1>2 DEF CloseCalled, outVars, loopVars, kernelVars
    <2> QED
      BY <2>1, <2>2, <2>3 DEF TypeOK, WritingExact, FinAfterData
  <1>3. CASE SetDisconnecting(t)
    <2>1. pc' \in [Thread -> Job] /\ state' = "Disconnecting"
      BY <1>3, JobType DEF SetDisconnecting, TypeOK
    <2>2. UNCHANGED <<reading, closes, writing, output, queue, phase, revents, batch,
                      delayed, wire, fin, socket, killed, sender, calls>>
      BY <1>3 DEF SetDisconnecting, outVars, loopVars, kernelVars
    <2> QED
      BY <2>1, <2>2 DEF TypeOK, WritingExact, FinAfterData
  <1>4. CASE QueueInLoop(t)
    <2>1. pc' \in [Thread -> Job]
      BY <1>4, JobType DEF QueueInLoop, TypeOK
    <2>2. queue' \in Seq(Job)
      BY <1>4 DEF QueueInLoop, TypeOK
    <2>3. UNCHANGED <<state, reading, closes, writing, output, phase, revents, batch,
                      delayed, wire, fin, socket, killed, sender, calls>>
      BY <1>4 DEF QueueInLoop, loopVars, kernelVars
    <2> QED
      BY <2>1, <2>2, <2>3 DEF TypeOK, WritingExact, FinAfterData
  <1> QED
    BY <1>1, <1>2, <1>3, <1>4 DEF ThreadStep

\* The buffer, the write event and the FIN stay in step, whatever the threads,
\* the peer and the kernel do.
THEOREM Inductive == Spec => []IndInv
  <1>1. Init => IndInv
    <2> SUFFICES ASSUME Init PROVE IndInv
      OBVIOUS
    <2>1. /\ <<>> \in Seq(Byte) /\ <<>> \in Seq(Job) /\ <<>> \in Seq(Thread \cup {"loop"})
          /\ Len(<<>>) = 0
      BY EmptySeq
    <2>2. pc \in [Thread -> Job]
      BY JobType DEF Init
    <2>3. revents \in Events
      BY DEF Init, Events
    <2>4. output \in Seq(Byte) /\ wire \in Seq(Byte) /\ queue \in Seq(Job) /\ batch \in Seq(Job)
      BY <2>1 DEF Init
    <2>5. sender \in Seq(Thread \cup {"loop"})
      BY <2>1 DEF Init
    <2>6. Len(sender) <= calls /\ calls \in 0..MaxCalls /\ closes \in Nat
      BY <2>1, ConnectionAssumption DEF Init
    <2>7. /\ state \in {"Connecting", "Connected", "Disconnecting", "Disconnected"}
          /\ reading \in BOOLEAN /\ writing \in BOOLEAN /\ delayed \in BOOLEAN
          /\ fin \in BOOLEAN /\ killed \in BOOLEAN
          /\ phase \in {"poll", "events", "functors"}
          /\ socket \in {"open", "reset", "broken"}
      BY DEF Init
    <2>8. TypeOK
      BY <2>2, <2>3, <2>4, <2>5, <2>6, <2>7 DEF TypeOK
    <2>9. WritingExact /\ FinAfterData
      BY DEF Init, WritingExact, FinAfterData
    <2> QED
      BY <2>8, <2>9 DEF IndInv
  <1>2. IndInv /\ [Next]_vars => IndInv'
    <2> SUFFICES ASSUME IndInv, [Next]_vars PROVE IndInv'
      OBVIOUS
    <2>1. CASE connectEstablished \/ PeerResets
      <3>1. /\ state' \in {"Connecting", "Connected", "Disconnecting", "Disconnected"}
            /\ reading' \in BOOLEAN /\ socket' \in {"open", "reset", "broken"}
        BY <2>1 DEF connectEstablished, PeerResets, kernelVars, IndInv, TypeOK
      <3>2. UNCHANGED <<closes, writing, output, queue, phase, revents, batch, delayed,
                        wire, fin, killed, pc, sender, calls>>
        BY <2>1 DEF connectEstablished, PeerResets, outVars, loopVars, kernelVars, callVars
      <3>3. TypeOK'
        BY <3>1, <3>2 DEF IndInv, TypeOK
      <3>4. WritingExact' /\ FinAfterData'
        BY <3>2 DEF IndInv, WritingExact, FinAfterData
      <3> QED
        BY <3>3, <3>4 DEF IndInv
    <2>2. CASE LoopStep
      BY <2>2, EventStep, WriteStep, FunctorStep DEF LoopStep
    <2>3. CASE LoopSend \/ LoopShutdown \/ LoopForceClose \/ LoopForceCloseWithDelay
      BY <2>3, LoopCallStep
    <2>4. ASSUME NEW t \in Thread, SendCalled(t) \/ CloseCalled(t) \/ ThreadStep(t)
          PROVE  IndInv'
      BY <2>4, ThreadStepKeeps
    <2>5. CASE UNCHANGED vars
      BY <2>5 DEF vars, outVars, loopVars, kernelVars, callVars,
                  IndInv, TypeOK, WritingExact, FinAfterData
    <2> QED
      BY <2>1, <2>2, <2>3, <2>4, <2>5 DEF Next
  <1> QED
    BY <1>1, <1>2, PTL DEF Spec

\* Every variable of a connection keeps its type.
THEOREM TypeCorrect == Spec => []TypeOK
  <1>1. IndInv => TypeOK
    BY DEF IndInv
  <1> QED
    BY <1>1, Inductive, PTL

\* The write event of an open connection is registered exactly while
\* outputBuffer_ holds bytes.
THEOREM NoStrandedBytes == Spec => []WritingExact
  <1>1. IndInv => WritingExact
    BY DEF IndInv
  <1> QED
    BY <1>1, Inductive, PTL

\* shutdownInLoop() and handleWrite() never cut off bytes of outputBuffer_.
THEOREM NoBytesCutOff == Spec => []FinAfterData
  <1>1. IndInv => FinAfterData
    BY DEF IndInv
  <1> QED
    BY <1>1, Inductive, PTL

-----------------------------------------------------------------------------
(* The stream: whole messages in the order of the calls.                   *)

\* Of the messages of one thread, those of A were sent before those of B;
\* snd is who sent each message.
Precede(snd, A, B) == \A a \in A, b \in B : snd[a] = snd[b] => a < b

\* The messages that the functors of a sequence are to send, those that the
\* other threads are about to queue, and those that bytes belong to.
ToSend(jobs) == {jobs[i].msg : i \in {k \in DOMAIN jobs : jobs[k].op = "send"}}
Calling(does) == {does[t].msg : t \in {u \in Thread : does[u].op = "send"}}
MsgsOf(bytes) == {bytes[i][1] : i \in DOMAIN bytes}

\* The functors of a sequence send each thread's messages in their order.
InOrder(snd, jobs) ==
    \A i, j \in DOMAIN jobs :
        /\ i < j /\ jobs[i].op = "send" /\ jobs[j].op = "send"
        /\ snd[jobs[i].msg] = snd[jobs[j].msg]
        => jobs[i].msg < jobs[j].msg

\* Every message on its way was numbered by the call of its thread.
Numbered(snd, sent, b, q, does) ==
    /\ sent \subseteq 1..Len(snd)
    /\ \A m \in ToSend(b) \cup ToSend(q) : m \in 1..Len(snd) /\ snd[m] \in Thread
    /\ \A t \in Thread : does[t].op = "send" =>
          does[t].msg \in 1..Len(snd) /\ snd[does[t].msg] = t

\* A message passes from its thread to pendingFunctors_, to the batch of the
\* round and to the stream, and at no stage does it overtake another of its
\* thread.
Pipeline(snd, sent, b, q, does) ==
    /\ Numbered(snd, sent, b, q, does)
    /\ InOrder(snd, b) /\ InOrder(snd, q)
    /\ Precede(snd, sent, ToSend(b) \cup ToSend(q) \cup Calling(does))
    /\ Precede(snd, ToSend(b), ToSend(q) \cup Calling(does))
    /\ Precede(snd, ToSend(q), Calling(does))

\* The batch of a round is used up before the next poll.
BatchDone == phase # "functors" => batch = <<>>

\* What StreamIntact says of a string of bytes.
Intact(snd, stream) ==
    /\ Len(stream) % MsgLen = 0
    /\ \A i \in DOMAIN stream :
          /\ stream[i][2] = 1 + ((i - 1) % MsgLen)
          /\ stream[i][2] > 1 => stream[i - 1][1] = stream[i][1]
    /\ \A i, j \in DOMAIN stream :
          /\ i < j /\ stream[i][2] = stream[j][2]
          /\ snd[stream[i][1]] = snd[stream[j][1]]
          => stream[i][1] < stream[j][1]

StreamInv ==
    /\ BatchDone
    /\ Pipeline(sender, MsgsOf(wire \o output), batch, queue, pc)
    /\ Intact(sender, wire \o output)

\* Fewer messages are in order if more of them are.
LEMMA PrecedeFewer ==
    ASSUME NEW snd, NEW A, NEW B, NEW A2 \in SUBSET A, NEW B2 \in SUBSET B, Precede(snd, A, B)
    PROVE  Precede(snd, A2, B2)
  BY DEF Precede

\* What was numbered keeps its sender when another message is numbered.
LEMMA Extended ==
    ASSUME NEW snd \in Seq(Thread \cup {"loop"}), NEW who \in Thread \cup {"loop"}
    PROVE  /\ Len(snd) \in Nat
           /\ Append(snd, who) \in Seq(Thread \cup {"loop"})
           /\ Len(Append(snd, who)) = Len(snd) + 1
           /\ Append(snd, who)[Len(snd) + 1] = who
           /\ \A m \in 1..Len(snd) : Append(snd, who)[m] = snd[m]
  BY AppendProperties, LenProperties

\* q2 has no send functor that q has not in the same place.
Quiet(q, q2) ==
    \A j \in DOMAIN q2 : q2[j].op = "send" => j \in DOMAIN q /\ q2[j] = q[j]

\* A functor that sends nothing, appended to the others, is quiet.
LEMMA QuietAppend ==
    ASSUME NEW q \in Seq(Job), NEW job \in Job, job.op # "send"
    PROVE  Quiet(q, Append(q, job))
  <1>1. /\ Len(q) \in Nat /\ DOMAIN q = 1..Len(q)
        /\ DOMAIN Append(q, job) = 1..(Len(q) + 1)
        /\ \A i \in 1..Len(q) : Append(q, job)[i] = q[i]
        /\ Append(q, job)[Len(q) + 1] = job
    BY AppendProperties, LenProperties
  <1>2. \A j \in 1..(Len(q) + 1) : j \in 1..Len(q) \/ j = Len(q) + 1
    BY <1>1
  <1> QED
    BY <1>1, <1>2 DEF Quiet

\* Such a step of the queue and of the other threads keeps the pipeline.
LEMMA PipeQuiet ==
    ASSUME NEW snd, NEW sent, NEW b, NEW q, NEW does, NEW q2, NEW does2,
           Pipeline(snd, sent, b, q, does), Quiet(q, q2),
           \A t \in Thread : does2[t].op = "send" => does2[t] = does[t]
    PROVE  Pipeline(snd, sent, b, q2, does2)
  <1>1. ToSend(q2) \subseteq ToSend(q)
    BY DEF ToSend, Quiet
  <1>2. Calling(does2) \subseteq Calling(does)
    BY DEF Calling
  <1>3. Numbered(snd, sent, b, q2, does2)
    BY <1>1 DEF Pipeline, Numbered
  <1>4. InOrder(snd, q2)
    BY DEF Pipeline, InOrder, Quiet
  <1>5. /\ Precede(snd, sent, ToSend(b) \cup ToSend(q2) \cup Calling(does2))
        /\ Precede(snd, ToSend(b), ToSend(q2) \cup Calling(does2))
        /\ Precede(snd, ToSend(q2), Calling(does2))
    BY <1>1, <1>2 DEF Pipeline, Precede
  <1> QED
    BY <1>3, <1>4, <1>5 DEF Pipeline

\* An empty sequence of functors sends nothing.
LEMMA NothingToSend == ToSend(<<>>) = {} /\ \A snd : InOrder(snd, <<>>)
  <1>1. DOMAIN <<>> = {}
    BY EmptySeq, LenProperties
  <1> QED
    BY <1>1 DEF ToSend, InOrder

\* doPendingFunctors() takes the queue as the batch of the round.
LEMMA PipeSwap ==
    ASSUME NEW snd, NEW sent, NEW q, NEW does, Pipeline(snd, sent, <<>>, q, does)
    PROVE  Pipeline(snd, sent, q, <<>>, does)
  BY NothingToSend DEF Pipeline, Numbered, Precede

\* The next functor of the batch and the others.
LEMMA FirstAndRest ==
    ASSUME NEW b \in Seq(Job), b # <<>>
    PROVE  /\ Head(b) \in Job /\ Tail(b) \in Seq(Job)
           /\ 1 \in DOMAIN b /\ b[1] = Head(b)
           /\ \A i \in DOMAIN Tail(b) : i + 1 \in DOMAIN b /\ 1 < i + 1 /\ Tail(b)[i] = b[i + 1]
           /\ DOMAIN Tail(b) \subseteq Nat
  <1>1. /\ Len(b) \in Nat /\ DOMAIN b = 1..Len(b) /\ Len(b) # 0
    BY LenProperties, EmptySeq
  <1>2. /\ Head(b) \in Job /\ Tail(b) \in Seq(Job) /\ Len(Tail(b)) = Len(b) - 1
        /\ \A i \in 1..Len(Tail(b)) : Tail(b)[i] = b[i + 1]
    BY HeadTailProperties
  <1>3. DOMAIN Tail(b) = 1..Len(Tail(b)) /\ Len(Tail(b)) \in Nat
    BY <1>2, LenProperties
  <1>4. Head(b) = b[1]
    OBVIOUS
  <1> QED
    BY <1>1, <1>2, <1>3, <1>4

\* A functor of the batch runs: its message, if it sends one, may be in the
\* stream from now on.
LEMMA PipeRun ==
    ASSUME NEW snd, NEW sent, NEW b \in Seq(Job), NEW q, NEW does, NEW sent2, b # <<>>,
           Pipeline(snd, sent, b, q, does),
           sent2 \subseteq sent \cup (IF Head(b).op = "send" THEN {Head(b).msg} ELSE {})
    PROVE  /\ Pipeline(snd, sent2, Tail(b), q, does)
           /\ Head(b).op = "send" =>
                 Head(b).msg \in 1..Len(snd) /\ Precede(snd, sent, {Head(b).msg})
  <1> DEFINE h == Head(b)  r == Tail(b)
  <1>1. /\ 1 \in DOMAIN b /\ b[1] = h
        /\ \A i \in DOMAIN r : i + 1 \in DOMAIN b /\ 1 < i + 1 /\ r[i] = b[i + 1]
        /\ DOMAIN r \subseteq Nat
    BY FirstAndRest
  <1> HIDE DEF h, r
  <1>2. ToSend(r) \subseteq ToSend(b)
    BY <1>1 DEF ToSend
  <1>3. h.op = "send" => h.msg \in ToSend(b)
    BY <1>1 DEF ToSend
  <1>4. h.op = "send" => \A m \in ToSend(r) : snd[h.msg] = snd[m] => h.msg < m
    <2> SUFFICES ASSUME h.op = "send", NEW m \in ToSend(r), snd[h.msg] = snd[m]
                 PROVE  h.msg < m
      OBVIOUS
    <2>1. PICK i \in DOMAIN r : r[i].op = "send" /\ m = r[i].msg
      BY DEF ToSend
    <2>2. i + 1 \in DOMAIN b /\ 1 < i + 1 /\ b[i + 1].op = "send" /\ m = b[i + 1].msg
      BY <1>1, <2>1
    <2> QED
      BY <1>1, <2>2 DEF Pipeline, InOrder
  <1>5. InOrder(snd, r)
    <2> SUFFICES ASSUME NEW i \in DOMAIN r, NEW j \in DOMAIN r, i < j,
                        r[i].op = "send", r[j].op = "send", snd[r[i].msg] = snd[r[j].msg]
                 PROVE  r[i].msg < r[j].msg
      BY DEF InOrder
    <2>1. /\ i + 1 \in DOMAIN b /\ j + 1 \in DOMAIN b /\ i + 1 < j + 1
          /\ r[i] = b[i + 1] /\ r[j] = b[j + 1]
      BY <1>1
    <2> QED
      BY <2>1 DEF Pipeline, InOrder
  <1>6. sent2 \subseteq sent \cup (IF h.op = "send" THEN {h.msg} ELSE {})
    BY DEF h
  <1>7. Numbered(snd, sent2, r, q, does)
    BY <1>2, <1>3, <1>6 DEF Pipeline, Numbered
  <1>8. Precede(snd, sent2, ToSend(r) \cup ToSend(q) \cup Calling(does))
    BY <1>2, <1>3, <1>4, <1>6 DEF Pipeline, Precede
  <1>9. Precede(snd, ToSend(r), ToSend(q) \cup Calling(does))
    BY <1>2 DEF Pipeline, Precede
  <1>10. Pipeline(snd, sent2, r, q, does)
    BY <1>5, <1>7, <1>8, <1>9 DEF Pipeline
  <1>11. h.op = "send" => h.msg \in 1..Len(snd) /\ Precede(snd, sent, {h.msg})
    BY <1>3 DEF Pipeline, Numbered, Precede
  <1> QED
    BY <1>10, <1>11 DEF h, r

\* A thread queues its functor.
LEMMA PipeQueue ==
    ASSUME NEW snd, NEW sent, NEW b, NEW q \in Seq(Job), NEW does \in [Thread -> Job],
           NEW t \in Thread, Pipeline(snd, sent, b, q, does)
    PROVE  Pipeline(snd, sent, b, Append(q, does[t]), [does EXCEPT ![t] = Do("idle")])
  <1> DEFINE q2 == Append(q, does[t])  d2 == [does EXCEPT ![t] = Do("idle")]
             n == Len(q) + 1
  <1>1. /\ Len(q) \in Nat /\ DOMAIN q = 1..Len(q) /\ DOMAIN q2 = 1..n
        /\ \A i \in 1..Len(q) : q2[i] = q[i] /\ i < n
        /\ q2[n] = does[t]
    BY AppendProperties, LenProperties
  <1>2. \A j \in DOMAIN q2 : \/ j \in DOMAIN q /\ q2[j] = q[j] /\ j < n
                             \/ j = n /\ q2[j] = does[t]
    <2> HIDE DEF q2, n
    <2>1. \A j \in 1..n : j \in 1..Len(q) \/ j = n
      BY <1>1 DEF n
    <2> QED
      BY <1>1, <2>1
  <1>3. d2[t].op = "idle" /\ \A u \in Thread : u # t => d2[u] = does[u]
    BY DEF Do
  <1> HIDE DEF q2, d2, n
  <1>4. ToSend(q2) \subseteq ToSend(q) \cup (IF does[t].op = "send" THEN {does[t].msg} ELSE {})
    BY <1>2 DEF ToSend
  <1>5. Calling(d2) \subseteq Calling(does)
    BY <1>3 DEF Calling
  <1>6. does[t].op = "send" => does[t].msg \in Calling(does)
    BY DEF Calling
  <1>7. ASSUME does[t].op = "send", NEW m \in Calling(d2)
        PROVE  snd[does[t].msg] # snd[m]
    <2>1. PICK u \in Thread : d2[u].op = "send" /\ m = d2[u].msg
      BY <1>7 DEF Calling
    <2>2. u # t /\ d2[u] = does[u]
      BY <1>3, <2>1
    <2>3. snd[m] = u /\ snd[does[t].msg] = t
      BY <1>7, <2>1, <2>2 DEF Pipeline, Numbered
    <2> QED
      BY <2>2, <2>3
  <1>8. Numbered(snd, sent, b, q2, d2)
    BY <1>3, <1>4 DEF Pipeline, Numbered
  <1>9. InOrder(snd, q2)
    <2> SUFFICES ASSUME NEW i \in DOMAIN q2, NEW j \in DOMAIN q2, i < j,
                        q2[i].op = "send", q2[j].op = "send", snd[q2[i].msg] = snd[q2[j].msg]
                 PROVE  q2[i].msg < q2[j].msg
      BY DEF InOrder
    <2>1. i \in DOMAIN q /\ q2[i] = q[i]
      BY <1>1, <1>2
    <2>2. CASE j \in DOMAIN q /\ q2[j] = q[j]
      BY <2>1, <2>2 DEF Pipeline, InOrder
    <2>3. CASE q2[j] = does[t]
      <3>1. q[i].msg \in ToSend(q)
        BY <2>1 DEF ToSend
      <3> QED
        BY <1>6, <2>1, <2>3, <3>1 DEF Pipeline, Precede
    <2> QED
      BY <1>2, <2>2, <2>3
  <1>10. /\ Precede(snd, sent, ToSend(b) \cup ToSend(q2) \cup Calling(d2))
         /\ Precede(snd, ToSend(b), ToSend(q2) \cup Calling(d2))
    BY <1>4, <1>5, <1>6 DEF Pipeline, Precede
  <1>11. Precede(snd, ToSend(q2), Calling(d2))
    BY <1>4, <1>5, <1>7 DEF Pipeline, Precede
  <1>12. Pipeline(snd, sent, b, q2, d2)
    BY <1>8, <1>9, <1>10, <1>11 DEF Pipeline
  <1> QED
    BY <1>12 DEF q2, d2

\* A message that is numbered now comes after every other.
LEMMA NewestLast ==
    ASSUME NEW snd \in Seq(Thread \cup {"loop"}), NEW who \in Thread \cup {"loop"},
           NEW A, A \subseteq 1..Len(snd)
    PROVE  Precede(Append(snd, who), A, {Len(snd) + 1})
  <1>1. Len(snd) \in Nat
    BY Extended
  <1>2. \A a \in A : a < Len(snd) + 1
    BY <1>1
  <1> QED
    BY <1>2 DEF Precede

\* The messages that are on their way.
LEMMA OnTheWay ==
    ASSUME NEW snd, NEW sent, NEW b, NEW q, NEW does, Pipeline(snd, sent, b, q, does)
    PROVE  /\ sent \subseteq 1..Len(snd) /\ ToSend(b) \subseteq 1..Len(snd)
           /\ ToSend(q) \subseteq 1..Len(snd) /\ Calling(does) \subseteq 1..Len(snd)
           /\ \A i \in DOMAIN b : b[i].op = "send" => b[i].msg \in 1..Len(snd)
           /\ \A i \in DOMAIN q : q[i].op = "send" => q[i].msg \in 1..Len(snd)
  BY DEF Pipeline, Numbered, ToSend, Calling

\* A message is numbered and the pipeline stays as it is.
LEMMA PipeNumber ==
    ASSUME NEW snd \in Seq(Thread \cup {"loop"}), NEW who \in Thread \cup {"loop"},
           NEW sent, NEW b, NEW q, NEW does, Pipeline(snd, sent, b, q, does)
    PROVE  Pipeline(Append(snd, who), sent, b, q, does)
  <1> DEFINE s2 == Append(snd, who)
  <1>1. Len(snd) \in Nat /\ Len(s2) = Len(snd) + 1 /\ \A m \in 1..Len(snd) : s2[m] = snd[m]
    BY Extended
  <1>2. \A m \in 1..Len(snd) : m \in 1..Len(s2)
    BY <1>1
  <1> HIDE DEF s2
  <1>3. Numbered(s2, sent, b, q, does)
    BY <1>1, <1>2 DEF Pipeline, Numbered
  <1>4. InOrder(s2, b) /\ InOrder(s2, q)
    BY <1>1, OnTheWay DEF Pipeline, InOrder
  <1>5. /\ Precede(s2, sent, ToSend(b) \cup ToSend(q) \cup Calling(does))
        /\ Precede(s2, ToSend(b), ToSend(q) \cup Calling(does))
        /\ Precede(s2, ToSend(q), Calling(does))
    BY <1>1, OnTheWay DEF Pipeline, Precede
  <1>6. Pipeline(s2, sent, b, q, does)
    BY <1>3, <1>4, <1>5 DEF Pipeline
  <1> QED
    BY <1>6 DEF s2

\* Another thread calls send().
LEMMA PipeCall ==
    ASSUME NEW snd \in Seq(Thread \cup {"loop"}), NEW sent, NEW b, NEW q,
           NEW does \in [Thread -> Job], NEW t \in Thread,
           Pipeline(snd, sent, b, q, does)
    PROVE  Pipeline(Append(snd, t), sent, b, q, [does EXCEPT ![t] = DoSend(Len(snd) + 1)])
  <1> DEFINE s2 == Append(snd, t)  m == Len(snd) + 1
             d2 == [does EXCEPT ![t] = DoSend(m)]
  <1>1. Pipeline(s2, sent, b, q, does)
    BY PipeNumber
  <1>2. /\ Len(snd) \in Nat /\ Len(s2) = m /\ s2[m] = t /\ m \in 1..Len(s2)
    BY Extended
  <1>3. d2[t].op = "send" /\ d2[t].msg = m /\ \A u \in Thread : u # t => d2[u] = does[u]
    BY DEF DoSend
  <1>4. /\ Precede(s2, sent, {m}) /\ Precede(s2, ToSend(b), {m}) /\ Precede(s2, ToSend(q), {m})
    BY OnTheWay, NewestLast
  <1> HIDE DEF s2, m, d2
  <1>5. Calling(d2) \subseteq Calling(does) \cup {m}
    BY <1>3 DEF Calling
  <1>6. Numbered(s2, sent, b, q, d2)
    BY <1>1, <1>2, <1>3 DEF Pipeline, Numbered
  <1>7. /\ Precede(s2, sent, ToSend(b) \cup ToSend(q) \cup Calling(d2))
        /\ Precede(s2, ToSend(b), ToSend(q) \cup Calling(d2))
        /\ Precede(s2, ToSend(q), Calling(d2))
    BY <1>1, <1>4, <1>5 DEF Pipeline, Precede
  <1>8. Pipeline(s2, sent, b, q, d2)
    BY <1>1, <1>6, <1>7 DEF Pipeline
  <1> QED
    BY <1>8 DEF s2, m, d2

\* The loop thread calls send(), which may put the message into the stream.
LEMMA PipeLoop ==
    ASSUME NEW snd \in Seq(Thread \cup {"loop"}), NEW sent, NEW b, NEW q, NEW does,
           NEW sent2, sent2 \subseteq sent \cup {Len(snd) + 1},
           Pipeline(snd, sent, b, q, does)
    PROVE  /\ Pipeline(Append(snd, "loop"), sent2, b, q, does)
           /\ Precede(Append(snd, "loop"), sent, {Len(snd) + 1})
  <1> DEFINE s2 == Append(snd, "loop")  m == Len(snd) + 1
  <1>1. Pipeline(s2, sent, b, q, does)
    BY PipeNumber
  <1>2. /\ Len(snd) \in Nat /\ Len(s2) = m /\ s2[m] = "loop" /\ m \in 1..Len(s2)
    BY Extended
  <1>3. Precede(s2, sent, {m})
    BY OnTheWay, NewestLast
  <1>4. sent2 \subseteq sent \cup {m}
    OBVIOUS
  <1> HIDE DEF s2, m
  <1>5. \A k \in ToSend(b) \cup ToSend(q) \cup Calling(does) : s2[k] \in Thread
    BY <1>1 DEF Pipeline, Numbered, Calling
  <1>6. \A k \in ToSend(b) \cup ToSend(q) \cup Calling(does) : s2[k] # s2[m]
    BY <1>2, <1>5, ConnectionAssumption
  <1>7. Precede(s2, sent2, ToSend(b) \cup ToSend(q) \cup Calling(does))
    BY <1>1, <1>4, <1>6 DEF Pipeline, Precede
  <1>8. Numbered(s2, sent2, b, q, does)
    BY <1>1, <1>2, <1>4 DEF Pipeline, Numbered
  <1>9. Pipeline(s2, sent2, b, q, does)
    BY <1>1, <1>7, <1>8 DEF Pipeline
  <1> QED
    BY <1>3, <1>9 DEF s2, m

\* A byte d of a message that starts at a message boundary.
LEMMA AtBoundary ==
    ASSUME NEW k \in Nat \ {0}, NEW n \in Nat, n % k = 0, NEW d \in 0..(k - 1)
    PROVE  (n + d) % k = d
  <1> DEFINE y == n \div k
  <1>1. y \in Nat /\ n = y * k
    BY Z3
  <1> HIDE DEF y
  <1>2. (y * k + d) % k = d
    BY <1>1, Z3
  <1> QED
    BY <1>1, <1>2

\* One message more ends at a message boundary.
LEMMA NextBoundary ==
    ASSUME NEW k \in Nat \ {0}, NEW n \in Nat, n % k = 0
    PROVE  (n + k) % k = 0
  <1> DEFINE y == n \div k
  <1>1. y \in Nat /\ n = y * k
    BY Z3
  <1> HIDE DEF y
  <1>2. n + k = (y + 1) * k /\ y + 1 \in Nat
    BY <1>1, Z3
  <1>3. \A z \in Nat : (z * k) % k = 0
    BY Z3
  <1> QED
    BY <1>2, <1>3

\* A whole message is appended to whole messages.
LEMMA IntactAppend ==
    ASSUME NEW snd, NEW s \in Seq(Byte), NEW m \in 0..MaxCalls,
           Intact(snd, s), Precede(snd, MsgsOf(s), {m})
    PROVE  Intact(snd, s \o Bytes(m)) /\ MsgsOf(s \o Bytes(m)) \subseteq MsgsOf(s) \cup {m}
  <1> DEFINE u == s \o Bytes(m)  n == Len(s)
  <1>1. /\ Bytes(m) \in Seq(Byte) /\ Len(Bytes(m)) = MsgLen /\ MsgLen \in Nat \ {0}
        /\ \A d \in 1..MsgLen : Bytes(m)[d] = <<m, d>>
    BY BytesType, ConnectionAssumption DEF Bytes
  <1>2. /\ n \in Nat /\ Len(u) = n + MsgLen /\ DOMAIN u = 1..(n + MsgLen) /\ DOMAIN s = 1..n
        /\ \A i \in 1..(n + MsgLen) : u[i] = IF i <= n THEN s[i] ELSE Bytes(m)[i - n]
    <2>1. /\ u \in Seq(Byte) /\ Len(u) = Len(s) + Len(Bytes(m))
          /\ \A i \in 1..(Len(s) + Len(Bytes(m))) :
                u[i] = IF i <= Len(s) THEN s[i] ELSE Bytes(m)[i - Len(s)]
      BY <1>1, ConcatProperties
    <2> HIDE DEF u
    <2> QED
      BY <1>1, <2>1, LenProperties
  <1> HIDE DEF u, n
  <1>3. \A i \in DOMAIN u : \/ i \in DOMAIN s /\ u[i] = s[i] /\ i <= n
                            \/ i - n \in 1..MsgLen /\ u[i] = <<m, i - n>> /\ i > n
    BY <1>1, <1>2
  <1>4. MsgsOf(u) \subseteq MsgsOf(s) \cup {m}
    BY <1>3 DEF MsgsOf
  <1>5. n % MsgLen = 0
    BY DEF Intact, n
  <1>6. Len(u) % MsgLen = 0
    BY <1>1, <1>2, <1>5, NextBoundary
  <1>7. ASSUME NEW i \in DOMAIN u
        PROVE  /\ u[i][2] = 1 + ((i - 1) % MsgLen)
               /\ u[i][2] > 1 => u[i - 1][1] = u[i][1]
    <2>1. CASE i \in DOMAIN s /\ u[i] = s[i]
      <3>1. s[i][2] = 1 + ((i - 1) % MsgLen) /\ (s[i][2] > 1 => s[i - 1][1] = s[i][1])
        BY <2>1 DEF Intact
      <3>2. ASSUME s[i][2] > 1
            PROVE  u[i - 1] = s[i - 1]
        <4>1. i # 1
          <5>1. (1 - 1) % MsgLen = 0
            BY <1>1, Z3
          <5> QED
            BY <3>1, <3>2, <5>1
        <4> QED
          BY <1>2, <2>1, <4>1
      <3> QED
        BY <2>1, <3>1, <3>2
    <2>2. CASE i - n \in 1..MsgLen /\ u[i] = <<m, i - n>> /\ i > n
      <3>1. i - n - 1 \in 0..(MsgLen - 1) /\ n + (i - n - 1) = i - 1
        BY <1>1, <1>2, <2>2
      <3>2. (n + (i - n - 1)) % MsgLen = i - n - 1
        BY <1>1, <1>2, <1>5, <3>1, AtBoundary
      <3>3. u[i][2] = 1 + ((i - 1) % MsgLen)
        BY <1>1, <1>2, <2>2, <3>1, <3>2
      <3>4. ASSUME u[i][2] > 1
            PROVE  u[i - 1] = <<m, i - 1 - n>>
        <4>1. i - n > 1
          BY <2>2, <3>4
        <4>2. i - 1 \in DOMAIN u /\ i - 1 > n /\ i - 1 - n \in 1..MsgLen
          BY <1>1, <1>2, <2>2, <4>1
        <4> QED
          BY <1>2, <1>3, <4>2
      <3> QED
        BY <2>2, <3>3, <3>4
    <2> QED
      BY <1>3, <2>1, <2>2
  <1>8. ASSUME NEW i \in DOMAIN u, NEW j \in DOMAIN u, i < j, u[i][2] = u[j][2],
               snd[u[i][1]] = snd[u[j][1]]
        PROVE  u[i][1] < u[j][1]
    <2>1. CASE j <= n
      <3>1. i \in DOMAIN s /\ u[i] = s[i] /\ j \in DOMAIN s /\ u[j] = s[j]
        BY <1>2, <1>3, <1>8, <2>1
      <3> QED
        BY <1>8, <3>1 DEF Intact
    <2>2. CASE j > n /\ i <= n
      <3>1. i \in DOMAIN s /\ u[i] = s[i] /\ u[j][1] = m
        BY <1>2, <1>3, <1>8, <2>2
      <3>2. s[i][1] \in MsgsOf(s)
        BY <3>1 DEF MsgsOf
      <3> QED
        BY <1>8, <3>1, <3>2 DEF Precede
    <2>3. CASE i > n
      <3>1. u[i] = <<m, i - n>> /\ u[j] = <<m, j - n>> /\ i \in Int /\ j \in Int
        BY <1>2, <1>3, <1>8, <2>3
      <3>2. i - n # j - n
        BY <1>2, <1>8, <3>1
      <3> QED
        BY <1>8, <3>1, <3>2
    <2> QED
      BY <1>2, <2>1, <2>2, <2>3
  <1>9. Intact(snd, u)
    BY <1>6, <1>7, <1>8 DEF Intact
  <1> QED
    BY <1>4, <1>9 DEF u

\* Numbering another message leaves the stream intact.
LEMMA IntactNumber ==
    ASSUME NEW snd \in Seq(Thread \cup {"loop"}), NEW who \in Thread \cup {"loop"},
           NEW s, Intact(snd, s), MsgsOf(s) \subseteq 1..Len(snd)
    PROVE  Intact(Append(snd, who), s)
  <1>1. \A m \in 1..Len(snd) : Append(snd, who)[m] = snd[m]
    BY Extended
  <1>2. \A i \in DOMAIN s : s[i][1] \in 1..Len(snd)
    BY DEF MsgsOf
  <1> QED
    BY <1>1, <1>2 DEF Intact

\* Bytes that ::write() takes from data move from the one end of the stream
\* to the other.
LEMMA SplitStream ==
    ASSUME NEW s \in Seq(Byte), NEW data \in Seq(Byte), NEW n \in 0..Len(data)
    PROVE  (s \o SubSeq(data, 1, n)) \o SubSeq(data, n + 1, Len(data)) = s \o data
  <1> DEFINE a == SubSeq(data, 1, n)  c == SubSeq(data, n + 1, Len(data))
  <1>1. a \in Seq(Byte) /\ c \in Seq(Byte)
    BY SplitBytes
  <1>2. Len(data) \in Nat
    BY LenProperties
  <1>3. 1 \in 1..(Len(data) + 1) /\ n \in (1 - 1)..Len(data) /\ Len(data) \in n..Len(data)
    BY <1>2
  <1>4. a \o c = SubSeq(data, 1, Len(data))
    BY <1>3, ConcatAdjacentSubSeq
  <1>5. a \o c = data
    BY <1>4, SubSeqFull
  <1> HIDE DEF a, c
  <1>6. (s \o a) \o c = s \o (a \o c)
    BY <1>1, ConcatAssociative
  <1> QED
    BY <1>5, <1>6 DEF a, c

\* KeepRest() appends to the queue only functors that send nothing.
LEMMA KeepRestQuiet ==
    ASSUME queue \in Seq(Job), NEW rest, NEW done \in {<<>>, <<Do("writeComplete")>>},
           KeepRest(rest, done)
    PROVE  Quiet(queue, queue')
  <1>1. /\ Do("writeComplete") \in Job /\ Do("highWater") \in Job
        /\ Do("writeComplete").op # "send" /\ Do("highWater").op # "send"
    BY JobType DEF Do
  <1>2. PICK high \in {<<>>, <<Do("highWater")>>} : queue' = queue \o done \o high
    BY DEF KeepRest
  <1>3. ASSUME NEW q \in Seq(Job), NEW x \in Job, NEW s \in {<<>>, <<x>>}, x.op # "send"
        PROVE  q \o s \in Seq(Job) /\ Quiet(q, q \o s)
    <2>1. CASE s = <<>>
      <3>1. q \o s = q
        BY <2>1, ConcatEmptySeq
      <3> QED
        BY <3>1 DEF Quiet
    <2>2. CASE s = <<x>>
      <3>1. q \o s = Append(q, x)
        BY <2>2, AppendIsConcat
      <3>2. Append(q, x) \in Seq(Job) /\ Quiet(q, Append(q, x))
        BY <1>3, QuietAppend, AppendProperties
      <3> QED
        BY <3>1, <3>2
    <2> QED
      BY <2>1, <2>2
  <1>4. queue \o done \in Seq(Job) /\ Quiet(queue, queue \o done)
    BY <1>1, <1>3
  <1>5. Quiet(queue \o done, queue')
    BY <1>1, <1>2, <1>3, <1>4
  <1> QED
    BY <1>4, <1>5 DEF Quiet

\* sendInLoop() appends the whole message to the stream or nothing of it.
LEMMA SendStream ==
    ASSUME IndInv, NEW data \in Seq(Byte), sendInLoop(data)
    PROVE  /\ Quiet(queue, queue')
           /\ \/ (wire \o output)' = wire \o output
              \/ (wire \o output)' = (wire \o output) \o data
  <1>1. output \in Seq(Byte) /\ wire \in Seq(Byte) /\ queue \in Seq(Job)
    BY DEF IndInv, TypeOK
  <1>2. CASE SendFails \/ UNCHANGED <<outVars, kernelVars>>
    <2>1. UNCHANGED <<wire, output, queue>>
      BY <1>2 DEF SendFails, WriteFails, outVars, kernelVars
    <2> QED
      BY <2>1 DEF Quiet
  <1>3. CASE SendDirectly(data)
    <2>1. PICK n \in 0..Len(data) :
              /\ wire' = wire \o SubSeq(data, 1, n)
              /\ KeepRest(SubSeq(data, n + 1, Len(data)),
                          IF n = Len(data) THEN <<Do("writeComplete")>> ELSE <<>>)
      BY <1>3 DEF SendDirectly
    <2>2. Quiet(queue, queue')
      BY <1>1, <2>1, KeepRestQuiet
    <2>3. output = <<>> /\ output' = output \o SubSeq(data, n + 1, Len(data))
      BY <1>3, <2>1 DEF SendDirectly, KeepRest
    <2>4. SubSeq(data, n + 1, Len(data)) \in Seq(Byte)
      BY SplitBytes
    <2>5. output' = SubSeq(data, n + 1, Len(data)) /\ wire \o output = wire
      BY <1>1, <2>3, <2>4, ConcatEmptySeq
    <2>6. wire' \o output' = wire \o data
      BY <1>1, <2>1, <2>5, SplitStream
    <2> QED
      BY <2>2, <2>5, <2>6
  <1>4. CASE SendBehind(data)
    <2>1. KeepRest(data, <<>>) /\ wire' = wire
      BY <1>4 DEF SendBehind, kernelVars
    <2>2. Quiet(queue, queue')
      BY <1>1, <2>1, KeepRestQuiet
    <2>3. output' = output \o data
      BY <2>1 DEF KeepRest
    <2>4. wire \o (output \o data) = (wire \o output) \o data
      BY <1>1, ConcatAssociative
    <2> QED
      BY <2>1, <2>2, <2>3, <2>4
  <1> QED
    BY <1>2, <1>3, <1>4 DEF sendInLoop

\* A step that adds no byte and no send functor keeps the stream.
LEMMA StreamKept ==
    ASSUME StreamInv, UNCHANGED <<sender, batch>>, BatchDone',
           (wire \o output)' = wire \o output, Quiet(queue, queue'),
           \A t \in Thread : pc'[t].op = "send" => pc'[t] = pc[t]
    PROVE  StreamInv'
  <1>1. Pipeline(sender, MsgsOf(wire \o output), batch, queue', pc')
    BY PipeQuiet DEF StreamInv
  <1> QED
    BY <1>1 DEF StreamInv

\* The events of a dispatch keep it: handleWrite() only moves bytes.
LEMMA EventStream ==
    ASSUME IndInv, StreamInv,
           \/ \E evs \in Events : Poll(evs)
           \/ HandleHangUp \/ handleError \/ ReadSome \/ ReadEnd \/ WriteNothing
           \/ \E n \in 1..Len(output) : handleWrite(n)
           \/ connectEstablished \/ PeerResets \/ RunTimers
    PROVE  StreamInv'
  <1>0. BatchDone /\ Quiet(queue, queue)
    BY DEF StreamInv, Quiet
  <1>1. CASE \E n \in 1..Len(output) : handleWrite(n)
    <2>1. PICK n \in 1..Len(output) : handleWrite(n)
      BY <1>1
    <2>2. /\ output \in Seq(Byte) /\ wire \in Seq(Byte) /\ queue \in Seq(Job)
          /\ n \in 0..Len(output)
      BY LenProperties DEF IndInv, TypeOK
    <2>3. /\ wire' = wire \o SubSeq(output, 1, n)
          /\ output' = SubSeq(output, n + 1, Len(output))
          /\ queue' \in {queue, Append(queue, Do("writeComplete"))}
          /\ UNCHANGED <<phase, batch, pc, sender>>
      BY <2>1 DEF handleWrite, callVars
    <2>4. Do("writeComplete") \in Job /\ Do("writeComplete").op # "send"
      BY JobType DEF Do
    <2>5. Quiet(queue, queue')
      BY <1>0, <2>2, <2>3, <2>4, QuietAppend
    <2>6. wire' \o output' = wire \o output
      BY <2>2, <2>3, SplitStream
    <2> QED
      BY <1>0, <2>3, <2>5, <2>6, StreamKept DEF BatchDone
  <1>2. CASE \/ \E evs \in Events : Poll(evs)
             \/ HandleHangUp \/ handleError \/ ReadSome \/ ReadEnd \/ WriteNothing
             \/ connectEstablished \/ PeerResets \/ RunTimers
    <2>1. UNCHANGED <<wire, output, queue, batch, pc, sender>>
      BY <1>2 DEF Poll, HandleHangUp, handleError, ReadSome, ReadEnd, WriteNothing, WriteFails,
                  connectEstablished, PeerResets, RunTimers, forceCloseInLoop, handleClose,
                  outVars, loopVars, kernelVars, callVars
    <2>2. BatchDone'
      BY <1>0, <1>2 DEF BatchDone, Poll, HandleHangUp, handleError, ReadSome, ReadEnd,
                        WriteNothing, connectEstablished, PeerResets, RunTimers, loopVars
    <2>3. (wire \o output)' = wire \o output /\ Quiet(queue, queue')
      BY <1>0, <2>1
    <2> QED
      BY <2>1, <2>2, <2>3, StreamKept
  <1> QED
    BY <1>1, <1>2

\* The functors of a round keep it.
LEMMA FunctorStream ==
    ASSUME IndInv, StreamInv, SwapFunctors \/ RunFunctor
    PROVE  StreamInv'
  <1> DEFINE stream == wire \o output
  <1>1. CASE SwapFunctors
    <2>1. /\ phase' = "functors" /\ batch' = queue /\ queue' = <<>> /\ batch = <<>>
          /\ UNCHANGED <<wire, output, pc, sender>>
      BY <1>1 DEF SwapFunctors, StreamInv, BatchDone, kernelVars, callVars
    <2>2. Pipeline(sender, MsgsOf(stream), queue, <<>>, pc)
      BY <2>1, PipeSwap DEF StreamInv
    <2> QED
      BY <2>1, <2>2 DEF StreamInv, BatchDone
  <1>2. CASE RunFunctor
    <2>1. /\ batch \in Seq(Job) /\ batch # <<>> /\ queue \in Seq(Job)
          /\ output \in Seq(Byte) /\ wire \in Seq(Byte)
          /\ phase' = "functors" /\ batch' = Tail(batch) /\ UNCHANGED <<pc, sender>>
      BY <1>2 DEF RunFunctor, IndInv, TypeOK, callVars
    <2>2. stream \in Seq(Byte) /\ Head(batch) \in Job
      BY <2>1, ConcatProperties, FirstAndRest
    <2>3. Head(batch).msg \in 0..MaxCalls
      BY <2>2 DEF Job
    <2>4. /\ Quiet(queue, queue')
          /\ \/ stream' = stream
             \/ Head(batch).op = "send" /\ stream' = stream \o Bytes(Head(batch).msg)
      <3>1. CASE Head(batch).op = "send"
        <4>1. sendInLoop(Bytes(Head(batch).msg))
          BY <1>2, <3>1 DEF RunFunctor
        <4>2. Bytes(Head(batch).msg) \in Seq(Byte)
          BY <2>3, BytesType
        <4> QED
          BY <3>1, <4>1, <4>2, SendStream
      <3>2. CASE Head(batch).op # "send"
        <4>1. UNCHANGED <<wire, output, queue>>
          BY <1>2, <3>2 DEF RunFunctor, shutdownInLoop, forceCloseInLoop, handleClose,
                            outVars, kernelVars
        <4> QED
          BY <4>1 DEF Quiet
      <3> QED
        BY <3>1, <3>2
    <2>5. Pipeline(sender, MsgsOf(stream), batch, queue, pc) /\ Intact(sender, stream)
      BY DEF StreamInv
    <2> HIDE DEF stream
    <2>6. Head(batch).op = "send" => Precede(sender, MsgsOf(stream), {Head(batch).msg})
      BY <2>1, <2>5, PipeRun
    <2>7. /\ Intact(sender, stream')
          /\ MsgsOf(stream') \subseteq
                MsgsOf(stream) \cup (IF Head(batch).op = "send" THEN {Head(batch).msg} ELSE {})
      <3>1. CASE stream' = stream
        BY <2>5, <3>1
      <3>2. CASE Head(batch).op = "send" /\ stream' = stream \o Bytes(Head(batch).msg)
        <4>1. Precede(sender, MsgsOf(stream), {Head(batch).msg})
          BY <2>6, <3>2
        <4>2. /\ Intact(sender, stream \o Bytes(Head(batch).msg))
              /\ MsgsOf(stream \o Bytes(Head(batch).msg)) \subseteq
                    MsgsOf(stream) \cup {Head(batch).msg}
          BY <2>2, <2>3, <2>5, <4>1, IntactAppend
        <4> QED
          BY <3>2, <4>2
      <3> QED
        BY <2>4, <3>1, <3>2
    <2>8. Pipeline(sender, MsgsOf(stream'), Tail(batch), queue, pc)
      BY <2>1, <2>5, <2>7, PipeRun
    <2>9. Pipeline(sender, MsgsOf(stream'), Tail(batch), queue', pc)
      BY <2>4, <2>8, PipeQuiet
    <2> QED
      BY <2>1, <2>7, <2>9 DEF StreamInv, BatchDone, stream
  <1> QED
    BY <1>1, <1>2

\* The calls in the loop thread keep it.
LEMMA LoopCallStream ==
    ASSUME IndInv, StreamInv,
           LoopSend \/ LoopShutdown \/ LoopForceClose \/ LoopForceCloseWithDelay
    PROVE  StreamInv'
  <1> DEFINE stream == wire \o output
  <1>1. CASE LoopSend
    <2>1. /\ sender' = Append(sender, "loop") /\ sendInLoop(Bytes(Len(sender) + 1))
          /\ UNCHANGED <<phase, batch, pc>>
      BY <1>1 DEF LoopSend, loopVars
    <2>2. /\ sender \in Seq(Thread \cup {"loop"}) /\ Len(sender) \in Nat
          /\ output \in Seq(Byte) /\ wire \in Seq(Byte)
          /\ Len(sender) + 1 \in 0..MaxCalls
      BY <1>1, LenProperties, ConnectionAssumption DEF LoopSend, Called, IndInv, TypeOK
    <2>3. stream \in Seq(Byte)
      BY <2>2, ConcatProperties
    <2>4. Bytes(Len(sender) + 1) \in Seq(Byte)
      BY <2>2, BytesType
    <2>5. /\ Quiet(queue, queue')
          /\ stream' = stream \/ stream' = stream \o Bytes(Len(sender) + 1)
      BY <2>1, <2>4, SendStream
    <2>6. Pipeline(sender, MsgsOf(stream), batch, queue, pc) /\ Intact(sender, stream)
      BY DEF StreamInv
    <2> HIDE DEF stream
    <2>7. MsgsOf(stream) \subseteq 1..Len(sender)
      BY <2>6, OnTheWay
    <2>8. Intact(sender', stream) /\ Precede(sender', MsgsOf(stream), {Len(sender) + 1})
      BY <2>1, <2>2, <2>6, <2>7, IntactNumber, NewestLast
    <2>9. Intact(sender', stream') /\ MsgsOf(stream') \subseteq MsgsOf(stream) \cup {Len(sender) + 1}
      <3>1. CASE stream' = stream
        BY <2>8, <3>1
      <3>2. CASE stream' = stream \o Bytes(Len(sender) + 1)
        <4>1. PICK m \in 0..MaxCalls : m = Len(sender) + 1
          BY <2>2
        <4>2. PICK snd : snd = sender'
          OBVIOUS
        <4>3. Intact(snd, stream) /\ Precede(snd, MsgsOf(stream), {m})
          BY <2>8, <4>1, <4>2
        <4>4. /\ Intact(snd, stream \o Bytes(m))
              /\ MsgsOf(stream \o Bytes(m)) \subseteq MsgsOf(stream) \cup {m}
          BY <2>3, <4>3, IntactAppend
        <4> QED
          BY <3>2, <4>1, <4>2, <4>4
      <3> QED
        BY <2>5, <3>1, <3>2
    <2>10. Pipeline(sender', MsgsOf(stream'), batch, queue, pc)
      BY <2>1, <2>2, <2>6, <2>9, PipeLoop
    <2>11. Pipeline(sender', MsgsOf(stream'), batch, queue', pc)
      BY <2>5, <2>10, PipeQuiet
    <2> QED
      BY <2>1, <2>9, <2>11 DEF StreamInv, BatchDone, stream
  <1>2. CASE LoopShutdown \/ LoopForceClose \/ LoopForceCloseWithDelay
    <2>1. /\ UNCHANGED <<wire, output, batch, phase, pc, sender>>
          /\ queue' \in {queue, Append(queue, Do("force"))}
      BY <1>2 DEF LoopShutdown, shutdownInLoop, LoopForceClose, LoopForceCloseWithDelay,
                  outVars, loopVars, kernelVars
    <2>2. Do("force") \in Job /\ Do("force").op # "send" /\ queue \in Seq(Job)
      BY JobType DEF Do, IndInv, TypeOK
    <2>3. Quiet(queue, queue')
      BY <2>1, <2>2, QuietAppend DEF Quiet
    <2>4. BatchDone'
      BY <2>1 DEF StreamInv, BatchDone
    <2> QED
      BY <2>1, <2>3, <2>4, StreamKept
  <1> QED
    BY <1>1, <1>2

\* The calls in the other threads keep it.
LEMMA ThreadStream ==
    ASSUME IndInv, StreamInv, NEW t \in Thread,
           SendCalled(t) \/ CloseCalled(t) \/ ThreadStep(t)
    PROVE  StreamInv'
  <1> DEFINE stream == wire \o output
  <1>0. /\ Pipeline(sender, MsgsOf(stream), batch, queue, pc) /\ Intact(sender, stream)
        /\ BatchDone /\ Quiet(queue, queue)
        /\ sender \in Seq(Thread \cup {"loop"}) /\ pc \in [Thread -> Job] /\ queue \in Seq(Job)
    BY DEF StreamInv, IndInv, TypeOK, Quiet
  <1>1. CASE SendCalled(t)
    <2>1. /\ sender' = Append(sender, t)
          /\ pc' = [pc EXCEPT ![t] = DoSend(Len(sender) + 1)]
          /\ UNCHANGED <<wire, output, queue, batch, phase>>
      BY <1>1 DEF SendCalled, outVars, loopVars, kernelVars
    <2>2. stream' = stream
      BY <2>1
    <2> HIDE DEF stream
    <2>3. Pipeline(sender', MsgsOf(stream), batch, queue, pc')
      BY <1>0, <2>1, PipeCall
    <2>4. Intact(sender', stream)
      BY <1>0, <2>1, IntactNumber, OnTheWay
    <2> QED
      BY <1>0, <2>1, <2>2, <2>3, <2>4 DEF StreamInv, BatchDone, stream
  <1>2. CASE CloseCalled(t) \/ SetDisconnecting(t)
    <2>1. UNCHANGED <<wire, output, queue, batch, phase, sender>>
      BY <1>2 DEF CloseCalled, SetDisconnecting, outVars, loopVars, kernelVars
    <2>2. PICK op \in {"setShutdown", "setForce", "force", "shutdown"} :
              pc' = [pc EXCEPT ![t] = Do(op)]
      BY <1>2 DEF CloseCalled, SetDisconnecting
    <2>3. \A u \in Thread : pc'[u].op = "send" => pc'[u] = pc[u]
      BY <1>0, <2>2 DEF Do
    <2> QED
      BY <1>0, <2>1, <2>3, StreamKept DEF BatchDone
  <1>3. CASE QueueInLoop(t)
    <2>1. /\ queue' = Append(queue, pc[t]) /\ pc' = [pc EXCEPT ![t] = Do("idle")]
          /\ UNCHANGED <<wire, output, batch, phase, sender>>
      BY <1>3 DEF QueueInLoop, loopVars, kernelVars
    <2>2. Pipeline(sender, MsgsOf(stream), batch, queue', pc')
      BY <1>0, <2>1, PipeQueue
    <2> QED
      BY <1>0, <2>1, <2>2 DEF StreamInv, BatchDone
  <1> QED
    BY <1>1, <1>2, <1>3 DEF ThreadStep

\* The peer gets whole messages, each once, and those of a thread in the order
\* of its calls of send(), whatever ::write() takes and whenever the functors
\* of the other threads run.
THEOREM MessagesStayWhole == Spec => []StreamIntact
  <1>1. Init => StreamInv
    <2> SUFFICES ASSUME Init PROVE StreamInv
      OBVIOUS
    <2>1. <<>> \o <<>> = <<>> /\ DOMAIN <<>> = {} /\ Len(<<>>) = 0
      BY EmptySeq, LenProperties, ConcatEmptySeq
    <2>2. wire \o output = <<>> /\ batch = <<>> /\ queue = <<>>
      BY <2>1 DEF Init
    <2>3. MsgsOf(<<>>) = {}
      BY <2>1 DEF MsgsOf
    <2>4. \A u \in Thread : pc[u].op = "idle"
      BY DEF Init, Do
    <2>5. Calling(pc) = {}
      BY <2>4 DEF Calling
    <2>6. Pipeline(sender, {}, <<>>, <<>>, pc)
      BY <2>4, <2>5, NothingToSend DEF Pipeline, Numbered, Precede
    <2>7. 0 % MsgLen = 0
      BY ConnectionAssumption, Z3
    <2>8. Intact(sender, <<>>)
      BY <2>1, <2>7 DEF Intact
    <2> QED
      BY <2>2, <2>3, <2>6, <2>8 DEF StreamInv, BatchDone
  <1>2. IndInv /\ StreamInv /\ [Next]_vars => StreamInv'
    <2> SUFFICES ASSUME IndInv, StreamInv, [Next]_vars PROVE StreamInv'
      OBVIOUS
    <2>1. CASE UNCHANGED vars
      BY <2>1 DEF vars, outVars, loopVars, kernelVars, callVars, StreamInv, BatchDone
    <2>2. CASE connectEstablished \/ PeerResets \/ LoopStep
      BY <2>2, EventStream, FunctorStream DEF LoopStep
    <2>3. CASE LoopSend \/ LoopShutdown \/ LoopForceClose \/ LoopForceCloseWithDelay
      BY <2>3, LoopCallStream
    <2>4. ASSUME NEW t \in Thread, SendCalled(t) \/ CloseCalled(t) \/ ThreadStep(t)
          PROVE  StreamInv'
      BY <2>4, ThreadStream
    <2> QED
      BY <2>1, <2>2, <2>3, <2>4 DEF Next
  <1>3. StreamInv => StreamIntact
    BY DEF StreamInv, Intact, StreamIntact
  <1> QED
    BY <1>1, <1>2, <1>3, Inductive, PTL DEF Spec
===============================================================================
