------------------------------ MODULE Connection ------------------------------
(***************************************************************************)
(* Connection and its Channel (src/common/network, src/core/reactor): a    *)
(* TCP connection that belongs to one loop.  The loop thread dispatches    *)
(* the events of the channel and runs the functors that were queued; the   *)
(* other threads call send(), shutdown() and forceClose(), which read and  *)
(* write state_ without a lock and leave the rest to a functor.  A user    *)
(* holds a reference throughout; the lifetime is the subject of Gateway.   *)
(***************************************************************************)
EXTENDS Naturals, Sequences

CONSTANTS
    Thread,     \* the threads other than the loop thread
    MsgLen,     \* bytes of a message
    HighWater,  \* highWaterMark_, in bytes
    MaxCalls    \* bound on the calls of send(), shutdown() and forceClose()

ASSUME ConnectionAssumption ==
    /\ MsgLen \in Nat \ {0} /\ HighWater \in Nat /\ MaxCalls \in Nat
    /\ "loop" \notin Thread

VARIABLES
    state,      \* state_
    reading,    \* whether events_ holds kReadEvent
    writing,    \* whether events_ holds kWriteEvent
    output,     \* outputBuffer_: bytes <<message, index>>
    phase,      \* where the loop is: "poll", "events" or "functors"
    revents,    \* the events of this poll that are still to be handled
    queue,      \* the functors of this connection in pendingFunctors_
    batch,      \* those that doPendingFunctors() has taken
    delayed,    \* whether the timer of forceCloseWithDelay() is armed
    pc,         \* what each other thread is about to do
    wire,       \* the bytes that ::write() has taken
    fin,        \* whether shutdownWrite() was called
    socket,     \* "open", "reset" (an error is pending) or "broken"
    killed,     \* whether SIGPIPE has ended the process
    sender,     \* who called send(), in the order of the calls
    calls,      \* calls made
    closes      \* times that handleClose() has run

outVars == <<writing, output, queue>>
loopVars == <<phase, revents, batch, delayed>>
kernelVars == <<wire, fin, socket, killed>>
callVars == <<pc, sender, calls>>
vars == <<state, reading, closes, outVars, loopVars, kernelVars, callVars>>

\* A functor, and what a thread is about to do with the connection.
Job == [op : {"idle", "send", "setShutdown", "setForce", "shutdown", "force",
              "writeComplete", "highWater"},
        msg : 0..MaxCalls]
Do(op) == [op |-> op, msg |-> 0]
DoSend(msg) == [op |-> "send", msg |-> msg]

Byte == (0..MaxCalls) \X (1..MsgLen)

Bytes(msg) == [i \in 1..MsgLen |-> <<msg, i>>]

Init ==
    /\ state = "Connecting" /\ reading = FALSE /\ closes = 0
    /\ writing = FALSE /\ output = <<>> /\ queue = <<>>
    /\ phase = "events" /\ revents = {} /\ batch = <<>> /\ delayed = FALSE
    /\ wire = <<>> /\ fin = FALSE /\ socket = "open" /\ killed = FALSE
    /\ pc = [t \in Thread |-> Do("idle")] /\ sender = <<>> /\ calls = 0

\* connectEstablished(), called where the listening channel is handled.
connectEstablished ==
    /\ state = "Connecting"
    /\ state' = "Connected"
    /\ reading' = TRUE
    /\ UNCHANGED <<closes, outVars, loopVars, kernelVars, callVars>>

-----------------------------------------------------------------------------
(* The socket.                                                             *)

\* The peer resets the connection.
PeerResets ==
    /\ socket = "open" /\ state # "Connecting"
    /\ socket' = "reset"
    /\ UNCHANGED <<state, reading, closes, outVars, loopVars, wire, fin, killed, callVars>>

\* Nothing keeps ::write() from taking bytes.
Writable == socket = "open" /\ ~fin

\* The error that is pending on the socket has been reported.
TakeError == socket' = IF socket = "reset" THEN "broken" ELSE socket

\* ::write() fails with ECONNRESET once and with EPIPE from then on: unless
\* somebody ignores it, SIGPIPE then ends the process.
WriteFails ==
    /\ ~Writable
    /\ TakeError
    /\ killed' \in IF socket = "reset" THEN {FALSE} ELSE BOOLEAN
    /\ UNCHANGED <<wire, fin>>

-----------------------------------------------------------------------------
(* What send() and shutdown() do in the loop thread.                       *)

\* The second half of sendInLoop(): what was not written goes to the buffer.
KeepRest(rest, done) ==
    /\ output' = output \o rest
    /\ writing' = (writing \/ rest # <<>>)
    /\ queue' = queue \o done \o
          IF rest # <<>> /\ Len(output) < HighWater /\ Len(output \o rest) >= HighWater
          THEN <<Do("highWater")>> ELSE <<>>

\* Mutation of SendDirectly: bytes that wait in the buffer are overtaken.
SendDirectlyAlways(data) ==
    /\ Writable
    /\ \E n \in 0..Len(data) :
          /\ wire' = wire \o SubSeq(data, 1, n)
          /\ KeepRest(SubSeq(data, n + 1, Len(data)),
                      IF n = Len(data) THEN <<Do("writeComplete")>> ELSE <<>>)
    /\ UNCHANGED <<fin, socket, killed>>

\* sendInLoop() with nothing waiting: ::write() takes what it can.
SendDirectly(data) ==
    /\ ~writing /\ output = <<>>
    /\ Writable
    /\ \E n \in 0..Len(data) :
          /\ wire' = wire \o SubSeq(data, 1, n)
          /\ KeepRest(SubSeq(data, n + 1, Len(data)),
                      IF n = Len(data) THEN <<Do("writeComplete")>> ELSE <<>>)
    /\ UNCHANGED <<fin, socket, killed>>

\* sendInLoop() whose ::write() fails with EPIPE or ECONNRESET drops the bytes.
SendFails ==
    /\ ~writing /\ output = <<>>
    /\ WriteFails
    /\ UNCHANGED outVars

\* sendInLoop() behind bytes that wait in the buffer.
SendBehind(data) ==
    /\ writing \/ output # <<>>
    /\ KeepRest(data, <<>>)
    /\ UNCHANGED kernelVars

\* sendInLoop(), which does nothing on a disconnected connection.
sendInLoop(data) ==
    \/ state = "Disconnected" /\ UNCHANGED <<outVars, kernelVars>>
    \/ state # "Disconnected" /\ (SendDirectly(data) \/ SendFails \/ SendBehind(data))

\* Mutation of shutdownInLoop: the bytes in the buffer are not waited for.
shutdownInLoopAtOnce ==
    /\ fin' = TRUE
    /\ UNCHANGED <<wire, socket, killed>>

\* shutdownInLoop(): the FIN waits for the bytes in the buffer.
shutdownInLoop ==
    /\ fin' = (fin \/ ~writing)
    /\ UNCHANGED <<wire, socket, killed>>

\* handleClose(), with disableAll() and the connection callback.
handleClose ==
    /\ state' = "Disconnected"
    /\ reading' = FALSE /\ writing' = FALSE
    /\ closes' = closes + 1
    /\ UNCHANGED <<output, queue>>

\* forceCloseInLoop(): state_ decides whether there is anything to close.
forceCloseInLoop ==
    IF state \in {"Connected", "Disconnecting"}
    THEN handleClose
    ELSE UNCHANGED <<state, reading, closes, outVars>>

-----------------------------------------------------------------------------
(* One round of the loop.                                                  *)

\* poll() returns, with the events evs of this channel.
Poll(evs) ==
    /\ phase = "poll"
    /\ evs # {} => reading \/ writing
    /\ "in" \in evs => reading
    /\ "out" \in evs => writing
    /\ phase' = "events" /\ revents' = evs
    /\ UNCHANGED <<state, reading, closes, outVars, batch, delayed, kernelVars, callVars>>

\* handleEventWithGuard(): a hang-up with nothing to read closes.
HandleHangUp ==
    /\ "hup" \in revents
    /\ revents' = revents \ {"hup"}
    /\ IF "in" \in revents THEN UNCHANGED <<state, reading, closes, outVars>> ELSE handleClose
    /\ UNCHANGED <<phase, batch, delayed, kernelVars, callVars>>

\* handleError(): getSocketError() takes the error off the socket.
handleError ==
    /\ "err" \in revents /\ "hup" \notin revents
    /\ revents' = revents \ {"err"}
    /\ TakeError
    /\ UNCHANGED <<state, reading, closes, outVars, phase, batch, delayed,
                   wire, fin, killed, callVars>>

\* handleRead() of bytes, which the message callback gets, or of an error.
ReadSome ==
    /\ "in" \in revents /\ revents \subseteq {"in", "out"}
    /\ revents' = revents \ {"in"}
    /\ socket # "broken"
    /\ TakeError
    /\ UNCHANGED <<state, reading, closes, outVars, phase, batch, delayed,
                   wire, fin, killed, callVars>>

\* handleRead() of the end of the stream.
ReadEnd ==
    /\ "in" \in revents /\ revents \subseteq {"in", "out"}
    /\ revents' = revents \ {"in"}
    /\ socket # "reset"
    /\ handleClose
    /\ UNCHANGED <<phase, batch, delayed, kernelVars, callVars>>

\* Mutation of handleWrite: the shutdown() that waits for the bytes is forgotten.
handleWriteForgets(n) ==
    /\ revents = {"out"} /\ writing /\ n \in 1..Len(output) /\ Writable
    /\ revents' = {}
    /\ wire' = wire \o SubSeq(output, 1, n)
    /\ output' = SubSeq(output, n + 1, Len(output))
    /\ writing' = (n < Len(output))
    /\ queue' = IF n < Len(output) THEN queue ELSE Append(queue, Do("writeComplete"))
    /\ UNCHANGED <<state, reading, closes, phase, batch, delayed, fin, socket, killed, callVars>>

\* handleWrite() where ::write() takes n bytes; the last one is followed by
\* the FIN that a shutdown() is waiting for.
handleWrite(n) ==
    /\ revents = {"out"} /\ writing /\ n \in 1..Len(output) /\ Writable
    /\ revents' = {}
    /\ wire' = wire \o SubSeq(output, 1, n)
    /\ output' = SubSeq(output, n + 1, Len(output))
    /\ writing' = (n < Len(output))
    /\ queue' = IF n < Len(output) THEN queue ELSE Append(queue, Do("writeComplete"))
    /\ fin' = (n = Len(output) /\ state = "Disconnecting")
    /\ UNCHANGED <<state, reading, closes, phase, batch, delayed, socket, killed, callVars>>

\* handleWrite() where ::write() takes nothing, or where a callback of this
\* dispatch has already disabled the event.
WriteNothing ==
    /\ revents = {"out"}
    /\ revents' = {}
    /\ \/ (writing => Writable) /\ UNCHANGED kernelVars
       \/ writing /\ WriteFails
    /\ UNCHANGED <<state, reading, closes, outVars, phase, batch, delayed, callVars>>

\* doPendingFunctors() takes the functors that have been queued.
SwapFunctors ==
    /\ phase = "events" /\ revents = {} /\ state # "Connecting"
    /\ phase' = "functors" /\ batch' = queue /\ queue' = <<>>
    /\ UNCHANGED <<state, reading, closes, writing, output, revents, delayed,
                   kernelVars, callVars>>

\* doPendingFunctors() runs the next of them.
RunFunctor ==
    /\ phase = "functors" /\ batch # <<>>
    /\ batch' = Tail(batch)
    /\ CASE Head(batch).op = "send" ->
              /\ sendInLoop(Bytes(Head(batch).msg))
              /\ UNCHANGED <<state, reading, closes>>
         [] Head(batch).op = "shutdown" ->
              /\ shutdownInLoop
              /\ UNCHANGED <<state, reading, closes, outVars>>
         [] Head(batch).op = "force" ->
              /\ forceCloseInLoop
              /\ UNCHANGED kernelVars
         [] OTHER -> UNCHANGED <<state, reading, closes, outVars, kernelVars>>
    /\ UNCHANGED <<phase, revents, delayed, callVars>>

\* processExpiredTimers(): the timer of forceCloseWithDelay() may be due.
RunTimers ==
    /\ phase = "functors" /\ batch = <<>>
    /\ phase' = "poll"
    /\ \/ UNCHANGED <<delayed, state, reading, closes, outVars>>
       \/ delayed /\ delayed' = FALSE /\ forceCloseInLoop
    /\ UNCHANGED <<revents, batch, kernelVars, callVars>>

-----------------------------------------------------------------------------
(* The calls, made by callbacks in the loop thread and by other threads.   *)

Called == calls < MaxCalls /\ calls' = calls + 1

\* send() in the loop thread.
LoopSend ==
    /\ phase # "poll" /\ state = "Connected"
    /\ Called
    /\ sender' = Append(sender, "loop")
    /\ sendInLoop(Bytes(Len(sender) + 1))
    /\ UNCHANGED <<state, reading, closes, loopVars, pc>>

\* shutdown() in the loop thread: runInLoop() runs the functor at once.
LoopShutdown ==
    /\ phase # "poll" /\ state = "Connected"
    /\ Called
    /\ state' = "Disconnecting"
    /\ shutdownInLoop
    /\ UNCHANGED <<reading, closes, outVars, loopVars, pc, sender>>

\* forceClose() in the loop thread.
LoopForceClose ==
    /\ phase # "poll" /\ state \in {"Connected", "Disconnecting"}
    /\ Called
    /\ state' = "Disconnecting"
    /\ queue' = Append(queue, Do("force"))
    /\ UNCHANGED <<reading, closes, writing, output, loopVars, kernelVars, pc, sender>>

\* forceCloseWithDelay() in the loop thread.
LoopForceCloseWithDelay ==
    /\ phase # "poll" /\ state \in {"Connected", "Disconnecting"} /\ ~delayed
    /\ Called
    /\ state' = "Disconnecting"
    /\ delayed' = TRUE
    /\ UNCHANGED <<reading, closes, outVars, phase, revents, batch, kernelVars, pc, sender>>

\* Another thread has read state_ in send().
SendCalled(t) ==
    /\ pc[t] = Do("idle") /\ state = "Connected"
    /\ Called
    /\ sender' = Append(sender, t)
    /\ pc' = [pc EXCEPT ![t] = DoSend(Len(sender) + 1)]
    /\ UNCHANGED <<state, reading, closes, outVars, loopVars, kernelVars>>

\* Another thread has read state_ in shutdown() or forceClose().
CloseCalled(t) ==
    /\ pc[t] = Do("idle")
    /\ Called
    /\ \/ state = "Connected" /\ pc' = [pc EXCEPT ![t] = Do("setShutdown")]
       \/ /\ state \in {"Connected", "Disconnecting"}
          /\ pc' = [pc EXCEPT ![t] = Do("setForce")]
    /\ UNCHANGED <<state, reading, closes, outVars, loopVars, kernelVars, sender>>

\* The thread sets state_, whatever it is by now.
SetDisconnecting(t) ==
    /\ pc[t].op \in {"setShutdown", "setForce"}
    /\ state' = "Disconnecting"
    /\ pc' = [pc EXCEPT ![t] = Do(IF pc[t].op = "setForce" THEN "force" ELSE "shutdown")]
    /\ UNCHANGED <<reading, closes, outVars, loopVars, kernelVars, sender, calls>>

\* The thread queues its functor in the loop.
QueueInLoop(t) ==
    /\ pc[t].op \in {"send", "shutdown", "force"}
    /\ queue' = Append(queue, pc[t])
    /\ pc' = [pc EXCEPT ![t] = Do("idle")]
    /\ UNCHANGED <<state, reading, closes, writing, output, loopVars, kernelVars, sender, calls>>

-----------------------------------------------------------------------------
Events == SUBSET {"hup", "err", "in", "out"}

LoopStep ==
    \/ \E evs \in Events : Poll(evs)
    \/ HandleHangUp \/ handleError \/ ReadSome \/ ReadEnd
    \/ \E n \in 1..Len(output) : handleWrite(n)
    \/ WriteNothing
    \/ SwapFunctors \/ RunFunctor \/ RunTimers

ThreadStep(t) == SetDisconnecting(t) \/ QueueInLoop(t)

Next ==
    /\ ~killed
    /\ \/ connectEstablished \/ PeerResets \/ LoopStep
       \/ LoopSend \/ LoopShutdown \/ LoopForceClose \/ LoopForceCloseWithDelay
       \/ \E t \in Thread : SendCalled(t) \/ CloseCalled(t) \/ ThreadStep(t)

Spec == Init /\ [][Next]_vars

\* A running loop goes round for ever, and the other threads go on.  The
\* kernel reports a socket that can be written and one that failed, a peer
\* that reads lets bytes through, and the clock reaches a timer.
Fairness ==
    /\ WF_vars(~killed /\ (SwapFunctors \/ RunFunctor \/ RunTimers))
    /\ WF_vars(~killed /\ \E evs \in Events : Poll(evs))
    /\ WF_vars(~killed /\ (HandleHangUp \/ handleError \/ ReadSome \/ ReadEnd))
    /\ WF_vars(~killed /\ (WriteNothing \/ \E n \in 1..Len(output) : handleWrite(n)))
    /\ SF_vars(~killed /\ \E n \in 1..Len(output) : handleWrite(n))
    /\ SF_vars(~killed /\ \E evs \in Events : "out" \in evs /\ Poll(evs))
    /\ SF_vars(~killed /\ socket # "open" /\ \E evs \in Events : "in" \in evs /\ Poll(evs))
    /\ SF_vars(~killed /\ delayed /\ RunTimers /\ ~delayed')
    /\ \A t \in Thread : WF_vars(~killed /\ ThreadStep(t))

FairSpec == Spec /\ Fairness

-----------------------------------------------------------------------------
\* Every variable has its type; a byte belongs to a message and has an index
\* in it.
TypeOK ==
    /\ state \in {"Connecting", "Connected", "Disconnecting", "Disconnected"}
    /\ reading \in BOOLEAN /\ writing \in BOOLEAN /\ delayed \in BOOLEAN
    /\ fin \in BOOLEAN /\ killed \in BOOLEAN
    /\ output \in Seq(Byte) /\ wire \in Seq(Byte)
    /\ phase \in {"poll", "events", "functors"} /\ revents \in Events
    /\ queue \in Seq(Job) /\ batch \in Seq(Job) /\ pc \in [Thread -> Job]
    /\ socket \in {"open", "reset", "broken"}
    /\ sender \in Seq(Thread \cup {"loop"})
    /\ Len(sender) <= calls /\ calls \in 0..MaxCalls /\ closes \in Nat

\* What the peer gets, now and from the buffer, is whole messages, each once,
\* and those of one thread in the order of its calls: a direct ::write(), a
\* partial one, the buffer and the functors of the other threads never mix
\* the bytes of two messages or let one overtake another.
StreamIntact ==
    LET stream == wire \o output
    IN  /\ Len(stream) % MsgLen = 0
        /\ \A i \in DOMAIN stream :
              /\ stream[i][2] = 1 + ((i - 1) % MsgLen)
              /\ stream[i][2] > 1 => stream[i - 1][1] = stream[i][1]
        /\ \A i, j \in DOMAIN stream :
              /\ i < j /\ stream[i][2] = stream[j][2]
              /\ sender[stream[i][1]] = sender[stream[j][1]]
              => stream[i][1] < stream[j][1]

\* While the connection is open the write event is registered exactly when
\* bytes wait: none is stranded and no poll spins on a writable socket.
WritingExact == closes = 0 => (writing <=> output # <<>>)

\* The FIN of an open connection comes after all the bytes of the buffer.
FinAfterData == fin /\ closes = 0 => output = <<>>

\* shutdown() and forceClose() end: the FIN goes out or the connection closes.
ShutdownCompletes == state = "Disconnecting" ~> fin \/ closes > 0 \/ killed
===============================================================================
