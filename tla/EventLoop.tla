------------------------------- MODULE EventLoop -------------------------------
(***************************************************************************)
(* EventLoop (src/core/reactor): the loop thread, the queue of functors    *)
(* that other threads and its own callbacks post, and the eventfd that     *)
(* ends its sleep in EpollPoller::poll().                                  *)
(*                                                                         *)
(* The critical sections of mutex_ and the reads and writes of the atomics *)
(* quit_ and callingPendingFunctors_ are separate steps wherever another   *)
(* thread or a signal can come in between.  Of the callbacks of channels,  *)
(* functors and timers the model keeps the posting of functors and quit(). *)
(***************************************************************************)
EXTENDS Naturals, Sequences, SequencesExt

CONSTANT Functor   \* the functors that are posted, each one once

VARIABLES
    pc,         \* where the loop thread is in loop()
    quit,       \* quit_
    calling,    \* callingPendingFunctors_
    pending,    \* pendingFunctors_
    batch,      \* the local `functors` of doPendingFunctors()
    signalled,  \* the counter of wakeupFd_ is not zero
    woken,      \* wakeupChannel_ is among activeChannels_, still to be handled
    owes,       \* functors whose poster is before its call of wakeup()
    lateSignal, \* a signal called quit() between the test of quit_ and epoll_wait()
    quitOwes,   \* a thread inside quit() is before its call of wakeup()
    byTimer,    \* functors posted by timer callbacks
    posted,     \* all functors ever posted, in the order of mutex_
    ran,        \* all functors ever run, in order
    asked       \* quit() was called

queueVars == <<pending, owes, byTimer, posted>>
loopVars == <<calling, batch, woken, ran>>
quitVars == <<quit, quitOwes, lateSignal, asked>>
vars == <<pc, quit, calling, pending, batch, signalled, woken, owes, quitOwes,
          lateSignal, byTimer, posted, ran, asked>>

Pc == {"before", "check", "enter", "poll", "events", "swap", "functors",
       "timers", "after"}

Init ==
    /\ pc = "before"
    /\ quit = FALSE
    /\ calling = FALSE
    /\ pending = <<>>
    /\ batch = <<>>
    /\ signalled = FALSE
    /\ woken = FALSE
    /\ owes = {}
    /\ quitOwes = FALSE
    /\ lateSignal = FALSE
    /\ byTimer = {}
    /\ posted = <<>>
    /\ ran = <<>>
    /\ asked = FALSE

-----------------------------------------------------------------------------
(* The loop thread.                                                        *)

\* loop() is entered: quit_ is cleared.
LoopStart ==
    /\ pc = "before"
    /\ pc' = "check"
    /\ quit' = FALSE
    /\ UNCHANGED <<loopVars, queueVars, signalled, quitOwes, lateSignal, asked>>

\* Mutation of LoopCheck: the loop never looks at quit_.
LoopCheckForever ==
    /\ pc = "check"
    /\ pc' = "enter"
    /\ UNCHANGED <<loopVars, queueVars, quitVars, signalled>>

\* while (!quit_)
LoopCheck ==
    /\ pc = "check"
    /\ pc' = IF quit THEN "after" ELSE "enter"
    /\ UNCHANGED <<loopVars, queueVars, quitVars, signalled>>

\* epoll_wait() begins to block.
EnterPoll ==
    /\ pc = "enter"
    /\ pc' = "poll"
    /\ UNCHANGED <<loopVars, queueVars, quitVars, signalled>>

\* epoll_wait() returns because wakeupFd_ or another channel is ready, or
\* after the timeout; the ready channels become activeChannels_.
PollReturn ==
    /\ pc = "poll"
    /\ pc' = "events"
    /\ woken' = signalled
    /\ UNCHANGED <<calling, batch, ran, queueVars, quitVars, signalled>>

\* handleRead(), the callback of wakeupChannel_, resets the counter.
HandleRead ==
    /\ pc = "events" /\ woken
    /\ woken' = FALSE
    /\ signalled' = FALSE
    /\ UNCHANGED <<pc, calling, batch, ran, queueVars, quitVars>>

\* Mutation of EndEvents: callingPendingFunctors_ is not set.
EndEventsNotCalling ==
    /\ pc = "events" /\ ~woken
    /\ pc' = "swap"
    /\ UNCHANGED <<loopVars, queueVars, quitVars, signalled>>

\* The active channels are handled; doPendingFunctors() begins.
EndEvents ==
    /\ pc = "events" /\ ~woken
    /\ pc' = "swap"
    /\ calling' = TRUE
    /\ UNCHANGED <<batch, woken, ran, queueVars, quitVars, signalled>>

\* Mutation of Swap: the functors are copied and not taken.
SwapCopies ==
    /\ pc = "swap"
    /\ pc' = "functors"
    /\ batch' = pending
    /\ UNCHANGED <<calling, woken, ran, queueVars, quitVars, signalled>>

\* Mutation of Swap: pendingFunctors_ is cleared before it is swapped.
SwapDrops ==
    /\ pc = "swap"
    /\ pc' = "functors"
    /\ pending' = <<>>
    /\ UNCHANGED <<loopVars, owes, byTimer, posted, quitVars, signalled>>

\* functors.swap(pendingFunctors_) under mutex_.
Swap ==
    /\ pc = "swap"
    /\ pc' = "functors"
    /\ batch' = pending
    /\ pending' = <<>>
    /\ UNCHANGED <<calling, woken, ran, owes, byTimer, posted, quitVars, signalled>>

\* The functor at the head of the batch returns.
RunFunctor ==
    /\ pc = "functors" /\ batch # <<>>
    /\ batch' = Tail(batch)
    /\ ran' = Append(ran, Head(batch))
    /\ UNCHANGED <<pc, calling, woken, queueVars, quitVars, signalled>>

\* doPendingFunctors() ends and processExpiredTimers() begins.
EndFunctors ==
    /\ pc = "functors" /\ batch = <<>>
    /\ pc' = "timers"
    /\ calling' = FALSE
    /\ UNCHANGED <<batch, woken, ran, queueVars, quitVars, signalled>>

\* The expired timers have run.
EndTimers ==
    /\ pc = "timers"
    /\ pc' = "check"
    /\ UNCHANGED <<loopVars, queueVars, quitVars, signalled>>

\* pendingFunctors_.push_back() under mutex_; f is posted for the first time.
PushBack(f) ==
    /\ f \notin ToSet(posted)
    /\ pending' = Append(pending, f)
    /\ posted' = Append(posted, f)

\* A callback of a channel, a functor or a timer calls queueInLoop(): the
\* wakeup is only made inside doPendingFunctors().
PostInLoop(f) ==
    /\ pc \in {"events", "timers"} \/ (pc = "functors" /\ batch # <<>>)
    /\ PushBack(f)
    /\ signalled' = (signalled \/ calling)
    /\ byTimer' = IF pc = "timers" THEN byTimer \cup {f} ELSE byTimer
    /\ UNCHANGED <<pc, loopVars, quitVars, owes>>

-----------------------------------------------------------------------------
(* The other threads and signals.                                          *)

\* queueInLoop(), or runInLoop(), of another thread.
RemotePush(f) ==
    /\ PushBack(f)
    /\ owes' = owes \cup {f}
    /\ UNCHANGED <<pc, loopVars, quitVars, byTimer, signalled>>

\* Mutation of RemoteWake: the write to wakeupFd_ is forgotten.
RemoteWakeLost(f) ==
    /\ f \in owes
    /\ owes' = owes \ {f}
    /\ UNCHANGED <<pc, loopVars, quitVars, pending, byTimer, posted, signalled>>

\* ... and its wakeup().
RemoteWake(f) ==
    /\ f \in owes
    /\ owes' = owes \ {f}
    /\ signalled' = TRUE
    /\ UNCHANGED <<pc, loopVars, quitVars, pending, byTimer, posted>>

\* quit() of another thread sets quit_ ...
RemoteQuit ==
    /\ quit' = TRUE
    /\ quitOwes' = TRUE
    /\ asked' = TRUE
    /\ UNCHANGED <<pc, loopVars, queueVars, signalled, lateSignal>>

\* ... and calls wakeup().
RemoteQuitWake ==
    /\ quitOwes
    /\ quitOwes' = FALSE
    /\ signalled' = TRUE
    /\ UNCHANGED <<pc, loopVars, queueVars, quit, lateSignal, asked>>

\* quit() in the loop thread, from a callback or from signalHandler(): no
\* wakeup.  A signal ends a blocking epoll_wait() with EINTR, which yields no
\* active channel.
LocalQuit ==
    /\ pc # "after"
    /\ quit' = TRUE
    /\ asked' = TRUE
    /\ pc' = IF pc = "poll" THEN "events" ELSE pc
    /\ lateSignal' = (lateSignal \/ pc = "enter")
    /\ UNCHANGED <<loopVars, queueVars, quitOwes, signalled>>

-----------------------------------------------------------------------------
LoopStep ==
    \/ LoopCheck \/ EnterPoll \/ PollReturn \/ HandleRead \/ EndEvents
    \/ Swap \/ RunFunctor \/ EndFunctors \/ EndTimers

Next ==
    \/ LoopStart \/ LoopStep
    \/ \E f \in Functor : PostInLoop(f) \/ RemotePush(f) \/ RemoteWake(f)
    \/ RemoteQuit \/ RemoteQuitWake \/ LocalQuit

Spec == Init /\ [][Next]_vars

\* The loop thread is scheduled, callbacks return, and epoll_wait() returns at
\* the latest after its timeout.  Nobody is obliged to post or to quit.
FairSpec == Spec /\ WF_vars(LoopStart) /\ WF_vars(LoopStep)

-----------------------------------------------------------------------------
\* The variables of the loop have their types, and the local state of one
\* round is not left over: activeChannels_ is handled in the round that
\* filled it, and the batch in the doPendingFunctors() that took it.
TypeOK ==
    /\ pc \in Pc
    /\ quit \in BOOLEAN /\ quitOwes \in BOOLEAN /\ lateSignal \in BOOLEAN
    /\ calling \in BOOLEAN /\ signalled \in BOOLEAN /\ woken \in BOOLEAN
    /\ asked \in BOOLEAN
    /\ pending \in Seq(Functor) /\ batch \in Seq(Functor)
    /\ posted \in Seq(Functor) /\ ran \in Seq(Functor)
    /\ owes \subseteq Functor /\ byTimer \subseteq Functor
    /\ woken => pc = "events"
    /\ batch # <<>> => pc = "functors"

\* The loop is about to sleep in epoll_wait(), or sleeps, and no wakeup is
\* on its way through wakeupFd_.
Asleep == pc \in {"enter", "poll"} /\ ~signalled

\* No wakeup is lost between queueInLoop() or quit() and the loop: it does
\* not sleep on a posted functor, unless the poster is about to wake it up or
\* was a timer callback, and it does not sleep on a quit(), unless the caller
\* is about to wake it up or was a signal just before epoll_wait().
NoSleepOnWork ==
    Asleep => /\ ToSet(pending) \subseteq owes \cup byTimer
              /\ quit => quitOwes \/ lateSignal

\* Functors run once each, in the order in which they were posted, whichever
\* threads and callbacks posted them and however the batches were cut.
RunInOrder == ran \o batch \o pending = posted

\* A posted functor is run, unless the loop is left first.
FunctorRuns ==
    \A f \in Functor :
        f \in ToSet(pending) /\ pc # "before" ~> f \in ToSet(ran) \/ pc = "after"

\* quit() of a running loop makes loop() return.
QuitExits == quit /\ pc # "before" ~> pc = "after"

===============================================================================
