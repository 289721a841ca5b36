----------------------------- MODULE TimerManager -----------------------------
(***************************************************************************)
(* TimerManager and Timer (src/common/timer): the timers of one EventLoop. *)
(* loop() calls processExpiredTimers() once per round; channel callbacks,  *)
(* functors and the callbacks of timers add and cancel timers, so a        *)
(* TimerId may be stale, or name a timer of the batch that is being run.   *)
(*                                                                         *)
(* A Timer is a piece of the heap, which `delete` gives back and `new` may *)
(* hand out again: a TimerId is an address and a sequence number.          *)
(***************************************************************************)
EXTENDS Naturals, Sequences

CONSTANTS
    Addr,         \* where a Timer may be allocated
    MaxTimers,    \* bound on the timers created
    MaxTime,      \* bound on the clock, in milliseconds
    MaxInterval   \* bound on the interval of a repeating timer

ASSUME TimerManagerAssumption ==
    MaxTimers \in Nat /\ MaxTime \in Nat \ {0} /\ MaxInterval \in Nat

VARIABLES
    clock,        \* what nowMs() returns
    heap,         \* the Timer at each address
    timers,       \* timers_
    active,       \* activeTimers_
    calling,      \* callingExpiredTimers_
    canceling,    \* cancelingTimers_
    phase,        \* "idle", or "running" in processExpiredTimers()
    expired,      \* the local `expired` of processExpiredTimers()
    done,         \* those of them whose callback has been called
    issued,       \* where the timer with each sequence number was allocated
    cancelled,    \* sequence numbers that cancel() was called with
    ranAt         \* when each timer last ran, 0 before its first run

setVars == <<heap, timers, active>>
batchVars == <<calling, canceling, phase, expired, done>>
vars == <<clock, setVars, batchVars, issued, cancelled, ranAt>>

\* Memory that holds no Timer; sequence numbers start at 1.
NoTimer == [expiration |-> 0, interval |-> 0, sequence |-> 0]

Live == {a \in Addr : heap[a].sequence # 0}

TimerIds == Addr \X (1..MaxTimers)

\* The entry of a timer in activeTimers_ and cancelingTimers_.
Key(a) == <<a, heap[a].sequence>>

\* TimerComparator
Before(a, b) ==
    \/ heap[a].expiration < heap[b].expiration
    \/ heap[a].expiration = heap[b].expiration /\ heap[a].sequence < heap[b].sequence

\* The loop creates its TimerManager by `new TimerManager()`, which zeroes it.
Init ==
    /\ clock = 1
    /\ heap = [a \in Addr |-> NoTimer] /\ timers = {} /\ active = {}
    /\ calling = FALSE /\ canceling = {}
    /\ phase = "idle" /\ expired = {} /\ done = {}
    /\ issued = <<>> /\ cancelled = {} /\ ranAt = [s \in 1..MaxTimers |-> 0]

-----------------------------------------------------------------------------
(* The calls that callbacks make in the loop thread.                       *)

CallbackRuns == phase = "idle" \/ done # {}

\* addTimer(), with addTimerInLoop(): `new` takes any free piece of the heap.
addTimer(when, interval) ==
    /\ CallbackRuns /\ Len(issued) < MaxTimers
    /\ \E a \in Addr \ Live :
          /\ heap' = [heap EXCEPT ![a] = [expiration |-> when, interval |-> interval,
                                          sequence |-> Len(issued) + 1]]
          /\ timers' = timers \cup {a}
          /\ active' = active \cup {<<a, Len(issued) + 1>>}
          /\ issued' = Append(issued, a)
    /\ UNCHANGED <<clock, batchVars, cancelled, ranAt>>

\* runAt() and runAfter(); the time may have passed.
runAt(when) == addTimer(when, 0)

\* runEvery(): an interval below a millisecond is truncated to 0, and a timer
\* with interval 0 runs once.
runEvery(interval) == addTimer(clock + interval, interval)

\* Mutation of CancelActive: the timer is looked up by its address.
CancelActiveAt(s) ==
    /\ \E id \in active : id[1] = issued[s]
    /\ timers' = timers \ {issued[s]}
    /\ active' = {id \in active : id[1] # issued[s]}
    /\ heap' = [heap EXCEPT ![issued[s]] = NoTimer]
    /\ UNCHANGED canceling

\* cancelInLoop() of a timer that waits: it is taken out and deleted.
CancelActive(s) ==
    /\ <<issued[s], s>> \in active
    /\ timers' = timers \ {issued[s]}
    /\ active' = active \ {<<issued[s], s>>}
    /\ heap' = [heap EXCEPT ![issued[s]] = NoTimer]
    /\ UNCHANGED canceling

\* cancelInLoop() of a timer that does not wait: it is in the batch, or gone.
CancelInactive(s) ==
    /\ <<issued[s], s>> \notin active
    /\ canceling' = IF calling THEN canceling \cup {<<issued[s], s>>} ELSE canceling
    /\ UNCHANGED setVars

\* cancel() with the TimerId of the timer that was created s-th.
cancel(s) ==
    /\ CallbackRuns
    /\ CancelActive(s) \/ CancelInactive(s)
    /\ cancelled' = cancelled \cup {s}
    /\ UNCHANGED <<clock, calling, phase, expired, done, issued, ranAt>>

-----------------------------------------------------------------------------
(* processExpiredTimers()                                                  *)

\* Mutation of getExpiredTimers: the timers are taken that expire this very
\* millisecond, instead of all up to the sentry.
getExpiredTimersNow ==
    /\ phase = "idle"
    /\ expired' = {a \in timers : heap[a].expiration = clock}
    /\ timers' = timers \ expired'
    /\ active' = active \ {Key(a) : a \in expired'}
    /\ calling' = TRUE /\ canceling' = {}
    /\ phase' = "running" /\ done' = {}
    /\ UNCHANGED <<clock, heap, issued, cancelled, ranAt>>

\* Mutation of getExpiredTimers: the expired timers stay in activeTimers_.
getExpiredTimersActive ==
    /\ phase = "idle"
    /\ expired' = {a \in timers : heap[a].expiration <= clock}
    /\ timers' = timers \ expired'
    /\ calling' = TRUE /\ canceling' = {}
    /\ phase' = "running" /\ done' = {}
    /\ UNCHANGED <<clock, heap, active, issued, cancelled, ranAt>>

\* getExpiredTimers(), and the preparations before the callbacks.  The sentry
\* is younger than every timer, so one that expires now is included.
getExpiredTimers ==
    /\ phase = "idle"
    /\ expired' = {a \in timers : heap[a].expiration <= clock}
    /\ timers' = timers \ expired'
    /\ active' = active \ {Key(a) : a \in expired'}
    /\ calling' = TRUE /\ canceling' = {}
    /\ phase' = "running" /\ done' = {}
    /\ UNCHANGED <<clock, heap, issued, cancelled, ranAt>>

\* The callback of the next timer of the batch is called.
run(a) ==
    /\ phase = "running"
    /\ \A b \in expired \ (done \cup {a}) : Before(a, b)
    /\ done' = done \cup {a}
    /\ ranAt' = [ranAt EXCEPT ![heap[a].sequence] = clock]
    /\ UNCHANGED <<clock, setVars, calling, canceling, phase, expired, issued, cancelled>>

\* Mutation of restart: the interval is counted from the expiration.
restartFromExpiration(a) == heap[a].expiration + heap[a].interval

\* Timer::restart()
restart(a) == clock + heap[a].interval

\* Mutation of Repeats: cancelingTimers_ is not looked at.
RepeatsAlways(a) == heap[a].interval > 0

\* The test in resetTimers().
Repeats(a) == Key(a) \notin canceling /\ heap[a].interval > 0

\* resetTimers(): the timers that repeat are added again, the others deleted.
resetTimers ==
    /\ phase = "running" /\ done = expired
    /\ LET again == {a \in expired : Repeats(a)}
       IN  /\ heap' = [a \in Addr |->
                 IF a \in again THEN [heap[a] EXCEPT !.expiration = restart(a)]
                 ELSE IF a \in expired THEN NoTimer ELSE heap[a]]
           /\ timers' = timers \cup again
           /\ active' = active \cup {Key(a) : a \in again}
    /\ calling' = FALSE /\ canceling' = {}
    /\ phase' = "idle" /\ expired' = {} /\ done' = {}
    /\ UNCHANGED <<clock, issued, cancelled, ranAt>>

\* Time passes, between the rounds of the loop and during callbacks.
Tick ==
    /\ clock < MaxTime
    /\ clock' = clock + 1
    /\ UNCHANGED <<setVars, batchVars, issued, cancelled, ranAt>>

-----------------------------------------------------------------------------
Process == getExpiredTimers \/ resetTimers \/ \E a \in expired \ done : run(a)

Next ==
    \/ Tick \/ Process
    \/ \E when \in 0..MaxTime : runAt(when)
    \/ \E interval \in 0..MaxInterval : runEvery(interval)
    \/ \E s \in 1..Len(issued) : cancel(s)

Spec == Init /\ [][Next]_vars

\* The poll of the loop returns after ten seconds at the latest and every
\* callback returns; time goes on.
FairSpec == Spec /\ WF_vars(Process) /\ WF_vars(Tick)

-----------------------------------------------------------------------------
\* Every variable has its type.
TypeOK ==
    /\ clock \in 1..MaxTime
    /\ heap \in [Addr -> [expiration : Nat, interval : 0..MaxInterval,
                          sequence : 0..MaxTimers]]
    /\ timers \subseteq Addr /\ active \subseteq TimerIds
    /\ calling \in BOOLEAN /\ canceling \subseteq TimerIds
    /\ phase \in {"idle", "running"} /\ expired \subseteq Addr /\ done \subseteq expired
    /\ issued \in Seq(Addr) /\ Len(issued) <= MaxTimers
    /\ cancelled \subseteq 1..Len(issued)
    /\ ranAt \in [1..MaxTimers -> 0..MaxTime]

\* timers_ and activeTimers_ agree, and a Timer is allocated exactly while it
\* waits in them or belongs to the batch that is being run: cancel() in a
\* callback neither frees a timer that is still to run nor leaks one.
OwnedOnce ==
    /\ active = {Key(a) : a \in timers}
    /\ timers \cap expired = {}
    /\ timers \cup expired = Live

\* A timer that was cancelled, be it in its own callback, never waits again.
CancelStops == \A a \in timers : heap[a].sequence \notin cancelled

\* A timer leaves timers_ because it is due or because of its own TimerId: a
\* stale one does not cancel the timer that took over the address.
NeverCancelsAnother ==
    [][\A a \in timers \ timers' :
          \/ heap[a].sequence \in cancelled'
          \/ a \in expired' /\ heap[a].expiration <= clock]_vars

\* Two runs of a repeating timer are an interval apart, however late the loop
\* comes round to it: missed runs are not made up for in a burst.
Spaced ==
    [][\A a \in done' \ done :
          ranAt[heap[a].sequence] > 0
             => ranAt[heap[a].sequence] + heap[a].interval <= clock]_vars

\* Whether the timer with sequence number s waits for the time e.
Waits(s, e) == \E a \in timers : heap[a].sequence = s /\ heap[a].expiration = e

\* A timer does not wait for ever: it is run, or cancelled.
TimersRun == \A s \in 1..MaxTimers, e \in 0..MaxTime : Waits(s, e) ~> ~Waits(s, e)
===============================================================================
