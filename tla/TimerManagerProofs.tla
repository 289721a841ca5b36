-------------------------- MODULE TimerManagerProofs --------------------------
(***************************************************************************)
(* Proofs about TimerManager, for every heap and every bound.  Timers are  *)
(* told apart by their sequence numbers: the number that is stored at an   *)
(* address was issued for that address, so no number is stored twice, and  *)
(* a cancelled timer of the batch is in cancelingTimers_ until             *)
(* resetTimers() looks there.                                              *)
(***************************************************************************)
EXTENDS TimerManager, TLAPS

\* A live timer carries a number that was issued for its address.
Issued == \A a \in Live : heap[a].sequence <= Len(issued) /\ issued[heap[a].sequence] = a

\* The batch exists only while processExpiredTimers() runs, and what cancel()
\* says of it is kept.
BatchKept ==
    /\ phase = "idle" => expired = {}
    /\ phase = "running" => calling
    /\ \A a \in expired : heap[a].sequence \in cancelled => Key(a) \in canceling

IndInv == TypeOK /\ OwnedOnce /\ CancelStops /\ Issued /\ BatchKept

Timer == [expiration : Nat, interval : 0..MaxInterval, sequence : 0..MaxTimers]

LEMMA NoTimerType == NoTimer \in Timer
  BY TimerManagerAssumption DEF NoTimer, Timer

\* What the invariant says about one number.
LEMMA NumberFacts ==
    ASSUME IndInv, NEW s \in 1..Len(issued)
    PROVE  /\ issued[s] \in Addr /\ s \in 1..MaxTimers
           /\ \A a \in Live : heap[a].sequence = s => a = issued[s]
  <1>1. issued[s] \in Addr /\ s \in 1..MaxTimers
    BY TimerManagerAssumption DEF IndInv, TypeOK
  <1>2. \A a \in Live : heap[a].sequence = s => a = issued[s]
    BY DEF IndInv, Issued
  <1> QED
    BY <1>1, <1>2

\* Adding a timer.
LEMMA AddStep ==
    ASSUME IndInv, NEW when \in Nat, NEW interval \in 0..MaxInterval, addTimer(when, interval)
    PROVE  IndInv' /\ timers \subseteq timers' /\ done' = done
  <1> DEFINE n == Len(issued) + 1
  <1>1. PICK a \in Addr \ Live :
          /\ heap' = [heap EXCEPT ![a] = [expiration |-> when, interval |-> interval,
                                          sequence |-> n]]
          /\ timers' = timers \cup {a}
          /\ active' = active \cup {<<a, n>>}
          /\ issued' = Append(issued, a)
    BY DEF addTimer
  <1>2. /\ n \in 1..MaxTimers /\ Len(issued) \in Nat /\ issued \in Seq(Addr)
    BY TimerManagerAssumption DEF addTimer, IndInv, TypeOK
  <1>3. /\ UNCHANGED <<clock, calling, canceling, phase, expired, done, cancelled, ranAt>>
    BY DEF addTimer, batchVars
  <1>4. [expiration |-> when, interval |-> interval, sequence |-> n] \in Timer
    BY <1>2 DEF Timer
  <1>5. /\ heap \in [Addr -> Timer]
        /\ heap' \in [Addr -> Timer]
        /\ heap'[a].sequence = n
        /\ \A b \in Addr \ {a} : heap'[b] = heap[b]
    BY <1>1, <1>4 DEF IndInv, TypeOK, Timer
  <1>6. /\ issued' \in Seq(Addr) /\ Len(issued') = n /\ issued'[n] = a
        /\ \A s \in 1..Len(issued) : issued'[s] = issued[s]
    BY <1>1, <1>2
  <1>7. Live' = Live \cup {a}
    BY <1>2, <1>5 DEF Live
  <1>8. a \notin timers /\ a \notin expired
    BY <1>1 DEF IndInv, OwnedOnce
  <1> HIDE DEF n
  <1>9. TypeOK'
    <2>1. cancelled' \subseteq 1..Len(issued')
      BY <1>2, <1>3, <1>6 DEF IndInv, TypeOK, n
    <2>2. timers' \subseteq Addr /\ active' \subseteq TimerIds
      BY <1>1, <1>2 DEF IndInv, TypeOK, TimerIds
    <2>3. Len(issued') <= MaxTimers
      BY <1>2, <1>6, TimerManagerAssumption
    <2> QED
      BY <1>3, <1>5, <1>6, <2>1, <2>2, <2>3 DEF IndInv, TypeOK, Timer
  <1>10. OwnedOnce'
    <2>1. \A b \in timers : Key(b)' = Key(b)
      BY <1>5, <1>8 DEF Key, IndInv, TypeOK
    <2>2. Key(a)' = <<a, n>>
      BY <1>5 DEF Key
    <2>3. active' = {Key(b)' : b \in timers'}
      BY <1>1, <2>1, <2>2 DEF IndInv, OwnedOnce
    <2> QED
      BY <1>1, <1>3, <1>7, <1>8, <2>3 DEF IndInv, OwnedOnce
  <1>11. CancelStops'
    <2>1. n \notin cancelled
      BY <1>2 DEF IndInv, TypeOK, n
    <2> QED
      BY <1>1, <1>3, <1>5, <1>8, <2>1 DEF IndInv, CancelStops, TypeOK
  <1>12. Issued'
    <2>1. ASSUME NEW b \in Live, b # a PROVE
            heap'[b].sequence <= Len(issued') /\ issued'[heap'[b].sequence] = b
      <3>1. heap'[b] = heap[b] /\ heap[b].sequence \in 1..Len(issued)
            /\ issued[heap[b].sequence] = b
        BY <1>2, <1>5, <2>1 DEF Live, Issued, IndInv, Timer
      <3> QED
        BY <1>2, <1>6, <3>1 DEF n
    <2>2. heap'[a].sequence <= Len(issued') /\ issued'[heap'[a].sequence] = a
      BY <1>2, <1>5, <1>6
    <2> QED
      BY <1>7, <2>1, <2>2 DEF Issued
  <1>13. BatchKept'
    <2>1. \A b \in expired : Key(b)' = Key(b) /\ heap'[b] = heap[b]
      BY <1>5, <1>8 DEF Key, IndInv, TypeOK
    <2> QED
      BY <1>3, <2>1 DEF IndInv, BatchKept
  <1> QED
    BY <1>1, <1>3, <1>9, <1>10, <1>11, <1>12, <1>13 DEF IndInv

\* Cancelling a timer.
LEMMA CancelStep ==
    ASSUME IndInv, NEW s \in 1..Len(issued), cancel(s)
    PROVE  /\ IndInv' /\ done' = done
           /\ \A a \in timers \ timers' : heap[a].sequence \in cancelled'
  <1>1. /\ cancelled' = cancelled \cup {s}
        /\ UNCHANGED <<clock, calling, phase, expired, done, issued, ranAt>>
    BY DEF cancel
  <1>2. /\ issued[s] \in Addr /\ s \in 1..MaxTimers
        /\ \A a \in Live : heap[a].sequence = s => a = issued[s]
    BY NumberFacts
  <1>3. heap \in [Addr -> Timer] /\ timers \subseteq Addr /\ expired \subseteq Addr
    BY DEF IndInv, TypeOK, Timer
  <1>4. CASE CancelActive(s)
    <2> DEFINE d == issued[s]
    <2>1. /\ <<d, s>> \in active /\ timers' = timers \ {d} /\ active' = active \ {<<d, s>>}
          /\ heap' = [heap EXCEPT ![d] = NoTimer] /\ canceling' = canceling
      BY <1>4 DEF CancelActive
    <2>2. d \in timers /\ heap[d].sequence = s /\ d \in Live /\ d \notin expired
      BY <2>1 DEF IndInv, OwnedOnce, Key
    <2>3. /\ heap' \in [Addr -> Timer] /\ heap'[d].sequence = 0
          /\ \A b \in Addr \ {d} : heap'[b] = heap[b]
      BY <1>2, <1>3, <2>1, NoTimerType DEF NoTimer
    <2>4. Live' = Live \ {d}
      BY <1>2, <2>3 DEF Live
    <2>5. \A b \in timers' \cup expired : Key(b)' = Key(b) /\ heap'[b] = heap[b]
      BY <1>3, <2>1, <2>2, <2>3 DEF Key
    <2>6. \A b \in timers \ {d} : heap[b].sequence # s
      BY <1>2 DEF IndInv, OwnedOnce
    <2> HIDE DEF d
    <2>7. TypeOK'
      BY <1>1, <2>1, <2>3 DEF IndInv, TypeOK, Timer
    <2>8. OwnedOnce'
      <3>1. \A b \in timers \ {d} : Key(b) # <<d, s>>
        BY DEF Key
      <3>2. Key(d) = <<d, s>>
        BY <2>2 DEF Key
      <3>3. active' = {Key(b) : b \in timers'}
        BY <2>1, <3>1, <3>2 DEF IndInv, OwnedOnce
      <3>4. active' = {Key(b)' : b \in timers'}
        BY <2>5, <3>3
      <3> QED
        BY <1>1, <2>1, <2>2, <2>4, <3>4 DEF IndInv, OwnedOnce
    <2>9. CancelStops'
      BY <1>1, <2>1, <2>5, <2>6 DEF IndInv, CancelStops
    <2>10. Issued'
      BY <1>1, <2>3, <2>4 DEF IndInv, Issued, Live
    <2>11. BatchKept'
      <3>1. \A b \in expired : heap[b].sequence # s
        BY <1>2, <2>2 DEF IndInv, OwnedOnce, d
      <3> QED
        BY <1>1, <2>1, <2>5, <3>1 DEF IndInv, BatchKept
    <2> QED
      BY <1>1, <2>1, <2>2, <2>7, <2>8, <2>9, <2>10, <2>11 DEF IndInv
  <1>5. CASE CancelInactive(s)
    <2>1. /\ <<issued[s], s>> \notin active
          /\ canceling' = IF calling THEN canceling \cup {<<issued[s], s>>} ELSE canceling
          /\ UNCHANGED <<heap, timers, active>>
      BY <1>5 DEF CancelInactive, setVars
    <2>2. Live' = Live /\ \A a \in Addr : Key(a)' = Key(a)
      BY <2>1 DEF Live, Key
    <2>3. TypeOK'
      <3>1. <<issued[s], s>> \in TimerIds
        BY <1>2 DEF TimerIds
      <3>2. canceling' \subseteq TimerIds /\ cancelled' \subseteq 1..Len(issued')
        BY <1>1, <2>1, <3>1 DEF IndInv, TypeOK
      <3> QED
        BY <1>1, <2>1, <3>2 DEF IndInv, TypeOK, TimerIds
    <2>4. OwnedOnce' /\ Issued'
      BY <1>1, <1>3, <2>1, <2>2 DEF IndInv, OwnedOnce, Issued, Key
    <2>5. CancelStops'
      <3>1. \A a \in timers : heap[a].sequence # s
        BY <1>2, <2>1 DEF IndInv, OwnedOnce, Key
      <3> QED
        BY <1>1, <2>1, <3>1 DEF IndInv, CancelStops
    <2>6. BatchKept'
      <3>1. ASSUME NEW a \in expired, heap[a].sequence = s PROVE Key(a) \in canceling'
        <4>1. calling /\ a = issued[s]
          BY <1>2, <3>1 DEF IndInv, TypeOK, BatchKept, OwnedOnce
        <4> QED
          BY <2>1, <3>1, <4>1 DEF Key
      <3> QED
        BY <1>1, <1>3, <2>1, <2>2, <3>1 DEF IndInv, BatchKept
    <2> QED
      BY <1>1, <2>1, <2>3, <2>4, <2>5, <2>6 DEF IndInv
  <1> QED
    BY <1>4, <1>5 DEF cancel

\* The batch is taken out of both sets.
LEMMA ExpireStep ==
    ASSUME IndInv, getExpiredTimers
    PROVE  /\ IndInv' /\ done' \ done = {}
           /\ \A a \in timers \ timers' : a \in expired' /\ heap[a].expiration <= clock
  <1>1. /\ phase = "idle" /\ expired = {}
        /\ expired' = {a \in timers : heap[a].expiration <= clock}
        /\ timers' = timers \ expired'
        /\ active' = active \ {Key(a) : a \in expired'}
        /\ calling' = TRUE /\ canceling' = {} /\ phase' = "running" /\ done' = {}
        /\ UNCHANGED <<clock, heap, issued, cancelled, ranAt>>
    BY DEF getExpiredTimers, IndInv, BatchKept
  <1>2. Live' = Live /\ \A a \in Addr : Key(a)' = Key(a)
    BY <1>1 DEF Live, Key
  <1>3. timers \subseteq Addr /\ expired' \subseteq timers
    BY <1>1 DEF IndInv, TypeOK
  <1>4. TypeOK'
    BY <1>1, <1>3 DEF IndInv, TypeOK, TimerIds
  <1>5. OwnedOnce'
    <2>1. active' = {Key(a) : a \in timers'}
      BY <1>1, <1>3 DEF IndInv, OwnedOnce, Key
    <2>2. active' = {Key(a)' : a \in timers'}
      BY <1>1, <1>2, <1>3, <2>1
    <2> QED
      BY <1>1, <1>2, <1>3, <2>2 DEF IndInv, OwnedOnce
  <1>6. CancelStops' /\ Issued'
    BY <1>1, <1>2 DEF IndInv, CancelStops, Issued
  <1>7. BatchKept'
    BY <1>1, <1>3 DEF IndInv, CancelStops, BatchKept
  <1> QED
    BY <1>1, <1>4, <1>5, <1>6, <1>7 DEF IndInv

\* A callback of the batch is called.
LEMMA RunStep ==
    ASSUME IndInv, NEW a \in expired \ done, run(a)
    PROVE  IndInv' /\ timers' = timers
  <1>1. /\ done' = done \cup {a}
        /\ ranAt' = [ranAt EXCEPT ![heap[a].sequence] = clock]
        /\ UNCHANGED <<clock, heap, timers, active, calling, canceling, phase, expired,
                       issued, cancelled>>
    BY DEF run, setVars
  <1>2. Live' = Live /\ \A b : Key(b)' = Key(b)
    BY <1>1 DEF Live, Key
  <1>3. ranAt' \in [1..MaxTimers -> 0..MaxTime]
    <2>1. clock \in 0..MaxTime /\ ranAt \in [1..MaxTimers -> 0..MaxTime]
      BY TimerManagerAssumption DEF IndInv, TypeOK
    <2> QED
      BY <1>1, <2>1
  <1>4. TypeOK'
    <2>1. done' \subseteq expired'
      BY <1>1 DEF IndInv, TypeOK
    <2> QED
      BY <1>1, <1>3, <2>1 DEF IndInv, TypeOK
  <1>5. OwnedOnce'
    BY <1>1, <1>2 DEF IndInv, OwnedOnce
  <1>6. CancelStops' /\ Issued' /\ BatchKept'
    BY <1>1, <1>2 DEF IndInv, CancelStops, Issued, BatchKept
  <1> QED
    BY <1>1, <1>4, <1>5, <1>6 DEF IndInv

\* The batch is given up: what repeats goes back, the rest is deleted.
LEMMA ResetStep ==
    ASSUME IndInv, resetTimers
    PROVE  IndInv' /\ timers \subseteq timers' /\ done' \ done = {}
  <1> DEFINE again == {a \in expired : Repeats(a)}
  <1>1. /\ phase = "running"
        /\ heap' = [a \in Addr |->
              IF a \in again THEN [heap[a] EXCEPT !.expiration = restart(a)]
              ELSE IF a \in expired THEN NoTimer ELSE heap[a]]
        /\ timers' = timers \cup again
        /\ active' = active \cup {Key(a) : a \in again}
        /\ calling' = FALSE /\ canceling' = {}
        /\ phase' = "idle" /\ expired' = {} /\ done' = {}
        /\ UNCHANGED <<clock, issued, cancelled, ranAt>>
    BY DEF resetTimers
  <1>2. /\ again \subseteq expired /\ expired \subseteq Addr /\ timers \subseteq Addr
        /\ timers \cap expired = {} /\ timers \cup expired = Live
        /\ heap \in [Addr -> Timer]
    BY DEF IndInv, TypeOK, OwnedOnce, Timer
  <1>3. \A a \in again : heap[a].sequence \notin cancelled
    BY DEF IndInv, BatchKept, Repeats
  <1> HIDE DEF again
  <1>4. ASSUME NEW a \in again
        PROVE  heap'[a] \in Timer /\ heap'[a].sequence = heap[a].sequence
    <2>1. restart(a) \in Nat
      BY <1>2 DEF restart, IndInv, TypeOK, Timer
    <2>2. heap'[a] = [heap[a] EXCEPT !.expiration = restart(a)]
      BY <1>1, <1>2
    <2>3. heap[a] \in Timer
      BY <1>2
    <2> QED
      BY <2>1, <2>2, <2>3 DEF Timer
  <1>5. \A a \in expired \ again : heap'[a] = NoTimer
    BY <1>1, <1>2
  <1>6. \A a \in Addr \ expired : heap'[a] = heap[a]
    BY <1>1, <1>2
  <1>7. heap' \in [Addr -> Timer]
    <2>1. \A a \in Addr : heap'[a] \in Timer
      BY <1>2, <1>4, <1>5, <1>6, NoTimerType
    <2> QED
      BY <1>1, <2>1
  <1>8. /\ Live' = timers'
        /\ \A a \in timers' : heap'[a].sequence = heap[a].sequence /\ a \in Live
    <2>1. \A a \in timers' : heap'[a].sequence = heap[a].sequence /\ a \in Live
      BY <1>1, <1>2, <1>4, <1>6
    <2>2. \A a \in Addr \ timers' : heap'[a].sequence = 0
      BY <1>1, <1>2, <1>5, <1>6 DEF Live, NoTimer
    <2> QED
      BY <1>1, <1>2, <2>1, <2>2 DEF Live
  <1>9. TypeOK'
    <2>1. timers' \subseteq Addr
      BY <1>1, <1>2
    <2>2. \A a \in again : Key(a) \in TimerIds
      BY <1>2 DEF Key, TimerIds, Live, Timer
    <2>3. active' \subseteq TimerIds
      BY <1>1, <2>2 DEF IndInv, TypeOK
    <2> QED
      BY <1>1, <1>7, <2>1, <2>3 DEF IndInv, TypeOK, Timer
  <1>10. OwnedOnce'
    <2>1. \A a \in timers' : Key(a)' = Key(a)
      BY <1>8 DEF Key
    <2>2. active' = {Key(a) : a \in timers'}
      BY <1>1 DEF IndInv, OwnedOnce
    <2>3. active' = {Key(a)' : a \in timers'}
      BY <2>1, <2>2
    <2> QED
      BY <1>1, <1>8, <2>3 DEF OwnedOnce
  <1>11. CancelStops'
    BY <1>1, <1>3, <1>8 DEF IndInv, CancelStops
  <1>12. Issued'
    BY <1>1, <1>8 DEF IndInv, Issued
  <1>13. BatchKept'
    BY <1>1 DEF BatchKept
  <1> QED
    BY <1>1, <1>9, <1>10, <1>11, <1>12, <1>13 DEF IndInv

LEMMA TickStep ==
    ASSUME IndInv, Tick
    PROVE  IndInv' /\ timers' = timers /\ done' = done
  <1>1. /\ clock' \in 1..MaxTime
        /\ UNCHANGED <<heap, timers, active, calling, canceling, phase, expired, done,
                       issued, cancelled, ranAt>>
    BY TimerManagerAssumption DEF Tick, setVars, batchVars, IndInv, TypeOK
  <1>2. Live' = Live /\ \A a : Key(a)' = Key(a)
    BY <1>1 DEF Live, Key
  <1>3. TypeOK'
    BY <1>1 DEF IndInv, TypeOK
  <1>4. OwnedOnce' /\ CancelStops' /\ Issued' /\ BatchKept'
    BY <1>1, <1>2 DEF IndInv, OwnedOnce, CancelStops, Issued, BatchKept
  <1> QED
    BY <1>1, <1>3, <1>4 DEF IndInv

\* The two sets, the heap, the batch and cancelingTimers_ stay in step.
THEOREM Inductive == Spec => []IndInv
  <1>1. Init => IndInv
    <2> SUFFICES ASSUME Init PROVE IndInv
      OBVIOUS
    <2>1. heap \in [Addr -> Timer] /\ \A a \in Addr : heap[a].sequence = 0
      BY NoTimerType DEF Init, NoTimer
    <2>2. Live = {}
      BY <2>1 DEF Live
    <2>3. issued \in Seq(Addr) /\ Len(issued) = 0
      BY DEF Init
    <2>4. clock \in 1..MaxTime /\ ranAt \in [1..MaxTimers -> 0..MaxTime]
      BY TimerManagerAssumption DEF Init
    <2>5. calling \in BOOLEAN
      BY DEF Init
    <2>6. TypeOK
      BY <2>1, <2>3, <2>4, <2>5, TimerManagerAssumption DEF Init, TypeOK, Timer
    <2>7. OwnedOnce /\ CancelStops /\ Issued /\ BatchKept
      BY <2>2 DEF Init, OwnedOnce, CancelStops, Issued, BatchKept
    <2> QED
      BY <2>6, <2>7 DEF IndInv
  <1>2. IndInv /\ [Next]_vars => IndInv'
    <2> SUFFICES ASSUME IndInv, [Next]_vars PROVE IndInv'
      OBVIOUS
    <2>1. CASE Tick
      BY <2>1, TickStep
    <2>2. CASE Process
      BY <2>2, ExpireStep, RunStep, ResetStep DEF Process
    <2>3. ASSUME NEW when \in 0..MaxTime, runAt(when) PROVE IndInv'
      <3>1. when \in Nat /\ 0 \in 0..MaxInterval
        BY TimerManagerAssumption
      <3> QED
        BY <2>3, <3>1, AddStep DEF runAt
    <2>4. ASSUME NEW interval \in 0..MaxInterval, runEvery(interval) PROVE IndInv'
      <3>1. clock + interval \in Nat
        BY DEF IndInv, TypeOK
      <3> QED
        BY <2>4, <3>1, AddStep DEF runEvery
    <2>5. ASSUME NEW s \in 1..Len(issued), cancel(s) PROVE IndInv'
      BY <2>5, CancelStep
    <2>6. CASE UNCHANGED vars
      <3>1. UNCHANGED <<clock, heap, timers, active, calling, canceling, phase, expired, done,
                        issued, cancelled, ranAt>>
        BY <2>6 DEF vars, setVars, batchVars
      <3>2. Live' = Live /\ \A a : Key(a)' = Key(a)
        BY <3>1 DEF Live, Key
      <3>3. TypeOK'
        BY <3>1 DEF IndInv, TypeOK
      <3>4. OwnedOnce' /\ CancelStops' /\ Issued' /\ BatchKept'
        BY <3>1, <3>2 DEF IndInv, OwnedOnce, CancelStops, Issued, BatchKept
      <3> QED
        BY <3>3, <3>4 DEF IndInv
    <2> QED
      BY <2>1, <2>2, <2>3, <2>4, <2>5, <2>6 DEF Next
  <1> QED
    BY <1>1, <1>2, PTL DEF Spec

\* Every variable of the timer manager keeps its type.
THEOREM TypeCorrect == Spec => []TypeOK
  <1>1. IndInv => TypeOK
    BY DEF IndInv
  <1> QED
    BY <1>1, Inductive, PTL

\* timers_ and activeTimers_ agree, and every Timer that was allocated is
\* either in them or in the batch, so none is used after it was deleted and
\* none leaks.
THEOREM OwnershipExact == Spec => []OwnedOnce
  <1>1. IndInv => OwnedOnce
    BY DEF IndInv
  <1> QED
    BY <1>1, Inductive, PTL

\* cancel() works from anywhere, the callback of the timer itself included:
\* the timer does not wait again.
THEOREM CancelIsFinal == Spec => []CancelStops
  <1>1. IndInv => CancelStops
    BY DEF IndInv
  <1> QED
    BY <1>1, Inductive, PTL

\* However addresses are reused, a TimerId cancels its own timer or none.
THEOREM StaleIdHarmless == Spec => NeverCancelsAnother
  <1> DEFINE Own == \A a \in timers \ timers' :
                       \/ heap[a].sequence \in cancelled'
                       \/ a \in expired' /\ heap[a].expiration <= clock
  <1>1. IndInv /\ [Next]_vars => [Own]_vars
    <2> SUFFICES ASSUME IndInv, Next PROVE Own
      OBVIOUS
    <2>1. CASE Tick
      BY <2>1, TickStep
    <2>2. CASE Process
      BY <2>2, ExpireStep, RunStep, ResetStep DEF Process
    <2>3. ASSUME NEW when \in 0..MaxTime, runAt(when) PROVE Own
      BY <2>3 DEF runAt, addTimer
    <2>4. ASSUME NEW interval \in 0..MaxInterval, runEvery(interval) PROVE Own
      BY <2>4 DEF runEvery, addTimer
    <2>5. ASSUME NEW s \in 1..Len(issued), cancel(s) PROVE Own
      BY <2>5, CancelStep
    <2> QED
      BY <2>1, <2>2, <2>3, <2>4, <2>5 DEF Next
  <1> QED
    BY <1>1, Inductive, PTL DEF Spec, NeverCancelsAnother

-----------------------------------------------------------------------------
\* Why the runs of a repeating timer are apart: a timer that waits, or is
\* still to run in this batch, expires an interval after its last run.
Apart ==
    /\ \A s \in 1..MaxTimers : s > Len(issued) => ranAt[s] = 0
    /\ \A s \in 1..MaxTimers : ranAt[s] <= clock
    /\ \A a \in expired : heap[a].expiration <= clock
    /\ \A a \in Live \ done : ranAt[heap[a].sequence] > 0
          => ranAt[heap[a].sequence] + heap[a].interval <= heap[a].expiration

LEMMA ApartStep ==
    ASSUME IndInv, Apart, IndInv', [Next]_vars
    PROVE  Apart'
  <1> USE DEF Apart
  <1>1. /\ heap \in [Addr -> Timer] /\ clock \in Nat /\ Len(issued) \in Nat
        /\ MaxTimers \in Nat /\ ranAt \in [1..MaxTimers -> Nat] /\ done \subseteq expired
        /\ expired \subseteq Live /\ Live \subseteq Addr
        /\ \A a \in Live : heap[a].sequence \in 1..Len(issued) /\ heap[a].sequence \in 1..MaxTimers
    <2>1. MaxTime \in Nat /\ MaxTimers \in Nat
      BY TimerManagerAssumption
    <2>2. ranAt \in [1..MaxTimers -> Nat]
      BY <2>1 DEF IndInv, TypeOK
    <2>3. heap \in [Addr -> Timer] /\ issued \in Seq(Addr) /\ clock \in Nat
      BY <2>1 DEF IndInv, TypeOK, Timer
    <2>4. \A a \in Live : heap[a].sequence \in 1..Len(issued) /\ heap[a].sequence \in 1..MaxTimers
      BY <2>1, <2>3 DEF IndInv, Issued, Live, Timer
    <2> QED
      BY <2>1, <2>2, <2>3, <2>4 DEF IndInv, TypeOK, OwnedOnce, Live
  <1>2. CASE Tick
    <2>1. clock' = clock + 1 /\ UNCHANGED <<heap, expired, done, issued, ranAt>>
      BY <1>2 DEF Tick, setVars, batchVars
    <2>2. Live' = Live
      BY <2>1 DEF Live
    <2>3. \A a \in expired : heap[a].expiration \in Nat
      BY <1>1 DEF Timer
    <2> QED
      BY <1>1, <2>1, <2>2, <2>3
  <1>3. CASE getExpiredTimers
    <2>1. /\ expired' = {a \in timers : heap[a].expiration <= clock}
          /\ expired = {} /\ done = {} /\ UNCHANGED <<clock, heap, issued, ranAt>>
      BY <1>3 DEF getExpiredTimers, IndInv, TypeOK, BatchKept
    <2>2. Live' = Live
      BY <2>1 DEF Live
    <2> QED
      BY <2>1, <2>2
  <1>4. ASSUME NEW a \in expired \ done, run(a) PROVE Apart'
    <2>1. /\ done' = done \cup {a} /\ UNCHANGED <<clock, heap, expired, issued>>
          /\ ranAt' = [ranAt EXCEPT ![heap[a].sequence] = clock]
      BY <1>4 DEF run, setVars
    <2>2. Live' = Live
      BY <2>1 DEF Live
    <2>3. heap[a].sequence \in 1..Len(issued) /\ heap[a].sequence \in 1..MaxTimers
      BY <1>1
    <2>4. \A s \in 1..MaxTimers : ranAt'[s] = IF s = heap[a].sequence THEN clock ELSE ranAt[s]
      BY <1>1, <2>1
    <2>5. \A b \in Live \ {a} : heap[b].sequence # heap[a].sequence
      BY <1>1 DEF IndInv, Issued
    <2>6. \A s \in 1..MaxTimers : s > Len(issued) => ranAt'[s] = 0
      BY <1>1, <2>3, <2>4
    <2>7. \A s \in 1..MaxTimers : ranAt'[s] <= clock
      BY <1>1, <2>4
    <2>8. \A b \in Live \ done' : ranAt'[heap[b].sequence] = ranAt[heap[b].sequence]
      BY <1>1, <2>1, <2>4, <2>5
    <2> QED
      BY <2>1, <2>2, <2>6, <2>7, <2>8
  <1>5. CASE resetTimers
    <2> DEFINE again == {a \in expired : Repeats(a)}
    <2>1. /\ heap' = [a \in Addr |->
                IF a \in again THEN [heap[a] EXCEPT !.expiration = restart(a)]
                ELSE IF a \in expired THEN NoTimer ELSE heap[a]]
          /\ expired' = {} /\ done' = {} /\ done = expired
          /\ UNCHANGED <<clock, issued, ranAt>>
      BY <1>5 DEF resetTimers
    <2>2. again \subseteq expired
      OBVIOUS
    <2> HIDE DEF again
    <2>3. ASSUME NEW a \in Live', ranAt[heap'[a].sequence] > 0
          PROVE  ranAt[heap'[a].sequence] + heap'[a].interval <= heap'[a].expiration
      <3>1. a \in Addr /\ heap'[a].sequence # 0
        BY <2>3 DEF Live
      <3>2. CASE a \in again
        <4>1. heap'[a] = [heap[a] EXCEPT !.expiration = clock + heap[a].interval]
          BY <2>1, <3>1, <3>2 DEF restart
        <4>2. heap[a] \in Timer /\ heap[a].sequence \in 1..MaxTimers
          BY <1>1, <2>2, <3>2
        <4>3. /\ heap'[a].sequence = heap[a].sequence /\ heap'[a].interval = heap[a].interval
              /\ heap'[a].expiration = clock + heap[a].interval
          BY <4>1, <4>2 DEF Timer
        <4>4. ranAt[heap[a].sequence] <= clock /\ ranAt[heap[a].sequence] \in Nat
              /\ heap[a].interval \in Nat
          BY <1>1, <4>2 DEF Timer
        <4> QED
          BY <1>1, <4>3, <4>4
      <3>3. CASE a \in expired \ again
        BY <2>1, <3>1, <3>3 DEF NoTimer
      <3>4. CASE a \notin expired
        <4>1. heap'[a] = heap[a]
          BY <2>1, <2>2, <3>1, <3>4
        <4>2. a \in Live \ done
          BY <2>1, <3>1, <3>4, <4>1 DEF Live
        <4> QED
          BY <2>3, <4>1, <4>2
      <3> QED
        BY <3>2, <3>3, <3>4
    <2> QED
      BY <2>1, <2>3
  <1>6. ASSUME NEW when \in Nat, NEW interval \in 0..MaxInterval, addTimer(when, interval)
        PROVE  Apart'
    <2> DEFINE n == Len(issued) + 1
    <2>1. PICK a \in Addr \ Live :
            /\ heap' = [heap EXCEPT ![a] = [expiration |-> when, interval |-> interval,
                                            sequence |-> n]]
            /\ issued' = Append(issued, a)
      BY <1>6 DEF addTimer
    <2>2. UNCHANGED <<clock, expired, done, ranAt>> /\ n \in 1..MaxTimers
      BY <1>1, <1>6 DEF addTimer, batchVars
    <2>3. heap'[a].sequence = n /\ \A b \in Addr \ {a} : heap'[b] = heap[b]
      BY <1>1, <2>1
    <2>4. Len(issued') = n
      BY <2>1 DEF IndInv, TypeOK
    <2>5. ranAt[n] = 0
      BY <1>1, <2>2
    <2>6. \A b \in Live' : b = a \/ b \in Live
      BY <2>3 DEF Live
    <2> HIDE DEF n
    <2>7. \A s \in 1..MaxTimers : s > Len(issued') => ranAt'[s] = 0
      BY <1>1, <2>2, <2>4 DEF n
    <2>8. \A b \in Live' \ done' : ranAt'[heap'[b].sequence] > 0
             => ranAt'[heap'[b].sequence] + heap'[b].interval <= heap'[b].expiration
      BY <1>1, <2>2, <2>3, <2>5, <2>6
    <2>9. \A b \in expired : heap'[b] = heap[b]
      BY <1>1, <2>1, <2>3
    <2> QED
      BY <2>2, <2>7, <2>8, <2>9
  <1>7. ASSUME NEW s \in 1..Len(issued), cancel(s) PROVE Apart'
    <2>1. UNCHANGED <<clock, expired, done, issued, ranAt>>
      BY <1>7 DEF cancel
    <2>2. \A b \in Live' : b \in Live /\ heap'[b] = heap[b]
      <3>1. issued[s] \in Addr
        BY NumberFacts
      <3>2. CASE CancelActive(s)
        BY <1>1, <3>1, <3>2 DEF CancelActive, Live, NoTimer
      <3>3. CASE CancelInactive(s)
        BY <3>3 DEF CancelInactive, setVars, Live
      <3> QED
        BY <1>7, <3>2, <3>3 DEF cancel
    <2>3. expired \subseteq Live'
      BY <2>1 DEF IndInv, OwnedOnce
    <2> QED
      BY <2>1, <2>2, <2>3
  <1>8. CASE UNCHANGED vars
    <2>1. UNCHANGED <<clock, heap, expired, done, issued, ranAt>>
      BY <1>8 DEF vars, setVars, batchVars
    <2>2. Live' = Live
      BY <2>1 DEF Live
    <2> QED
      BY <2>1, <2>2
  <1>9. \A when \in 0..MaxTime : runAt(when) => Apart'
    <2>1. 0 \in 0..MaxInterval /\ \A when \in 0..MaxTime : when \in Nat
      BY TimerManagerAssumption
    <2> QED
      BY <1>6, <2>1 DEF runAt
  <1>10. \A interval \in 0..MaxInterval : runEvery(interval) => Apart'
    <2>1. \A interval \in 0..MaxInterval : clock + interval \in Nat
      BY <1>1
    <2> QED
      BY <1>6, <2>1 DEF runEvery
  <1> QED
    BY <1>2, <1>3, <1>4, <1>5, <1>7, <1>8, <1>9, <1>10 DEF Next, Process

\* However late the loop is and however long callbacks take, two runs of a
\* repeating timer are at least its interval apart.
THEOREM NoBurst == Spec => Spaced
  <1> DEFINE Later == \A a \in done' \ done :
                         ranAt[heap[a].sequence] > 0
                            => ranAt[heap[a].sequence] + heap[a].interval <= clock
  <1>1. Init => Apart
    <2> SUFFICES ASSUME Init PROVE Apart
      OBVIOUS
    <2>1. Live = {} /\ expired = {} /\ \A s \in 1..MaxTimers : ranAt[s] = 0
      BY DEF Init, Live, NoTimer
    <2> QED
      BY <2>1 DEF Init, Apart
  <1>2. IndInv /\ Apart /\ IndInv' /\ [Next]_vars => Apart'
    BY ApartStep
  <1>3. IndInv /\ Apart /\ [Next]_vars => [Later]_vars
    <2> SUFFICES ASSUME IndInv, Apart, Next PROVE Later
      OBVIOUS
    <2>1. ASSUME NEW a \in expired \ done, run(a) PROVE Later
      <3>1. done' = done \cup {a}
        BY <2>1 DEF run
      <3>2. a \in Live \ done /\ heap[a].expiration <= clock
        BY DEF IndInv, OwnedOnce, Apart
      <3>3. /\ ranAt[heap[a].sequence] \in Nat /\ heap[a].interval \in Nat
            /\ heap[a].expiration \in Nat /\ clock \in Nat
        <4>1. heap[a] \in Timer /\ heap[a].sequence # 0
          BY <3>2 DEF IndInv, TypeOK, Timer, Live
        <4>2. heap[a].sequence \in 1..MaxTimers /\ MaxTime \in Nat
          BY <4>1, TimerManagerAssumption DEF Timer
        <4>3. ranAt[heap[a].sequence] \in 0..MaxTime /\ clock \in 1..MaxTime
          BY <4>2 DEF IndInv, TypeOK
        <4> QED
          BY <4>1, <4>2, <4>3 DEF Timer
      <3>4. ranAt[heap[a].sequence] > 0
               => ranAt[heap[a].sequence] + heap[a].interval <= heap[a].expiration
        BY <3>2 DEF Apart
      <3> QED
        BY <3>1, <3>2, <3>3, <3>4
    <2>2. CASE Tick \/ getExpiredTimers \/ resetTimers
      BY <2>2, TickStep, ExpireStep, ResetStep
    <2>3. ASSUME NEW when, NEW interval, addTimer(when, interval) PROVE Later
      BY <2>3 DEF addTimer, batchVars
    <2>4. ASSUME NEW s \in 1..Len(issued), cancel(s) PROVE Later
      BY <2>4 DEF cancel
    <2> QED
      BY <2>1, <2>2, <2>3, <2>4 DEF Next, Process, runAt, runEvery
  <1> QED
    BY <1>1, <1>2, <1>3, Inductive, PTL DEF Spec, Spaced
===============================================================================
