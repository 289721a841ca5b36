----------------------------- MODULE TimerWheel -----------------------------
(***************************************************************************)
(* common/timer/timer_wheel: a wheel of slots, each a list of timers with  *)
(* the number of rounds they still have to wait.  Every operation holds    *)
(* mutex_ from its start to its end; tick() also while the callbacks run,  *)
(* so that a callback which calls addTimer() or cancel() waits for its own *)
(* thread for ever.                                                        *)
(***************************************************************************)
EXTENDS Naturals

CONSTANTS WheelSize,   \* wheelSize_: 60 by default
          TickMs,      \* tickMs_: 100 by default
          Timeouts,    \* the timeouts, in ms
          MaxTimer,    \* bound on the timers added
          MaxTicks     \* bound on the calls of tick()

VARIABLES currentSlot_,  \* the slot the next tick() looks at
          wheel_,        \* timer -> [slot, rounds], or NoEntry
          timerMap_,     \* the ids in timerMap_
          nextTimerId_,
          stuck,         \* mutex_ is held by a thread that waits for itself
          ticks,         \* history: calls of tick() so far
          added,         \* history: timer -> its timeout and the ticks before it
          ran            \* history: timer -> the ticks before the one that ran it

vars == <<currentSlot_, wheel_, timerMap_, nextTimerId_, stuck, ticks, added, ran>>

Timer == 1..MaxTimer
NoEntry == [slot |-> WheelSize, rounds |-> 0]
Pending == { i \in Timer : wheel_[i] # NoEntry }
Never == MaxTicks + 1

Init ==
  /\ currentSlot_ = 0 /\ wheel_ = [i \in Timer |-> NoEntry] /\ timerMap_ = {}
  /\ nextTimerId_ = 1 /\ stuck = FALSE
  /\ ticks = 0 /\ added = [i \in Timer |-> [timeout |-> 0, at |-> 0]]
  /\ ran = [i \in Timer |-> Never]

\* The ticks a timeout takes: what is left of a tick is cut off, but it is at
\* least one.
TicksOf(ms) == IF ms < TickMs THEN 1 ELSE ms \div TickMs

\* Mutation of Entry: a whole turn of the wheel is not counted as a round.
EntryLessOne(n) ==
  [slot |-> (currentSlot_ + n) % WheelSize, rounds |-> (n - 1) \div WheelSize]

\* Where a timer goes that is to wait for n ticks.
Entry(n) ==
  [slot |-> (currentSlot_ + n) % WheelSize, rounds |-> n \div WheelSize]

addTimer(ms) ==
  LET i == nextTimerId_ IN
  /\ ~stuck /\ i \in Timer
  /\ wheel_' = [wheel_ EXCEPT ![i] = Entry(TicksOf(ms))]
  /\ timerMap_' = timerMap_ \union {i}
  /\ nextTimerId_' = i + 1
  /\ added' = [added EXCEPT ![i] = [timeout |-> ms, at |-> ticks]]
  /\ UNCHANGED <<currentSlot_, stuck, ticks, ran>>

cancel(i) ==
  /\ ~stuck /\ i \in timerMap_
  /\ wheel_' = [wheel_ EXCEPT ![i] = NoEntry]
  /\ timerMap_' = timerMap_ \ {i}
  /\ UNCHANGED <<currentSlot_, nextTimerId_, stuck, ticks, added, ran>>

Here == { i \in Pending : wheel_[i].slot = currentSlot_ }
Due == { i \in Here : wheel_[i].rounds = 0 }

\* The timers of the slot either lose a round or are taken out and run.
tick ==
  /\ ~stuck /\ ticks < MaxTicks
  /\ wheel_' = [i \in Timer |->
       IF i \in Due THEN NoEntry
       ELSE IF i \in Here THEN [wheel_[i] EXCEPT !.rounds = @ - 1] ELSE wheel_[i]]
  /\ timerMap_' = timerMap_ \ Due
  /\ ran' = [i \in Timer |-> IF i \in Due THEN ticks ELSE ran[i]]
  /\ ticks' = ticks + 1
  /\ currentSlot_' = (currentSlot_ + 1) % WheelSize
  /\ UNCHANGED <<nextTimerId_, stuck, added>>

\* A callback calls addTimer() or cancel(): tick() has taken out the timers up
\* to this one, and does not end.
tickBlocks ==
  /\ ~stuck /\ ticks < MaxTicks
  /\ \E i \in Due :
       LET done == { j \in Due : j <= i } IN
       /\ wheel_' = [j \in Timer |->
            IF j \in done THEN NoEntry
            ELSE IF j \in Here /\ j < i THEN [wheel_[j] EXCEPT !.rounds = @ - 1] ELSE wheel_[j]]
       /\ timerMap_' = timerMap_ \ done
       /\ ran' = [j \in Timer |-> IF j \in done THEN ticks ELSE ran[j]]
  /\ stuck' = TRUE
  /\ UNCHANGED <<currentSlot_, nextTimerId_, ticks, added>>

Next ==
  \/ \E ms \in Timeouts : addTimer(ms)
  \/ \E i \in Timer : cancel(i)
  \/ tick \/ tickBlocks

Spec == Init /\ [][Next]_vars

-----------------------------------------------------------------------------
(* Properties. *)

\* A timer runs in the tick that comes after as many full ticks as its timeout
\* has: neither a round too early nor too late, also when the timeout is a whole
\* number of turns of the wheel or the timer goes into the current slot.  One
\* that has not run has not been forgotten: it is cancelled, or its tick is
\* still to come.
RunsOnTime ==
  \A i \in 1 .. nextTimerId_ - 1 :
    LET due == added[i].at + TicksOf(added[i].timeout) IN
    /\ ran[i] # Never => ran[i] = due
    /\ i \in timerMap_ => due >= ticks
=============================================================================
