---------------------------- MODULE MessageQueue ----------------------------
(***************************************************************************)
(* core/message/message_queue.h: the queue between the threads that        *)
(* receive messages and the threads that handle them.  An operation holds  *)
(* mutex_ from its start to its end or to its wait; a popper that was      *)
(* notified has left the condition variable and competes for mutex_.       *)
(***************************************************************************)
EXTENDS Naturals, Sequences, FiniteSets

CONSTANTS Popper,
          MaxPushed    \* bound on the messages in the queue

VARIABLES queue_,      \* MessageQueue::queue_, its length
          stopped_,
          waiting,     \* poppers in notEmpty_.wait() or waitFor()
          woken        \* poppers notified that do not hold mutex_ yet

vars == <<queue_, stopped_, waiting, woken>>

Init == queue_ = 0 /\ stopped_ = FALSE /\ waiting = {} /\ woken = {}

\* pthread_cond_signal(): one of those who wait, if any.
notify ==
  \/ waiting = {} /\ UNCHANGED <<waiting, woken>>
  \/ \E p \in waiting : waiting' = waiting \ {p} /\ woken' = woken \union {p}

\* Mutation of push: only the first message wakes someone.
pushNotifyFirst ==
  /\ queue_ < MaxPushed
  /\ queue_' = queue_ + 1
  /\ IF queue_ = 0 THEN notify ELSE UNCHANGED <<waiting, woken>>
  /\ UNCHANGED stopped_

push ==
  /\ queue_ < MaxPushed
  /\ queue_' = queue_ + 1
  /\ notify
  /\ UNCHANGED stopped_

\* The loop of pop(), entered or gone round again: it waits while the queue is
\* empty, then takes a message, or nothing once the queue is stopped.
pop(p) ==
  /\ p \notin waiting
  /\ woken' = woken \ {p}
  /\ \/ /\ queue_ = 0 /\ ~stopped_
        /\ waiting' = waiting \union {p}
        /\ UNCHANGED queue_
     \/ /\ stopped_
        /\ UNCHANGED <<queue_, waiting>>
     \/ /\ queue_ > 0 /\ ~stopped_
        /\ queue_' = queue_ - 1
        /\ UNCHANGED waiting
  /\ UNCHANGED stopped_

\* waitFor() ran out of time, or wait() returned without a signal: a timed pop
\* returns nothing, the other one goes round.
Timeout(p) ==
  /\ p \in waiting
  /\ waiting' = waiting \ {p}
  /\ woken' \in {woken, woken \union {p}}
  /\ UNCHANGED <<queue_, stopped_>>

popAll ==
  /\ queue_' = 0
  /\ UNCHANGED <<stopped_, waiting, woken>>

stop ==
  /\ stopped_' = TRUE
  /\ waiting' = {} /\ woken' = woken \union waiting
  /\ UNCHANGED queue_

reset ==
  /\ stopped_' = FALSE
  /\ queue_' = 0
  /\ UNCHANGED <<waiting, woken>>

Next ==
  \/ push \/ popAll \/ stop \/ reset
  \/ \E p \in Popper : pop(p) \/ Timeout(p)

Spec == Init /\ [][Next]_vars

-----------------------------------------------------------------------------
(* Properties. *)

\* Nobody sleeps on work: while a popper waits, the queue is not stopped and
\* every message in it has a popper that was woken for it, however pops that
\* come in between take messages away, waits run out and reset() follows stop().
WakeupsSuffice ==
  waiting # {} => ~stopped_ /\ queue_ <= Cardinality(woken)
=============================================================================
