---------------------------- MODULE EventLoopProofs ----------------------------
(***************************************************************************)
(* Proofs about the event loop, for every set of functors.                 *)
(***************************************************************************)
EXTENDS EventLoop, TLAPS, SequenceTheorems

\* Membership of a queue in terms of its positions.
LEMMA ToSetAppend ==
    ASSUME NEW S, NEW q \in Seq(S), NEW x \in S
    PROVE  ToSet(Append(q, x)) = ToSet(q) \cup {x}
<1> DEFINE a == Append(q, x)
<1>1. /\ Len(q) \in Nat /\ DOMAIN q = 1..Len(q) /\ DOMAIN a = 1..(Len(q) + 1)
      /\ \A i \in 1..Len(q) : a[i] = q[i]
      /\ a[Len(q) + 1] = x
  OBVIOUS
<1> HIDE DEF a
<1>2. \A y : y \in ToSet(a) <=> y \in ToSet(q) \/ y = x
  <2>1. ASSUME NEW i \in DOMAIN a
        PROVE  a[i] \in ToSet(q) \/ a[i] = x
    <3>1. i \in 1..Len(q) \/ i = Len(q) + 1
      BY <1>1
    <3> QED
      BY <1>1, <3>1 DEF ToSet
  <2>2. ASSUME NEW i \in DOMAIN q
        PROVE  q[i] \in ToSet(a)
    <3>1. i \in DOMAIN a /\ a[i] = q[i]
      BY <1>1
    <3> QED
      BY <3>1 DEF ToSet
  <2>3. x \in ToSet(a)
    <3>1. Len(q) + 1 \in DOMAIN a
      BY <1>1
    <3> QED
      BY <1>1, <3>1 DEF ToSet
  <2> QED
    BY <2>1, <2>2, <2>3 DEF ToSet
<1> QED
  BY <1>2 DEF a

\* Every step keeps the types.
LEMMA TypeStep ==
    ASSUME TypeOK, [Next]_vars
    PROVE  TypeOK'
<1> USE DEF TypeOK, Pc
<1>1. CASE LoopStart
  BY <1>1 DEF LoopStart, loopVars, queueVars
<1>2. CASE LoopCheck \/ EnterPoll \/ EndTimers
  BY <1>2 DEF LoopCheck, EnterPoll, EndTimers, loopVars, queueVars, quitVars
<1>3. CASE PollReturn \/ HandleRead
  <2>1. CASE PollReturn
    BY <2>1 DEF PollReturn, queueVars, quitVars
  <2>2. CASE HandleRead
    BY <2>2 DEF HandleRead, queueVars, quitVars
  <2> QED
    BY <1>3, <2>1, <2>2
<1>4. CASE EndEvents \/ EndFunctors
  <2>1. CASE EndEvents
    BY <2>1 DEF EndEvents, queueVars, quitVars
  <2>2. CASE EndFunctors
    BY <2>2 DEF EndFunctors, queueVars, quitVars
  <2> QED
    BY <1>4, <2>1, <2>2
<1>5. CASE Swap
  BY <1>5 DEF Swap, quitVars
<1>6. CASE RunFunctor
  <2>1. /\ Tail(batch) \in Seq(Functor) /\ Head(batch) \in Functor
        /\ Append(ran, Head(batch)) \in Seq(Functor)
    BY <1>6 DEF RunFunctor
  <2> QED
    BY <1>6, <2>1 DEF RunFunctor, queueVars, quitVars
<1>7. ASSUME NEW f \in Functor, PushBack(f)
      PROVE  pending' \in Seq(Functor) /\ posted' \in Seq(Functor)
  BY <1>7 DEF PushBack
<1>8. ASSUME NEW f \in Functor, PostInLoop(f)
      PROVE  TypeOK'
  BY <1>7, <1>8 DEF PostInLoop, loopVars, quitVars
<1>9. ASSUME NEW f \in Functor, RemotePush(f)
      PROVE  TypeOK'
  BY <1>7, <1>9 DEF RemotePush, loopVars, quitVars
<1>10. ASSUME NEW f \in Functor, RemoteWake(f)
       PROVE  TypeOK'
  BY <1>10 DEF RemoteWake, loopVars, quitVars
<1>11. CASE RemoteQuit \/ RemoteQuitWake
  <2>1. CASE RemoteQuit
    BY <2>1 DEF RemoteQuit, loopVars, queueVars
  <2>2. CASE RemoteQuitWake
    BY <2>2 DEF RemoteQuitWake, loopVars, queueVars
  <2> QED
    BY <1>11, <2>1, <2>2
<1>12. CASE LocalQuit
  BY <1>12 DEF LocalQuit, loopVars, queueVars
<1>13. CASE UNCHANGED vars
  BY <1>13 DEF vars
<1> QED
  BY <1>1, <1>2, <1>3, <1>4, <1>5, <1>6, <1>8, <1>9, <1>10, <1>11, <1>12, <1>13
  DEF Next, LoopStep

-----------------------------------------------------------------------------
\* callingPendingFunctors_ is set from before the swap to the end of the batch.
CallingMarksBatch == calling <=> pc \in {"swap", "functors"}

\* Outside of event handling, where a swap still follows, the queue holds only
\* what a wakeup is on its way for, or what timer callbacks posted.
QueueCovered ==
    pc \notin {"events", "swap"} /\ ~signalled
        => ToSet(pending) \subseteq owes \cup byTimer

\* Once the loop has found quit_ unset, a later quit() is on its way to wake it.
QuitCovered ==
    pc \in {"enter", "poll"} /\ ~signalled /\ quit => quitOwes \/ lateSignal

LoopInv == TypeOK /\ CallingMarksBatch /\ QueueCovered /\ QuitCovered

LEMMA LoopInvStep ==
    ASSUME LoopInv, [Next]_vars
    PROVE  LoopInv'
<1>0. TypeOK'
  BY TypeStep DEF LoopInv
<1> SUFFICES CallingMarksBatch' /\ QueueCovered' /\ QuitCovered'
  BY <1>0 DEF LoopInv
<1> USE DEF LoopInv, CallingMarksBatch, QueueCovered, QuitCovered
<1>1. CASE LoopStart
  BY <1>1 DEF LoopStart, loopVars, queueVars
<1>2. CASE LoopCheck \/ EnterPoll \/ EndTimers
  BY <1>2 DEF LoopCheck, EnterPoll, EndTimers, loopVars, queueVars, quitVars
<1>3. CASE PollReturn \/ HandleRead
  BY <1>3 DEF PollReturn, HandleRead, queueVars, quitVars
<1>4. CASE EndEvents \/ EndFunctors
  BY <1>4 DEF EndEvents, EndFunctors, queueVars, quitVars
<1>5. CASE Swap
  <2>1. ToSet(pending') = {}
    BY <1>5 DEF Swap, ToSet
  <2> QED
    BY <1>5, <2>1 DEF Swap, quitVars
<1>6. CASE RunFunctor
  BY <1>6 DEF RunFunctor, queueVars, quitVars
<1>7. ASSUME NEW f \in Functor, PushBack(f)
      PROVE  ToSet(pending') = ToSet(pending) \cup {f}
  BY <1>7, ToSetAppend DEF PushBack, TypeOK
<1>8. ASSUME NEW f \in Functor, PostInLoop(f)
      PROVE  CallingMarksBatch' /\ QueueCovered' /\ QuitCovered'
  <2>1. ToSet(pending') = ToSet(pending) \cup {f}
    BY <1>7, <1>8 DEF PostInLoop
  <2> QED
    BY <1>8, <2>1 DEF PostInLoop, loopVars, quitVars, TypeOK
<1>9. ASSUME NEW f \in Functor, RemotePush(f)
      PROVE  CallingMarksBatch' /\ QueueCovered' /\ QuitCovered'
  <2>1. ToSet(pending') = ToSet(pending) \cup {f}
    BY <1>7, <1>9 DEF RemotePush
  <2> QED
    BY <1>9, <2>1 DEF RemotePush, loopVars, quitVars
<1>10. ASSUME NEW f \in Functor, RemoteWake(f)
       PROVE  CallingMarksBatch' /\ QueueCovered' /\ QuitCovered'
  BY <1>10 DEF RemoteWake, loopVars, quitVars
<1>11. CASE RemoteQuit \/ RemoteQuitWake
  BY <1>11 DEF RemoteQuit, RemoteQuitWake, loopVars, queueVars
<1>12. CASE LocalQuit
  BY <1>12 DEF LocalQuit, loopVars, queueVars
<1>13. CASE UNCHANGED vars
  BY <1>13 DEF vars
<1> QED
  BY <1>1, <1>2, <1>3, <1>4, <1>5, <1>6, <1>8, <1>9, <1>10, <1>11, <1>12, <1>13
  DEF Next, LoopStep

\* The loop never leaves LoopInv.
THEOREM LoopInvariance == Spec => []LoopInv
<1>1. Init => LoopInv
  <2> SUFFICES ASSUME Init PROVE LoopInv
    OBVIOUS
  <2>1. TypeOK
    <3>1. <<>> \in Seq(Functor)
      OBVIOUS
    <3> QED
      BY <3>1 DEF Init, TypeOK, Pc
  <2>2. ToSet(pending) = {}
    BY DEF Init, ToSet
  <2> QED
    BY <2>1, <2>2 DEF Init, LoopInv, CallingMarksBatch, QueueCovered, QuitCovered
<1> QED
  BY <1>1, LoopInvStep, PTL DEF Spec

\* Type correctness of the event loop.
THEOREM TypeCorrect == Spec => []TypeOK
<1>1. LoopInv => TypeOK
  BY DEF LoopInv
<1> QED
  BY <1>1, LoopInvariance, PTL

\* The loop never goes to sleep on a functor or on a quit() of another thread
\* that it has not been woken up for.
THEOREM WakeupsReachLoop == Spec => []NoSleepOnWork
<1>1. LoopInv => NoSleepOnWork
  BY DEF LoopInv, QueueCovered, QuitCovered, NoSleepOnWork, Asleep
<1> QED
  BY <1>1, LoopInvariance, PTL

-----------------------------------------------------------------------------
\* The first functor of the batch moves to the end of those that ran.
LEMMA MoveHead ==
    ASSUME NEW S, NEW r \in Seq(S), NEW b \in Seq(S), b # <<>>
    PROVE  Append(r, Head(b)) \o Tail(b) = r \o b
<1>1. Head(b) \in S /\ Tail(b) \in Seq(S) /\ <<Head(b)>> \in Seq(S)
  BY HeadTailProperties
<1>2. Append(r, Head(b)) = r \o <<Head(b)>>
  BY <1>1, AppendIsConcat
<1>3. <<Head(b)>> \o Tail(b) = b
  BY <1>1
<1> QED
  BY <1>1, <1>2, <1>3, ConcatAssociative

\* A functor that is posted goes behind all others.
LEMMA AppendLast ==
    ASSUME NEW S, NEW r \in Seq(S), NEW q \in Seq(S), NEW x \in S
    PROVE  r \o Append(q, x) = Append(r \o q, x)
<1>1. <<x>> \in Seq(S) /\ r \o q \in Seq(S)
  BY ConcatProperties
<1>2. Append(q, x) = q \o <<x>> /\ Append(r \o q, x) = (r \o q) \o <<x>>
  BY <1>1, AppendIsConcat
<1> QED
  BY <1>1, <1>2, ConcatAssociative

\* Functors run once each and in the order of their posting.
THEOREM FunctorsRunInOrder == Spec => []RunInOrder
<1>1. Init => RunInOrder
  BY ConcatEmptySeq DEF Init, RunInOrder
<1>2. TypeOK /\ RunInOrder /\ [Next]_vars => RunInOrder'
  <2> SUFFICES ASSUME TypeOK, RunInOrder, [Next]_vars
               PROVE  RunInOrder'
    OBVIOUS
  <2>0. /\ ran \in Seq(Functor) /\ batch \in Seq(Functor) /\ pending \in Seq(Functor)
        /\ ran \o batch \in Seq(Functor)
    BY ConcatProperties DEF TypeOK
  <2>1. CASE UNCHANGED <<ran, batch, pending, posted>>
    BY <2>1 DEF RunInOrder
  <2>2. CASE Swap
    <3>1. batch = <<>> /\ batch' = pending /\ pending' = <<>> /\ UNCHANGED <<ran, posted>>
      BY <2>2 DEF Swap, TypeOK
    <3>2. ran \o batch = ran
      BY <2>0, <3>1, ConcatEmptySeq
    <3>3. ran \o pending \in Seq(Functor)
      BY <2>0, ConcatProperties
    <3>4. (ran \o pending) \o <<>> = ran \o pending
      BY <3>3, ConcatEmptySeq
    <3> QED
      BY <3>1, <3>2, <3>4 DEF RunInOrder
  <2>3. CASE RunFunctor
    BY <2>0, <2>3, MoveHead DEF RunFunctor, RunInOrder, queueVars
  <2>4. ASSUME NEW f \in Functor, PostInLoop(f) \/ RemotePush(f)
        PROVE  RunInOrder'
    <3>1. /\ pending' = Append(pending, f) /\ posted' = Append(posted, f)
          /\ UNCHANGED <<ran, batch>>
      BY <2>4 DEF PostInLoop, RemotePush, PushBack, loopVars
    <3>2. (ran \o batch) \o Append(pending, f) = Append((ran \o batch) \o pending, f)
      BY <2>0, AppendLast
    <3>3. (ran \o batch) \o pending = posted
      BY DEF RunInOrder
    <3> QED
      BY <3>1, <3>2, <3>3, Zenon DEF RunInOrder
  <2>5. CASE \/ LoopStart \/ LoopCheck \/ EnterPoll \/ PollReturn \/ HandleRead
             \/ EndEvents \/ EndFunctors \/ EndTimers
             \/ RemoteQuit \/ RemoteQuitWake \/ LocalQuit \/ UNCHANGED vars
    BY <2>1, <2>5
    DEF LoopStart, LoopCheck, EnterPoll, PollReturn, HandleRead, EndEvents, EndFunctors,
        EndTimers, RemoteQuit, RemoteQuitWake, LocalQuit, loopVars, queueVars, vars
  <2>6. ASSUME NEW f \in Functor, RemoteWake(f)
        PROVE  RunInOrder'
    BY <2>1, <2>6 DEF RemoteWake, loopVars
  <2> QED
    BY <2>2, <2>3, <2>4, <2>5, <2>6 DEF Next, LoopStep
<1> QED
  BY <1>1, <1>2, TypeCorrect, PTL DEF Spec
===============================================================================
