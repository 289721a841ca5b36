--------------------------- MODULE ThreadPoolProofs ---------------------------
(***************************************************************************)
(* Proofs about the worker pool, for every number of tasks and threads.    *)
(*                                                                         *)
(* The invariants are proved in layers: the types, then where each worker  *)
(* and its task can be in each phase of start() and stop(), then the       *)
(* ownership of tasks, then the two facts that count workers.              *)
(***************************************************************************)
EXTENDS ThreadPool, TLAPS, FiniteSetTheorems

\* The number of threads that start() asks for is positive.
LEMMA NumThreadsType == NumThreads \in Nat /\ NumThreads >= 1
  BY ConfigAssumption DEF NumThreads

\* The types, except that activeWorkers_ is not yet known to be natural.
Types ==
    /\ started \in BOOLEAN
    /\ tasks \in Seq(Task)
    /\ stopped \in BOOLEAN
    /\ waiting \subseteq Worker
    /\ worker \in [Worker -> WorkerState]
    /\ held \in [Worker -> Task \cup {NoTask}]
    /\ active \in Int
    /\ idle \in 0..(UIntMod - 1)
    /\ owner \in OwnerState
    /\ index \in 1..(NumThreads + 1)
    /\ failures \in 0..MaxSpawnFailures
    /\ tstate \in [Task -> TaskState]
    /\ waiter \in WaiterState
    /\ snapshot \subseteq Task

\* start() and stop(): started_ is set exactly while the pool starts or is
\* up, their loops stay within workers_, and every thread that the loop of
\* stop() is past has exited.
Phases ==
    /\ started <=> owner \in {"starting", "up"}
    /\ owner \in {"starting", "joining"} => index <= NumThreads
    /\ owner = "down" => \A w \in Worker : worker[w] = "none"
    /\ owner = "joining" => \A w \in Worker : w < index => worker[w] = "exited"

\* A worker has a task from pop() to the end of the call, and only a worker
\* inside pop() is blocked in notEmpty_, never after stop().
Places ==
    /\ \A w \in Worker : held[w] # NoTask <=> worker[w] \in {"got", "counted", "running"}
    /\ \A w \in waiting : worker[w] = "pop"
    /\ stopped => waiting = {}

\* Queued tasks are in the queue; the tasks that wait() waits for were
\* handed over, so that nobody hands them over again.
Queued ==
    /\ \A t \in Task : tstate[t] = "queued" => \E i \in DOMAIN tasks : tasks[i] = t
    /\ \A t \in snapshot : tstate[t] \in {"queued", "held", "done"}

-----------------------------------------------------------------------------
\* Every step of the pool keeps the types of the variables.
LEMMA TypesStep ==
    ASSUME Types, Phases, Places, [Next]_vars
    PROVE  Types'
<1>0. NumThreads \in Nat /\ NumThreads >= 1 /\ Worker = 1..NumThreads
  BY NumThreadsType DEF Worker
<1> USE <1>0 DEF Types
<1>1. CASE Start
  BY <1>1 DEF Start, queueVars, waitVars, OwnerState
<1>2. CASE SpawnWorker
  BY <1>2 DEF SpawnWorker, queueVars, ownerVars, waitVars, WorkerState
<1>3. CASE SpawnReturns
  BY <1>3 DEF SpawnReturns, NextSpawn, queueVars, waitVars, Phases, OwnerState
<1>4. CASE SpawnFails
  BY <1>4, BoundAssumption
  DEF SpawnFails, NextSpawn, queueVars, waitVars, Phases, OwnerState, WorkerState
<1>5. CASE Stop
  BY <1>5 DEF Stop, queueVars, waitVars, OwnerState
<1>6. CASE QueueStop
  BY <1>6 DEF QueueStop, waitVars, OwnerState
<1>7. CASE JoinWorker
  BY <1>7 DEF JoinWorker, NextJoin, queueVars, waitVars, Phases, OwnerState, WorkerState
<1>8. CASE JoinAsserts
  BY <1>8 DEF JoinAsserts, queueVars, waitVars, OwnerState
<1>9. ASSUME NEW w \in Worker, WorkerStep(w) \/ SpuriousWakeup(w)
      PROVE  Types'
  <2>1. CASE ThreadRun(w)
    BY <2>1 DEF ThreadRun, Goto, queueVars, ownerVars, waitVars, WorkerState
  <2>2. CASE LoopCheck(w)
    BY <2>2 DEF LoopCheck, Goto, queueVars, ownerVars, waitVars, WorkerState
  <2>3. CASE PopWait(w)
    BY <2>3 DEF PopWait, ownerVars, waitVars
  <2>4. CASE PopStopped(w)
    BY <2>4 DEF PopStopped, Goto, queueVars, ownerVars, waitVars, WorkerState
  <2>5. CASE PopTake(w)
    <3>1. Head(tasks) \in Task /\ Tail(tasks) \in Seq(Task)
      BY <2>5 DEF PopTake
    <3> QED
      BY <2>5, <3>1 DEF PopTake, Goto, ownerVars, waitVars, WorkerState, TaskState
  <2>6. CASE CountActive(w)
    BY <2>6 DEF CountActive, Goto, queueVars, ownerVars, waitVars, WorkerState
  <2>7. CASE RunTask(w)
    <3>1. idle' \in 0..(UIntMod - 1)
      BY <2>7, CounterAssumption DEF RunTask
    <3> QED
      BY <2>7, <3>1 DEF RunTask, Goto, queueVars, ownerVars, waitVars, WorkerState
  <2>8. CASE FinishTask(w)
    BY <2>8 DEF FinishTask, Goto, Places, queueVars, ownerVars, waitVars, WorkerState, TaskState
  <2>9. CASE CountIdle(w)
    <3>1. idle' \in 0..(UIntMod - 1)
      BY <2>9, CounterAssumption DEF CountIdle
    <3> QED
      BY <2>9, <3>1 DEF CountIdle, Goto, queueVars, ownerVars, waitVars, WorkerState
  <2>10. CASE SpuriousWakeup(w)
    BY <2>10 DEF SpuriousWakeup, ownerVars, waitVars
  <2> QED
    BY <1>9, <2>1, <2>2, <2>3, <2>4, <2>5, <2>6, <2>7, <2>8, <2>9, <2>10 DEF WorkerStep
<1>10. ASSUME NEW t \in Task, CallerStep(t)
       PROVE  Types'
  <2>1. CASE Execute(t)
    BY <2>1 DEF Execute, queueVars, ownerVars, waitVars, TaskState
  <2>2. CASE Push(t)
    <3>1. tasks' \in Seq(Task)
      BY <2>2 DEF Push
    <3>2. waiting' \subseteq Worker
      BY <2>2 DEF Push, Notify
    <3>3. tstate' \in [Task -> TaskState]
      BY <2>2 DEF Push, TaskState
    <3> QED
      BY <2>2, <3>1, <3>2, <3>3 DEF Push, ownerVars, waitVars
  <2> QED
    BY <1>10, <2>1, <2>2 DEF CallerStep, ExecutePush, Submit
<1>11. CASE WaiterStep
  BY <1>11 DEF WaiterStep, WaitCall, WaitSize, WaitActive, queueVars, ownerVars, WaiterState
<1>12. CASE UNCHANGED vars
  BY <1>12 DEF vars
<1> QED
  BY <1>1, <1>2, <1>3, <1>4, <1>5, <1>6, <1>7, <1>8, <1>9, <1>10, <1>11, <1>12
  DEF Next, Live, OwnerStep, Gone

\* Every step keeps the phases of start() and stop() in order.
LEMMA PhasesStep ==
    ASSUME Types, Phases, [Next]_vars
    PROVE  Phases'
<1>0. NumThreads \in Nat /\ NumThreads >= 1 /\ Worker = 1..NumThreads
  BY NumThreadsType DEF Worker
<1> USE <1>0 DEF Types, Phases
<1>1. CASE Start \/ Stop \/ QueueStop \/ JoinAsserts
  BY <1>1 DEF Start, Stop, QueueStop, JoinAsserts
<1>2. CASE SpawnWorker
  BY <1>2 DEF SpawnWorker, ownerVars
<1>3. CASE SpawnReturns
  BY <1>3 DEF SpawnReturns, NextSpawn
<1>4. CASE SpawnFails
  BY <1>4 DEF SpawnFails, NextSpawn
<1>5. CASE JoinWorker
  BY <1>5 DEF JoinWorker, NextJoin
<1>6. ASSUME NEW w \in Worker, WorkerStep(w) \/ SpuriousWakeup(w)
      PROVE  Phases'
  <2>1. UNCHANGED ownerVars
    BY <1>6 DEF WorkerStep, ThreadRun, LoopCheck, PopWait, PopStopped, PopTake,
                CountActive, RunTask, FinishTask, CountIdle, SpuriousWakeup
  <2>2. \/ UNCHANGED worker
        \/ /\ worker[w] \notin {"none", "exited"}
           /\ \E s \in WorkerState : worker' = [worker EXCEPT ![w] = s]
    BY <1>6 DEF WorkerStep, ThreadRun, LoopCheck, PopWait, PopStopped, PopTake,
                CountActive, RunTask, FinishTask, CountIdle, SpuriousWakeup,
                Goto, WorkerState
  <2> QED
    BY <2>1, <2>2 DEF ownerVars
<1>7. CASE UNCHANGED <<ownerVars, worker>>
  BY <1>7 DEF ownerVars
<1>8. ASSUME NEW t \in Task, CallerStep(t)
      PROVE  UNCHANGED <<ownerVars, worker>>
  BY <1>8 DEF CallerStep, Execute, ExecutePush, Submit, Push
<1>9. WaiterStep => UNCHANGED <<ownerVars, worker>>
  BY DEF WaiterStep, WaitCall, WaitSize, WaitActive
<1>10. UNCHANGED vars => UNCHANGED <<ownerVars, worker>>
  BY DEF vars, ownerVars
<1> QED
  BY <1>1, <1>2, <1>3, <1>4, <1>5, <1>6, <1>7, <1>8, <1>9, <1>10
  DEF Next, Live, OwnerStep, Gone

\* Every step keeps workers and their tasks where they can be.
LEMMA PlacesStep ==
    ASSUME Types, Phases, Places, [Next]_vars
    PROVE  Places'
<1>0. NumThreads \in Nat /\ NumThreads >= 1 /\ Worker = 1..NumThreads
  BY NumThreadsType DEF Worker
<1> USE <1>0 DEF Types, Places
<1>1. CASE UNCHANGED <<worker, held, waiting, stopped>>
  BY <1>1
<1>2. CASE Start \/ SpawnReturns \/ Stop \/ JoinAsserts \/ WaiterStep \/ UNCHANGED vars
  BY <1>1, <1>2
  DEF Start, SpawnReturns, Stop, JoinAsserts, WaiterStep, WaitCall, WaitSize,
      WaitActive, queueVars, vars
<1>3. CASE SpawnWorker \/ SpawnFails
  <2>1. index \in Worker /\ worker[index] = "none"
    BY <1>3 DEF SpawnWorker, SpawnFails, Phases
  <2>2. \E s \in {"born", "failed"} : worker' = [worker EXCEPT ![index] = s]
    BY <1>3 DEF SpawnWorker, SpawnFails
  <2>3. UNCHANGED <<held, waiting, stopped>>
    BY <1>3 DEF SpawnWorker, SpawnFails, queueVars
  <2> QED
    BY <2>1, <2>2, <2>3
<1>4. CASE QueueStop
  BY <1>4 DEF QueueStop
<1>5. CASE JoinWorker
  <2>1. CASE index = NumThreads
    <3>1. \A w \in Worker : worker[w] = "exited"
      BY <1>5, <2>1 DEF JoinWorker, Phases
    <3> QED
      BY <1>5, <2>1, <3>1 DEF JoinWorker, NextJoin, queueVars
  <2> QED
    BY <1>5, <2>1, <1>1 DEF JoinWorker, NextJoin, queueVars
<1>6. ASSUME NEW w \in Worker, WorkerStep(w) \/ SpuriousWakeup(w)
      PROVE  Places'
  <2>1. CASE ThreadRun(w) \/ LoopCheck(w) \/ PopStopped(w) \/ CountActive(w)
             \/ RunTask(w) \/ CountIdle(w)
    <3>1. UNCHANGED <<held, waiting, stopped>>
      BY <2>1 DEF ThreadRun, LoopCheck, PopStopped, CountActive, RunTask, CountIdle,
                  queueVars
    <3>2. w \notin waiting
      BY <2>1 DEF ThreadRun, LoopCheck, PopStopped, CountActive, RunTask, CountIdle
    <3>3. \E s \in WorkerState :
             /\ worker' = [worker EXCEPT ![w] = s]
             /\ s \in {"got", "counted", "running"}
                   <=> worker[w] \in {"got", "counted", "running"}
      BY <2>1 DEF ThreadRun, LoopCheck, PopStopped, CountActive, RunTask, CountIdle,
                  Goto, WorkerState
    <3> QED
      BY <3>1, <3>2, <3>3
  <2>2. CASE PopWait(w)
    BY <2>2 DEF PopWait
  <2>3. CASE PopTake(w)
    <3>1. Head(tasks) \in Task
      BY <2>3 DEF PopTake
    <3> QED
      BY <2>3, <3>1, TaskAssumption DEF PopTake, Goto
  <2>4. CASE FinishTask(w)
    BY <2>4 DEF FinishTask, Goto, queueVars
  <2>5. CASE SpuriousWakeup(w)
    BY <2>5 DEF SpuriousWakeup
  <2> QED
    BY <1>6, <2>1, <2>2, <2>3, <2>4, <2>5 DEF WorkerStep
<1>7. ASSUME NEW t \in Task, CallerStep(t)
      PROVE  Places'
  <2>1. UNCHANGED <<worker, held, stopped>> /\ waiting' \subseteq waiting
    BY <1>7 DEF CallerStep, Execute, ExecutePush, Submit, Push, Notify, queueVars
  <2> QED
    BY <2>1
<1> QED
  BY <1>2, <1>3, <1>4, <1>5, <1>6, <1>7 DEF Next, Live, OwnerStep, Gone

\* Every step keeps each task in one place, and the tasks that are queued
\* in the queue.
LEMMA OwnershipStep ==
    ASSUME Types, Phases, Places, TaskOwnedOnce, Queued, [Next]_vars
    PROVE  TaskOwnedOnce' /\ Queued'
<1> USE DEF Types, TaskOwnedOnce, Queued
<1>1. CASE UNCHANGED <<tasks, held, tstate, snapshot>>
  BY <1>1
<1>2. CASE \/ Start \/ Stop \/ SpawnFails \/ OwnerStep
           \/ WaitSize \/ WaitActive \/ UNCHANGED vars
  BY <1>1, <1>2
  DEF Start, Stop, SpawnFails, OwnerStep, SpawnWorker, SpawnReturns, QueueStop,
      JoinWorker, JoinAsserts, WaitSize, WaitActive, queueVars, ownerVars, waitVars, vars
<1>3. CASE WaitCall
  BY <1>3 DEF WaitCall, queueVars
<1>4. ASSUME NEW w \in Worker, WorkerStep(w) \/ SpuriousWakeup(w)
      PROVE  TaskOwnedOnce' /\ Queued'
  <2>1. CASE PopTake(w)
    <3> DEFINE t == Head(tasks)
    <3>1. /\ Len(tasks) \in Nat /\ Len(tasks) >= 1 /\ DOMAIN tasks = 1..Len(tasks)
          /\ t = tasks[1] /\ t \in Task /\ tstate[t] = "queued"
          /\ DOMAIN tasks' = 1..(Len(tasks) - 1)
          /\ \A i \in 1..(Len(tasks) - 1) : tasks'[i] = tasks[i + 1]
      BY <2>1 DEF PopTake
    <3>2. /\ held' = [held EXCEPT ![w] = t]
          /\ tstate' = [tstate EXCEPT ![t] = "held"]
          /\ snapshot' = snapshot
      BY <2>1 DEF PopTake, waitVars
    <3> HIDE DEF t
    <3>3. \A v \in Worker : held[v] # t
      BY <3>1, TaskAssumption
    <3>4. \A i \in DOMAIN tasks' :
             /\ i \in Nat /\ i + 1 \in DOMAIN tasks
             /\ tasks'[i] = tasks[i + 1]
             /\ tasks'[i] \in Task /\ tasks'[i] # t
      <4>1. SUFFICES ASSUME NEW i \in 1..(Len(tasks) - 1)
                     PROVE  i + 1 \in DOMAIN tasks /\ tasks[i + 1] \in Task /\ tasks[i + 1] # t
        BY <3>1
      <4>2. i + 1 \in 1..Len(tasks) /\ 1 \in 1..Len(tasks) /\ i + 1 # 1
        BY <3>1
      <4> QED
        BY <3>1, <4>2
    <3>5. \A i \in DOMAIN tasks' : tstate'[tasks'[i]] = "queued"
      BY <3>1, <3>2, <3>4
    <3>6. \A i, j \in DOMAIN tasks' : tasks'[i] = tasks'[j] => i = j
      <4>1. SUFFICES ASSUME NEW i \in DOMAIN tasks', NEW j \in DOMAIN tasks',
                            tasks'[i] = tasks'[j]
                     PROVE  i = j
        OBVIOUS
      <4>2. i + 1 = j + 1
        BY <3>4, <4>1
      <4> QED
        BY <3>4, <4>2
    <3>7. \A u, v \in Worker : held'[u] # NoTask /\ held'[u] = held'[v] => u = v
      BY <3>2, <3>3
    <3>8. \A v \in Worker : held'[v] # NoTask => tstate'[held'[v]] = "held"
      BY <3>1, <3>2, <3>3
    <3>9. ASSUME NEW u \in Task, tstate'[u] = "queued"
          PROVE  \E i \in DOMAIN tasks' : tasks'[i] = u
      <4>1. u # t /\ tstate[u] = "queued"
        BY <3>1, <3>2, <3>9
      <4>2. PICK i \in DOMAIN tasks : tasks[i] = u
        BY <4>1
      <4>3. i # 1 /\ i \in 1..Len(tasks)
        BY <4>1, <4>2, <3>1
      <4>4. i - 1 \in DOMAIN tasks' /\ tasks'[i - 1] = tasks[i]
        BY <4>3, <3>1
      <4> QED
        BY <4>2, <4>4
    <3>10. \A u \in snapshot' : tstate'[u] \in {"queued", "held", "done"}
      BY <3>1, <3>2
    <3> QED
      BY <3>5, <3>6, <3>7, <3>8, <3>9, <3>10
  <2>2. CASE FinishTask(w)
    <3> DEFINE t == held[w]
    <3>1. t \in Task /\ tstate[t] = "held"
      BY <2>2 DEF FinishTask, Places
    <3>2. /\ held' = [held EXCEPT ![w] = NoTask]
          /\ tstate' = [tstate EXCEPT ![t] = "done"]
          /\ tasks' = tasks /\ snapshot' = snapshot
      BY <2>2 DEF FinishTask, queueVars, waitVars
    <3>3. \A i \in DOMAIN tasks : tasks[i] # t
      BY <3>1
    <3>4. \A v \in Worker : v # w => held[v] # t
      BY <3>1, TaskAssumption
    <3> HIDE DEF t
    <3>5. \A i \in DOMAIN tasks : tasks[i] \in Task
      OBVIOUS
    <3> QED
      BY <3>1, <3>2, <3>3, <3>4, <3>5
  <2> QED
    BY <1>4, <1>1, <2>1, <2>2
    DEF WorkerStep, ThreadRun, LoopCheck, PopWait, PopStopped, CountActive, RunTask,
        CountIdle, SpuriousWakeup, queueVars, ownerVars, waitVars
<1>5. ASSUME NEW t \in Task, CallerStep(t)
      PROVE  TaskOwnedOnce' /\ Queued'
  <2>0. tstate[t] \in {"new", "checked"}
    BY <1>5 DEF CallerStep, Execute, ExecutePush, Submit
  <2>1. /\ \A i \in DOMAIN tasks : tasks[i] \in Task /\ tasks[i] # t
        /\ \A v \in Worker : held[v] # t
        /\ t \notin snapshot
    BY <2>0, TaskAssumption
  <2>2. CASE Execute(t)
    BY <2>1, <2>2 DEF Execute, queueVars, waitVars
  <2>3. CASE Push(t)
    <3>1. /\ Len(tasks) \in Nat /\ DOMAIN tasks = 1..Len(tasks)
          /\ DOMAIN tasks' = 1..(Len(tasks) + 1)
          /\ \A i \in 1..Len(tasks) : tasks'[i] = tasks[i]
          /\ tasks'[Len(tasks) + 1] = t
      BY <2>3 DEF Push
    <3>2. tstate' = [tstate EXCEPT ![t] = "queued"] /\ UNCHANGED <<held, snapshot>>
      BY <2>3 DEF Push, waitVars
    <3>3. \A i, j \in DOMAIN tasks' : tasks'[i] = tasks'[j] => i = j
      BY <3>1, <2>1
    <3>4. \A i \in DOMAIN tasks' : tstate'[tasks'[i]] = "queued"
      BY <3>1, <3>2, <2>1
    <3>5. \A u \in Task : tstate'[u] = "queued" => \E i \in DOMAIN tasks' : tasks'[i] = u
      BY <3>1, <3>2
    <3>6. \A v \in Worker : held'[v] # NoTask => tstate'[held'[v]] = "held"
      BY <3>2, <2>1
    <3> QED
      BY <3>2, <3>3, <3>4, <3>5, <3>6, <2>1
  <2> QED
    BY <1>5, <2>2, <2>3 DEF CallerStep, ExecutePush, Submit
<1> QED
  BY <1>2, <1>3, <1>4, <1>5 DEF Next, Live, WaiterStep, Gone

-----------------------------------------------------------------------------
\* There are finitely many workers, so any set of them has a cardinality.
LEMMA WorkersFinite ==
    ASSUME NEW S, S \subseteq Worker
    PROVE  IsFiniteSet(S) /\ Cardinality(S) \in Nat
<1>1. IsFiniteSet(Worker)
  BY NumThreadsType, FS_Interval DEF Worker
<1> QED
  BY <1>1, FS_Subset, FS_CardinalityType

\* Every step keeps activeWorkers_ equal to the number of executing workers.
LEMMA ActiveStep ==
    ASSUME Types, Phases, Places, ActiveExact, [Next]_vars
    PROVE  ActiveExact'
<1>0. IsFiniteSet(Executing) /\ Cardinality(Executing) \in Nat
  BY WorkersFinite DEF Executing
<1> USE DEF Types, ActiveExact
<1>1. CASE Executing' = Executing /\ active' = active
  BY <1>1
<1>2. CASE UNCHANGED <<worker, active>>
  BY <1>1, <1>2 DEF Executing
<1>3. CASE SpawnWorker \/ SpawnFails
  <2>1. \E s \in {"born", "failed"} : worker' = [worker EXCEPT ![index] = s]
    BY <1>3 DEF SpawnWorker, SpawnFails
  <2>2. worker[index] = "none" /\ active' = active
    BY <1>3 DEF SpawnWorker, SpawnFails
  <2>3. Executing' = Executing
    BY <2>1, <2>2 DEF Executing
  <2> QED
    BY <1>1, <2>2, <2>3
<1>4. CASE JoinWorker
  <2>1. CASE index = NumThreads
    <3>1. \A w \in Worker : worker[w] = "exited"
      BY <1>4, <2>1, NumThreadsType DEF JoinWorker, Phases, Worker
    <3>2. \A w \in Worker : worker'[w] = "none"
      BY <1>4, <2>1 DEF JoinWorker, NextJoin
    <3> QED
      BY <1>1, <1>4, <3>1, <3>2 DEF JoinWorker, Executing
  <2> QED
    BY <1>2, <1>4, <2>1 DEF JoinWorker, NextJoin
<1>5. ASSUME NEW w \in Worker, WorkerStep(w) \/ SpuriousWakeup(w)
      PROVE  ActiveExact'
  <2>1. CASE CountActive(w)
    <3>1. w \notin Executing /\ Executing' = Executing \cup {w}
      BY <2>1 DEF CountActive, Goto, Executing
    <3>2. Cardinality(Executing') = Cardinality(Executing) + 1
      BY <1>0, <3>1, FS_AddElement
    <3> QED
      BY <2>1, <3>2 DEF CountActive
  <2>2. CASE FinishTask(w)
    <3>1. w \in Executing /\ Executing' = Executing \ {w}
      BY <2>2 DEF FinishTask, Goto, Executing
    <3>2. Cardinality(Executing') = Cardinality(Executing) - 1
      BY <1>0, <3>1, FS_RemoveElement
    <3> QED
      BY <2>2, <3>2 DEF FinishTask
  <2>3. CASE PopWait(w) \/ SpuriousWakeup(w)
    BY <1>2, <2>3 DEF PopWait, SpuriousWakeup
  <2>4. CASE \/ ThreadRun(w) \/ LoopCheck(w) \/ PopStopped(w) \/ PopTake(w)
             \/ RunTask(w) \/ CountIdle(w)
    <3>1. /\ active' = active
          /\ \E s \in WorkerState :
                /\ worker' = [worker EXCEPT ![w] = s]
                /\ s \in {"counted", "running"} <=> worker[w] \in {"counted", "running"}
      BY <2>4 DEF ThreadRun, LoopCheck, PopStopped, PopTake, RunTask, CountIdle,
                  Goto, WorkerState
    <3>2. Executing' = Executing
      BY <3>1 DEF Executing
    <3> QED
      BY <1>1, <3>1, <3>2
  <2> QED
    BY <1>5, <2>1, <2>2, <2>3, <2>4 DEF WorkerStep
<1>6. ASSUME NEW t \in Task, CallerStep(t)
      PROVE  UNCHANGED <<worker, active>>
  BY <1>6 DEF CallerStep, Execute, ExecutePush, Submit, Push
<1>7. CASE \/ Start \/ Stop \/ SpawnReturns \/ QueueStop \/ JoinAsserts
           \/ WaiterStep \/ UNCHANGED vars
  BY <1>2, <1>7
  DEF Start, Stop, SpawnReturns, QueueStop, JoinAsserts, WaiterStep, WaitCall,
      WaitSize, WaitActive, vars
<1> QED
  BY <1>2, <1>3, <1>4, <1>5, <1>6, <1>7 DEF Next, Live, OwnerStep, Gone

\* Every step keeps an awake worker on its way to every queued task while
\* some worker is blocked.
LEMMA WorkConservingStep ==
    ASSUME Types, Phases, Places, Places', WorkConserving, [Next]_vars
    PROVE  WorkConserving'
<1>0. /\ IsFiniteSet(Popping) /\ Cardinality(Popping) \in Nat
      /\ IsFiniteSet(Popping') /\ Cardinality(Popping') \in Nat
      /\ Len(tasks) \in Nat
  BY WorkersFinite DEF Popping, Types
<1>1. stopped' => waiting' = {}
  BY DEF Places
<1> USE DEF Types, WorkConserving
<1>2. SUFFICES ASSUME waiting' # {}
               PROVE  Len(tasks') <= Cardinality(Popping')
  BY <1>1
<1>3. CASE waiting # {} /\ tasks' = tasks /\ Popping \subseteq Popping'
  <2>1. Cardinality(Popping) <= Cardinality(Popping')
    BY <1>0, <1>3, FS_Subset
  <2> QED
    BY <1>0, <1>3, <2>1
<1>4. CASE UNCHANGED <<tasks, waiting, worker>>
  BY <1>2, <1>3, <1>4 DEF Popping
<1>5. CASE SpawnWorker \/ SpawnFails
  <2>1. \E s \in {"born", "failed"} : worker' = [worker EXCEPT ![index] = s]
    BY <1>5 DEF SpawnWorker, SpawnFails
  <2>2. worker[index] = "none" /\ UNCHANGED <<tasks, waiting>>
    BY <1>5 DEF SpawnWorker, SpawnFails, queueVars
  <2>3. Popping \subseteq Popping'
    BY <2>1, <2>2 DEF Popping
  <2> QED
    BY <1>2, <1>3, <2>2, <2>3
<1>6. CASE QueueStop
  BY <1>1, <1>2, <1>6 DEF QueueStop
<1>7. CASE JoinWorker
  <2>1. CASE index = NumThreads
    <3>1. \A w \in Worker : worker'[w] = "none"
      BY <1>7, <2>1 DEF JoinWorker, NextJoin
    <3>2. waiting' \subseteq Worker
      BY <1>7 DEF JoinWorker, queueVars
    <3> QED
      BY <1>2, <3>1, <3>2 DEF Places
  <2> QED
    BY <1>4, <1>7, <2>1 DEF JoinWorker, NextJoin, queueVars
<1>8. ASSUME NEW w \in Worker, WorkerStep(w) \/ SpuriousWakeup(w)
      PROVE  Len(tasks') <= Cardinality(Popping')
  <2>1. CASE PopWait(w)
    <3>1. Len(tasks') = 0
      BY <2>1 DEF PopWait
    <3> QED
      BY <1>0, <3>1
  <2>2. CASE PopStopped(w)
    BY <1>2, <2>2 DEF PopStopped, queueVars, Places
  <2>3. CASE PopTake(w)
    <3>1. w \in Popping /\ Popping' = Popping \ {w}
      BY <2>3 DEF PopTake, Goto, Popping
    <3>2. Cardinality(Popping') = Cardinality(Popping) - 1
      BY <1>0, <3>1, FS_RemoveElement
    <3>3. waiting # {} /\ Len(tasks') = Len(tasks) - 1
      BY <1>2, <2>3 DEF PopTake
    <3> QED
      BY <1>0, <3>2, <3>3
  <2>4. CASE SpuriousWakeup(w)
    <3>1. waiting # {} /\ tasks' = tasks /\ Popping \subseteq Popping'
      BY <2>4 DEF SpuriousWakeup, Popping
    <3> QED
      BY <1>3, <3>1
  <2>5. CASE \/ ThreadRun(w) \/ LoopCheck(w) \/ CountActive(w) \/ RunTask(w)
             \/ FinishTask(w) \/ CountIdle(w)
    <3>1. /\ UNCHANGED <<tasks, waiting>>
          /\ worker[w] # "pop"
          /\ \E s \in WorkerState : worker' = [worker EXCEPT ![w] = s]
      BY <2>5 DEF ThreadRun, LoopCheck, CountActive, RunTask, FinishTask, CountIdle,
                  Goto, WorkerState, queueVars
    <3>2. Popping \subseteq Popping'
      BY <3>1 DEF Popping
    <3> QED
      BY <1>2, <1>3, <3>1, <3>2
  <2> QED
    BY <1>8, <2>1, <2>2, <2>3, <2>4, <2>5 DEF WorkerStep
<1>9. ASSUME NEW t \in Task, CallerStep(t)
      PROVE  Len(tasks') <= Cardinality(Popping')
  <2>1. CASE Execute(t)
    BY <1>4, <2>1 DEF Execute, queueVars
  <2>2. CASE Push(t)
    <3>1. PICK w \in waiting : waiting' = waiting \ {w}
      BY <1>2, <2>2 DEF Push, Notify
    <3>2. w \in Worker /\ worker[w] = "pop"
      BY DEF Places
    <3>3. w \notin Popping /\ Popping' = Popping \cup {w}
      BY <2>2, <3>1, <3>2 DEF Push, Popping
    <3>4. Cardinality(Popping') = Cardinality(Popping) + 1
      BY <1>0, <3>3, FS_AddElement
    <3>5. Len(tasks') = Len(tasks) + 1
      BY <2>2 DEF Push
    <3> QED
      BY <1>0, <3>1, <3>4, <3>5
  <2> QED
    BY <1>9, <2>1, <2>2 DEF CallerStep, ExecutePush, Submit
<1>10. CASE \/ Start \/ Stop \/ SpawnReturns \/ JoinAsserts
            \/ WaiterStep \/ UNCHANGED vars
  BY <1>4, <1>10
  DEF Start, Stop, SpawnReturns, JoinAsserts, WaiterStep, WaitCall,
      WaitSize, WaitActive, queueVars, vars
<1> QED
  BY <1>5, <1>6, <1>7, <1>8, <1>9, <1>10 DEF Next, Live, OwnerStep, Gone

\* Every step keeps the tasks that wait() has seen leave the queue out of it.
LEMMA WaitStep ==
    ASSUME Types, Places, TaskOwnedOnce, Queued, WaitDrainsQueue, [Next]_vars
    PROVE  WaitDrainsQueue'
<1> USE DEF Types, Queued, WaitDrainsQueue
<1>1. CASE UNCHANGED <<waiter, snapshot, tstate>>
  BY <1>1
<1>2. CASE WaitCall
  BY <1>2 DEF WaitCall
<1>3. CASE WaitSize
  <2>1. \A t \in Task : tstate[t] # "queued"
    BY <1>3 DEF WaitSize
  <2> QED
    BY <1>3, <2>1 DEF WaitSize
<1>4. CASE WaitActive
  BY <1>4 DEF WaitActive
<1>5. ASSUME NEW w \in Worker, WorkerStep(w) \/ SpuriousWakeup(w)
      PROVE  WaitDrainsQueue'
  <2>1. CASE PopTake(w)
    <3>1. Head(tasks) \in Task
      BY <2>1 DEF PopTake
    <3> QED
      BY <2>1, <3>1 DEF PopTake, waitVars
  <2>2. CASE FinishTask(w)
    BY <2>2 DEF FinishTask, Places, waitVars
  <2> QED
    BY <1>1, <1>5, <2>1, <2>2
    DEF WorkerStep, ThreadRun, LoopCheck, PopWait, PopStopped, CountActive, RunTask,
        CountIdle, SpuriousWakeup, waitVars
<1>6. ASSUME NEW t \in Task, CallerStep(t)
      PROVE  WaitDrainsQueue'
  <2>1. t \notin snapshot
    BY <1>6 DEF CallerStep, Execute, ExecutePush, Submit
  <2>2. /\ UNCHANGED <<waiter, snapshot>>
        /\ \E s \in TaskState : tstate' = [tstate EXCEPT ![t] = s]
    BY <1>6 DEF CallerStep, Execute, ExecutePush, Submit, Push, waitVars, TaskState
  <2> QED
    BY <2>1, <2>2
<1>7. CASE Start \/ Stop \/ SpawnFails \/ OwnerStep \/ UNCHANGED vars
  BY <1>1, <1>7
  DEF Start, Stop, SpawnFails, OwnerStep, SpawnWorker, SpawnReturns, QueueStop,
      JoinWorker, JoinAsserts, waitVars, vars
<1> QED
  BY <1>2, <1>3, <1>4, <1>5, <1>6, <1>7 DEF Next, Live, WaiterStep, Gone

-----------------------------------------------------------------------------
\* The inductive invariant of the pool.
PoolInv ==
    /\ Types /\ Phases /\ Places
    /\ TaskOwnedOnce /\ Queued
    /\ ActiveExact /\ WorkConserving /\ WaitDrainsQueue

LEMMA PoolInvInit == Init => PoolInv
<1> SUFFICES ASSUME Init PROVE PoolInv
  OBVIOUS
<1>0. NumThreads \in Nat /\ NumThreads >= 1 /\ Worker = 1..NumThreads
  BY NumThreadsType DEF Worker
<1>1. Types
  <2>1. /\ worker \in [Worker -> WorkerState] /\ held \in [Worker -> Task \cup {NoTask}]
        /\ tstate \in [Task -> TaskState]
    BY DEF Init, WorkerState, TaskState
  <2>2. /\ idle \in 0..(UIntMod - 1) /\ index \in 1..(NumThreads + 1)
        /\ failures \in 0..MaxSpawnFailures /\ active \in Int
    BY <1>0, CounterAssumption, BoundAssumption, ConfigAssumption DEF Init
  <2>3. /\ started \in BOOLEAN /\ stopped \in BOOLEAN /\ tasks \in Seq(Task)
        /\ waiting \subseteq Worker /\ snapshot \subseteq Task
        /\ owner \in OwnerState /\ waiter \in WaiterState
    <3>1. tasks \in Seq(Task)
      BY DEF Init
    <3> QED
      BY <3>1 DEF Init, OwnerState, WaiterState
  <2> QED
    BY <2>1, <2>2, <2>3 DEF Types
<1>2. Phases /\ Places
  BY <1>0 DEF Init, Phases, Places
<1>3. TaskOwnedOnce /\ Queued /\ WaitDrainsQueue
  BY DEF Init, TaskOwnedOnce, Queued, WaitDrainsQueue
<1>4. ActiveExact
  <2>1. Executing = {}
    BY DEF Init, Executing
  <2> QED
    BY <2>1, FS_EmptySet DEF Init, ActiveExact
<1>5. WorkConserving
  BY DEF Init, WorkConserving
<1> QED
  BY <1>1, <1>2, <1>3, <1>4, <1>5 DEF PoolInv

\* The pool, its queue, its workers and its callers never leave PoolInv.
THEOREM PoolInvariance == Spec => []PoolInv
<1>1. PoolInv /\ [Next]_vars => PoolInv'
  <2> SUFFICES ASSUME PoolInv, [Next]_vars PROVE PoolInv'
    OBVIOUS
  <2>1. Types' /\ Phases' /\ Places'
    BY TypesStep, PhasesStep, PlacesStep DEF PoolInv
  <2>2. TaskOwnedOnce' /\ Queued'
    BY OwnershipStep DEF PoolInv
  <2>3. ActiveExact' /\ WorkConserving'
    BY <2>1, ActiveStep, WorkConservingStep DEF PoolInv
  <2>4. WaitDrainsQueue'
    BY WaitStep DEF PoolInv
  <2> QED
    BY <2>1, <2>2, <2>3, <2>4 DEF PoolInv
<1> QED
  BY <1>1, PoolInvInit, PTL DEF Spec

\* Type correctness; that activeWorkers_ never goes below zero needs that it
\* counts the executing workers.
THEOREM TypeCorrect == Spec => []TypeOK
<1>1. PoolInv => TypeOK
  <2>1. PoolInv => active \in Nat
    BY WorkersFinite DEF PoolInv, ActiveExact, Executing
  <2> QED
    BY <2>1 DEF PoolInv, Types, TypeOK
<1> QED
  BY <1>1, PoolInvariance, PTL

\* A task is never executed twice: TaskQueue::pop() hands each one out once.
THEOREM TasksOwnedOnce == Spec => []TaskOwnedOnce
<1>1. PoolInv => TaskOwnedOnce
  BY DEF PoolInv
<1> QED
  BY <1>1, PoolInvariance, PTL

\* No wakeup of TaskQueue::push() and TaskQueue::stop() is lost.
THEOREM NoLostWakeup == Spec => []WorkConserving
<1>1. PoolInv => WorkConserving
  BY DEF PoolInv
<1> QED
  BY <1>1, PoolInvariance, PTL

\* activeWorkers_ is exact between any two of its atomic updates.
THEOREM ActiveIsExact == Spec => []ActiveExact
<1>1. PoolInv => ActiveExact
  BY DEF PoolInv
<1> QED
  BY <1>1, PoolInvariance, PTL

\* After ThreadPool::stop() has returned nothing of the pool runs.
THEOREM QuietAfterStop == Spec => []QuietWhenDown
<1>1. PoolInv => QuietWhenDown
  <2> SUFFICES ASSUME PoolInv, owner = "down"
               PROVE  /\ ~started /\ active = 0 /\ waiting = {}
                      /\ \A w \in Worker : worker[w] = "none" /\ held[w] = NoTask
    BY DEF QuietWhenDown
  <2>1. ~started /\ \A w \in Worker : worker[w] = "none"
    BY DEF PoolInv, Phases
  <2>2. waiting = {} /\ \A w \in Worker : held[w] = NoTask
    BY <2>1 DEF PoolInv, Types, Places
  <2>3. Executing = {}
    BY <2>1 DEF Executing
  <2>4. active = 0
    BY <2>3, FS_EmptySet DEF PoolInv, ActiveExact
  <2> QED
    BY <2>1, <2>2, <2>4
<1> QED
  BY <1>1, PoolInvariance, PTL

\* What ThreadPool::wait() does guarantee: the queue was empty meanwhile.
THEOREM WaitSeesQueueDrained == Spec => []WaitDrainsQueue
<1>1. PoolInv => WaitDrainsQueue
  BY DEF PoolInv
<1> QED
  BY <1>1, PoolInvariance, PTL
===============================================================================
