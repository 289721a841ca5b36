------------------------------ MODULE ThreadPool ------------------------------
(***************************************************************************)
(* The worker pool of src/common/thread: ThreadPool together with the      *)
(* TaskQueue it blocks on and the Thread objects it starts and joins.      *)
(*                                                                         *)
(* Every TaskQueue operation is one critical section of its mutex, so it   *)
(* is one action here; the condition variable notEmpty_ is the set         *)
(* `waiting` of workers blocked in it.  A worker that was notified leaves  *)
(* `waiting` and re-evaluates the loop condition of pop() like a worker    *)
(* that just arrived.  Reads and writes of the atomics (started_,          *)
(* activeWorkers_, idleWorkers_) are actions of their own.                 *)
(*                                                                         *)
(* FixedThreadPool is the same machine without the two counters.           *)
(***************************************************************************)
EXTENDS Naturals, Sequences, FiniteSets

CONSTANTS
    Task,              \* the tasks that callers hand over, each one once
    NoTask,            \* the empty std::function that pop() returns on stop
    Requested,         \* argument of start(); 0 asks for the minimum
    MinThreads,        \* ThreadPoolConfig::minThreads
    MaxThreads,        \* ThreadPoolConfig::maxThreads
    UIntMod,           \* modulus of the uint32 counters (2^32 in the code)
    MaxSpawnFailures   \* bound on the pthread_create calls that fail

ASSUME ConfigAssumption ==
    /\ Requested \in Nat
    /\ MinThreads \in Nat \ {0}
    /\ MaxThreads \in Nat \ {0}
ASSUME CounterAssumption == UIntMod \in Nat /\ UIntMod > MaxThreads
ASSUME BoundAssumption == MaxSpawnFailures \in Nat
ASSUME TaskAssumption == NoTask \notin Task

\* start(): 0 means the configured minimum, and the maximum is never exceeded.
NumThreads ==
    LET n == IF Requested = 0 THEN MinThreads ELSE Requested
    IN  IF n <= MaxThreads THEN n ELSE MaxThreads

Worker == 1..NumThreads

VARIABLES
    started,   \* ThreadPool::started_
    tasks,     \* TaskQueue::tasks_
    stopped,   \* TaskQueue::stopped_
    waiting,   \* workers blocked in notEmpty_.wait()
    worker,    \* where each worker thread is in workerThread()
    held,      \* the local `task` of each worker thread
    active,    \* activeWorkers_
    idle,      \* idleWorkers_
    owner,     \* where the thread that calls start() and stop() is
    index,     \* the worker that the loop of start() or stop() is at
    failures,  \* how many pthread_create calls failed so far
    tstate,    \* life of each task, from the caller that offers it
    waiter,    \* where a thread that calls wait() is
    snapshot   \* the unfinished tasks at the moment wait() was called

queueVars == <<tasks, stopped, waiting>>
ownerVars == <<started, owner, index, failures>>
waitVars == <<waiter, snapshot>>
vars == <<started, tasks, stopped, waiting, worker, held, active, idle,
          owner, index, failures, tstate, waiter, snapshot>>

WorkerState == {"none", "born", "failed", "loop", "pop", "got", "counted",
                "running", "ran", "exited"}
OwnerState == {"down", "starting", "up", "stopping", "joining", "aborted"}
TaskState == {"new", "checked", "rejected", "queued", "held", "done"}
WaiterState == {"out", "size", "active", "returned"}

\* Every thread of the process stops when an assertion of Thread fails.
Alive == owner # "aborted"

Init ==
    /\ started = FALSE
    /\ tasks = <<>>
    /\ stopped = FALSE
    /\ waiting = {}
    /\ worker = [w \in Worker |-> "none"]
    /\ held = [w \in Worker |-> NoTask]
    /\ active = 0
    /\ idle = 0
    /\ owner = "down"
    /\ index = 1
    /\ failures = 0
    /\ tstate = [t \in Task |-> "new"]
    /\ waiter = "out"
    /\ snapshot = {}

-----------------------------------------------------------------------------
(* The thread that starts and stops the pool.                              *)

Start ==
    /\ owner = "down"
    /\ ~started
    /\ started' = TRUE
    /\ owner' = "starting"
    /\ index' = 1
    /\ UNCHANGED <<queueVars, worker, held, active, idle, failures, tstate, waitVars>>

\* The loop of start() moves on to the next worker, or start() returns.
NextSpawn ==
    /\ index' = index + 1
    /\ owner' = IF index = NumThreads THEN "up" ELSE "starting"

\* Thread::start(): pthread_create succeeds; the caller then blocks in the
\* latch until the new thread has run.
SpawnWorker ==
    /\ owner = "starting"
    /\ worker[index] = "none"
    /\ worker' = [worker EXCEPT ![index] = "born"]
    /\ UNCHANGED <<queueVars, ownerVars, held, active, idle, tstate, waitVars>>

\* latch->wait() returns: the new thread has counted the latch down.
SpawnReturns ==
    /\ owner = "starting"
    /\ worker[index] \notin {"none", "born"}
    /\ NextSpawn
    /\ UNCHANGED <<queueVars, started, failures, worker, held, active, idle, tstate, waitVars>>

\* pthread_create fails: Thread::start() only clears its started_ flag.
SpawnFails ==
    /\ owner = "starting"
    /\ worker[index] = "none"
    /\ failures < MaxSpawnFailures
    /\ failures' = failures + 1
    /\ worker' = [worker EXCEPT ![index] = "failed"]
    /\ NextSpawn
    /\ UNCHANGED <<queueVars, started, held, active, idle, tstate, waitVars>>

Stop ==
    /\ owner = "up"
    /\ started
    /\ started' = FALSE
    /\ owner' = "stopping"
    /\ UNCHANGED <<queueVars, worker, held, active, idle, index, failures, tstate, waitVars>>

\* Mutation of QueueStop: stop() forgets to wake the blocked workers.
QueueStopSilently ==
    /\ owner = "stopping"
    /\ stopped' = TRUE
    /\ owner' = "joining"
    /\ index' = 1
    /\ UNCHANGED <<tasks, waiting, started, worker, held, active, idle, failures, tstate, waitVars>>

\* TaskQueue::stop(), called by ThreadPool::stop().
QueueStop ==
    /\ owner = "stopping"
    /\ stopped' = TRUE
    /\ waiting' = {}
    /\ owner' = "joining"
    /\ index' = 1
    /\ UNCHANGED <<tasks, started, worker, held, active, idle, failures, tstate, waitVars>>

\* The loop of stop() after worker `index`: the last round is followed by
\* workers_.clear().
NextJoin ==
    IF index = NumThreads
    THEN /\ owner' = "down"
         /\ worker' = [w \in Worker |-> "none"]
         /\ UNCHANGED index
    ELSE /\ index' = index + 1
         /\ UNCHANGED <<owner, worker>>

\* Mutation of JoinWorker: the join returns before the thread has exited.
JoinWorkerEarly ==
    /\ owner = "joining"
    /\ worker[index] # "failed"
    /\ NextJoin
    /\ UNCHANGED <<queueVars, started, failures, held, active, idle, tstate, waitVars>>

\* pthread_join() returns once the worker has left workerThread().
JoinWorker ==
    /\ owner = "joining"
    /\ worker[index] = "exited"
    /\ NextJoin
    /\ UNCHANGED <<queueVars, started, failures, held, active, idle, tstate, waitVars>>

\* Thread::join() asserts started_, which a failed pthread_create cleared.
JoinAsserts ==
    /\ owner = "joining"
    /\ worker[index] = "failed"
    /\ owner' = "aborted"
    /\ UNCHANGED <<queueVars, started, index, failures, worker, held, active, idle, tstate, waitVars>>

-----------------------------------------------------------------------------
(* The worker threads.                                                     *)

Goto(w, s) == worker' = [worker EXCEPT ![w] = s]

\* ThreadData::run(): the latch is counted down before the function runs.
ThreadRun(w) ==
    /\ worker[w] = "born"
    /\ Goto(w, "loop")
    /\ UNCHANGED <<queueVars, ownerVars, held, active, idle, tstate, waitVars>>

\* The condition of the while loop in workerThread().
LoopCheck(w) ==
    /\ worker[w] = "loop"
    /\ Goto(w, IF started THEN "pop" ELSE "exited")
    /\ UNCHANGED <<queueVars, ownerVars, held, active, idle, tstate, waitVars>>

\* TaskQueue::pop(): nothing to do and not stopped, so wait.
PopWait(w) ==
    /\ worker[w] = "pop" /\ w \notin waiting
    /\ tasks = <<>> /\ ~stopped
    /\ waiting' = waiting \cup {w}
    /\ UNCHANGED <<tasks, stopped, ownerVars, worker, held, active, idle, tstate, waitVars>>

\* TaskQueue::pop() of a stopped queue returns nullptr, whatever is queued.
PopStopped(w) ==
    /\ worker[w] = "pop" /\ w \notin waiting
    /\ stopped
    /\ Goto(w, "loop")
    /\ UNCHANGED <<queueVars, ownerVars, held, active, idle, tstate, waitVars>>

\* TaskQueue::pop() takes the front of the queue.
PopTake(w) ==
    /\ worker[w] = "pop" /\ w \notin waiting
    /\ tasks # <<>> /\ ~stopped
    /\ held' = [held EXCEPT ![w] = Head(tasks)]
    /\ tasks' = Tail(tasks)
    /\ tstate' = [tstate EXCEPT ![Head(tasks)] = "held"]
    /\ Goto(w, "got")
    /\ UNCHANGED <<stopped, waiting, ownerVars, active, idle, waitVars>>

\* pthread_cond_wait() may return without a signal.
SpuriousWakeup(w) ==
    /\ w \in waiting
    /\ waiting' = waiting \ {w}
    /\ UNCHANGED <<tasks, stopped, ownerVars, worker, held, active, idle, tstate, waitVars>>

\* ++activeWorkers_
CountActive(w) ==
    /\ worker[w] = "got"
    /\ active' = active + 1
    /\ Goto(w, "counted")
    /\ UNCHANGED <<queueVars, ownerVars, held, idle, tstate, waitVars>>

\* --idleWorkers_, which wraps around at zero, and the call of the task.
RunTask(w) ==
    /\ worker[w] = "counted"
    /\ idle' = (idle + UIntMod - 1) % UIntMod
    /\ Goto(w, "running")
    /\ UNCHANGED <<queueVars, ownerVars, held, active, tstate, waitVars>>

\* The task returns or its exception is swallowed; --activeWorkers_.
FinishTask(w) ==
    /\ worker[w] = "running"
    /\ tstate' = [tstate EXCEPT ![held[w]] = "done"]
    /\ held' = [held EXCEPT ![w] = NoTask]
    /\ active' = active - 1
    /\ Goto(w, "ran")
    /\ UNCHANGED <<queueVars, ownerVars, idle, waitVars>>

\* ++idleWorkers_
CountIdle(w) ==
    /\ worker[w] = "ran"
    /\ idle' = (idle + 1) % UIntMod
    /\ Goto(w, "loop")
    /\ UNCHANGED <<queueVars, ownerVars, held, active, tstate, waitVars>>

-----------------------------------------------------------------------------
(* The threads that hand over tasks, and the one that calls wait().        *)

\* execute() reads started_ before it takes the queue's mutex.
Execute(t) ==
    /\ tstate[t] = "new"
    /\ tstate' = [tstate EXCEPT ![t] = IF started THEN "checked" ELSE "rejected"]
    /\ UNCHANGED <<queueVars, ownerVars, worker, held, active, idle, waitVars>>

\* notEmpty_.notify(): one blocked worker, if there is one.
Notify ==
    \/ /\ waiting = {}
       /\ UNCHANGED waiting
    \/ \E w \in waiting : waiting' = waiting \ {w}

\* Mutation of Push: the notification is forgotten.
PushSilently(t) ==
    /\ tasks' = Append(tasks, t)
    /\ tstate' = [tstate EXCEPT ![t] = "queued"]
    /\ UNCHANGED <<waiting, stopped, ownerVars, worker, held, active, idle, waitVars>>

\* TaskQueue::push(), which does not look at stopped_.
Push(t) ==
    /\ tasks' = Append(tasks, t)
    /\ tstate' = [tstate EXCEPT ![t] = "queued"]
    /\ Notify
    /\ UNCHANGED <<stopped, ownerVars, worker, held, active, idle, waitVars>>

\* The second half of execute().
ExecutePush(t) == tstate[t] = "checked" /\ Push(t)

\* submit() pushes whether or not the pool was started.
Submit(t) == tstate[t] = "new" /\ Push(t)

WaitCall ==
    /\ waiter \in {"out", "returned"}
    /\ waiter' = "size"
    /\ snapshot' = {t \in Task : tstate[t] \in {"queued", "held"}}
    /\ UNCHANGED <<queueVars, ownerVars, worker, held, active, idle, tstate>>

\* taskQueue_.size() > 0: sleep and look again, otherwise go on.
WaitSize ==
    /\ waiter = "size"
    /\ tasks = <<>>
    /\ waiter' = "active"
    /\ UNCHANGED <<queueVars, ownerVars, worker, held, active, idle, tstate, snapshot>>

\* activeWorkers_ > 0: sleep and look again, otherwise wait() returns.
WaitActive ==
    /\ waiter = "active"
    /\ waiter' = IF active > 0 THEN "size" ELSE "returned"
    /\ UNCHANGED <<queueVars, ownerVars, worker, held, active, idle, tstate, snapshot>>

-----------------------------------------------------------------------------
\* The steps of one worker that the scheduler must eventually let it take.
WorkerStep(w) ==
    \/ ThreadRun(w) \/ LoopCheck(w)
    \/ PopWait(w) \/ PopStopped(w) \/ PopTake(w)
    \/ CountActive(w) \/ RunTask(w) \/ FinishTask(w) \/ CountIdle(w)

\* The steps of start() and stop() once they have been called.
OwnerStep ==
    \/ SpawnWorker \/ SpawnReturns
    \/ QueueStop \/ JoinWorker \/ JoinAsserts

CallerStep(t) == Execute(t) \/ ExecutePush(t) \/ Submit(t)

WaiterStep == WaitCall \/ WaitSize \/ WaitActive

Live ==
    \/ Start \/ Stop \/ SpawnFails \/ OwnerStep
    \/ \E w \in Worker : WorkerStep(w) \/ SpuriousWakeup(w)
    \/ \E t \in Task : CallerStep(t)
    \/ WaiterStep

\* After abort() the process is gone.
Gone == ~Alive /\ UNCHANGED vars

Next == (Alive /\ Live) \/ Gone

Spec == Init /\ [][Next]_vars

\* The scheduler runs every thread, tasks return, and start() and stop()
\* carry on once called.  Nobody is obliged to call the pool.
Fairness ==
    /\ WF_vars(Alive /\ OwnerStep)
    /\ \A w \in Worker : WF_vars(Alive /\ WorkerStep(w))

FairSpec == Spec /\ Fairness

-----------------------------------------------------------------------------
(* Properties.                                                             *)

\* The variables of the pool, its queue and its callers have their types.
TypeOK ==
    /\ started \in BOOLEAN
    /\ tasks \in Seq(Task)
    /\ stopped \in BOOLEAN
    /\ waiting \subseteq Worker
    /\ worker \in [Worker -> WorkerState]
    /\ held \in [Worker -> Task \cup {NoTask}]
    /\ active \in Nat
    /\ idle \in 0..(UIntMod - 1)
    /\ owner \in OwnerState
    /\ index \in 1..(NumThreads + 1)
    /\ failures \in 0..MaxSpawnFailures
    /\ tstate \in [Task -> TaskState]
    /\ waiter \in WaiterState
    /\ snapshot \subseteq Task

\* A task taken by TaskQueue::pop() is never handed out again: it is at one
\* place of the queue or in the hands of one worker, never both, never twice.
TaskOwnedOnce ==
    /\ \A i, j \in DOMAIN tasks : tasks[i] = tasks[j] => i = j
    /\ \A i \in DOMAIN tasks : tstate[tasks[i]] = "queued"
    /\ \A v, w \in Worker : held[v] # NoTask /\ held[v] = held[w] => v = w
    /\ \A w \in Worker : held[w] # NoTask => tstate[held[w]] = "held"

\* The workers that are on their way to the queue and not blocked in it.
Popping == {w \in Worker : worker[w] = "pop"} \ waiting

\* No wakeup is lost between TaskQueue::push() and pop(): while some worker
\* is blocked, every queued task has an awake worker on its way to it, and
\* after TaskQueue::stop() nobody is blocked.
WorkConserving ==
    /\ waiting # {} => Len(tasks) <= Cardinality(Popping)
    /\ stopped => waiting = {}

\* The workers that are executing a task, as activeWorkers_ counts them.
Executing == {w \in Worker : worker[w] \in {"counted", "running"}}

\* activeWorkers_ is the number of workers between its ++ and its --.
ActiveExact == active = Cardinality(Executing)

\* After stop() has returned no worker runs, none holds a task, and nothing
\* can start one: pthread_join() has seen every thread leave workerThread().
QuietWhenDown ==
    owner = "down" =>
        /\ ~started
        /\ active = 0
        /\ waiting = {}
        /\ \A w \in Worker : worker[w] = "none" /\ held[w] = NoTask

\* wait() has seen the queue empty since it was called: of the tasks that
\* were unfinished at the call, none is still queued when it returns.
WaitDrainsQueue ==
    waiter \in {"active", "returned"} =>
        \A t \in snapshot : tstate[t] # "queued"

\* A task queued in a started pool is executed unless stop() intervenes.
TaskServed ==
    \A t \in Task :
        (tstate[t] = "queued" /\ started) ~> (tstate[t] = "done" \/ stopped)

\* stop() returns, unless an assertion of join() ends the process: no worker
\* stays blocked in the queue or in its loop.
StopReturns == (owner \in {"stopping", "joining"}) ~> (owner \in {"down", "aborted"})
===============================================================================
