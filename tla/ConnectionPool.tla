---------------------------- MODULE ConnectionPool ----------------------------
(***************************************************************************)
(* MySQLConnectionPool (src/database/mysql), used through                  *)
(* MySQLConnectionGuard by the game modules; RedisPool (src/database/redis)*)
(* is the same machine without checkConnections().                         *)
(*                                                                         *)
(* Every method holds mutex_ except while it waits in notEmpty_, so the    *)
(* part of getConnection() from its entry or its wakeup to its return or   *)
(* its next wait is one action.  Whether the database accepts a connection *)
(* and when a link breaks is up to the environment.                        *)
(***************************************************************************)
EXTENDS Naturals, Sequences, FiniteSets

CONSTANTS
    Client,          \* the threads that run game modules
    NoConn,          \* the null pointer
    MinConnections,  \* config_.minConnections
    MaxConnections,  \* config_.maxConnections
    MaxCreated       \* bound on the connections ever created

ASSUME PoolConfigAssumption ==
    /\ MinConnections \in Nat
    /\ MaxConnections \in Nat
    /\ MaxCreated \in Nat
    /\ MinConnections <= MaxCreated
ASSUME NoConnAssumption == NoConn \notin Nat
ASSUME ClientAssumption == IsFiniteSet(Client)

Conn == 1..MaxCreated

VARIABLES
    phase,    \* "running" iff running_; the other values tell why it is not
    pool,     \* pool_
    all,      \* allConnections_, whose order nothing depends on
    client,   \* where each client thread is
    held,     \* the conn_ of each client's guard
    created,  \* how many connections createConnection() has returned
    broken    \* the connections whose link is down: ping() fails

connVars == <<created, broken>>
vars == <<phase, pool, all, client, held, created, broken>>

Phase == {"built", "running", "failed", "closed"}
ClientState == {"out", "waiting", "woken", "holding"}

Running == phase = "running"
In(s) == {c \in Client : client[c] = s}

Init ==
    /\ phase = "built"
    /\ pool = <<>>
    /\ all = {}
    /\ client = [c \in Client |-> "out"]
    /\ held = [c \in Client |-> NoConn]
    /\ created = 0
    /\ broken = {}

-----------------------------------------------------------------------------
\* init() makes the minimum of connections; when one fails, the ones made
\* before it stay and running_ is not set.  GameServer::init() calls it once,
\* on a fresh pool.
initPool ==
    /\ phase = "built"
    /\ \E n \in 0..MinConnections :
          /\ pool' = [i \in 1..n |-> i]
          /\ all' = 1..n
          /\ created' = n
          /\ phase' = IF n = MinConnections THEN "running" ELSE "failed"
    /\ UNCHANGED <<client, held, broken>>

\* The client is at the head of the loop of getConnection(): it enters while
\* running_ is set, or it was woken, after which running_ is not read again.
AtLoop(c) ==
    \/ client[c] = "out" /\ Running
    \/ client[c] = "woken"

Hold(c, conn) ==
    /\ client' = [client EXCEPT ![c] = "holding"]
    /\ held' = [held EXCEPT ![c] = conn]

\* pool_ is empty, there is room, and createConnection() succeeds.
CreateNew(c) ==
    /\ AtLoop(c)
    /\ pool = <<>>
    /\ Cardinality(all) < MaxConnections
    /\ created < MaxCreated
    /\ created' = created + 1
    /\ all' = all \cup {created + 1}
    /\ Hold(c, created + 1)
    /\ UNCHANGED <<phase, pool, broken>>

\* pool_ is empty and there is no room, or createConnection() fails.
Wait(c) ==
    /\ AtLoop(c)
    /\ pool = <<>>
    /\ client' = [client EXCEPT ![c] = "waiting"]
    /\ UNCHANGED <<phase, pool, all, held, connVars>>

\* Mutation of TakeFront: the front of pool_ is not popped.
TakeFrontNoPop(c) ==
    /\ AtLoop(c)
    /\ pool # <<>>
    /\ Hold(c, Head(pool))
    /\ broken' = broken \ {Head(pool)}
    /\ UNCHANGED <<phase, pool, all, created>>

\* The front of pool_ answers ping(), or it does not and reconnects.
TakeFront(c) ==
    /\ AtLoop(c)
    /\ pool # <<>>
    /\ pool' = Tail(pool)
    /\ Hold(c, Head(pool))
    /\ broken' = broken \ {Head(pool)}
    /\ UNCHANGED <<phase, all, created>>

\* The front of pool_ fails ping() and cannot reconnect: getConnection()
\* returns nullptr, and the connection goes neither back nor out of all.
TakeDead(c) ==
    /\ AtLoop(c)
    /\ pool # <<>>
    /\ Head(pool) \in broken
    /\ pool' = Tail(pool)
    /\ client' = [client EXCEPT ![c] = "out"]
    /\ UNCHANGED <<phase, all, held, connVars>>

\* Mutation of Timeout: getConnection() waits without a timeout.
TimeoutNever(c) == FALSE

\* waitFor() times out and getConnection() returns nullptr.
Timeout(c) ==
    /\ client[c] = "waiting"
    /\ client' = [client EXCEPT ![c] = "out"]
    /\ UNCHANGED <<phase, pool, all, held, connVars>>

\* pthread_cond_timedwait() may return 0 without a signal.
SpuriousWakeup(c) ==
    /\ client[c] = "waiting"
    /\ client' = [client EXCEPT ![c] = "woken"]
    /\ UNCHANGED <<phase, pool, all, held, connVars>>

\* Client c leaves, and notEmpty_.notify() wakes one waiting client.
LeaveAndNotify(c) ==
    \/ /\ In("waiting") = {}
       /\ client' = [client EXCEPT ![c] = "out"]
    \/ \E w \in In("waiting") :
          client' = [client EXCEPT ![c] = "out", ![w] = "woken"]

\* Mutation of returnConnection: notEmpty_.notify() is forgotten.
returnConnectionSilently(c) ==
    /\ client[c] = "holding"
    /\ held' = [held EXCEPT ![c] = NoConn]
    /\ pool' = IF Running THEN Append(pool, held[c]) ELSE pool
    /\ client' = [client EXCEPT ![c] = "out"]
    /\ UNCHANGED <<phase, all, connVars>>

\* returnConnection(), from the destructor of the guard; outside running_ the
\* connection is dropped.
returnConnection(c) ==
    /\ client[c] = "holding"
    /\ held' = [held EXCEPT ![c] = NoConn]
    /\ IF Running
       THEN pool' = Append(pool, held[c]) /\ LeaveAndNotify(c)
       ELSE UNCHANGED pool /\ client' = [client EXCEPT ![c] = "out"]
    /\ UNCHANGED <<phase, all, connVars>>

\* checkConnections() reconnects what it can of allConnections_, also the
\* connections that clients hold or that getConnection() lost.
checkConnections ==
    /\ \E repaired \in SUBSET (all \cap broken) : broken' = broken \ repaired
    /\ UNCHANGED <<phase, pool, all, client, held, created>>

close ==
    /\ phase' = "closed"
    /\ client' = [c \in Client |-> IF client[c] = "waiting" THEN "woken" ELSE client[c]]
    /\ pool' = <<>>
    /\ all' = {}
    /\ UNCHANGED <<held, connVars>>

\* The link of an existing connection breaks.
LinkBreaks ==
    /\ \E conn \in 1..created : broken' = broken \cup {conn}
    /\ UNCHANGED <<phase, pool, all, client, held, created>>

-----------------------------------------------------------------------------
\* One critical section of getConnection(), in RedisPool as in
\* MySQLConnectionPool.
GetStep(c) == CreateNew(c) \/ Wait(c) \/ TakeFront(c) \/ TakeDead(c)

Next ==
    \/ initPool \/ checkConnections \/ close \/ LinkBreaks
    \/ \E c \in Client :
          GetStep(c) \/ Timeout(c) \/ SpuriousWakeup(c) \/ returnConnection(c)

Spec == Init /\ [][Next]_vars

\* A woken client gets the mutex, and a wait that nobody ends times out.
Fairness ==
    \A c \in Client :
        /\ WF_vars(client[c] = "woken" /\ GetStep(c))
        /\ WF_vars(Timeout(c))

FairSpec == Spec /\ Fairness

-----------------------------------------------------------------------------
\* The pool and its clients have their types.
TypeOK ==
    /\ phase \in Phase
    /\ pool \in Seq(Conn)
    /\ all \subseteq Conn
    /\ client \in [Client -> ClientState]
    /\ held \in [Client -> Conn \cup {NoConn}]
    /\ created \in 0..MaxCreated
    /\ broken \subseteq Conn

\* A connection is used by one thread at a time: it is at one place of pool_
\* or in the guard of one client, never both, whatever waits, timeouts,
\* reconnects and close() come in between.
ExclusiveUse ==
    /\ \A i, j \in DOMAIN pool : pool[i] = pool[j] => i = j
    /\ \A c \in Client : \A i \in DOMAIN pool : held[c] # pool[i]
    /\ \A c, d \in Client : held[c] # NoConn /\ held[c] = held[d] => c = d

\* While the pool runs, every connection that it or a client has is counted
\* in allConnections_, so that no more than the configured number is open.
Accounted ==
    /\ Running => /\ \A i \in DOMAIN pool : pool[i] \in all
                  /\ \A c \in Client : held[c] # NoConn => held[c] \in all
    /\ Cardinality(all) <= MaxConnections \/ Cardinality(all) <= MinConnections

\* No notification of returnConnection() is lost: while a client waits, every
\* connection in pool_ has a woken client on its way to it.
NoLostWakeup ==
    In("waiting") # {} => Len(pool) <= Cardinality(In("woken"))

\* From now on nobody calls getConnection() or close(), and no wakeup is
\* spurious.
Calm ==
    /\ ~close
    /\ \A c \in Client : ~(client[c] = "out" /\ GetStep(c)) /\ ~SpuriousWakeup(c)

\* Every getConnection() call returns, with a connection or with nullptr,
\* unless clients that come later overtake it for ever: a client that is
\* woken and finds pool_ empty again waits anew with its full timeout.
GetReturns ==
    (<>[][Calm]_vars)
        => \A c \in Client : client[c] \in {"waiting", "woken"}
                                ~> client[c] \in {"out", "holding"}

===============================================================================
