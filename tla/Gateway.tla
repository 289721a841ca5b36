------------------------------- MODULE Gateway --------------------------------
(***************************************************************************)
(* GatewayServer (src/gateway): it accepts clients, keeps their connections *)
(* in connections_ and drops them when they are closed.  A connection lives *)
(* as long as somebody holds a Ptr to it: connections_, the local variable  *)
(* of onNewConnection(), the guard of handleClose().  All of this runs in   *)
(* the loop thread; connections_ and the functors are what lasts from one   *)
(* callback to the next.                                                    *)
(***************************************************************************)
EXTENDS Naturals, Sequences

CONSTANT MaxConns    \* bound on the clients that are accepted

VARIABLES
    running,      \* running_
    listening,    \* whether listenChannel_ is there and reads
    nextConnId,   \* nextConnId_
    connections,  \* the keys of connections_
    accepting,    \* the connection that onNewConnection() holds, or 0
    alive,        \* the connections that are not destroyed
    state,        \* state_ of every connection that was made
    functors      \* the connections that have a forceCloseInLoop() queued

vars == <<running, listening, nextConnId, connections, accepting, alive, state, functors>>

Init ==
    /\ running = FALSE /\ listening = FALSE
    /\ nextConnId = 0 /\ connections = {} /\ accepting = 0
    /\ alive = {} /\ state = <<>> /\ functors = {}

\* start(), after init() has bound the socket.
start ==
    /\ ~running
    /\ running' = TRUE /\ listening' = TRUE
    /\ UNCHANGED <<nextConnId, connections, accepting, alive, state, functors>>

\* onNewConnection(), up to connectEstablished().
onNewConnection ==
    /\ listening /\ accepting = 0 /\ nextConnId < MaxConns
    /\ nextConnId' = nextConnId + 1
    /\ connections' = connections \cup {nextConnId'}
    /\ alive' = alive \cup {nextConnId'}
    /\ accepting' = nextConnId'
    /\ state' = Append(state, "Connecting")
    /\ UNCHANGED <<running, listening, functors>>

\* onConnectionClosed(), the callback that every connection is given.
onConnectionClosed(c) == connections' = connections \ {c}

\* connectEstablished(), which calls the connection callback, and the return
\* of onNewConnection(), which gives its Ptr up.
connectEstablished ==
    /\ accepting # 0
    /\ state' = [state EXCEPT ![accepting] = "Connected"]
    /\ onConnectionClosed(accepting)
    /\ accepting' = 0
    /\ alive' = {c \in alive : c = accepting => c \in connections'}
    /\ UNCHANGED <<running, listening, nextConnId, functors>>

\* handleClose() of a connection whose client has gone.
handleClose(c) ==
    /\ accepting = 0 /\ c \in alive /\ state[c] \in {"Connected", "Disconnecting"}
    /\ state' = [state EXCEPT ![c] = "Disconnected"]
    /\ onConnectionClosed(c)
    /\ alive' = alive \ {c}
    /\ UNCHANGED <<running, listening, nextConnId, accepting, functors>>

\* stop(): forceClose() of every connection, and connections_.clear().
stop ==
    /\ running /\ accepting = 0
    /\ running' = FALSE /\ listening' = FALSE
    /\ state' = [c \in DOMAIN state |->
                    IF c \in connections /\ state[c] = "Connected" THEN "Disconnecting" ELSE state[c]]
    /\ functors' = functors \cup {c \in connections : state[c] \in {"Connected", "Disconnecting"}}
    /\ connections' = {}
    /\ alive' = alive \ connections
    /\ UNCHANGED <<nextConnId, accepting>>

\* forceCloseInLoop(), whose functor has the address of the connection but no
\* Ptr to it; of a destroyed connection it may find any state_.
forceCloseInLoop(c) ==
    /\ accepting = 0 /\ c \in functors
    /\ functors' = functors \ {c}
    /\ \/ /\ c \in alive /\ state[c] # "Disconnected"
          /\ state' = [state EXCEPT ![c] = "Disconnected"]
          /\ onConnectionClosed(c)
          /\ alive' = alive \ {c}
       \/ /\ c \notin alive \/ state[c] = "Disconnected"
          /\ UNCHANGED <<state, connections, alive>>
    /\ UNCHANGED <<running, listening, nextConnId, accepting>>

Next ==
    \/ start \/ onNewConnection \/ connectEstablished \/ stop
    \/ \E c \in alive : handleClose(c)
    \/ \E c \in functors : forceCloseInLoop(c)

Spec == Init /\ [][Next]_vars

-----------------------------------------------------------------------------
\* ~Connection() asserts that the connection it destroys is disconnected: the
\* gateway gives a connection up only after it was closed.
DestroyedDisconnected == \A c \in DOMAIN state \ alive : state[c] = "Disconnected"
===============================================================================
