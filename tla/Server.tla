------------------------------- MODULE Server -------------------------------
(***************************************************************************)
(* core/server and the main() that drives it: init(), start() with its two *)
(* listening sockets and its error paths, stop(), which ~Server() calls    *)
(* once more.  A descriptor is a number that the kernel gives out again    *)
(* after it was closed, to whoever asks: the threads of the pool and the   *)
(* libraries open and close descriptors of their own all the time.         *)
(***************************************************************************)
EXTENDS Naturals, FiniteSets

CONSTANTS Fd,         \* descriptor numbers
          MaxStarts   \* bound on the calls of start()

VARIABLES running_,
          gatewayFd_, gameFd_,  \* -1 in the code is None
          threadPool_,          \* "none", "started", "stopped"
          open,                 \* descriptor -> who opened it: "server", "other", "nobody"
          starts,               \* calls of start() so far
          robbed                \* history: the server closed a descriptor of others

None == 0
vars == <<running_, gatewayFd_, gameFd_, threadPool_, open, starts, robbed>>
fds == <<gatewayFd_, gameFd_>>

Free == { d \in Fd : open[d] = "nobody" }

\* ::close() of the descriptors in a set, whoever has them.
close(ds) ==
  /\ open' = [d \in Fd |-> IF d \in ds THEN "nobody" ELSE open[d]]
  /\ robbed' = (robbed \/ \E d \in ds : open[d] = "other")

Init ==
  /\ running_ = FALSE /\ gatewayFd_ = None /\ gameFd_ = None
  /\ threadPool_ = "none" /\ starts = 0 /\ robbed = FALSE
  /\ open = [d \in Fd |-> "nobody"]

init ==
  /\ threadPool_ = "none"
  /\ threadPool_' = "started"
  /\ UNCHANGED <<running_, fds, open, starts, robbed>>

Starting == threadPool_ # "none" /\ ~running_ /\ starts < MaxStarts

\* The gateway's socket() fails: gatewayFd_ becomes -1.
startFails ==
  /\ Starting
  /\ starts' = starts + 1
  /\ gatewayFd_' = None
  /\ UNCHANGED <<running_, gameFd_, threadPool_, open, robbed>>

\* bind() or listen() of the gateway's socket fails; it is closed and forgotten.
startGatewayFails ==
  /\ Starting
  /\ Free # {}
  /\ starts' = starts + 1
  /\ gatewayFd_' = None
  /\ UNCHANGED <<running_, gameFd_, threadPool_, open, robbed>>

\* The second socket fails: socket() leaves -1 in gameFd_, bind() and listen()
\* the number of the socket that was closed; so is the gateway's, whose number
\* stays in gatewayFd_.
startGameFails ==
  /\ Starting
  /\ starts' = starts + 1
  /\ \E d \in Free :
       /\ gatewayFd_' = d
       /\ gameFd_' \in {None} \union (Free \ {d})
  /\ UNCHANGED <<running_, threadPool_, open, robbed>>

start ==
  /\ Starting
  /\ starts' = starts + 1
  /\ \E d \in Free : \E e \in Free \ {d} :
       /\ gatewayFd_' = d /\ gameFd_' = e
       /\ open' = [open EXCEPT ![d] = "server", ![e] = "server"]
  /\ running_' = TRUE
  /\ UNCHANGED <<threadPool_, robbed>>

\* Mutation of stop: it does not return early.
stopAlways ==
  /\ running_' = FALSE
  /\ close({gatewayFd_, gameFd_} \ {None})
  /\ gatewayFd_' = None /\ gameFd_' = None
  /\ threadPool_' = IF threadPool_ = "none" THEN "none" ELSE "stopped"
  /\ UNCHANGED starts

\* stop(), by main() or by ~Server(): nothing unless the server is running.
stop ==
  /\ running_
  /\ running_' = FALSE
  /\ close({gatewayFd_, gameFd_} \ {None})
  /\ gatewayFd_' = None /\ gameFd_' = None
  /\ threadPool_' = "stopped"
  /\ UNCHANGED starts

\* Another thread opens a descriptor, or closes its own.
Others ==
  /\ \E d \in Fd :
       \/ open[d] = "nobody" /\ open' = [open EXCEPT ![d] = "other"]
       \/ open[d] = "other" /\ open' = [open EXCEPT ![d] = "nobody"]
  /\ UNCHANGED <<running_, fds, threadPool_, starts, robbed>>

Next == init \/ startFails \/ startGatewayFails \/ startGameFails \/ start \/ stop \/ Others

Spec == Init /\ [][Next]_vars

-----------------------------------------------------------------------------
(* Properties. *)

\* Through failed and repeated starts the server has exactly its two listening
\* sockets open while it runs and none otherwise, and though a failed start()
\* leaves numbers of closed descriptors behind, it never closes one that was
\* given to somebody else meanwhile.
DescriptorsOwned ==
  /\ ~robbed
  /\ { d \in Fd : open[d] = "server" } = IF running_ THEN {gatewayFd_, gameFd_} ELSE {}
  /\ running_ => gatewayFd_ # gameFd_
=============================================================================
