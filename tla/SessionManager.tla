---------------------------- MODULE SessionManager ----------------------------
(***************************************************************************)
(* SessionManager (src/core/session): the table of sessions and the two    *)
(* indexes from players and from roles to sessions.                        *)
(*                                                                         *)
(* Every method holds mutex_ from its first to its last line, so each one  *)
(* is one action.  The hash maps are functions: 0 as the value of an index *)
(* means that the key is absent, and `sessions` is the key set of          *)
(* sessions_.  A call that is refused changes nothing.                     *)
(*                                                                         *)
(* The ids of a session are changed here by the manager only.  Handlers    *)
(* that set them without it (login_module.cpp:80, role_module.cpp:141) and *)
(* SessionPool::release() are outside this module; Login has those of the  *)
(* login.                                                                  *)
(***************************************************************************)
EXTENDS Naturals

CONSTANTS
    Player,       \* player ids, positive
    Role,         \* role ids, positive
    MaxSessions   \* bound on the sessions created

ASSUME IdAssumption == Player \subseteq Nat \ {0} /\ Role \subseteq Nat \ {0}
ASSUME SessionBoundAssumption == MaxSessions \in Nat

Session == 1..MaxSessions

VARIABLES
    nextSessionId,   \* nextSessionId_
    sessions,        \* keys of sessions_
    playerId,        \* Session::playerId_ of each session, 0 if none
    roleId,          \* Session::roleId_ of each session, 0 if none
    playerSessions,  \* playerSessions_
    roleSessions     \* roleSessions_

playerVars == <<playerId, playerSessions>>
roleVars == <<roleId, roleSessions>>
vars == <<nextSessionId, sessions, playerVars, roleVars>>

Init ==
    /\ nextSessionId = 0
    /\ sessions = {}
    /\ playerId = [s \in Session |-> 0]
    /\ roleId = [s \in Session |-> 0]
    /\ playerSessions = [p \in Player |-> 0]
    /\ roleSessions = [r \in Role |-> 0]

createSession ==
    /\ nextSessionId < MaxSessions
    /\ nextSessionId' = nextSessionId + 1
    /\ sessions' = sessions \cup {nextSessionId + 1}
    /\ playerId' = [playerId EXCEPT ![nextSessionId + 1] = 0]
    /\ roleId' = [roleId EXCEPT ![nextSessionId + 1] = 0]
    /\ UNCHANGED <<playerSessions, roleSessions>>

\* erase() of the key i, if the session has one.
Erase(index, i) == [k \in DOMAIN index |-> IF k = i THEN 0 ELSE index[k]]

\* The index entries of the ids that the session has now are erased with it.
removeSession(s) ==
    /\ s \in sessions
    /\ sessions' = sessions \ {s}
    /\ playerSessions' = Erase(playerSessions, playerId[s])
    /\ roleSessions' = Erase(roleSessions, roleId[s])
    /\ UNCHANGED <<nextSessionId, playerId, roleId>>

\* Mutation of bindPlayer: a player bound to another session is taken over.
bindPlayerTakesOver(s, p) ==
    /\ s \in sessions
    /\ playerId' = [playerId EXCEPT ![s] = p]
    /\ playerSessions' = [playerSessions EXCEPT ![p] = s]
    /\ UNCHANGED <<nextSessionId, sessions, roleVars>>

\* Refused when the player is bound to another session.  The entry of the
\* player that the session had before stays in playerSessions_.
bindPlayer(s, p) ==
    /\ s \in sessions
    /\ playerSessions[p] \in {0, s}
    /\ playerId' = [playerId EXCEPT ![s] = p]
    /\ playerSessions' = [playerSessions EXCEPT ![p] = s]
    /\ UNCHANGED <<nextSessionId, sessions, roleVars>>

bindRole(s, r) ==
    /\ s \in sessions
    /\ roleSessions[r] \in {0, s}
    /\ roleId' = [roleId EXCEPT ![s] = r]
    /\ roleSessions' = [roleSessions EXCEPT ![r] = s]
    /\ UNCHANGED <<nextSessionId, sessions, playerVars>>

\* Mutation of unbindPlayer: the session keeps the player that the index
\* no longer knows.
unbindPlayerIndexOnly(p) ==
    /\ playerSessions[p] # 0
    /\ playerSessions' = [playerSessions EXCEPT ![p] = 0]
    /\ UNCHANGED <<nextSessionId, sessions, playerId, roleVars>>

\* The session that the index names loses whatever player it has by now.
unbindPlayer(p) ==
    /\ playerSessions[p] # 0
    /\ playerId' = IF playerSessions[p] \in sessions
                   THEN [playerId EXCEPT ![playerSessions[p]] = 0]
                   ELSE playerId
    /\ playerSessions' = [playerSessions EXCEPT ![p] = 0]
    /\ UNCHANGED <<nextSessionId, sessions, roleVars>>

unbindRole(r) ==
    /\ roleSessions[r] # 0
    /\ roleId' = IF roleSessions[r] \in sessions
                 THEN [roleId EXCEPT ![roleSessions[r]] = 0]
                 ELSE roleId
    /\ roleSessions' = [roleSessions EXCEPT ![r] = 0]
    /\ UNCHANGED <<nextSessionId, sessions, playerVars>>

Next ==
    \/ createSession
    \/ \E s \in Session :
          \/ removeSession(s)
          \/ \E p \in Player : bindPlayer(s, p)
          \/ \E r \in Role : bindRole(s, r)
    \/ \E p \in Player : unbindPlayer(p)
    \/ \E r \in Role : unbindRole(r)

Spec == Init /\ [][Next]_vars

-----------------------------------------------------------------------------
\* getSessionByPlayerId(), which looks the indexed session up in sessions_;
\* 0 stands for the null pointer.
getSessionByPlayerId(p) ==
    IF playerSessions[p] \in sessions THEN playerSessions[p] ELSE 0

getSessionByRoleId(r) ==
    IF roleSessions[r] \in sessions THEN roleSessions[r] ELSE 0

isPlayerOnline(p) == playerSessions[p] # 0

-----------------------------------------------------------------------------
\* The table and its indexes have their types.
TypeOK ==
    /\ nextSessionId \in 0..MaxSessions
    /\ sessions \subseteq 1..nextSessionId
    /\ playerId \in [Session -> Player \cup {0}]
    /\ roleId \in [Session -> Role \cup {0}]
    /\ playerSessions \in [Player -> 0..nextSessionId]
    /\ roleSessions \in [Role -> 0..nextSessionId]

\* getSessionByPlayerId() and getSessionByRoleId() find the session of every
\* player and role that a live session claims to have, so that no two live
\* sessions have the same player or the same role, however binds, unbinds
\* and removals of several sessions interleave.
LookupAgrees ==
    \A s \in sessions :
        /\ playerId[s] # 0 => getSessionByPlayerId(playerId[s]) = s
        /\ roleId[s] # 0 => getSessionByRoleId(roleId[s]) = s

\* A player is never moved from one session to another in one step: the
\* session that getSessionByPlayerId() returns changes only by becoming null.
\* An entry that outlived its session never comes to name a later session,
\* because createSession() does not use an id again.
BindingStable ==
    [][/\ \A p \in Player :
             getSessionByPlayerId(p) # 0 =>
                 getSessionByPlayerId(p)' \in {0, getSessionByPlayerId(p)}
       /\ \A p \in Player :
             isPlayerOnline(p) /\ getSessionByPlayerId(p) = 0
                 => getSessionByPlayerId(p)' = 0]_vars

\* The sessions and their ids as an abstract registry sees them.
Bound(id) == [s \in Session |-> IF s \in sessions THEN id[s] ELSE 0]

Players == INSTANCE PlayerRegistry
           WITH Id <- Player, NoId <- 0, bound <- Bound(playerId)
Roles == INSTANCE PlayerRegistry
         WITH Id <- Role, NoId <- 0, bound <- Bound(roleId)

\* The binds and removals implement the registry of players: a session takes
\* a player only while no other live session has it.
ImplementsPlayers == Players!Spec

\* The same for roles.
ImplementsRoles == Roles!Spec

===============================================================================
