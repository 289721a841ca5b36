------------------------- MODULE SessionManagerProofs -------------------------
(***************************************************************************)
(* Proofs about SessionManager, for every set of players and roles and     *)
(* any bound on the sessions: the lookups agree with the sessions, and the *)
(* manager implements the abstract registry of players and that of roles.  *)
(***************************************************************************)
EXTENDS SessionManager, TLAPS

\* Every call keeps the types.
LEMMA TypeStep ==
    ASSUME TypeOK, [Next]_vars
    PROVE  TypeOK'
<1> USE SessionBoundAssumption, IdAssumption DEF TypeOK, Session
<1>1. CASE createSession
  BY <1>1 DEF createSession
<1>2. ASSUME NEW s \in Session, removeSession(s)
      PROVE  TypeOK'
  BY <1>2 DEF removeSession, Erase
<1>3. ASSUME NEW s \in Session, NEW p \in Player, bindPlayer(s, p)
      PROVE  TypeOK'
  BY <1>3 DEF bindPlayer, roleVars
<1>4. ASSUME NEW s \in Session, NEW r \in Role, bindRole(s, r)
      PROVE  TypeOK'
  BY <1>4 DEF bindRole, playerVars
<1>5. ASSUME NEW p \in Player, unbindPlayer(p)
      PROVE  TypeOK'
  BY <1>5 DEF unbindPlayer, roleVars
<1>6. ASSUME NEW r \in Role, unbindRole(r)
      PROVE  TypeOK'
  BY <1>6 DEF unbindRole, playerVars
<1>7. CASE UNCHANGED vars
  BY <1>7 DEF vars, playerVars, roleVars
<1> QED
  BY <1>1, <1>2, <1>3, <1>4, <1>5, <1>6, <1>7 DEF Next

\* LookupAgrees in terms of the indexes alone.
PlayersIndexed == \A s \in sessions : playerId[s] # 0 => playerSessions[playerId[s]] = s
RolesIndexed == \A s \in sessions : roleId[s] # 0 => roleSessions[roleId[s]] = s

LEMMA IndexedIsLookup ==
    ASSUME TypeOK
    PROVE  LookupAgrees <=> PlayersIndexed /\ RolesIndexed
<1>1. 0 \notin sessions
  BY DEF TypeOK
<1> QED
  BY <1>1 DEF LookupAgrees, PlayersIndexed, RolesIndexed,
              getSessionByPlayerId, getSessionByRoleId

\* Every call keeps the players of live sessions in the index.
LEMMA PlayersStep ==
    ASSUME TypeOK, PlayersIndexed, [Next]_vars
    PROVE  PlayersIndexed'
<1> USE SessionBoundAssumption, IdAssumption DEF TypeOK, Session, PlayersIndexed
<1>1. CASE createSession
  BY <1>1 DEF createSession
<1>2. ASSUME NEW s \in Session, removeSession(s)
      PROVE  PlayersIndexed'
  BY <1>2 DEF removeSession, Erase
<1>3. ASSUME NEW s \in Session, NEW p \in Player, bindPlayer(s, p)
      PROVE  PlayersIndexed'
  BY <1>3 DEF bindPlayer
<1>4. ASSUME NEW s \in Session, NEW r \in Role, bindRole(s, r)
      PROVE  PlayersIndexed'
  BY <1>4 DEF bindRole, playerVars
<1>5. ASSUME NEW p \in Player, unbindPlayer(p)
      PROVE  PlayersIndexed'
  BY <1>5 DEF unbindPlayer
<1>6. ASSUME NEW r \in Role, unbindRole(r)
      PROVE  PlayersIndexed'
  BY <1>6 DEF unbindRole, playerVars
<1>7. CASE UNCHANGED vars
  BY <1>7 DEF vars, playerVars
<1> QED
  BY <1>1, <1>2, <1>3, <1>4, <1>5, <1>6, <1>7 DEF Next

\* Every call keeps the roles of live sessions in the index.
LEMMA RolesStep ==
    ASSUME TypeOK, RolesIndexed, [Next]_vars
    PROVE  RolesIndexed'
<1> USE SessionBoundAssumption, IdAssumption DEF TypeOK, Session, RolesIndexed
<1>1. CASE createSession
  BY <1>1 DEF createSession
<1>2. ASSUME NEW s \in Session, removeSession(s)
      PROVE  RolesIndexed'
  BY <1>2 DEF removeSession, Erase
<1>3. ASSUME NEW s \in Session, NEW p \in Player, bindPlayer(s, p)
      PROVE  RolesIndexed'
  BY <1>3 DEF bindPlayer, roleVars
<1>4. ASSUME NEW s \in Session, NEW r \in Role, bindRole(s, r)
      PROVE  RolesIndexed'
  BY <1>4 DEF bindRole
<1>5. ASSUME NEW p \in Player, unbindPlayer(p)
      PROVE  RolesIndexed'
  BY <1>5 DEF unbindPlayer, roleVars
<1>6. ASSUME NEW r \in Role, unbindRole(r)
      PROVE  RolesIndexed'
  BY <1>6 DEF unbindRole
<1>7. CASE UNCHANGED vars
  BY <1>7 DEF vars, roleVars
<1> QED
  BY <1>1, <1>2, <1>3, <1>4, <1>5, <1>6, <1>7 DEF Next

-----------------------------------------------------------------------------
ManagerInv == TypeOK /\ PlayersIndexed /\ RolesIndexed

\* The table, its indexes and the sessions stay consistent.
THEOREM ManagerInvariance == Spec => []ManagerInv
<1>1. Init => ManagerInv
  BY SessionBoundAssumption
  DEF Init, ManagerInv, TypeOK, PlayersIndexed, RolesIndexed, Session
<1>2. ManagerInv /\ [Next]_vars => ManagerInv'
  BY TypeStep, PlayersStep, RolesStep DEF ManagerInv
<1> QED
  BY <1>1, <1>2, PTL DEF Spec

\* Type correctness of the table and of its indexes.
THEOREM TypeCorrect == Spec => []TypeOK
<1>1. ManagerInv => TypeOK
  BY DEF ManagerInv
<1> QED
  BY <1>1, ManagerInvariance, PTL

\* Every player and role of a live session is found by the lookups, so two
\* live sessions never share one.
THEOREM LookupsAgree == Spec => []LookupAgrees
<1>1. ManagerInv => LookupAgrees
  BY IndexedIsLookup DEF ManagerInv
<1> QED
  BY <1>1, ManagerInvariance, PTL

-----------------------------------------------------------------------------
\* What one call may do to the session that a player is found under.
BindingKept(p) ==
    /\ getSessionByPlayerId(p) # 0 =>
           getSessionByPlayerId(p)' \in {0, getSessionByPlayerId(p)}
    /\ isPlayerOnline(p) /\ getSessionByPlayerId(p) = 0
           => getSessionByPlayerId(p)' = 0

LEMMA BindingStep ==
    ASSUME TypeOK, [Next]_vars, NEW p \in Player
    PROVE  BindingKept(p)
<1>0. 0 \notin sessions /\ 0 \notin sessions'
  BY TypeStep DEF TypeOK
<1> USE <1>0, SessionBoundAssumption, IdAssumption
        DEF TypeOK, Session, BindingKept, getSessionByPlayerId, isPlayerOnline
<1>1. CASE createSession
  <2>1. playerSessions'[p] = playerSessions[p]
    BY <1>1 DEF createSession
  <2>2. sessions' = sessions \cup {nextSessionId + 1}
    BY <1>1 DEF createSession
  <2>3. playerSessions[p] # nextSessionId + 1
    OBVIOUS
  <2> QED
    BY <2>1, <2>2, <2>3
<1>2. ASSUME NEW s \in Session, removeSession(s)
      PROVE  BindingKept(p)
  BY <1>2 DEF removeSession, Erase
<1>3. ASSUME NEW s \in Session, NEW q \in Player, bindPlayer(s, q)
      PROVE  BindingKept(p)
  BY <1>3 DEF bindPlayer
<1>4. ASSUME NEW q \in Player, unbindPlayer(q)
      PROVE  BindingKept(p)
  BY <1>4 DEF unbindPlayer
<1>5. CASE UNCHANGED <<sessions, playerVars>>
  BY <1>5 DEF playerVars
<1>6. ASSUME NEW r \in Role, unbindRole(r) \/ \E s \in Session : bindRole(s, r)
      PROVE  UNCHANGED <<sessions, playerVars>>
  BY <1>6 DEF unbindRole, bindRole
<1>7. UNCHANGED vars => UNCHANGED <<sessions, playerVars>>
  BY DEF vars
<1> QED
  BY <1>1, <1>2, <1>3, <1>4, <1>5, <1>6, <1>7 DEF Next

\* No call moves a player from one session to another, and no entry that
\* outlived its session comes to name a later one.
THEOREM BindingsStable == Spec => BindingStable
<1>1. TypeOK /\ [Next]_vars
         => [/\ \A p \in Player :
                   getSessionByPlayerId(p) # 0 =>
                       getSessionByPlayerId(p)' \in {0, getSessionByPlayerId(p)}
             /\ \A p \in Player :
                   isPlayerOnline(p) /\ getSessionByPlayerId(p) = 0
                       => getSessionByPlayerId(p)' = 0]_vars
  BY BindingStep DEF BindingKept
<1> QED
  BY <1>1, TypeCorrect, PTL DEF Spec, BindingStable

-----------------------------------------------------------------------------
\* A call of the manager is a step of the registry of players, or changes
\* nothing that the registry sees.
LEMMA PlayersRefine ==
    ASSUME TypeOK, PlayersIndexed, [Next]_vars
    PROVE  [Players!Next]_(Bound(playerId))
<1> DEFINE B == Bound(playerId)
<1> USE SessionBoundAssumption, IdAssumption DEF TypeOK, Session, Bound
<1>1. ASSUME createSession
      PROVE  UNCHANGED B
  BY <1>1 DEF createSession
<1>2. ASSUME NEW s \in Session, removeSession(s)
      PROVE  Players!Release(s)
  BY <1>2 DEF removeSession, Players!Release
<1>3. ASSUME NEW s \in Session, NEW p \in Player, bindPlayer(s, p)
      PROVE  Players!Take(s, p)
  <2>1. \A other \in Session \ {s} : B[other] # p
    BY <1>3 DEF bindPlayer, PlayersIndexed
  <2>2. B' = [B EXCEPT ![s] = p]
    BY <1>3 DEF bindPlayer
  <2> QED
    BY <2>1, <2>2 DEF Players!Take
<1>4. ASSUME NEW p \in Player, unbindPlayer(p)
      PROVE  \/ UNCHANGED B
             \/ playerSessions[p] \in Session /\ Players!Release(playerSessions[p])
  <2> DEFINE s == playerSessions[p]
  <2>1. CASE s \in sessions
    <3>1. s \in Session
      BY <2>1
    <3>2. playerId' = [playerId EXCEPT ![s] = 0] /\ sessions' = sessions
      BY <1>4, <2>1 DEF unbindPlayer
    <3> HIDE DEF s
    <3>3. B' = [B EXCEPT ![s] = 0]
      BY <2>1, <3>1, <3>2
    <3> USE DEF s
    <3> QED
      BY <3>1, <3>3 DEF Players!Release
  <2>2. CASE s \notin sessions
    BY <1>4, <2>2 DEF unbindPlayer
  <2> QED
    BY <2>1, <2>2
<1>5. ASSUME NEW r \in Role, unbindRole(r) \/ \E s \in Session : bindRole(s, r)
      PROVE  UNCHANGED B
  BY <1>5 DEF unbindRole, bindRole, playerVars
<1>6. ASSUME UNCHANGED vars
      PROVE  UNCHANGED B
  BY <1>6 DEF vars, playerVars
<1> HIDE DEF TypeOK, Session, Bound
<1>7. Players!Next \/ UNCHANGED B
  BY <1>1, <1>2, <1>3, <1>4, <1>5, <1>6 DEF Next, Players!Next
<1> QED
  BY <1>7

\* The same for the registry of roles.
LEMMA RolesRefine ==
    ASSUME TypeOK, RolesIndexed, [Next]_vars
    PROVE  [Roles!Next]_(Bound(roleId))
<1> DEFINE B == Bound(roleId)
<1> USE SessionBoundAssumption, IdAssumption DEF TypeOK, Session, Bound
<1>1. ASSUME createSession
      PROVE  UNCHANGED B
  BY <1>1 DEF createSession
<1>2. ASSUME NEW s \in Session, removeSession(s)
      PROVE  Roles!Release(s)
  BY <1>2 DEF removeSession, Roles!Release
<1>3. ASSUME NEW s \in Session, NEW r \in Role, bindRole(s, r)
      PROVE  Roles!Take(s, r)
  <2>1. \A other \in Session \ {s} : B[other] # r
    BY <1>3 DEF bindRole, RolesIndexed
  <2>2. B' = [B EXCEPT ![s] = r]
    BY <1>3 DEF bindRole
  <2> QED
    BY <2>1, <2>2 DEF Roles!Take
<1>4. ASSUME NEW r \in Role, unbindRole(r)
      PROVE  \/ UNCHANGED B
             \/ roleSessions[r] \in Session /\ Roles!Release(roleSessions[r])
  <2> DEFINE s == roleSessions[r]
  <2>1. CASE s \in sessions
    <3>1. s \in Session
      BY <2>1
    <3>2. roleId' = [roleId EXCEPT ![s] = 0] /\ sessions' = sessions
      BY <1>4, <2>1 DEF unbindRole
    <3> HIDE DEF s
    <3>3. B' = [B EXCEPT ![s] = 0]
      BY <2>1, <3>1, <3>2
    <3> USE DEF s
    <3> QED
      BY <3>1, <3>3 DEF Roles!Release
  <2>2. CASE s \notin sessions
    BY <1>4, <2>2 DEF unbindRole
  <2> QED
    BY <2>1, <2>2
<1>5. ASSUME NEW p \in Player, unbindPlayer(p) \/ \E s \in Session : bindPlayer(s, p)
      PROVE  UNCHANGED B
  BY <1>5 DEF unbindPlayer, bindPlayer, roleVars
<1>6. ASSUME UNCHANGED vars
      PROVE  UNCHANGED B
  BY <1>6 DEF vars, roleVars
<1> HIDE DEF TypeOK, Session, Bound
<1>7. Roles!Next \/ UNCHANGED B
  BY <1>1, <1>2, <1>3, <1>4, <1>5, <1>6 DEF Next, Roles!Next
<1> QED
  BY <1>7

\* SessionManager implements the abstract registry of players.
THEOREM PlayersImplemented == Spec => ImplementsPlayers
<1>1. Init => Players!Init
  BY DEF Init, Players!Init, Bound, Session
<1>2. ManagerInv /\ [Next]_vars => [Players!Next]_(Bound(playerId))
  BY PlayersRefine DEF ManagerInv
<1> QED
  BY <1>1, <1>2, ManagerInvariance, PTL DEF Spec, ImplementsPlayers, Players!Spec

\* SessionManager implements the abstract registry of roles.
THEOREM RolesImplemented == Spec => ImplementsRoles
<1>1. Init => Roles!Init
  BY DEF Init, Roles!Init, Bound, Session
<1>2. ManagerInv /\ [Next]_vars => [Roles!Next]_(Bound(roleId))
  BY RolesRefine DEF ManagerInv
<1> QED
  BY <1>1, <1>2, ManagerInvariance, PTL DEF Spec, ImplementsRoles, Roles!Spec
===============================================================================
