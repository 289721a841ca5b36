---------------------------- MODULE GameProofs ----------------------------
(***************************************************************************)
(* Proofs about the components that MCGame puts side by side, each from    *)
(* its own specification and for every value of its constants: scenes and  *)
(* their areas of interest, the codecs, the message queue, the timer       *)
(* wheel, the typed streams and the server's sockets.  The last theorem    *)
(* brings them together for the specification of the run.                  *)
(***************************************************************************)
EXTENDS MCGame, Sequences, FiniteSetTheorems, WellFoundedInduction, TLAPS

-----------------------------------------------------------------------------
(* Arithmetic of the cells. *)

\* A quotient of natural numbers is one.
LEMMA QuotientNatural ==
  ASSUME NEW a \in Nat, NEW b \in Nat \ {0}
  PROVE  a \div b \in Nat
  BY Z3

\* A number that is at least the divisor has a positive quotient.
LEMMA QuotientPositive ==
  ASSUME NEW a \in Nat, NEW b \in Nat \ {0}, a >= b
  PROVE  a \div b \in Nat \ {0}
  BY Z3

\* Column and row give an index inside the array of cells.
LEMMA IndexInside ==
  ASSUME NEW g \in Nat \ {0}, NEW h \in Nat \ {0},
         NEW y \in 0 .. h - 1, NEW x \in 0 .. g - 1
  PROVE  y * g + x \in 0 .. g * h - 1
  BY Z3

\* The row is found again in the index.
LEMMA RowOfIndex ==
  ASSUME NEW g \in Nat \ {0}, NEW y \in Nat, NEW x \in 0 .. g - 1
  PROVE  (y * g + x) \div g = y
  BY Z3

\* The column is found again in the index.
LEMMA ColumnOfIndex ==
  ASSUME NEW g \in Nat \ {0}, NEW y \in Nat, NEW x \in 0 .. g - 1
  PROVE  (y * g + x) % g = x
  BY Z3

\* Positions that are no further apart than a cell are in adjacent cells.
LEMMA Adjacent ==
  ASSUME NEW w \in Nat \ {0}, NEW a \in Nat, NEW b \in Nat, a <= b, b - a <= w
  PROVE  (b \div w) - (a \div w) \in 0..1
  BY Z3

\* Clamping at the border keeps them adjacent.
LEMMA ClampedAdjacent ==
  ASSUME NEW w \in Nat \ {0}, NEW g \in Nat \ {0},
         NEW a \in Nat, NEW b \in Nat, Apart(a, b) <= w
  PROVE  Least(b \div w, g - 1) - Least(a \div w, g - 1) \in -1..1
<1> /\ a \div w \in Nat
    /\ b \div w \in Nat
  BY QuotientNatural
<1>1. CASE a <= b
  <2>1. (b \div w) - (a \div w) \in 0..1
    BY <1>1, Adjacent DEF Apart
  <2> QED
    BY <2>1 DEF Least
<1>2. CASE b <= a
  <2>1. (a \div w) - (b \div w) \in 0..1
    BY <1>2, Adjacent DEF Apart
  <2> QED
    BY <2>1 DEF Least
<1> QED
  BY <1>1, <1>2

\* A side has at least one cell, and a cell at least one pixel.
LEMMA Sides ==
  ASSUME NEW side \in Nat \ {0}
  PROVE  GridsOf(side) \in Nat \ {0} /\ CellOf(side) \in Nat \ {0}
<1>1. GridsOf(side) \in Nat \ {0}
  <2>1. side + CellSize - 1 \in Nat /\ side + CellSize - 1 >= CellSize
    BY SceneAssumption
  <2> QED
    BY <2>1, QuotientPositive, SceneAssumption DEF GridsOf
<1>2. side + GridsOf(side) - 1 \in Nat /\ side + GridsOf(side) - 1 >= GridsOf(side)
  BY <1>1
<1> QED
  BY <1>1, <1>2, QuotientPositive DEF CellOf

-----------------------------------------------------------------------------
(* The geometry of a scene. *)

\* The column and the row of the cell a position is in.
Column(s, p) == Least(p[1] \div gridWidth(s), gridX(s) - 1)
Row(s, p) == Least(p[2] \div gridHeight(s), gridY(s) - 1)

\* The cells of a scene: their size and their number are positive.
LEMMA Dimensions ==
  ASSUME TypeOK, NEW s \in 1..MaxScenes
  PROVE  /\ gridX(s) \in Nat \ {0} /\ gridY(s) \in Nat \ {0}
         /\ gridWidth(s) \in Nat \ {0} /\ gridHeight(s) \in Nat \ {0}
<1>1. size[s][1] \in Nat \ {0} /\ size[s][2] \in Nat \ {0}
  BY SceneAssumption DEF TypeOK
<1> QED
  BY <1>1, Sides DEF gridX, gridY, gridWidth, gridHeight

\* Every position is in a column and a row of the scene.
LEMMA Cell ==
  ASSUME TypeOK, NEW s \in 1..MaxScenes, NEW p \in Positions
  PROVE  /\ Column(s, p) \in 0 .. gridX(s) - 1
         /\ Row(s, p) \in 0 .. gridY(s) - 1
         /\ positionToGrid(s, p) = Row(s, p) * gridX(s) + Column(s, p)
<1>1. p[1] \in Nat /\ p[2] \in Nat
  BY SceneAssumption
<1>2. /\ gridX(s) \in Nat \ {0} /\ gridY(s) \in Nat \ {0}
      /\ gridWidth(s) \in Nat \ {0} /\ gridHeight(s) \in Nat \ {0}
  BY Dimensions
<1>3. p[1] \div gridWidth(s) \in Nat /\ p[2] \div gridHeight(s) \in Nat
  BY <1>1, <1>2, QuotientNatural
<1>4. Column(s, p) \in 0 .. gridX(s) - 1 /\ Row(s, p) \in 0 .. gridY(s) - 1
  BY <1>2, <1>3 DEF Column, Row, Least
<1> QED
  BY <1>4 DEF positionToGrid, Column, Row

\* The array of a scene has a cell for every position, so no cell is NoCell.
LEMMA GridInside ==
  ASSUME TypeOK, NEW s \in 1..MaxScenes, NEW p \in Positions
  PROVE  /\ positionToGrid(s, p) \in 0 .. gridX(s) * gridY(s) - 1
         /\ positionToGrid(s, p) \in Int
         /\ positionToGrid(s, p) # NoCell
<1>1. positionToGrid(s, p) \in 0 .. gridX(s) * gridY(s) - 1
  BY Dimensions, Cell, IndexInside
<1>2. gridX(s) * gridY(s) \in Int
  BY Dimensions
<1> QED
  BY <1>1, <1>2 DEF NoCell

\* A position is not the mark of an absent role.
LEMMA PositionPresent ==
  ASSUME NEW p \in Positions
  PROVE  p # Absent
  BY SceneAssumption DEF Absent

-----------------------------------------------------------------------------
(* The steps. *)

\* The geometry of the scenes never changes.
LEMMA GeometryFixed ==
  ASSUME [Next]_vars
  PROVE  size' = size
  BY DEF Next, vars, createScene, destroyScene, leaveScene, leave, enterScene, enter, move

\* What an operation does to the contents of the scenes.
LEMMA ContentSteps ==
  ASSUME TypeOK, [Next]_vars
  PROVE  \/ UNCHANGED contents
         \/ \E s \in 1..MaxScenes, r \in Role, p \in Positions : SceneEnter(s, r, p)
         \/ \E s \in 1..MaxScenes, r \in Role : SceneLeave(s, r)
         \/ \E s \in 1..MaxScenes, r \in Role, p \in Positions : move(s, r, p)
<1>1. Created \subseteq 1..MaxScenes
  BY SceneAssumption DEF TypeOK, Created
<1>2. CASE UNCHANGED vars
  BY <1>2 DEF vars
<1>3. CASE createScene \/ (\E s \in Created : destroyScene(s)) \/ \E r \in Role : leaveScene(r)
  BY <1>3 DEF createScene, destroyScene, leaveScene
<1>4. ASSUME NEW s \in Created, NEW r \in Role, leave(s, r)
      PROVE  \E q \in Role : SceneLeave(s, q)
  BY <1>4 DEF leave
<1>5. ASSUME NEW s \in Created, NEW r \in Role, NEW p \in Positions, enterScene(s, r, p) \/ enter(s, r, p)
      PROVE  SceneEnter(s, r, p)
  BY <1>5 DEF enterScene, enter
<1> QED
  BY <1>1, <1>2, <1>3, <1>4, <1>5 DEF Next

\* Put() keeps the type of a map of maps.
LEMMA PutMap ==
  ASSUME NEW S, NEW f \in [1..MaxScenes -> [Role -> S]],
         NEW s \in 1..MaxScenes, NEW r \in Role, NEW v \in S
  PROVE  Put(f, s, r, v) \in [1..MaxScenes -> [Role -> S]]
  BY DEF Put

\* Two maps of the roles that agree everywhere are equal.
LEMMA SameMap ==
  ASSUME NEW S, NEW f \in [Role -> S], NEW g \in [Role -> S],
         \A q \in Role : f[q] = g[q]
  PROVE  f = g
  OBVIOUS

\* The contents keep their types.
ContentsOK ==
  /\ roles_ \in [1..MaxScenes -> [Role -> Place]]
  /\ rolePositions_ \in [1..MaxScenes -> [Role -> Place]]
  /\ roleToGrid_ \in [1..MaxScenes -> [Role -> Int]]
  /\ grids_ \in [1..MaxScenes -> SUBSET (Int \X Role)]
  /\ reentered \in [1..MaxScenes -> SUBSET Role]

\* Every step keeps what the maps and the cells of a scene hold in its type.
LEMMA ContentsStep ==
  ASSUME TypeOK, [Next]_vars
  PROVE  ContentsOK'
<1>0. ContentsOK /\ NoCell \in Int /\ Absent \in Place /\ Positions \subseteq Place
  BY DEF TypeOK, ContentsOK, NoCell, Place
<1> USE DEF ContentsOK
<1>1. CASE UNCHANGED contents
  BY <1>0, <1>1 DEF contents, Place
<1>2. ASSUME NEW s \in 1..MaxScenes, NEW r \in Role, NEW p \in Positions, SceneEnter(s, r, p)
      PROVE  ContentsOK'
  <2>1. positionToGrid(s, p) \in Int
    BY GridInside
  <2>2. /\ roles_' \in [1..MaxScenes -> [Role -> Place]]
        /\ rolePositions_' \in [1..MaxScenes -> [Role -> Place]]
        /\ roleToGrid_' \in [1..MaxScenes -> [Role -> Int]]
    BY <1>0, <1>2, <2>1, PutMap DEF SceneEnter
  <2>3. /\ grids_' \in [1..MaxScenes -> SUBSET (Int \X Role)]
        /\ reentered' \in [1..MaxScenes -> SUBSET Role]
    BY <1>0, <1>2, <2>1 DEF SceneEnter
  <2> QED
    BY <2>2, <2>3 DEF Place
<1>3. ASSUME NEW s \in 1..MaxScenes, NEW r \in Role, SceneLeave(s, r)
      PROVE  ContentsOK'
  <2>0. /\ Put(roles_, s, r, Absent) \in [1..MaxScenes -> [Role -> Place]]
        /\ Put(rolePositions_, s, r, Absent) \in [1..MaxScenes -> [Role -> Place]]
        /\ Put(roleToGrid_, s, r, NoCell) \in [1..MaxScenes -> [Role -> Int]]
    BY <1>0, PutMap
  <2>1. /\ roles_' \in [1..MaxScenes -> [Role -> Place]]
        /\ rolePositions_' \in [1..MaxScenes -> [Role -> Place]]
        /\ roleToGrid_' \in [1..MaxScenes -> [Role -> Int]]
    BY <1>0, <1>3, <2>0 DEF SceneLeave
  <2>2. /\ grids_' \in [1..MaxScenes -> SUBSET (Int \X Role)]
        /\ reentered' \in [1..MaxScenes -> SUBSET Role]
    BY <1>0, <1>3 DEF SceneLeave
  <2> QED
    BY <2>1, <2>2 DEF Place
<1>4. ASSUME NEW s \in 1..MaxScenes, NEW r \in Role, NEW p \in Positions, move(s, r, p)
      PROVE  ContentsOK'
  <2>1. positionToGrid(s, p) \in Int
    BY GridInside
  <2>2. /\ roles_' \in [1..MaxScenes -> [Role -> Place]]
        /\ rolePositions_' \in [1..MaxScenes -> [Role -> Place]]
        /\ roleToGrid_' \in [1..MaxScenes -> [Role -> Int]]
    <3>1. /\ Put(roles_, s, r, p) \in [1..MaxScenes -> [Role -> Place]]
          /\ Put(rolePositions_, s, r, p) \in [1..MaxScenes -> [Role -> Place]]
          /\ Put(roleToGrid_, s, r, positionToGrid(s, p)) \in [1..MaxScenes -> [Role -> Int]]
      BY <1>0, <2>1, PutMap
    <3> QED
      BY <1>0, <1>4, <3>1 DEF move, AOIMove
  <2>3. /\ grids_' \in [1..MaxScenes -> SUBSET (Int \X Role)]
        /\ reentered' \in [1..MaxScenes -> SUBSET Role]
    BY <1>0, <1>4, <2>1 DEF move, AOIMove
  <2> QED
    BY <2>2, <2>3 DEF Place
<1> QED
  BY <1>1, <1>2, <1>3, <1>4, ContentSteps

\* Every step keeps the types.
LEMMA TypeStep ==
  ASSUME TypeOK, [Next]_vars
  PROVE  TypeOK'
<1> DEFINE ManagerOK == /\ nextSceneId_ \in 0..MaxScenes
                        /\ scenes_ \subseteq Created
                        /\ roleScenes_ \in [Role -> 0..nextSceneId_]
                        /\ stuck \in BOOLEAN
<1> USE SceneAssumption DEF TypeOK, Created, manager
<1>1. ASSUME UNCHANGED vars
      PROVE  ManagerOK'
  BY <1>1 DEF vars
<1>2. ASSUME createScene
      PROVE  ManagerOK'
  BY <1>2 DEF createScene
<1>3. ASSUME NEW s \in Created, destroyScene(s)
      PROVE  ManagerOK'
  BY <1>3 DEF destroyScene
<1>4. ASSUME NEW r \in Role, leaveScene(r)
      PROVE  ManagerOK'
  BY <1>4 DEF leaveScene, getScene
<1>5. ASSUME NEW s \in Created, NEW r \in Role, leave(s, r)
      PROVE  ManagerOK'
  BY <1>5 DEF leave
<1>6. ASSUME NEW s \in Created, NEW r \in Role, NEW p \in Positions, enterScene(s, r, p)
      PROVE  ManagerOK'
  BY <1>6 DEF enterScene
<1>7. ASSUME NEW s \in Created, NEW r \in Role, NEW p \in Positions,
             enter(s, r, p) \/ move(s, r, p)
      PROVE  ManagerOK'
  BY <1>7 DEF enter, move
<1>8. ManagerOK'
  BY <1>1, <1>2, <1>3, <1>4, <1>5, <1>6, <1>7 DEF Next
<1> QED
  BY <1>8, ContentsStep, GeometryFixed DEF ContentsOK

\* The manager, the scenes and the AOI keep their types: every variable, for
\* every set of roles and every geometry.
THEOREM TypeCorrect == Spec => []TypeOK
<1>1. Init => TypeOK
  <2>1. ASSUME Init
        PROVE  /\ rolePositions_ \in [1..MaxScenes -> [Role -> Place]]
               /\ roles_ \in [1..MaxScenes -> [Role -> Place]]
               /\ roleToGrid_ \in [1..MaxScenes -> [Role -> Int]]
    BY <2>1 DEF Init, Place, NoCell
  <2>2. ASSUME Init
        PROVE  /\ nextSceneId_ \in 0..MaxScenes /\ scenes_ \subseteq Created
               /\ roleScenes_ \in [Role -> 0..nextSceneId_]
    BY <2>2, SceneAssumption DEF Init, Created
  <2>4. ASSUME Init
        PROVE  stuck \in BOOLEAN
    BY <2>4, Zenon DEF Init
  <2>3. ASSUME Init
        PROVE  /\ grids_ \in [1..MaxScenes -> SUBSET (Int \X Role)]
               /\ reentered \in [1..MaxScenes -> SUBSET Role]
    BY <2>3 DEF Init
  <2> QED
    BY <2>1, <2>2, <2>3, <2>4 DEF Init, TypeOK
<1>2. TypeOK /\ [Next]_vars => TypeOK'
  BY TypeStep
<1> QED
  BY <1>1, <1>2, PTL DEF Spec

-----------------------------------------------------------------------------
(* The maps and the cells of a scene. *)

SceneAgrees(s) == MapsAgree(s) /\ ListedWhereItIs(s) /\ CellsInside(s) /\ GhostOnlyByReentry(s)

\* A position has the same cell after a step, and the array the same length.
LEMMA CellFixed ==
  ASSUME [Next]_vars, NEW s \in 1..MaxScenes
  PROVE  /\ \A p : positionToGrid(s, p)' = positionToGrid(s, p)
         /\ gridX(s)' = gridX(s) /\ gridY(s)' = gridY(s)
<1>1. /\ gridX(s)' = gridX(s) /\ gridY(s)' = gridY(s)
      /\ gridWidth(s)' = gridWidth(s) /\ gridHeight(s)' = gridHeight(s)
  BY GeometryFixed DEF gridX, gridY, gridWidth, gridHeight
<1> QED
  BY <1>1 DEF positionToGrid

\* A step that leaves a scene alone keeps what holds of it.
LEMMA OtherScene ==
  ASSUME [Next]_vars, NEW t \in 1..MaxScenes, SceneAgrees(t),
         roles_'[t] = roles_[t], rolePositions_'[t] = rolePositions_[t],
         roleToGrid_'[t] = roleToGrid_[t], grids_'[t] = grids_[t],
         reentered'[t] = reentered[t]
  PROVE  SceneAgrees(t)'
  BY CellFixed DEF SceneAgrees, MapsAgree, ListedWhereItIs, CellsInside, GhostOnlyByReentry

\* Scene::enter() keeps the maps and the cells in agreement.
LEMMA EnterAgrees ==
  ASSUME TypeOK, [Next]_vars, NEW s \in 1..MaxScenes, SceneAgrees(s),
         NEW r \in Role, NEW p \in Positions, SceneEnter(s, r, p)
  PROVE  SceneAgrees(s)'
<1> DEFINE c == positionToGrid(s, p)
<1>1. /\ c \in 0 .. gridX(s) * gridY(s) - 1 /\ c \in Int /\ c # NoCell
      /\ p # Absent /\ p \in Place
  BY GridInside, PositionPresent DEF Place
<1>2. /\ roles_'[s][r] = p /\ rolePositions_'[s][r] = p /\ roleToGrid_'[s][r] = c
      /\ \A q \in Role : q # r => /\ roles_'[s][q] = roles_[s][q]
                                  /\ rolePositions_'[s][q] = rolePositions_[s][q]
                                  /\ roleToGrid_'[s][q] = roleToGrid_[s][q]
  <2>1. /\ roles_' = Put(roles_, s, r, p) /\ rolePositions_' = Put(rolePositions_, s, r, p)
        /\ roleToGrid_' = Put(roleToGrid_, s, r, c)
    BY DEF SceneEnter
  <2>2. /\ roles_ \in [1..MaxScenes -> [Role -> Place]]
        /\ rolePositions_ \in [1..MaxScenes -> [Role -> Place]]
        /\ roleToGrid_ \in [1..MaxScenes -> [Role -> Int]]
    BY DEF TypeOK
  <2> HIDE DEF c
  <2>3. roles_'[s][r] = p /\ \A q \in Role : q # r => roles_'[s][q] = roles_[s][q]
    BY <2>1, <2>2 DEF Put
  <2>4. /\ rolePositions_'[s][r] = p
        /\ \A q \in Role : q # r => rolePositions_'[s][q] = rolePositions_[s][q]
    BY <2>1, <2>2 DEF Put
  <2>5. /\ roleToGrid_'[s][r] = c
        /\ \A q \in Role : q # r => roleToGrid_'[s][q] = roleToGrid_[s][q]
    BY <2>1, <2>2 DEF Put
  <2> QED
    BY <2>3, <2>4, <2>5
<1>3. /\ grids_'[s] = grids_[s] \union { <<c, r>> }
      /\ reentered'[s] = IF roleToGrid_[s][r] = NoCell THEN reentered[s]
                         ELSE reentered[s] \union {r}
  BY DEF SceneEnter, TypeOK
<1>4. roles_'[s] \in [Role -> Place] /\ rolePositions_'[s] \in [Role -> Place]
  BY ContentsStep DEF ContentsOK, Place
<1> HIDE DEF c
<1>5. MapsAgree(s)'
  <2>1. roles_'[s] = rolePositions_'[s]
    BY <1>2, <1>4 DEF SceneAgrees, MapsAgree
  <2>2. c = positionToGrid(s, p)
    BY DEF c
  <2> QED
    BY <1>1, <1>2, <2>1, <2>2, CellFixed DEF SceneAgrees, MapsAgree
<1>6. ListedWhereItIs(s)'
  BY <1>2, <1>3 DEF SceneAgrees, ListedWhereItIs
<1>7. CellsInside(s)'
  BY <1>1, <1>3, CellFixed DEF SceneAgrees, CellsInside
<1>8. GhostOnlyByReentry(s)'
  <2> SUFFICES ASSUME NEW e \in grids_'[s]
               PROVE  e[1] = roleToGrid_'[s][e[2]] \/ e[2] \in reentered'[s]
    BY DEF GhostOnlyByReentry
  <2>1. CASE e = <<c, r>>
    BY <1>2, <2>1
  <2>2. CASE e \in grids_[s] /\ e[2] # r
    <3>1. e[2] \in Role
      BY <2>2 DEF TypeOK
    <3> QED
      BY <1>2, <1>3, <2>2, <3>1 DEF SceneAgrees, GhostOnlyByReentry
  <2>3. CASE e \in grids_[s] /\ e[2] = r
    <3>1. e[1] # NoCell
      BY <2>3, Dimensions DEF SceneAgrees, CellsInside, NoCell
    <3> QED
      BY <1>3, <2>3, <3>1 DEF SceneAgrees, GhostOnlyByReentry
  <2> QED
    BY <1>3, <2>1, <2>2, <2>3
<1> QED
  BY <1>5, <1>6, <1>7, <1>8 DEF SceneAgrees

\* Scene::leave() keeps them in agreement.
LEMMA LeaveAgrees ==
  ASSUME TypeOK, [Next]_vars, NEW s \in 1..MaxScenes, SceneAgrees(s),
         NEW r \in Role, SceneLeave(s, r)
  PROVE  SceneAgrees(s)'
<1> DEFINE old == roleToGrid_[s][r]
<1>1. NoCell \in Int /\ Absent \in Place
  BY DEF NoCell, Place
<1>2. /\ roles_ \in [1..MaxScenes -> [Role -> Place]]
      /\ rolePositions_ \in [1..MaxScenes -> [Role -> Place]]
      /\ roleToGrid_ \in [1..MaxScenes -> [Role -> Int]]
      /\ roles_'[s] \in [Role -> Place] /\ rolePositions_'[s] \in [Role -> Place]
  BY ContentsStep DEF TypeOK, ContentsOK, Place
<1>3. /\ roles_'[s][r] = Absent
      /\ \A q \in Role : q # r => roles_'[s][q] = roles_[s][q]
      /\ reentered'[s] = reentered[s]
  <2>1. roles_' = Put(roles_, s, r, Absent) /\ reentered' = reentered
    BY DEF SceneLeave
  <2> QED
    BY <1>2, <2>1 DEF Put
<1>4. CASE old = NoCell
  <2>1. /\ rolePositions_'[s] = rolePositions_[s] /\ roleToGrid_'[s] = roleToGrid_[s]
        /\ grids_'[s] = grids_[s]
    BY <1>4 DEF SceneLeave
  <2>2. roles_[s][r] = Absent
    <3> SUFFICES ASSUME roles_[s][r] # Absent
                 PROVE  FALSE
      OBVIOUS
    <3>1. roles_[s][r] \in Positions /\ old = positionToGrid(s, roles_[s][r])
      BY <1>2 DEF SceneAgrees, MapsAgree, Place
    <3> QED
      BY <1>4, <3>1, GridInside
  <2>3. roles_'[s] = roles_[s]
    <3>1. \A q \in Role : roles_'[s][q] = roles_[s][q]
      BY <1>3, <2>2
    <3>2. roles_[s] \in [Role -> Place]
      BY <1>2
    <3> QED
      BY <1>2, <3>1, <3>2, SameMap
  <2> QED
    BY <1>3, <2>1, <2>3, OtherScene
<1>5. CASE old # NoCell
  <2>1. /\ rolePositions_' = Put(rolePositions_, s, r, Absent)
        /\ roleToGrid_' = Put(roleToGrid_, s, r, NoCell)
        /\ grids_'[s] = grids_[s] \ { <<old, r>> }
    BY <1>5 DEF SceneLeave, TypeOK
  <2>2. /\ rolePositions_'[s][r] = Absent /\ roleToGrid_'[s][r] = NoCell
        /\ \A q \in Role : q # r => /\ rolePositions_'[s][q] = rolePositions_[s][q]
                                    /\ roleToGrid_'[s][q] = roleToGrid_[s][q]
    <3>1. /\ rolePositions_'[s][r] = Absent
          /\ \A q \in Role : q # r => rolePositions_'[s][q] = rolePositions_[s][q]
      BY <1>2, <2>1 DEF Put
    <3>2. /\ roleToGrid_'[s][r] = NoCell
          /\ \A q \in Role : q # r => roleToGrid_'[s][q] = roleToGrid_[s][q]
      BY <1>2, <2>1 DEF Put
    <3> QED
      BY <3>1, <3>2
  <2>3. roles_'[s] = rolePositions_'[s]
    <3>1. \A q \in Role : roles_'[s][q] = rolePositions_'[s][q]
      BY <1>3, <2>2 DEF SceneAgrees, MapsAgree
    <3> QED
      BY <1>2, <3>1, SameMap
  <2>4. MapsAgree(s)'
    BY <1>3, <2>2, <2>3, CellFixed DEF SceneAgrees, MapsAgree
  <2>5. ListedWhereItIs(s)'
    BY <1>3, <2>1, <2>2 DEF SceneAgrees, ListedWhereItIs
  <2>6. CellsInside(s)'
    BY <2>1, CellFixed DEF SceneAgrees, CellsInside
  <2>7. GhostOnlyByReentry(s)'
    <3> SUFFICES ASSUME NEW e \in grids_'[s]
                 PROVE  e[1] = roleToGrid_'[s][e[2]] \/ e[2] \in reentered'[s]
      BY DEF GhostOnlyByReentry
    <3>1. e \in grids_[s] /\ e # <<old, r>>
      BY <2>1
    <3>2. e = <<e[1], e[2]>> /\ e[2] \in Role
      BY <3>1 DEF TypeOK
    <3> QED
      BY <1>3, <2>2, <3>1, <3>2 DEF SceneAgrees, GhostOnlyByReentry
  <2> QED
    BY <2>4, <2>5, <2>6, <2>7 DEF SceneAgrees
<1> QED
  BY <1>4, <1>5

\* Scene::move() keeps them in agreement.
LEMMA MoveAgrees ==
  ASSUME TypeOK, [Next]_vars, NEW s \in 1..MaxScenes, SceneAgrees(s),
         NEW r \in Role, NEW p \in Positions, move(s, r, p)
  PROVE  SceneAgrees(s)'
<1> DEFINE c == positionToGrid(s, p)
           old == roleToGrid_[s][r]
<1>1. /\ c \in 0 .. gridX(s) * gridY(s) - 1 /\ c \in Int /\ c # NoCell
      /\ p # Absent /\ p \in Place
  BY GridInside, PositionPresent DEF Place
<1>2. /\ roles_ \in [1..MaxScenes -> [Role -> Place]]
      /\ rolePositions_ \in [1..MaxScenes -> [Role -> Place]]
      /\ roleToGrid_ \in [1..MaxScenes -> [Role -> Int]]
      /\ roles_'[s] \in [Role -> Place] /\ rolePositions_'[s] \in [Role -> Place]
  BY ContentsStep DEF TypeOK, ContentsOK, Place
<1>3. old # NoCell
  <2>1. roles_[s][r] \in Positions /\ old = positionToGrid(s, roles_[s][r])
    BY <1>2 DEF move, SceneAgrees, MapsAgree, Place
  <2> QED
    BY <2>1, GridInside
<1>4. /\ roles_' = Put(roles_, s, r, p) /\ rolePositions_' = Put(rolePositions_, s, r, p)
      /\ roleToGrid_' = Put(roleToGrid_, s, r, c)
      /\ reentered'[s] = reentered[s]
  BY <1>3 DEF move, AOIMove
<1>5. grids_'[s] = (grids_[s] \ {<<old, r>>}) \union {<<c, r>>}
  <2>1. <<old, r>> \in grids_[s]
    BY DEF move, SceneAgrees, ListedWhereItIs
  <2>2. CASE old = c
    BY <1>3, <2>1, <2>2 DEF move, AOIMove
  <2>3. CASE old # c
    BY <1>3, <2>3 DEF move, AOIMove, TypeOK
  <2> QED
    BY <2>2, <2>3
<1>6. c = positionToGrid(s, p)
  OBVIOUS
<1> HIDE DEF c
<1>7. /\ roles_'[s][r] = p /\ rolePositions_'[s][r] = p /\ roleToGrid_'[s][r] = c
      /\ \A q \in Role : q # r => /\ roles_'[s][q] = roles_[s][q]
                                  /\ rolePositions_'[s][q] = rolePositions_[s][q]
                                  /\ roleToGrid_'[s][q] = roleToGrid_[s][q]
  <2>1. roles_'[s][r] = p /\ \A q \in Role : q # r => roles_'[s][q] = roles_[s][q]
    BY <1>2, <1>4 DEF Put
  <2>2. /\ rolePositions_'[s][r] = p
        /\ \A q \in Role : q # r => rolePositions_'[s][q] = rolePositions_[s][q]
    BY <1>2, <1>4 DEF Put
  <2>3. /\ roleToGrid_'[s][r] = c
        /\ \A q \in Role : q # r => roleToGrid_'[s][q] = roleToGrid_[s][q]
    BY <1>2, <1>4 DEF Put
  <2> QED
    BY <2>1, <2>2, <2>3
<1>8. MapsAgree(s)'
  <2>1. roles_'[s] = rolePositions_'[s]
    <3>1. \A q \in Role : roles_'[s][q] = rolePositions_'[s][q]
      BY <1>7 DEF SceneAgrees, MapsAgree
    <3> QED
      BY <1>2, <3>1, SameMap
  <2> QED
    BY <1>1, <1>6, <1>7, <2>1, CellFixed DEF SceneAgrees, MapsAgree
<1>9. ListedWhereItIs(s)'
  BY <1>5, <1>7 DEF SceneAgrees, ListedWhereItIs
<1>10. CellsInside(s)'
  BY <1>1, <1>5, CellFixed DEF SceneAgrees, CellsInside
<1>11. GhostOnlyByReentry(s)'
  <2> SUFFICES ASSUME NEW e \in grids_'[s]
               PROVE  e[1] = roleToGrid_'[s][e[2]] \/ e[2] \in reentered'[s]
    BY DEF GhostOnlyByReentry
  <2>1. CASE e = <<c, r>>
    BY <1>7, <2>1
  <2>2. CASE e \in grids_[s] /\ e # <<old, r>>
    <3>1. e = <<e[1], e[2]>> /\ e[2] \in Role
      BY <2>2 DEF TypeOK
    <3> QED
      BY <1>4, <1>7, <2>2, <3>1 DEF SceneAgrees, GhostOnlyByReentry
  <2> QED
    BY <1>5, <2>1, <2>2
<1> QED
  BY <1>8, <1>9, <1>10, <1>11 DEF SceneAgrees

\* Every step keeps the maps and the cells of every scene in agreement.
LEMMA AgreeStep ==
  ASSUME TypeOK, IndexAgrees, [Next]_vars
  PROVE  IndexAgrees'
<1> SUFFICES ASSUME NEW t \in 1..MaxScenes
             PROVE  SceneAgrees(t)'
  BY DEF IndexAgrees, SceneAgrees
<1>1. \A s \in 1..MaxScenes : SceneAgrees(s)
  BY DEF IndexAgrees, SceneAgrees
<1>2. CASE UNCHANGED contents
  BY <1>1, <1>2, OtherScene DEF contents
<1>3. ASSUME NEW s \in 1..MaxScenes, NEW r \in Role, NEW p \in Positions, SceneEnter(s, r, p)
      PROVE  SceneAgrees(t)'
  <2>1. CASE t = s
    BY <1>1, <1>3, <2>1, EnterAgrees
  <2>2. CASE t # s
    <3>1. /\ roles_'[t] = roles_[t] /\ rolePositions_'[t] = rolePositions_[t]
          /\ roleToGrid_'[t] = roleToGrid_[t] /\ grids_'[t] = grids_[t]
          /\ reentered'[t] = reentered[t]
      BY <1>3, <2>2 DEF SceneEnter, Put, TypeOK
    <3> QED
      BY <1>1, <3>1, OtherScene
  <2> QED
    BY <2>1, <2>2
<1>4. ASSUME NEW s \in 1..MaxScenes, NEW r \in Role, SceneLeave(s, r)
      PROVE  SceneAgrees(t)'
  <2>1. CASE t = s
    BY <1>1, <1>4, <2>1, LeaveAgrees
  <2>2. CASE t # s
    <3>1. /\ roles_'[t] = roles_[t] /\ rolePositions_'[t] = rolePositions_[t]
          /\ roleToGrid_'[t] = roleToGrid_[t] /\ grids_'[t] = grids_[t]
          /\ reentered'[t] = reentered[t]
      BY <1>4, <2>2 DEF SceneLeave, Put, TypeOK
    <3> QED
      BY <1>1, <3>1, OtherScene
  <2> QED
    BY <2>1, <2>2
<1>5. ASSUME NEW s \in 1..MaxScenes, NEW r \in Role, NEW p \in Positions, move(s, r, p)
      PROVE  SceneAgrees(t)'
  <2>1. CASE t = s
    BY <1>1, <1>5, <2>1, MoveAgrees
  <2>2. CASE t # s
    <3>1. /\ roles_'[t] = roles_[t] /\ rolePositions_'[t] = rolePositions_[t]
          /\ roleToGrid_'[t] = roleToGrid_[t] /\ grids_'[t] = grids_[t]
          /\ reentered'[t] = reentered[t]
      BY <1>5, <2>2 DEF move, AOIMove, Put, TypeOK
    <3> QED
      BY <1>1, <3>1, OtherScene
  <2> QED
    BY <2>1, <2>2
<1> QED
  BY <1>2, <1>3, <1>4, <1>5, ContentSteps

\* A new scene is empty.
LEMMA AgreeInit ==
  ASSUME Init
  PROVE  IndexAgrees
  BY DEF Init, IndexAgrees, MapsAgree, ListedWhereItIs, CellsInside, GhostOnlyByReentry

\* Whatever order roles enter, move, leave and enter again in, the maps of Scene
\* and AOI and the cells agree, no cell is outside the array, and only
\* Scene::enter() of a role that is in the scene leaves an entry behind: for
\* every set of roles, every geometry and all positions with natural
\* coordinates (SceneAssumption); a negative one may index outside the array.
THEOREM CellsAgree == Spec => []IndexAgrees
<1>1. TypeOK /\ IndexAgrees /\ [Next]_vars => IndexAgrees'
  BY AgreeStep
<1>2. Init => IndexAgrees
  BY AgreeInit
<1> QED
  BY <1>1, <1>2, TypeCorrect, PTL DEF Spec

-----------------------------------------------------------------------------
(* What a role sees. *)

\* The cell of a position is among the cells around that of another one, if
\* the two are no further apart than a cell.
LEMMA AroundReaches ==
  ASSUME TypeOK, NEW s \in 1..MaxScenes, NEW p \in Positions, NEW q \in Positions,
         Apart(p[1], q[1]) <= gridWidth(s), Apart(p[2], q[2]) <= gridHeight(s)
  PROVE  positionToGrid(s, q) \in getAroundGrids(s, positionToGrid(s, p))
<1>1. p[1] \in Nat /\ p[2] \in Nat /\ q[1] \in Nat /\ q[2] \in Nat
  BY SceneAssumption
<1>2. /\ gridX(s) \in Nat \ {0} /\ gridY(s) \in Nat \ {0}
      /\ gridWidth(s) \in Nat \ {0} /\ gridHeight(s) \in Nat \ {0}
  BY Dimensions
<1>3. Column(s, q) - Column(s, p) \in -1..1 /\ Row(s, q) - Row(s, p) \in -1..1
  BY <1>1, <1>2, ClampedAdjacent DEF Column, Row
<1>4. /\ Column(s, p) \in 0 .. gridX(s) - 1 /\ Row(s, p) \in 0 .. gridY(s) - 1
      /\ Column(s, q) \in 0 .. gridX(s) - 1 /\ Row(s, q) \in 0 .. gridY(s) - 1
      /\ positionToGrid(s, p) = Row(s, p) * gridX(s) + Column(s, p)
      /\ positionToGrid(s, q) = Row(s, q) * gridX(s) + Column(s, q)
  BY Cell
<1>5. Row(s, p) \in Nat
  BY <1>2, <1>4
<1>6. /\ positionToGrid(s, p) \div gridX(s) = Row(s, p)
      /\ positionToGrid(s, p) % gridX(s) = Column(s, p)
  BY <1>2, <1>4, <1>5, RowOfIndex, ColumnOfIndex
<1>7. Row(s, q) \in { y \in 0 .. gridY(s) - 1 :
                        y - (positionToGrid(s, p) \div gridX(s)) \in -1..1 }
  BY <1>3, <1>4, <1>6
<1>8. Column(s, q) \in { x \in 0 .. gridX(s) - 1 :
                           x - (positionToGrid(s, p) % gridX(s)) \in -1..1 }
  BY <1>3, <1>4, <1>6
<1> QED
  BY <1>4, <1>7, <1>8 DEF getAroundGrids

\* AOI::getAroundRoles() finds every role within a cell's width and height,
\* also beyond the far border, where positions are clamped, and at the ends of
\* rows, for positions with natural coordinates.
THEOREM NeighboursSeen == Spec => []SeesNeighbours
<1>1. ASSUME TypeOK, IndexAgrees
      PROVE  SeesNeighbours
  <2> SUFFICES ASSUME NEW s \in Created, NEW a \in Role, NEW b \in Role, a # b,
                      roles_[s][a] # Absent, roles_[s][b] # Absent,
                      Apart(roles_[s][a][1], roles_[s][b][1]) <= gridWidth(s),
                      Apart(roles_[s][a][2], roles_[s][b][2]) <= gridHeight(s)
               PROVE  b \in getAroundRoles(s, a) /\ b \in getAroundRolesAt(s, roles_[s][a])
    BY DEF SeesNeighbours
  <2>1. s \in 1..MaxScenes
    BY <1>1, SceneAssumption DEF TypeOK, Created
  <2>2. roles_[s][a] \in Positions /\ roles_[s][b] \in Positions
    BY <1>1, <2>1 DEF TypeOK, Place
  <2>3. /\ roleToGrid_[s][a] = positionToGrid(s, roles_[s][a])
        /\ roleToGrid_[s][b] = positionToGrid(s, roles_[s][b])
        /\ <<roleToGrid_[s][b], b>> \in grids_[s]
    BY <1>1, <2>1 DEF IndexAgrees, MapsAgree, ListedWhereItIs
  <2>4. roleToGrid_[s][b] \in getAroundGrids(s, positionToGrid(s, roles_[s][a]))
    BY <1>1, <2>1, <2>2, <2>3, AroundReaches
  <2>5. b \in ListedAround(s, positionToGrid(s, roles_[s][a]))
    BY <2>3, <2>4 DEF ListedAround
  <2>6. roleToGrid_[s][a] # NoCell
    BY <1>1, <2>1, <2>2, <2>3, GridInside
  <2> QED
    BY <2>3, <2>5, <2>6 DEF getAroundRoles, getAroundRolesAt
<1> QED
  BY <1>1, TypeCorrect, CellsAgree, PTL

-----------------------------------------------------------------------------
(* The codecs. *)

\* Induction on the natural numbers, for a set.
LEMMA InductiveSet ==
  ASSUME NEW S, S \subseteq Nat, 0 \in S, \A n \in S : n + 1 \in S
  PROVE  S = Nat
<1> SUFFICES ASSUME Nat \ S # {} PROVE FALSE
  BY Zenon
<1>1. PICK x \in Nat \ S : \A y \in Nat \ S : ~(<<y, x>> \in OpToRel(<, Nat))
  BY NatLessThanWellFounded, WFMin
<1>2. x # 0
  OBVIOUS
<1>3. x - 1 \in Nat /\ <<x - 1, x>> \in OpToRel(<, Nat)
  BY <1>2 DEF OpToRel
<1>4. x - 1 \in S
  BY <1>1, <1>3
<1>5. (x - 1) + 1 = x
  OBVIOUS
<1>6. (x - 1) + 1 \in S
  BY <1>4
<1> QED
  BY <1>1, <1>5, <1>6

\* Where the messages end, as a function of the codec and of the bodies.
EndOf(front, b) ==
  CHOOSE f : f = [m \in 0..MaxMessages |-> IF m = 0 THEN 0 ELSE f[m - 1] + front + b[m]]

\* The ends that encode() gives the messages are those of the front and bodies.
LEMMA EndIsEndOf == Codecs!End = EndOf(Codecs!Front, body)
  BY DEF EndOf, Codecs!End

\* There is a function as EndOf describes: it is built message by message.
LEMMA EndRecursion ==
  ASSUME NEW front \in Nat, NEW b \in [1..MaxMessages -> Nat]
  PROVE  /\ EndOf(front, b) = [m \in 0..MaxMessages |-> IF m = 0 THEN 0 ELSE EndOf(front, b)[m - 1] + front + b[m]]
         /\ EndOf(front, b) \in [0..MaxMessages -> Nat]
<1> DEFINE Good(f, n) ==
             /\ f \in [0..n -> Nat] /\ f[0] = 0
             /\ \A m \in 1..n : f[m] = f[m - 1] + front + b[m]
           S == {n \in Nat : n <= MaxMessages => \E f : Good(f, n)}
<1>0. MaxMessages \in Nat
  BY CodecAssumption
<1>1. S = Nat
  <2>1. 0 \in S
    <3>1. Good([m \in 0..0 |-> 0], 0)
      OBVIOUS
    <3> QED
      BY <3>1
  <2>2. ASSUME NEW n \in Nat, n + 1 <= MaxMessages, NEW f, Good(f, n)
        PROVE  \E g : Good(g, n + 1)
    <3> DEFINE g == [m \in 0..n + 1 |-> IF m <= n THEN f[m] ELSE f[n] + front + b[n + 1]]
    <3>1. b[n + 1] \in Nat /\ f[n] \in Nat
      BY <1>0, <2>2
    <3>2. f[n] + front + b[n + 1] \in Nat
      BY <3>1
    <3>3. g \in [0..n + 1 -> Nat] /\ g[0] = 0
      BY <2>2, <3>2
    <3>4. ASSUME NEW m \in 1..n + 1 PROVE g[m] = g[m - 1] + front + b[m]
      <4>1. CASE m = n + 1
        BY <2>2, <4>1
      <4>2. CASE m # n + 1
        <5>1. m \in 1..n /\ m \in 0..n + 1 /\ m - 1 \in 0..n + 1 /\ m <= n /\ m - 1 <= n
          BY <4>2
        <5>2. g[m] = f[m] /\ g[m - 1] = f[m - 1]
          BY <5>1
        <5> QED
          BY <2>2, <5>1, <5>2
      <4> QED
        BY <4>1, <4>2
    <3> HIDE DEF g
    <3>5. Good(g, n + 1)
      BY <3>3, <3>4
    <3> QED
      BY <3>5
  <2> HIDE DEF Good
  <2>3. \A n \in S : n + 1 \in S
    <3> SUFFICES ASSUME NEW n \in S, n + 1 <= MaxMessages PROVE \E f : Good(f, n + 1)
      OBVIOUS
    <3>1. n \in Nat /\ n <= MaxMessages
      BY <1>0
    <3>2. PICK f : Good(f, n)
      BY <3>1
    <3> QED
      BY <2>2, <3>1, <3>2
  <2>4. S \subseteq Nat
    OBVIOUS
  <2> HIDE DEF S
  <2> QED
    BY <2>1, <2>3, <2>4, InductiveSet
<1>2. PICK f : Good(f, MaxMessages)
  <2>1. MaxMessages \in S
    BY <1>0, <1>1
  <2> HIDE DEF Good
  <2> QED
    BY <1>0, <2>1
<1>3. f = [m \in 0..MaxMessages |-> IF m = 0 THEN 0 ELSE f[m - 1] + front + b[m]]
  <2>1. \A m \in 0..MaxMessages : f[m] = IF m = 0 THEN 0 ELSE f[m - 1] + front + b[m]
    BY <1>0, <1>2
  <2> QED
    BY <1>2, <2>1
<1>4. EndOf(front, b) = [m \in 0..MaxMessages |-> IF m = 0 THEN 0 ELSE EndOf(front, b)[m - 1] + front + b[m]]
  BY <1>3, Zenon DEF EndOf
<1> DEFINE E == EndOf(front, b)
<1> HIDE DEF E
<1>5. /\ E[0] = 0 /\ DOMAIN E = 0..MaxMessages
      /\ E = [m \in 0..MaxMessages |-> IF m = 0 THEN 0 ELSE E[m - 1] + front + b[m]]
  BY <1>0, <1>4 DEF E
<1>6. \A n \in Nat : n <= MaxMessages => E[n] \in Nat
  <2> DEFINE T == {n \in Nat : n <= MaxMessages => E[n] \in Nat}
  <2>1. 0 \in T
    BY <1>5
  <2>2. ASSUME NEW n \in T PROVE n + 1 \in T
    BY <1>0, <1>5, SMTT(40)
  <2>3. T \subseteq Nat
    OBVIOUS
  <2> HIDE DEF T
  <2>4. T = Nat
    BY <2>1, <2>2, <2>3, InductiveSet
  <2> QED
    BY <2>4 DEF T
<1>7. E \in [0..MaxMessages -> Nat]
  BY <1>0, <1>5, <1>6
<1> QED
  BY <1>4, <1>7 DEF E

\* Every message takes room in the stream.
LEMMA EndIncreases ==
  ASSUME NEW front \in Nat \ {0}, NEW b \in [1..MaxMessages -> Nat],
         NEW m \in 0..MaxMessages, NEW n \in 0..MaxMessages, m < n
  PROVE  EndOf(front, b)[m] < EndOf(front, b)[n]
<1> DEFINE E == EndOf(front, b)
           T == {k \in Nat : k <= MaxMessages => \A a \in 0..MaxMessages : a < k => E[a] < E[k]}
<1>0. MaxMessages \in Nat
  BY CodecAssumption
<1>1. /\ E = [k \in 0..MaxMessages |-> IF k = 0 THEN 0 ELSE E[k - 1] + front + b[k]]
      /\ E \in [0..MaxMessages -> Nat]
  BY EndRecursion
<1> HIDE DEF E
<1>2. 0 \in T
  OBVIOUS
<1>3. ASSUME NEW k \in T PROVE k + 1 \in T
  <2> SUFFICES ASSUME k + 1 <= MaxMessages, NEW a \in 0..MaxMessages, a < k + 1
               PROVE  E[a] < E[k + 1]
    OBVIOUS
  <2>1. k + 1 \in 0..MaxMessages /\ k \in 0..MaxMessages /\ k + 1 # 0 /\ (k + 1) - 1 = k
    BY <1>0
  <2>2. E[k + 1] = E[k] + front + b[k + 1]
    BY <1>1, <2>1
  <2>3. b[k + 1] \in Nat /\ E[k] \in Nat /\ E[a] \in Nat
    <3>1. E \in [0..MaxMessages -> Nat]
      BY <1>1
    <3>2. k + 1 \in 1..MaxMessages
      BY <1>0, <2>1
    <3>3. E[k] \in Nat /\ E[a] \in Nat
      BY <2>1, <3>1
    <3> QED
      BY <3>2, <3>3
  <2>4. a = k \/ E[a] < E[k]
    BY <2>1
  <2> QED
    BY <2>2, <2>3, <2>4
<1>4. T \subseteq Nat
  OBVIOUS
<1> HIDE DEF T
<1>5. T = Nat
  BY <1>2, <1>3, <1>4, InductiveSet
<1> QED
  BY <1>0, <1>5 DEF T, E

\* Where the variables of the codecs lie; the read position is never past what
\* has arrived.
CodecTypes ==
  /\ codec \in {"default", "length"}
  /\ body \in [Codecs!Message -> 0..MaxBody] /\ known \subseteq Codecs!Message
  /\ arrived \in 0 .. Codecs!End[MaxMessages] /\ consumed \in 0..arrived
  /\ decoded \in Seq(0..MaxMessages)

\* Until a message is torn or lost the returned ones are the first ones.
InStep ==
  ~torn /\ lost = {} => /\ Len(decoded) <= MaxMessages
                        /\ consumed = Codecs!End[Len(decoded)]
                        /\ \A i \in 1..Len(decoded) : decoded[i] = i

\* The messages that were returned begin in front of the read position.
Behind ==
  /\ \A i \in 1..Len(decoded) :
       decoded[i] # 0 => decoded[i] \in known /\ Codecs!End[decoded[i] - 1] < consumed
  /\ \A i, j \in 1..Len(decoded) :
       decoded[i] # 0 /\ decoded[j] # 0 /\ i < j => decoded[i] < decoded[j]

\* DefaultCodec loses no whole message, and returns what nobody sent only from
\* a place that reads as a header and after it has lost its own.
Compared ==
  codec = "default" => /\ lost = {}
                       /\ (\E i \in 1..Len(decoded) : decoded[i] = 0) => torn /\ magics # {}

\* The inductive invariant of the codecs.
CodecInv == CodecTypes /\ InStep /\ Behind /\ Compared

\* The ends of the messages of a stream.
LEMMA EndFacts ==
  ASSUME codec \in {"default", "length"}, body \in [Codecs!Message -> 0..MaxBody]
  PROVE  /\ Codecs!Front \in 2..3
         /\ Codecs!End \in [0..MaxMessages -> Nat] /\ Codecs!End[0] = 0
         /\ \A m \in 1..MaxMessages : Codecs!End[m] = Codecs!End[m - 1] + Codecs!Front + body[m]
         /\ \A m, n \in 0..MaxMessages : m < n => Codecs!End[m] < Codecs!End[n]
<1>0. MaxMessages \in Nat /\ MaxBody \in Nat
  BY CodecAssumption
<1>1. Codecs!Front \in 2..3
  BY DEF Codecs!Front, Codecs!HeaderSize, Codecs!PrefixSize
<1>2. PICK front \in Nat \ {0} : front = Codecs!Front
  BY <1>1
<1>3. body \in [1..MaxMessages -> Nat]
  BY <1>0 DEF Codecs!Message
<1>4. Codecs!End = EndOf(front, body)
  BY <1>2, EndIsEndOf
<1>5. /\ Codecs!End = [m \in 0..MaxMessages |-> IF m = 0 THEN 0 ELSE Codecs!End[m - 1] + front + body[m]]
      /\ Codecs!End \in [0..MaxMessages -> Nat]
  BY <1>3, <1>4, EndRecursion
<1>6. \A m, n \in 0..MaxMessages : m < n => Codecs!End[m] < Codecs!End[n]
  BY <1>3, <1>4, EndIncreases
<1>7. \A m \in 1..MaxMessages : Codecs!End[m] = Codecs!End[m - 1] + front + body[m]
  BY <1>0, <1>5
<1>8. Codecs!End[0] = 0
  BY <1>0, <1>5
<1> QED
  BY <1>1, <1>2, <1>5, <1>6, <1>7, <1>8

\* The ends stay where they are as long as the stream does.
LEMMA EndStays ==
  ASSUME UNCHANGED <<codec, body>>
  PROVE  Codecs!End' = Codecs!End /\ Codecs!Front' = Codecs!Front
<1>1. Codecs!Front' = Codecs!Front
  BY DEF Codecs!Front
<1>2. Codecs!End' = EndOf(Codecs!Front', body')
  BY DEF EndOf, Codecs!End
<1> QED
  BY <1>1, <1>2, EndIsEndOf

\* While nothing was torn or lost, what decode() looks at is the next message.
LEMMA NextAligned ==
  ASSUME CodecInv, ~torn, lost = {}, Codecs!readable >= Codecs!Front
  PROVE  Len(decoded) + 1 \in Codecs!Message /\ Codecs!Aligned(Len(decoded) + 1)
<1>0. MaxMessages \in Nat
  BY CodecAssumption
<1>1. PICK E, F, n : E = Codecs!End /\ F = Codecs!Front /\ n = Len(decoded)
  OBVIOUS
<1>2. F \in 2..3 /\ E \in [0..MaxMessages -> Nat]
  BY <1>1, EndFacts DEF CodecInv, CodecTypes
<1>3. n \in 0..MaxMessages /\ consumed = E[n] /\ arrived <= E[MaxMessages] /\ arrived \in Nat
  BY <1>0, <1>1, <1>2 DEF CodecInv, CodecTypes, InStep
<1>4. arrived - consumed >= F
  BY <1>1 DEF Codecs!readable
<1>5. n # MaxMessages
  BY <1>0, <1>2, <1>3, <1>4
<1>6. n + 1 \in 1..MaxMessages /\ (n + 1) - 1 = n
  BY <1>0, <1>3, <1>5
<1> QED
  BY <1>1, <1>3, <1>6 DEF Codecs!Message, Codecs!Aligned

\* A read position that only moves on, past no message that is returned.
LEMMA MovesOn ==
  ASSUME CodecInv, UNCHANGED <<codec, body, known, magics, arrived, decoded>>,
         consumed' \in consumed..arrived, torn => torn', torn' \/ lost' # {},
         codec = "default" => lost' = {}
  PROVE  CodecInv'
<1>0. MaxMessages \in Nat
  BY CodecAssumption
<1>1. Codecs!End' = Codecs!End /\ Codecs!End \in [0..MaxMessages -> Nat]
  BY EndStays, EndFacts DEF CodecInv, CodecTypes
<1>2. PICK E : E = Codecs!End
  OBVIOUS
<1>3. CodecTypes'
  BY <1>0, <1>1, <1>2 DEF CodecInv, CodecTypes, Codecs!Message
<1>4. InStep'
  BY DEF InStep
<1>5. Behind'
  <2>0. decoded \in Seq(0..MaxMessages)
    BY DEF CodecInv, CodecTypes
  <2>1. \A i \in 1..Len(decoded) :
          decoded[i] \in 0..MaxMessages /\ (decoded[i] # 0 => decoded[i] - 1 \in 0..MaxMessages)
    BY <1>0, <2>0
  <2>2. consumed \in Nat
    BY <1>0, <1>1, <1>2 DEF CodecInv, CodecTypes
  <2> QED
    BY <1>1, <1>2, <2>1, <2>2 DEF CodecInv, Behind
<1>6. Compared'
  BY DEF CodecInv, Compared
<1> QED
  BY <1>3, <1>4, <1>5, <1>6 DEF CodecInv

\* What decode() returns: a message that begins at the read position, or
\* something that nobody sent.
LEMMA Returns ==
  ASSUME CodecInv, UNCHANGED <<codec, body, known, magics, arrived>>, NEW v \in 0..MaxMessages,
         decoded' = Append(decoded, v), consumed' \in consumed..arrived,
         torn => torn', codec = "default" => lost' = {},
         v # 0 => v \in known /\ consumed = Codecs!End[v - 1] /\ consumed < consumed',
         v = 0 => (codec = "default" => torn' /\ magics # {})
  PROVE  CodecTypes' /\ Behind' /\ Compared'
<1>0. MaxMessages \in Nat
  BY CodecAssumption
<1>1. PICK E, n : E = Codecs!End /\ n = Len(decoded)
  OBVIOUS
<1>2. /\ E \in [0..MaxMessages -> Nat] /\ Codecs!End' = E
      /\ \A i, j \in 0..MaxMessages : i < j => E[i] < E[j]
  BY <1>1, EndStays, EndFacts DEF CodecInv, CodecTypes
<1>3. consumed \in Nat /\ arrived \in 0..E[MaxMessages] /\ E[MaxMessages] \in Nat
  BY <1>0, <1>1, <1>2 DEF CodecInv, CodecTypes
<1>4. /\ n \in Nat /\ Len(decoded') = n + 1 /\ decoded'[n + 1] = v
      /\ \A i \in 1..n : decoded'[i] = decoded[i] /\ decoded[i] \in 0..MaxMessages
      /\ decoded' \in Seq(0..MaxMessages)
  BY <1>0, <1>1, SMTT(40) DEF CodecInv, CodecTypes
<1>5. CodecTypes'
  BY <1>1, <1>2, <1>3, <1>4 DEF CodecInv, CodecTypes, Codecs!Message
<1>6. \A i \in 1..n : decoded[i] # 0 => decoded[i] \in known /\ E[decoded[i] - 1] < consumed
  BY <1>1 DEF CodecInv, Behind
<1>7. ASSUME v # 0, NEW i \in 1..n, decoded[i] # 0 PROVE decoded[i] < v
  <2>1. decoded[i] - 1 \in 0..MaxMessages /\ v - 1 \in 0..MaxMessages
    BY <1>0, <1>4, <1>7
  <2>2. E[decoded[i] - 1] < E[v - 1]
    BY <1>1, <1>6, <1>7
  <2>3. ~(v - 1 < decoded[i] - 1) /\ v - 1 # decoded[i] - 1
    <3>1. E[decoded[i] - 1] \in Nat /\ E[v - 1] \in Nat
      BY <1>2, <2>1
    <3> QED
      BY <1>2, <2>1, <2>2, <3>1
  <2> QED
    BY <1>0, <1>4, <1>7, <2>1, <2>3
<1>8. Behind'
  <2>1. ASSUME NEW i \in 1..n + 1, decoded'[i] # 0
        PROVE  decoded'[i] \in known /\ E[decoded'[i] - 1] < consumed'
    <3>1. CASE i = n + 1
      BY <1>1, <1>4, <2>1, <3>1
    <3>2. CASE i # n + 1
      <4>1. i \in 1..n /\ decoded'[i] = decoded[i] /\ decoded[i] \in 0..MaxMessages
        BY <1>4, <3>2
      <4>2. decoded[i] \in known /\ E[decoded[i] - 1] < consumed
        BY <1>6, <2>1, <4>1
      <4>3. E[decoded[i] - 1] \in Nat
        BY <1>0, <1>2, <2>1, <4>1
      <4> QED
        BY <1>3, <4>1, <4>2, <4>3
    <3> QED
      BY <3>1, <3>2
  <2>2. ASSUME NEW i \in 1..n + 1, NEW j \in 1..n + 1, decoded'[i] # 0, decoded'[j] # 0, i < j
        PROVE  decoded'[i] < decoded'[j]
    <3>1. i \in 1..n /\ decoded'[i] = decoded[i]
      BY <1>4, <2>2
    <3>2. CASE j = n + 1
      BY <1>4, <1>7, <2>2, <3>1, <3>2
    <3>3. CASE j # n + 1
      <4>1. j \in 1..n /\ decoded'[j] = decoded[j]
        BY <1>4, <3>3
      <4> QED
        BY <1>1, <2>2, <3>1, <4>1 DEF CodecInv, Behind
    <3> QED
      BY <3>2, <3>3
  <2> QED
    BY <1>2, <1>4, <2>1, <2>2 DEF Behind
<1>9. Compared'
  <2> SUFFICES ASSUME codec = "default", NEW i \in 1..n + 1, decoded'[i] = 0
               PROVE  torn' /\ magics # {}
    BY <1>4 DEF Compared
  <2>1. CASE i = n + 1
    BY <1>4, <2>1
  <2>2. CASE i # n + 1
    <3>1. i \in 1..n /\ decoded[i] = 0
      BY <1>4, <2>2
    <3> QED
      BY <1>1, <3>1 DEF CodecInv, Compared
  <2> QED
    BY <2>1, <2>2
<1> QED
  BY <1>5, <1>8, <1>9

\* The room of the message at the read position.
LEMMA MessageRoom ==
  ASSUME CodecInv, NEW m \in Codecs!Message, Codecs!Aligned(m)
  PROVE  /\ m \in 1..MaxMessages /\ body[m] \in Nat /\ consumed = Codecs!End[m - 1]
         /\ consumed \in Nat /\ arrived \in Nat /\ Codecs!Front \in 2..3
         /\ Codecs!End[m] = consumed + Codecs!Front + body[m]
         /\ Codecs!Incomplete(m) <=> arrived - consumed < 3 + body[m]
<1>0. MaxMessages \in Nat /\ MaxBody \in Nat /\ m \in 1..MaxMessages
  BY CodecAssumption DEF Codecs!Message
<1>1. codec \in {"default", "length"} /\ body \in [Codecs!Message -> 0..MaxBody]
  BY DEF CodecInv, CodecTypes
<1>2. /\ Codecs!Front \in 2..3 /\ Codecs!End \in [0..MaxMessages -> Nat]
      /\ Codecs!End[m] = Codecs!End[m - 1] + Codecs!Front + body[m]
  BY <1>0, <1>1, EndFacts
<1>3. body[m] \in Nat /\ consumed = Codecs!End[m - 1]
  BY <1>0, <1>1 DEF Codecs!Aligned
<1>4. consumed \in Nat /\ arrived \in Nat
  BY <1>0, <1>2 DEF CodecInv, CodecTypes
<1>5. PICK F : F = Codecs!Front
  OBVIOUS
<1>6. Codecs!Incomplete(m) <=> arrived - consumed - F < (3 + body[m]) - F
  BY <1>5 DEF Codecs!Incomplete, Codecs!readable, Codecs!length, Codecs!HeaderSize
<1>7. F \in 2..3
  BY <1>2, <1>5
<1>8. Codecs!Incomplete(m) <=> arrived - consumed < 3 + body[m]
  BY <1>3, <1>4, <1>6, <1>7
<1> QED
  BY <1>0, <1>2, <1>3, <1>4, <1>8

\* A message that is returned is the next one, if nothing was torn or lost.
LEMMA DecodeMessageStep ==
  ASSUME CodecInv, UNCHANGED <<codec, body, known, magics, arrived>>,
         NEW m \in Codecs!Message, Codecs!DecodeMessage(m)
  PROVE  CodecInv'
<1>0. MaxMessages \in Nat /\ m \in 1..MaxMessages /\ m \in 0..MaxMessages /\ m - 1 \in 0..MaxMessages
  BY CodecAssumption DEF Codecs!Message
<1>1. PICK E, F, n : E = Codecs!End /\ F = Codecs!Front /\ n = Len(decoded)
  OBVIOUS
<1>2. /\ E \in [0..MaxMessages -> Nat] /\ Codecs!End' = E
      /\ \A i, j \in 0..MaxMessages : i < j => E[i] < E[j]
  BY <1>1, EndStays, EndFacts DEF CodecInv, CodecTypes
<1>3. /\ Codecs!Aligned(m) /\ ~Codecs!Incomplete(m) /\ m \in known /\ consumed' = E[m]
      /\ decoded' = Append(decoded, m) /\ torn' = torn /\ lost' = lost
  BY <1>1 DEF Codecs!DecodeMessage
<1>4. /\ body[m] \in Nat /\ consumed = E[m - 1] /\ consumed \in Nat /\ arrived \in Nat
      /\ F \in 2..3 /\ E[m] = consumed + F + body[m] /\ ~(arrived - consumed < 3 + body[m])
  BY <1>1, <1>3, MessageRoom
<1>5. consumed < consumed' /\ consumed' \in consumed..arrived
  <2>1. consumed' = consumed + F + body[m]
    BY <1>3, <1>4
  <2>2. /\ body[m] \in Nat /\ consumed \in Nat /\ arrived \in Nat /\ F \in 2..3
        /\ ~(arrived - consumed < 3 + body[m])
    BY <1>4
  <2> QED
    BY <2>1, <2>2
<1>6. CodecTypes' /\ Behind' /\ Compared'
  <2>1. (torn => torn') /\ (codec = "default" => lost' = {})
    BY <1>3 DEF CodecInv, Compared
  <2>2. m # 0
    BY <1>0
  <2> QED
    BY <1>0, <1>1, <1>3, <1>4, <1>5, <2>1, <2>2, Returns
<1>7. InStep'
  <2> SUFFICES ASSUME ~torn, lost = {} PROVE InStep'
    BY <1>3 DEF InStep
  <2>1. n \in 0..MaxMessages /\ E[n] = E[m - 1] /\ \A i \in 1..n : decoded[i] = i
    BY <1>0, <1>1, <1>4 DEF CodecInv, CodecTypes, InStep
  <2>2. m = n + 1
    <3>1. ~(n < m - 1) /\ ~(m - 1 < n)
      BY <1>0, <1>2, <2>1
    <3> QED
      BY <1>0, <2>1, <3>1
  <2>3. /\ Len(decoded') = n + 1 /\ decoded'[n + 1] = m
        /\ \A i \in 1..n : decoded'[i] = decoded[i]
    BY <1>0, <1>1, <1>3, SMTT(40) DEF CodecInv, CodecTypes
  <2> QED
    BY <1>0, <1>2, <1>3, <2>1, <2>2, <2>3 DEF InStep
<1> QED
  BY <1>6, <1>7 DEF CodecInv

\* A message that its class does not read back is torn from then on.
LEMMA DecodeMisreadStep ==
  ASSUME CodecInv, UNCHANGED <<codec, body, known, magics, arrived>>,
         NEW m \in Codecs!Message, Codecs!DecodeMisread(m)
  PROVE  CodecInv'
<1>0. MaxMessages \in Nat /\ m \in 0..MaxMessages /\ m # 0
  BY CodecAssumption DEF Codecs!Message
<1>1. Codecs!Aligned(m) /\ m \in known /\ torn' /\ lost' = lost
  BY DEF Codecs!DecodeMisread
<1>2. PICK F : F = Codecs!Front
  OBVIOUS
<1>3. consumed = Codecs!End[m - 1] /\ consumed \in Nat /\ arrived \in Nat /\ F \in 2..3
  BY <1>1, <1>2, MessageRoom
<1>4. consumed' \in consumed + F .. arrived
  BY <1>2 DEF Codecs!DecodeMisread
<1>5. consumed' \in consumed..arrived /\ consumed < consumed'
  BY <1>3, <1>4
<1>6. codec = "default" => lost' = {}
  BY <1>1 DEF CodecInv, Compared
<1>7. CASE decoded' = decoded
  BY <1>1, <1>5, <1>6, <1>7, MovesOn
<1>8. CASE decoded' = Append(decoded, m)
  <2>1. CodecTypes' /\ Behind' /\ Compared'
    BY <1>0, <1>1, <1>3, <1>5, <1>6, <1>8, Returns
  <2> QED
    BY <1>1, <2>1 DEF CodecInv, InStep
<1> QED
  BY <1>7, <1>8 DEF Codecs!DecodeMisread

\* What is read as a message where none begins: DefaultCodec has lost its place
\* and has found the bytes of a magic number.
LEMMA DecodeGarbageStep ==
  ASSUME CodecInv, Codecs!readable >= Codecs!Front, UNCHANGED <<codec, body, known, magics, arrived>>,
         Codecs!deserialize, Codecs!DecodeGarbage
  PROVE  CodecInv'
<1>0. MaxMessages \in Nat /\ 0 \in 0..MaxMessages
  BY CodecAssumption
<1>1. torn' = torn /\ lost' = lost /\ \A m \in Codecs!Message : ~Codecs!Aligned(m)
  BY DEF Codecs!DecodeGarbage
<1>2. torn \/ lost # {}
  BY <1>1, NextAligned
<1>3. codec = "default" => lost' = {} /\ torn' /\ magics # {}
  BY <1>1, <1>2 DEF Codecs!deserialize, CodecInv, Compared
<1>4. Codecs!Front \in 2..3 /\ arrived \in Nat /\ consumed \in Nat
  BY EndFacts DEF CodecInv, CodecTypes
<1>5. consumed' \in consumed..arrived
  BY <1>4 DEF Codecs!DecodeGarbage
<1>6. CASE decoded' = decoded
  BY <1>1, <1>2, <1>3, <1>5, <1>6, MovesOn
<1>7. CASE decoded' = Append(decoded, 0)
  <2>1. CodecTypes' /\ Behind' /\ Compared'
    BY <1>0, <1>1, <1>3, <1>5, <1>7, Returns
  <2> QED
    BY <1>1, <1>2, <2>1 DEF CodecInv, InStep
<1> QED
  BY <1>6, <1>7 DEF Codecs!DecodeGarbage

\* A message taken for incomplete is torn or, by LengthFieldCodec, lost.
LEMMA DecodePartStep ==
  ASSUME CodecInv, Codecs!readable >= Codecs!Front, UNCHANGED <<codec, body, known, magics, arrived>>,
         NEW m \in Codecs!Message, Codecs!DecodePart(m)
  PROVE  CodecInv'
<1>1. Codecs!Aligned(m) /\ Codecs!Incomplete(m)
  BY DEF Codecs!DecodePart
<1>2. PICK F : F = Codecs!Front
  OBVIOUS
<1>3. /\ body[m] \in Nat /\ consumed \in Nat /\ arrived \in Nat /\ F \in 2..3
      /\ Codecs!End[m] = consumed + F + body[m] /\ arrived - consumed < 3 + body[m]
  BY <1>1, <1>2, MessageRoom
<1>4. arrived - consumed >= F
  BY <1>2 DEF Codecs!readable
<1>5. consumed' \in consumed..arrived
  <2>1. consumed' = (IF codec = "default" THEN Codecs!Lesser(arrived, consumed + 2 * F) ELSE consumed + F)
    BY <1>2 DEF Codecs!DecodePart
  <2>2. Codecs!Lesser(arrived, consumed + 2 * F) \in consumed..arrived
    BY <1>3, <1>4 DEF Codecs!Lesser
  <2>3. consumed + F \in consumed..arrived
    BY <1>3, <1>4
  <2> QED
    BY <2>1, <2>2, <2>3
<1>6. codec = "default" => ~Codecs!Whole(m)
  <2> SUFFICES ASSUME codec = "default" PROVE ~Codecs!Whole(m)
    OBVIOUS
  <2>1. F = 3
    BY <1>2 DEF Codecs!Front, Codecs!HeaderSize
  <2>2. ~(consumed + F + body[m] <= arrived)
    BY <1>3, <2>1
  <2> QED
    BY <1>3, <2>2 DEF Codecs!Whole
<1>7. /\ torn' = (torn \/ ~Codecs!Whole(m)) /\ lost' = lost \union {n \in {m} : Codecs!Whole(n)}
      /\ decoded' = decoded
  BY DEF Codecs!DecodePart
<1>8. (torn => torn') /\ (torn' \/ lost' # {})
  BY <1>7, Zenon
<1>9. codec = "default" => lost' = {}
  BY <1>6, <1>7, Zenon DEF CodecInv, Compared
<1> QED
  BY <1>5, <1>7, <1>8, <1>9, MovesOn

\* decode() keeps the invariant, whatever it meets in the buffer.
LEMMA DecodeStep ==
  ASSUME CodecInv, Codecs!decode
  PROVE  CodecInv'
<1>1. Codecs!readable >= Codecs!Front /\ UNCHANGED <<codec, body, known, magics, arrived>>
  BY DEF Codecs!decode, Codecs!stream
<1>2. Codecs!Front \in 2..3 /\ arrived \in Nat /\ consumed \in Nat
  BY EndFacts DEF CodecInv, CodecTypes
<1>3. arrived - consumed >= Codecs!Front
  BY <1>1 DEF Codecs!readable
<1>4. consumed + Codecs!Front \in consumed..arrived
  BY <1>2, <1>3
<1>5. ASSUME ~Codecs!deserialize, consumed' = consumed + Codecs!Front, UNCHANGED <<decoded, torn, lost>>
      PROVE  CodecInv'
  <2>1. torn \/ lost # {}
    BY <1>1, <1>5, NextAligned DEF Codecs!deserialize
  <2>2. codec = "default" => lost' = {}
    BY <1>5 DEF CodecInv, Compared
  <2>3. (torn => torn') /\ (torn' \/ lost' # {})
    BY <1>5, <2>1, Zenon
  <2> QED
    BY <1>1, <1>4, <1>5, <2>2, <2>3, MovesOn
<1>6. ASSUME Codecs!deserialize, Codecs!DecodeGarbage PROVE CodecInv'
  BY <1>1, <1>6, DecodeGarbageStep
<1>7. ASSUME NEW m \in Codecs!Message, Codecs!DecodeMessage(m) PROVE CodecInv'
  BY <1>1, <1>7, DecodeMessageStep
<1>8. ASSUME NEW m \in Codecs!Message, Codecs!DecodeMisread(m) PROVE CodecInv'
  BY <1>1, <1>8, DecodeMisreadStep
<1>9. ASSUME NEW m \in Codecs!Message, Codecs!DecodeUnknown(m) PROVE CodecInv'
  <2>1. consumed' \in consumed..arrived /\ torn' /\ lost' = lost /\ decoded' = decoded
    BY <1>4, <1>9 DEF Codecs!DecodeUnknown
  <2>2. codec = "default" => lost' = {}
    BY <2>1 DEF CodecInv, Compared
  <2> QED
    BY <1>1, <2>1, <2>2, MovesOn
<1>10. ASSUME NEW m \in Codecs!Message, Codecs!DecodePart(m) PROVE CodecInv'
  BY <1>1, <1>10, DecodePartStep
<1> QED
  BY <1>5, <1>6, <1>7, <1>8, <1>9, <1>10 DEF Codecs!decode

\* The invariant holds in every state of the codecs.
LEMMA CodecInvariant == Codecs!Spec => []CodecInv
<1>1. Codecs!Init => CodecInv
  <2> SUFFICES ASSUME Codecs!Init PROVE CodecInv
    OBVIOUS
  <2>1. MaxMessages \in Nat
    BY CodecAssumption
  <2>2. codec \in {"default", "length"} /\ body \in [Codecs!Message -> 0..MaxBody]
        /\ known \subseteq Codecs!Message
    BY DEF Codecs!Init
  <2>3. Codecs!End \in [0..MaxMessages -> Nat] /\ Codecs!End[0] = 0
    BY <2>2, EndFacts
  <2>4. arrived = 0 /\ consumed = 0 /\ decoded = <<>> /\ lost = {}
    BY DEF Codecs!Init
  <2> QED
    BY <2>1, <2>2, <2>3, <2>4 DEF CodecInv, CodecTypes, InStep, Behind, Compared
<1>2. CodecInv /\ [Codecs!Next]_(Codecs!vars) => CodecInv'
  <2> SUFFICES ASSUME CodecInv, [Codecs!Next]_(Codecs!vars) PROVE CodecInv'
    OBVIOUS
  <2>1. CASE Codecs!decode
    BY <2>1, DecodeStep
  <2>2. CASE Codecs!getMessageLength
    <3>1. Codecs!Front \in 2..3 /\ arrived \in Nat /\ consumed \in Nat
      BY EndFacts DEF CodecInv, CodecTypes
    <3>2. /\ consumed' \in consumed..arrived /\ torn'
          /\ UNCHANGED <<codec, body, known, magics, arrived, decoded, lost>>
      BY <2>2, <3>1 DEF Codecs!getMessageLength, Codecs!readable, Codecs!stream
    <3>3. codec = "default" => lost' = {}
      BY <3>2 DEF CodecInv, Compared
    <3> QED
      BY <3>2, <3>3, MovesOn
  <2>3. CASE Codecs!Receive
    <3>1. UNCHANGED <<codec, body, known, magics, consumed, decoded, torn, lost>> /\ Codecs!End' = Codecs!End
      BY <2>3, EndStays DEF Codecs!Receive, Codecs!stream
    <3>2. MaxMessages \in Nat /\ Codecs!End \in [0..MaxMessages -> Nat]
      BY CodecAssumption, EndFacts DEF CodecInv, CodecTypes
    <3>3. arrived' \in 0..Codecs!End[MaxMessages] /\ consumed \in 0..arrived'
      BY <2>3, <3>2 DEF Codecs!Receive, CodecInv, CodecTypes
    <3> QED
      BY <3>1, <3>3 DEF CodecInv, CodecTypes, InStep, Behind, Compared, Codecs!Message
  <2>4. CASE UNCHANGED Codecs!vars
    <3>1. UNCHANGED <<codec, body, known, magics, arrived, consumed, decoded, torn, lost>> /\ Codecs!End' = Codecs!End
      BY <2>4, EndStays DEF Codecs!vars
    <3> QED
      BY <3>1 DEF CodecInv, CodecTypes, InStep, Behind, Compared, Codecs!Message
  <2> QED
    BY <2>1, <2>2, <2>3, <2>4 DEF Codecs!Next
<1> QED
  BY <1>1, <1>2, PTL DEF Codecs!Spec

\* DefaultCodec takes no message that has arrived whole for an incomplete one,
\* and either codec has returned exactly the messages it has read as long as
\* none was cut, unknown, misread by its class or, by LengthFieldCodec, lost; for
\* streams of any length and bodies of any size.
THEOREM CodecIntactWhileWhole == Codecs!Spec => []IntactWhileWhole
<1>1. CodecInv => IntactWhileWhole
  <2>1. ASSUME CodecInv, ~torn, lost = {}
        PROVE  /\ consumed = Codecs!End[Len(decoded)]
               /\ decoded = [i \in 1..Len(decoded) |-> i]
    <3>1. \A i \in 1..Len(decoded) : decoded[i] = i
      BY <2>1 DEF CodecInv, InStep
    <3>2. decoded \in Seq(0..MaxMessages)
      BY <2>1 DEF CodecInv, CodecTypes
    <3> QED
      BY <2>1, <3>1, <3>2 DEF CodecInv, InStep
  <2>2. CodecInv /\ codec = "default" => lost = {}
    BY DEF CodecInv, Compared
  <2> QED
    BY <2>1, <2>2 DEF IntactWhileWhole, Codecs!IntactWhileWhole
<1> QED
  BY <1>1, CodecInvariant, PTL

\* Either codec returns a sent message at most once, in order and with a known
\* id, wherever the stream is cut and whatever bytes the bodies hold; something
\* nobody sent DefaultCodec::decode() returns only after it has lost its place,
\* and only if a message has the magic number inside.
THEOREM DecodedMessagesWereSent == Codecs!Spec => []DecodedWereSent
<1>1. CodecInv => DecodedWereSent
  <2> SUFFICES ASSUME CodecInv PROVE DecodedWereSent
    OBVIOUS
  <2>1. DOMAIN decoded = 1..Len(decoded)
    BY DEF CodecInv, CodecTypes
  <2> QED
    BY <2>1 DEF CodecInv, Behind, Compared, DecodedWereSent, Codecs!DecodedWereSent
<1> QED
  BY <1>1, CodecInvariant, PTL

-----------------------------------------------------------------------------
(* The message queue. *)

\* The instance of the queue counts as the module does.
LEMMA QueueCardinality ==
  ASSUME NEW S
  PROVE  Queues!Cardinality(S) = Cardinality(S)
  BY DEF Queues!Cardinality, Cardinality

\* Where the variables of the queue lie; no popper sleeps and is awake.
QueueTypes ==
  /\ queue_ \in Nat
  /\ waiting \subseteq Popper /\ woken \subseteq Popper
  /\ waiting \intersect woken = {}
\* stop() leaves nobody asleep.
NobodySleepsStopped == waiting # {} => ~stopped_
\* While somebody sleeps, there is a woken popper for every message.
WokenCover == waiting # {} => queue_ <= Cardinality(woken)
\* The inductive invariant of the queue.
QueueInv == QueueTypes /\ NobodySleepsStopped /\ WokenCover

\* Every step of the queue keeps its types.
LEMMA QueueTypesStep ==
  ASSUME QueueTypes, [Queues!Next]_(Queues!vars)
  PROVE  QueueTypes'
<1> USE DEF QueueTypes
<1>1. CASE Queues!push
  BY <1>1 DEF Queues!push, Queues!notify
<1>2. ASSUME NEW p \in Popper, Queues!pop(p)
      PROVE  QueueTypes'
  BY <1>2 DEF Queues!pop
<1>3. ASSUME NEW p \in Popper, Queues!Timeout(p)
      PROVE  QueueTypes'
  BY <1>3 DEF Queues!Timeout
<1>4. CASE Queues!popAll \/ Queues!stop \/ Queues!reset
  BY <1>4 DEF Queues!popAll, Queues!stop, Queues!reset
<1>5. CASE UNCHANGED Queues!vars
  BY <1>5 DEF Queues!vars
<1> QED
  BY <1>1, <1>2, <1>3, <1>4, <1>5 DEF Queues!Next

\* Nobody goes to sleep in a stopped queue.
LEMMA SleepersStep ==
  ASSUME QueueInv, [Queues!Next]_(Queues!vars)
  PROVE  NobodySleepsStopped'
<1> USE DEF QueueInv, QueueTypes, NobodySleepsStopped
<1>1. CASE Queues!push
  BY <1>1 DEF Queues!push, Queues!notify
<1>2. ASSUME NEW p \in Popper, Queues!pop(p)
      PROVE  NobodySleepsStopped'
  BY <1>2 DEF Queues!pop
<1>3. ASSUME NEW p \in Popper, Queues!Timeout(p)
      PROVE  NobodySleepsStopped'
  BY <1>3 DEF Queues!Timeout
<1>4. CASE Queues!popAll \/ Queues!stop \/ Queues!reset
  BY <1>4 DEF Queues!popAll, Queues!stop, Queues!reset
<1>5. CASE UNCHANGED Queues!vars
  BY <1>5 DEF Queues!vars
<1> QED
  BY <1>1, <1>2, <1>3, <1>4, <1>5 DEF Queues!Next

\* push() wakes a popper or nobody sleeps; a popper that takes a message takes
\* its own wakeup with it.
LEMMA WokenStep ==
  ASSUME QueueInv, [Queues!Next]_(Queues!vars)
  PROVE  WokenCover'
<1> USE DEF WokenCover
<1>0. /\ IsFiniteSet(woken) /\ Cardinality(woken) \in Nat
      /\ queue_ \in Nat /\ waiting \intersect woken = {}
      /\ waiting # {} => ~stopped_ /\ queue_ <= Cardinality(woken)
  BY PopperAssumption, FS_Subset, FS_CardinalityType DEF QueueInv, QueueTypes, NobodySleepsStopped, WokenCover
<1>1. CASE Queues!push
  <2>1. ASSUME NEW p \in waiting, waiting' = waiting \ {p}, woken' = woken \union {p}
        PROVE  WokenCover'
    <3>1. Cardinality(woken') = Cardinality(woken) + 1
      BY <1>0, <2>1, FS_AddElement
    <3> QED
      BY <1>0, <1>1, <2>1, <3>1 DEF Queues!push
  <2> QED
    BY <1>1, <2>1 DEF Queues!push, Queues!notify
<1>2. ASSUME NEW p \in Popper, Queues!pop(p)
      PROVE  WokenCover'
  <2>1. Cardinality(woken \ {p}) >= Cardinality(woken) - 1 /\ Cardinality(woken \ {p}) \in Nat
    BY <1>0, FS_RemoveElement, FS_CardinalityType
  <2> QED
    BY <1>0, <1>2, <2>1 DEF Queues!pop
<1>3. ASSUME NEW p \in Popper, Queues!Timeout(p)
      PROVE  WokenCover'
  <2>1. Cardinality(woken \union {p}) >= Cardinality(woken) /\ Cardinality(woken \union {p}) \in Nat
    BY <1>0, FS_AddElement
  <2> QED
    BY <1>0, <1>3, <2>1 DEF Queues!Timeout
<1>4. CASE Queues!popAll \/ Queues!stop \/ Queues!reset
  BY <1>0, <1>4 DEF Queues!popAll, Queues!stop, Queues!reset
<1>5. CASE UNCHANGED Queues!vars
  BY <1>0, <1>5 DEF Queues!vars
<1> QED
  BY <1>1, <1>2, <1>3, <1>4, <1>5 DEF Queues!Next

\* No popper of MessageQueue sleeps while a message is there for it or after
\* stop(), for any number of poppers.
THEOREM NoPopperSleepsOnWork == Queues!Spec => []WakeupsSuffice
<1>1. Queues!Init => QueueInv
  BY DEF Queues!Init, QueueInv, QueueTypes, NobodySleepsStopped, WokenCover
<1>2. QueueInv /\ [Queues!Next]_(Queues!vars) => QueueInv'
  BY QueueTypesStep, SleepersStep, WokenStep DEF QueueInv
<1>3. QueueInv => WakeupsSuffice
  BY QueueCardinality DEF QueueInv, NobodySleepsStopped, WokenCover, WakeupsSuffice, Queues!WakeupsSuffice
<1> QED
  BY <1>1, <1>2, <1>3, PTL DEF Queues!Spec

-----------------------------------------------------------------------------
(* The timer wheel. *)

\* A number of ticks is a number of turns and what is left of one.
LEMMA TurnsAndRest ==
  ASSUME NEW n \in Nat, NEW w \in Nat \ {0}
  PROVE  /\ n \div w \in Nat /\ n % w \in 0 .. w - 1
         /\ n = (n \div w) * w + (n % w)
  BY Z3

\* A turn less is a round less.
LEMMA OneTurnLess ==
  ASSUME NEW k \in Int, NEW w \in Int
  PROVE  (k - 1) * w + w = k * w
  BY Z3

\* What a round less makes of an entry.
LEMMA OneRoundLess ==
  ASSUME NEW r \in [slot : Nat, rounds : Nat]
  PROVE  [r EXCEPT !.rounds = @ - 1] = [slot |-> r.slot, rounds |-> r.rounds - 1]
  OBVIOUS

\* The slot n ticks ahead of slot c.
LEMMA SlotAhead ==
  ASSUME NEW w \in Nat \ {0}, NEW c \in 0 .. w - 1, NEW n \in Nat
  PROVE  (c + n) % w = IF c + (n % w) < w THEN c + (n % w) ELSE c + (n % w) - w
<1> DEFINE q == n \div w
           r == n % w
<1>1. q \in Nat /\ r \in 0 .. w - 1 /\ n = q * w + r
  BY TurnsAndRest
<1> HIDE DEF q, r
<1>2. CASE c + r < w
  <2>1. (q * w + (c + r)) % w = c + r
    BY <1>1, <1>2, ColumnOfIndex
  <2>2. c + n = q * w + (c + r)
    BY <1>1
  <2> QED
    BY <1>2, <2>1, <2>2 DEF r
<1>3. CASE ~(c + r < w)
  <2>1. c + r - w \in 0 .. w - 1 /\ q + 1 \in Nat
    BY <1>1, <1>3
  <2>2. ((q + 1) * w + (c + r - w)) % w = c + r - w
    BY <2>1, ColumnOfIndex
  <2>3. (q + 1) * w = q * w + w
    BY <1>1, Z3
  <2>4. q * w \in Int
    BY <1>1
  <2>5. c + n = (q + 1) * w + (c + r - w)
    BY <1>1, <2>3, <2>4
  <2> QED
    BY <1>3, <2>2, <2>5 DEF r
<1> QED
  BY <1>2, <1>3

\* The slot of the next tick.
LEMMA NextSlot ==
  ASSUME NEW w \in Nat \ {0}, NEW c \in 0 .. w - 1
  PROVE  (c + 1) % w = IF c + 1 < w THEN c + 1 ELSE 0
  BY Z3

\* The tick a timer is to run in, and the ticks until a slot is looked at.
DueTick(a) == a.at + Wheels!TicksOf(a.timeout)
Ahead(c, s) == IF s >= c THEN s - c ELSE s - c + WheelSize

\* Where the variables of the wheel lie; only ids given out are in the map.
WheelTypes ==
  /\ ticks \in 0..MaxTicks /\ currentSlot_ \in 0 .. WheelSize - 1
  /\ nextTimerId_ \in 1 .. MaxTimer + 1
  /\ wheel_ \in [Wheels!Timer -> [slot : Nat, rounds : Nat]]
  /\ added \in [Wheels!Timer -> [timeout : Nat, at : Nat]]
  /\ ran \in [Wheels!Timer -> Nat]
  /\ timerMap_ \subseteq 1 .. nextTimerId_ - 1

\* timerMap_ and the slots know the same timers.
MapAndSlots ==
  \A i \in Wheels!Timer :
    IF i \in timerMap_ THEN wheel_[i].slot \in 0 .. WheelSize - 1 ELSE wheel_[i] = Wheels!NoEntry

\* An id that was not given out has not run.
NotYetRun == \A i \in Wheels!Timer : i >= nextTimerId_ => ran[i] = Wheels!Never

\* The rounds of a timer and the way to its slot are the ticks it has left.
OnSchedule ==
  ~wheelStuck => \A i \in timerMap_ :
    DueTick(added[i]) = ticks + wheel_[i].rounds * WheelSize + Ahead(currentSlot_, wheel_[i].slot)

\* What ran, ran in its tick, and what is in the map has its tick before it.
RanInTime == \A i \in 1 .. nextTimerId_ - 1 : ran[i] # Wheels!Never => ran[i] = DueTick(added[i])
StillToCome == \A i \in timerMap_ : DueTick(added[i]) >= ticks

\* The inductive invariant of the wheel.
WheelInv ==
  /\ WheelTypes /\ MapAndSlots /\ NotYetRun /\ OnSchedule /\ RanInTime /\ StillToCome

\* A timer waits for at least one tick.
LEMMA TicksPositive ==
  ASSUME NEW ms \in Nat
  PROVE  Wheels!TicksOf(ms) \in Nat \ {0}
<1>1. TickMs \in Nat \ {0}
  BY WheelAssumption
<1>2. ms >= TickMs => ms \div TickMs \in Nat \ {0}
  BY <1>1, QuotientPositive
<1> QED
  BY <1>1, <1>2 DEF Wheels!TicksOf

\* Where a timer goes that waits for n ticks.
LEMMA EntryOnSchedule ==
  ASSUME WheelTypes, NEW n \in Nat
  PROVE  /\ Wheels!Entry(n).slot \in 0 .. WheelSize - 1
         /\ Wheels!Entry(n).rounds \in Nat
         /\ n = Wheels!Entry(n).rounds * WheelSize + Ahead(currentSlot_, Wheels!Entry(n).slot)
<1> DEFINE q == n \div WheelSize
           r == n % WheelSize
           s == (currentSlot_ + n) % WheelSize
<1>0. WheelSize \in Nat \ {0} /\ currentSlot_ \in 0 .. WheelSize - 1
  BY WheelAssumption DEF WheelTypes
<1>1. q \in Nat /\ r \in 0 .. WheelSize - 1 /\ n = q * WheelSize + r
  BY <1>0, TurnsAndRest
<1>2. s = IF currentSlot_ + r < WheelSize THEN currentSlot_ + r ELSE currentSlot_ + r - WheelSize
  BY <1>0, SlotAhead
<1> HIDE DEF q, r, s
<1>3. s \in 0 .. WheelSize - 1 /\ Ahead(currentSlot_, s) = r
  BY <1>0, <1>1, <1>2 DEF Ahead
<1>4. Wheels!Entry(n) = [slot |-> s, rounds |-> q]
  BY DEF Wheels!Entry, s, q
<1> QED
  BY <1>1, <1>3, <1>4

\* addTimer() puts the timer where its ticks lead.
LEMMA AddTimerStep ==
  ASSUME WheelInv, NEW ms \in Timeouts, Wheels!addTimer(ms)
  PROVE  WheelInv'
<1>a. ms \in Nat /\ MaxTimer \in Nat /\ MaxTicks \in Nat /\ WheelSize \in Nat \ {0}
  BY WheelAssumption
<1>b. PICK i \in Nat : i = nextTimerId_
  BY <1>a DEF WheelInv, WheelTypes
<1>c. PICK n \in Nat \ {0} : n = Wheels!TicksOf(ms)
  BY <1>a, TicksPositive
<1>d. PICK e : e = Wheels!Entry(n)
  OBVIOUS
<1>2. /\ e.slot \in 0 .. WheelSize - 1 /\ e.rounds \in Nat
      /\ e = [slot |-> e.slot, rounds |-> e.rounds]
      /\ n = e.rounds * WheelSize + Ahead(currentSlot_, e.slot)
  BY <1>c, <1>d, EntryOnSchedule DEF WheelInv, Wheels!Entry
<1>3. /\ i \in Wheels!Timer
      /\ wheel_' = [wheel_ EXCEPT ![i] = e]
      /\ timerMap_' = timerMap_ \union {i}
      /\ nextTimerId_' = i + 1
      /\ added' = [added EXCEPT ![i] = [timeout |-> ms, at |-> ticks]]
      /\ UNCHANGED <<currentSlot_, wheelStuck, ticks, ran>>
  BY <1>b, <1>c, <1>d DEF Wheels!addTimer
<1>4. WheelTypes'
  <2>1. e \in [slot : Nat, rounds : Nat]
    BY <1>a, <1>2
  <2>2. [timeout |-> ms, at |-> ticks] \in [timeout : Nat, at : Nat]
    BY <1>a DEF WheelInv, WheelTypes
  <2>3. /\ wheel_' \in [Wheels!Timer -> [slot : Nat, rounds : Nat]]
        /\ added' \in [Wheels!Timer -> [timeout : Nat, at : Nat]]
    BY <1>3, <2>1, <2>2 DEF WheelInv, WheelTypes
  <2>4. nextTimerId_' \in 1 .. MaxTimer + 1 /\ timerMap_' \subseteq 1 .. nextTimerId_' - 1
    BY <1>a, <1>b, <1>3 DEF WheelInv, WheelTypes, Wheels!Timer
  <2> QED
    BY <1>3, <2>3, <2>4 DEF WheelInv, WheelTypes
<1>5. MapAndSlots'
  BY <1>a, <1>b, <1>2, <1>3 DEF WheelInv, WheelTypes, MapAndSlots, Wheels!NoEntry
<1>6. NotYetRun'
  BY <1>a, <1>b, <1>3 DEF WheelInv, WheelTypes, NotYetRun, Wheels!Never, Wheels!Timer
<1>7. \A j \in 1 .. i - 1 : /\ j \in Wheels!Timer /\ j # i
                            /\ wheel_'[j] = wheel_[j] /\ added'[j] = added[j]
  BY <1>a, <1>b, <1>3 DEF WheelInv, WheelTypes, Wheels!Timer
<1>8. added'[i].at = ticks /\ added'[i].timeout = ms /\ wheel_'[i] = e
  BY <1>3 DEF WheelInv, WheelTypes
<1>9. timerMap_ \subseteq 1 .. i - 1
  BY <1>b DEF WheelInv, WheelTypes
<1>10. DueTick(added'[i]) = ticks + n
  BY <1>c, <1>8 DEF DueTick
<1>11. \A j \in 1 .. i - 1 : DueTick(added'[j]) = DueTick(added[j])
  BY <1>7
<1>12. OnSchedule'
  <2>2. ticks \in Nat /\ e.rounds * WheelSize \in Int /\ Ahead(currentSlot_, e.slot) \in Int
    BY <1>a, <1>2 DEF WheelInv, WheelTypes, Ahead
  <2>3. ASSUME ~wheelStuck, NEW j \in timerMap_
        PROVE  DueTick(added'[j]) = ticks' + wheel_'[j].rounds * WheelSize + Ahead(currentSlot_', wheel_'[j].slot)
    BY <1>3, <1>7, <1>9, <1>11, <2>3 DEF WheelInv, OnSchedule
  <2>4. DueTick(added'[i]) = ticks' + wheel_'[i].rounds * WheelSize + Ahead(currentSlot_', wheel_'[i].slot)
    BY <1>2, <1>3, <1>8, <1>10, <2>2
  <2> QED
    BY <1>3, <2>3, <2>4 DEF OnSchedule
<1>13. StillToCome'
  BY <1>a, <1>3, <1>9, <1>10, <1>11 DEF WheelInv, WheelTypes, StillToCome
<1>14. RanInTime'
  <2>1. ran[i] = Wheels!Never
    BY <1>b, <1>3 DEF WheelInv, WheelTypes, NotYetRun
  <2>4. \A j \in 1 .. nextTimerId_' - 1 : j = i \/ j \in 1 .. i - 1
    BY <1>3
  <2> QED
    BY <1>b, <1>3, <1>11, <2>1, <2>4 DEF WheelInv, RanInTime, Wheels!Never
<1> QED
  BY <1>4, <1>5, <1>6, <1>12, <1>13, <1>14 DEF WheelInv

\* cancel() takes a timer out of the map and of its slot.
LEMMA CancelStep ==
  ASSUME WheelInv, NEW i \in Wheels!Timer, Wheels!cancel(i)
  PROVE  WheelInv'
<1>a. MaxTimer \in Nat /\ MaxTicks \in Nat /\ WheelSize \in Nat \ {0}
  BY WheelAssumption
<1>1. /\ wheel_' = [wheel_ EXCEPT ![i] = Wheels!NoEntry] /\ timerMap_' = timerMap_ \ {i}
      /\ UNCHANGED <<currentSlot_, nextTimerId_, wheelStuck, ticks, added, ran>>
  BY DEF Wheels!cancel
<1>2. WheelTypes'
  BY <1>a, <1>1 DEF WheelInv, WheelTypes, Wheels!NoEntry
<1>3. MapAndSlots'
  BY <1>a, <1>1 DEF WheelInv, WheelTypes, MapAndSlots, Wheels!NoEntry
<1>4. NotYetRun'
  BY <1>1 DEF WheelInv, NotYetRun, Wheels!Never
<1>5. \A j : DueTick(added'[j]) = DueTick(added[j]) 
  BY <1>1
<1>6. \A j \in timerMap_' : j \in timerMap_ /\ wheel_'[j] = wheel_[j]
  BY <1>1 DEF WheelInv, WheelTypes
<1>7. OnSchedule'
  BY <1>1, <1>5, <1>6 DEF WheelInv, OnSchedule
<1>8. RanInTime' /\ StillToCome'
  BY <1>1, <1>5, <1>6 DEF WheelInv, RanInTime, StillToCome, Wheels!Never
<1> QED
  BY <1>2, <1>3, <1>4, <1>7, <1>8 DEF WheelInv

\* What a tick knows of a timer that is pending while no one is stuck.
LEMMA PendingTimer ==
  ASSUME WheelInv, ~wheelStuck, NEW i \in timerMap_
  PROVE  /\ i \in Wheels!Timer /\ wheel_[i].rounds \in Nat
         /\ wheel_[i].slot \in 0 .. WheelSize - 1
         /\ Ahead(currentSlot_, wheel_[i].slot) \in 0 .. WheelSize - 1
         /\ i \in Wheels!Here <=> wheel_[i].slot = currentSlot_
         /\ i \in Wheels!Here <=> Ahead(currentSlot_, wheel_[i].slot) = 0
         /\ i \in Wheels!Due <=> i \in Wheels!Here /\ wheel_[i].rounds = 0
         /\ i \in Wheels!Due => DueTick(added[i]) = ticks
<1>a. MaxTimer \in Nat /\ MaxTicks \in Nat /\ WheelSize \in Nat \ {0}
  BY WheelAssumption
<1>1. i \in Wheels!Timer /\ wheel_[i].rounds \in Nat /\ wheel_[i].slot \in 0 .. WheelSize - 1
  BY <1>a DEF WheelInv, WheelTypes, MapAndSlots, Wheels!Timer
<1>2. currentSlot_ \in 0 .. WheelSize - 1 /\ ticks \in Nat
  BY <1>a DEF WheelInv, WheelTypes
<1>3. /\ Ahead(currentSlot_, wheel_[i].slot) \in 0 .. WheelSize - 1
      /\ wheel_[i].slot = currentSlot_ <=> Ahead(currentSlot_, wheel_[i].slot) = 0
  BY <1>a, <1>1, <1>2 DEF Ahead
<1>4. wheel_[i] # Wheels!NoEntry
  BY <1>a, <1>1 DEF Wheels!NoEntry
<1>5. /\ i \in Wheels!Here <=> wheel_[i].slot = currentSlot_
      /\ i \in Wheels!Due <=> i \in Wheels!Here /\ wheel_[i].rounds = 0
  BY <1>1, <1>4 DEF Wheels!Here, Wheels!Due, Wheels!Pending
<1>6. DueTick(added[i]) = ticks + wheel_[i].rounds * WheelSize + Ahead(currentSlot_, wheel_[i].slot)
  BY DEF WheelInv, OnSchedule
<1>7. 0 * WheelSize = 0
  BY <1>a, Z3
<1>8. i \in Wheels!Due => DueTick(added[i]) = ticks
  BY <1>2, <1>3, <1>5, <1>6, <1>7
<1> QED
  BY <1>1, <1>3, <1>5, <1>8

\* Only timers of the map are in a slot.
LEMMA DueInMap ==
  ASSUME WheelInv
  PROVE  Wheels!Here \subseteq timerMap_ /\ Wheels!Due \subseteq timerMap_
  BY DEF WheelInv, MapAndSlots, Wheels!Here, Wheels!Due, Wheels!Pending

\* tick() brings every timer of the wheel one tick nearer, and runs those that
\* have none left.
LEMMA TickStep ==
  ASSUME WheelInv, Wheels!tick
  PROVE  WheelInv'
<1>a. MaxTimer \in Nat /\ MaxTicks \in Nat /\ WheelSize \in Nat \ {0}
  BY WheelAssumption
<1>b. PICK due, here : due = Wheels!Due /\ here = Wheels!Here
  OBVIOUS
<1>1. /\ ~wheelStuck /\ ticks < MaxTicks
      /\ wheel_' = [i \in Wheels!Timer |->
           IF i \in due THEN Wheels!NoEntry
           ELSE IF i \in here THEN [wheel_[i] EXCEPT !.rounds = @ - 1] ELSE wheel_[i]]
      /\ timerMap_' = timerMap_ \ due
      /\ ran' = [i \in Wheels!Timer |-> IF i \in due THEN ticks ELSE ran[i]]
      /\ ticks' = ticks + 1
      /\ currentSlot_' = (currentSlot_ + 1) % WheelSize
      /\ UNCHANGED <<nextTimerId_, wheelStuck, added>>
  BY <1>b DEF Wheels!tick
<1>2. /\ currentSlot_ \in 0 .. WheelSize - 1
      /\ currentSlot_' = IF currentSlot_ + 1 < WheelSize THEN currentSlot_ + 1 ELSE 0
  BY <1>a, <1>1, NextSlot DEF WheelInv, WheelTypes
<1>3. due \subseteq here /\ here \subseteq timerMap_ /\ timerMap_ \subseteq Wheels!Timer
  <2>1. due \subseteq here
    BY <1>b DEF Wheels!Due
  <2>2. timerMap_ \subseteq Wheels!Timer
    BY <1>a DEF WheelInv, WheelTypes, Wheels!Timer
  <2> QED
    BY <1>b, <2>1, <2>2, DueInMap
<1>4. \A i \in timerMap_ :
        /\ wheel_[i].rounds \in Nat /\ wheel_[i].slot \in 0 .. WheelSize - 1
        /\ i \in here <=> Ahead(currentSlot_, wheel_[i].slot) = 0
        /\ i \in due <=> i \in here /\ wheel_[i].rounds = 0
        /\ i \in due => DueTick(added[i]) = ticks
  BY <1>b, <1>1, PendingTimer
<1>5. \A i \in Wheels!Timer : wheel_[i] \in [slot : Nat, rounds : Nat]
  BY DEF WheelInv, WheelTypes
<1>6. \A i \in Wheels!Timer :
        wheel_'[i] = IF i \in due THEN Wheels!NoEntry
                     ELSE IF i \in here THEN [slot |-> wheel_[i].slot, rounds |-> wheel_[i].rounds - 1]
                     ELSE wheel_[i]
  BY <1>1, <1>5, OneRoundLess
<1>7. \A i \in here \ due : wheel_[i].rounds - 1 \in Nat
  BY <1>3, <1>4
<1>8. WheelTypes'
  <2>1. wheel_' \in [Wheels!Timer -> [slot : Nat, rounds : Nat]]
    <3>1. Wheels!NoEntry \in [slot : Nat, rounds : Nat]
      BY <1>a DEF Wheels!NoEntry
    <3>2. ASSUME NEW i \in Wheels!Timer PROVE wheel_'[i] \in [slot : Nat, rounds : Nat]
      <4>1. wheel_[i].slot \in Nat
        BY <1>5
      <4>2. CASE i \in due \/ i \notin here
        BY <1>5, <1>6, <3>1, <4>2
      <4>3. CASE i \in here \ due
        <5>1. wheel_'[i] = [slot |-> wheel_[i].slot, rounds |-> wheel_[i].rounds - 1]
          BY <1>6, <4>3
        <5>2. wheel_[i].rounds - 1 \in Nat
          BY <1>7, <4>3
        <5> QED
          BY <4>1, <5>1, <5>2
      <4> QED
        BY <4>2, <4>3
    <3> QED
      BY <1>1, <3>2
  <2>2. ran' \in [Wheels!Timer -> Nat] /\ ticks' \in 0..MaxTicks
    BY <1>a, <1>1 DEF WheelInv, WheelTypes
  <2> QED
    BY <1>a, <1>1, <1>2, <2>1, <2>2 DEF WheelInv, WheelTypes
<1>9. MapAndSlots'
  <2>1. Wheels!NoEntry' = Wheels!NoEntry
    BY DEF Wheels!NoEntry
  <2> QED
    BY <1>1, <1>3, <1>4, <1>6, <2>1 DEF WheelInv, MapAndSlots
<1>10. NotYetRun'
  <2>1. \A i \in due : i < nextTimerId_
    BY <1>3 DEF WheelInv, WheelTypes
  <2> QED
    BY <1>1, <1>a, <2>1 DEF WheelInv, WheelTypes, NotYetRun, Wheels!Never, Wheels!Timer
<1>11. \A j : DueTick(added'[j]) = DueTick(added[j])
  BY <1>1
<1>12. ASSUME NEW i \in timerMap_'
       PROVE  DueTick(added'[i]) = ticks' + wheel_'[i].rounds * WheelSize + Ahead(currentSlot_', wheel_'[i].slot)
  <2>1. i \in timerMap_ /\ i \notin due /\ i \in Wheels!Timer
    BY <1>1, <1>3, <1>12
  <2>2. DueTick(added[i]) = ticks + wheel_[i].rounds * WheelSize + Ahead(currentSlot_, wheel_[i].slot)
    BY <1>1, <2>1 DEF WheelInv, OnSchedule
  <2>3. ticks \in Nat /\ wheel_[i].rounds * WheelSize \in Int /\ wheel_[i].rounds \in Nat
        /\ wheel_[i].slot \in 0 .. WheelSize - 1
    BY <1>a, <1>4, <2>1 DEF WheelInv, WheelTypes
  <2>4. CASE i \in here
    <3>1. wheel_'[i] = [slot |-> wheel_[i].slot, rounds |-> wheel_[i].rounds - 1]
      BY <1>6, <2>1, <2>4
    <3>2. Ahead(currentSlot_, wheel_[i].slot) = 0
      BY <1>4, <2>1, <2>4
    <3>3. Ahead(currentSlot_', wheel_'[i].slot) = WheelSize - 1
      <4>1. wheel_'[i].slot = wheel_[i].slot
        BY <3>1
      <4> QED
        BY <1>a, <1>2, <2>3, <3>2, <4>1 DEF Ahead
    <3>4. (wheel_[i].rounds - 1) * WheelSize + WheelSize = wheel_[i].rounds * WheelSize
      <4>1. wheel_[i].rounds \in Int /\ WheelSize \in Int
        BY <1>a, <2>3
      <4> QED
        BY <4>1, OneTurnLess
    <3>5. (wheel_[i].rounds - 1) * WheelSize \in Int
      BY <1>a, <2>3
    <3>6. wheel_'[i].rounds = wheel_[i].rounds - 1
      BY <3>1
    <3>7. ticks' = ticks + 1 /\ added' = added
      BY <1>1
    <3>8. PICK x \in Int, y \in Int :
            x = wheel_[i].rounds * WheelSize /\ y = (wheel_[i].rounds - 1) * WheelSize
      BY <2>3, <3>5
    <3>9. DueTick(added[i]) = ticks + x + 0 /\ y + WheelSize = x
      BY <2>2, <3>2, <3>4, <3>8
    <3>10. ticks + x + 0 = (ticks + 1) + y + (WheelSize - 1)
      BY <1>a, <2>3, <3>9
    <3>11. ticks' + wheel_'[i].rounds * WheelSize + Ahead(currentSlot_', wheel_'[i].slot)
             = (ticks + 1) + y + (WheelSize - 1)
      BY <3>3, <3>6, <3>7, <3>8
    <3> QED
      BY <3>7, <3>9, <3>10, <3>11
  <2>5. CASE i \notin here
    <3>1. wheel_'[i] = wheel_[i]
      BY <1>6, <2>1, <2>5
    <3>2. Ahead(currentSlot_, wheel_[i].slot) # 0
      BY <1>4, <2>1, <2>5
    <3>3. Ahead(currentSlot_', wheel_'[i].slot) = Ahead(currentSlot_, wheel_[i].slot) - 1
      BY <1>a, <1>2, <2>3, <3>1, <3>2 DEF Ahead
    <3>4. Ahead(currentSlot_, wheel_[i].slot) \in Int
      BY <1>a, <1>2, <2>3 DEF Ahead
    <3>5. ticks' = ticks + 1 /\ added' = added
      BY <1>1
    <3> QED
      BY <2>2, <2>3, <3>1, <3>3, <3>4, <3>5
  <2> QED
    BY <2>4, <2>5
<1>13. OnSchedule'
  BY <1>12 DEF OnSchedule
<1>14. StillToCome'
  <2>1. ASSUME NEW i \in timerMap_' PROVE DueTick(added'[i]) >= ticks'
    <3>1. /\ wheel_'[i].rounds \in Nat /\ wheel_'[i].slot \in 0 .. WheelSize - 1
          /\ currentSlot_' \in 0 .. WheelSize - 1 /\ ticks' \in Nat
      BY <1>a, <1>1, <1>2, <1>3, <1>4, <1>6, <1>7, <2>1, <1>8 DEF WheelTypes
    <3>2. wheel_'[i].rounds * WheelSize \in Nat /\ Ahead(currentSlot_', wheel_'[i].slot) \in Nat
      BY <1>a, <3>1 DEF Ahead
    <3> QED
      BY <1>12, <3>1, <3>2
  <2> QED
    BY <2>1 DEF StillToCome
<1>15. RanInTime'
  <2>1. ASSUME NEW i \in 1 .. nextTimerId_' - 1, ran'[i] # Wheels!Never
        PROVE  ran'[i] = DueTick(added[i])
    <3>1. i \in Wheels!Timer /\ i \in 1 .. nextTimerId_ - 1
      BY <1>a, <1>1, <2>1 DEF WheelInv, WheelTypes, Wheels!Timer
    <3>2. CASE i \in due
      BY <1>1, <1>3, <1>4, <3>1, <3>2
    <3>3. CASE i \notin due
      BY <1>1, <2>1, <3>1, <3>3 DEF WheelInv, RanInTime
    <3> QED
      BY <3>2, <3>3
  <2>2. Wheels!Never' = Wheels!Never
    BY DEF Wheels!Never
  <2> QED
    BY <1>11, <2>1, <2>2 DEF RanInTime
<1> QED
  BY <1>8, <1>9, <1>10, <1>13, <1>14, <1>15 DEF WheelInv

\* A tick() that waits for itself has run some of the due timers.
LEMMA TickBlocksStep ==
  ASSUME WheelInv, Wheels!tickBlocks
  PROVE  WheelInv'
<1>a. MaxTimer \in Nat /\ MaxTicks \in Nat /\ WheelSize \in Nat \ {0}
  BY WheelAssumption
<1>b. PICK due, here : due = Wheels!Due /\ here = Wheels!Here
  OBVIOUS
<1>c. ~wheelStuck /\ ticks < MaxTicks /\ wheelStuck' = TRUE
      /\ UNCHANGED <<currentSlot_, nextTimerId_, ticks, added>>
  BY DEF Wheels!tickBlocks
<1>d. PICK i \in due :
        /\ wheel_' = [j \in Wheels!Timer |->
             IF j \in {k \in due : k <= i} THEN Wheels!NoEntry
             ELSE IF j \in here /\ j < i THEN [wheel_[j] EXCEPT !.rounds = @ - 1] ELSE wheel_[j]]
        /\ timerMap_' = timerMap_ \ {k \in due : k <= i}
        /\ ran' = [j \in Wheels!Timer |-> IF j \in {k \in due : k <= i} THEN ticks ELSE ran[j]]
  BY <1>b DEF Wheels!tickBlocks
<1>e. PICK done : done = {k \in due : k <= i}
  OBVIOUS
<1>f. PICK less : less = {j \in here : j < i}
  OBVIOUS
<1>1. /\ wheel_' = [j \in Wheels!Timer |->
             IF j \in done THEN Wheels!NoEntry
             ELSE IF j \in less THEN [wheel_[j] EXCEPT !.rounds = @ - 1] ELSE wheel_[j]]
      /\ timerMap_' = timerMap_ \ done
      /\ ran' = [j \in Wheels!Timer |-> IF j \in done THEN ticks ELSE ran[j]]
  BY <1>d, <1>e, <1>f
<1>2. done \subseteq due /\ less \subseteq here /\ due \subseteq here
      /\ here \subseteq timerMap_ /\ timerMap_ \subseteq Wheels!Timer
  BY <1>a, <1>b, <1>e, <1>f, DueInMap, SMTT(40) DEF WheelInv, WheelTypes, Wheels!Timer, Wheels!Due
<1>3. \A j \in timerMap_ :
        /\ j \in Nat
        /\ wheel_[j].rounds \in Nat /\ wheel_[j].slot \in 0 .. WheelSize - 1
        /\ j \in due <=> j \in here /\ wheel_[j].rounds = 0
        /\ j \in due => DueTick(added[j]) = ticks
  BY <1>a, <1>b, <1>c, PendingTimer DEF WheelInv, WheelTypes
<1>4. \A j \in less \ done : wheel_[j].rounds - 1 \in Nat
  BY <1>e, <1>f, <1>2, <1>3
<1>5. \A j \in Wheels!Timer : wheel_[j] \in [slot : Nat, rounds : Nat]
  BY DEF WheelInv, WheelTypes
<1>6. \A j \in Wheels!Timer :
        wheel_'[j] = IF j \in done THEN Wheels!NoEntry
                     ELSE IF j \in less THEN [slot |-> wheel_[j].slot, rounds |-> wheel_[j].rounds - 1]
                     ELSE wheel_[j]
  BY <1>1, <1>5, OneRoundLess
<1>7. WheelTypes'
  <2>0. Wheels!NoEntry \in [slot : Nat, rounds : Nat]
    BY <1>a DEF Wheels!NoEntry
  <2>1. ASSUME NEW j \in Wheels!Timer PROVE wheel_'[j] \in [slot : Nat, rounds : Nat]
    <3>1. wheel_[j].slot \in Nat
      BY <1>5
    <3>2. CASE j \in done \/ j \notin less
      BY <1>5, <1>6, <2>0, <3>2
    <3>3. CASE j \in less \ done
      <4>1. wheel_'[j] = [slot |-> wheel_[j].slot, rounds |-> wheel_[j].rounds - 1]
        BY <1>6, <3>3
      <4>2. wheel_[j].rounds - 1 \in Nat
        BY <1>4, <3>3
      <4> QED
        BY <3>1, <4>1, <4>2
    <3> QED
      BY <3>2, <3>3
  <2>2. wheel_' \in [Wheels!Timer -> [slot : Nat, rounds : Nat]]
    BY <1>1, <2>1
  <2>3. ran' \in [Wheels!Timer -> Nat]
    BY <1>a, <1>1 DEF WheelInv, WheelTypes
  <2> QED
    BY <1>a, <1>c, <1>1, <2>2, <2>3 DEF WheelInv, WheelTypes
<1>8. MapAndSlots'
  <2>1. Wheels!NoEntry' = Wheels!NoEntry
    BY DEF Wheels!NoEntry
  <2> QED
    BY <1>1, <1>2, <1>3, <1>6, <2>1 DEF WheelInv, MapAndSlots
<1>9. NotYetRun'
  <2>1. \A j \in done : j < nextTimerId_
    BY <1>2 DEF WheelInv, WheelTypes
  <2> QED
    BY <1>a, <1>c, <1>1, <2>1 DEF WheelInv, WheelTypes, NotYetRun, Wheels!Never, Wheels!Timer
<1>10. \A j : DueTick(added'[j]) = DueTick(added[j])
  BY <1>c
<1>11. OnSchedule'
  BY <1>c DEF OnSchedule
<1>12. StillToCome'
  BY <1>c, <1>1, <1>10 DEF WheelInv, StillToCome
<1>13. RanInTime'
  <2>1. ASSUME NEW j \in 1 .. nextTimerId_' - 1, ran'[j] # Wheels!Never
        PROVE  ran'[j] = DueTick(added[j])
    <3>1. j \in Wheels!Timer /\ j \in 1 .. nextTimerId_ - 1
      BY <1>a, <1>c, <2>1 DEF WheelInv, WheelTypes, Wheels!Timer
    <3>2. CASE j \in done
      BY <1>1, <1>2, <1>3, <3>1, <3>2
    <3>3. CASE j \notin done
      BY <1>1, <2>1, <3>1, <3>3 DEF WheelInv, RanInTime
    <3> QED
      BY <3>2, <3>3
  <2>2. Wheels!Never' = Wheels!Never
    BY DEF Wheels!Never
  <2> QED
    BY <1>10, <2>1, <2>2 DEF RanInTime
<1> QED
  BY <1>7, <1>8, <1>9, <1>11, <1>12, <1>13 DEF WheelInv

\* The timers of the wheel run on time, for every size of the wheel, every
\* length of a tick and every timeout.
THEOREM WheelRunsOnTime == Wheels!Spec => []RunsOnTime
<1>1. Wheels!Init => WheelInv
  BY WheelAssumption DEF Wheels!Init, WheelInv, WheelTypes, MapAndSlots, NotYetRun, OnSchedule,
     RanInTime, StillToCome, Wheels!Timer, Wheels!NoEntry, Wheels!Never
<1>2. WheelInv /\ [Wheels!Next]_(Wheels!vars) => WheelInv'
  <2> SUFFICES ASSUME WheelInv, [Wheels!Next]_(Wheels!vars) PROVE WheelInv'
    OBVIOUS
  <2>1. ASSUME NEW ms \in Timeouts, Wheels!addTimer(ms) PROVE WheelInv'
    BY <2>1, AddTimerStep
  <2>2. ASSUME NEW i \in Wheels!Timer, Wheels!cancel(i) PROVE WheelInv'
    BY <2>2, CancelStep
  <2>3. CASE Wheels!tick
    BY <2>3, TickStep
  <2>4. CASE Wheels!tickBlocks
    BY <2>4, TickBlocksStep
  <2>5. CASE UNCHANGED Wheels!vars
    <3>1. UNCHANGED <<currentSlot_, wheel_, timerMap_, nextTimerId_, wheelStuck, ticks, added, ran>>
      BY <2>5 DEF Wheels!vars
    <3> QED
      BY <3>1 DEF WheelInv, WheelTypes, MapAndSlots, NotYetRun, OnSchedule, RanInTime, StillToCome,
         DueTick, Ahead, Wheels!Timer, Wheels!NoEntry, Wheels!Never, Wheels!TicksOf
  <2> QED
    BY <2>1, <2>2, <2>3, <2>4, <2>5 DEF Wheels!Next
<1>3. WheelInv => RunsOnTime
  BY DEF WheelInv, RanInTime, StillToCome, RunsOnTime, Wheels!RunsOnTime, DueTick
<1> QED
  BY <1>1, <1>2, <1>3, PTL DEF Wheels!Spec

-----------------------------------------------------------------------------
(* The typed streams. *)

\* A byte of the stream: the item it belongs to and its place in it.
Byte == Nat \X Nat

\* The bytes of an item in the stream: how many, and which is the k-th of item n.
Size(item) == IF item.type = "string" THEN 2 + item.size ELSE Streams!Width[item.type]
ByteOf(n, item, k) ==
  IF item.type # "string" THEN <<n, Streams!Width[item.type] - k + 1>>
  ELSE IF k <= 2 THEN <<0, (item.size % LengthBase) + 1>>
  ELSE <<n, k - 2>>

\* Where the variables of the streams lie; no more is read than was written.
StreamTypes ==
  /\ sent \in Seq(Streams!Item) /\ buffer_ \in Seq(Byte) /\ got \in Seq(Seq(Byte))
  /\ Len(got) <= Len(sent)

\* One of the first n items is a case that is not read back.
Spoiled(n) == \E m \in 1..n : sent[m].type = "int8" \/ sent[m].size >= LengthBase

\* Item j lies in the buffer b between off[j - 1] and off[j].
Layout(off, b, items, n) ==
  /\ off \in [n .. Len(items) -> Nat]
  /\ off[n] = 0 /\ off[Len(items)] = Len(b)
  /\ \A i, j \in n .. Len(items) : i <= j => off[i] <= off[j]
  /\ \A j \in n + 1 .. Len(items) :
       /\ off[j] = off[j - 1] + Size(items[j])
       /\ \A k \in 1 .. Size(items[j]) : b[off[j - 1] + k] = ByteOf(j, items[j], k)

\* The buffer holds the items that were not read, unless it was read wrongly.
Unread == Spoiled(Len(got)) \/ \E off : Layout(off, buffer_, sent, Len(got))

\* The inductive invariant of the streams.
StreamInv == StreamTypes /\ Unread /\ ReadsBack

\* A number has at least one byte and is no string.
LEMMA WidthFacts ==
  \A t \in Streams!Number : Streams!Width[t] \in Nat \ {0} /\ t # "string"
<1>1. Streams!Number = {"int8", "uint8", "int16", "int32", "int64"}
  BY DEF Streams!Number, Streams!Width
<1> QED
  BY <1>1 DEF Streams!Width

\* What an item is, by its type.
LEMMA ItemFacts ==
  ASSUME NEW item \in Streams!Item
  PROVE  /\ Size(item) \in Nat
         /\ item.type = "string" => item.size \in 0..LengthBase
         /\ item.type # "string" => item.type \in Streams!Number
<1>1. /\ item.type = "string" => item.size \in 0..LengthBase
      /\ item.type # "string" => item.type \in Streams!Number
  BY WidthFacts DEF Streams!Item
<1>2. CASE item.type = "string"
  BY <1>1, <1>2, StreamAssumption DEF Size
<1>3. CASE item.type # "string"
  BY <1>1, <1>3, WidthFacts DEF Size
<1> QED
  BY <1>1, <1>2, <1>3

\* retrieve() leaves bytes.
LEMMA RetrieveTypes ==
  ASSUME NEW b \in Seq(Byte), NEW w \in Nat
  PROVE  Streams!retrieve(b, w) \in Seq(Byte)
  BY DEF Streams!retrieve

\* retrieve() of bytes that are there moves the others to the front.
LEMMA RetrieveFacts ==
  ASSUME NEW b \in Seq(Byte), NEW w \in Nat, w <= Len(b)
  PROVE  /\ Len(Streams!retrieve(b, w)) = Len(b) - w
         /\ \A i \in 1 .. Len(b) - w : Streams!retrieve(b, w)[i] = b[i + w]
<1>1. CASE w < Len(b)
  BY <1>1 DEF Streams!retrieve
<1>2. CASE w = Len(b)
  BY <1>2 DEF Streams!retrieve
<1> QED
  BY <1>1, <1>2

\* peek() copies the bytes that are there.
LEMMA PeekFacts ==
  ASSUME NEW b \in Seq(Byte), NEW w \in Nat
  PROVE  /\ Streams!peek(b, w) \in Seq(Byte) /\ Len(Streams!peek(b, w)) = w
         /\ \A k \in 1..w : k <= Len(b) => Streams!peek(b, w)[k] = b[k]
<1>1. Streams!Stale \in Byte
  BY DEF Streams!Stale, Byte
<1>2. \A k \in 1..w : Streams!peek(b, w)[k] \in Byte
  BY <1>1 DEF Streams!peek
<1> QED
  BY <1>2 DEF Streams!peek

\* What the swap of the byte order gives.
LEMMA ReverseFacts ==
  ASSUME NEW X, NEW s \in Seq(X)
  PROVE  /\ Streams!Reverse(s) \in Seq(X) /\ Len(Streams!Reverse(s)) = Len(s)
         /\ \A k \in 1..Len(s) : Streams!Reverse(s)[k] = s[(Len(s) - k) + 1]
<1>1. \A k \in 1..Len(s) : (Len(s) - k) + 1 \in 1..Len(s)
  OBVIOUS
<1>2. \A k \in 1..Len(s) : s[(Len(s) - k) + 1] \in X
  BY <1>1
<1> QED
  BY <1>2 DEF Streams!Reverse

\* What one sequence of bytes behind another is.
LEMMA ConcatFacts ==
  ASSUME NEW a \in Seq(Byte), NEW b \in Seq(Byte)
  PROVE  /\ a \o b \in Seq(Byte) /\ Len(a \o b) = Len(a) + Len(b)
         /\ \A i \in 1..Len(a) : (a \o b)[i] = a[i]
         /\ \A i \in 1..Len(b) : (a \o b)[Len(a) + i] = b[i]
<1>1. a \o b \in Seq(Byte) /\ Len(a \o b) = Len(a) + Len(b)
  OBVIOUS
<1>2. \A i \in 1..Len(a) : (a \o b)[i] = a[i]
  OBVIOUS
<1>3. ASSUME NEW i \in 1..Len(b) PROVE (a \o b)[Len(a) + i] = b[i]
  <2>1. Len(a) + i \in 1..Len(a) + Len(b) /\ Len(a) + i > Len(a) /\ (Len(a) + i) - Len(a) = i
    OBVIOUS
  <2> QED
    BY <2>1
<1> QED
  BY <1>1, <1>2, <1>3

\* Three pieces may be put together in either order.
LEMMA ConcatAssociative ==
  ASSUME NEW a \in Seq(Byte), NEW b \in Seq(Byte), NEW c \in Seq(Byte)
  PROVE  a \o b \o c = a \o (b \o c)
  OBVIOUS

\* A number below the divisor is its own rest.
LEMMA SmallRest ==
  ASSUME NEW b \in Nat \ {0}, NEW a \in 0 .. b - 1
  PROVE  a % b = a
  BY Z3

\* A write puts the bytes of the new item behind the others.
LEMMA WriteKeeps ==
  ASSUME StreamInv, NEW item \in Streams!Item, NEW bytes \in Seq(Byte),
         Len(bytes) = Size(item),
         \A k \in 1..Len(bytes) : bytes[k] = ByteOf(Len(sent) + 1, item, k),
         sent' = Append(sent, item), buffer_' = buffer_ \o bytes, got' = got
  PROVE  StreamInv'
<1>1. PICK n, l : n = Len(got) /\ l = Len(sent)
  OBVIOUS
<1>2. /\ sent \in Seq(Streams!Item) /\ buffer_ \in Seq(Byte)
      /\ n \in Nat /\ l \in Nat /\ n <= l
  BY <1>1 DEF StreamInv, StreamTypes
<1>3. /\ sent' \in Seq(Streams!Item) /\ Len(sent') = l + 1
      /\ \A i \in 1..l : sent'[i] = sent[i]
      /\ sent'[l + 1] = item
  BY <1>1, <1>2
<1>4. /\ buffer_' \in Seq(Byte) /\ Len(buffer_') = Len(buffer_) + Len(bytes)
      /\ \A i \in 1..Len(buffer_) : buffer_'[i] = buffer_[i]
      /\ \A i \in 1..Len(bytes) : buffer_'[Len(buffer_) + i] = bytes[i]
  BY <1>2, ConcatFacts
<1>5. StreamTypes'
  BY <1>1, <1>2, <1>3, <1>4 DEF StreamInv, StreamTypes
<1>6. \A m \in 1..n : (\E i \in 1..m : sent[i].type = "int8" \/ sent[i].size >= LengthBase)
        => \E i \in 1..m : sent'[i].type = "int8" \/ sent'[i].size >= LengthBase
  BY <1>2, <1>3
<1>7. Spoiled(n) => Spoiled(n)'
  BY <1>2, <1>3 DEF Spoiled
<1>8. ASSUME NEW off, Layout(off, buffer_, sent, n)
      PROVE  \E new : Layout(new, buffer_', sent', n)
  <2> DEFINE new == [i \in n .. l + 1 |-> IF i <= l THEN off[i] ELSE Len(buffer_')]
  <2>1. /\ off \in [n..l -> Nat] /\ off[n] = 0 /\ off[l] = Len(buffer_)
        /\ \A i, j \in n..l : i <= j => off[i] <= off[j]
        /\ \A j \in n + 1 .. l :
             /\ off[j] = off[j - 1] + Size(sent[j])
             /\ \A k \in 1 .. Size(sent[j]) : buffer_[off[j - 1] + k] = ByteOf(j, sent[j], k)
    BY <1>1, <1>8 DEF Layout
  <2>2. Len(buffer_') \in Nat /\ Len(buffer_) \in Nat /\ Len(bytes) \in Nat
    BY <1>2, <1>4
  <2>3. /\ new \in [n .. l + 1 -> Nat] /\ new[n] = 0 /\ new[l + 1] = Len(buffer_')
        /\ \A i \in n..l : new[i] = off[i]
    BY <1>2, <2>1, <2>2
  <2> HIDE DEF new
  <2>4. ASSUME NEW i \in n .. l + 1, NEW j \in n .. l + 1, i <= j PROVE new[i] <= new[j]
    <3>1. CASE j <= l
      <4>1. i \in n..l /\ j \in n..l
        BY <1>2, <2>4, <3>1
      <4> QED
        BY <2>1, <2>3, <2>4, <4>1
    <3>2. CASE i <= l /\ j = l + 1
      <4>1. i \in n..l /\ l \in n..l /\ i <= l
        BY <1>2, <3>2
      <4>2. off[i] <= off[l] /\ off[i] \in Nat
        BY <2>1, <4>1
      <4> QED
        BY <1>4, <2>1, <2>2, <2>3, <3>2, <4>1, <4>2
    <3>3. CASE i = l + 1 /\ j = l + 1
      BY <2>2, <2>3, <3>3
    <3> QED
      BY <1>2, <3>1, <3>2, <3>3
  <2>5. ASSUME NEW j \in n + 1 .. l + 1
        PROVE  /\ new[j] = new[j - 1] + Size(sent'[j])
               /\ \A k \in 1 .. Size(sent'[j]) : buffer_'[new[j - 1] + k] = ByteOf(j, sent'[j], k)
    <3>1. CASE j = l + 1
      <4>1. new[j] = Len(buffer_') /\ new[j - 1] = Len(buffer_) /\ sent'[j] = item
        BY <1>2, <1>3, <2>1, <2>3, <3>1
      <4> QED
        BY <1>1, <1>4, <2>2, <3>1, <4>1
    <3>2. CASE j # l + 1
      <4>1. j \in n + 1 .. l /\ j - 1 \in n..l /\ j \in n..l /\ j \in 1..l
        BY <1>2, <3>2
      <4>2. new[j] = off[j] /\ new[j - 1] = off[j - 1] /\ sent'[j] = sent[j]
        BY <1>3, <2>3, <4>1
      <4>3. sent[j] \in Streams!Item
        BY <1>1, <1>2, <4>1
      <4>4. /\ Size(sent[j]) \in Nat /\ off[j - 1] \in Nat /\ off[j] = off[j - 1] + Size(sent[j])
            /\ off[j] <= Len(buffer_)
        <5>1. off[j] <= off[l]
          BY <1>2, <2>1, <4>1
        <5> QED
          BY <2>1, <4>1, <4>3, <5>1, ItemFacts
      <4>5. \A k \in 1 .. Size(sent[j]) : off[j - 1] + k \in 1..Len(buffer_)
        BY <2>2, <4>4
      <4> QED
        BY <1>4, <2>1, <4>1, <4>2, <4>5
    <3> QED
      BY <3>1, <3>2
  <2>6. Layout(new, buffer_', sent', n)
    BY <1>3, <2>3, <2>4, <2>5 DEF Layout
  <2> QED
    BY <2>6
<1>9. Unread'
  <2>1. Unread' <=> Spoiled(Len(got))' \/ \E new : Layout(new, buffer_', sent', Len(got'))
    BY DEF Unread
  <2>2. Spoiled(n) \/ \E off : Layout(off, buffer_, sent, n)
    BY <1>1 DEF StreamInv, Unread
  <2>3. Spoiled(Len(got))' <=> Spoiled(n)'
    BY <1>1 DEF Spoiled
  <2> QED
    BY <1>1, <1>7, <1>8, <2>1, <2>2, <2>3
<1>10. ReadsBack'
  <2>1. got \in Seq(Seq(Byte))
    BY DEF StreamInv, StreamTypes
  <2>2. DOMAIN got = 1..n
    BY <1>1, <2>1
  <2>3. \A m \in 1..n : sent'[m] = sent[m]
    BY <1>2, <1>3
  <2>4. \A m \in 1..n : Streams!Original(m)' = Streams!Original(m)
    BY <2>3 DEF Streams!Original
  <2> QED
    BY <1>6, <2>2, <2>4 DEF StreamInv, ReadsBack, Streams!ReadsBack
<1> QED
  BY <1>5, <1>9, <1>10 DEF StreamInv

\* A read of one of the cases that are not read back, or after one.
LEMMA ReadSpoils ==
  ASSUME StreamInv, Len(got) < Len(sent), Spoiled(Len(got) + 1), NEW v \in Seq(Byte),
         got' = Append(got, v), buffer_' \in Seq(Byte), sent' = sent
  PROVE  StreamInv'
<1>1. PICK n \in Nat : n = Len(got)
  BY DEF StreamInv, StreamTypes
<1>2. got \in Seq(Seq(Byte)) /\ sent \in Seq(Streams!Item)
  BY DEF StreamInv, StreamTypes
<1>3. /\ got' \in Seq(Seq(Byte)) /\ Len(got') = n + 1 /\ DOMAIN got = 1..n /\ DOMAIN got' = 1..n + 1
      /\ \A m \in 1..n : got'[m] = got[m]
  BY <1>1, <1>2
<1>4. StreamTypes'
  BY <1>1, <1>2, <1>3 DEF StreamTypes
<1>5. Spoiled(Len(got))'
  BY <1>1, <1>3 DEF Spoiled
<1>6. ReadsBack'
  <2>1. \A m : Streams!Original(m)' = Streams!Original(m)
    BY DEF Streams!Original
  <2>2. \A m \in 1..n + 1 : m \in 1..n \/ m = n + 1
    OBVIOUS
  <2>3. \E i \in 1..n + 1 : sent[i].type = "int8" \/ sent[i].size >= LengthBase
    BY <1>1 DEF Spoiled
  <2> QED
    BY <1>3, <2>1, <2>2, <2>3 DEF StreamInv, ReadsBack, Streams!ReadsBack
<1> QED
  BY <1>4, <1>5, <1>6 DEF StreamInv, Unread

\* A read of an item that is read back takes its bytes from the front.
LEMMA ReadKeeps ==
  ASSUME StreamInv, Len(got) < Len(sent), ~Spoiled(Len(got)),
         NEW n \in Nat, n = Len(got) + 1, NEW v \in Seq(Byte), v = Streams!Original(n),
         got' = Append(got, v), sent' = sent, buffer_' \in Seq(Byte),
         Len(buffer_') = Len(buffer_) - Size(sent[n]),
         \A i \in 1..Len(buffer_') : buffer_'[i] = buffer_[i + Size(sent[n])]
  PROVE  StreamInv'
<1>1. PICK l, w : l = Len(sent) /\ w = Size(sent[n])
  OBVIOUS
<1>2. got \in Seq(Seq(Byte)) /\ sent \in Seq(Streams!Item) /\ buffer_ \in Seq(Byte)
  BY DEF StreamInv, StreamTypes
<1>3. /\ got' \in Seq(Seq(Byte)) /\ Len(got') = n /\ DOMAIN got = 1..n - 1 /\ DOMAIN got' = 1..n
      /\ \A m \in 1..n - 1 : got'[m] = got[m]
      /\ got'[n] = v /\ n - 1 = Len(got) /\ n - 1 \in Nat
  BY <1>2
<1>4. l \in Nat /\ n <= l /\ n \in 1..l /\ sent[n] \in Streams!Item
  BY <1>1, <1>2, <1>3
<1>5. w \in Nat
  BY <1>1, <1>4, ItemFacts
<1>6. StreamTypes'
  BY <1>1, <1>2, <1>3, <1>4 DEF StreamTypes
<1>7. ReadsBack'
  <2>1. \A m : Streams!Original(m)' = Streams!Original(m)
    BY DEF Streams!Original
  <2>2. \A m \in 1..n : m \in 1..n - 1 \/ m = n
    OBVIOUS
  <2> QED
    BY <1>3, <2>1, <2>2 DEF StreamInv, ReadsBack, Streams!ReadsBack
<1>8. PICK off : Layout(off, buffer_, sent, n - 1)
  BY <1>3 DEF StreamInv, Unread
<1>9. /\ off \in [n - 1 .. l -> Nat] /\ off[n - 1] = 0 /\ off[l] = Len(buffer_)
      /\ \A i, j \in n - 1 .. l : i <= j => off[i] <= off[j]
      /\ \A j \in n .. l :
           /\ off[j] = off[j - 1] + Size(sent[j])
           /\ \A k \in 1 .. Size(sent[j]) : buffer_[off[j - 1] + k] = ByteOf(j, sent[j], k)
  BY <1>1, <1>8 DEF Layout
<1>10. off[n] = w
  BY <1>1, <1>4, <1>5, <1>9
<1>11. \A j \in n..l : j \in n - 1 .. l /\ off[j] \in Nat /\ w <= off[j] /\ off[j] <= Len(buffer_)
  <2> SUFFICES ASSUME NEW j \in n..l
               PROVE  /\ j \in n - 1 .. l /\ off[j] \in Nat
                      /\ w <= off[j] /\ off[j] <= Len(buffer_)
    OBVIOUS
  <2>1. j \in n - 1 .. l /\ n \in n - 1 .. l /\ l \in n - 1 .. l /\ n <= j /\ j <= l
    BY <1>3, <1>4
  <2> QED
    BY <1>9, <1>10, <2>1
<1> DEFINE new == [j \in n..l |-> off[j] - w]
<1>12. /\ new \in [n..l -> Nat] /\ new[n] = 0 /\ new[l] = Len(buffer_')
       /\ \A j \in n..l : new[j] = off[j] - w
  <2>1. \A j \in n..l : off[j] - w \in Nat
    BY <1>5, <1>11
  <2>2. n \in n..l /\ l \in n..l
    BY <1>4
  <2> QED
    BY <1>1, <1>5, <1>9, <1>10, <2>1, <2>2
<1> HIDE DEF new
<1>13. \A i, j \in n..l : i <= j => new[i] <= new[j]
  BY <1>5, <1>9, <1>11, <1>12
<1>14. ASSUME NEW j \in n + 1 .. l
       PROVE  /\ new[j] = new[j - 1] + Size(sent[j])
              /\ \A k \in 1 .. Size(sent[j]) : buffer_'[new[j - 1] + k] = ByteOf(j, sent[j], k)
  <2>1. j \in n..l /\ j - 1 \in n..l /\ j \in 1..l
    BY <1>4
  <2>2. Size(sent[j]) \in Nat
    BY <1>1, <1>2, <2>1, ItemFacts
  <2>3. off[j] = off[j - 1] + Size(sent[j])
    BY <1>9, <2>1
  <2>4. new[j] = off[j] - w /\ new[j - 1] = off[j - 1] - w /\ off[j] \in Nat /\ off[j - 1] \in Nat
        /\ w <= off[j - 1] /\ off[j] <= Len(buffer_)
    BY <1>11, <1>12, <2>1
  <2>5. new[j] = new[j - 1] + Size(sent[j])
    BY <1>5, <2>2, <2>3, <2>4
  <2>6. ASSUME NEW k \in 1 .. Size(sent[j])
        PROVE  buffer_'[new[j - 1] + k] = ByteOf(j, sent[j], k)
    <3>1. new[j - 1] + k \in 1 .. Len(buffer_') /\ (new[j - 1] + k) + w = off[j - 1] + k
      <4>1. Len(buffer_') = Len(buffer_) - w /\ Len(buffer_) \in Nat
        BY <1>1, <1>2
      <4>2. k \in Nat /\ k >= 1 /\ k <= Size(sent[j])
        BY <2>2
      <4>3. off[j - 1] + k <= Len(buffer_)
        BY <2>2, <2>3, <2>4, <4>1, <4>2, SMTT(40)
      <4>4. PICK o \in Nat, x \in Int : o = off[j - 1] /\ x = new[j - 1]
        BY <1>5, <2>4
      <4>5. x = o - w /\ w <= o /\ o + k <= Len(buffer_)
        BY <2>4, <4>3, <4>4
      <4>6. x + k \in 1 .. Len(buffer_) - w /\ (x + k) + w = o + k
        BY <1>5, <4>1, <4>2, <4>5
      <4> QED
        BY <4>1, <4>4, <4>6
    <3>2. buffer_'[new[j - 1] + k] = buffer_[off[j - 1] + k]
      BY <1>1, <3>1
    <3> QED
      BY <1>9, <2>1, <3>2
  <2> QED
    BY <2>5, <2>6
<1>15. Layout(new, buffer_', sent', Len(got'))
  BY <1>1, <1>3, <1>12, <1>13, <1>14 DEF Layout
<1>16. Unread'
  BY <1>15 DEF Unread
<1> QED
  BY <1>6, <1>7, <1>16 DEF StreamInv

\* The bytes a write puts into the buffer.
LEMMA NumberBytes ==
  ASSUME NEW n \in Nat, NEW t \in Streams!Number
  PROVE  LET bytes == Streams!hton(Streams!Value(n, Streams!Width[t]))
             item == [type |-> t, size |-> 0]
         IN  /\ item \in Streams!Item
             /\ bytes \in Seq(Byte) /\ Len(bytes) = Size(item)
             /\ \A k \in 1..Len(bytes) : bytes[k] = ByteOf(n, item, k)
<1>1. PICK w : w = Streams!Width[t]
  OBVIOUS
<1>2. w \in Nat \ {0} /\ t # "string"
  BY <1>1, WidthFacts
<1>3. PICK v : v = Streams!Value(n, w)
  OBVIOUS
<1>4. v \in Seq(Byte) /\ Len(v) = w /\ \A k \in 1..w : v[k] = <<n, k>>
  BY <1>2, <1>3 DEF Streams!Value, Byte
<1>5. PICK b : b = Streams!hton(v)
  OBVIOUS
<1>6. b \in Seq(Byte) /\ Len(b) = w /\ \A k \in 1..w : b[k] = v[(w - k) + 1]
  BY <1>4, <1>5, ReverseFacts DEF Streams!hton
<1>7. \A k \in 1..w : b[k] = <<n, w - k + 1>>
  <2> SUFFICES ASSUME NEW k \in 1..w PROVE b[k] = <<n, w - k + 1>>
    OBVIOUS
  <2>1. (w - k) + 1 \in 1..w
    BY <1>2
  <2> QED
    BY <1>4, <1>6, <2>1
<1>8. PICK item : item = [type |-> t, size |-> 0]
  OBVIOUS
<1>9. item \in Streams!Item /\ item.type = t
  BY <1>8 DEF Streams!Item
<1>10. Size(item) = w /\ \A k \in 1..w : ByteOf(n, item, k) = <<n, w - k + 1>>
  BY <1>1, <1>2, <1>9 DEF Size, ByteOf
<1> QED
  BY <1>1, <1>3, <1>5, <1>6, <1>7, <1>8, <1>9, <1>10

\* The bytes writeString() puts into the buffer: the length field, cut, and all
\* characters.
LEMMA StringBytes ==
  ASSUME NEW n \in Nat, NEW l \in 0..LengthBase
  PROVE  LET bytes == Streams!hton(Streams!Length(l % LengthBase)) \o Streams!Value(n, l)
             item == [type |-> "string", size |-> l]
         IN  /\ item \in Streams!Item
             /\ bytes \in Seq(Byte) /\ Len(bytes) = Size(item)
             /\ \A k \in 1..Len(bytes) : bytes[k] = ByteOf(n, item, k)
<1>1. LengthBase \in Nat \ {0} /\ l \in Nat
  BY StreamAssumption
<1>2. PICK c \in Nat : c = l % LengthBase
  BY <1>1
<1>3. PICK f : f = Streams!Length(c)
  OBVIOUS
<1>4. f \in Seq(Byte) /\ Len(f) = 2 /\ \A k \in 1..2 : f[k] = <<0, c + 1>>
  BY <1>2, <1>3 DEF Streams!Length, Byte
<1>5. PICK h : h = Streams!hton(f)
  OBVIOUS
<1>6. h \in Seq(Byte) /\ Len(h) = 2 /\ \A k \in 1..2 : h[k] = <<0, c + 1>>
  <2>1. h \in Seq(Byte) /\ Len(h) = 2 /\ \A k \in 1..2 : h[k] = f[(2 - k) + 1]
    BY <1>4, <1>5, ReverseFacts DEF Streams!hton
  <2>2. \A k \in 1..2 : (2 - k) + 1 \in 1..2
    OBVIOUS
  <2> QED
    BY <1>4, <2>1, <2>2
<1>7. PICK v : v = Streams!Value(n, l)
  OBVIOUS
<1>8. v \in Seq(Byte) /\ Len(v) = l /\ \A k \in 1..l : v[k] = <<n, k>>
  BY <1>1, <1>7 DEF Streams!Value, Byte
<1>9. PICK b : b = h \o v
  OBVIOUS
<1>10. /\ b \in Seq(Byte) /\ Len(b) = 2 + l
       /\ \A k \in 1..2 : b[k] = h[k]
       /\ \A k \in 1..l : b[2 + k] = v[k]
  <2>1. h \in Seq(Byte) /\ v \in Seq(Byte) /\ Len(h) = 2 /\ Len(v) = l
    BY <1>6, <1>8
  <2>2. /\ h \o v \in Seq(Byte) /\ Len(h \o v) = Len(h) + Len(v)
        /\ \A k \in 1..Len(h) : (h \o v)[k] = h[k]
        /\ \A k \in 1..Len(v) : (h \o v)[Len(h) + k] = v[k]
    BY <2>1, ConcatFacts, Zenon
  <2> QED
    BY <1>9, <2>1, <2>2, Zenon
<1>11. PICK item : item = [type |-> "string", size |-> l]
  OBVIOUS
<1>12. item \in Streams!Item /\ item.type = "string" /\ item.size = l
  BY <1>11 DEF Streams!Item
<1>13. Size(item) = 2 + l
  BY <1>12 DEF Size
<1>14. ASSUME NEW k \in 1 .. 2 + l PROVE b[k] = ByteOf(n, item, k)
  <2>1. CASE k <= 2
    <3>1. k \in 1..2
      BY <2>1
    <3> QED
      BY <1>2, <1>6, <1>10, <1>12, <2>1, <3>1 DEF ByteOf
  <2>2. CASE k > 2
    <3>1. k - 2 \in 1..l /\ 2 + (k - 2) = k /\ ~(k <= 2)
      BY <1>1, <2>2
    <3>2. b[k] = <<n, k - 2>>
      BY <1>8, <1>10, <3>1
    <3> QED
      BY <1>12, <3>1, <3>2 DEF ByteOf
  <2> QED
    BY <1>1, <2>1, <2>2
<1> QED
  BY <1>2, <1>3, <1>5, <1>7, <1>9, <1>10, <1>11, <1>12, <1>13, <1>14

\* Both parts of a string are bytes.
LEMMA StringParts ==
  ASSUME NEW n \in Nat, NEW l \in 0..LengthBase
  PROVE  /\ Streams!hton(Streams!Length(l % LengthBase)) \in Seq(Byte)
         /\ Streams!Value(n, l) \in Seq(Byte)
<1>1. LengthBase \in Nat \ {0} /\ l \in Nat
  BY StreamAssumption
<1>2. PICK c \in Nat : c = l % LengthBase
  BY <1>1
<1>3. Streams!Length(c) \in Seq(Byte)
  BY <1>2 DEF Streams!Length, Byte
<1>4. Streams!Value(n, l) \in Seq(Byte)
  BY <1>1 DEF Streams!Value, Byte
<1> QED
  BY <1>2, <1>3, <1>4, ReverseFacts DEF Streams!hton

\* What is read of the next item when none before it was read wrongly.
LEMMA FrontBytes ==
  ASSUME StreamInv, Len(got) < Len(sent), ~Spoiled(Len(got)), NEW n \in Nat, n = Len(got) + 1
  PROVE  /\ sent[n] \in Streams!Item /\ Size(sent[n]) \in Nat /\ Size(sent[n]) <= Len(buffer_)
         /\ \A k \in 1 .. Size(sent[n]) : buffer_[k] = ByteOf(n, sent[n], k)
<1>1. PICK off : Layout(off, buffer_, sent, Len(got))
  BY DEF StreamInv, Unread
<1>2. got \in Seq(Seq(Byte)) /\ sent \in Seq(Streams!Item) /\ buffer_ \in Seq(Byte)
  BY DEF StreamInv, StreamTypes
<1>3. PICK l : l = Len(sent)
  OBVIOUS
<1>4. l \in Nat /\ n - 1 \in Nat /\ n - 1 = Len(got) /\ n \in 1..l
  BY <1>2, <1>3
<1>5. sent[n] \in Streams!Item /\ Size(sent[n]) \in Nat
  BY <1>2, <1>3, <1>4, ItemFacts
<1>6. /\ off \in [n - 1 .. l -> Nat] /\ off[n - 1] = 0 /\ off[l] = Len(buffer_)
      /\ \A i, j \in n - 1 .. l : i <= j => off[i] <= off[j]
      /\ \A j \in n .. l :
           /\ off[j] = off[j - 1] + Size(sent[j])
           /\ \A k \in 1 .. Size(sent[j]) : buffer_[off[j - 1] + k] = ByteOf(j, sent[j], k)
  BY <1>1, <1>3, <1>4 DEF Layout
<1>7. n \in n..l /\ n \in n - 1 .. l /\ l \in n - 1 .. l /\ n <= l
  BY <1>4
<1>8. off[n] = 0 + Size(sent[n])
  BY <1>6, <1>7
<1>9. \A k \in 1 .. Size(sent[n]) : buffer_[0 + k] = ByteOf(n, sent[n], k)
  BY <1>6, <1>7
<1>10. \A k \in 1 .. Size(sent[n]) : 0 + k = k
  BY <1>5
<1>11. off[n] <= Len(buffer_)
  BY <1>6, <1>7
<1> QED
  BY <1>5, <1>8, <1>9, <1>10, <1>11

\* A number other than an int8 is read back.
LEMMA ReadNumberStep ==
  ASSUME StreamInv, Len(got) < Len(sent),
         NEW t \in Streams!Number, t = sent[Len(got) + 1].type, t # "int8", Streams!readNumber(t)
  PROVE  StreamInv'
<1>1. PICK n \in Nat : n = Len(got) + 1
  BY DEF StreamInv, StreamTypes
<1>2. got \in Seq(Seq(Byte)) /\ sent \in Seq(Streams!Item) /\ buffer_ \in Seq(Byte)
  BY DEF StreamInv, StreamTypes
<1>3. PICK w \in Nat \ {0} : w = Streams!Width[t] /\ t # "string"
  BY WidthFacts
<1>4. PICK p : p = Streams!peek(buffer_, w)
  OBVIOUS
<1>5. /\ p \in Seq(Byte) /\ Len(p) = w
      /\ \A k \in 1..w : k <= Len(buffer_) => p[k] = buffer_[k]
  BY <1>2, <1>3, <1>4, PeekFacts
<1>6. PICK v : v = Streams!ntoh(p)
  OBVIOUS
<1>7. v \in Seq(Byte) /\ Len(v) = w /\ \A k \in 1..w : v[k] = p[(w - k) + 1]
  BY <1>5, <1>6, ReverseFacts DEF Streams!ntoh
<1>8. /\ got' = Append(got, v) /\ sent' = sent
      /\ buffer_' = Streams!retrieve(buffer_, w) /\ buffer_' \in Seq(Byte)
  BY <1>2, <1>3, <1>4, <1>6, RetrieveTypes DEF Streams!readNumber
<1>9. CASE Spoiled(Len(got))
  <2>1. Spoiled(Len(got) + 1)
    BY <1>1, <1>2, <1>9 DEF Spoiled
  <2> QED
    BY <1>7, <1>8, <2>1, ReadSpoils
<1>10. CASE ~Spoiled(Len(got))
  <2>1. /\ Size(sent[n]) = w /\ w <= Len(buffer_)
        /\ \A k \in 1..w : buffer_[k] = ByteOf(n, sent[n], k)
    BY <1>1, <1>3, <1>10, FrontBytes DEF Size
  <2>2. \A k \in 1..w : buffer_[k] = <<n, w - k + 1>>
    BY <1>1, <1>3, <2>1 DEF ByteOf
  <2>3. ASSUME NEW k \in 1..w PROVE v[k] = <<n, k>>
    <3>1. (w - k) + 1 \in 1..w /\ (w - k) + 1 <= Len(buffer_) /\ w - ((w - k) + 1) + 1 = k
      BY <1>2, <1>3, <2>1, SMTT(40)
    <3> QED
      BY <1>5, <1>7, <2>2, <3>1
  <2>4. Streams!Original(n) = [k \in 1..w |-> <<n, k>>]
    BY <1>1, <1>3 DEF Streams!Original, Streams!Value
  <2>5. v = Streams!Original(n)
    <3>1. DOMAIN v = 1..w /\ v = [k \in DOMAIN v |-> v[k]]
      BY <1>7
    <3> QED
      BY <2>3, <2>4, <3>1
  <2>6. /\ Len(buffer_') = Len(buffer_) - w
        /\ \A i \in 1 .. Len(buffer_) - w : buffer_'[i] = buffer_[i + w]
    BY <1>2, <1>3, <1>8, <2>1, RetrieveFacts
  <2> QED
    BY <1>1, <1>7, <1>8, <1>10, <2>1, <2>5, <2>6, ReadKeeps, ZenonT(40)
<1> QED
  BY <1>9, <1>10

\* A string that fits its length field is read back.
LEMMA ReadStringStep ==
  ASSUME StreamInv, Len(got) < Len(sent), sent[Len(got) + 1].type = "string", Streams!readString
  PROVE  StreamInv'
<1>0. LengthBase \in Nat \ {0}
  BY StreamAssumption
<1>1. PICK n \in Nat : n = Len(got) + 1
  BY DEF StreamInv, StreamTypes
<1>2. got \in Seq(Seq(Byte)) /\ sent \in Seq(Streams!Item) /\ buffer_ \in Seq(Byte)
  BY DEF StreamInv, StreamTypes
<1>3. PICK p : p = Streams!peek(buffer_, 2)
  OBVIOUS
<1>4. /\ p \in Seq(Byte) /\ Len(p) = 2
      /\ \A k \in 1..2 : k <= Len(buffer_) => p[k] = buffer_[k]
  BY <1>2, <1>3, PeekFacts
<1>5. PICK f : f = Streams!ntoh(p)
  OBVIOUS
<1>6. f \in Seq(Byte) /\ Len(f) = 2 /\ f[1] = p[2] /\ f[2] = p[1] /\ f[1] \in Byte
  <2>1. f \in Seq(Byte) /\ Len(f) = 2 /\ \A k \in 1..2 : f[k] = p[(2 - k) + 1]
    <3>1. f = Streams!Reverse(p)
      BY <1>5 DEF Streams!ntoh
    <3>2. /\ f \in Seq(Byte) /\ Len(f) = Len(p)
          /\ \A k \in 1..Len(p) : f[k] = p[(Len(p) - k) + 1]
      BY <1>4, <3>1, ReverseFacts
    <3> QED
      BY <1>4, <3>2
  <2>2. 1 \in 1..2 /\ 2 \in 1..2 /\ (2 - 1) + 1 = 2 /\ (2 - 2) + 1 = 1
    OBVIOUS
  <2>3. f[1] = p[2] /\ f[2] = p[1]
    BY <2>1, <2>2
  <2>4. f[1] \in Byte
    BY <2>1, SMTT(40)
  <2> QED
    BY <2>1, <2>3, <2>4
<1>7. PICK rest : rest = Streams!retrieve(buffer_, 2)
  OBVIOUS
<1>8. rest \in Seq(Byte)
  BY <1>2, <1>7, RetrieveTypes
<1>9. PICK l \in Streams!LengthRead(f) :
        got' = Append(got, Streams!peek(rest, l)) /\ buffer_' = Streams!retrieve(rest, l)
  BY <1>3, <1>5, <1>7 DEF Streams!readString
<1>10. l \in Nat
  <2>1. CASE f[1] = f[2] /\ f[1][1] = 0 /\ f[1] # Streams!Stale
    <3>1. l = f[1][2] - 1
      BY <1>9, <2>1 DEF Streams!LengthRead
    <3>2. f[1][2] \in Nat /\ f[1] = <<0, f[1][2]>>
      BY <1>6, <2>1 DEF Byte
    <3>3. f[1][2] # 0
      BY <2>1, <3>2 DEF Streams!Stale
    <3> QED
      BY <3>1, <3>2, <3>3
  <2>2. CASE ~(f[1] = f[2] /\ f[1][1] = 0 /\ f[1] # Streams!Stale)
    BY <1>0, <1>9, <2>2 DEF Streams!LengthRead
  <2> QED
    BY <2>1, <2>2
<1>11. PICK v : v = Streams!peek(rest, l)
  OBVIOUS
<1>12. /\ v \in Seq(Byte) /\ Len(v) = l
       /\ \A k \in 1..l : k <= Len(rest) => v[k] = rest[k]
  BY <1>8, <1>10, <1>11, PeekFacts
<1>13. got' = Append(got, v) /\ sent' = sent /\ buffer_' \in Seq(Byte)
  BY <1>8, <1>9, <1>10, <1>11, RetrieveTypes DEF Streams!readString
<1>14. CASE Spoiled(Len(got)) \/ sent[n].size >= LengthBase
  <2>1. n \in 1..n /\ 1..Len(got) \subseteq 1..n
    BY <1>1, <1>2
  <2>2. Spoiled(Len(got) + 1)
    BY <1>1, <1>14, <2>1 DEF Spoiled
  <2> QED
    BY <1>12, <1>13, <2>2, ReadSpoils
<1>15. CASE ~Spoiled(Len(got)) /\ ~(sent[n].size >= LengthBase)
  <2>1. PICK s : s = sent[n].size
    OBVIOUS
  <2>2. sent[n] \in Streams!Item
    BY <1>1, <1>15, FrontBytes
  <2>3. s \in Nat /\ s < LengthBase /\ s % LengthBase = s
    <3>1. s \in 0..LengthBase
      BY <1>1, <2>1, <2>2, ItemFacts
    <3>2. s \in 0 .. LengthBase - 1
      BY <1>0, <1>15, <2>1, <3>1
    <3>3. s % LengthBase = s
      BY <1>0, <3>2, SmallRest
    <3> QED
      BY <1>0, <3>2, <3>3
  <2>4. /\ Size(sent[n]) = 2 + s /\ 2 + s <= Len(buffer_)
        /\ \A k \in 1 .. 2 + s : buffer_[k] = ByteOf(n, sent[n], k)
    BY <1>1, <1>15, <2>1, FrontBytes DEF Size
  <2>5. \A k \in 1..2 : buffer_[k] = <<0, s + 1>> /\ k <= Len(buffer_)
    <3> SUFFICES ASSUME NEW k \in 1..2 PROVE buffer_[k] = <<0, s + 1>> /\ k <= Len(buffer_)
      OBVIOUS
    <3>1. k \in 1 .. 2 + s /\ k <= 2 /\ k <= Len(buffer_)
      BY <1>2, <2>3, <2>4
    <3> QED
      BY <1>1, <2>1, <2>3, <2>4, <3>1 DEF ByteOf
  <2>6. f[1] = <<0, s + 1>> /\ f[2] = <<0, s + 1>>
    BY <1>4, <1>6, <2>5
  <2>7. l = s
    <3>1. f[1] # Streams!Stale
      BY <2>3, <2>6 DEF Streams!Stale
    <3>2. l = f[1][2] - 1
      BY <1>9, <2>6, <3>1 DEF Streams!LengthRead
    <3> QED
      BY <2>3, <2>6, <3>2
  <2>8. /\ Len(rest) = Len(buffer_) - 2
        /\ \A i \in 1 .. Len(buffer_) - 2 : rest[i] = buffer_[i + 2]
    <3>1. 2 <= Len(buffer_)
      BY <1>2, <2>3, <2>4
    <3> QED
      BY <1>2, <1>7, <3>1, RetrieveFacts
  <2>9. ASSUME NEW k \in 1..s PROVE v[k] = <<n, k>>
    <3>1. k \in 1..l /\ k <= Len(rest) /\ k \in 1 .. Len(buffer_) - 2
      BY <1>2, <2>3, <2>4, <2>7, <2>8
    <3>2. v[k] = buffer_[k + 2]
      BY <1>12, <2>8, <3>1
    <3>3. k + 2 \in 1 .. 2 + s /\ ~(k + 2 <= 2) /\ (k + 2) - 2 = k
      BY <2>3
    <3>4. ByteOf(n, sent[n], k + 2) = <<n, k>>
      BY <1>1, <3>3 DEF ByteOf
    <3> QED
      BY <2>4, <3>2, <3>3, <3>4
  <2>10. Streams!Original(n) = [k \in 1..s |-> <<n, k>>]
    BY <1>1, <2>1 DEF Streams!Original, Streams!Value
  <2>11. v = Streams!Original(n)
    BY <1>12, <2>3, <2>7, <2>9, <2>10
  <2>12. /\ Len(buffer_') = Len(rest) - s
         /\ \A i \in 1 .. Len(rest) - s : buffer_'[i] = rest[i + s]
    <3>1. s <= Len(rest)
      BY <1>2, <2>3, <2>4, <2>8
    <3> QED
      BY <1>8, <1>9, <2>3, <2>7, <3>1, RetrieveFacts
  <2>13. Len(buffer_') = Len(buffer_) - (2 + s)
    BY <1>2, <2>3, <2>8, <2>12
  <2>14. ASSUME NEW i \in 1..Len(buffer_') PROVE buffer_'[i] = buffer_[i + (2 + s)]
    <3>1. /\ i \in 1 .. Len(rest) - s /\ i + s \in 1 .. Len(buffer_) - 2
          /\ (i + s) + 2 = i + (2 + s)
      BY <1>2, <2>3, <2>4, <2>8, <2>12
    <3>2. buffer_'[i] = rest[i + s]
      BY <2>12, <3>1
    <3>3. rest[i + s] = buffer_[(i + s) + 2]
      BY <2>8, <3>1
    <3> QED
      BY <3>1, <3>2, <3>3
  <2> QED
    BY <1>1, <1>12, <1>13, <1>15, <2>4, <2>11, <2>13, <2>14, ReadKeeps
<1> QED
  BY <1>14, <1>15

\* An int8 is read from the byte behind its own.
LEMMA ReadInt8Step ==
  ASSUME StreamInv, Len(got) < Len(sent), sent[Len(got) + 1].type = "int8", Streams!readInt8
  PROVE  StreamInv'
<1>1. got \in Seq(Seq(Byte)) /\ sent \in Seq(Streams!Item) /\ buffer_ \in Seq(Byte)
  BY DEF StreamInv, StreamTypes
<1>2. PICK n \in Nat : n = Len(got)
  BY <1>1
<1>3. Spoiled(Len(got) + 1)
  <2>1. n + 1 \in 1 .. n + 1
    OBVIOUS
  <2> QED
    BY <1>2, <2>1 DEF Spoiled
<1>4. PICK rest : rest = Streams!retrieve(buffer_, 1)
  OBVIOUS
<1>5. rest \in Seq(Byte)
  BY <1>1, <1>4, RetrieveTypes
<1>6. Streams!peek(rest, 1) \in Seq(Byte) /\ Streams!retrieve(rest, 1) \in Seq(Byte)
  BY <1>5, PeekFacts, RetrieveTypes
<1>7. /\ got' = Append(got, Streams!peek(rest, 1)) /\ sent' = sent
      /\ buffer_' = Streams!retrieve(rest, 1)
  BY <1>4 DEF Streams!readInt8
<1> QED
  BY <1>3, <1>6, <1>7, ReadSpoils

\* Every write keeps the invariant.
LEMMA WriteStep ==
  ASSUME StreamInv, Streams!Write
  PROVE  StreamInv'
<1>1. PICK n \in Nat : n = Len(sent) + 1
  BY DEF StreamInv, StreamTypes
<1>2. ASSUME NEW t \in Streams!Number, Streams!writeNumber(t) PROVE StreamInv'
  <2>1. PICK item, bytes :
          /\ item = [type |-> t, size |-> 0]
          /\ bytes = Streams!hton(Streams!Value(n, Streams!Width[t]))
    OBVIOUS
  <2>2. /\ item \in Streams!Item /\ bytes \in Seq(Byte) /\ Len(bytes) = Size(item)
        /\ \A k \in 1..Len(bytes) : bytes[k] = ByteOf(n, item, k)
    BY <2>1, NumberBytes
  <2>3. sent' = Append(sent, item) /\ buffer_' = buffer_ \o bytes /\ got' = got
    BY <1>1, <1>2, <2>1 DEF Streams!writeNumber
  <2> QED
    BY <1>1, <2>2, <2>3, WriteKeeps
<1>3. ASSUME NEW l \in 0..LengthBase, Streams!writeString(l) PROVE StreamInv'
  <2>1. PICK item, front, chars, bytes :
          /\ item = [type |-> "string", size |-> l]
          /\ front = Streams!hton(Streams!Length(l % LengthBase)) /\ chars = Streams!Value(n, l)
          /\ bytes = front \o chars
    OBVIOUS
  <2>2. /\ item \in Streams!Item /\ bytes \in Seq(Byte) /\ Len(bytes) = Size(item)
        /\ \A k \in 1..Len(bytes) : bytes[k] = ByteOf(n, item, k)
    BY <2>1, StringBytes
  <2>3. sent' = Append(sent, item) /\ buffer_' = buffer_ \o front \o chars /\ got' = got
    BY <1>1, <1>3, <2>1 DEF Streams!writeString
  <2>4. front \in Seq(Byte) /\ chars \in Seq(Byte)
    BY <1>1, <2>1, StringParts
  <2>5. buffer_ \o front \o chars = buffer_ \o bytes
    <3>1. buffer_ \in Seq(Byte)
      BY DEF StreamInv, StreamTypes
    <3> QED
      BY <2>1, <2>4, <3>1, ConcatAssociative
  <2> QED
    BY <1>1, <2>2, <2>3, <2>5, WriteKeeps
<1> QED
  BY <1>2, <1>3 DEF Streams!Write

\* Typed reads give back what typed writes wrote, for every sequence of items
\* and every width of the length field, up to the first int8 or string that is
\* too long.
THEOREM StreamReadsBack == Streams!Spec => []ReadsBack
<1>1. Streams!Init => StreamInv
  <2> SUFFICES ASSUME Streams!Init PROVE StreamInv
    OBVIOUS
  <2>1. sent = <<>> /\ buffer_ = <<>> /\ got = <<>>
    BY DEF Streams!Init
  <2>2. Layout([i \in 0..0 |-> 0], <<>>, <<>>, 0)
    BY DEF Layout
  <2>3. Unread
    BY <2>1, <2>2 DEF Unread
  <2> QED
    BY <2>1, <2>3 DEF StreamInv, StreamTypes, ReadsBack, Streams!ReadsBack
<1>2. StreamInv /\ [Streams!Next]_(Streams!vars) => StreamInv'
  <2> SUFFICES ASSUME StreamInv, [Streams!Next]_(Streams!vars) PROVE StreamInv'
    OBVIOUS
  <2>1. CASE Streams!Write
    BY <2>1, WriteStep
  <2>2. CASE Streams!Read
    BY <2>2, ReadNumberStep, ReadStringStep, ReadInt8Step DEF Streams!Read
  <2>3. CASE UNCHANGED Streams!vars
    <3>1. UNCHANGED <<sent, buffer_, got>>
      BY <2>3 DEF Streams!vars
    <3> QED
      BY <3>1 DEF StreamInv, StreamTypes, Unread, Spoiled, ReadsBack, Streams!ReadsBack, Streams!Original
  <2> QED
    BY <2>1, <2>2, <2>3 DEF Streams!Next
<1>3. StreamInv => ReadsBack
  BY DEF StreamInv
<1> QED
  BY <1>1, <1>2, <1>3, PTL DEF Streams!Spec

-----------------------------------------------------------------------------
(* The server's sockets. *)

\* The inductive invariant of the server: while it runs it has two descriptors.
ServerInv ==
  /\ running_ \in BOOLEAN
  /\ open \in [Fd -> {"server", "other", "nobody"}]
  /\ running_ => gatewayFd_ \in Fd /\ gameFd_ \in Fd
  /\ DescriptorsOwned

\* Server closes no descriptor that is not its own and leaks none, for every set
\* of descriptors and any order of its operations.
THEOREM DescriptorsStayOwned == Servers!Spec => []DescriptorsOwned
<1>1. Servers!Init => ServerInv
  BY DEF Servers!Init, ServerInv, DescriptorsOwned, Servers!DescriptorsOwned
<1>2. ServerInv /\ [Servers!Next]_(Servers!vars) => ServerInv'
  <2> SUFFICES ASSUME ServerInv, [Servers!Next]_(Servers!vars)
               PROVE  ServerInv'
    OBVIOUS
  <2> USE FdAssumption DEF ServerInv, DescriptorsOwned, Servers!DescriptorsOwned
  <2>1. CASE Servers!init
    BY <2>1 DEF Servers!init, Servers!fds
  <2>2. CASE Servers!startFails \/ Servers!startGatewayFails \/ Servers!startGameFails
    BY <2>2 DEF Servers!startFails, Servers!startGatewayFails, Servers!startGameFails, Servers!Starting, Servers!fds
  <2>3. CASE Servers!start
    BY <2>3 DEF Servers!start, Servers!Starting, Servers!Free
  <2>4. CASE Servers!stop
    BY <2>4 DEF Servers!stop, Servers!close, Servers!None
  <2>5. CASE Servers!Others
    BY <2>5 DEF Servers!Others, Servers!fds
  <2>6. CASE UNCHANGED Servers!vars
    BY <2>6 DEF Servers!vars
  <2> QED
    BY <2>1, <2>2, <2>3, <2>4, <2>5, <2>6 DEF Servers!Next
<1>3. ServerInv => DescriptorsOwned
  BY DEF ServerInv
<1> QED
  BY <1>1, <1>2, <1>3, PTL DEF Servers!Spec

-----------------------------------------------------------------------------
(* The run. *)

\* Every behaviour of the run is one of each component.
THEOREM RunHasComponents ==
  MCSpec => /\ Spec /\ Codecs!Spec /\ Queues!Spec /\ Wheels!Spec
            /\ Streams!Spec /\ Servers!Spec
<1>1. MCInit => /\ Init /\ Codecs!Init /\ Queues!Init /\ Wheels!Init
                /\ Streams!Init /\ Servers!Init
  BY DEF MCInit
<1>2. [MCNext]_<<focus, vars, codecs, queues, wheels, streams, servers>> =>
        /\ [Next]_vars /\ [Codecs!Next]_(Codecs!vars) /\ [Queues!Next]_(Queues!vars)
        /\ [Wheels!Next]_(Wheels!vars) /\ [Streams!Next]_(Streams!vars)
        /\ [Servers!Next]_(Servers!vars)
  BY DEF MCNext, codecs, queues, wheels, streams, servers,
     Codecs!vars, Queues!vars, Wheels!vars, Streams!vars, Servers!vars
<1> QED
  BY <1>1, <1>2, PTL DEF MCSpec, Spec, Codecs!Spec, Queues!Spec, Wheels!Spec, Streams!Spec, Servers!Spec

\* What the run checks on small instances of the small components holds for all.
THEOREM RunIsSafe ==
  MCSpec => []( /\ IntactWhileWhole /\ DecodedWereSent /\ WakeupsSuffice /\ RunsOnTime
                /\ ReadsBack /\ DescriptorsOwned)
  BY RunHasComponents, CodecIntactWhileWhole, DecodedMessagesWereSent, NoPopperSleepsOnWork,
     WheelRunsOnTime, StreamReadsBack, DescriptorsStayOwned, PTL
=============================================================================
