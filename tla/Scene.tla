------------------------------- MODULE Scene -------------------------------
(***************************************************************************)
(* game/scene: SceneManager, the scenes it creates and the nine-cell area  *)
(* of interest (AOI) of each scene.  The manager takes mutex_ for a whole  *)
(* operation; a Scene has no lock, and its callers hold a Ptr<Scene> that  *)
(* outlives destroyScene(), so a scene that was created can always be      *)
(* entered, left and moved in.                                             *)
(*                                                                         *)
(* Coordinates are natural numbers.  The code takes any int32 and clamps   *)
(* at the far border only: an x of minus one cell or less gives a cell of  *)
(* an earlier row or, as such a y always does, an index outside grids_.    *)
(* Nothing is said of such positions.                                      *)
(***************************************************************************)
EXTENDS Integers, FiniteSets

CONSTANTS Role,        \* role ids
          CellSize,    \* the pixels a cell is meant to have: 100 in the code
          Sizes,       \* <<width, height>> of the scenes that are created
          Positions,   \* <<x, y>> the roles enter at and move to
          MaxScenes,   \* bound on the scenes created
          MaxListed    \* bound on the entries in the cells of all scenes

ASSUME SceneAssumption ==
  /\ CellSize \in Nat \ {0}
  /\ Sizes \subseteq (Nat \ {0}) \X (Nat \ {0})
  /\ Positions \subseteq Nat \X Nat
  /\ MaxScenes \in Nat /\ MaxListed \in Nat

VARIABLES scenes_,        \* the ids in SceneManager::scenes_
          nextSceneId_,   \* SceneManager::nextSceneId_
          roleScenes_,    \* SceneManager::roleScenes_: role -> scene, 0 if absent
          stuck,          \* mutex_ is held by a thread that waits for itself
          size,           \* width_ and height_ of every scene created
          roles_,         \* Scene::roles_: scene -> role -> position
          rolePositions_, \* AOI::rolePositions_: scene -> role -> position
          roleToGrid_,    \* AOI::roleToGrid_: scene -> role -> cell
          grids_,         \* AOI::grids_: scene -> the set of <<cell, role>>
          reentered       \* history: scene -> the roles that entered it while in it

manager == <<scenes_, nextSceneId_, roleScenes_, stuck>>
contents == <<roles_, rolePositions_, roleToGrid_, grids_, reentered>>
vars == <<manager, size, contents>>

Absent == <<>>
NoCell == -1
Created == 1..nextSceneId_
Listed == UNION { {s} \X grids_[s] : s \in Created }

-----------------------------------------------------------------------------
(* The geometry of a scene. *)

Least(a, b) == IF a <= b THEN a ELSE b

\* Scene::Scene(): the number of cells along one side.
GridsOf(side) == (side + CellSize - 1) \div CellSize

\* AOI::AOI(): the pixels of a cell along one side.
CellOf(side) == (side + GridsOf(side) - 1) \div GridsOf(side)

gridX(s) == GridsOf(size[s][1])
gridY(s) == GridsOf(size[s][2])
gridWidth(s) == CellOf(size[s][1])
gridHeight(s) == CellOf(size[s][2])

positionToGrid(s, p) ==
  LET x == Least(p[1] \div gridWidth(s), gridX(s) - 1)
      y == Least(p[2] \div gridHeight(s), gridY(s) - 1)
  IN  y * gridX(s) + x

\* Mutation of getAroundGrids: the row is computed with the other dimension.
getAroundGridsTransposed(s, g) ==
  { ny * gridX(s) + nx :
      ny \in { y \in 0 .. gridY(s) - 1 : y - (g \div gridY(s)) \in -1..1 },
      nx \in { x \in 0 .. gridX(s) - 1 : x - (g % gridX(s)) \in -1..1 } }

getAroundGrids(s, g) ==
  { ny * gridX(s) + nx :
      ny \in { y \in 0 .. gridY(s) - 1 : y - (g \div gridX(s)) \in -1..1 },
      nx \in { x \in 0 .. gridX(s) - 1 : x - (g % gridX(s)) \in -1..1 } }

\* The roles listed in the nine cells around a cell.
ListedAround(s, g) == { e[2] : e \in { l \in grids_[s] : l[1] \in getAroundGrids(s, g) } }

getAroundRoles(s, r) ==
  IF roleToGrid_[s][r] = NoCell THEN {} ELSE ListedAround(s, roleToGrid_[s][r]) \ {r}

getAroundRolesAt(s, p) == ListedAround(s, positionToGrid(s, p))

-----------------------------------------------------------------------------
(* The operations of one scene; each calls that of its AOI. *)

Put(f, s, r, v) == [f EXCEPT ![s] = [@ EXCEPT ![r] = v]]

\* Scene::enter() and AOI::enter(): the cell the role was in before is not
\* cleared.
SceneEnter(s, r, p) ==
  /\ Cardinality(Listed) < MaxListed
  /\ roles_' = Put(roles_, s, r, p)
  /\ grids_' = [grids_ EXCEPT ![s] = @ \union { <<positionToGrid(s, p), r>> }]
  /\ roleToGrid_' = Put(roleToGrid_, s, r, positionToGrid(s, p))
  /\ rolePositions_' = Put(rolePositions_, s, r, p)
  /\ reentered' = [reentered EXCEPT ![s] = IF roleToGrid_[s][r] = NoCell THEN @ ELSE @ \union {r}]

\* Scene::leave() and AOI::leave(): without an entry in roleToGrid_ only
\* Scene::roles_ changes.
SceneLeave(s, r) ==
  /\ roles_' = Put(roles_, s, r, Absent)
  /\ IF roleToGrid_[s][r] = NoCell
       THEN UNCHANGED <<grids_, roleToGrid_, rolePositions_>>
       ELSE /\ grids_' = [grids_ EXCEPT ![s] = @ \ { <<roleToGrid_[s][r], r>> }]
            /\ roleToGrid_' = Put(roleToGrid_, s, r, NoCell)
            /\ rolePositions_' = Put(rolePositions_, s, r, Absent)
  /\ UNCHANGED reentered

enter(s, r, p) == SceneEnter(s, r, p) /\ UNCHANGED <<manager, size>>

leave(s, r) == SceneLeave(s, r) /\ UNCHANGED <<manager, size>>

\* Mutation of AOIMove: the role is listed in the new cell and stays in the old.
AOIMoveWithoutErase(s, r, p) ==
  /\ grids_' = [grids_ EXCEPT ![s] = @ \union { <<positionToGrid(s, p), r>> }]
  /\ roleToGrid_' = Put(roleToGrid_, s, r, positionToGrid(s, p))
  /\ rolePositions_' = Put(rolePositions_, s, r, p)

\* AOI::move(): nothing without an entry in roleToGrid_.
AOIMove(s, r, p) ==
  LET new == positionToGrid(s, p)
      old == roleToGrid_[s][r]
  IN  IF old = NoCell
        THEN UNCHANGED <<grids_, roleToGrid_, rolePositions_>>
        ELSE /\ grids_' = IF old = new THEN grids_
                          ELSE [grids_ EXCEPT ![s] = (@ \ {<<old, r>>}) \union {<<new, r>>}]
             /\ roleToGrid_' = Put(roleToGrid_, s, r, new)
             /\ rolePositions_' = Put(rolePositions_, s, r, p)

move(s, r, p) ==
  /\ roles_[s][r] # Absent
  /\ roles_' = Put(roles_, s, r, p)
  /\ AOIMove(s, r, p)
  /\ UNCHANGED <<manager, size, reentered>>

-----------------------------------------------------------------------------
(* SceneManager. *)

Init ==
  /\ scenes_ = {} /\ nextSceneId_ = 0 /\ stuck = FALSE
  /\ roleScenes_ = [r \in Role |-> 0]
  /\ size \in [1..MaxScenes -> Sizes]
  /\ roles_ = [s \in 1..MaxScenes |-> [r \in Role |-> Absent]]
  /\ rolePositions_ = roles_
  /\ roleToGrid_ = [s \in 1..MaxScenes |-> [r \in Role |-> NoCell]]
  /\ grids_ = [s \in 1..MaxScenes |-> {}]
  /\ reentered = [s \in 1..MaxScenes |-> {}]

\* The size of the scene is the one Init foresees for its id.
createScene ==
  /\ ~stuck /\ nextSceneId_ < MaxScenes
  /\ nextSceneId_' = nextSceneId_ + 1
  /\ scenes_' = scenes_ \union {nextSceneId_ + 1}
  /\ UNCHANGED <<roleScenes_, stuck, size, contents>>

\* roleScenes_ keeps the id of the scene.
destroyScene(s) ==
  /\ ~stuck
  /\ scenes_' = scenes_ \ {s}
  /\ UNCHANGED <<nextSceneId_, roleScenes_, stuck, size, contents>>

\* The role stays in the scene it was in.
enterScene(s, r, p) ==
  /\ ~stuck
  /\ s \in scenes_
  /\ SceneEnter(s, r, p)
  /\ roleScenes_' = [roleScenes_ EXCEPT ![r] = s]
  /\ UNCHANGED <<scenes_, nextSceneId_, stuck, size>>

\* getScene() locks mutex_: the thread that holds it already waits for itself,
\* since a pthread mutex of the default type is not recursive.
getScene(held) == stuck' = held

\* A role that is in a scene makes leaveScene() call getScene() with mutex_ held.
leaveScene(r) ==
  /\ ~stuck
  /\ getScene(roleScenes_[r] # 0)
  /\ UNCHANGED <<scenes_, nextSceneId_, roleScenes_, size, contents>>

Next ==
  \/ createScene
  \/ \E s \in Created : destroyScene(s)
  \/ \E r \in Role : leaveScene(r)
  \/ \E s \in Created, r \in Role :
       \/ leave(s, r)
       \/ \E p \in Positions : enterScene(s, r, p) \/ enter(s, r, p) \/ move(s, r, p)

Spec == Init /\ [][Next]_vars

-----------------------------------------------------------------------------
(* Properties. *)

Place == Positions \union {Absent}

TypeOK ==
  /\ nextSceneId_ \in 0..MaxScenes
  /\ scenes_ \subseteq Created
  /\ roleScenes_ \in [Role -> 0..nextSceneId_]
  /\ stuck \in BOOLEAN
  /\ size \in [1..MaxScenes -> Sizes]
  /\ roles_ \in [1..MaxScenes -> [Role -> Place]]
  /\ rolePositions_ \in [1..MaxScenes -> [Role -> Place]]
  /\ roleToGrid_ \in [1..MaxScenes -> [Role -> Int]]
  /\ grids_ \in [1..MaxScenes -> SUBSET (Int \X Role)]
  /\ reentered \in [1..MaxScenes -> SUBSET Role]

\* The position the scene keeps is the AOI's, and the cell is that of the
\* position.
MapsAgree(s) ==
  /\ roles_[s] = rolePositions_[s]
  /\ \A r \in Role :
       roleToGrid_[s][r] = IF roles_[s][r] = Absent THEN NoCell
                           ELSE positionToGrid(s, roles_[s][r])

ListedWhereItIs(s) ==
  \A r \in Role : roles_[s][r] # Absent => <<roleToGrid_[s][r], r>> \in grids_[s]

CellsInside(s) == \A e \in grids_[s] : e[1] \in 0 .. gridX(s) * gridY(s) - 1

GhostOnlyByReentry(s) ==
  \A e \in grids_[s] : e[1] = roleToGrid_[s][e[2]] \/ e[2] \in reentered[s]

\* The three maps and the cells of a scene stay consistent through every
\* sequence of enter, move, leave and re-entry: the maps agree, a role is listed
\* in the cell it is in, every cell that is named is an element of grids_, and
\* the only way to be listed in a cell one is not in is to have entered the
\* scene again without leaving it.
IndexAgrees ==
  \A s \in 1..MaxScenes :
    MapsAgree(s) /\ ListedWhereItIs(s) /\ CellsInside(s) /\ GhostOnlyByReentry(s)

Apart(a, b) == IF a >= b THEN a - b ELSE b - a

\* Two roles that are no further apart than a cell in either direction see
\* each other through getAroundRoles(), also at the border where positions
\* are clamped and where a row of cells ends and the next one begins.
SeesNeighbours ==
  \A s \in Created : \A a, b \in Role :
    LET p == roles_[s][a]
        q == roles_[s][b]
    IN  (/\ a # b /\ p # Absent /\ q # Absent
         /\ Apart(p[1], q[1]) <= gridWidth(s)
         /\ Apart(p[2], q[2]) <= gridHeight(s))
        => b \in getAroundRoles(s, a) /\ b \in getAroundRolesAt(s, p)

\* A role can leave its scene through the manager ("role leaves the scene",
\* scene_manager.h): no call of the manager blocks for ever with mutex_ held.
LeaveReturns == ~stuck
=============================================================================
