------------------------------- MODULE Roles -------------------------------
(***************************************************************************)
(* The roles of the accounts: RoleEntity, EntityManager and RoleModule     *)
(* with RoleManager, over the table player_role of MySQL.  Threads of the  *)
(* server run the operations; between the steps of one operation no lock   *)
(* is held, so the steps of others come between a statement and the cache. *)
(* The six columns an UPDATE may write are one value.  Entities are shared *)
(* objects: both caches and the callers hold a Ptr to them.                *)
(***************************************************************************)
EXTENDS Integers, FiniteSets

CONSTANTS Thread,
          Account,
          Name,
          Value,        \* values of the updatable columns
          MaxRole,      \* bound on the ids the table gives out
          Addr          \* addresses of entities

VARIABLES table,           \* player_role: id -> row
          nextId,          \* the last AUTO_INCREMENT value given out
          entity,          \* address -> RoleEntity
          roleCache_,      \* EntityManager::roleCache_: id -> address
          roleNameIndex_,  \* EntityManager::roleNameIndex_: name -> id
          managed,         \* RoleManager::roleCache_: id -> address
          first,           \* the static of the lambda in RoleEntity::getUpdateSQL()
          op,              \* thread -> what its operation does next
          ref,             \* thread -> the entity it got last
          synced,          \* history: address -> the value last read or written
          raced,           \* history: entities set while one of their saves ran
          late             \* history: roles cached after their row was deleted

database == <<table, nextId>>
caches == <<roleCache_, roleNameIndex_, managed>>
history == <<synced, raced, late>>
vars == <<database, caches, entity, first, op, ref, history>>

RoleId == 1..MaxRole
Nil == 0
NoRow == [account |-> Nil]
NoEntity == [id |-> 0]
Default == CHOOSE v \in Value : TRUE

Idle == [do |-> "idle"]
Rows == { i \in RoleId : table[i] # NoRow }

-----------------------------------------------------------------------------
(* Statements.  A prepared statement that cannot be prepared or executed   *)
(* changes nothing: executeQuery() gives a result without rows,            *)
(* executeUpdate() and insertAndGetId() give -1.                           *)

\* What next() makes of a SELECT for one row: the row, or nothing.  Nothing is
\* also what a result gives that getResult() built of metadata alone.
Fetched(row) == {row, NoRow}

\* The ids an INSERT gives: the keys of the table are the name and the account
\* (with the server id, which is always the default).
insertAndGetId(a, n) ==
  { -1 } \union
  (IF nextId < MaxRole /\ \A i \in Rows : table[i].account # a /\ table[i].name # n
     THEN { nextId + 1 } ELSE {})

\* The rows an UPDATE of one role changes: none if its row is gone or has the
\* value already.
executeUpdate(i, v) ==
  { -1 } \union (IF i \in Rows /\ table[i].value # v THEN {1} ELSE {0})

Insert(i, a, n) ==
  /\ table' = [table EXCEPT ![i] = [account |-> a, name |-> n, value |-> Default]]
  /\ nextId' = i

-----------------------------------------------------------------------------
(* Entities and caches. *)

Referenced ==
  { roleCache_[i] : i \in RoleId } \union { managed[i] : i \in RoleId }
  \union { ref[t] : t \in Thread }

\* std::make_shared<RoleEntity>() followed by the setters and clearDirty().
NewEntity(t, o, i, row) ==
  /\ o \notin Referenced
  /\ \A p \in Addr \ Referenced : o <= p
  /\ entity' = [entity EXCEPT ![o] = [id |-> i, account |-> row.account, name |-> row.name,
                                      value |-> row.value, dirty |-> FALSE]]
  /\ synced' = [synced EXCEPT ![o] = row.value]
  /\ raced' = raced \ {o}
  /\ ref' = [ref EXCEPT ![t] = o]

Does(t, step) == op[t].do = step
Then(t, next) == op' = [op EXCEPT ![t] = next]

\* EntityManager::cacheRole().
cacheRole(t) ==
  LET o == ref[t] IN
  /\ Does(t, "cache") /\ op[t].in = "entities"
  /\ roleCache_' = [roleCache_ EXCEPT ![entity[o].id] = o]
  /\ roleNameIndex_' = [roleNameIndex_ EXCEPT ![entity[o].name] = entity[o].id]
  /\ late' = IF entity[o].id \in Rows THEN late ELSE late \union {entity[o].id}
  /\ Then(t, Idle)
  /\ UNCHANGED <<database, managed, entity, first, ref, synced, raced>>

\* RoleManager::cacheRole().
manageRole(t) ==
  /\ Does(t, "cache") /\ op[t].in = "roles"
  /\ managed' = [managed EXCEPT ![entity[ref[t]].id] = ref[t]]
  /\ Then(t, Idle)
  /\ UNCHANGED <<database, roleCache_, roleNameIndex_, entity, first, ref, history>>

\* Mutation of uncacheRole: the name stays in the index.
uncacheRoleOnly(t) ==
  /\ Does(t, "uncache")
  /\ roleCache_' = [roleCache_ EXCEPT ![op[t].id] = Nil]
  /\ Then(t, Idle)
  /\ UNCHANGED <<database, roleNameIndex_, managed, entity, first, ref, history>>

uncacheRole(t) ==
  LET i == op[t].id IN
  /\ Does(t, "uncache")
  /\ IF roleCache_[i] = Nil THEN UNCHANGED <<roleCache_, roleNameIndex_>>
     ELSE /\ roleNameIndex_' = [roleNameIndex_ EXCEPT ![entity[roleCache_[i]].name] = Nil]
          /\ roleCache_' = [roleCache_ EXCEPT ![i] = Nil]
  /\ Then(t, Idle)
  /\ UNCHANGED <<database, managed, entity, first, ref, history>>

-----------------------------------------------------------------------------
(* Operations that read. *)

Cache(in) == IF in = "entities" THEN roleCache_ ELSE managed

\* The ids getRole() is called with.  getRoleByName() and getRolesByAccountId()
\* select them first and selectRole() gets them from a client: whatever became
\* of the role since, or before it was made.
Asked == RoleId

\* EntityManager::getRole() and RoleModule::getRole() look into their cache.
getRole(t, in, i) ==
  /\ Does(t, "idle")
  /\ IF Cache(in)[i] # Nil
       THEN ref' = [ref EXCEPT ![t] = Cache(in)[i]] /\ Then(t, Idle)
       ELSE ref' = [ref EXCEPT ![t] = Nil] /\ Then(t, [do |-> "select", in |-> in, id |-> i])
  /\ UNCHANGED <<database, caches, entity, first, history>>

\* The cache had no entity: the row is read and becomes one.
loadRole(t) ==
  /\ Does(t, "select")
  /\ \E row \in Fetched(table[op[t].id]) :
       IF row = NoRow
         THEN Then(t, Idle) /\ UNCHANGED <<entity, ref, synced, raced>>
         ELSE /\ \E o \in Addr : NewEntity(t, o, op[t].id, row)
              /\ Then(t, [do |-> "cache", in |-> op[t].in])
  /\ UNCHANGED <<database, caches, first, late>>

-----------------------------------------------------------------------------
(* Operations that write. *)

\* EntityManager::createRole(): Entity::save() of a new entity inserts.
createRole(t, a, n) ==
  /\ Does(t, "idle")
  /\ \E i \in insertAndGetId(a, n) :
       /\ i > 0
       /\ Insert(i, a, n)
       /\ \E o \in Addr : NewEntity(t, o, i, table'[i])
       /\ Then(t, [do |-> "cache", in |-> "entities"])
       /\ UNCHANGED <<caches, first, late>>

\* RoleModule::createRole(): the SELECT for the name comes first, but whatever
\* it answered the name may be taken when the INSERT runs; a failed INSERT hands
\* back -1.  No entity is made; the row of role_attribute that follows is left out,
\* as is that its failure goes unnoticed.
insertRole(t, a, n) ==
  /\ Does(t, "idle")
  /\ \E i \in insertAndGetId(a, n) :
       /\ i > 0
       /\ Insert(i, a, n)
  /\ UNCHANGED <<caches, entity, first, op, ref, history>>

\* A setter of RoleEntity, in whatever thread has the entity.
setValue(t, v) ==
  LET o == ref[t] IN
  /\ Does(t, "idle") /\ o # Nil
  /\ entity' = [entity EXCEPT ![o].value = v, ![o].dirty = TRUE]
  /\ raced' = IF \E u \in Thread : Does(u, "update") /\ ref[u] = o THEN raced \union {o} ELSE raced
  /\ UNCHANGED <<database, caches, first, op, ref, synced, late>>

\* Whether the UPDATE can be prepared: the assignments are separated by commas
\* with the help of a static, so only those of the first UPDATE of the process
\* do not begin with one.
getUpdateSQL == first

bindUpdateParams(o) == entity[o].value

\* EntityManager::saveRole() and RoleModule::updateRole(): Entity::save() builds
\* the UPDATE and collects its parameters.
save(t, in) ==
  LET o == ref[t] IN
  /\ Does(t, "idle") /\ o # Nil
  /\ entity[o].dirty
  /\ first' = FALSE
  /\ Then(t, [do |-> "update", in |-> in, value |-> bindUpdateParams(o),
                wellFormed |-> getUpdateSQL])
  /\ UNCHANGED <<database, caches, entity, ref, history>>

\* saveRole() caches what was saved, updateRole() does not.
AfterSave(in) == IF in = "entities" THEN [do |-> "cache", in |-> "entities"] ELSE Idle

\* Mutation of update: the entity is clean whatever the statement did.
updateAlwaysClean(t) ==
  LET o == ref[t] IN
  /\ Does(t, "update")
  /\ entity' = [entity EXCEPT ![o].dirty = FALSE]
  /\ Then(t, Idle)
  /\ UNCHANGED <<database, caches, first, ref, history>>

\* The UPDATE runs; clearDirty() follows only if it changed the row.
update(t) ==
  LET o == ref[t]
      i == entity[o].id
      v == op[t].value
  IN  /\ Does(t, "update")
      /\ \E affected \in (IF op[t].wellFormed THEN executeUpdate(i, v) ELSE {-1}) :
           IF affected > 0
             THEN /\ table' = [table EXCEPT ![i].value = v]
                  /\ entity' = [entity EXCEPT ![o].dirty = FALSE]
                  /\ synced' = [synced EXCEPT ![o] = v]
                  /\ Then(t, AfterSave(op[t].in))
             ELSE Then(t, Idle) /\ UNCHANGED <<table, entity, synced>>
      /\ UNCHANGED <<nextId, caches, first, ref, raced, late>>

\* EntityManager::deleteRole(): the cache of RoleManager is not told.
deleteRole(t, i) ==
  /\ Does(t, "idle")
  /\ i \in Rows
  /\ table' = [table EXCEPT ![i] = NoRow]
  /\ Then(t, [do |-> "uncache", id |-> i])
  /\ UNCHANGED <<nextId, caches, entity, first, ref, history>>

\* The process dies between any two steps; the next one starts with the tables.
Crash ==
  /\ entity' = [o \in Addr |-> NoEntity]
  /\ roleCache_' = [i \in RoleId |-> Nil] /\ managed' = [i \in RoleId |-> Nil]
  /\ roleNameIndex_' = [n \in Name |-> Nil]
  /\ first' = TRUE
  /\ op' = [t \in Thread |-> Idle] /\ ref' = [t \in Thread |-> Nil]
  /\ synced' = [o \in Addr |-> Default] /\ raced' = {} /\ late' = {}
  /\ UNCHANGED database

Init ==
  /\ table = [i \in RoleId |-> NoRow] /\ nextId = 0
  /\ entity = [o \in Addr |-> NoEntity]
  /\ roleCache_ = [i \in RoleId |-> Nil] /\ managed = [i \in RoleId |-> Nil]
  /\ roleNameIndex_ = [n \in Name |-> Nil]
  /\ first = TRUE
  /\ op = [t \in Thread |-> Idle] /\ ref = [t \in Thread |-> Nil]
  /\ synced = [o \in Addr |-> Default] /\ raced = {} /\ late = {}

Next ==
  \/ Crash
  \/ \E t \in Thread :
       \/ \E i \in RoleId : deleteRole(t, i)
       \/ \E i \in Asked, in \in {"entities", "roles"} : getRole(t, in, i)
       \/ \E a \in Account, n \in Name : createRole(t, a, n) \/ insertRole(t, a, n)
       \/ \E v \in Value : setValue(t, v)
       \/ \E in \in {"entities", "roles"} : save(t, in)
       \/ loadRole(t) \/ update(t)
       \/ cacheRole(t) \/ manageRole(t) \/ uncacheRole(t)

Spec == Init /\ [][Next]_vars

-----------------------------------------------------------------------------
(* Properties. *)

Row == [account : Account, name : Name, value : Value] \union {NoRow}
RoleEntity == [id : RoleId, account : Account, name : Name, value : Value, dirty : BOOLEAN]

TypeOK ==
  /\ table \in [RoleId -> Row] /\ nextId \in 0..MaxRole
  /\ entity \in [Addr -> RoleEntity \union {NoEntity}]
  /\ roleCache_ \in [RoleId -> Addr \union {Nil}] /\ managed \in [RoleId -> Addr \union {Nil}]
  /\ roleNameIndex_ \in [Name -> RoleId \union {Nil}]
  /\ first \in BOOLEAN
  /\ ref \in [Thread -> Addr \union {Nil}]
  /\ synced \in [Addr -> Value] /\ raced \subseteq Addr /\ late \subseteq RoleId

\* EntityManager goes on serving a role that was deleted only between the
\* DELETE and uncacheRole(), or when an operation that had read or written the
\* row before the DELETE came to its cacheRole() after it.
ServesLiving(i) ==
  roleCache_[i] # Nil =>
    \/ i \in Rows
    \/ i \in late
    \/ \E t \in Thread : Does(t, "uncache") /\ op[t].id = i

\* A name that roleNameIndex_ knows leads to a cached entity of that name, also
\* when the name was given away again while its first owner was being deleted.
IndexSound(n) ==
  LET i == roleNameIndex_[n]
  IN  i # Nil => roleCache_[i] # Nil /\ entity[roleCache_[i]].name = n

\* What EntityManager serves from its cache, by id and by name, is a role of
\* the table, but for deletes that are under way or were overtaken.
CacheCoherent ==
  /\ \A i \in RoleId : ServesLiving(i)
  /\ \A n \in Name : IndexSound(n)

\* A change is not forgotten: an entity that is not dirty has the value it last
\* exchanged with the table, except when it was set while a save of it was
\* between its SQL and its clearDirty().
NoSilentLoss ==
  \A o \in Referenced \ {Nil} :
    entity[o].dirty \/ entity[o].value = synced[o] \/ o \in raced

\* A save stores what the entity has ("save role", entity_manager.h): the UPDATE
\* it sends can be prepared.
SaveStores ==
  \A t \in Thread : Does(t, "update") => op[t].wellFormed
=============================================================================
