---------------------------- MODULE MCDatabase ----------------------------
(***************************************************************************)
(* What the server keeps in MySQL and Redis, in one run: the roles with    *)
(* their caches, the query builder, one MySQL connection, the clients of   *)
(* Redis, logins and sessions, teams and friends.  They share no variable, *)
(* so a behaviour follows the one that `focus' names and leaves the others *)
(* where they start.                                                       *)
(***************************************************************************)
EXTENDS Naturals, FiniteSets, TLC

CONSTANTS Thread, Account, Name, Value, MaxRole, Addr,
          Column, MaxParams,
          Update,
          RedisClient, MaxLoans,
          Player, MaxToken, Capacity, MaxSession,
          Member, Limit, MaxTeam,
          Friends

VARIABLES focus,
          table, nextId, entity, roleCache_, roleNameIndex_, managed, first, op, ref,
          synced, raced, late,
          whereClause_, data_, params_, sql, wheres, builds,
          connected_, inTransaction_, session, autocommit, open, durable,
          acked, reported, orphaned, unrestored,
          context_, mode, queued, selected, loan, loans, last,
          store, online, tokens, player, token, pool_, nextId_, loginOp,
          revoked, tenant, overlap,
          status, leader, member, teams_, roleTeams_, nextTeamId_, teamOp,
          relation, friendMap_, friendOp, unsure

roles == <<table, nextId, entity, roleCache_, roleNameIndex_, managed, first, op, ref,
           synced, raced, late>>
builders == <<whereClause_, data_, params_, sql, wheres, builds>>
links == <<connected_, inTransaction_, session, autocommit, open, durable,
           acked, reported, orphaned, unrestored>>
clients == <<context_, mode, queued, selected, loan, loans, last>>
logins == <<store, online, tokens, player, token, pool_, nextId_, loginOp,
            revoked, tenant, overlap>>
teams == <<status, leader, member, teams_, roleTeams_, nextTeamId_, teamOp>>
friends == <<relation, friendMap_, friendOp, unsure>>

Entities == INSTANCE Roles
Builders == INSTANCE QueryBuilder
Links == INSTANCE MySQLConnection
Clients == INSTANCE Redis WITH Client <- RedisClient
Logins == INSTANCE Login WITH Account <- Player, op <- loginOp
Teams == INSTANCE Team WITH Role <- Member, op <- teamOp
Friendships == INSTANCE Friend WITH Role <- Friends, op <- friendOp

ASSUME RolesAssumption == MaxRole \in Nat /\ Value # {} /\ Addr \subseteq Nat \ {0}
ASSUME LoginAssumption ==
  /\ MaxToken \in Nat /\ Capacity \in Nat \ {0} /\ MaxSession \in Nat /\ Capacity <= MaxSession
  /\ Logins!Nobody \notin Player
ASSUME TeamAssumption == IsFiniteSet(Thread) /\ Limit \in Nat \ {0} /\ MaxTeam \in Nat

MCSymmetry == Permutations(Thread)

\* An entity nobody refers to is not seen again: its fields do not tell states
\* apart.
Live(f, none) == [o \in Addr |-> IF o \in Entities!Referenced THEN f[o] ELSE none]
MCView ==
  <<focus, table, nextId, roleCache_, roleNameIndex_, managed, first, op, ref, late,
    Live(entity, Entities!NoEntity), Live(synced, Entities!Default),
    raced \intersect Entities!Referenced,
    builders, links, clients, logins, teams, friends>>

MCInit ==
  /\ Entities!Init /\ Builders!Init /\ Links!Init /\ Clients!Init /\ Logins!Init
  /\ Teams!Init /\ Friendships!Init
  /\ focus \in {"role", "builder", "link", "client", "login", "team", "friend"}

MCNext ==
  /\ UNCHANGED focus
  /\ \/ /\ focus = "role" /\ Entities!Next
        /\ UNCHANGED <<builders, links, clients, logins, teams, friends>>
     \/ /\ focus = "builder" /\ Builders!Next
        /\ UNCHANGED <<roles, links, clients, logins, teams, friends>>
     \/ /\ focus = "link" /\ Links!Next
        /\ UNCHANGED <<roles, builders, clients, logins, teams, friends>>
     \/ /\ focus = "client" /\ Clients!Next
        /\ UNCHANGED <<roles, builders, links, logins, teams, friends>>
     \/ /\ focus = "login" /\ Logins!Next
        /\ UNCHANGED <<roles, builders, links, clients, teams, friends>>
     \/ /\ focus = "team" /\ Teams!Next
        /\ UNCHANGED <<roles, builders, links, clients, logins, friends>>
     \/ /\ focus = "friend" /\ Friendships!Next
        /\ UNCHANGED <<roles, builders, links, clients, logins, teams>>

MCSpec ==
  MCInit /\ [][MCNext]_<<focus, roles, builders, links, clients, logins, teams, friends>>

-----------------------------------------------------------------------------
\* What EntityManager serves from its cache is a role of the table, but for
\* deletes that are under way or were overtaken.
CacheCoherent == Entities!CacheCoherent

\* A change of an entity is dirty, stored, or made while a save of it ran.
NoSilentLoss == Entities!NoSilentLoss

\* A builder used for one statement hands out the parameters in the order of
\* the placeholders, two named statements apart.
UsedOnceAligns == Builders!UsedOnceAligns

\* What a MySQL connection reported as committed is committed, two named cases
\* apart.
ReportedKept == Links!ReportedKept

\* No command ends up in the MULTI of another borrower of a Redis client.
NoCrossLoan == Clients!NoCrossLoan

\* A wrapper of a Redis command that returns true did what it was asked to do.
TrueMeansDone == Clients!TrueMeansDone

\* A token that a logout deleted is never valid again.
LogoutRevokes == Logins!LogoutRevokes

\* A session has no player but the one who logged in on it.
IdentityOwn == Logins!IdentityOwn

\* A team has at most one role too many for each of the other threads.
OverfullByOverlap == Teams!OverfullByOverlap

\* Friends for the cache are friends in the table, but for failures and races.
CachedAreStored == Friendships!CachedAreStored
=============================================================================
