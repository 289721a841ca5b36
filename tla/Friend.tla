------------------------------- MODULE Friend -------------------------------
(***************************************************************************)
(* game/modules/friend: FriendModule, which writes the pairs of friends    *)
(* into the table friend_relation, and FriendManager, the cache that it    *)
(* asks.  A request runs in a thread: the look into the cache, the         *)
(* statement and the change of the cache are steps of their own, and the   *)
(* result of the statement is not looked at.  The two rows of a pair are   *)
(* written, and the two entries are cached, together, so a pair is one set *)
(* of roles.  Nothing reads the table into the cache.                      *)
(***************************************************************************)
EXTENDS Naturals, FiniteSets

CONSTANTS Thread, Role

VARIABLES relation,    \* the pairs in friend_relation
          friendMap_,  \* the pairs in FriendManager::friendMap_
          op,          \* thread -> what its request does next
          unsure       \* history: pairs of which the cache need not be right

vars == <<relation, friendMap_, op, unsure>>

\* Nothing keeps a role from naming itself.
Pair == { p \in SUBSET Role : Cardinality(p) \in 1..2 }
Idle == [do |-> "idle"]
Busy(p) == \E t \in Thread : op[t].do \in {"cache", "uncache"} /\ op[t].pair = p

\* A pair is in doubt from the moment a statement about it fails, or is sent
\* while another request is between its statement and the cache.
Doubt(p, failed) ==
  unsure' = IF failed \/ Busy(p) THEN unsure \union {p} ELSE unsure

isFriend(p) == p \in friendMap_

\* addFriend() asks the cache first.
addFriend(t, p) ==
  /\ op[t] = Idle /\ ~isFriend(p)
  /\ op' = [op EXCEPT ![t] = [do |-> "insert", pair |-> p]]
  /\ UNCHANGED <<relation, friendMap_, unsure>>

\* The pool has no connection: addFriend() returns.
noConnection(t) ==
  /\ op[t].do = "insert"
  /\ op' = [op EXCEPT ![t] = Idle]
  /\ UNCHANGED <<relation, friendMap_, unsure>>

\* INSERT INTO friend_relation: both rows or, as a key exists, neither; the two
\* rows of a role with itself have one key.
insertFriend(t, p) ==
  /\ op[t].do = "insert" /\ op[t].pair = p
  /\ \/ /\ p \notin relation /\ Cardinality(p) = 2
        /\ relation' = relation \union {p} /\ Doubt(p, FALSE)
     \/ p \in relation /\ UNCHANGED relation /\ Doubt(p, FALSE)
     \/ p \notin relation /\ UNCHANGED relation /\ Doubt(p, TRUE)
  /\ op' = [op EXCEPT ![t] = [do |-> "cache", pair |-> p]]
  /\ UNCHANGED friendMap_

\* FriendManager::addFriend().
cacheFriend(t) ==
  /\ op[t].do = "cache"
  /\ friendMap_' = friendMap_ \union {op[t].pair}
  /\ op' = [op EXCEPT ![t] = Idle]
  /\ UNCHANGED <<relation, unsure>>

\* DELETE FROM friend_relation, whether or not the cache knows the pair.
removeFriend(t, p) ==
  /\ op[t] = Idle
  /\ \/ relation' = relation \ {p} /\ Doubt(p, FALSE)
     \/ UNCHANGED relation /\ Doubt(p, TRUE)
  /\ op' = [op EXCEPT ![t] = [do |-> "uncache", pair |-> p]]
  /\ UNCHANGED friendMap_

\* Mutation of uncacheFriend: the cache is left alone.
uncacheFriendNever(t) ==
  /\ op[t].do = "uncache"
  /\ op' = [op EXCEPT ![t] = Idle]
  /\ UNCHANGED <<relation, friendMap_, unsure>>

\* FriendManager::removeFriend().
uncacheFriend(t) ==
  /\ op[t].do = "uncache"
  /\ friendMap_' = friendMap_ \ {op[t].pair}
  /\ op' = [op EXCEPT ![t] = Idle]
  /\ UNCHANGED <<relation, unsure>>

\* The process ends and starts again, with an empty cache.
Restart ==
  /\ friendMap_' = {} /\ op' = [t \in Thread |-> Idle] /\ unsure' = {}
  /\ UNCHANGED relation

Init ==
  /\ relation = {} /\ friendMap_ = {} /\ op = [t \in Thread |-> Idle] /\ unsure = {}

Next ==
  \/ Restart
  \/ \E t \in Thread :
       \/ noConnection(t) \/ cacheFriend(t) \/ uncacheFriend(t)
       \/ \E p \in Pair : addFriend(t, p) \/ insertFriend(t, p) \/ removeFriend(t, p)

Spec == Init /\ [][Next]_vars

-----------------------------------------------------------------------------
(* Properties. *)

\* Friends for the cache are friends in the table: through adding, removing,
\* adding again and restarts of the server, only a statement that failed or
\* two requests about the same pair that overlapped can make them differ.
CachedAreStored ==
  \A p \in friendMap_ : p \in relation \/ p \in unsure \/ Busy(p)
=============================================================================
