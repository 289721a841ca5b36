---------------------------- MODULE PlayerRegistry ----------------------------
(***************************************************************************)
(* What a registry of logged-in ids promises its users: every session has  *)
(* at most one id, and an id is given to a session only while no other     *)
(* session has it.                                                         *)
(***************************************************************************)
CONSTANTS
    Id,        \* the ids that can be bound (players, or roles)
    NoId,      \* the session has no id
    Session    \* the sessions that can exist

VARIABLE bound \* the id of each session

Init == bound = [s \in Session |-> NoId]

\* Session s gives its id up.
Release(s) == bound' = [bound EXCEPT ![s] = NoId]

\* Session s takes an id that no other session has.
Take(s, i) ==
    /\ \A other \in Session \ {s} : bound[other] # i
    /\ bound' = [bound EXCEPT ![s] = i]

Next == \E s \in Session : Release(s) \/ \E i \in Id : Take(s, i)

Spec == Init /\ [][Next]_bound
===============================================================================
