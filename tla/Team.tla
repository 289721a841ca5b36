-------------------------------- MODULE Team --------------------------------
(***************************************************************************)
(* game/modules/team: TeamModule, which keeps the teams in the tables team *)
(* and team_member, and TeamManager, which keeps teams in memory and gives *)
(* TeamModule the team of a role.  A request runs in a thread; between its *)
(* statements others run theirs.  An operation of the manager holds mutex_ *)
(* from its start to its end.  A statement that fails changes nothing, and *)
(* the module looks at no result but the id of the new team.               *)
(***************************************************************************)
EXTENDS Naturals, FiniteSets

CONSTANTS Thread, Role,
          Limit,      \* the members a team may have: 5 in the code
          MaxTeam     \* bound on the teams of the tables, and of the manager

VARIABLES status,        \* table team: id -> "none", "open" or "dissolved"
          leader,        \* table team: id -> leader_role_id
          member,        \* table team_member: id -> its roles
          teams_,        \* TeamManager::teams_: id -> TeamInfo
          roleTeams_,    \* TeamManager::roleTeams_: role -> id, 0 if absent
          nextTeamId_,   \* TeamManager::nextTeamId_
          op             \* thread -> what its request does next

tables == <<status, leader, member>>
manager == <<teams_, roleTeams_, nextTeamId_>>
vars == <<tables, manager, op>>

Id == 1..MaxTeam
NoTeam == [members |-> {}]
Idle == [do |-> "idle"]
Does(t, step) == op[t].do = step
Then(t, next) == op' = [op EXCEPT ![t] = next]

-----------------------------------------------------------------------------
(* TeamManager. *)

managerCreateTeam(r) ==
  LET g == nextTeamId_ + 1 IN
  /\ g \in Id
  /\ nextTeamId_' = g
  /\ teams_' = [teams_ EXCEPT ![g] = [leader |-> r, members |-> {r}]]
  /\ roleTeams_' = [roleTeams_ EXCEPT ![r] = g]
  /\ UNCHANGED <<tables, op>>

\* Every member loses its entry, also one that names another team by now.
dissolveTeam(g) ==
  /\ teams_[g] # NoTeam
  /\ roleTeams_' = [r \in Role |-> IF r \in teams_[g].members THEN 0 ELSE roleTeams_[r]]
  /\ teams_' = [teams_ EXCEPT ![g] = NoTeam]
  /\ UNCHANGED <<tables, nextTeamId_, op>>

\* A role that is in another team stays listed there.
addMember(g, r) ==
  /\ teams_[g] # NoTeam
  /\ teams_' = [teams_ EXCEPT ![g].members = @ \union {r}]
  /\ roleTeams_' = [roleTeams_ EXCEPT ![r] = g]
  /\ UNCHANGED <<tables, nextTeamId_, op>>

\* The entry of the role goes, whichever team it names.
removeMember(g, r) ==
  /\ teams_[g] # NoTeam
  /\ teams_' = [teams_ EXCEPT ![g].members = @ \ {r}]
  /\ roleTeams_' = [roleTeams_ EXCEPT ![r] = 0]
  /\ UNCHANGED <<tables, nextTeamId_, op>>

\* TeamModule::getTeamByRole(): the manager's team of a role.
getTeamByRole(r) == { g \in Id : g = roleTeams_[r] /\ teams_[g] # NoTeam }

-----------------------------------------------------------------------------
(* TeamModule. *)

\* INSERT INTO team; the member follows.
createTeam(t, r) ==
  /\ op[t] = Idle /\ getTeamByRole(r) = {}
  /\ \E g \in Id :
       /\ status[g] = "none" /\ \A h \in Id : h < g => status[h] # "none"
       /\ status' = [status EXCEPT ![g] = "open"]
       /\ leader' = [leader EXCEPT ![g] = r]
       /\ Then(t, [do |-> "insert", team |-> g, role |-> r])
  /\ UNCHANGED <<member, manager>>

\* Mutation of joinTeam: the last place is counted once too often.
joinTeamOneMore(t, r, g) ==
  /\ op[t] = Idle /\ getTeamByRole(r) = {}
  /\ status[g] = "open" /\ Cardinality(member[g]) <= Limit
  /\ Then(t, [do |-> "insert", team |-> g, role |-> r])
  /\ UNCHANGED <<tables, manager>>

\* The SELECT finds the team open and counts its members.
joinTeam(t, r, g) ==
  /\ op[t] = Idle /\ getTeamByRole(r) = {}
  /\ status[g] = "open" /\ Cardinality(member[g]) < Limit
  /\ Then(t, [do |-> "insert", team |-> g, role |-> r])
  /\ UNCHANGED <<tables, manager>>

\* INSERT INTO team_member, for createTeam() and joinTeam().
insertMember(t) ==
  /\ Does(t, "insert")
  /\ member' \in {member, [member EXCEPT ![op[t].team] = @ \union {op[t].role}]}
  /\ Then(t, Idle)
  /\ UNCHANGED <<status, leader, manager>>

\* DELETE FROM team_member; the leader then has to be replaced.
leaveTeam(t, r) ==
  /\ op[t] = Idle
  /\ \E g \in getTeamByRole(r) :
       /\ member' \in {member, [member EXCEPT ![g] = @ \ {r}]}
       /\ Then(t, IF teams_[g].leader = r THEN [do |-> "succeed", team |-> g] ELSE Idle)
  /\ UNCHANGED <<status, leader, manager>>

\* SELECT ... ORDER BY join_time LIMIT 1: times are in seconds, and any member
\* may be the first.  A query that fails and a result without rows, which a
\* prepared SELECT always gives, are taken for a team without members.
selectSuccessor(t) ==
  LET g == op[t].team IN
  /\ Does(t, "succeed")
  /\ \/ Then(t, [do |-> "dissolve", team |-> g])
     \/ \E r \in member[g] : Then(t, [do |-> "transfer", team |-> g, role |-> r])
  /\ UNCHANGED <<tables, manager>>

\* The UPDATE of the leader or of the status; the team may not be in the table.
replaceLeader(t) ==
  LET g == op[t].team IN
  /\ op[t].do \in {"transfer", "dissolve"}
  /\ \/ UNCHANGED <<status, leader>>
     \/ /\ status[g] # "none" /\ Does(t, "transfer")
        /\ leader' = [leader EXCEPT ![g] = op[t].role]
        /\ UNCHANGED status
     \/ /\ status[g] # "none" /\ Does(t, "dissolve")
        /\ status' = [status EXCEPT ![g] = "dissolved"]
        /\ UNCHANGED leader
  /\ Then(t, Idle)
  /\ UNCHANGED <<member, manager>>

\* The leader may name any role, itself too.
kickMember(t, r, target) ==
  /\ op[t] = Idle
  /\ \E g \in getTeamByRole(r) :
       /\ teams_[g].leader = r
       /\ member' = [member EXCEPT ![g] = @ \ {target}]
  /\ UNCHANGED <<status, leader, manager, op>>

Init ==
  /\ status = [g \in Id |-> "none"]
  /\ leader = [g \in Id |-> CHOOSE r \in Role : TRUE]
  /\ member = [g \in Id |-> {}]
  /\ teams_ = [g \in Id |-> NoTeam] /\ roleTeams_ = [r \in Role |-> 0] /\ nextTeamId_ = 0
  /\ op = [t \in Thread |-> Idle]

Next ==
  \/ \E r \in Role : managerCreateTeam(r)
  \/ \E g \in Id : dissolveTeam(g) \/ \E r \in Role : addMember(g, r) \/ removeMember(g, r)
  \/ \E t \in Thread :
       \/ insertMember(t) \/ selectSuccessor(t) \/ replaceLeader(t)
       \/ \E r \in Role :
            \/ createTeam(t, r) \/ leaveTeam(t, r)
            \/ \E g \in Id : joinTeam(t, r, g)
            \/ \E target \in Role : kickMember(t, r, target)

Spec == Init /\ [][Next]_vars

-----------------------------------------------------------------------------
(* Properties. *)

\* Counting the members and inserting one are two statements, so requests that
\* overlap overfill a team; but however joins, exits and kicks follow each other
\* it never has more than one role too many for each of the other threads.
OverfullByOverlap ==
  \A g \in Id : Cardinality(member[g]) < Limit + Cardinality(Thread)
=============================================================================
