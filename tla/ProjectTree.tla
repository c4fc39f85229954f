----------------------------- MODULE ProjectTree -----------------------------
(* One organization's projects as the tables hold them, and what the code means
   by a project's subtree, the shared roots and the primary team.             *)
EXTENDS Naturals

CONSTANTS
  Projects,         \* projects.id, handed out in increasing order, never twice
  Inbox,            \* one member's Inbox, there from the start
  CommercialTeams,  \* the team ids the commercial service names
  None              \* no commercial team id: the team was added by the administrator

ASSUME ProjectsAssumption == Projects \subseteq Nat \ {0} /\ Inbox \in Projects
ASSUME TeamsAssumption    == None \notin CommercialTeams

VARIABLES
  live,       \* rows of the table projects
  unused,     \* ids the sequence has not handed out yet
  parent,     \* projects.parent_project_id
  role,       \* brazn_protected_entities.kind of the project's row, or "none"
  commercial  \* brazn_protected_entities.commercial_team_id

Top == 0  \* parent_project_id of a project at the top level

Roles == {"none", "inbox", "public", "team"}

ClosedBelow(S) == \A c \in live : parent[c] \in S => c \in S

\* a and what was put beneath it, directly or not.
Subtree(a) == {p \in Projects : \A S \in SUBSET Projects : a \in S /\ ClosedBelow(S) => p \in S}

\* p and the projects on the way from it to the top.
Ancestors(p) == {a \in Projects : p \in Subtree(a)}

SharedRoots == {p \in live : parent[p] = Top /\ role[p] \in {"public", "team"}}

TeamRoots == {p \in Projects : role[p] = "team"}
PublicRoots == {p \in Projects : role[p] = "public"}

\* primaryTeamRoot: the oldest.
Primary(p) == p \in TeamRoots /\ \A q \in TeamRoots : p <= q

\* The id an INSERT into projects gets.
NextId(p) == p \in unused /\ \A q \in unused : p <= q

\* One member's Inbox, and nothing else yet.
TreeInit ==
  /\ live = {Inbox}
  /\ unused = Projects \ {Inbox}
  /\ parent = [p \in Projects |-> Top]
  /\ role = [p \in Projects |-> IF p = Inbox THEN "inbox" ELSE "none"]
  /\ commercial = [p \in Projects |-> None]
=============================================================================
