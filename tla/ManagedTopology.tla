--------------------------- MODULE ManagedTopology ---------------------------
(* One organization's projects in managed mode: the protected roots (the Inbox,
   the Public root, one Team root per team) and the work beneath them.
   Every change comes as an HTTP request. For ordinary work the gate
   (managed_gate.go, managed_rules_teams.go) looks at the tree in a database
   session of its own, closes it, and only then the handler (project.go) opens
   the transaction that reads the tree again and writes. Team management
   (brazn_organization.go) and the provisioning channel (brazn_topology.go) pass
   no gate of this kind and write the tree too.

   A transaction is the step that reads and the step that writes and commits;
   anything may happen in between. Serializable says which database is below:
   with SQLite in WAL mode (the default) a transaction that read before another
   one committed cannot write any more; with PostgreSQL and MySQL, at the
   isolation they start with, it can.                                          *)
EXTENDS ProjectTree, FiniteSets

CONSTANTS
  Requests,         \* HTTP requests in flight at one time
  MaxDepth,         \* maxTopologyDepth
  Serializable      \* TRUE: SQLite; FALSE: each statement sees what is committed

ASSUME DepthAssumption    == MaxDepth \in Nat \ {0}
ASSUME IsolationAssumption == Serializable \in BOOLEAN

VARIABLE
  request     \* what each request is doing

vars == <<live, unused, parent, role, commercial, request>>

\* No request, or one that has ended.
Idle == [op |-> "none", step |-> "idle", target |-> Top, dest |-> Top,
         team |-> None, doomed |-> {}]

\* The steps at which a request's transaction is open and has read.
Open == {"absent", "ready"}

-----------------------------------------------------------------------------
(* What the code asks of the tree *)

\* The walk up from p that CheckIsArchived and the cycle check make ends at the top.
Attached(p) == /\ Ancestors(p) \subseteq live
               /\ \E a \in Ancestors(p) : parent[a] = Top

\* requireManagedRoot: ProtectedRootOf takes at most MaxDepth steps.
Managed(p) == /\ Attached(p)
              /\ Cardinality(Ancestors(p)) <= MaxDepth
              /\ Ancestors(p) \cap SharedRoots # {}

-----------------------------------------------------------------------------
(* Requests *)

At(r, op, step) == request[r].op = op /\ request[r].step = step

IsIdle(r) == request[r].step = "idle"

Enter(r, fields) == request' = [request EXCEPT ![r] = fields]

\* The read step of a transaction is over.
Proceed(r) == request' = [request EXCEPT ![r].step = "ready"]

\* A commit of r: with SQLite it leaves the other open transactions stale.
After(r, x) == IF x = r THEN Idle
               ELSE IF Serializable /\ request[x].step \in Open
                    THEN [request[x] EXCEPT !.step = "stale"]
                    ELSE request[x]

Finish(r) == request' = [x \in Requests |-> After(r, x)]

UnchangedTree == UNCHANGED <<live, unused, parent, role, commercial>>

-----------------------------------------------------------------------------
(* The managed gate, in its own session *)

\* decideTeamsProjectCreate.
AdmitCreate(r, q) ==
  /\ IsIdle(r)
  /\ Managed(q)
  /\ Enter(r, [Idle EXCEPT !.op = "create", !.step = "admitted", !.dest = q])
  /\ UnchangedTree

\* decideTeamsProjectUpdate: a protected root cannot be moved.
AdmitMove(r, p, q) ==
  /\ IsIdle(r)
  /\ p \in live /\ role[p] = "none"
  /\ Managed(q)
  /\ Enter(r, [Idle EXCEPT !.op = "move", !.step = "admitted", !.target = p, !.dest = q])
  /\ UnchangedTree

\* decideTeamsProjectDelete: a protected root cannot be deleted.
AdmitDelete(r, p) ==
  /\ IsIdle(r)
  /\ role[p] = "none"
  /\ Managed(p)
  /\ Enter(r, [Idle EXCEPT !.op = "delete", !.step = "admitted", !.target = p])
  /\ UnchangedTree

-----------------------------------------------------------------------------
(* The handlers: what a transaction reads before it writes *)

\* A bug: the handler relies on what the gate saw.
CheckCreateTrustsGate(r) ==
  /\ At(r, "create", "admitted")
  /\ Proceed(r)
  /\ UnchangedTree

\* CreateProject: CheckIsArchived and the cycle check walk up from the parent.
CheckCreate(r) ==
  /\ At(r, "create", "admitted")
  /\ Attached(request[r].dest)
  /\ Proceed(r)
  /\ UnchangedTree

\* A bug: no cycle check.
CheckMoveAnywhere(r) ==
  /\ At(r, "move", "admitted")
  /\ request[r].target \in live
  /\ Attached(request[r].dest)
  /\ Proceed(r)
  /\ UnchangedTree

\* UpdateProject: the cycle check, and the stored project must exist.
CheckMove(r) ==
  /\ At(r, "move", "admitted")
  /\ request[r].target \in live
  /\ Attached(request[r].dest)
  /\ request[r].dest \notin Subtree(request[r].target)
  /\ Proceed(r)
  /\ UnchangedTree

\* Project.Delete collects the children level by level.
ScanProject(r) ==
  /\ At(r, "delete", "admitted")
  /\ request[r].target \in live
  /\ request' = [request EXCEPT ![r].step = "ready", ![r].doomed = Subtree(request[r].target)]
  /\ UnchangedTree

\* A bug: everything the team has access to goes with it.
DoomedWithAccess(p) == Subtree(p) \cup UNION {Subtree(q) : q \in PublicRoots}

\* What goes with a team: Team.Delete deletes no project.
DoomedWithTeam(p) == Subtree(p)

\* A bug: only the last team cannot be removed.
ScanTeamButTheLast(r, p) ==
  /\ IsIdle(r)
  /\ p \in TeamRoots
  /\ TeamRoots # {p}
  /\ Enter(r, [Idle EXCEPT !.op = "delete", !.step = "ready", !.target = p,
                           !.doomed = DoomedWithTeam(p)])
  /\ UnchangedTree

\* RemoveOrganizationTeam: any team root but the oldest.
ScanTeam(r, p) ==
  /\ IsIdle(r)
  /\ p \in TeamRoots
  /\ ~Primary(p)
  /\ Enter(r, [Idle EXCEPT !.op = "delete", !.step = "ready", !.target = p,
                           !.doomed = DoomedWithTeam(p)])
  /\ UnchangedTree

\* A bug: the look-up finds the organization's oldest root only.
LookUpPrimaryRoot(r, c) ==
  /\ IsIdle(r)
  /\ \A p \in TeamRoots : Primary(p) => commercial[p] # c
  /\ Enter(r, [Idle EXCEPT !.op = "roots", !.step = "absent", !.team = c])
  /\ UnchangedTree

\* provisionedTeamRoot: a team that has its root keeps it, and that root is the
\* answer; only a team without one goes on.
LookUpTeamRoot(r, c) ==
  /\ IsIdle(r)
  /\ \A p \in TeamRoots : commercial[p] # c
  /\ Enter(r, [Idle EXCEPT !.op = "roots", !.step = "absent", !.team = c])
  /\ UnchangedTree

\* A bug: a Public root for every team.
LookUpNoPublicRoot(r) ==
  /\ At(r, "roots", "absent")
  /\ Proceed(r)
  /\ UnchangedTree

\* ensurePublicRoot: dest is the Public root there is, Top when there is none.
LookUpPublicRoot(r) ==
  /\ At(r, "roots", "absent")
  /\ \E q \in PublicRoots \cup {Top} :
       /\ q = Top => PublicRoots = {}
       /\ request' = [request EXCEPT ![r].step = "ready", ![r].dest = q]
  /\ UnchangedTree

-----------------------------------------------------------------------------
(* The handlers: what a transaction writes, and its commit *)

CommitCreate(r, p) ==
  /\ At(r, "create", "ready")
  /\ NextId(p)
  /\ live' = live \cup {p}
  /\ unused' = unused \ {p}
  /\ parent' = [parent EXCEPT ![p] = request[r].dest]
  /\ Finish(r)
  /\ UNCHANGED <<role, commercial>>

\* An UPDATE of a row that is gone writes nothing, and the read after it fails.
CommitMove(r) ==
  /\ At(r, "move", "ready")
  /\ request[r].target \in live
  /\ parent' = [parent EXCEPT ![request[r].target] = request[r].dest]
  /\ Finish(r)
  /\ UNCHANGED <<live, unused, role, commercial>>

\* A bug: the protected row of a removed team stays behind.
CommitDeleteKeepsRow(r) ==
  /\ At(r, "delete", "ready")
  /\ live' = live \ request[r].doomed
  /\ parent' = [p \in Projects |-> IF p \in request[r].doomed THEN Top ELSE parent[p]]
  /\ Finish(r)
  /\ UNCHANGED <<unused, role, commercial>>

\* A removed team's protected row goes with its root.
CommitDelete(r) ==
  LET Keep(f, none) == [p \in Projects |-> IF p \in request[r].doomed THEN none ELSE f[p]]
  IN /\ At(r, "delete", "ready")
     /\ live' = live \ request[r].doomed
     /\ parent' = Keep(parent, Top)
     /\ role' = Keep(role, "none")
     /\ commercial' = Keep(commercial, None)
     /\ Finish(r)
     /\ UNCHANGED unused

\* CreateOrganizationTeam reads nothing that matters before it writes.
CommitTeam(r, p) ==
  /\ IsIdle(r)
  /\ NextId(p)
  /\ live' = live \cup {p}
  /\ unused' = unused \ {p}
  /\ role' = [role EXCEPT ![p] = "team"]
  /\ Finish(r)
  /\ UNCHANGED <<parent, commercial>>

\* provisionTeamRoots when the organization has its Public root.
CommitTeamRoot(r, p) ==
  /\ At(r, "roots", "ready")
  /\ request[r].dest # Top
  /\ NextId(p)
  /\ live' = live \cup {p}
  /\ unused' = unused \ {p}
  /\ role' = [role EXCEPT ![p] = "team"]
  /\ commercial' = [commercial EXCEPT ![p] = request[r].team]
  /\ Finish(r)
  /\ UNCHANGED parent

\* provisionTeamRoots when it has none: both roots, the Team root first.
CommitBothRoots(r, p, q) ==
  /\ At(r, "roots", "ready")
  /\ request[r].dest = Top
  /\ NextId(p)
  /\ q \in unused \ {p} /\ \A x \in unused \ {p} : q <= x
  /\ live' = live \cup {p, q}
  /\ unused' = unused \ {p, q}
  /\ role' = [role EXCEPT ![p] = "team", ![q] = "public"]
  /\ commercial' = [commercial EXCEPT ![p] = request[r].team]
  /\ Finish(r)
  /\ UNCHANGED parent

\* A refusal, an error, a rollback, a client that is gone.
Fail(r) ==
  /\ ~IsIdle(r)
  /\ Enter(r, Idle)
  /\ UnchangedTree

-----------------------------------------------------------------------------
Init ==
  /\ TreeInit
  /\ request = [r \in Requests |-> Idle]

Step(r) ==
  \/ CheckCreate(r) \/ CheckMove(r) \/ ScanProject(r)
  \/ LookUpPublicRoot(r) \/ CommitMove(r) \/ CommitDelete(r) \/ Fail(r)
  \/ \E p \in Projects : \/ AdmitCreate(r, p) \/ AdmitDelete(r, p) \/ ScanTeam(r, p)
                         \/ CommitCreate(r, p) \/ CommitTeam(r, p) \/ CommitTeamRoot(r, p)
  \/ \E p, q \in Projects : AdmitMove(r, p, q) \/ CommitBothRoots(r, p, q)
  \/ \E c \in CommercialTeams : LookUpTeamRoot(r, c)

Next == \E r \in Requests : Step(r)

Spec == Init /\ [][Next]_vars

-----------------------------------------------------------------------------
(* Properties *)

StateTypeOK ==
  /\ live \subseteq Projects
  /\ unused \subseteq Projects
  /\ parent \in [Projects -> Projects \cup {Top}]
  /\ role \in [Projects -> Roles]
  /\ commercial \in [Projects -> CommercialTeams \cup {None}]

RequestTypeOK ==
  request \in [Requests ->
    [op : {"none", "create", "move", "delete", "roots"},
     step : {"idle", "admitted", "absent", "ready", "stale"},
     target : Projects \cup {Top}, dest : Projects \cup {Top},
     team : CommercialTeams \cup {None}, doomed : SUBSET Projects]]

\* What is gone or was never there has no place, no protected row and no team:
\* "a protected entity naming a project that no longer exists" is the worse
\* half-done removal (brazn_organization.go:384-388).
RowsResolve ==
  /\ live \cap unused = {}
  /\ \A p \in Projects \ live : parent[p] = Top /\ role[p] = "none" /\ commercial[p] = None

TypeOK == StateTypeOK /\ RequestTypeOK /\ RowsResolve

\* Every project that is not a protected root sits beneath a Team or Public root
\* that is there (decideTeamsProjectUpdate: "wherever this project sits once the
\* request has been applied, that place must be beneath a Team or Public root"):
\* no orphan, no cycle, nothing in an Inbox, however requests interleave.
WorkIsRooted == \A p \in live : role[p] = "none" => Ancestors(p) \cap SharedRoots # {}

\* However often and however concurrently create_team_roots is called for a team,
\* the team has one root ("A REPEAT ANSWERS WITH THE FIRST CALL'S REFERENCES").
OneRootPerTeam ==
  \A p, q \in TeamRoots : commercial[p] = commercial[q] /\ commercial[p] # None => p = q

\* "ONE PER ORGANIZATION, not one per team" (ensurePublicRoot).
OnePublicRoot == \A p, q \in PublicRoots : p = q

\* What a commit takes away is one project that is not the Inbox or the Public
\* root, and what is beneath it at that moment, "and NOTHING ELSE"
\* (RemoveOrganizationTeam): a project moved away before survives.
NothingElse ==
  [][live \ live' = {} \/ \E t \in live : /\ role[t] \in {"none", "team"}
                                          /\ live \ live' = Subtree(t)]_vars

\* The oldest team is the primary one for good: "which of these is the primary
\* team must have exactly one answer" (primaryTeamRoot), and it is never removed
\* ("The primary team is refused outright", RemoveOrganizationTeam), although who
\* is the oldest is read before the removal is written.
PrimaryTeamStays == [][\A p \in Projects : Primary(p) => Primary(p)']_vars

\* Where an overtaken transaction cannot commit, all the gates, reads and writes
\* amount to a tree that changes in one step, by rules asked of the tree as it is
\* then: the gate's answer may be late, but no commit makes use of a late one.
Tree == INSTANCE OrganizationTree

ImplementsTree == Tree!Spec
=============================================================================
