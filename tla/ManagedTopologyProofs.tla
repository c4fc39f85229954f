----------------------- MODULE ManagedTopologyProofs -----------------------
(* What holds of the managed topology for every set of projects, teams and
   requests and every depth limit. TypeCorrect needs no isolation; the rest
   holds where a transaction that was overtaken cannot commit (Serializable),
   and on the other databases as long as none is overtaken (Isolated).
   No induction over the tree is needed: Subtree is the least closed set, so
   each step is argued by turning a set closed after it into one closed before. *)
EXTENDS ManagedTopology, TLAPS

-----------------------------------------------------------------------------
(* The tree *)

LEMMA SelfBelow == \A p \in Projects : p \in Subtree(p)
  BY DEF Subtree

LEMMA SubtreeClosed ==
  ASSUME live \subseteq Projects, NEW a PROVE ClosedBelow(Subtree(a))
<1>1. SUFFICES ASSUME NEW c \in live, parent[c] \in Subtree(a),
                      NEW S \in SUBSET Projects, a \in S, ClosedBelow(S)
               PROVE  c \in S
  BY DEF ClosedBelow, Subtree
<1>2. parent[c] \in S
  BY <1>1 DEF Subtree
<1>. QED  BY <1>1, <1>2 DEF ClosedBelow

LEMMA SubtreeLeast ==
  ASSUME NEW a, NEW S \in SUBSET Projects, a \in S, ClosedBelow(S) PROVE Subtree(a) \subseteq S
  BY DEF Subtree

LEMMA SubtreeTransitive ==
  ASSUME live \subseteq Projects, NEW a, NEW b \in Subtree(a) PROVE Subtree(b) \subseteq Subtree(a)
  BY SubtreeClosed, SubtreeLeast DEF Subtree

\* A project at the top is beneath itself only.
LEMMA TopIsBeneathItself ==
  ASSUME live \subseteq Projects, NEW p \in Projects, parent[p] = Top, NEW a \in Projects, p \in Subtree(a)
  PROVE  a = p
<1>1. ClosedBelow(Projects \ {p})
  BY ProjectsAssumption DEF ClosedBelow, Top
<1>. QED  BY <1>1, SubtreeLeast

\* Work is rooted when it is beneath a root that is shared.
Rooted(p) == \E a \in SharedRoots : p \in Subtree(a)

LEMMA RootedDef ==
  ASSUME live \subseteq Projects, NEW p
  PROVE  Ancestors(p) \cap SharedRoots # {} <=> Rooted(p)
  BY DEF Rooted, Ancestors, SharedRoots

\* New projects leave what was beneath a project beneath it.
LEMMA GrowKeeps ==
  ASSUME live \subseteq live', \A c \in live : parent'[c] = parent[c], NEW a
  PROVE  Subtree(a) \subseteq Subtree(a)'
<1>1. SUFFICES ASSUME NEW x \in Subtree(a), NEW S \in SUBSET Projects, a \in S, ClosedBelow(S)'
               PROVE  x \in S
  BY DEF Subtree
<1>2. ClosedBelow(S)
  BY <1>1 DEF ClosedBelow
<1>. QED  BY <1>1, <1>2 DEF Subtree

\* A removal leaves the rest where it was.
LEMMA EraseKeeps ==
  ASSUME live \subseteq Projects, NEW t, live' = live \ Subtree(t),
         \A c \in live' : parent'[c] = parent[c],
         NEW a, NEW x \in Subtree(a), x \notin Subtree(t)
  PROVE  x \in Subtree(a)'
<1>1. SUFFICES ASSUME NEW S \in SUBSET Projects, a \in S, ClosedBelow(S)'
               PROVE  x \in S
  BY DEF Subtree
<1>2. ClosedBelow(S \cup Subtree(t))
  BY <1>1, SubtreeClosed DEF ClosedBelow
<1>3. x \in S \cup Subtree(t)
  BY <1>1, <1>2, SubtreeLeast DEF Subtree
<1>. QED  BY <1>3

\* A move leaves what is not beneath the moved project where it was ...
LEMMA MoveKeeps ==
  ASSUME StateTypeOK, NEW t \in Projects, NEW q, live' = live, parent' = [parent EXCEPT ![t] = q],
         NEW a, NEW x \in Subtree(a), x \notin Subtree(t)
  PROVE  x \in Subtree(a)'
<1>1. SUFFICES ASSUME NEW S \in SUBSET Projects, a \in S, ClosedBelow(S)'
               PROVE  x \in S
  BY DEF Subtree
<1>2. \A c \in live : c # t => parent'[c] = parent[c]
  BY DEF StateTypeOK
<1>3. ClosedBelow(Subtree(t))
  BY SubtreeClosed DEF StateTypeOK
<1>4. t \in Subtree(t)
  BY SelfBelow
<1>5. ClosedBelow(S \cup Subtree(t))
  BY <1>1, <1>2, <1>3, <1>4 DEF ClosedBelow
<1>6. x \in S \cup Subtree(t)
  BY <1>1, <1>5, SubtreeLeast DEF Subtree
<1>. QED  BY <1>6

\* ... and takes what is beneath it along.
LEMMA MoveCarries ==
  ASSUME StateTypeOK, NEW t \in live, NEW q \in Projects, live' = live, parent' = [parent EXCEPT ![t] = q],
         NEW b, q \in Subtree(b)', NEW x \in Subtree(t)
  PROVE  x \in Subtree(b)'
<1>1. SUFFICES ASSUME NEW S \in SUBSET Projects, b \in S, ClosedBelow(S)'
               PROVE  x \in S
  BY DEF Subtree
<1>2. \A c \in live : c # t => parent'[c] = parent[c]
  BY DEF StateTypeOK
<1>3. q \in S
  BY <1>1 DEF Subtree
<1>4. t \in S
  BY <1>1, <1>3 DEF ClosedBelow, StateTypeOK
<1>5. ClosedBelow(S)
  BY <1>1, <1>2, <1>4 DEF ClosedBelow
<1>. QED  BY <1>1, <1>4, <1>5 DEF Subtree

-----------------------------------------------------------------------------
(* Types *)

Fields == [op : {"none", "create", "move", "delete", "roots"},
           step : {"idle", "admitted", "absent", "ready", "stale"},
           target : Projects \cup {Top}, dest : Projects \cup {Top},
           team : CommercialTeams \cup {None}, doomed : SUBSET Projects]

LEMMA IdleType == Idle \in Fields
  BY DEF Idle, Fields

\* The step of one request, alone or as a commit that leaves others stale.
LEMMA FinishType ==
  ASSUME RequestTypeOK, NEW r \in Requests, Finish(r) PROVE RequestTypeOK'
<1>1. ASSUME NEW x \in Requests PROVE After(r, x) \in Fields
  <2>1. request[x] \in Fields
    BY DEF RequestTypeOK, Fields
  <2>2. [request[x] EXCEPT !.step = "stale"] \in Fields
    BY <2>1 DEF Fields
  <2>. QED  BY <2>1, <2>2, IdleType DEF After
<1>. QED  BY <1>1 DEF Finish, RequestTypeOK, Fields

LEMMA EnterType ==
  ASSUME RequestTypeOK, NEW r \in Requests, NEW f \in Fields, Enter(r, f) PROVE RequestTypeOK'
  BY DEF RequestTypeOK, Enter, Fields

\* Reads change no table.
LEMMA ReadTypes ==
  ASSUME TypeOK, RequestTypeOK', UnchangedTree PROVE TypeOK'
  BY DEF TypeOK, StateTypeOK, RowsResolve, UnchangedTree

\* The ids S an INSERT uses are used up.
Inserted(S) ==
  /\ S \subseteq unused
  /\ live' = live \cup S /\ unused' = unused \ S
  /\ parent' \in [Projects -> Projects \cup {Top}] /\ role' \in [Projects -> Roles]
  /\ commercial' \in [Projects -> CommercialTeams \cup {None}]
  /\ \A x \in Projects \ S : parent'[x] = parent[x] /\ role'[x] = role[x] /\ commercial'[x] = commercial[x]

LEMMA InsertTypes ==
  ASSUME StateTypeOK, RowsResolve, NEW S, Inserted(S)
  PROVE  StateTypeOK' /\ RowsResolve'
  BY DEF StateTypeOK, RowsResolve, Inserted

LEMMA StepTypes ==
  ASSUME TypeOK, NEW r \in Requests, Step(r) PROVE TypeOK'
<1>. USE DEF TypeOK
<1>0. request[r] \in Fields
  BY DEF RequestTypeOK, Fields
<1>1. CASE CheckCreate(r) \/ CheckMove(r)
  <2>1. RequestTypeOK'
    BY <1>1, <1>0 DEF CheckCreate, CheckMove, Proceed, RequestTypeOK, Fields
  <2>. QED  BY <2>1, <1>1, ReadTypes DEF CheckCreate, CheckMove
<1>2. CASE ScanProject(r)
  <2>1. RequestTypeOK'
    BY <1>2, <1>0 DEF ScanProject, Subtree, RequestTypeOK, Fields
  <2>. QED  BY <2>1, <1>2, ReadTypes DEF ScanProject
<1>3. CASE LookUpPublicRoot(r)
  <2>0. PICK q \in Projects \cup {Top} :
          request' = [request EXCEPT ![r].step = "ready", ![r].dest = q]
    BY <1>3 DEF LookUpPublicRoot, PublicRoots
  <2>1. RequestTypeOK'
    BY <2>0, <1>0 DEF RequestTypeOK, Fields
  <2>. QED  BY <2>1, <1>3, ReadTypes DEF LookUpPublicRoot
<1>4. CASE Fail(r)
  BY <1>4, IdleType, EnterType, ReadTypes DEF Fail
<1>5. ASSUME NEW p \in Projects, AdmitCreate(r, p) \/ AdmitDelete(r, p) \/ ScanTeam(r, p) PROVE TypeOK'
  <2>1. [Idle EXCEPT !.op = "create", !.step = "admitted", !.dest = p] \in Fields
    BY DEF Idle, Fields
  <2>2. [Idle EXCEPT !.op = "delete", !.step = "admitted", !.target = p] \in Fields
    BY DEF Idle, Fields
  <2>3. [Idle EXCEPT !.op = "delete", !.step = "ready", !.target = p, !.doomed = DoomedWithTeam(p)] \in Fields
    BY DEF Idle, Fields, DoomedWithTeam, Subtree
  <2>. QED  BY <1>5, <2>1, <2>2, <2>3, EnterType, ReadTypes DEF AdmitCreate, AdmitDelete, ScanTeam
<1>6. ASSUME NEW p \in Projects, NEW q \in Projects, AdmitMove(r, p, q) PROVE TypeOK'
  <2>1. [Idle EXCEPT !.op = "move", !.step = "admitted", !.target = p, !.dest = q] \in Fields
    BY DEF Idle, Fields
  <2>. QED  BY <1>6, <2>1, EnterType, ReadTypes DEF AdmitMove
<1>7. ASSUME NEW c \in CommercialTeams, LookUpTeamRoot(r, c) PROVE TypeOK'
  <2>1. [Idle EXCEPT !.op = "roots", !.step = "absent", !.team = c] \in Fields
    BY DEF Idle, Fields
  <2>. QED  BY <1>7, <2>1, EnterType, ReadTypes DEF LookUpTeamRoot
<1>8. CASE CommitMove(r)
  <2>1. RequestTypeOK'
    BY <1>8, FinishType DEF CommitMove
  <2>2. StateTypeOK' /\ RowsResolve'
    BY <1>8, <1>0 DEF CommitMove, StateTypeOK, RowsResolve, Fields
  <2>. QED  BY <2>1, <2>2
<1>9. CASE CommitDelete(r)
  <2>1. RequestTypeOK'
    BY <1>9, FinishType DEF CommitDelete
  <2>2. StateTypeOK'
    BY <1>9 DEF CommitDelete, StateTypeOK, Roles
  <2>3. RowsResolve'
    BY <1>9 DEF CommitDelete, StateTypeOK, RowsResolve
  <2>. QED  BY <2>1, <2>2, <2>3
<1>10. ASSUME NEW p \in Projects, CommitCreate(r, p) PROVE TypeOK'
  <2>1. RequestTypeOK'
    BY <1>10, FinishType DEF CommitCreate
  <2>2. /\ {p} \subseteq unused /\ live' = live \cup {p} /\ unused' = unused \ {p}
        /\ parent' \in [Projects -> Projects \cup {Top}]
        /\ \A x \in Projects \ {p} : parent'[x] = parent[x]
        /\ role' = role /\ commercial' = commercial
    BY <1>10, <1>0 DEF CommitCreate, NextId, StateTypeOK, Fields
  <2>3. Inserted({p})
    BY <2>2 DEF StateTypeOK, Inserted
  <2>. QED  BY <2>1, <2>3, InsertTypes
<1>11. ASSUME NEW p \in Projects, CommitTeam(r, p) \/ CommitTeamRoot(r, p) PROVE TypeOK'
  <2>1. RequestTypeOK'
    BY <1>11, FinishType DEF CommitTeam, CommitTeamRoot
  <2>2. /\ {p} \subseteq unused /\ live' = live \cup {p} /\ unused' = unused \ {p}
        /\ parent' = parent
    BY <1>11 DEF CommitTeam, CommitTeamRoot, NextId
  <2>3. role' \in [Projects -> Roles] /\ \A x \in Projects \ {p} : role'[x] = role[x]
    BY <1>11 DEF CommitTeam, CommitTeamRoot, StateTypeOK, Roles
  <2>4. /\ commercial' \in [Projects -> CommercialTeams \cup {None}]
        /\ \A x \in Projects \ {p} : commercial'[x] = commercial[x]
    BY <1>11, <1>0 DEF CommitTeam, CommitTeamRoot, StateTypeOK, Fields
  <2>5. Inserted({p})
    BY <2>2, <2>3, <2>4 DEF StateTypeOK, Inserted
  <2>. QED  BY <2>1, <2>5, InsertTypes
<1>12. ASSUME NEW p \in Projects, NEW q \in Projects, CommitBothRoots(r, p, q) PROVE TypeOK'
  <2>1. RequestTypeOK'
    BY <1>12, FinishType DEF CommitBothRoots
  <2>2. {p, q} \subseteq unused
    BY <1>12 DEF CommitBothRoots, NextId
  <2>3. role' \in [Projects -> Roles] /\ commercial' \in [Projects -> CommercialTeams \cup {None}]
    BY <1>12, <1>0 DEF CommitBothRoots, StateTypeOK, Fields, Roles
  <2>4. /\ live' = live \cup {p, q} /\ unused' = unused \ {p, q} /\ parent' = parent
        /\ \A x \in Projects \ {p, q} : role'[x] = role[x] /\ commercial'[x] = commercial[x]
    BY <1>12 DEF CommitBothRoots, StateTypeOK
  <2>5. Inserted({p, q})
    BY <2>2, <2>3, <2>4 DEF StateTypeOK, Inserted
  <2>. QED  BY <2>1, <2>5, InsertTypes
<1>. QED
  BY <1>1, <1>2, <1>3, <1>4, <1>5, <1>6, <1>7, <1>8, <1>9, <1>10, <1>11, <1>12 DEF Step

LEMMA InitTypes == Init => TypeOK
<1>1. SUFFICES ASSUME Init PROVE TypeOK
  OBVIOUS
<1>2. StateTypeOK /\ RowsResolve
  BY <1>1, ProjectsAssumption DEF Init, TreeInit, StateTypeOK, RowsResolve, Roles
<1>3. RequestTypeOK
  BY <1>1, IdleType DEF Init, RequestTypeOK, Fields
<1>. QED  BY <1>2, <1>3 DEF TypeOK

\* Every variable keeps its type and no row of a project that is gone stays
\* behind, on every database.
THEOREM TypeCorrect == Spec => []TypeOK
<1>1. TypeOK /\ [Next]_vars => TypeOK'
  <2>1. SUFFICES ASSUME TypeOK, [Next]_vars PROVE TypeOK'
    OBVIOUS
  <2>2. CASE Next
    BY <2>1, <2>2, StepTypes DEF Next
  <2>3. CASE UNCHANGED vars
    BY <2>1, <2>3 DEF vars, TypeOK, StateTypeOK, RequestTypeOK, RowsResolve
  <2>. QED  BY <2>1, <2>2, <2>3
<1>. QED  BY InitTypes, <1>1, PTL DEF Spec

-----------------------------------------------------------------------------
(* The inductive invariant. A request that the gate let pass knows of its
   parent only that it is not an Inbox, of its target that it is no root. A
   transaction that has read, and was not overtaken, knows the tree as it is. *)

RootsAreOnTop == \A p \in Projects : role[p] # "none" => p \in live /\ parent[p] = Top

Rootedness == \A p \in live : role[p] = "none" => Rooted(p)

\* What the gate saw and nobody can undo.
Admitted(r) ==
  /\ request[r].op \in {"create", "move"} /\ request[r].step \in {"admitted", "ready"} =>
       request[r].dest \in Projects /\ role[request[r].dest] # "inbox"
  /\ request[r].op \in {"move", "delete"} /\ request[r].step = "admitted" =>
       request[r].target \in Projects \ unused /\ role[request[r].target] = "none"

\* What an open transaction has read and is still so.
HasRead(r) ==
  /\ At(r, "create", "ready") => request[r].dest \in live
  /\ At(r, "move", "ready") =>
       /\ request[r].target \in live /\ role[request[r].target] = "none"
       /\ request[r].dest \in live \ Subtree(request[r].target)
  /\ At(r, "delete", "ready") =>
       /\ request[r].target \in live /\ role[request[r].target] \in {"none", "team"}
       /\ request[r].doomed = Subtree(request[r].target)
       /\ ~Primary(request[r].target)
  /\ request[r].op = "roots" /\ request[r].step \in Open =>
       request[r].team \in CommercialTeams /\ \A p \in TeamRoots : commercial[p] # request[r].team
  /\ At(r, "roots", "ready") =>
       IF request[r].dest = Top THEN PublicRoots = {} ELSE request[r].dest \in PublicRoots

RequestOK(r) == Admitted(r) /\ HasRead(r)

TreeOK == RootsAreOnTop /\ Rootedness /\ OneRootPerTeam /\ OnePublicRoot

IInv == TypeOK /\ TreeOK /\ \A r \in Requests : RequestOK(r)

LEMMA IdleOK ==
  ASSUME NEW r \in Requests, request[r].op = "none" PROVE RequestOK(r)
  BY DEF RequestOK, Admitted, HasRead, At

\* A step that reads: the tree stays, and only its own request moves.
LEMMA ReadKeeps ==
  ASSUME IInv, TypeOK', UnchangedTree, NEW r \in Requests,
         \A x \in Requests : x # r => request'[x] = request[x], RequestOK(r)'
  PROVE  IInv'
<1>1. TreeOK'
  BY DEF IInv, TreeOK, UnchangedTree, RootsAreOnTop, Rootedness, Rooted, SharedRoots, Subtree, ClosedBelow,
         OneRootPerTeam, OnePublicRoot, TeamRoots, PublicRoots
<1>2. ASSUME NEW x \in Requests, x # r PROVE RequestOK(x)'
  <2>1. RequestOK(x) /\ request'[x] = request[x]
    BY <1>2 DEF IInv
  <2>. QED
    BY <2>1 DEF RequestOK, Admitted, HasRead, At, UnchangedTree, Subtree, ClosedBelow, Primary, TeamRoots,
           PublicRoots
<1>. QED  BY <1>1, <1>2 DEF IInv

\* No transaction that has read lives on, unaware, after the tree has changed:
\* those that were open end with the step or can only fail.
NoneOvertaken ==
  UnchangedTree \/ \A x \in Requests : request[x].step \in Open => request'[x] # request[x]

\* SQLite, or a database that happens to run no transaction into another's.
Isolated == Serializable \/ [][NoneOvertaken]_vars

\* A step that commits: no project becomes an Inbox, none that was handed out
\* becomes a root, and transactions that had read can only fail.
LEMMA CommitKeeps ==
  ASSUME NoneOvertaken, IInv, TypeOK', TreeOK', NEW r \in Requests, Finish(r), unused' \subseteq unused,
         \A p \in Projects : role'[p] = "inbox" => role[p] = "inbox",
         \A p \in Projects \ unused : role[p] = "none" => role'[p] = "none"
  PROVE  IInv'
<1>1. ASSUME NEW x \in Requests PROVE RequestOK(x)'
  <2>1. request'[x] = After(r, x)
    BY DEF Finish
  <2>2. request[x] \in Fields /\ RequestOK(x)
    BY DEF IInv, TypeOK, RequestTypeOK, Fields
  <2>3. CASE x = r
    BY <2>1, <2>3 DEF After, Idle, RequestOK, Admitted, HasRead, At
  <2>4. CASE x # r /\ request[x].step \in Open
    <3>1. CASE request'[x] # request[x]
      <4>1. request'[x].step = "stale"
        BY <2>1, <2>2, <2>4, <3>1 DEF After, Fields
      <4>. QED  BY <4>1 DEF RequestOK, Admitted, HasRead, At, Open
    <3>2. CASE request'[x] = request[x]
      <4>1. UnchangedTree
        BY <2>4, <3>2 DEF NoneOvertaken
      <4>. QED
        BY <2>2, <3>2, <4>1 DEF RequestOK, Admitted, HasRead, At, UnchangedTree, Subtree, ClosedBelow, Primary,
               TeamRoots, PublicRoots
    <3>. QED  BY <3>1, <3>2
  <2>5. CASE x # r /\ request[x].step \notin Open
    <3>1. request'[x] = request[x]
      BY <2>1, <2>5 DEF After
    <3>2. Admitted(x)'
      BY <2>2, <3>1 DEF RequestOK, Admitted
    <3>. QED  BY <3>1, <3>2, <2>5 DEF RequestOK, HasRead, At, Open
  <2>. QED  BY <2>3, <2>4, <2>5
<1>. QED  BY <1>1 DEF IInv

\* A place the gate and the walk of the handler accept is one for work.
LEMMA ManagedIsShared ==
  ASSUME IInv, NEW p \in Projects, Managed(p) PROVE p \in live /\ role[p] # "inbox"
<1>1. p \in live
  BY SelfBelow DEF Managed, Attached, Ancestors
<1>2. PICK a \in SharedRoots : p \in Subtree(a)
  BY DEF Managed, Ancestors
<1>3. role[p] = "inbox" => a = p
  BY <1>2, TopIsBeneathItself DEF SharedRoots, IInv, TreeOK, RootsAreOnTop, TypeOK, StateTypeOK
<1>. QED  BY <1>1, <1>2, <1>3 DEF SharedRoots

LEMMA AttachedIsLive ==
  ASSUME NEW p \in Projects, Attached(p) PROVE p \in live
  BY SelfBelow DEF Attached, Ancestors

\* Whatever is not an Inbox is beneath a shared root, roots themselves included.
LEMMA SharedIsRooted ==
  ASSUME IInv, NEW p \in live, role[p] # "inbox" PROVE Rooted(p)
<1>1. CASE role[p] = "none"
  BY <1>1 DEF IInv, TreeOK, Rootedness
<1>2. CASE role[p] # "none"
  <2>1. p \in SharedRoots
    BY <1>2 DEF IInv, TreeOK, RootsAreOnTop, SharedRoots, TypeOK, StateTypeOK, Roles
  <2>2. p \in Subtree(p)
    BY SelfBelow DEF IInv, TypeOK, StateTypeOK
  <2>. QED  BY <2>1, <2>2 DEF Rooted
<1>. QED  BY <1>1, <1>2

-----------------------------------------------------------------------------
(* The steps *)

LEMMA SameSubtree ==
  ASSUME UnchangedTree, NEW a PROVE Subtree(a)' = Subtree(a)
  BY DEF UnchangedTree, Subtree, ClosedBelow

LEMMA SamePrimary ==
  ASSUME UnchangedTree, NEW p PROVE Primary(p)' <=> Primary(p)
  BY DEF UnchangedTree, Primary, TeamRoots

LEMMA GateSteps ==
  ASSUME IInv, TypeOK', NEW r \in Requests, NEW p \in Projects, NEW q \in Projects,
         AdmitCreate(r, p) \/ AdmitDelete(r, p) \/ AdmitMove(r, p, q)
  PROVE  IInv'
<1>. USE DEF IInv, TypeOK, RequestTypeOK, RequestOK, Admitted, HasRead, At, Idle, Open
<1>0. IInv /\ TypeOK'
  OBVIOUS
<1>1. CASE AdmitCreate(r, p)
  <2>1. p \in live /\ role[p] # "inbox"
    BY <1>0, <1>1, ManagedIsShared DEF AdmitCreate
  <2>2. UnchangedTree /\ \A x \in Requests : x # r => request'[x] = request[x]
    BY <1>1 DEF AdmitCreate, Enter
  <2>3. RequestOK(r)'
    BY <1>1, <2>1 DEF AdmitCreate, Enter, UnchangedTree
  <2>. QED  BY <1>0, <2>2, <2>3, ReadKeeps
<1>2. CASE AdmitDelete(r, p)
  <2>1. p \in live
    BY <1>0, <1>2, ManagedIsShared DEF AdmitDelete
  <2>2. UnchangedTree /\ \A x \in Requests : x # r => request'[x] = request[x]
    BY <1>2 DEF AdmitDelete, Enter
  <2>3. RequestOK(r)'
    BY <1>2, <2>1 DEF AdmitDelete, Enter, UnchangedTree, RowsResolve
  <2>. QED  BY <1>0, <2>2, <2>3, ReadKeeps
<1>3. CASE AdmitMove(r, p, q)
  <2>1. q \in live /\ role[q] # "inbox"
    BY <1>0, <1>3, ManagedIsShared DEF AdmitMove
  <2>2. UnchangedTree /\ \A x \in Requests : x # r => request'[x] = request[x]
    BY <1>3 DEF AdmitMove, Enter
  <2>3. RequestOK(r)'
    BY <1>3, <2>1 DEF AdmitMove, Enter, UnchangedTree, RowsResolve
  <2>. QED  BY <1>0, <2>2, <2>3, ReadKeeps
<1>. QED  BY <1>1, <1>2, <1>3

LEMMA ReadSteps ==
  ASSUME IInv, TypeOK', NEW r \in Requests,
         CheckCreate(r) \/ CheckMove(r) \/ ScanProject(r) \/ LookUpPublicRoot(r) \/ Fail(r)
  PROVE  IInv'
<1>1. UnchangedTree /\ \A x \in Requests : x # r => request'[x] = request[x]
  BY DEF CheckCreate, CheckMove, ScanProject, LookUpPublicRoot, Fail, Proceed, Enter,
         IInv, TypeOK, RequestTypeOK
<1>2. RequestOK(r) /\ request[r] \in Fields
  BY DEF IInv, TypeOK, RequestTypeOK, Fields
<1>3. CASE CheckCreate(r)
  <2>1. /\ At(r, "create", "admitted") /\ Attached(request[r].dest)
        /\ request'[r] = [request[r] EXCEPT !.step = "ready"]
    BY <1>3 DEF CheckCreate, Proceed, IInv, TypeOK, RequestTypeOK
  <2>2. request[r].dest \in live
    BY <1>2, <2>1, AttachedIsLive DEF RequestOK, Admitted, At
  <2>. QED
    BY <1>1, <1>2, <2>1, <2>2, ReadKeeps
       DEF RequestOK, Admitted, HasRead, At, UnchangedTree, Fields
<1>4. CASE CheckMove(r)
  <2>1. /\ At(r, "move", "admitted") /\ Attached(request[r].dest) /\ request[r].target \in live
        /\ request[r].dest \notin Subtree(request[r].target)
        /\ request'[r] = [request[r] EXCEPT !.step = "ready"]
    BY <1>4 DEF CheckMove, Proceed, IInv, TypeOK, RequestTypeOK
  <2>2. request[r].dest \in live
    BY <1>2, <2>1, AttachedIsLive DEF RequestOK, Admitted, At
  <2>3. Subtree(request[r].target)' = Subtree(request[r].target)
    BY <1>1, <1>2, <2>1, SameSubtree DEF Fields
  <2>4. RequestOK(r)'
    BY <1>1, <1>2, <2>1, <2>2, <2>3 DEF RequestOK, Admitted, HasRead, At, UnchangedTree, Fields
  <2>. QED  BY <1>1, <2>4, ReadKeeps
<1>5. CASE ScanProject(r)
  <2>1. /\ At(r, "delete", "admitted") /\ request[r].target \in live
        /\ request'[r] = [request[r] EXCEPT !.step = "ready", !.doomed = Subtree(request[r].target)]
    BY <1>5 DEF ScanProject, IInv, TypeOK, RequestTypeOK
  <2>2. Subtree(request[r].target)' = Subtree(request[r].target)
    BY <1>1, <1>2, <2>1, SameSubtree DEF Fields
  <2>3. ~Primary(request[r].target)'
    BY <1>1, <1>2, <2>1 DEF RequestOK, Admitted, At, UnchangedTree, Primary, TeamRoots
  <2>4. RequestOK(r)'
    BY <1>1, <1>2, <2>1, <2>2, <2>3 DEF RequestOK, Admitted, HasRead, At, UnchangedTree, Fields
  <2>. QED  BY <1>1, <2>4, ReadKeeps
<1>6. CASE LookUpPublicRoot(r)
  <2>1. PICK q \in PublicRoots \cup {Top} :
          /\ At(r, "roots", "absent") /\ (q = Top => PublicRoots = {})
          /\ request'[r] = [request[r] EXCEPT !.step = "ready", !.dest = q]
    BY <1>6 DEF LookUpPublicRoot, IInv, TypeOK, RequestTypeOK
  <2>2. TeamRoots' = TeamRoots /\ PublicRoots' = PublicRoots /\ commercial' = commercial
    BY <1>1 DEF UnchangedTree, TeamRoots, PublicRoots
  <2>3. RequestOK(r)'
    BY <1>2, <2>1, <2>2 DEF RequestOK, Admitted, HasRead, At, Fields, Open
  <2>. QED  BY <1>1, <2>3, ReadKeeps
<1>7. CASE Fail(r)
  <2>1. request'[r] = Idle
    BY <1>7 DEF Fail, Enter, IInv, TypeOK, RequestTypeOK
  <2>. QED  BY <1>1, <2>1, ReadKeeps DEF RequestOK, Admitted, HasRead, At, Idle
<1>. QED  BY <1>3, <1>4, <1>5, <1>6, <1>7

LEMMA TeamScanStep ==
  ASSUME IInv, TypeOK', NEW r \in Requests, NEW p \in Projects, ScanTeam(r, p)
  PROVE  IInv'
<1>1. UnchangedTree /\ \A x \in Requests : x # r => request'[x] = request[x]
  BY DEF ScanTeam, Enter, IInv, TypeOK, RequestTypeOK
<1>2. p \in live /\ role[p] = "team"
  BY DEF ScanTeam, TeamRoots, IInv, TreeOK, RootsAreOnTop
<1>3. request'[r] = [Idle EXCEPT !.op = "delete", !.step = "ready", !.target = p, !.doomed = Subtree(p)]
  BY DEF ScanTeam, Enter, DoomedWithTeam, IInv, TypeOK, RequestTypeOK
<1>4. Subtree(p)' = Subtree(p)
  BY <1>1, SameSubtree
<1>5. ~Primary(p)'
  BY <1>1, SamePrimary DEF ScanTeam
<1>6. RequestOK(r)'
  BY <1>1, <1>2, <1>3, <1>4, <1>5 DEF RequestOK, Admitted, HasRead, At, UnchangedTree, Idle
<1>. QED  BY <1>1, <1>6, ReadKeeps

LEMMA RootLookUpStep ==
  ASSUME IInv, TypeOK', NEW r \in Requests, NEW c \in CommercialTeams, LookUpTeamRoot(r, c)
  PROVE  IInv'
<1>1. UnchangedTree /\ \A x \in Requests : x # r => request'[x] = request[x]
  BY DEF LookUpTeamRoot, Enter, IInv, TypeOK, RequestTypeOK
<1>2. /\ \A x \in TeamRoots : commercial[x] # c
      /\ request'[r] = [Idle EXCEPT !.op = "roots", !.step = "absent", !.team = c]
  BY DEF LookUpTeamRoot, Enter, IInv, TypeOK, RequestTypeOK
<1>3. RequestOK(r)'
  BY <1>1, <1>2 DEF RequestOK, Admitted, HasRead, At, UnchangedTree, Idle, TeamRoots
<1>. QED  BY <1>1, <1>3, ReadKeeps

\* New work goes beneath work or a root that is there.
LEMMA CreateKeeps ==
  ASSUME NoneOvertaken, IInv, TypeOK', NEW r \in Requests, NEW p \in Projects, CommitCreate(r, p)
  PROVE  IInv'
<1>. DEFINE d == request[r].dest
<1>1. d \in live /\ role[d] # "inbox" /\ d \in Projects
  BY DEF CommitCreate, IInv, RequestOK, Admitted, HasRead, At
<1>2. p \in unused /\ p \notin live /\ role[p] = "none"
  BY DEF CommitCreate, NextId, IInv, TypeOK, RowsResolve
<1>3. /\ live' = live \cup {p} /\ unused' = unused \ {p} /\ role' = role /\ commercial' = commercial
      /\ parent' = [parent EXCEPT ![p] = d] /\ Finish(r)
  BY DEF CommitCreate
<1>4. parent'[p] = d /\ \A c \in live : parent'[c] = parent[c]
  BY <1>2, <1>3 DEF IInv, TypeOK, StateTypeOK
<1>5. SharedRoots \subseteq SharedRoots'
  BY <1>3, <1>4 DEF SharedRoots
<1>6. ASSUME NEW a \in SharedRoots, NEW x \in Subtree(a) PROVE x \in Subtree(a)'
  BY <1>3, <1>4, <1>6, GrowKeeps
<1>7. ASSUME NEW x \in live, role[x] # "inbox" PROVE Rooted(x)'
  BY <1>5, <1>6, <1>7, SharedIsRooted DEF Rooted
<1>8. Rooted(p)'
  <2>1. PICK a \in SharedRoots' : d \in Subtree(a)'
    BY <1>1, <1>7 DEF Rooted
  <2>2. ASSUME NEW S \in SUBSET Projects, a \in S, ClosedBelow(S)' PROVE p \in S
    BY <2>1, <2>2, <1>3, <1>4 DEF ClosedBelow, Subtree
  <2>3. p \in Subtree(a)'
    BY <2>2 DEF Subtree
  <2>. QED  BY <2>1, <2>3 DEF Rooted
<1>9. TreeOK'
  <2>1. RootsAreOnTop'
    BY <1>2, <1>3, <1>4 DEF IInv, TreeOK, RootsAreOnTop
  <2>2. Rootedness'
    BY <1>3, <1>7, <1>8 DEF Rootedness
  <2>3. OneRootPerTeam' /\ OnePublicRoot'
    BY <1>3 DEF IInv, TreeOK, OneRootPerTeam, OnePublicRoot, TeamRoots, PublicRoots
  <2>. QED  BY <2>1, <2>2, <2>3 DEF TreeOK
<1>. QED  BY <1>3, <1>9, CommitKeeps

\* A project moves with all that is beneath it to a place outside of it.
LEMMA MoveStep ==
  ASSUME NoneOvertaken, IInv, TypeOK', NEW r \in Requests, CommitMove(r)
  PROVE  IInv'
<1>. DEFINE d == request[r].dest
            m == request[r].target
<1>1. /\ d \in live /\ role[d] # "inbox" /\ d \in Projects /\ d \notin Subtree(m)
      /\ m \in live /\ role[m] = "none" /\ m \in Projects
  BY DEF CommitMove, IInv, RequestOK, Admitted, HasRead, At, TypeOK, StateTypeOK
<1>2. /\ UNCHANGED <<live, unused, role, commercial>> /\ parent' = [parent EXCEPT ![m] = d] /\ Finish(r)
  BY DEF CommitMove
<1>3. \A c \in live : c # m => parent'[c] = parent[c]
  BY <1>2 DEF IInv, TypeOK, StateTypeOK
<1>4. SharedRoots \subseteq SharedRoots'
  BY <1>1, <1>2, <1>3 DEF SharedRoots
<1>5. StateTypeOK /\ live' = live
  BY <1>2 DEF IInv, TypeOK
<1>6. ASSUME NEW x \in live, role[x] # "inbox", x \notin Subtree(m) PROVE Rooted(x)'
  <2>1. PICK a \in SharedRoots : x \in Subtree(a)
    BY <1>6, SharedIsRooted DEF Rooted
  <2>2. x \in Subtree(a)'
    BY <1>1, <1>2, <1>5, <1>6, <2>1, MoveKeeps
  <2>. QED  BY <1>4, <2>1, <2>2 DEF Rooted
<1>7. ASSUME NEW x \in live, x \in Subtree(m) PROVE Rooted(x)'
  <2>1. PICK b \in SharedRoots' : d \in Subtree(b)'
    BY <1>1, <1>6 DEF Rooted
  <2>2. x \in Subtree(b)'
    BY <1>1, <1>2, <1>5, <1>7, <2>1, MoveCarries
  <2>. QED  BY <2>1, <2>2 DEF Rooted
<1>8. TreeOK'
  <2>1. RootsAreOnTop'
    BY <1>1, <1>2, <1>3 DEF IInv, TreeOK, RootsAreOnTop
  <2>2. Rootedness'
    BY <1>2, <1>6, <1>7 DEF Rootedness
  <2>3. OneRootPerTeam' /\ OnePublicRoot'
    BY <1>2 DEF IInv, TreeOK, OneRootPerTeam, OnePublicRoot, TeamRoots, PublicRoots
  <2>. QED  BY <2>1, <2>2, <2>3 DEF TreeOK
<1>. QED  BY <1>2, <1>8, CommitKeeps

\* A removal takes a whole subtree, so nothing is left beneath nothing.
LEMMA DeleteStep ==
  ASSUME NoneOvertaken, IInv, TypeOK', NEW r \in Requests, CommitDelete(r)
  PROVE  IInv'
<1>. DEFINE m == request[r].target
<1>1. /\ m \in live /\ m \in Projects /\ role[m] \in {"none", "team"}
      /\ request[r].doomed = Subtree(m)
  BY DEF CommitDelete, IInv, RequestOK, HasRead, At, TypeOK, StateTypeOK
<1>2. /\ live' = live \ Subtree(m) /\ unused' = unused /\ Finish(r)
      /\ \A c \in Projects \ Subtree(m) :
           parent'[c] = parent[c] /\ role'[c] = role[c] /\ commercial'[c] = commercial[c]
      /\ \A c \in Subtree(m) : c \in Projects => role'[c] = "none"
  BY <1>1 DEF CommitDelete
<1>3. live \subseteq Projects
  BY DEF IInv, TypeOK, StateTypeOK
<1>4. ASSUME NEW x \in live', role[x] # "inbox" PROVE Rooted(x)'
  <2>1. x \in live /\ x \notin Subtree(m)
    BY <1>2
  <2>2. PICK a \in SharedRoots : x \in Subtree(a)
    BY <1>4, <2>1, SharedIsRooted DEF Rooted
  <2>3. a \notin Subtree(m)
    BY <1>3, <2>1, <2>2, SubtreeTransitive
  <2>4. a \in SharedRoots'
    BY <1>2, <1>3, <2>2, <2>3 DEF SharedRoots
  <2>5. \A c \in live' : parent'[c] = parent[c]
    BY <1>2, <1>3
  <2>6. x \in Subtree(a)'
    BY <1>2, <1>3, <2>1, <2>2, <2>5, EraseKeeps
  <2>. QED  BY <2>4, <2>6 DEF Rooted
<1>5. TreeOK'
  <2>1. \A c \in Projects : role'[c] # "none" => c \notin Subtree(m) /\ role'[c] = role[c]
    BY <1>2
  <2>2. RootsAreOnTop'
    BY <1>2, <2>1 DEF IInv, TreeOK, RootsAreOnTop
  <2>3. Rootedness'
    BY <1>2, <1>3, <1>4 DEF Rootedness
  <2>4. OneRootPerTeam' /\ OnePublicRoot'
    BY <1>2, <2>1 DEF IInv, TreeOK, OneRootPerTeam, OnePublicRoot, TeamRoots, PublicRoots
  <2>. QED  BY <2>2, <2>3, <2>4 DEF TreeOK
<1>6. \A c \in Projects : role'[c] # "none" => role'[c] = role[c]
  BY <1>2
<1>. QED  BY <1>2, <1>5, <1>6, CommitKeeps

\* New roots S stand at the top and leave the rest where it is.
LEMMA RootsGrow ==
  ASSUME IInv, NEW S \in SUBSET unused, live' = live \cup S, parent' = parent,
         \A x \in S : role'[x] \in {"team", "public"}, \A x \in Projects \ S : role'[x] = role[x]
  PROVE  RootsAreOnTop' /\ Rootedness'
<1>1. /\ live \subseteq Projects /\ S \subseteq Projects /\ S \cap live = {}
      /\ \A x \in S : parent[x] = Top
  BY DEF IInv, TypeOK, StateTypeOK, RowsResolve
<1>2. RootsAreOnTop'
  BY <1>1 DEF IInv, TreeOK, RootsAreOnTop
<1>3. SharedRoots \subseteq SharedRoots'
  BY <1>1 DEF SharedRoots
<1>4. ASSUME NEW x \in live', role'[x] = "none" PROVE Rooted(x)'
  <2>1. x \in live /\ role[x] = "none"
    BY <1>1, <1>4
  <2>2. PICK a \in SharedRoots : x \in Subtree(a)
    BY <2>1 DEF IInv, TreeOK, Rootedness, Rooted
  <2>3. x \in Subtree(a)'
    BY <2>2, GrowKeeps
  <2>. QED  BY <1>3, <2>2, <2>3 DEF Rooted
<1>. QED  BY <1>2, <1>4 DEF Rootedness

LEMMA TeamStep ==
  ASSUME NoneOvertaken, IInv, TypeOK', NEW r \in Requests, NEW p \in Projects,
         CommitTeam(r, p) \/ CommitTeamRoot(r, p)
  PROVE  IInv'
<1>1. p \in unused /\ role[p] = "none" /\ commercial[p] = None
  BY DEF CommitTeam, CommitTeamRoot, NextId, IInv, TypeOK, RowsResolve
<1>2. /\ live' = live \cup {p} /\ unused' = unused \ {p} /\ parent' = parent /\ Finish(r)
      /\ role' = [role EXCEPT ![p] = "team"]
  BY DEF CommitTeam, CommitTeamRoot
<1>3. role'[p] = "team" /\ \A x \in Projects : x # p => role'[x] = role[x]
  BY <1>2 DEF IInv, TypeOK, StateTypeOK
<1>4. RootsAreOnTop' /\ Rootedness'
  <2>1. {p} \in SUBSET unused /\ live' = live \cup {p} /\ parent' = parent
    BY <1>1, <1>2
  <2>2. (\A x \in {p} : role'[x] \in {"team", "public"}) /\ (\A x \in Projects \ {p} : role'[x] = role[x])
    BY <1>3
  <2>. QED  BY <2>1, <2>2, RootsGrow
<1>5. OnePublicRoot'
  BY <1>3 DEF IInv, TreeOK, OnePublicRoot, PublicRoots
<1>6. OneRootPerTeam'
  <2>1. \A x \in Projects : x # p => commercial'[x] = commercial[x]
    BY DEF CommitTeam, CommitTeamRoot, IInv, TypeOK, StateTypeOK
  <2>2. \A x \in TeamRoots : x # p => commercial[x] # commercial'[p] \/ commercial'[p] = None
    <3>1. CASE CommitTeam(r, p)
      BY <3>1, <1>1 DEF CommitTeam
    <3>2. CASE CommitTeamRoot(r, p)
      BY <3>2 DEF CommitTeamRoot, IInv, TypeOK, StateTypeOK, RequestOK, HasRead, At, Open
    <3>. QED  BY <3>1, <3>2
  <2>3. \A x \in TeamRoots' : x # p => x \in TeamRoots
    BY <1>3 DEF TeamRoots
  <2>4. \A x \in TeamRoots' : x \in Projects
    BY DEF TeamRoots
  <2>. QED  BY <2>1, <2>2, <2>3, <2>4 DEF OneRootPerTeam, IInv, TreeOK
<1>7. unused' \subseteq unused /\ (\A x \in Projects : role'[x] = "inbox" => role[x] = "inbox")
      /\ (\A x \in Projects \ unused : role[x] = "none" => role'[x] = "none")
  BY <1>1, <1>2, <1>3
<1>. QED  BY <1>2, <1>4, <1>5, <1>6, <1>7, CommitKeeps DEF TreeOK

LEMMA BothRootsStep ==
  ASSUME NoneOvertaken, IInv, TypeOK', NEW r \in Requests, NEW p \in Projects, NEW q \in Projects,
         CommitBothRoots(r, p, q)
  PROVE  IInv'
<1>1. p # q /\ p \in unused /\ q \in unused
  BY DEF CommitBothRoots, NextId
<1>2. /\ live' = live \cup {p, q} /\ unused' = unused \ {p, q} /\ parent' = parent /\ Finish(r)
      /\ role' = [role EXCEPT ![p] = "team", ![q] = "public"]
      /\ commercial' = [commercial EXCEPT ![p] = request[r].team]
  BY DEF CommitBothRoots
<1>3. /\ role'[p] = "team" /\ role'[q] = "public"
      /\ \A x \in Projects : x # p /\ x # q => role'[x] = role[x]
  BY <1>1, <1>2 DEF IInv, TypeOK, StateTypeOK
<1>4. commercial'[p] = request[r].team /\ \A x \in Projects : x # p => commercial'[x] = commercial[x]
  BY <1>2 DEF IInv, TypeOK, StateTypeOK
<1>5. PublicRoots = {} /\ \A x \in TeamRoots : commercial[x] # request[r].team
  BY DEF CommitBothRoots, IInv, RequestOK, HasRead, At, Open
<1>6. RootsAreOnTop' /\ Rootedness'
  <2>1. {p, q} \in SUBSET unused /\ live' = live \cup {p, q} /\ parent' = parent
    BY <1>1, <1>2
  <2>2. (\A x \in {p, q} : role'[x] \in {"team", "public"}) /\ (\A x \in Projects \ {p, q} : role'[x] = role[x])
    BY <1>3
  <2>. QED  BY <2>1, <2>2, RootsGrow
<1>7. OnePublicRoot'
  <2>1. \A x \in PublicRoots' : x = q
    BY <1>3, <1>5 DEF PublicRoots
  <2>. QED  BY <2>1 DEF OnePublicRoot
<1>8. OneRootPerTeam'
  <2>1. \A x \in TeamRoots' : x \in Projects /\ (x # p => x \in TeamRoots)
    BY <1>3 DEF TeamRoots
  <2>. QED  BY <2>1, <1>4, <1>5 DEF OneRootPerTeam, IInv, TreeOK
<1>9. unused' \subseteq unused /\ (\A x \in Projects : role'[x] = "inbox" => role[x] = "inbox")
      /\ (\A x \in Projects \ unused : role[x] = "none" => role'[x] = "none")
  BY <1>1, <1>2, <1>3
<1>. QED  BY <1>2, <1>6, <1>7, <1>8, <1>9, CommitKeeps DEF TreeOK

-----------------------------------------------------------------------------
(* The theorems *)

LEMMA InitIInv == Init => IInv
<1>1. SUFFICES ASSUME Init PROVE IInv
  OBVIOUS
<1>2. TypeOK
  BY <1>1, InitTypes
<1>3. TreeOK
  BY <1>1, ProjectsAssumption
     DEF Init, TreeInit, TreeOK, RootsAreOnTop, Rootedness, OneRootPerTeam, OnePublicRoot, TeamRoots, PublicRoots
<1>4. ASSUME NEW r \in Requests PROVE RequestOK(r)
  BY <1>1, IdleOK DEF Init, Idle
<1>. QED  BY <1>2, <1>3, <1>4 DEF IInv

LEMMA StepIInv ==
  ASSUME NoneOvertaken, IInv, NEW r \in Requests, Step(r) PROVE IInv'
<1>1. TypeOK'
  BY StepTypes DEF IInv
<1>2. CASE \/ CheckCreate(r) \/ CheckMove(r) \/ ScanProject(r) \/ LookUpPublicRoot(r) \/ Fail(r)
  BY <1>1, <1>2, ReadSteps
<1>3. CASE CommitMove(r)
  BY <1>1, <1>3, MoveStep
<1>4. CASE CommitDelete(r)
  BY <1>1, <1>4, DeleteStep
<1>5. ASSUME NEW p \in Projects, AdmitCreate(r, p) \/ AdmitDelete(r, p) PROVE IInv'
  BY <1>1, <1>5, GateSteps
<1>6. ASSUME NEW p \in Projects, ScanTeam(r, p) PROVE IInv'
  BY <1>1, <1>6, TeamScanStep
<1>7. ASSUME NEW p \in Projects, CommitCreate(r, p) PROVE IInv'
  BY <1>1, <1>7, CreateKeeps
<1>8. ASSUME NEW p \in Projects, CommitTeam(r, p) \/ CommitTeamRoot(r, p) PROVE IInv'
  BY <1>1, <1>8, TeamStep
<1>9. ASSUME NEW p \in Projects, NEW q \in Projects, AdmitMove(r, p, q) PROVE IInv'
  BY <1>1, <1>9, GateSteps
<1>10. ASSUME NEW p \in Projects, NEW q \in Projects, CommitBothRoots(r, p, q) PROVE IInv'
  BY <1>1, <1>10, BothRootsStep
<1>11. ASSUME NEW c \in CommercialTeams, LookUpTeamRoot(r, c) PROVE IInv'
  BY <1>1, <1>11, RootLookUpStep
<1>. QED
  BY <1>2, <1>3, <1>4, <1>5, <1>6, <1>7, <1>8, <1>9, <1>10, <1>11 DEF Step

\* With SQLite a commit is the end of its transaction and leaves the others stale.
LEMMA CommitEndsAll ==
  ASSUME Serializable, TypeOK, NEW r \in Requests, Finish(r), request[r].step \in Open \/ IsIdle(r)
  PROVE  NoneOvertaken
<1>1. ASSUME NEW x \in Requests, request[x].step \in Open PROVE request'[x] # request[x]
  <2>1. request'[x] = After(r, x) /\ request[x] \in Fields
    BY DEF Finish, TypeOK, RequestTypeOK, Fields
  <2>2. request'[x].step \in {"idle", "stale"}
    BY <1>1, <2>1 DEF After, Idle, Fields
  <2>. QED  BY <1>1, <2>2 DEF Open
<1>. QED  BY <1>1 DEF NoneOvertaken

LEMMA SerializableStep ==
  ASSUME Serializable, TypeOK, [Next]_vars PROVE [NoneOvertaken]_vars
<1>1. ASSUME NEW r \in Requests, Step(r) PROVE NoneOvertaken
  <2>1. CASE UnchangedTree
    BY <2>1 DEF NoneOvertaken
  <2>2. UnchangedTree \/ (Finish(r) /\ (request[r].step \in Open \/ IsIdle(r)))
    BY <1>1 DEF Step, CheckCreate, CheckMove, ScanProject, LookUpPublicRoot, CommitMove, CommitDelete, Fail,
       AdmitCreate, AdmitDelete, ScanTeam, CommitCreate, CommitTeam, CommitTeamRoot, AdmitMove,
       CommitBothRoots, LookUpTeamRoot, At, Open
  <2>. QED  BY <2>1, <2>2, CommitEndsAll
<1>. QED  BY <1>1 DEF Next

LEMMA IsolatedRuns == Spec /\ Isolated => [][NoneOvertaken]_vars
<1>1. CASE Serializable
  <2>1. TypeOK /\ [Next]_vars => [NoneOvertaken]_vars
    BY <1>1, SerializableStep
  <2>2. Spec => [][NoneOvertaken]_vars
    BY <2>1, TypeCorrect, PTL DEF Spec
  <2>. QED  BY <2>2
<1>2. CASE ~Serializable
  BY <1>2 DEF Isolated
<1>. QED  BY <1>1, <1>2

\* What the invariant needs for all the theorems below.
LEMMA Invariance == Spec /\ Isolated => []IInv
<1>1. IInv /\ [Next]_vars /\ [NoneOvertaken]_vars => IInv'
  <2>1. SUFFICES ASSUME IInv, [Next]_vars, [NoneOvertaken]_vars PROVE IInv'
    OBVIOUS
  <2>2. CASE Next /\ NoneOvertaken
    BY <2>1, <2>2, StepIInv DEF Next
  <2>3. CASE UNCHANGED vars
    <3>1. TypeOK'
      BY <2>1, <2>3 DEF vars, IInv, TypeOK, StateTypeOK, RequestTypeOK, RowsResolve
    <3>2. TreeOK'
      BY <2>1, <2>3 DEF vars, IInv, TreeOK, RootsAreOnTop, Rootedness, Rooted, SharedRoots, Subtree,
         ClosedBelow, OneRootPerTeam, OnePublicRoot, TeamRoots, PublicRoots
    <3>3. ASSUME NEW x \in Requests PROVE RequestOK(x)'
      <4>1. RequestOK(x)
        BY <2>1 DEF IInv
      <4>. QED
        BY <2>3, <4>1 DEF vars, RequestOK, Admitted, HasRead, At, Subtree, ClosedBelow, Primary, TeamRoots, PublicRoots
    <3>. QED  BY <3>1, <3>2, <3>3 DEF IInv
  <2>. QED  BY <2>1, <2>2, <2>3
<1>. QED  BY InitIInv, <1>1, IsolatedRuns, PTL DEF Spec

\* Every project stays beneath a Team or Public root, for any number of requests
\* at once, although the gate's answer may be out of date when its handler runs.
THEOREM WorkStaysRooted == Spec /\ Isolated => []WorkIsRooted
<1>1. IInv => WorkIsRooted
  BY RootedDef DEF IInv, TreeOK, Rootedness, WorkIsRooted, TypeOK, StateTypeOK
<1>. QED  BY <1>1, Invariance, PTL

\* Calls of create_team_roots, however many at once, make a team one root ...
THEOREM RootsAreMadeOnce == Spec /\ Isolated => []OneRootPerTeam
<1>1. IInv => OneRootPerTeam
  BY DEF IInv, TreeOK
<1>. QED  BY <1>1, Invariance, PTL

\* ... and an organization one Public root.
THEOREM PublicRootIsMadeOnce == Spec /\ Isolated => []OnePublicRoot
<1>1. IInv => OnePublicRoot
  BY DEF IInv, TreeOK
<1>. QED  BY <1>1, Invariance, PTL

\* A removal takes one project or one team's root with what is beneath it when
\* it commits, and nothing else.
THEOREM RemovalIsExact == Spec /\ Isolated => NothingElse
<1>. DEFINE Exact == live \ live' = {} \/ \E t \in live : /\ role[t] \in {"none", "team"}
                                                          /\ live \ live' = Subtree(t)
<1>1. IInv /\ [Next]_vars => [Exact]_vars
  <2>1. SUFFICES ASSUME IInv, NEW r \in Requests, Step(r) PROVE Exact
    BY DEF Next
  <2>2. CASE CommitDelete(r)
    <3>1. /\ request[r].target \in live /\ role[request[r].target] \in {"none", "team"}
          /\ request[r].doomed = Subtree(request[r].target) /\ live' = live \ request[r].doomed
      BY <2>1, <2>2 DEF CommitDelete, IInv, RequestOK, HasRead
    <3>2. Subtree(request[r].target) \subseteq live
      <4>1. live \in SUBSET Projects
        BY <2>1 DEF IInv, TypeOK, StateTypeOK
      <4>2. ClosedBelow(live)
        BY DEF ClosedBelow
      <4>. QED  BY <3>1, <4>1, <4>2, SubtreeLeast
    <3>. QED  BY <3>1, <3>2
  <2>3. CASE live \subseteq live'
    BY <2>3
  <2>4. live \subseteq live' \/ CommitDelete(r)
    BY <2>1 DEF Step, UnchangedTree, CheckCreate, CheckMove, ScanProject, LookUpPublicRoot, CommitMove, Fail,
       AdmitCreate, AdmitDelete, ScanTeam, CommitCreate, CommitTeam, CommitTeamRoot, AdmitMove,
       CommitBothRoots, LookUpTeamRoot
  <2>. QED  BY <2>2, <2>3, <2>4
<1>. QED  BY <1>1, Invariance, PTL DEF Spec, NothingElse

-----------------------------------------------------------------------------
(* The tree that changes in one step. Each commit is one of its operations,
   with what the transaction has read still true; every other step leaves it
   alone. *)

LEMMA SameTree ==
  /\ \A a : Tree!Subtree(a) = Subtree(a)
  /\ Tree!SharedRoots = SharedRoots /\ Tree!TeamRoots = TeamRoots /\ Tree!PublicRoots = PublicRoots
  /\ \A p : (Tree!Primary(p) <=> Primary(p)) /\ (Tree!NextId(p) <=> NextId(p))
  /\ Tree!Top = Top
  BY DEF Tree!Subtree, Subtree, Tree!ClosedBelow, ClosedBelow, Tree!SharedRoots, SharedRoots, Tree!TeamRoots,
         TeamRoots, Tree!PublicRoots, PublicRoots, Tree!Primary, Primary, Tree!NextId, NextId, Tree!Top, Top

\* What is there and is no Inbox is a place for work.
LEMMA PlaceIsThere ==
  ASSUME IInv, NEW q \in live, role[q] # "inbox" PROVE q \in Tree!Places
<1>1. PICK a \in SharedRoots : q \in Subtree(a)
  BY SharedIsRooted DEF Rooted
<1>. QED  BY <1>1, SameTree DEF Tree!Places

LEMMA CreateImplements ==
  ASSUME IInv, NEW r \in Requests, NEW p \in Projects, CommitCreate(r, p) PROVE Tree!Create(p)
<1>1. request[r].dest \in live /\ role[request[r].dest] # "inbox"
  BY DEF CommitCreate, IInv, RequestOK, Admitted, HasRead, At
<1>. QED  BY <1>1, PlaceIsThere, SameTree DEF CommitCreate, Tree!Create, Tree!Inserts

LEMMA MoveImplements ==
  ASSUME IInv, NEW r \in Requests, CommitMove(r) PROVE \E p \in Projects : Tree!Move(p)
<1>. DEFINE m == request[r].target
<1>1. /\ request[r].dest \in live /\ role[request[r].dest] # "inbox" /\ request[r].dest \notin Subtree(m)
      /\ m \in live /\ role[m] = "none" /\ m \in Projects
  BY DEF CommitMove, IInv, RequestOK, Admitted, HasRead, At, TypeOK, StateTypeOK
<1>2. Tree!Move(m)
  BY <1>1, PlaceIsThere, SameTree DEF CommitMove, Tree!Move, Tree!Work
<1>. QED  BY <1>1, <1>2

LEMMA DeleteImplements ==
  ASSUME IInv, NEW r \in Requests, CommitDelete(r)
  PROVE  \E p \in Projects : Tree!Delete(p) \/ Tree!RemoveTeam(p)
<1>. DEFINE m == request[r].target
<1>1. /\ m \in live /\ m \in Projects /\ role[m] \in {"none", "team"} /\ ~Primary(m)
      /\ request[r].doomed = Subtree(m)
  BY DEF CommitDelete, IInv, RequestOK, HasRead, At, TypeOK, StateTypeOK
<1>2. Tree!Removes(m)
  BY <1>1, SameTree DEF CommitDelete, Tree!Removes
<1>3. role[m] = "none" => Tree!Delete(m)
  BY <1>1, <1>2 DEF Tree!Delete, Tree!Work
<1>4. role[m] = "team" => Tree!RemoveTeam(m)
  BY <1>1, <1>2, SameTree DEF Tree!RemoveTeam, TeamRoots
<1>. QED  BY <1>1, <1>3, <1>4

LEMMA TeamImplements ==
  ASSUME NEW r \in Requests, NEW p \in Projects, CommitTeam(r, p) PROVE Tree!AddTeam(p)
  BY SameTree DEF CommitTeam, Tree!AddTeam, Tree!Inserts

LEMMA TeamRootImplements ==
  ASSUME IInv, NEW r \in Requests, NEW p \in Projects, CommitTeamRoot(r, p)
  PROVE  \E c \in CommercialTeams : Tree!ProvisionTeam(p, c)
<1>1. /\ request[r].team \in CommercialTeams /\ \A x \in TeamRoots : commercial[x] # request[r].team
      /\ PublicRoots # {}
  BY DEF CommitTeamRoot, IInv, RequestOK, HasRead, At, Open
<1>2. Tree!ProvisionTeam(p, request[r].team)
  BY <1>1, SameTree DEF CommitTeamRoot, Tree!ProvisionTeam, Tree!Inserts
<1>. QED  BY <1>1, <1>2

LEMMA BothRootsImplement ==
  ASSUME IInv, NEW r \in Requests, NEW p \in Projects, NEW q \in Projects, CommitBothRoots(r, p, q)
  PROVE  \E c \in CommercialTeams : Tree!ProvisionBoth(p, q, c)
<1>1. /\ request[r].team \in CommercialTeams /\ \A x \in TeamRoots : commercial[x] # request[r].team
      /\ PublicRoots = {}
  BY DEF CommitBothRoots, IInv, RequestOK, HasRead, At, Open
<1>2. Tree!ProvisionBoth(p, q, request[r].team)
  BY <1>1, SameTree DEF CommitBothRoots, Tree!ProvisionBoth, Tree!Inserts
<1>. QED  BY <1>1, <1>2

LEMMA StepImplements ==
  ASSUME IInv, [Next]_vars PROVE [Tree!Next]_(Tree!vars)
<1>1. CASE UNCHANGED vars
  BY <1>1 DEF vars, Tree!vars
<1>2. ASSUME NEW r \in Requests, Step(r) PROVE Tree!Next \/ UNCHANGED Tree!vars
  <2>1. CASE UnchangedTree
    BY <2>1 DEF UnchangedTree, Tree!vars
  <2>2. CASE CommitMove(r) \/ CommitDelete(r)
    BY <2>2, MoveImplements, DeleteImplements DEF Tree!Next
  <2>3. ASSUME NEW p \in Projects, CommitCreate(r, p) \/ CommitTeam(r, p) \/ CommitTeamRoot(r, p) PROVE Tree!Next
    BY <2>3, CreateImplements, TeamImplements, TeamRootImplements DEF Tree!Next
  <2>4. ASSUME NEW p \in Projects, NEW q \in Projects, CommitBothRoots(r, p, q) PROVE Tree!Next
    BY <2>4, BothRootsImplement DEF Tree!Next
  <2>. QED
    BY <1>2, <2>1, <2>2, <2>3, <2>4
       DEF Step, CheckCreate, CheckMove, ScanProject, LookUpPublicRoot, Fail, AdmitCreate, AdmitDelete,
           ScanTeam, AdmitMove, LookUpTeamRoot
<1>. QED  BY <1>1, <1>2 DEF Next

\* Where no overtaken transaction commits, gates, reads and writes amount
\* to a tree that changes in one step by rules asked of it as it is then, for
\* any number of requests at once.
THEOREM TreeIsImplemented == Spec /\ Isolated => ImplementsTree
<1>1. Init => Tree!TreeInit
  BY DEF Init, TreeInit, Tree!TreeInit, Tree!Top, Top
<1>2. IInv /\ [Next]_vars => [Tree!Next]_(Tree!vars)
  BY StepImplements
<1>. QED  BY <1>1, <1>2, Invariance, PTL DEF Spec, Tree!Spec, ImplementsTree

\* Teams were made in the order of their ids, and before any project to come.
TeamsInOrder == \A p \in TeamRoots : \A u \in unused : p < u

\* No operation takes the primary team away: it is at the top, so only its own
\* removal would, and a new team is younger.
LEMMA OrderStep ==
  ASSUME IInv, TeamsInOrder, [Tree!Next]_(Tree!vars)
  PROVE  TeamsInOrder' /\ \A x \in Projects : Primary(x) => Primary(x)'
<1>. DEFINE Goal == TeamsInOrder' /\ \A x \in Projects : Primary(x) => Primary(x)'
<1>1. /\ \A x \in Projects : x \in Nat
      /\ StateTypeOK /\ unused \subseteq Projects /\ TeamRoots \subseteq Projects
  BY ProjectsAssumption DEF IInv, TypeOK, StateTypeOK, TeamRoots
<1>2. ASSUME unused' \subseteq unused, role' = role PROVE Goal
  BY <1>2 DEF TeamsInOrder, Primary, TeamRoots
<1>3. ASSUME NEW p \in Projects, Tree!Delete(p) \/ Tree!RemoveTeam(p) PROVE Goal
  <2>1. unused' = unused /\ role' = [x \in Projects |-> IF x \in Subtree(p) THEN "none" ELSE role[x]]
    BY <1>3, SameTree DEF Tree!Delete, Tree!RemoveTeam, Tree!Removes
  <2>2. TeamRoots' \subseteq TeamRoots
    BY <2>1 DEF TeamRoots
  <2>3. ASSUME NEW x \in Projects, Primary(x) PROVE x \in TeamRoots'
    <3>1. role[x] = "team" /\ parent[x] = Top
      BY <2>3 DEF Primary, TeamRoots, IInv, TreeOK, RootsAreOnTop
    <3>2. p # x
      BY <1>3, <2>3, <3>1, SameTree DEF Tree!Delete, Tree!Work, Tree!RemoveTeam
    <3>3. x \notin Subtree(p)
      BY <1>1, <3>1, <3>2, TopIsBeneathItself DEF StateTypeOK
    <3>. QED  BY <2>1, <3>1, <3>3 DEF TeamRoots
  <2>. QED  BY <2>1, <2>2, <2>3 DEF TeamsInOrder, Primary
<1>4. ASSUME NEW p \in unused, NEW S \in SUBSET unused, p \in S, \A u \in unused : p <= u,
             unused' = unused \ S, TeamRoots' = TeamRoots \cup {p}
      PROVE  Goal
  <2>1. TeamsInOrder'
    BY <1>1, <1>4 DEF TeamsInOrder
  <2>2. ASSUME NEW x \in Projects, Primary(x) PROVE Primary(x)'
    BY <1>1, <1>4, <2>2 DEF TeamsInOrder, Primary
  <2>. QED  BY <2>1, <2>2
<1>5. ASSUME NEW p \in Projects, NEW c, Tree!AddTeam(p) \/ Tree!ProvisionTeam(p, c) PROVE Goal
  <2>1. NextId(p) /\ unused' = unused \ {p} /\ role' = [role EXCEPT ![p] = "team"]
    BY <1>5, SameTree DEF Tree!AddTeam, Tree!ProvisionTeam, Tree!Inserts
  <2>2. TeamRoots' = TeamRoots \cup {p}
    BY <1>1, <2>1 DEF TeamRoots, StateTypeOK
  <2>. QED  BY <1>4, <2>1, <2>2 DEF NextId
<1>6. ASSUME NEW p \in Projects, NEW q \in Projects, NEW c, Tree!ProvisionBoth(p, q, c) PROVE Goal
  <2>1. /\ NextId(p) /\ q \in unused \ {p} /\ unused' = unused \ {p, q}
        /\ role' = [role EXCEPT ![p] = "team", ![q] = "public"]
    BY <1>6, SameTree DEF Tree!ProvisionBoth, Tree!Inserts
  <2>2. role[q] = "none"
    BY <2>1 DEF IInv, TypeOK, StateTypeOK, RowsResolve
  <2>3. p # q /\ role'[p] = "team" /\ role'[q] = "public" /\ \A x \in Projects \ {p, q} : role'[x] = role[x]
    BY <1>1, <2>1 DEF StateTypeOK
  <2>4. TeamRoots' = TeamRoots \cup {p}
    BY <2>2, <2>3 DEF TeamRoots
  <2>5. /\ {p, q} \in SUBSET unused /\ p \in unused /\ p \in {p, q} /\ unused' = unused \ {p, q}
        /\ \A u \in unused : p <= u
    BY <2>1 DEF NextId
  <2>. QED  BY <1>4, <2>4, <2>5
<1>. QED
  BY <1>2, <1>3, <1>5, <1>6 DEF Tree!Next, Tree!vars, Tree!Create, Tree!Move, Tree!Inserts

\* The oldest team stays the oldest: it is never removed, however late the
\* removal of another commits, and no team that is made later takes its place.
THEOREM PrimaryIsForGood == Spec /\ Isolated => PrimaryTeamStays
<1>1. Init => TeamsInOrder
  BY DEF Init, TreeInit, TeamsInOrder, TeamRoots
<1>2. IInv /\ [Next]_vars /\ TeamsInOrder => TeamsInOrder'
  BY StepImplements, OrderStep
<1>3. IInv /\ [Next]_vars /\ TeamsInOrder => [\A p \in Projects : Primary(p) => Primary(p)']_vars
  BY StepImplements, OrderStep
<1>. QED  BY <1>1, <1>2, <1>3, Invariance, PTL DEF Spec, PrimaryTeamStays
=============================================================================
