-------------------------- MODULE OrganizationTree --------------------------
(* What managed mode promises of an organization's projects, without requests,
   gates or transactions: a tree to which every change is made in one step, on
   the tree as it is at that moment. The rules are those of the gate, with one
   exception: how deep a place lies is looked at beforehand only.             *)
EXTENDS ProjectTree

vars == <<live, unused, parent, role, commercial>>

\* Work is what is there and is no protected root ...
Work(p) == p \in live /\ role[p] = "none"

\* ... and its place is in a shared root or beneath it.
Places == UNION {Subtree(a) : a \in SharedRoots}

\* The projects in S are new.
Inserts(S) == live' = live \cup S /\ unused' = unused \ S

\* p goes, with all that is beneath it, and nothing else does.
Removes(p) ==
  LET Keep(f, none) == [x \in Projects |-> IF x \in Subtree(p) THEN none ELSE f[x]]
  IN /\ live' = live \ Subtree(p)
     /\ parent' = Keep(parent, Top)
     /\ role' = Keep(role, "none")
     /\ commercial' = Keep(commercial, None)
     /\ UNCHANGED unused

-----------------------------------------------------------------------------
Create(p) ==
  /\ NextId(p)
  /\ Inserts({p})
  /\ \E q \in Places : parent' = [parent EXCEPT ![p] = q]
  /\ UNCHANGED <<role, commercial>>

Move(p) ==
  /\ Work(p)
  /\ \E q \in Places \ Subtree(p) : parent' = [parent EXCEPT ![p] = q]
  /\ UNCHANGED <<live, unused, role, commercial>>

Delete(p) == Work(p) /\ Removes(p)

\* The administrator's team: no commercial team stands behind it.
AddTeam(p) ==
  /\ NextId(p)
  /\ Inserts({p})
  /\ role' = [role EXCEPT ![p] = "team"]
  /\ UNCHANGED <<parent, commercial>>

\* Any team but the primary one.
RemoveTeam(p) ==
  /\ p \in TeamRoots /\ ~Primary(p)
  /\ Removes(p)

\* The roots of a commercial team that has none: its own ...
ProvisionTeam(p, c) ==
  /\ \A q \in TeamRoots : commercial[q] # c
  /\ PublicRoots # {}
  /\ NextId(p)
  /\ Inserts({p})
  /\ role' = [role EXCEPT ![p] = "team"]
  /\ commercial' = [commercial EXCEPT ![p] = c]
  /\ UNCHANGED parent

\* ... and, for the organization's first, the Public root.
ProvisionBoth(p, q, c) ==
  /\ \A x \in TeamRoots : commercial[x] # c
  /\ PublicRoots = {}
  /\ NextId(p)
  /\ q \in unused \ {p} /\ \A x \in unused \ {p} : q <= x
  /\ Inserts({p, q})
  /\ role' = [role EXCEPT ![p] = "team", ![q] = "public"]
  /\ commercial' = [commercial EXCEPT ![p] = c]
  /\ UNCHANGED parent

Next ==
  \E p \in Projects :
    \/ Create(p) \/ Move(p) \/ Delete(p) \/ AddTeam(p) \/ RemoveTeam(p)
    \/ \E c \in CommercialTeams :
         ProvisionTeam(p, c) \/ \E q \in Projects : ProvisionBoth(p, q, c)

Spec == TreeInit /\ [][Next]_vars
=============================================================================
