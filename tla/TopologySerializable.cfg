SPECIFICATION Spec
CONSTANTS
  Projects = {1,2,3,4,5}
  Inbox = 1
  CommercialTeams = {c1, c2}
  None = None
  Requests = {r1, r2}
  MaxDepth = 3
  Serializable = TRUE
SYMMETRY Symmetry
INVARIANTS TypeOK WorkIsRooted OneRootPerTeam OnePublicRoot
PROPERTIES NothingElse PrimaryTeamStays ImplementsTree
