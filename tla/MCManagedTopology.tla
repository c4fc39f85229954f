------------------------- MODULE MCManagedTopology -------------------------
(* Small instances of ManagedTopology. *)
EXTENDS ManagedTopology, TLC

\* Requests and teams are interchangeable; project ids are not, they are ordered.
Symmetry == Permutations(Requests) \cup Permutations(CommercialTeams)
=============================================================================
