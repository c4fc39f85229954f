------------------------- MODULE MCEntitlementApply -------------------------
(* Small instances of EntitlementApply. *)
EXTENDS EntitlementApply, TLC

Message(s, o, n) == [subject |-> s, organization |-> o, revision |-> n]

\* One subject, three revisions for one organization, one of another
\* organization, and one whose subject is no user id.
OneSubject ==
    { Message("1", "acme", 1), Message("1", "acme", 2), Message("1", "acme", 3),
      Message("1", "other", 2), Message("-7", "acme", 1) }

\* The least that two deliveries can disagree about, for three at once.
Few == { Message("1", "acme", 1), Message("1", "acme", 2), Message("1", "other", 3) }

RequestSymmetry == Permutations(Requests)
=============================================================================
