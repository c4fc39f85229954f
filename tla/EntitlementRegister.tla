------------------------ MODULE EntitlementRegister ------------------------
(***************************************************************************)
(* What the entitlement channel promises, without requests, transactions   *)
(* or locks: one register per subject that a message either advances,      *)
(* leaves alone or is refused by, in one step ("monotonic per subject,     *)
(* idempotent, and safe to retry in any order").                           *)
(***************************************************************************)
EXTENDS Naturals

CONSTANTS Users, Organizations, Messages, None

VARIABLES
    live,      \* the subjects that exist
    register,  \* the message each subject's state comes from, or None
    acked,     \* messages known to the sender as answered 204
    refused    \* messages known to the sender as refused

vars == <<live, register, acked, refused>>

WellFormed(m) == m.subject \in Users /\ m.organization \in Organizations

SameOrganization(m, row) == row # None /\ row.organization = m.organization

Reflects(row, m) == SameOrganization(m, row) /\ row.revision >= m.revision

Init ==
    /\ live = Users
    /\ register = [u \in Users |-> None]
    /\ acked = {}
    /\ refused = {}

\* The message advances the register; the sender may or may not hear of it.
Store(m) ==
    /\ WellFormed(m)
    /\ \/ register[m.subject] = None
       \/ /\ SameOrganization(m, register[m.subject])
          /\ register[m.subject].revision < m.revision
    /\ register' = [register EXCEPT ![m.subject] = m]
    /\ acked' \in {acked, acked \cup {m}}
    /\ UNCHANGED <<live, refused>>

\* A duplicate, a late message or one for an erased subject changes nothing
\* and is a success.
Acknowledge(m) ==
    /\ WellFormed(m)
    /\ m.subject \in live => Reflects(register[m.subject], m)
    /\ acked' = acked \cup {m}
    /\ UNCHANGED <<live, register, refused>>

Refuse(m) ==
    /\ WellFormed(m) /\ m.subject \in live =>
          /\ register[m.subject] # None
          /\ register[m.subject].organization # m.organization
    /\ refused' = refused \cup {m}
    /\ UNCHANGED <<live, register, acked>>

\* Erasure.  It does not always clear the register: a message stored while the
\* erasure runs may survive it.
Erase(u) ==
    /\ u \in live
    /\ live' = live \ {u}
    /\ register' \in {register, [register EXCEPT ![u] = None]}
    /\ UNCHANGED <<acked, refused>>

Next ==
    \/ \E m \in Messages : Store(m) \/ Acknowledge(m) \/ Refuse(m)
    \/ \E u \in Users : Erase(u)

Spec == Init /\ [][Next]_vars
=============================================================================
