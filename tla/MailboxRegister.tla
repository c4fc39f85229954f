-------------------------- MODULE MailboxRegister --------------------------
(***************************************************************************)
(* What the provisioning channel promises of mailboxes, without calls,     *)
(* statements, keys or retries: a mailbox without an owner is given one and*)
(* the id is answered, in one step, and only erasure frees it again.  A    *)
(* mailbox that has its owner is answered the same id again, which changes *)
(* nothing here.                                                           *)
(***************************************************************************)
CONSTANTS Mailboxes, UserIds, None

VARIABLES
    live,     \* the users there are
    owner,    \* the user each mailbox is bound to, or None
    answers   \* the user ids given to the commercial service per mailbox

vars == <<live, owner, answers>>

Init ==
    /\ live = {}
    /\ owner = [m \in Mailboxes |-> None]
    /\ answers = [m \in Mailboxes |-> {}]

\* An id nobody has heard of.
New(u) == u \notin live /\ \A m \in Mailboxes : owner[m] # u /\ u \notin answers[m]

\* The owner is a new user, or one found before; of them only, the look-up was
\* earlier, and they may be gone.
Provision(m, u) ==
    /\ owner[m] = None
    /\ owner' = [owner EXCEPT ![m] = u]
    /\ \/ live' = live
       \/ New(u) /\ live' = live \cup {u}
    /\ answers' = [answers EXCEPT ![m] = @ \cup {u}]

SignUp(u) ==
    /\ New(u)
    /\ live' = live \cup {u}
    /\ UNCHANGED <<owner, answers>>

\* An erasure frees the user's mailboxes, those excepted that were bound while
\* it was under way.
Erase(u) ==
    /\ u \in live
    /\ live' = live \ {u}
    /\ \E freed \in SUBSET {m \in Mailboxes : owner[m] = u} :
          owner' = [m \in Mailboxes |-> IF m \in freed THEN None ELSE owner[m]]
    /\ UNCHANGED answers

Next ==
    \/ \E m \in Mailboxes, u \in UserIds : Provision(m, u)
    \/ \E u \in UserIds : SignUp(u) \/ Erase(u)

Spec == Init /\ [][Next]_vars
=============================================================================
