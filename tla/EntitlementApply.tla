-------------------------- MODULE EntitlementApply --------------------------
(***************************************************************************)
(* The entitlement channel's store: BraznApplyEntitlementProjection        *)
(* (pkg/routes/api/v1/brazn_entitlement.go) and models.ApplyEntitlement    *)
(* (pkg/models/brazn_managed_mode.go), run by several requests at once,    *)
(* against DeleteUser (pkg/models/user_delete.go).                         *)
(*                                                                         *)
(* Every request owns one database transaction; one action below is one    *)
(* SQL statement of it, so the statements of different requests interleave.*)
(* A statement that writes a row holds the row (or, for an INSERT, its     *)
(* unique key) until the transaction ends.  RepeatableReads says what a    *)
(* plain SELECT sees: the transaction's first snapshot (MySQL's default)   *)
(* or whatever is committed by then (PostgreSQL's default).  The code asks *)
(* for no isolation level, so both are builds of this program.             *)
(***************************************************************************)
EXTENDS Naturals

CONSTANTS
    Requests,        \* handler invocations, each reused after it answers
    Users,           \* local user ids
    Organizations,   \* organization ids, the empty one not included
    Messages,        \* signed projections the sender may deliver, in any
                     \* order and any number of times
    None,            \* no row, no owner, no pending write
    RepeatableReads  \* what a plain SELECT sees, as above

(***************************************************************************)
(* A message that verified.  Its subject may be no user id at all and its  *)
(* organization may be empty: both are refused, and nothing else in it can *)
(* be out of range.                                                        *)
(***************************************************************************)
WellFormed(m) == m.subject \in Users /\ m.organization \in Organizations

ASSUME MessagesAssumption ==
    /\ \A m \in Messages : WellFormed(m) => m.revision \in Nat
    /\ RepeatableReads \in BOOLEAN

ASSUME NoneAssumption ==
    /\ None \notin Requests
    /\ None \notin Users
    /\ None \notin Messages
    /\ Requests \cap Users = {}

VARIABLES
    live,        \* rows of the users table, by id
    projection,  \* rows of brazn_entitlement_projections, by user_id: the
                 \* message stored (the row's columns are copied from it)
    holder,      \* who holds the row or the unique key of user_id: a request,
                 \* the user's own erasure (named by the user id), or None
    pc,          \* the statement a request executes next
    message,     \* the message a request is applying
    snapshot,    \* the projection row as of the transaction's first SELECT
    erasure,     \* how far the transaction that erases a user has come
    acked,       \* messages the sender has seen answered 204
    refused      \* messages the sender has seen refused

vars == <<live, projection, holder, pc, message, snapshot, erasure, acked, refused>>

Stored(u) == projection[u] # None

\* (fault) the revision is compared before the statement, not in it
AdvancesUnordered(m, row) ==
    /\ row # None
    /\ row.organization = m.organization

\* (fault) the WHERE clause names the user and the revision only
AdvancesAnyOrganization(m, row) ==
    /\ row # None
    /\ row.revision < m.revision

\* WHERE user_id = ? AND organization_id = ? AND revision < ?
Advances(m, row) ==
    /\ row # None
    /\ row.organization = m.organization
    /\ row.revision < m.revision

Init ==
    /\ live = Users
    /\ projection = [u \in Users |-> None]
    /\ holder = [u \in Users |-> None]
    /\ pc = [r \in Requests |-> "idle"]
    /\ message = [r \in Requests |-> None]
    /\ snapshot = [r \in Requests |-> None]
    /\ erasure = [u \in Users |-> "none"]
    /\ acked = {}
    /\ refused = {}

-----------------------------------------------------------------------------
(* How a request ends.  The reply may be lost on its way to the sender.    *)

Finish(r) ==
    /\ pc' = [pc EXCEPT ![r] = "idle"]
    /\ message' = [message EXCEPT ![r] = None]
    /\ snapshot' = [snapshot EXCEPT ![r] = None]

\* (fault) the answer is recorded after the request is reset
Answer204AfterReset(r) ==
    /\ Finish(r)
    /\ acked' \in {acked, acked \cup {message'[r]}}
    /\ UNCHANGED refused

Answer204(r) ==
    /\ Finish(r)
    /\ acked' \in {acked, acked \cup {message[r]}}
    /\ UNCHANGED refused

Refuse(r) ==
    /\ Finish(r)
    /\ refused' \in {refused, refused \cup {message[r]}}
    /\ UNCHANGED acked

-----------------------------------------------------------------------------
(* The handler, statement by statement.                                    *)

\* Verification and the edition check read no state, so a message they turn
\* down never gets here.
Receive(r, m) ==
    /\ pc[r] = "idle"
    /\ pc' = [pc EXCEPT ![r] = "subject"]
    /\ message' = [message EXCEPT ![r] = m]
    /\ UNCHANGED <<live, projection, holder, snapshot, erasure, acked, refused>>

RefuseMalformed(r) ==
    /\ pc[r] = "subject"
    /\ ~ WellFormed(message[r])
    /\ Refuse(r)
    /\ UNCHANGED <<live, projection, holder, erasure>>

\* A well-formed subject with no user behind it: success, nothing stored.
SubjectGone(r) ==
    /\ pc[r] = "subject"
    /\ WellFormed(message[r])
    /\ message[r].subject \notin live
    /\ Answer204(r)
    /\ UNCHANGED <<live, projection, holder, erasure>>

SubjectExists(r) ==
    /\ pc[r] = "subject"
    /\ WellFormed(message[r])
    /\ message[r].subject \in live
    /\ pc' = [pc EXCEPT ![r] = "update"]
    /\ snapshot' = [snapshot EXCEPT ![r] = projection[message[r].subject]]
    /\ UNCHANGED <<live, projection, holder, message, erasure, acked, refused>>

\* The UPDATE finds its row; it waits while another transaction holds it and
\* evaluates its WHERE clause against what that one committed.
UpdateApplies(r) ==
    LET u == message[r].subject IN
    /\ pc[r] = "update"
    /\ Advances(message[r], projection[u])
    /\ holder[u] = None
    /\ holder' = [holder EXCEPT ![u] = r]
    /\ pc' = [pc EXCEPT ![r] = "commit"]
    /\ UNCHANGED <<live, projection, message, snapshot, erasure, acked, refused>>

UpdateChangesNothing(r) ==
    /\ pc[r] = "update"
    /\ ~ Advances(message[r], projection[message[r].subject])
    /\ pc' = [pc EXCEPT ![r] = "read"]
    /\ UNCHANGED <<live, projection, holder, message, snapshot, erasure, acked, refused>>

\* (fault) the row is looked for again, outside the snapshot
SeenAfresh(r) == projection[message[r].subject]

\* The row the SELECT after the UPDATE returns.
Seen(r) == IF RepeatableReads THEN snapshot[r] ELSE projection[message[r].subject]

ReadFindsNone(r) ==
    /\ pc[r] = "read"
    /\ Seen(r) = None
    /\ pc' = [pc EXCEPT ![r] = "insert"]
    /\ UNCHANGED <<live, projection, holder, message, snapshot, erasure, acked, refused>>

ReadFindsOtherOrganization(r) ==
    /\ pc[r] = "read"
    /\ Seen(r) # None
    /\ Seen(r).organization # message[r].organization
    /\ Refuse(r)
    /\ UNCHANGED <<live, projection, holder, erasure>>

\* "The revision did not advance": success, nothing stored.
ReadFindsSameOrganization(r) ==
    /\ pc[r] = "read"
    /\ Seen(r) # None
    /\ Seen(r).organization = message[r].organization
    /\ Answer204(r)
    /\ UNCHANGED <<live, projection, holder, erasure>>

\* The INSERT waits for whoever holds the key.
Insert(r) ==
    LET u == message[r].subject IN
    /\ pc[r] = "insert"
    /\ projection[u] = None
    /\ holder[u] = None
    /\ holder' = [holder EXCEPT ![u] = r]
    /\ pc' = [pc EXCEPT ![r] = "commit"]
    /\ UNCHANGED <<live, projection, message, snapshot, erasure, acked, refused>>

\* The unique constraint on user_id: another request's row won.
KeyTaken(r) ==
    /\ pc[r] = "insert"
    /\ Stored(message[r].subject)
    /\ holder[message[r].subject] = None

InsertConflicts(r) ==
    /\ KeyTaken(r)
    /\ Finish(r)
    /\ UNCHANGED <<live, projection, holder, erasure, acked, refused>>

\* (fault) the handler answers without ending its transaction
CommitWithoutRelease(r) ==
    /\ pc[r] = "commit"
    /\ Answer204(r)
    /\ UNCHANGED <<live, projection, holder, erasure>>

Commit(r) ==
    LET u == message[r].subject IN
    /\ pc[r] = "commit"
    /\ projection' = [projection EXCEPT ![u] = message[r]]
    /\ holder' = [holder EXCEPT ![u] = None]
    /\ Answer204(r)
    /\ UNCHANGED <<live, erasure>>

\* A deadlock, a busy or lost database, or the process dying: the transaction
\* is rolled back and the sender gets no 204.
Fail(r) ==
    /\ pc[r] # "idle"
    /\ holder' = [u \in Users |-> IF holder[u] = r THEN None ELSE holder[u]]
    /\ Finish(r)
    /\ UNCHANGED <<live, projection, erasure, acked, refused>>

Handle(r) ==
    \/ RefuseMalformed(r)
    \/ SubjectGone(r)
    \/ SubjectExists(r)
    \/ UpdateApplies(r)
    \/ UpdateChangesNothing(r)
    \/ ReadFindsNone(r)
    \/ ReadFindsOtherOrganization(r)
    \/ ReadFindsSameOrganization(r)
    \/ Insert(r)
    \/ InsertConflicts(r)
    \/ Commit(r)

-----------------------------------------------------------------------------
(* DeleteUser, one transaction.  Of its statements, two matter here: the   *)
(* DELETE of the projection (through relatedEntities) and, near the end,   *)
(* the DELETE of the users row.                                            *)

\* The DELETE waits for a transaction that holds the row it deletes.  Where no
\* row is committed, PostgreSQL neither sees nor waits for an INSERT in flight;
\* MySQL locks the gap.
EraseProjection(u) ==
    /\ u \in live
    /\ erasure[u] = "none"
    /\ IF Stored(u) \/ RepeatableReads
       THEN holder[u] = None /\ holder' = [holder EXCEPT ![u] = u]
       ELSE UNCHANGED holder
    /\ erasure' = [erasure EXCEPT ![u] = "projection deleted"]
    /\ UNCHANGED <<live, projection, pc, message, snapshot, acked, refused>>

EraseAccount(u) ==
    /\ erasure[u] = "projection deleted"
    /\ live' = live \ {u}
    /\ projection' = [projection EXCEPT ![u] = IF holder[u] = u THEN None ELSE @]
    /\ holder' = [holder EXCEPT ![u] = IF @ = u THEN None ELSE @]
    /\ erasure' = [erasure EXCEPT ![u] = "erased"]
    /\ UNCHANGED <<pc, message, snapshot, acked, refused>>

EraseFails(u) ==
    /\ erasure[u] = "projection deleted"
    /\ holder' = [holder EXCEPT ![u] = IF @ = u THEN None ELSE @]
    /\ erasure' = [erasure EXCEPT ![u] = "none"]
    /\ UNCHANGED <<live, projection, pc, message, snapshot, acked, refused>>

Erase(u) == EraseProjection(u) \/ EraseAccount(u) \/ EraseFails(u)

-----------------------------------------------------------------------------

Next ==
    \/ \E r \in Requests, m \in Messages : Receive(r, m)
    \/ \E r \in Requests : Handle(r) \/ Fail(r)
    \/ \E u \in Users : Erase(u)

Spec == Init /\ [][Next]_vars

Settled(m) == m \in acked \cup refused

(***************************************************************************)
(* The server runs what it has started, an erasure that has begun ends, and*)
(* the sender (external) delivers again what it has no answer to.          *)
(***************************************************************************)
Fairness ==
    /\ \A r \in Requests : WF_vars(Handle(r))
    /\ \A u \in Users : WF_vars(EraseAccount(u) \/ EraseFails(u))
    /\ \A m \in Messages : SF_vars(~ Settled(m) /\ \E r \in Requests : Receive(r, m))

FairSpec == Spec /\ Fairness

\* A step nobody asked for: a transaction that dies, or the answer to a message
\* not answered before that is lost.
Fault ==
    \/ \E r \in Requests : ~ KeyTaken(r) /\ Fail(r)
    \/ \E r \in Requests : /\ Handle(r)
                            /\ pc[r] # "insert"
                            /\ pc'[r] = "idle"
                            /\ message[r] \notin acked' \cup refused'
    \/ \E u \in Users : EraseFails(u)

-----------------------------------------------------------------------------
(* Properties.                                                             *)

TypeOK ==
    /\ live \subseteq Users
    /\ projection \in [Users -> Messages \cup {None}]
    /\ holder \in [Users -> Requests \cup Users \cup {None}]
    /\ pc \in [Requests -> {"idle", "subject", "update", "read", "insert", "commit"}]
    /\ message \in [Requests -> Messages \cup {None}]
    /\ snapshot \in [Requests -> Messages \cup {None}]
    /\ erasure \in [Users -> {"none", "projection deleted", "erased"}]
    /\ acked \subseteq Messages
    /\ refused \subseteq Messages

\* The stored state reflects m: same organization, at its revision or above.
Reflects(row, m) ==
    /\ row # None
    /\ row.organization = m.organization
    /\ row.revision >= m.revision

(***************************************************************************)
(* A 204 means the store is correct for that message: unless the subject   *)
(* has been erased, the stored projection is the message's organization at *)
(* its revision or a later one, whatever else was delivered meanwhile.     *)
(* ("an outcome that leaves the store correct - applied, duplicate or      *)
(* stale - answers 204")                                                   *)
(***************************************************************************)
AckedIsApplied ==
    \A m \in acked : WellFormed(m) /\ m.subject \in live
                       => Reflects(projection[m.subject], m)

(***************************************************************************)
(* A refusal is about the message, never about the moment it arrived: a    *)
(* refused message is malformed, or names another organization than the one*)
(* its subject's projection is anchored to for as long as the subject is   *)
(* there; delivering it again can never succeed.                           *)
(***************************************************************************)
RefusedStaysRefused ==
    \A m \in refused :
        WellFormed(m) /\ m.subject \in live =>
            /\ Stored(m.subject)
            /\ projection[m.subject].organization # m.organization

(***************************************************************************)
(* Monotonic per subject: once a projection is stored no step lowers its   *)
(* revision or moves it to another organization, in whatever order copies  *)
(* of old and new messages arrive; only erasure removes it.                *)
(***************************************************************************)
NeverRollsBack ==
    [][\A u \in Users :
          Stored(u) => \/ projection'[u] = projection[u]
                       \/ /\ projection'[u] = None
                          /\ u \notin live'
                       \/ /\ projection'[u] # None
                          /\ projection'[u].organization = projection[u].organization
                          /\ projection'[u].revision > projection[u].revision]_vars

(***************************************************************************)
(* All the requests, transactions and locks amount to one register per     *)
(* subject (EntitlementRegister), taking each message in one step.         *)
(***************************************************************************)
Register == INSTANCE EntitlementRegister WITH register <- projection

ImplementsRegister == Register!Spec

(***************************************************************************)
(* Every message is answered for good, however many of its copies and      *)
(* replies are lost before, once transactions stop failing.                *)
(***************************************************************************)
EveryMessageSettles ==
    <>[][~ Fault]_vars => \A m \in Messages : <> Settled(m)
=============================================================================
