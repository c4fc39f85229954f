----------------------- MODULE EntitlementApplyProofs -----------------------
(***************************************************************************)
(* What EntitlementApply guarantees for any number of requests, subjects,  *)
(* organizations and messages.                                             *)
(*                                                                         *)
(* The argument is one inductive invariant, BaseInv.  Its core is          *)
(* ownership: a request about to commit holds its subject's row (Owns,     *)
(* HeldBy), so the row it found has not moved and its message still        *)
(* advances what is stored (Fresh).                                        *)
(* With repeatable reads, SnapshotBehind carries what the missed UPDATE    *)
(* proved over to the SELECT that follows it; without, that part is false  *)
(* and a message can be lost (run entitlement_lost_update).                *)
(***************************************************************************)
EXTENDS EntitlementApply, TLAPS

\* A request that got past the subject check handles a well-formed message.
Handling ==
    \A r \in Requests :
        /\ pc[r] # "idle" => message[r] \in Messages
        /\ pc[r] \notin {"idle", "subject"} => WellFormed(message[r])

\* Rows are stored under the subject they name.
StoredRight ==
    \A u \in Users : Stored(u) => WellFormed(projection[u]) /\ projection[u].subject = u

\* A request about to commit holds its row ...
Owns == \A r \in Requests : pc[r] = "commit" => holder[message[r].subject] = r

\* ... and whoever holds a row is about to write it.
HeldBy ==
    \A u \in Users, r \in Requests :
        holder[u] = r => pc[r] = "commit" /\ message[r].subject = u

HeldByErasure ==
    \A u \in Users, v \in Users :
        holder[u] = v => v = u /\ erasure[u] = "projection deleted"

\* What is about to be committed advances what is stored.
Fresh ==
    \A r \in Requests :
        pc[r] = "commit" =>
            \/ ~ Stored(message[r].subject)
            \/ Advances(message[r], projection[message[r].subject])

ErasedIsGone == \A u \in Users : erasure[u] = "erased" <=> u \notin live

\* While the subject is there, the stored row is at least what the snapshot has.
SnapshotKept ==
    \A r \in Requests :
        pc[r] \in {"update", "read"} /\ snapshot[r] # None /\ message[r].subject \in live =>
            /\ Stored(message[r].subject)
            /\ projection[message[r].subject].organization = snapshot[r].organization

\* An UPDATE that missed a row the snapshot has, missed it for being behind.
SnapshotBehind ==
    \A r \in Requests :
        /\ pc[r] = "read"
        /\ snapshot[r] # None
        /\ snapshot[r].organization = message[r].organization
        /\ message[r].subject \in live
        => Reflects(projection[message[r].subject], message[r])

\* Holds whatever a SELECT sees.
BaseInv ==
    /\ TypeOK
    /\ Handling
    /\ StoredRight
    /\ Owns
    /\ HeldBy
    /\ HeldByErasure
    /\ Fresh
    /\ ErasedIsGone
    /\ SnapshotKept
    /\ SnapshotBehind
    /\ RefusedStaysRefused

-----------------------------------------------------------------------------
\* Everything that is not about r keeps its value.
OthersKept(r) ==
    \A q \in Requests \ {r} :
        pc'[q] = pc[q] /\ message'[q] = message[q] /\ snapshot'[q] = snapshot[q]

(***************************************************************************)
(* A step of r that neither writes nor prepares a write disturbs no other  *)
(* request, and of r only what it learned by reading.                      *)
(***************************************************************************)
LEMMA QuietStep ==
    ASSUME BaseInv, NEW r \in Requests,
           pc[r] # "commit", pc'[r] # "commit",
           OthersKept(r),
           UNCHANGED <<live, projection, holder, erasure>>
    PROVE  /\ StoredRight' /\ Owns' /\ HeldBy' /\ HeldByErasure' /\ Fresh' /\ ErasedIsGone'
           /\ pc'[r] \notin {"update", "read"} => SnapshotKept' /\ SnapshotBehind'
           /\ UNCHANGED refused => RefusedStaysRefused'
<1>1. StoredRight' /\ HeldByErasure' /\ ErasedIsGone'
  BY DEF BaseInv, StoredRight, HeldByErasure, ErasedIsGone, Stored, WellFormed
<1>2. Owns'
  BY DEF BaseInv, Owns, OthersKept
<1>3. HeldBy'
  BY DEF BaseInv, HeldBy, OthersKept
<1>4. Fresh'
  BY DEF BaseInv, Fresh, OthersKept, Stored, Advances
<1>5. ASSUME pc'[r] \notin {"update", "read"} PROVE SnapshotKept' /\ SnapshotBehind'
  BY <1>5 DEF BaseInv, SnapshotKept, SnapshotBehind, OthersKept, Stored, Reflects
<1>6. ASSUME UNCHANGED refused PROVE RefusedStaysRefused'
  BY <1>6 DEF BaseInv, RefusedStaysRefused, Stored, WellFormed
<1> QED
  BY <1>1, <1>2, <1>3, <1>4, <1>5, <1>6

LEMMA FinishKeepsOthers ==
    ASSUME TypeOK, NEW r \in Requests, Finish(r)
    PROVE  OthersKept(r) /\ pc'[r] = "idle"
  BY DEF TypeOK, Finish, OthersKept

LEMMA TypeStep == BaseInv /\ [Next]_vars => TypeOK'
<1> SUFFICES ASSUME BaseInv, [Next]_vars PROVE TypeOK'
  OBVIOUS
<1> USE DEF BaseInv, TypeOK, Handling
<1>1. ASSUME NEW r \in Requests, NEW m \in Messages, Receive(r, m) PROVE TypeOK'
  BY <1>1 DEF Receive
<1>2. ASSUME NEW r \in Requests, Handle(r) PROVE TypeOK'
  <2>1. CASE RefuseMalformed(r)
    BY <2>1 DEF RefuseMalformed, Refuse, Finish
  <2>2. CASE SubjectGone(r)
    BY <2>2 DEF SubjectGone, Answer204, Finish
  <2>3. CASE SubjectExists(r)
    BY <2>3 DEF SubjectExists, WellFormed
  <2>4. CASE UpdateApplies(r)
    BY <2>4 DEF UpdateApplies
  <2>5. CASE UpdateChangesNothing(r)
    BY <2>5 DEF UpdateChangesNothing
  <2>6. CASE ReadFindsNone(r)
    BY <2>6 DEF ReadFindsNone
  <2>7. CASE ReadFindsOtherOrganization(r)
    BY <2>7 DEF ReadFindsOtherOrganization, Refuse, Finish
  <2>8. CASE ReadFindsSameOrganization(r)
    BY <2>8 DEF ReadFindsSameOrganization, Answer204, Finish
  <2>9. CASE Insert(r)
    BY <2>9 DEF Insert
  <2>10. CASE InsertConflicts(r)
    BY <2>10 DEF InsertConflicts, Finish
  <2>11. CASE Commit(r)
    BY <2>11 DEF Commit, Answer204, Finish
  <2> QED
    BY <1>2, <2>1, <2>2, <2>3, <2>4, <2>5, <2>6, <2>7, <2>8, <2>9, <2>10, <2>11 DEF Handle
<1>3. ASSUME NEW r \in Requests, Fail(r) PROVE TypeOK'
  BY <1>3 DEF Fail, Finish
<1>4. ASSUME NEW u \in Users, Erase(u) PROVE TypeOK'
  <2>1. CASE EraseProjection(u)
    BY <2>1 DEF EraseProjection
  <2>2. CASE EraseAccount(u)
    BY <2>2 DEF EraseAccount
  <2>3. CASE EraseFails(u)
    BY <2>3 DEF EraseFails
  <2> QED
    BY <1>4, <2>1, <2>2, <2>3 DEF Erase
<1>5. CASE UNCHANGED vars
  BY <1>5 DEF vars
<1> QED
  BY <1>1, <1>2, <1>3, <1>4, <1>5 DEF Next

LEMMA HandlingStep == BaseInv /\ [Next]_vars => Handling'
<1> SUFFICES ASSUME BaseInv, [Next]_vars PROVE Handling'
  OBVIOUS
<1> USE DEF BaseInv, TypeOK, Handling, WellFormed
<1>1. ASSUME NEW r \in Requests, NEW m \in Messages, Receive(r, m) PROVE Handling'
  BY <1>1 DEF Receive
<1>2. ASSUME NEW r \in Requests, Finish(r) PROVE Handling'
  BY <1>2 DEF Finish
<1>3. ASSUME NEW r \in Requests, Handle(r) PROVE Handling'
  BY <1>2, <1>3 DEF Handle, RefuseMalformed, Refuse, SubjectGone, Answer204, SubjectExists,
     UpdateApplies, UpdateChangesNothing, ReadFindsNone, ReadFindsOtherOrganization,
     ReadFindsSameOrganization, Insert, InsertConflicts, Commit
<1>4. CASE UNCHANGED <<pc, message>>
  BY <1>4
<1> QED
  BY <1>1, <1>2, <1>3, <1>4 DEF Next, Fail, Erase, EraseProjection, EraseAccount, EraseFails, vars

-----------------------------------------------------------------------------
(***************************************************************************)
(* The remaining conjuncts, action by action.                              *)
(***************************************************************************)
Rest ==
    /\ StoredRight /\ Owns /\ HeldBy /\ HeldByErasure /\ Fresh /\ ErasedIsGone
    /\ SnapshotKept /\ SnapshotBehind /\ RefusedStaysRefused

LEMMA ReceiveStep ==
    ASSUME BaseInv, NEW r \in Requests, NEW m \in Messages, Receive(r, m)
    PROVE  Rest'
<1>1. OthersKept(r) /\ pc[r] # "commit" /\ pc'[r] = "subject"
  BY DEF BaseInv, TypeOK, Receive, OthersKept
<1> QED
  BY <1>1, QuietStep DEF Receive, Rest

\* The steps that answer without having written.
LEMMA AnswerStep ==
    ASSUME BaseInv, NEW r \in Requests,
           \/ SubjectGone(r) \/ RefuseMalformed(r) \/ InsertConflicts(r)
           \/ ReadFindsSameOrganization(r) \/ ReadFindsOtherOrganization(r)
    PROVE  Rest'
<1>1. Finish(r) /\ pc[r] # "commit" /\ UNCHANGED <<live, projection, holder, erasure>>
  BY DEF SubjectGone, RefuseMalformed, InsertConflicts, ReadFindsSameOrganization,
     ReadFindsOtherOrganization, Answer204, Refuse, KeyTaken
<1>2. OthersKept(r) /\ pc'[r] = "idle"
  BY <1>1, FinishKeepsOthers DEF BaseInv
<1>3. /\ StoredRight' /\ Owns' /\ HeldBy' /\ HeldByErasure' /\ Fresh' /\ ErasedIsGone'
      /\ SnapshotKept' /\ SnapshotBehind'
      /\ UNCHANGED refused => RefusedStaysRefused'
  BY <1>1, <1>2, QuietStep
<1>4. RefusedStaysRefused'
  <2>1. CASE UNCHANGED refused
    BY <1>3, <2>1
  <2>2. CASE RefuseMalformed(r)
    BY <1>1, <2>2 DEF RefuseMalformed, Refuse, BaseInv, RefusedStaysRefused, WellFormed, Stored
  <2>3. CASE ReadFindsOtherOrganization(r)
    <3>1. message[r].subject \in live =>
             /\ Stored(message[r].subject)
             /\ projection[message[r].subject].organization # message[r].organization
      BY <2>3 DEF ReadFindsOtherOrganization, Seen, BaseInv, SnapshotKept, Stored
    <3> QED
      BY <1>1, <2>3, <3>1 DEF ReadFindsOtherOrganization, Refuse, BaseInv,
         RefusedStaysRefused, WellFormed, Stored
  <2> QED
    BY <2>1, <2>2, <2>3 DEF SubjectGone, InsertConflicts, ReadFindsSameOrganization, Answer204
<1> QED
  BY <1>3, <1>4 DEF Rest

LEMMA SubjectExistsStep ==
    ASSUME BaseInv, NEW r \in Requests, SubjectExists(r)
    PROVE  Rest'
<1>1. OthersKept(r) /\ pc[r] # "commit" /\ pc'[r] = "update"
  BY DEF BaseInv, TypeOK, SubjectExists, OthersKept
<1>2. SnapshotKept'
  BY <1>1 DEF SubjectExists, BaseInv, TypeOK, SnapshotKept, OthersKept, Stored
<1>3. SnapshotBehind'
  BY <1>1 DEF SubjectExists, BaseInv, TypeOK, SnapshotBehind, OthersKept, Reflects
<1> QED
  BY <1>1, <1>2, <1>3, QuietStep DEF SubjectExists, Rest

LEMMA UpdateChangesNothingStep ==
    ASSUME BaseInv, NEW r \in Requests, UpdateChangesNothing(r)
    PROVE  Rest'
<1>1. OthersKept(r) /\ pc[r] # "commit" /\ pc'[r] = "read"
  BY DEF BaseInv, TypeOK, UpdateChangesNothing, OthersKept
<1>2. SnapshotKept'
  BY <1>1 DEF UpdateChangesNothing, BaseInv, SnapshotKept, OthersKept, Stored
<1>3. SnapshotBehind'
  <2> DEFINE row == projection[message[r].subject]
  <2>1. ASSUME snapshot[r] # None, snapshot[r].organization = message[r].organization,
               message[r].subject \in live
        PROVE  Reflects(row, message[r])
    <3>1. row # None /\ row.organization = message[r].organization
      BY <2>1 DEF UpdateChangesNothing, BaseInv, SnapshotKept, Stored
    <3>2. row.revision \in Nat /\ message[r].revision \in Nat
      <4>1. WellFormed(message[r]) /\ message[r] \in Messages
        BY DEF UpdateChangesNothing, BaseInv, Handling
      <4>2. WellFormed(row) /\ row \in Messages
        BY <3>1, <4>1 DEF BaseInv, TypeOK, StoredRight, Stored, WellFormed
      <4> QED
        BY <4>1, <4>2, MessagesAssumption
    <3>3. ~ row.revision < message[r].revision
      BY <3>1 DEF UpdateChangesNothing, Advances
    <3> QED
      BY <3>1, <3>2, <3>3 DEF Reflects
  <2> QED
    BY <1>1, <2>1 DEF UpdateChangesNothing, BaseInv, SnapshotBehind, OthersKept, Reflects
<1> QED
  BY <1>1, <1>2, <1>3, QuietStep DEF UpdateChangesNothing, Rest

LEMMA ReadFindsNoneStep ==
    ASSUME BaseInv, NEW r \in Requests, ReadFindsNone(r)
    PROVE  Rest'
<1>1. OthersKept(r) /\ pc[r] # "commit" /\ pc'[r] = "insert"
  BY DEF BaseInv, TypeOK, ReadFindsNone, OthersKept
<1> QED
  BY <1>1, QuietStep DEF ReadFindsNone, Rest

\* An UPDATE that applies and an INSERT take the row and go on to commit.
LEMMA TakeStep ==
    ASSUME BaseInv, NEW r \in Requests, UpdateApplies(r) \/ Insert(r)
    PROVE  Rest'
<1> DEFINE u == message[r].subject
<1>1. /\ u \in Users /\ holder[u] = None /\ holder' = [holder EXCEPT ![u] = r]
      /\ pc[r] # "commit" /\ pc' = [pc EXCEPT ![r] = "commit"]
      /\ projection[u] = None \/ Advances(message[r], projection[u])
      /\ UNCHANGED <<live, projection, message, snapshot, erasure, acked, refused>>
  BY DEF UpdateApplies, Insert, BaseInv, Handling, WellFormed
<1>2. /\ holder \in [Users -> Requests \cup Users \cup {None}]
      /\ pc \in [Requests -> {"idle", "subject", "update", "read", "insert", "commit"}]
  BY DEF BaseInv, TypeOK
<1>3. StoredRight' /\ ErasedIsGone' /\ RefusedStaysRefused'
  BY <1>1 DEF BaseInv, StoredRight, ErasedIsGone, RefusedStaysRefused, Stored, WellFormed
<1>4. Owns'
  <2> SUFFICES ASSUME NEW q \in Requests, pc'[q] = "commit"
               PROVE  holder'[message[q].subject] = q
    BY <1>1 DEF Owns
  <2>1. CASE q = r
    BY <1>1, <1>2, <2>1
  <2>2. CASE q # r
    <3>1. pc[q] = "commit" /\ holder[message[q].subject] = q /\ message[q].subject \in Users
      BY <1>1, <1>2, <2>2 DEF BaseInv, Owns, Handling, WellFormed
    <3> QED
      BY <1>1, <1>2, <3>1, NoneAssumption
  <2> QED
    BY <2>1, <2>2
<1>5. HeldBy'
  BY <1>1, <1>2 DEF BaseInv, HeldBy
<1>6. HeldByErasure'
  BY <1>1, <1>2, NoneAssumption DEF BaseInv, HeldByErasure
<1>7. Fresh'
  BY <1>1, <1>2 DEF BaseInv, Fresh, Stored, Advances
<1>8. SnapshotKept' /\ SnapshotBehind'
  BY <1>1, <1>2 DEF BaseInv, SnapshotKept, SnapshotBehind, Stored, Reflects
<1> QED
  BY <1>3, <1>4, <1>5, <1>6, <1>7, <1>8 DEF Rest

LEMMA CommitStep ==
    ASSUME BaseInv, NEW r \in Requests, Commit(r)
    PROVE  Rest'
<1> DEFINE u == message[r].subject
<1>1. /\ u \in Users /\ message[r] \in Messages /\ WellFormed(message[r])
      /\ holder[u] = r
      /\ projection[u] = None \/ Advances(message[r], projection[u])
  BY DEF Commit, BaseInv, Handling, WellFormed, Owns, Fresh, Stored
<1>2. OthersKept(r) /\ pc'[r] = "idle"
  BY FinishKeepsOthers DEF Commit, Answer204, BaseInv
<1>3. /\ projection'[u] = message[r] /\ holder'[u] = None
      /\ \A v \in Users \ {u} : projection'[v] = projection[v] /\ holder'[v] = holder[v]
      /\ UNCHANGED <<live, erasure, refused>>
  BY <1>1 DEF Commit, Answer204, BaseInv, TypeOK
<1>4. \A q \in Requests \ {r} : pc[q] = "commit" => message[q].subject \in Users \ {u}
  BY <1>1 DEF BaseInv, Owns, Handling, WellFormed
<1>5. StoredRight'
  BY <1>1, <1>3 DEF BaseInv, StoredRight, Stored, WellFormed
<1>6. Owns'
  BY <1>2, <1>3, <1>4 DEF BaseInv, Owns, OthersKept
<1>7. HeldBy' /\ HeldByErasure'
  <2>1. HeldBy'
    BY <1>1, <1>2, <1>3, NoneAssumption DEF BaseInv, HeldBy, OthersKept
  <2>2. HeldByErasure'
    BY <1>1, <1>3, NoneAssumption DEF BaseInv, HeldByErasure
  <2> QED
    BY <2>1, <2>2
<1>8. Fresh'
  BY <1>2, <1>3, <1>4 DEF BaseInv, Fresh, OthersKept, Stored, Advances
<1>9. ErasedIsGone'
  BY <1>3 DEF BaseInv, ErasedIsGone
<1>10. message[r] # None
  BY <1>1, NoneAssumption
<1>11. \A q \in Requests \ {r} : pc[q] \in {"update", "read"} => message[q].subject \in Users
  BY DEF BaseInv, Handling, WellFormed
<1>12. SnapshotKept'
  BY <1>1, <1>2, <1>3, <1>10, <1>11
     DEF BaseInv, SnapshotKept, OthersKept, Stored, Advances
<1>13. SnapshotBehind'
  <2> SUFFICES ASSUME NEW q \in Requests \ {r}, pc[q] = "read", snapshot[q] # None,
                      snapshot[q].organization = message[q].organization,
                      message[q].subject \in live
               PROVE  Reflects(projection'[message[q].subject], message[q])
    BY <1>2, <1>3 DEF SnapshotBehind, OthersKept, Reflects
  <2>1. Reflects(projection[message[q].subject], message[q])
    BY DEF BaseInv, SnapshotBehind
  <2>2. CASE message[q].subject # u
    BY <1>3, <1>11, <2>1, <2>2
  <2>3. CASE message[q].subject = u
    <3>1. Advances(message[r], projection[u])
      BY <1>1, <2>1, <2>3 DEF Reflects
    <3>2. message[r].revision \in Nat
      BY <1>1, MessagesAssumption
    <3>3. message[q].revision \in Nat
      <4>1. message[q] \in Messages /\ WellFormed(message[q])
        BY DEF BaseInv, Handling
      <4> QED
        BY <4>1, MessagesAssumption
    <3>4. projection[u].revision \in Nat
      <4>1. projection[u] \in Messages /\ WellFormed(projection[u])
        BY <1>1, <2>1, <2>3 DEF BaseInv, TypeOK, StoredRight, Stored, Reflects
      <4> QED
        BY <4>1, MessagesAssumption
    <3>5. message[r].organization = message[q].organization
      BY <2>1, <2>3, <3>1 DEF Reflects, Advances
    <3>6. message[r].revision >= message[q].revision
      BY <2>1, <2>3, <3>1, <3>2, <3>3, <3>4 DEF Reflects, Advances
    <3>7. projection'[message[q].subject] = message[r]
      BY <1>3, <2>3
    <3> QED
      BY <1>10, <3>5, <3>6, <3>7 DEF Reflects
  <2> QED
    BY <2>2, <2>3
<1>14. RefusedStaysRefused'
  BY <1>1, <1>3, <1>10 DEF BaseInv, RefusedStaysRefused, Stored, Advances, WellFormed
<1> QED
  BY <1>5, <1>6, <1>7, <1>8, <1>9, <1>12, <1>13, <1>14 DEF Rest

LEMMA FailStep ==
    ASSUME BaseInv, NEW r \in Requests, Fail(r)
    PROVE  Rest'
<1>1. OthersKept(r) /\ pc'[r] = "idle"
  BY FinishKeepsOthers DEF Fail, BaseInv
<1>2. /\ \A v \in Users : holder'[v] = IF holder[v] = r THEN None ELSE holder[v]
      /\ UNCHANGED <<live, projection, erasure, refused>>
  BY DEF Fail
<1>3. StoredRight' /\ ErasedIsGone' /\ RefusedStaysRefused'
  BY <1>2 DEF BaseInv, StoredRight, ErasedIsGone, RefusedStaysRefused, Stored, WellFormed
<1>4. Owns'
  BY <1>1, <1>2 DEF BaseInv, Owns, OthersKept, Handling, WellFormed
<1>5. HeldBy'
  BY <1>1, <1>2, NoneAssumption DEF BaseInv, HeldBy, OthersKept
<1>6. HeldByErasure'
  BY <1>2, NoneAssumption DEF BaseInv, HeldByErasure
<1>7. Fresh'
  BY <1>1, <1>2 DEF BaseInv, Fresh, OthersKept, Stored, Advances
<1>8. SnapshotKept' /\ SnapshotBehind'
  BY <1>1, <1>2 DEF BaseInv, SnapshotKept, SnapshotBehind, OthersKept, Stored, Reflects
<1> QED
  BY <1>3, <1>4, <1>5, <1>6, <1>7, <1>8 DEF Rest

\* What every step of an erasure has in common: it takes or gives up its own
\* hold on the subject's row and lets requests be.
LEMMA EraseStep ==
    ASSUME BaseInv, NEW u \in Users, Erase(u)
    PROVE  Rest'
<1>1. UNCHANGED <<pc, message, snapshot, refused>>
  BY DEF Erase, EraseProjection, EraseAccount, EraseFails
<1>2. /\ holder'[u] \in {holder[u], u, None}
      /\ holder'[u] # holder[u] => holder[u] \in {None, u}
      /\ \A v \in Users \ {u} : holder'[v] = holder[v] /\ erasure'[v] = erasure[v]
  BY DEF Erase, EraseProjection, EraseAccount, EraseFails, BaseInv, TypeOK
<1>3. /\ live' \subseteq live
      /\ \A v \in Users \ {u} : projection'[v] = projection[v] /\ (v \in live' <=> v \in live)
      /\ u \in live' <=> erasure'[u] # "erased"
      /\ u \in live' => projection'[u] = projection[u]
      /\ projection'[u] # projection[u] => projection'[u] = None /\ holder[u] = u
  BY DEF Erase, EraseProjection, EraseAccount, EraseFails, BaseInv, TypeOK, ErasedIsGone
<1>4. StoredRight' /\ ErasedIsGone'
  BY <1>3, <1>2 DEF BaseInv, StoredRight, ErasedIsGone, Stored, WellFormed
<1>5. Owns'
  BY <1>1, <1>2, NoneAssumption DEF BaseInv, Owns, Handling, WellFormed
<1>6. HeldBy'
  BY <1>1, <1>2, NoneAssumption DEF BaseInv, HeldBy
<1>7. HeldByErasure'
  <2>1. holder'[u] = u => erasure'[u] = "projection deleted"
    <3>1. CASE EraseProjection(u)
      BY <3>1 DEF EraseProjection, BaseInv, TypeOK, HeldByErasure
    <3>2. CASE EraseAccount(u) \/ EraseFails(u)
      <4>1. holder'[u] = IF holder[u] = u THEN None ELSE holder[u]
        BY <3>2 DEF EraseAccount, EraseFails, BaseInv, TypeOK
      <4> QED
        BY <4>1, NoneAssumption
    <3> QED
      BY <3>1, <3>2 DEF Erase
  <2> QED
    BY <1>2, <2>1, NoneAssumption DEF BaseInv, HeldByErasure
<1>8. Fresh'
  <2> SUFFICES ASSUME NEW q \in Requests, pc[q] = "commit"
               PROVE  \/ projection'[message[q].subject] = None
                      \/ Advances(message[q], projection'[message[q].subject])
    BY <1>1 DEF Fresh, Stored, Advances
  <2> QED
    BY <1>3 DEF BaseInv, Fresh, Handling, WellFormed, Stored
<1>9. \A q \in Requests : pc[q] \in {"update", "read"} => message[q].subject \in Users
  BY DEF BaseInv, Handling, WellFormed
<1>10. SnapshotKept'
  BY <1>1, <1>3, <1>9 DEF BaseInv, SnapshotKept, Stored
<1>11. SnapshotBehind'
  BY <1>1, <1>3, <1>9 DEF BaseInv, SnapshotBehind, Reflects
<1>12. RefusedStaysRefused'
  BY <1>1, <1>3 DEF BaseInv, RefusedStaysRefused, Stored, WellFormed
<1> QED
  BY <1>4, <1>5, <1>6, <1>7, <1>8, <1>10, <1>11, <1>12 DEF Rest

LEMMA BaseInvInit == Init => BaseInv
  BY NoneAssumption DEF Init, BaseInv, TypeOK, Handling, StoredRight, Owns, HeldBy, HeldByErasure,
     Fresh, ErasedIsGone, SnapshotKept, SnapshotBehind, RefusedStaysRefused, Stored

LEMMA BaseInvStep == BaseInv /\ [Next]_vars => BaseInv'
<1> SUFFICES ASSUME BaseInv, [Next]_vars PROVE Rest'
  BY TypeStep, HandlingStep DEF BaseInv, Rest
<1>1. ASSUME NEW r \in Requests, NEW m \in Messages, Receive(r, m) PROVE Rest'
  BY <1>1, ReceiveStep
<1>2. ASSUME NEW r \in Requests, Handle(r) PROVE Rest'
  BY <1>2, AnswerStep, SubjectExistsStep, UpdateChangesNothingStep, ReadFindsNoneStep,
     TakeStep, CommitStep DEF Handle
<1>3. ASSUME NEW r \in Requests, Fail(r) PROVE Rest'
  BY <1>3, FailStep
<1>4. ASSUME NEW u \in Users, Erase(u) PROVE Rest'
  BY <1>4, EraseStep
<1>5. CASE UNCHANGED vars
  <2>1. StoredRight' /\ Owns' /\ ErasedIsGone'
    BY <1>5 DEF vars, BaseInv, StoredRight, Owns, ErasedIsGone, Stored, WellFormed
  <2>2. Fresh' /\ SnapshotKept' /\ SnapshotBehind' /\ RefusedStaysRefused'
    BY <1>5 DEF vars, BaseInv, Fresh, SnapshotKept, SnapshotBehind, RefusedStaysRefused, Stored,
       WellFormed, Advances, Reflects
  <2>3. HeldBy' /\ HeldByErasure'
    BY <1>5 DEF vars, BaseInv, HeldBy, HeldByErasure
  <2> QED
    BY <2>1, <2>2, <2>3 DEF Rest
<1> QED
  BY <1>1, <1>2, <1>3, <1>4, <1>5 DEF Next

-----------------------------------------------------------------------------
(* The theorems.                                                           *)

LEMMA BaseInvariance == Spec => []BaseInv
  BY BaseInvInit, BaseInvStep, PTL DEF Spec

(***************************************************************************)
(* Every variable keeps its type.                                          *)
(***************************************************************************)
THEOREM TypeCorrect == Spec => []TypeOK
<1>1. BaseInv => TypeOK
  BY DEF BaseInv
<1> QED
  BY <1>1, BaseInvariance, PTL

(***************************************************************************)
(* ApplyEntitlement refuses only what it will always refuse, whatever a    *)
(* SELECT sees: the refusal that would block an erasure for good is never  *)
(* given because of the moment a message arrived.                          *)
(***************************************************************************)
THEOREM RefusalIsFinal == Spec => []RefusedStaysRefused
<1>1. BaseInv => RefusedStaysRefused
  BY DEF BaseInv
<1> QED
  BY <1>1, BaseInvariance, PTL

(***************************************************************************)
(* The WHERE clause of the UPDATE and the unique key of the INSERT make the*)
(* store monotonic per subject, under either isolation level.              *)
(***************************************************************************)
THEOREM Monotonic == Spec => NeverRollsBack
<1> DEFINE Forward(u) ==
             Stored(u) => \/ projection'[u] = projection[u]
                          \/ /\ projection'[u] = None
                             /\ u \notin live'
                          \/ /\ projection'[u] # None
                             /\ projection'[u].organization = projection[u].organization
                             /\ projection'[u].revision > projection[u].revision
<1>1. BaseInv /\ [Next]_vars => [\A u \in Users : Forward(u)]_vars
  <2> SUFFICES ASSUME BaseInv, [Next]_vars, NEW u \in Users PROVE Forward(u)
    OBVIOUS
  <2>1. CASE UNCHANGED projection
    BY <2>1
  <2>2. ASSUME NEW r \in Requests, Commit(r) PROVE Forward(u)
    <3>1. message[r] # None /\ message[r] \in Messages /\ WellFormed(message[r])
      BY <2>2, NoneAssumption DEF Commit, BaseInv, Handling
    <3>2. CASE message[r].subject # u
      BY <2>2, <3>2 DEF Commit, BaseInv, TypeOK
    <3>3. CASE message[r].subject = u /\ Stored(u)
      <4>1. projection'[u] = message[r] /\ Advances(message[r], projection[u])
        BY <2>2, <3>3 DEF Commit, BaseInv, TypeOK, Fresh
      <4>2. message[r].revision \in Nat /\ projection[u].revision \in Nat
        BY <3>1, <3>3, MessagesAssumption DEF BaseInv, TypeOK, StoredRight, Stored
      <4> QED
        BY <3>1, <4>1, <4>2 DEF Advances
    <3> QED
      BY <3>2, <3>3
  <2>3. ASSUME NEW v \in Users, EraseAccount(v) PROVE Forward(u)
    BY <2>3 DEF EraseAccount, BaseInv, TypeOK
  <2> QED
    BY <2>1, <2>2, <2>3 DEF Next, Receive, Handle, RefuseMalformed, SubjectGone, SubjectExists,
       UpdateApplies, UpdateChangesNothing, ReadFindsNone, ReadFindsOtherOrganization,
       ReadFindsSameOrganization, Insert, InsertConflicts, Fail, Erase, EraseProjection,
       EraseFails, vars
<1> QED
  BY <1>1, BaseInvariance, PTL DEF NeverRollsBack, Spec

-----------------------------------------------------------------------------
(* What a 204 means: where a SELECT is repeatable, or where one subject's  *)
(* messages are handled in turn.                                           *)

\* What the SELECT after the missed UPDATE returns is no staler than that
\* UPDATE was.
SeenBehind ==
    \A r \in Requests :
        /\ pc[r] = "read"
        /\ Seen(r) # None
        /\ Seen(r).organization = message[r].organization
        /\ message[r].subject \in live
        => Reflects(projection[message[r].subject], message[r])

\* No two requests are at work on one subject; any number on different ones.
InTurn ==
    \A r, q \in Requests :
        /\ pc[r] # "idle"
        /\ pc[q] # "idle"
        /\ message[r].subject = message[q].subject
        => r = q

LEMMA RepeatableSeenBehind == RepeatableReads /\ BaseInv => SeenBehind
  BY DEF SeenBehind, Seen, BaseInv, SnapshotBehind

\* In turn, nobody commits between the UPDATE that misses and the SELECT.
LEMMA InTurnSeenBehind ==
    ASSUME InTurn, BaseInv, SeenBehind, [Next]_vars
    PROVE  SeenBehind'
<1>1. CASE RepeatableReads
  BY <1>1, BaseInvStep, RepeatableSeenBehind DEF SeenBehind, Seen, BaseInv, SnapshotBehind
<1>2. CASE ~ RepeatableReads
  <2> SUFFICES ASSUME NEW r \in Requests, pc'[r] = "read",
                      projection'[message'[r].subject] # None,
                      projection'[message'[r].subject].organization = message'[r].organization,
                      message'[r].subject \in live'
               PROVE  Reflects(projection'[message'[r].subject], message'[r])
    BY <1>2 DEF SeenBehind, Seen
  <2> DEFINE u == message[r].subject
  <2>1. ASSUME pc[r] = "read", message'[r] = message[r], live' \subseteq live,
               projection'[u] = projection[u]
        PROVE  Reflects(projection'[message'[r].subject], message'[r])
    BY <1>2, <2>1 DEF SeenBehind, Seen
  <2>2. ASSUME UpdateChangesNothing(r) PROVE Reflects(projection'[message'[r].subject], message'[r])
    <3>1. /\ message' = message /\ projection' = projection
          /\ pc[r] = "update" /\ ~ Advances(message[r], projection[u])
      BY <2>2 DEF UpdateChangesNothing
    <3>2. message[r] \in Messages /\ WellFormed(message[r]) /\ message[r].revision \in Nat
      BY <3>1, MessagesAssumption DEF BaseInv, Handling
    <3>3. Stored(u) /\ projection[u].revision \in Nat
      BY <3>1, <3>2, MessagesAssumption DEF BaseInv, TypeOK, StoredRight, Stored, WellFormed
    <3> QED
      BY <3>1, <3>2, <3>3 DEF Advances, Reflects, Stored
  <2>3. ASSUME NEW q \in Requests, Handle(q) \/ Fail(q), pc'[q] # "read", q # r
        PROVE  Reflects(projection'[message'[r].subject], message'[r])
    <3>1. pc[q] # "idle" /\ pc[r] = "read" /\ message'[r] = message[r] /\ live' = live
      BY <2>3 DEF Handle, RefuseMalformed, SubjectGone, SubjectExists, UpdateApplies,
         UpdateChangesNothing, ReadFindsNone, ReadFindsOtherOrganization,
         ReadFindsSameOrganization, Insert, InsertConflicts, KeyTaken, Commit, Fail, Answer204,
         Refuse, Finish, BaseInv, TypeOK
    <3>2. message[q].subject # u
      BY <2>3, <3>1 DEF InTurn
    <3>3. projection' = projection \/ projection' = [projection EXCEPT ![message[q].subject] = message[q]]
      BY <2>3 DEF Handle, RefuseMalformed, SubjectGone, SubjectExists, UpdateApplies,
         UpdateChangesNothing, ReadFindsNone, ReadFindsOtherOrganization,
         ReadFindsSameOrganization, Insert, InsertConflicts, Commit, Fail
    <3>4. u \in Users /\ projection'[u] = projection[u]
      BY <3>1, <3>2, <3>3 DEF BaseInv, TypeOK, Handling, WellFormed
    <3> QED
      BY <2>1, <3>1, <3>4
  <2>4. ASSUME NEW q \in Requests, UpdateChangesNothing(q), q # r
        PROVE  Reflects(projection'[message'[r].subject], message'[r])
    <3>1. pc[r] = "read" /\ message' = message /\ live' = live /\ projection' = projection
      BY <2>4 DEF UpdateChangesNothing, BaseInv, TypeOK
    <3> QED
      BY <2>1, <3>1
  <2>5. ASSUME Handle(r) \/ Fail(r) PROVE UpdateChangesNothing(r)
    BY <2>5 DEF Handle, RefuseMalformed, SubjectGone, SubjectExists, UpdateApplies, ReadFindsNone,
       ReadFindsOtherOrganization, ReadFindsSameOrganization, Insert, InsertConflicts, Commit,
       Fail, Answer204, Refuse, Finish, BaseInv, TypeOK
  <2>6. ASSUME NEW q \in Requests, NEW m \in Messages, Receive(q, m)
        PROVE  Reflects(projection'[message'[r].subject], message'[r])
    <3>1. q # r /\ pc[r] = "read" /\ message'[r] = message[r] /\ live' = live
          /\ projection' = projection
      BY <2>6 DEF Receive, BaseInv, TypeOK
    <3> QED
      BY <2>1, <3>1
  <2>7. ASSUME NEW v \in Users, Erase(v)
        PROVE  Reflects(projection'[message'[r].subject], message'[r])
    <3>1. pc' = pc /\ message' = message /\ live' \subseteq live
      BY <2>7 DEF Erase, EraseProjection, EraseAccount, EraseFails
    <3>2. u \in Users
      BY <3>1 DEF BaseInv, Handling, WellFormed
    <3>3. projection'[u] = projection[u] \/ projection'[u] = None
      BY <2>7, <3>2 DEF Erase, EraseProjection, EraseAccount, EraseFails, BaseInv, TypeOK
    <3> QED
      BY <2>1, <3>1, <3>3
  <2>8. CASE UNCHANGED vars
    BY <2>1, <2>8 DEF vars
  <2> QED
    <3>1. ASSUME NEW q \in Requests, Handle(q) \/ Fail(q), q # r
          PROVE  pc'[q] # "read" \/ UpdateChangesNothing(q)
      BY <3>1 DEF Handle, RefuseMalformed, SubjectGone, SubjectExists, UpdateApplies,
         ReadFindsNone, ReadFindsOtherOrganization, ReadFindsSameOrganization, Insert,
         InsertConflicts, Commit, Fail, Answer204, Refuse, Finish, BaseInv, TypeOK
    <3> QED
      BY <2>2, <2>3, <2>4, <2>5, <2>6, <2>7, <2>8, <3>1 DEF Next
<1> QED
  BY <1>1, <1>2

LEMMA InTurnInvariance == Spec /\ []InTurn => []SeenBehind
<1>1. Init => SeenBehind
  BY DEF Init, SeenBehind
<1>2. InTurn /\ BaseInv /\ SeenBehind /\ [Next]_vars => SeenBehind'
  BY InTurnSeenBehind
<1> QED
  BY <1>1, <1>2, BaseInvariance, PTL DEF Spec

\* The answers given without a write are given for messages already reflected.
LEMMA AnswerIsEarned ==
    ASSUME BaseInv, SeenBehind, NEW r \in Requests,
           SubjectGone(r) \/ ReadFindsSameOrganization(r)
    PROVE  /\ message[r] \in Messages /\ WellFormed(message[r])
           /\ message[r].subject \in live => Reflects(projection[message[r].subject], message[r])
  BY DEF SubjectGone, ReadFindsSameOrganization, BaseInv, Handling, SeenBehind

LEMMA AckedStep ==
    ASSUME BaseInv, SeenBehind, AckedIsApplied, [Next]_vars
    PROVE  AckedIsApplied'
<1> SUFFICES ASSUME NEW m \in acked', WellFormed(m), m.subject \in live'
             PROVE  Reflects(projection'[m.subject], m)
  BY DEF AckedIsApplied, WellFormed
<1>1. m \in Messages
  BY BaseInvStep DEF BaseInv, TypeOK
<1>2. m.subject \in Users /\ m.revision \in Nat
  BY <1>1, MessagesAssumption DEF WellFormed
<1>3. ASSUME NEW r \in Requests, Commit(r) PROVE Reflects(projection'[m.subject], m)
  <2>1. /\ message[r] \in Messages /\ message[r] # None /\ WellFormed(message[r])
        /\ message[r].revision \in Nat
        /\ \/ projection[message[r].subject] = None
           \/ Advances(message[r], projection[message[r].subject])
    BY <1>3, MessagesAssumption, NoneAssumption DEF Commit, BaseInv, Handling, Fresh, Stored
  <2>2. projection' = [projection EXCEPT ![message[r].subject] = message[r]] /\ live' = live
    BY <1>3 DEF Commit
  <2>. projection'[message[r].subject] = message[r]
    BY <2>1, <2>2 DEF BaseInv, TypeOK, WellFormed
  <2>3. CASE m = message[r]
    BY <1>2, <2>1, <2>3 DEF Reflects
  <2>4. CASE m # message[r]
    <3>1. m \in acked /\ Reflects(projection[m.subject], m)
      BY <1>3, <2>2, <2>4 DEF Commit, Answer204, AckedIsApplied
    <3>2. CASE m.subject = message[r].subject
      <4>1. projection[m.subject].revision \in Nat
        BY <1>2, <3>1, MessagesAssumption DEF Reflects, BaseInv, TypeOK, StoredRight, Stored
      <4> QED
        BY <1>2, <2>1, <3>1, <3>2, <4>1 DEF Reflects, Advances
    <3>3. CASE m.subject # message[r].subject
      BY <1>2, <2>2, <3>1, <3>3 DEF BaseInv, TypeOK
    <3> QED
      BY <3>2, <3>3
  <2> QED
    BY <2>3, <2>4
<1>4. ASSUME NEW r \in Requests, SubjectGone(r) \/ ReadFindsSameOrganization(r)
      PROVE  Reflects(projection'[m.subject], m)
  <2>1. UNCHANGED <<projection, live>> /\ acked' \in {acked, acked \cup {message[r]}}
    BY <1>4 DEF SubjectGone, ReadFindsSameOrganization, Answer204
  <2> QED
    BY <1>4, <2>1, AnswerIsEarned DEF AckedIsApplied
<1>5. ASSUME NEW v \in Users, EraseAccount(v) PROVE Reflects(projection'[m.subject], m)
  BY <1>2, <1>5 DEF EraseAccount, AckedIsApplied, BaseInv, TypeOK
<1>6. CASE UNCHANGED <<live, projection, acked>>
  BY <1>6 DEF AckedIsApplied
<1> QED
  BY <1>3, <1>4, <1>5, <1>6 DEF Next, Receive, Handle, RefuseMalformed, Refuse, SubjectExists,
     UpdateApplies, UpdateChangesNothing, ReadFindsNone, ReadFindsOtherOrganization, Insert,
     InsertConflicts, Fail, Erase, EraseProjection, EraseFails, vars

(***************************************************************************)
(* On a database whose SELECT is repeatable, a 204 means the projection is *)
(* in force or superseded, for any number of concurrent deliveries.        *)
(***************************************************************************)
THEOREM AcknowledgedIsApplied == RepeatableReads /\ Spec => []AckedIsApplied
<1>1. Init => AckedIsApplied
  BY DEF Init, AckedIsApplied
<1>2. RepeatableReads /\ BaseInv /\ AckedIsApplied /\ [Next]_vars => AckedIsApplied'
  BY AckedStep, RepeatableSeenBehind
<1>3. CASE RepeatableReads
  <2>1. BaseInv /\ AckedIsApplied /\ [Next]_vars => AckedIsApplied'
    BY <1>2, <1>3
  <2>2. Spec => []AckedIsApplied
    BY <1>1, <2>1, BaseInvariance, PTL DEF Spec
  <2> QED
    BY <2>2
<1>4. CASE ~ RepeatableReads
  BY <1>4
<1> QED
  BY <1>3, <1>4

(***************************************************************************)
(* On either kind of database a 204 means the same as long as no two       *)
(* requests are at work on one subject at once: the lost message of run    *)
(* entitlement_lost_update takes two deliveries about one user in flight   *)
(* together, and nothing less.                                             *)
(***************************************************************************)
THEOREM AcknowledgedInTurn == Spec /\ []InTurn => []AckedIsApplied
<1>1. Init => AckedIsApplied
  BY DEF Init, AckedIsApplied
<1>2. BaseInv /\ SeenBehind /\ AckedIsApplied /\ [Next]_vars => AckedIsApplied'
  BY AckedStep
<1> QED
  BY <1>1, <1>2, BaseInvariance, InTurnInvariance, PTL DEF Spec

-----------------------------------------------------------------------------
(* Refinement.                                                             *)

\* Every step is one of the register, or invisible there.
LEMMA RegisterStep ==
    ASSUME BaseInv, SeenBehind, [Next]_vars
    PROVE  [Register!Next]_(Register!vars)
<1> USE DEF Register!WellFormed, Register!SameOrganization, Register!Reflects
<1>1. ASSUME NEW r \in Requests, Commit(r) PROVE Register!Store(message[r]) /\ message[r] \in Messages
  BY <1>1 DEF Commit, Answer204, BaseInv, Handling, Fresh, Register!Store, WellFormed,
     Stored, Advances
<1>2. ASSUME NEW r \in Requests, SubjectGone(r) \/ ReadFindsSameOrganization(r)
      PROVE  \/ Register!Acknowledge(message[r]) /\ message[r] \in Messages
             \/ UNCHANGED Register!vars
  <2>1. /\ message[r] \in Messages /\ Register!WellFormed(message[r])
        /\ message[r].subject \in live
              => Register!Reflects(projection[message[r].subject], message[r])
    BY <1>2, AnswerIsEarned DEF WellFormed, Reflects
  <2>2. /\ UNCHANGED <<live, projection, refused>>
        /\ acked' \in {acked, acked \cup {message[r]}}
    BY <1>2 DEF SubjectGone, ReadFindsSameOrganization, Answer204
  <2> QED
    BY <2>1, <2>2 DEF Register!Acknowledge, Register!vars
<1>3. ASSUME NEW r \in Requests, RefuseMalformed(r) \/ ReadFindsOtherOrganization(r)
      PROVE  \/ Register!Refuse(message[r]) /\ message[r] \in Messages
             \/ UNCHANGED Register!vars
  <2>1. message[r] \in Messages
    BY <1>3 DEF RefuseMalformed, ReadFindsOtherOrganization, BaseInv, Handling
  <2>2. /\ UNCHANGED <<live, projection, acked>>
        /\ refused' \in {refused, refused \cup {message[r]}}
    BY <1>3 DEF RefuseMalformed, ReadFindsOtherOrganization, Refuse
  <2>3. Register!WellFormed(message[r]) /\ message[r].subject \in live =>
           /\ projection[message[r].subject] # None
           /\ projection[message[r].subject].organization # message[r].organization
    BY <1>3 DEF RefuseMalformed, ReadFindsOtherOrganization, WellFormed, Seen, BaseInv,
       SnapshotKept, Stored
  <2> QED
    BY <2>1, <2>2, <2>3 DEF Register!Refuse, Register!vars
<1>4. ASSUME NEW v \in Users, EraseAccount(v) PROVE Register!Erase(v)
  <2>1. v \in live
    BY <1>4 DEF EraseAccount, BaseInv, ErasedIsGone
  <2>2. projection' \in {projection, [projection EXCEPT ![v] = None]}
    BY <1>4 DEF EraseAccount, BaseInv, TypeOK
  <2> QED
    BY <1>4, <2>1, <2>2 DEF EraseAccount, Register!Erase
<1>5. CASE UNCHANGED <<live, projection, acked, refused>>
  BY <1>5 DEF Register!vars
<1> QED
  BY <1>1, <1>2, <1>3, <1>4, <1>5 DEF Next, Receive, Handle, SubjectExists, UpdateApplies,
     UpdateChangesNothing, ReadFindsNone, Insert, InsertConflicts, Fail, Erase, EraseProjection,
     EraseFails, vars, Register!Next

LEMMA RegisterInit == Init => Register!Init
  BY DEF Init, Register!Init

(***************************************************************************)
(* On a database whose SELECT is repeatable, the handler and its           *)
(* transactions implement the register: a commit is a Store, an answer     *)
(* without a write an Acknowledge, a refusal a Refuse, the end of an       *)
(* erasure an Erase, and everything else is invisible.                     *)
(***************************************************************************)
THEOREM Implementation == RepeatableReads /\ Spec => ImplementsRegister
<1>1. RepeatableReads /\ BaseInv /\ [Next]_vars => [Register!Next]_(Register!vars)
  BY RegisterStep, RepeatableSeenBehind
<1>2. CASE RepeatableReads
  <2>1. BaseInv /\ [Next]_vars => [Register!Next]_(Register!vars)
    BY <1>1, <1>2
  <2>2. Spec => Register!Spec
    BY RegisterInit, <2>1, BaseInvariance, PTL DEF Spec, Register!Spec
  <2> QED
    BY <2>2 DEF ImplementsRegister
<1>3. CASE ~ RepeatableReads
  BY <1>3
<1> QED
  BY <1>2, <1>3

(***************************************************************************)
(* On either kind of database the same, for as long as no two requests are *)
(* at work on one subject at once.                                         *)
(***************************************************************************)
THEOREM ImplementationInTurn == Spec /\ []InTurn => ImplementsRegister
<1>1. BaseInv /\ SeenBehind /\ [Next]_vars => [Register!Next]_(Register!vars)
  BY RegisterStep
<1>2. Spec /\ []InTurn => Register!Spec
  BY RegisterInit, <1>1, BaseInvariance, InTurnInvariance, PTL DEF Spec, Register!Spec
<1> QED
  BY <1>2 DEF ImplementsRegister
=============================================================================
