------------------------ MODULE MailboxProvisioning ------------------------
(***************************************************************************)
(* Creating and resolving the user of a mailbox the commercial service has *)
(* sold to: CreateOrResolveUserForMailbox and                              *)
(* CreateProvisionedUserWithPassword (pkg/models/brazn_provisioning.go),   *)
(* several calls at once, while people sign up, change their address, link *)
(* a provider and are erased.                                              *)
(*                                                                         *)
(* A mailbox is taken by inserting its row into brazn_provisioned_users,   *)
(* whose email is unique; the insert waits for a transaction that has that *)
(* key and fails if it commits.  One action is one statement, or several   *)
(* of one transaction that read and write nothing anybody else does.       *)
(***************************************************************************)
EXTENDS Naturals

CONSTANTS
    Requests,     \* calls of the provisioning channel, each reused when done
    Mailboxes,
    UserIds,      \* users.id, handed out in ascending order, never reissued
    MaxAttempts,  \* maxMailboxProvisioningAttempts
    None

ASSUME IdsAssumption == UserIds \subseteq Nat \ {0} /\ MaxAttempts \in Nat \ {0}
ASSUME NoneAssumption ==
    /\ None \notin Requests \cup UserIds \cup Mailboxes
    /\ None # 0
    /\ None \notin [address : Mailboxes, issuer : {"local", "provider"}]
    /\ Requests \cap UserIds = {}

VARIABLES
    users,     \* committed rows of users: the address and the issuer
    unused,    \* ids not handed out yet
    claims,    \* committed rows of brazn_provisioned_users: mailbox -> user_id,
               \* 0 while the row is not bound
    key,       \* who holds a mailbox's unique key: a call, an erasure, None
    call,      \* what each call is doing
    erasing,   \* users whose DeleteUser has deleted their claims, uncommitted
    answers    \* the user ids given to the commercial service per mailbox

vars == <<users, unused, claims, key, call, erasing, answers>>

Idle == [pc |-> "idle", op |-> None, mailbox |-> None, attempt |-> 0, user |-> 0,
         fresh |-> FALSE, bound |-> 0]

Live == {u \in UserIds : users[u] # None}

At(m) == {u \in Live : users[u].address = m}

Init ==
    /\ users = [u \in UserIds |-> None]
    /\ unused = UserIds
    /\ claims = [m \in Mailboxes |-> None]
    /\ key = [m \in Mailboxes |-> None]
    /\ call = [r \in Requests |-> Idle]
    /\ erasing = {}
    /\ answers = [m \in Mailboxes |-> {}]

IsLowest(u, S) == u \in S /\ \A v \in S : u <= v

Becomes(r, next) == call' = [call EXCEPT ![r] = next]

\* A fault: the transaction of r is left open.
StaysOpen(r, next) ==
    /\ Becomes(r, next)
    /\ UNCHANGED <<users, claims, erasing, key>>

\* The transaction of r ends without a trace; r goes on as next says.
RollBack(r, next) ==
    /\ key' = [m \in Mailboxes |-> IF key[m] = r THEN None ELSE key[m]]
    /\ Becomes(r, next)
    /\ UNCHANGED <<users, claims, erasing>>

Goto(r, pc) ==
    /\ Becomes(r, [call[r] EXCEPT !.pc = pc])
    /\ UNCHANGED key

-----------------------------------------------------------------------------
(* A call.                                                                 *)

Begin(r, op, m) ==
    /\ call[r] = Idle
    /\ Becomes(r, [Idle EXCEPT !.pc = "claim", !.op = op, !.mailbox = m, !.attempt = 1])
    /\ UNCHANGED <<users, unused, claims, key, erasing, answers>>

\* A fault: the column is not unique, a look-up decides.
ClaimByLookUp(r) ==
    LET m == call[r].mailbox IN
    /\ call[r].pc = "claim"
    /\ claims[m] = None
    /\ key' = [key EXCEPT ![m] = r]
    /\ Becomes(r, [call[r] EXCEPT !.pc = IF call[r].op = "create_user" THEN "find" ELSE "register"])
    /\ UNCHANGED <<users, unused, claims, erasing, answers>>

Claim(r) ==
    LET m == call[r].mailbox IN
    /\ call[r].pc = "claim"
    /\ key[m] = None
    /\ claims[m] = None
    /\ key' = [key EXCEPT ![m] = r]
    /\ Becomes(r, [call[r] EXCEPT !.pc = IF call[r].op = "create_user" THEN "find" ELSE "register"])
    /\ UNCHANGED <<users, unused, claims, erasing, answers>>

\* The unique key: create_user reads who has it, create_user_with_password refuses.
ClaimTaken(r) ==
    LET m == call[r].mailbox IN
    /\ call[r].pc = "claim"
    /\ key[m] = None
    /\ claims[m] # None
    /\ RollBack(r, IF call[r].op = "create_user" THEN [call[r] EXCEPT !.pc = "resolve"] ELSE Idle)
    /\ UNCHANGED <<unused, answers>>

\* A fault: one attempt too many.
ResolveLostTooOften(r) ==
    /\ call[r].pc = "resolve"
    /\ claims[call[r].mailbox] \in {None, 0}
    /\ Becomes(r, IF call[r].attempt <= MaxAttempts
                  THEN [call[r] EXCEPT !.pc = "claim", !.attempt = @ + 1]
                  ELSE Idle)
    /\ UNCHANGED <<users, unused, claims, key, erasing, answers>>

\* The claim is gone again: one more attempt, until there have been enough.
ResolveLost(r) ==
    /\ call[r].pc = "resolve"
    /\ claims[call[r].mailbox] \in {None, 0}
    /\ Becomes(r, IF call[r].attempt < MaxAttempts
                  THEN [call[r] EXCEPT !.pc = "claim", !.attempt = @ + 1]
                  ELSE Idle)
    /\ UNCHANGED <<users, unused, claims, key, erasing, answers>>

\* A fault: whoever has the address now is the mailbox's user.
ResolveByAddress(r) ==
    /\ call[r].pc = "resolve"
    /\ claims[call[r].mailbox] \in UserIds
    /\ \E u \in Live :
          /\ IsLowest(u, At(call[r].mailbox))
          /\ Becomes(r, [call[r] EXCEPT !.pc = "look up", !.user = u])
    /\ UNCHANGED <<users, unused, claims, key, erasing, answers>>

Resolve(r) ==
    /\ call[r].pc = "resolve"
    /\ claims[call[r].mailbox] \in UserIds
    /\ Becomes(r, [call[r] EXCEPT !.pc = "look up", !.user = claims[call[r].mailbox]])
    /\ UNCHANGED <<users, unused, claims, key, erasing, answers>>

Answer(r, u) == answers' = [answers EXCEPT ![call[r].mailbox] = @ \cup {u}]

\* userByID: an error when the row is not there.
LookUp(r) ==
    /\ call[r].pc = "look up"
    /\ IF call[r].user \in Live THEN Answer(r, call[r].user) ELSE UNCHANGED answers
    /\ Becomes(r, Idle)
    /\ UNCHANGED <<users, unused, claims, key, erasing>>

\* userForMailbox: of several users with the address, always the oldest.
FindExisting(r) ==
    /\ call[r].pc = "find"
    /\ \E u \in Live :
          /\ IsLowest(u, At(call[r].mailbox))
          /\ Becomes(r, [call[r] EXCEPT !.pc = "guard", !.user = u])
    /\ UNCHANGED <<users, unused, claims, key, erasing, answers>>

FindNobody(r) ==
    /\ call[r].pc = "find"
    /\ At(call[r].mailbox) = {}
    /\ Goto(r, "register")
    /\ UNCHANGED <<users, unused, claims, erasing, answers>>

\* refuseASecondMailboxForOneUser, against the claims committed by now.
HasOtherMailbox(r) == \E m \in Mailboxes \ {call[r].mailbox} : claims[m] = call[r].user

GuardRefuses(r) ==
    /\ call[r].pc = "guard"
    /\ HasOtherMailbox(r)
    /\ RollBack(r, Idle)
    /\ UNCHANGED <<unused, answers>>

GuardPasses(r) ==
    /\ call[r].pc = "guard"
    /\ ~ HasOtherMailbox(r)
    /\ Goto(r, "bind")
    /\ UNCHANGED <<users, unused, claims, erasing, answers>>

\* checkIfUserExists looks for the address among locally issued users only.
AddressTaken(m) == \E u \in At(m) : users[u].issuer = "local"

Register(r) ==
    /\ call[r].pc = "register"
    /\ ~ AddressTaken(call[r].mailbox)
    /\ \E u \in unused :
          /\ IsLowest(u, unused)
          /\ unused' = unused \ {u}
          /\ Becomes(r, [call[r] EXCEPT !.pc = "bind", !.user = u, !.fresh = TRUE])
    /\ UNCHANGED <<users, claims, key, erasing, answers>>

\* The address, or with a chosen username the username, is somebody's; the
\* bound UserIds running out is an insert that fails.
RegisterRefuses(r) ==
    /\ call[r].pc = "register"
    /\ \/ AddressTaken(call[r].mailbox)
       \/ call[r].op = "create_user_with_password"
       \/ unused = {}
    /\ RollBack(r, Idle)
    /\ UNCHANGED <<unused, answers>>

Bind(r) ==
    /\ call[r].pc = "bind"
    /\ Becomes(r, [call[r] EXCEPT !.pc = "commit", !.bound = call[r].user])
    /\ UNCHANGED <<users, unused, claims, key, erasing, answers>>

Commit(r) ==
    LET m == call[r].mailbox
        u == call[r].user IN
    /\ call[r].pc = "commit"
    /\ claims' = [claims EXCEPT ![m] = call[r].bound]
    /\ users' = IF call[r].fresh
                THEN [users EXCEPT ![u] = [address |-> m, issuer |-> "local"]] ELSE users
    /\ key' = [key EXCEPT ![m] = None]
    /\ Answer(r, u)
    /\ Becomes(r, Idle)
    /\ UNCHANGED <<unused, erasing>>

\* Any statement may fail, the caller may go away, the process may die.
Fail(r) ==
    /\ call[r] # Idle
    /\ RollBack(r, Idle)
    /\ UNCHANGED <<unused, answers>>

Advance(r) ==
    \/ Claim(r) \/ ClaimTaken(r)
    \/ Resolve(r) \/ ResolveLost(r) \/ LookUp(r)
    \/ FindExisting(r) \/ FindNobody(r)
    \/ GuardRefuses(r) \/ GuardPasses(r)
    \/ Register(r) \/ RegisterRefuses(r)
    \/ Bind(r) \/ Commit(r)

-----------------------------------------------------------------------------
(* What else happens to users, each in one transaction of its own.         *)

\* Registration, by password or through a provider, at an address nobody has.
SignUp(m, issuer) ==
    /\ At(m) = {}
    /\ \E u \in unused :
          /\ IsLowest(u, unused)
          /\ users' = [users EXCEPT ![u] = [address |-> m, issuer |-> issuer]]
          /\ unused' = unused \ {u}
    /\ UNCHANGED <<claims, key, call, erasing, answers>>

\* UpdateEmail: not to an address somebody has.
ChangeAddress(u, m) ==
    /\ u \in Live
    /\ users[u].issuer = "local"
    /\ At(m) = {}
    /\ users' = [users EXCEPT ![u].address = m]
    /\ UNCHANGED <<unused, claims, key, call, erasing, answers>>

\* getOrCreateUser: the provider reports another address; nothing is checked.
ProviderMovesAddress(u, m) ==
    /\ u \in Live
    /\ users[u].issuer = "provider"
    /\ users[u].address # m
    /\ users' = [users EXCEPT ![u].address = m]
    /\ UNCHANGED <<unused, claims, key, call, erasing, answers>>

\* LinkCallback: a password account becomes a provider's.
LinkProvider(u) ==
    /\ u \in Live
    /\ users[u].issuer = "local"
    /\ users' = [users EXCEPT ![u].issuer = "provider"]
    /\ UNCHANGED <<unused, claims, key, call, erasing, answers>>

\* A fault: the claims are found by the address of the user, not by user_id.
EraseClaimsByAddress(u) ==
    /\ u \in Live \ erasing
    /\ key[users[u].address] = None
    /\ key' = [key EXCEPT ![users[u].address] = u]
    /\ erasing' = erasing \cup {u}
    /\ UNCHANGED <<users, unused, claims, call, answers>>

\* DeleteUser deletes the claims of the user that are committed, ...
EraseClaims(u) ==
    /\ u \in Live \ erasing
    /\ \A m \in Mailboxes : claims[m] = u => key[m] = None
    /\ key' = [m \in Mailboxes |-> IF claims[m] = u THEN u ELSE key[m]]
    /\ erasing' = erasing \cup {u}
    /\ UNCHANGED <<users, unused, claims, call, answers>>

\* ... then the user, and commits.
EraseUser(u) ==
    /\ u \in erasing
    /\ users' = [users EXCEPT ![u] = None]
    /\ claims' = [m \in Mailboxes |-> IF key[m] = u THEN None ELSE claims[m]]
    /\ key' = [m \in Mailboxes |-> IF key[m] = u THEN None ELSE key[m]]
    /\ erasing' = erasing \ {u}
    /\ UNCHANGED <<unused, call, answers>>

EraseFails(u) ==
    /\ u \in erasing
    /\ key' = [m \in Mailboxes |-> IF key[m] = u THEN None ELSE key[m]]
    /\ erasing' = erasing \ {u}
    /\ UNCHANGED <<users, unused, claims, call, answers>>

-----------------------------------------------------------------------------

Operations == {"create_user", "create_user_with_password"}

People ==
    \/ \E m \in Mailboxes, issuer \in {"local", "provider"} : SignUp(m, issuer)
    \/ \E u \in UserIds, m \in Mailboxes : ChangeAddress(u, m) \/ ProviderMovesAddress(u, m)
    \/ \E u \in UserIds : LinkProvider(u) \/ EraseClaims(u) \/ EraseUser(u) \/ EraseFails(u)

Next ==
    \/ \E r \in Requests, op \in Operations, m \in Mailboxes : Begin(r, op, m)
    \/ \E r \in Requests : Advance(r) \/ Fail(r)
    \/ People

Spec == Init /\ [][Next]_vars

(***************************************************************************)
(* The server runs the calls it has accepted and the erasures it has begun;*)
(* the database gives a key to those who wait for it in turn.              *)
(***************************************************************************)
Fairness ==
    /\ \A r \in Requests : WF_vars(Advance(r)) /\ SF_vars(Claim(r) \/ ClaimTaken(r))
    /\ \A u \in UserIds : WF_vars(EraseUser(u) \/ EraseFails(u))

FairSpec == Spec /\ Fairness

-----------------------------------------------------------------------------
(* Properties.                                                             *)

Call == [pc : {"idle", "claim", "resolve", "look up", "find", "guard", "register", "bind",
               "commit"},
         op : Operations \cup {None}, mailbox : Mailboxes \cup {None},
         attempt : 0..MaxAttempts, user : UserIds \cup {0}, fresh : BOOLEAN,
         bound : UserIds \cup {0}]

TypeOK ==
    /\ users \in [UserIds -> [address : Mailboxes, issuer : {"local", "provider"}] \cup {None}]
    /\ unused \subseteq UserIds
    /\ claims \in [Mailboxes -> UserIds \cup {0, None}]
    /\ key \in [Mailboxes -> Requests \cup UserIds \cup {None}]
    /\ call \in [Requests -> Call]
    /\ erasing \subseteq UserIds
    /\ answers \in [Mailboxes -> SUBSET UserIds]

(***************************************************************************)
(* The map is authoritative and permanent: a mailbox once bound stays bound*)
(* to that user whatever happens to addresses, until the user is erased;   *)
(* and it is never committed unbound.                                      *)
(***************************************************************************)
BindingIsPermanent ==
    [][\A m \in Mailboxes :
          /\ claims'[m] # 0
          /\ claims[m] # None => \/ claims'[m] = claims[m]
                                 \/ claims'[m] = None /\ users'[claims[m]] = None]_vars

(***************************************************************************)
(* The commercial service is never told two users for one mailbox, and what*)
(* it was told still resolves: of all the ids it was ever given for it, by *)
(* creation, adoption or resolution, the one that is a user is the one the *)
(* mailbox is bound to. ("No attempt can ever mint a second user for one   *)
(* mailbox")                                                               *)
(***************************************************************************)
AnswersResolve ==
    \A m \in Mailboxes : \A u \in answers[m] \cap Live : claims[m] = u

(***************************************************************************)
(* "Nothing but this stops two mailboxes binding to one account", and it   *)
(* is "an authorization invariant": no user has two mailboxes.             *)
(***************************************************************************)
OneMailboxPerUser ==
    \A m, n \in Mailboxes : claims[m] \in UserIds /\ claims[m] = claims[n] => m = n

(***************************************************************************)
(* No call waits forever: a mailbox somebody is provisioning is given up or*)
(* decided, and so is the transaction that erases its user.                *)
(***************************************************************************)
EveryCallEnds == \A r \in Requests : call[r].pc # "idle" ~> call[r].pc = "idle"

(***************************************************************************)
(* Calls, keys, retries and erasures amount to one register per mailbox    *)
(* (MailboxRegister): a binding and its answer are one step, and no other  *)
(* answer tells the commercial service anything new.                       *)
(***************************************************************************)
Owners == INSTANCE MailboxRegister WITH live <- Live, owner <- claims

ImplementsRegister == Owners!Spec
=============================================================================
