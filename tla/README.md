# Verification of Brazn Tasks

Brazn Tasks is a fork of Vikunja 2.4: a Go server (`pkg/`), a Vue frontend, a second set
of plain pages (`frontend/public/one/`), an Electron shell (`desktop/`) and a command line
(`veans/`). The fork adds *managed mode*: a commercial service sells mailboxes and teams
and tells this server about them over signed channels; the server makes the users, keeps
their entitlements, and holds every organization's projects in a fixed shape.

This directory holds TLA+ models of the parts of that server, and of its plain pages, where
several requests, transactions, messages or clients meet, the TLC configurations that check them on small
instances, and proofs, checked by TLAPS, that the main results hold for every size.
`PROJECT.json` gives the source lines behind each definition, the hazards and the findings.

    tlc -config EntitlementRepeatable.cfg MCEntitlementApply
    tlapm EntitlementApplyProofs.tla

## 1. The system

### Components that are modelled

| component | state | operations | what is hard |
|---|---|---|---|
| Entitlement store: `models/brazn_managed_mode.go`, `routes/api/v1/brazn_entitlement.go` | one projection row per user, with an organization and a revision | apply a signed projection; erasure deletes the row | deliveries duplicated, reordered and concurrent; the outcome is read in a statement after the one that wrote |
| Mailbox provisioning: `models/brazn_provisioning.go`, `openid.go`, `user_create.go`, `update_email.go` | users, and a claim per mailbox that names its user | `create_user`, `create_user_with_password`, registration, change of address, linking, erasure | adoption of an account that is moving or being erased; a claim lost to a call that rolls back; retries |
| Sessions: `models/sessions.go`, `auth/auth.go`, `helpers/auth.ts`, `desktop/oauth.js` | a session row with a current and a previous refresh token; what each client keeps | sign in, renew (cookie or OAuth grant), log out, revoke, expire, clean up | lost and late replies, several tabs, a renewal overtaken between two statements |
| Brazn One session: `one/api.js`, `app.js`, `signin.js` | the module state of a document (token, lost, shared renewal), the hand-off marker of the tab, the refresh cookie | every kind of call with its replay, renewal, sign in, sign out, boot, hand-off, navigation | calls refused together, answers of a session that has ended, a 401 of somebody else's service, pages that send the tab to each other |
| Brazn One task page: `one/view-task.js` | the route, the view's state, what is on the screen, the handlers under way | load and re-read, every write, two-step assignment, label look-up, comment order, deletion, draft | answers in any order across a change of route; a screen drawn before its state is there |
| Managed topology: `models/brazn_topology.go`, `brazn_organization.go`, `managed_rules_teams.go`, `project.go` | the project tree, and the table of protected roots | create, move, delete a project; add, remove a team; `create_team_roots` | the gate decides in a session it closes before the handler runs; check and write are different statements |

### How they interact

* The commercial service calls the provisioning channel to create a user, then to make the
  team's roots, and delivers projections for the user's id. Nothing makes it wait, so every
  operation may be retried while the first call is still running.
* Requests of people pass `managed_gate.go`, which reads the projection and the topology in a
  database session of its own, then reach a handler with its own transaction.
* A document of Brazn One reaches the server with an access token it renews with the refresh
  cookie. The token lives as long as the document, the cookie and the session behind it longer:
  `PageSession` is the client of one renewal of `SessionRefresh`, and the task page sends its
  requests through it.
* Erasure (`DeleteUser`) deletes from all of these tables in one transaction, beside them.
* `db.NewSession` (`pkg/db/db.go:451`) opens a transaction and asks for no isolation level.
  So what a SELECT sees depends on the database: SQLite in WAL mode (the default) gives every
  transaction one snapshot and refuses a write from a snapshot that is out of date, MySQL gives
  repeatable reads, PostgreSQL what is committed by then. Each module says which it assumes,
  and the isolation is a constant where the answers differ.

### Components that are not modelled, or in part

| component | what it keeps | properties worth having | status |
|---|---|---|---|
| OAuth authorization codes (`oauth_codes.go`, `oauth2server/token.go`) | a code row, deleted by the exchange | one session per code, whatever is retried | planned |
| Entitlement token (`modules/brazn/entitlement`) | nothing: a claim in the access token | a token issued under one projection never outlasts its grace; the write restriction at its boundaries | planned |
| Provisioning dispatcher (`routes/api/v1/brazn_provisioning.go`) | memberships, sessions | `join_team`, `leave_team`, `erase_subject`, `revoke_session` are idempotent | planned |
| Task positions, Kanban buckets | a position and a bucket per task and view | one row per task and view, no two tasks at one position for good, bucket limit, no deadlock on the view lock | planned |
| Reminders | a row with `fired_at`, done actions, `settled_at` | fired once per moment; the bell and the toast agree | planned |
| Time tracking | entries, at most one without an end | one running timer per user | planned |
| Local accounts: tokens by mail, one-time codes, lockout | token rows, counters in the key-value store | a token works once; counters are not lost | later |
| Events, webhooks, websockets | in-process queues | an event is sent only after its commit; a listener survives the row being gone | later |
| Gate and rules for the personal and core editions | none | each rule decides from what it reads | later, as operators |
| Tasks, relations, labels, comments, sharing | rows written one request at a time | mostly permission checks | not planned |
| Licence, audit log, CalDAV, import and export, files, key-value store | files, caches, formats | | not planned: input and output, or no ordering |
| Brazn One settings, join and password pages | copies of the account, the roster and the invitations | a save is not put back by another; a re-read is not older than its save | described as hazards: the code takes no precaution a property could state |
| Vue frontend, command line, desktop shell | what they keep of a session is in `SessionRefresh` | | not planned: presentation |

## 2. The modules

| module | what it is |
|---|---|
| `EntitlementApply` | the entitlement store, one action per SQL statement |
| `EntitlementRegister` | what it promises: one register per subject, each message in one step |
| `MailboxProvisioning` | the two operations that create users, and the people around them |
| `MailboxRegister` | what they promise: an owner per mailbox, given and answered in one step, freed by erasure only |
| `SessionRefresh` | refresh tokens on the server and at three kinds of client |
| `SessionRegister` | what the server promises of them: per session the tokens it takes, exchanged in one step, none taken again |
| `ProjectTree` | the words for one organization's tree: the tables, subtrees, shared roots, the primary team |
| `ManagedTopology` | gate and handler over that tree |
| `OrganizationTree` | what they promise: each operation in one step, by the gate's rules on the tree as it is then |
| `PageSession` | the session of one Brazn One document: what `api.js` keeps, and the calls that share it |
| `OneTab` | a browser tab: its documents one after the other, each with a `PageSession`, boot and the hand-off |
| `TaskPage` | the task page: route, view, screen and the handlers under way |
| `MC...` | instances for TLC: message sets and symmetry |
| `...Proofs` | theorems about the module of that name; `SessionClientsProofs` continues `SessionRefreshProofs`, and `SessionRegisterProofs` continues that |

Some definitions of a module are marked `(fault)`. Nothing uses them: each is what a
definition next to it would be after a plausible slip (a dropped condition of a WHERE clause,
a row that is not deleted, a lock not released), and `PROJECT.json` names the property that
notices it.

### EntitlementApply

`ApplyEntitlement` reads the subject, tries
`UPDATE ... WHERE user_id = ? AND organization_id = ? AND revision < ?`, reads the row if
nothing was updated, and inserts one if there is none. Its statements are the actions
`SubjectExists` / `SubjectGone`, `UpdateApplies` / `UpdateChangesNothing`, `ReadFindsNone` /
`ReadFindsOtherOrganization` / `ReadFindsSameOrganization`, `Insert` / `InsertConflicts` and
`Commit`, one action for each way a statement can come out; `Receive` and `RefuseMalformed` are the
handler before it, `Fail` a transaction that dies. `holder` is
the row lock or unique key a statement takes until its transaction ends; `snapshot` is what the
first SELECT saw. Erasure is `EraseProjection`, `EraseAccount` and `EraseFails`. `acked` and
`refused` are what the sender was told; an answer may be lost at any time. SQLite is the case of
repeatable reads in which more transactions fail.

A projection is the record of subject, organization and revision. Its other columns
(entitlement, quantities, dates) are written together with the revision and never compared.
Signature checks happen before the store and change nothing, so messages are those that verified.

### MailboxProvisioning

A call claims the mailbox by inserting its row (the unique address makes a second claim wait),
then adopts the user who has the address or registers one, checks that no other mailbox is
bound to that user, binds the claim and commits. A call that lost its claim resolves the one that won
and, if that is gone, starts over at most `maxMailboxProvisioningAttempts` times. Around it people
register, change and confirm addresses, are linked to a provider, and are erased. What a SELECT
sees is what is committed (PostgreSQL). Names, passwords and the avatar are left out, and so is
everything `JoinProvisionedTeam` does afterwards.

`ImplementsRegister` maps this to `MailboxRegister`: a mailbox has an owner from the commit that binds it, and
that commit is also the moment the id is answered; a retry that finds the mailbox bound changes nothing.

### SessionRefresh

`request[r].pc` is the next statement of `refreshSession`: look up the session by either token,
`UPDATE last_active`, `UPDATE ... WHERE id = ? AND token = ?`, read the user, commit. `lock` is the
row lock taken by the first UPDATE. Clients send what they hold and store what they are given
(`Keeps`): a browser has one cookie for all its tabs, the desktop app the Vue frontend's token
store, and `Ones` are OAuth apps outside this repository that keep the token they got at
sign-in, as `auth.go:501-504` expects. Tokens are numbers in order of issue (hashes are not modelled, a
token is equal to itself only); one client has one session row; the clients belong to one user.
`Lose` is a lost request or reply, for a client that gives up.
`Overtaking` says what a client may do while a renewal is out: several tabs without Web Locks, or a
reload, are `"renew"`, and `"sign in"` is a person who does not wait. A logout whose answer is
lost is a `Revoke`.

`SessionRegister` has a client's row as the set of tokens it takes, and an exchange is the commit of a renewal. A
token is used once it was in a row, or belongs to a renewal that did not commit.

### ManagedTopology

The tree is `parent` over project ids, handed out in ascending order as the sequence does;
`role` and `commercial` are the row of `brazn_protected_entities`. The ids of protected rows are
in the order of their projects. `Admit...` is the gate's decision in its own session. `Check...`,
`Scan...` and `LookUp...` are the reads of the handler's transaction, `Commit...` its writes together
with the commit; between them anything may happen, including `Fail`: a refusal, an error or a
client that has gone. With `Serializable` a commit turns other open transactions stale (SQLite's
`SQLITE_BUSY_SNAPSHOT`); without it they may write. `ImplementsTree` maps every commit to one step of
`OrganizationTree`, which has no requests and asks all the gate's rules at that step, except how deep the
place lies. One organization, one member's Inbox;
`Subtree` is the least set that is closed downwards. Who may do what, members, access
grants, archiving and the seat report after a creation are not here: a permission that is
missing is one more `Fail`. Nor is the erasure of a user, who takes along the projects that are theirs alone
(`user_delete.go:172-188`): the Inbox goes with them and its row of `brazn_protected_entities` stays and names no project,
so that `TypeOK` is a statement about trees whose people are not erased.

### PageSession and OneTab

`token`, `lost` and `renewing` are `accessToken`, `sessionLost` and `refreshInFlight` of `api.js`;
`renewals` are the runs of `performRefresh` that have not ended. A call is `Send`, then a first answer
(`Answered`, `Unreachable`, `Refused`, `RefusedWhenLost`), for a 401 a wait for the renewal (`Joins`), then
the replay and its answer. The kinds of calls are those the code treats differently: `authedFetch`
ends the session on a second 401, the commercial service and the avatar do not, sign-out drops the token
whatever the answer, `init` sends nothing but the renewal. What runs between two awaits is
one step, so all that waited for a renewal resume together. The server is three facts: whether
the cookie still names a session (`alive`), how many access tokens were minted for this document, and which of them it
takes no longer (`rejected`, enlarged by `Age` and `Revoke`); what a renewal does there is `SessionRefresh`.

`OneTab` extends it with what `boot`, the sign-in page and the listener of `onSessionLost` make of each
step (`page`, `marker`), with `Arrive` and `Open` for the next document, in which everything but the
cookie and the marker is new. `marker` has the three answers of `readHandoffMarker`: set, clear, or `"unusable"` in a browser
without `sessionStorage`, for which `shouldHandOffToLogin` asks whether the server redirected to this document (`redirected`).
Every step of the tab is by definition a step of `PageSession` or leaves its variables alone; the proofs use this as a lemma, to
carry the results about one document over, and it is no result by itself.

### TaskPage

A handler is a member of `Requests` that moves through `sent`, `served` (and for a new assignee `sent2`,
`served2`), then, for its re-read, `task`, `comments`, `back`; the comment lists the stages. `view` is
the view's state of `getViewState('task')`: the task it is for, the status, the task that was read and its revision, whose
comments are listed, and whose draft is kept. `screen` is apart from it, since a render draws the
state of its moment and `mount` may then empty that state for another task: the controls are the
screen's, what they write to is the view's. A task on the server is a revision, raised by every write to it; `listed` is the
revision at which the page's comments were read. A list that could not be read (`CommentsFail`) is shown as an empty one, and `listed`
is 0. `slip` notes an answer that was lost, that overtook a later one, or that came to the page of another task. `"patch"` stands
for every press that is one write and a re-read (fields, reminders, relations, deleting a comment).

## 3. The runs

| run | asks | answer |
|---|---|---|
| `entitlement_repeatable` | Do two requests with repeatable reads behave as one register per subject? | yes: `AckedIsApplied`, `RefusedStaysRefused`, `NeverRollsBack`, `ImplementsRegister` |
| `entitlement_read_committed` | With read committed, does a sender that retries get done? | yes: every message settles once transactions stop dying and answers to messages still open stop being lost (`EveryMessageSettles`); that no projection rolls back and no refusal is wrong is proved for either isolation |
| `entitlement_lost_update` | Is a 204 always true with read committed? | no, see below |
| `mailbox_concurrent` | Can two calls give one mailbox two users, or wait for ever? | no: `AnswersResolve`, `BindingIsPermanent`, `EveryCallEnds`; two calls are a register per mailbox (`ImplementsRegister`) |
| `mailbox_two_for_one` | Can one user get two mailboxes? | yes, see below |
| `session_concurrent` | Three renewals of a browser's session in any order and overtaken by sign-ins | one winner per token read; a refused token stays refused |
| `session_in_turn` | Can losses and failures sign out a client that waits its turn? | no, for a browser and an app that keeps its token |
| `session_desktop` | And the desktop app? | yes, see below |
| `topology_serializable` | Is the gate's stale answer harmless on SQLite? | yes: nothing leaves the tree (`WorkIsRooted`), roots are made once (`OneRootPerTeam`, `OnePublicRoot`), a removal is exact (`NothingElse`), the oldest team stays (`PrimaryTeamStays`), and gate, read and commit are one step (`ImplementsTree`) |
| `one_tab` | Can calls, renewals, losses and pages in any order end a live session, forget a caller, or keep a tab going for ever? | no: one renewal at a time (`OneRenewalAtATime`), all its callers told (`NoCallIsForgotten`, `CallsEnd`), replays with a token that is taken (`ReplaysAreFresh`), a live session lost for cause only (`KeepsALiveSession`), the loss of it shown (`LostIsShown`), one hand-off where `sessionStorage` works (`HandsOffOnce`), rest once renewals get through, or tokens stop ageing and the marker is kept (`ComesToRest`) |
| `one_tab_sign_out` | Does a sign-out the server did not carry out hold in the tab? | no, see below |
| `task_page` | Whatever order answers and routes come in, does the page hold, and come to show, the routed task as it was written? | yes: `TaskIsRouted`, `LoadIsUnderWay`, `CatchesUp`, `ScreenFollows`; its comments are of that revision or missing (`CommentsCatchUp`); a stale screen is only that of a load (`StaleScreenLoads`), a draft is not lost to a re-read (`DraftIsKept`) |

### What the violated runs show

* `entitlement_lost_update`: delivery A of revision 2 updates no row (there is none), delivery B
  inserts revision 1 and commits, A reads B's row and takes itself for a duplicate. The answer
  is 204 and revision 2 is gone.
* `mailbox_two_for_one`: two calls adopt a user whose address moved between their look-ups; the guard
  of each reads committed claims only.
* `session_desktop`: the refresh grant answers without a refresh token and the desktop app stores the
  missing value over its good one; the next renewal is refused.
* `one_tab_sign_out`: the logout fails, the page goes to the sign-in page all the same, and that
  page's boot finds the cookie still good and leads back into the product without a form.

### Bounds, and why they are enough

* *Two requests* at once suffice for every race here: each is between a read and a write of one
  transaction and the commit of one other. `session_concurrent` has three, for a renewal
  overtaken twice. The theorems have no bound on requests.
* *Entitlement*: one subject (rows of different subjects meet nowhere, and the proofs have any
  number), revisions 1 to 3 for one organization, one message of another organization, one
  whose subject is no user.
  The liveness run has three messages, enough for two deliveries and one that is refused.
* *Mailbox*: two mailboxes and two ids, so that a mailbox can be provisioned again after an erasure;
  two attempts, so that a retry can win and can be used up.
* *Sessions*: `MaxTokens` 4 lets one session rotate three times or end and open again; 5 for two clients.
  It bounds issued tokens only, the guard on it is in `SignIn` and `Rotate`.
* *Topology*: five ids are the Inbox, a Public root, a Team root and two projects: enough for a chain
  that is moved, a cycle of two, and a removal beside work that must stay. Two teams of the service
  are enough for their Public roots to be two. `MaxDepth` 3 (25 in
  the code) makes the gate's limit bite.
* *One tab*: two calls and two renewals, so that calls are refused together and a renewal can overlap
  another; `MaxTokens` 3 for one document, so that a replay's token can be replaced in turn (a tab that goes from document to document
is not bounded by it); hand-offs are counted up to `Often`, 2, one more than is allowed; `MaxVisits` 2 presses or
  addresses: a sign-out and the sign-in after it, or two reloads without a session. The proofs have any number.
* *Task page*: two tasks, two handlers at once, `MaxActs` 4 (routes, presses, opening the delete dialog): a route left and come
  back to, with two writes in between. Other people's writes are not needed for anything the page gets wrong
  by itself, and a session that ends stops it.

### Fairness

Four runs check liveness.

* `entitlement_read_committed` uses weak fairness of each request's statements and of erasures
  already begun (the server runs the handlers it has started), and strong fairness for the
  delivery of a message that is not settled: the sender, which is outside this repository,
  repeats it until it has an answer, and a handler is free again and again. The property
  holds once faults end, `<>[][~ Fault]_vars`: a `Fault` is a transaction or an erasure that dies, or the end of a handler whose
  message is neither acknowledged nor refused by it or before.
* `mailbox_concurrent` uses weak fairness of calls and erasures that have begun, and strong
  fairness for getting the unique key. Nothing is assumed of people, and calls may fail for ever: a
  failed call has ended.
* `one_tab` uses weak fairness of what scripts do by themselves (boot, the navigation asked for) and of the
  end of each fetch under way, by an answer or a failure: browsers end every request one way or the other. The person
  need not do anything, tokens need not age, and the person stops, which `MaxVisits` sees to. `ComesToRest` has a hypothesis:
  from some time on every renewal the server grants gets through (`RenewalsGetThrough`), or the marker can be kept and no token ages
  (`NoTokenAges`). Each part is needed; without it TLC finds two pages that send the tab to each other for ever, although no bound of
  the model is met. A session clears the marker (`app.js:2806`); a token that ages at once and a renewal that fails then
  lose that session in the same boot, which hands off; and the sign-in page finds the cookie good and leads back. Without a marker the
  failing renewals are enough.
* `task_page` uses weak fairness of each handler's next step, which again is the end of a request.

Sessions and topology have no liveness: a renewal or a request is one bounded handler, and no
step of it waits except for a row lock whose holder `TypeOK` shows to be a renewal still to end.

## 4. The proofs

All theorems are about `Spec` (`SessionSpec` and `TabSpec` in the tab), for any number of requests, users, messages,
mailboxes, clients, projects, calls, tokens and tasks, from the `ASSUME`s of the module: `None` is not one of the other values, ids are positive
numbers, kinds of clients are disjoint.

* **EntitlementApplyProofs.** `TypeCorrect`; `RefusalIsFinal` and `Monotonic` under either
  isolation; `AcknowledgedIsApplied` and `Implementation` (the refinement of
  `EntitlementRegister`) with `RepeatableReads`. `AckedIsApplied` is not inductive: it needs that a
  request about to commit holds its row, that what it holds is what its WHERE clause saw, and
  that a row seen in a snapshot is still there, for the same organization, and not behind a message whose
  UPDATE missed it (`Owns`, `HeldBy`, `Fresh`, `SnapshotKept`, `SnapshotBehind`, in `BaseInv`).
  Both results use repeatable reads for one fact only, `SeenBehind`: what a request reads after its UPDATE
  changed nothing is not older than its message. `AcknowledgedInTurn` and `ImplementationInTurn` get that fact from `InTurn`
  instead, under either isolation: so losing a message, as `entitlement_lost_update` shows, takes two deliveries about
  one user in flight together, and none is lost while a second delivery starts only after the first one's handler has ended.
* **MailboxProvisioningProofs.** `TypeCorrect`, `AnswersKeepResolving`, `BindingsArePermanent`.
  The invariant `IInv` says who holds which key (`Placed`), what a call that has read a user knows of
  them (`Carries`, `Reads`), that no two calls hold one mailbox (`Apart`), and that a committed row is
  bound (`RowOK`). `RegisterIsImplemented` is the refinement, with no assumption on calls.
  `OneMailboxPerUser`, which `mailbox_two_for_one` violates, is proved in the two cases in which it holds:
  `OneMailboxInTurn` for one call at a time, whatever people do meanwhile, and `OneMailboxUnderLock` for any number of calls in
  behaviours where the address of a user who is being adopted stays (`AdoptedStay`), which is what a lock on
  the user's row would give. So the violation takes both: two calls in flight, and an address that moves during an adoption.
* **SessionRefreshProofs.** `TypeCorrect`, `Exclusive`, `RefusedForGood`. `IInv` adds to the type:
  a session that still has the token a renewal read accepts what the renewal presented
  (`Found`); a token about to be committed is known to nobody else (`Fresh`); the first UPDATE's lock
  lasts (`Locked`) and so does what the second UPDATE found (`Holds`); a token that was replaced does
  not come back (`Spent`).
* **SessionClientsProofs.** `AppsKeepTheirToken`, and from it `AppsNeverSignedOut`: an app's session takes the token the app holds,
  with any overlap of its renewals. `ClientsInTurn` is about any set `C` of browsers and apps: in a behaviour in which these
  send and sign in only when none of their own renewals is out (`TakeTurns(C)`), what each of them holds is accepted
  at every moment (`HeldIsAccepted`); nothing is assumed of the others, which may overlap or be desktop
  apps. `TurnsNeverSignOut` is the case of all clients, with `Overtaking` empty and no desktop app. `TurnInv(C)`
  says that a client of `C` has one renewal out at a time (`Alone`), that the token held is accepted (not only between
  renewals), that a browser's renewal presents what the browser holds (`Presented`) and that
  the token it is answered is the current one (`Answer`).
* **SessionRegisterProofs.** `RegisterIsImplemented`: `SessionRefresh` implements `SessionRegister`, whatever the clients are
  and however they overlap. The register's used tokens are the issued ones without those of renewals still to commit, which
  by `Fresh` nobody knows, so that they are new when they are committed. `TokensAreNotShared` says that no token is ever
  accepted by two sessions, even though failed renewals waste tokens. Both stand beside the runs: no configuration checks them.
* **ManagedTopologyProofs.** `TypeCorrect` under any isolation; in isolated behaviours
  `WorkStaysRooted`, `RootsAreMadeOnce`, `PublicRootIsMadeOnce`, `RemovalIsExact`, `PrimaryIsForGood`, and `TreeIsImplemented`,
  the refinement. `Isolated` is weaker than `Serializable`: it also takes in the behaviours of a database of any isolation in which
  no transaction is overtaken, that is, whenever the tree changes, every transaction open at that moment is ended or
  refused by that step (`NoneOvertaken`). `IInv` is the
  type, the shape of the tree (`RootsAreOnTop`, `Rootedness`, the two uniqueness properties) and,
  per request, what the gate saw that nobody can undo (`Admitted`) and what an open transaction has
  read that is still so (`HasRead`). Subtrees are least closed sets, so that a move or a removal is
  argued with one well-chosen closed set rather than by induction over the tree. The primary team stays because ids are handed
  out in order (`TeamsInOrder`) and the removal asks which team is the oldest in its own transaction.
* **OneTabProofs.** For `PageSession`: `SessionTyped`, `RenewsOnce`, `RemembersEveryCall`,
  `ReplaysFresh`, `LosesForCause`. The strengthening ties the shared promise to the renewal under way
  (`SharedPromise`: there is at most one, and it is the one shared unless the session was lost meanwhile) and says
  that a renewal that outlives its session finds no token (`LostHasNoToken`). `ReplaysFresh` rests on the
  assumption, in the guard of `Age`, that a token outlives one request (600 seconds against a
  browser's time-out). For `OneTab`: `TabTyped`; `TabRenewsOnce`, since a tab's steps are its document's (lemma `TabIsSessions`);
  and `TabHandsOffOnce` and `TabShowsTheLoss` from an invariant that relates marker, page and
  session. `TabHandsOffOnce` says nothing of a browser without `sessionStorage`.
* **TaskPageProofs.** `TaskTyped`, `HoldsTheRoutedTask`, `LoadsWhileLoading`, `StaleOnlyWhileLoading`,
  `KeepsTheDraft`, and `ShowsWhatWasWritten`: `CatchesUp` speaks of a page at rest only, and becomes
  inductive as a debt. Whenever the page does not show the last revision, or shows a task that is gone,
  some handler under way still owes it a re-read (`OwesRev`, `OwesEnd`); `HandlersSound` says which
  stages a kind of handler goes through, so that a handler that owes cannot end without paying. `ShowsItsComments` proves
  `CommentsCatchUp` beside it: a list is at most as new as the server, and as new as the task it was read with (`ListSound`),
  both in the handlers under way and in the view.

Each proof is one lemma per action that it keeps the invariant, a lemma that joins them, and a
temporal step. Where a theorem needs an isolation level, or clients or calls that take turns, that is an assumption of
the theorem, not of the module.

Only model-checked: `EveryMessageSettles`, `EveryCallEnds`, `ComesToRest`, `CallsEnd` and `ScreenFollows`, since the prover does not
do liveness under fairness, and the violated properties, for which a trace is the proof.

## 5. What the models leave out

* Time, except that sessions fall idle: expiry of tokens, leases and grace periods are not counted.
* The contents of tokens, projections and rows beyond what the code compares.
* Deadlocks the database resolves by failing one transaction: it is a `Fail`.
* Several server processes behave as several requests; what a process keeps in memory (the
  key-value store, the event queue) is not modelled.
* Of the tree, isolation below serializable is not run: under PostgreSQL's default a parent
  can be deleted between the check and the insert (`project.go:1161`), and the project is left beneath
  nothing. `TypeCorrect` covers that case (`Serializable` false), the other theorems assume `Isolated`: what goes wrong takes a
  transaction overtaken by a change of the tree.
* Of Brazn One's session: identity providers, the public pages that need no session, and several
  accounts in one browser. Of the task page: the editor of an existing comment, pickers and their
  searches, attachments that arrive in part, the lock between start and end date, and other people's writes.
* What the code lets happen, and no property therefore excludes, is listed here (`PROJECT.json` gives the
  lines of the most important ones as hazards):
  * an erased subject may keep an unused projection row; an adoption overtaken by an erasure commits a claim for
    a user who is gone; a password sale to an address whose account was linked to a provider makes a
    second account;
  * a team added before `create_team_roots` has run has the oldest root and takes the primary team's place; a subtree
    may be moved below the depth the gate can see;
  * a late answer may overwrite the cookie of a newer sign-in;
  * in a tab without `sessionStorage` every document that was not redirected hands off again, and a sign-in page whose renewal gets
    through leads back: the fallback of `shouldHandOffToLogin` counts redirects of one document (`app.js:2664-2669`), as
    `app.gating.test.ts:502-510` has it, while the comment above it promises exactly one hand-off (`app.js:2616-2622`);
  * calls that wait for a renewal are replayed with its token even if the person signed out meanwhile;
  * a comment list that could not be read is shown as an empty one, without a word (`view-task.js:561-574`), although the page names
    projects and users only as reads it does without (554-555) and elsewhere will not disagree with the server quietly (674-678);
  * on the task page, while a route loads the controls still on the screen write to the new task, and so do
    the text typed there and a delete dialog left open; the end of a deletion, the other comment order and a failed
    re-read are taken by whatever task is routed when they come, unlike loads, which ask.
  * on the settings page two saves may put each other's field back, a re-read may be one started before the
    save, and an older list of invitations may land last.

## 6. What is not modelled, and what would come next

Nothing in these parts is out of TLC's reach; they are left out so far because the parts above carry the
product's own promises (who is a user, who is entitled, where work may be, who is signed in, what a person sees
and writes) and these are inherited or narrower. In order of what a model would add:

1. `TaskPositions`: moves, recalculation, healing and repair of one view under read committed, with the
   view lock, row locks and the unique index; two requests, three tasks, positions from a small grid with
   the spacing limit. Properties: no deadlock with the documented lock order, a recalculation keeps the order of tasks
   nobody moved, healing does not overwrite what a person placed. Then the Kanban bucket of a
   task with its limit and the done bucket.
2. `OAuthCodeExchange`: the exchange of one code by several requests, its rollback on a
   mismatch and the retry after it, expiry; an abstract code that is spent once, composed with
   `SessionRefresh`'s sign-in of an OAuth client. To prove: one session per code.
3. The provisioning dispatcher with memberships, composed with `MailboxProvisioning` and
   `ManagedTopology`: the whole sale of a team, retried from any point.
4. `ReminderFiring`: the minute sweep against completion and change of a reminder, bell and toast in step.
5. `EntitlementToken`: tokens issued from `EntitlementApply`'s register and used after it has moved on,
   with the boundaries of `WriteRestricted` against a reference definition.

Then to be proved: that a recalculation is a permutation that keeps order; that `PageSession` against the
server of `SessionRefresh` presents each refresh token once; and that a sign-out the server did carry out holds in the tab,
which `SignedOutStaysOut` says of every sign-out and so too much.

Not planned: what only formats, stores or forwards (CalDAV, files, import and export, audit log, licence), and the
Vue frontend's rendering.
