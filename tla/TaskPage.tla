------------------------------ MODULE TaskPage ------------------------------
(***************************************************************************)
(* The task page of Brazn One (view-task.js, under app.js's render and     *)
(* navigate): what the view keeps, what is on the screen, and the requests *)
(* that are under way between a press and its handler's last line.         *)
(*                                                                         *)
(* A handler is a request that moves through stages; what runs between two *)
(* awaits is one step.  The view's state names a task, and so does the     *)
(* screen: a render draws the state of the moment, and mount may then      *)
(* empty that state for another task.                                      *)
(*                                                                         *)
(* A task on the server is its revision: every write served raises it.  A  *)
(* list of comments is that of the task's revision when it was read.       *)
(* Other people's writes are left out, and so is the end of the session    *)
(* (PageSession): both only put off what the page has to say.              *)
(***************************************************************************)
EXTENDS Naturals

CONSTANTS
    Tasks,
    Requests,   \* places for handlers under way at once
    MaxActs,    \* bounds the routes taken and the buttons pressed
    None

ASSUME TaskAssumption ==
    /\ MaxActs \in Nat
    /\ None \notin Tasks

\* "patch" stands for every press that is one write and a re-read.
Presses == {"patch", "comment", "label", "assignee", "order"}

VARIABLES
    route,    \* state.route.taskId
    view,     \* getViewState('task')
    screen,   \* what #app shows: whose page, and the text in the comment box
    dialog,   \* the delete dialog is open
    requests, \* what each handler is doing
    server,   \* each task's revision
    gone,     \* the tasks deleted
    slip,     \* since the last load an answer was lost, overtook a later one, or
              \* came to the page of another task
    acts      \* routes taken and buttons pressed so far

vars == <<route, view, screen, dialog, requests, server, gone, slip, acts>>

\* The stages of a handler:
\*   lookup  before the write, which is addressed after it (saveInlineLabel)
\*   sent, served, sent2, served2  writes; only a new assignee takes two
\*   task, comments, back          loadTask, and its result on the way
Idle == [kind |-> None, stage |-> "idle", task |-> None, rev |-> 0, listed |-> 0]

At(q, stage) == requests[q].stage = stage

Quiet == \A q \in Requests : At(q, "idle")

Advances(q, r) == requests' = [requests EXCEPT ![q] = r]

Ends(q) == Advances(q, Idle)

\* A fault: the status is not reset with the task.
LoadingUnsaid(t) == [task |-> t, status |-> None, of |-> None, rev |-> 0,
                     comments |-> None, listed |-> 0, draft |-> None]

\* The state ensureLoaded leaves for a task it has not loaded.  of and rev are
\* of the task that was read, comments and listed of its list of comments; 0 is
\* the revision of nothing read, or of a list that could not be read.
Loading(t) == [task |-> t, status |-> "loading", of |-> None, rev |-> 0,
               comments |-> None, listed |-> 0, draft |-> None]

\* loadTask is called.
Reading(k, t) == [kind |-> k, stage |-> "task", task |-> t, rev |-> 0, listed |-> 0]

\* render: the page of a task, or a surface without controls.
Drawn(v) == IF v.status = "ready" THEN [page |-> v.of, text |-> v.draft]
            ELSE [page |-> None, text |-> None]

Renders == screen' = Drawn(view')

Init ==
    /\ route \in Tasks
    /\ view = Loading(route) /\ screen = Drawn(view)
    /\ \E q \in Requests : requests = [p \in Requests |-> IF p = q THEN Reading("load", route) ELSE Idle]
    /\ server = [t \in Tasks |-> 1] /\ gone = {}
    /\ dialog = FALSE /\ slip = FALSE /\ acts = 0

CountsAct == acts < MaxActs /\ acts' = acts + 1

-----------------------------------------------------------------------------
(* Routes.                                                                 *)

\* A route is taken (Back, or a task just added): the screen is drawn from the
\* state of the old one, then ensureLoaded empties it.
Navigate(t, q) ==
    /\ t # view.task /\ At(q, "idle")
    /\ CountsAct
    /\ route' = t
    /\ screen' = Drawn(view)
    /\ view' = Loading(t)
    /\ Advances(q, Reading("load", t))
    /\ slip' = FALSE
    /\ UNCHANGED <<dialog, server, gone>>

-----------------------------------------------------------------------------
(* loadTask, and the two that wait for it: ensureLoaded and reload.        *)

\* getTask is served.
ReadTask(q) ==
    /\ At(q, "task") /\ requests[q].task \notin gone
    /\ Advances(q, [requests[q] EXCEPT !.stage = "comments", !.rev = server[requests[q].task]])
    /\ UNCHANGED <<route, view, screen, dialog, server, gone, slip, acts>>

\* A fault: a re-read keeps the comments the page has.
KeepsComments(q) ==
    /\ At(q, "comments") /\ requests[q].task \notin gone
    /\ Advances(q, [requests[q] EXCEPT !.stage = "back",
                    !.listed = IF view.listed = 0 THEN server[requests[q].task] ELSE view.listed])
    /\ UNCHANGED <<route, view, screen, dialog, server, gone, slip, acts>>

\* listComments is served, within loadTask; the lists beside it are left out.
ReadComments(q) ==
    /\ At(q, "comments") /\ requests[q].task \notin gone
    /\ Advances(q, [requests[q] EXCEPT !.stage = "back", !.listed = server[requests[q].task]])
    /\ UNCHANGED <<route, view, screen, dialog, server, gone, slip, acts>>

\* listComments fails, and loadTask goes on without it.
CommentsFail(q) ==
    /\ At(q, "comments")
    /\ Advances(q, [requests[q] EXCEPT !.stage = "back"])
    /\ UNCHANGED <<route, view, screen, dialog, server, gone, slip, acts>>

\* A fault: whichever task was asked for is taken.
TakesAny(q) == TRUE

\* The late answer must not overwrite the newer request's state.
Takes(q) == view.task = requests[q].task

\* A fault: what was loaded replaces the view's state, draft and all.
ReplacesAll(q) ==
    view' = [Loading(requests[q].task) EXCEPT !.status = "ready", !.of = requests[q].task,
                 !.rev = requests[q].rev,
                 !.comments = requests[q].task, !.listed = requests[q].listed]

\* The task that was read, and its comments: none, if their list failed.
Shows(q) ==
    view' = [view EXCEPT !.status = "ready", !.of = requests[q].task,
                         !.rev = requests[q].rev,
                         !.comments = requests[q].task, !.listed = requests[q].listed]

\* A fault: what has landed is not drawn.
DrawsNothing(q) == UNCHANGED screen

\* A load renders whatever came of it, a re-read only what it took.
Draws(q) == IF requests[q].kind = "load" \/ Takes(q) THEN Renders ELSE UNCHANGED screen

Lands(q) ==
    /\ At(q, "back")
    /\ IF Takes(q)
       THEN /\ Shows(q)
            /\ slip' = (slip \/ view.status \notin {"loading", "ready"}
                             \/ requests[q].rev < view.rev)
       ELSE UNCHANGED <<view, slip>>
    /\ Draws(q)
    /\ Ends(q)
    /\ UNCHANGED <<route, dialog, server, gone, acts>>

\* A fault: a load that failed says nothing.
FailsUnsaid(q) ==
    view' = IF requests[q].kind # "load" THEN [view EXCEPT !.status = "failed"] ELSE view

\* refreshAfterWrite does not ask whose re-read it was.
Fails(q) ==
    view' = IF requests[q].kind # "load" \/ Takes(q)
            THEN [view EXCEPT !.status = "failed"] ELSE view

\* getTask fails.
ReadFails(q) ==
    /\ At(q, "task")
    /\ Fails(q)
    /\ Renders
    /\ Ends(q)
    /\ UNCHANGED <<route, dialog, server, gone, slip, acts>>

\* Something else is drawn: a picture has come, or the role has changed.
Redraws ==
    /\ screen' = Drawn(view)
    /\ UNCHANGED <<route, view, dialog, requests, server, gone, slip, acts>>

-----------------------------------------------------------------------------
(* Writes.                                                                 *)

\* isTaskReady, which only the listeners beside the click registry ask.
isTaskReady == view.status = "ready" /\ view.of # None

\* What a press asks of the page.  The controls are the screen's, the task is
\* the view's.
MayPress(k) ==
    /\ screen.page # None
    /\ k = "assignee" => isTaskReady
    /\ k = "comment" => screen.text # None

Press(q, k) ==
    /\ At(q, "idle") /\ MayPress(k)
    /\ CountsAct
    /\ Advances(q, [kind |-> k, stage |-> IF k = "label" THEN "lookup" ELSE "sent",
                    task |-> view.task, rev |-> 0, listed |-> 0])
    /\ UNCHANGED <<route, view, screen, dialog, server, gone, slip>>

\* saveInlineLabel has its label, and addresses the write.
LooksUp(q) ==
    /\ At(q, "lookup")
    /\ Advances(q, [requests[q] EXCEPT !.stage = "sent", !.task = view.task])
    /\ UNCHANGED <<route, view, screen, dialog, server, gone, slip, acts>>

\* A key in the comment box; the box and the draft hold the same text.
Types ==
    /\ screen.page # None
    /\ screen' = [screen EXCEPT !.text = IF @ = None THEN screen.page ELSE @]
    /\ view' = [view EXCEPT !.draft = screen'.text]
    /\ UNCHANGED <<route, dialog, requests, server, gone, slip, acts>>

OpenDialog ==
    /\ screen.page # None /\ ~ dialog /\ dialog' = TRUE
    /\ CountsAct
    /\ UNCHANGED <<route, view, screen, requests, server, gone, slip>>

CloseDialog ==
    /\ dialog /\ dialog' = FALSE
    /\ UNCHANGED <<route, view, screen, requests, server, gone, slip, acts>>

ConfirmDelete(q) ==
    /\ dialog /\ At(q, "idle")
    /\ CountsAct
    /\ Advances(q, [kind |-> "delete", stage |-> "sent", task |-> view.task,
                    rev |-> 0, listed |-> 0])
    /\ UNCHANGED <<route, view, screen, dialog, server, gone, slip>>

\* The server carries the request out; for the other order it reads the comments.
Serves(q) ==
    /\ requests[q].stage \in {"sent", "sent2"} /\ requests[q].task \notin gone
    /\ Advances(q, [requests[q] EXCEPT
           !.stage = IF @ = "sent" THEN "served" ELSE "served2",
           !.listed = IF requests[q].kind = "order" THEN server[requests[q].task] ELSE 0])
    /\ CASE requests[q].kind = "order" -> UNCHANGED <<server, gone>>
         [] requests[q].kind = "delete" -> gone' = gone \cup {requests[q].task} /\ UNCHANGED server
         [] OTHER -> server' = [server EXCEPT ![requests[q].task] = @ + 1] /\ UNCHANGED gone
    /\ UNCHANGED <<route, view, screen, dialog, slip, acts>>

\* refreshAfterWrite: the task re-read is the one the view names by now.
ReReads(q) == Advances(q, Reading("reread", view.task))

\* A fault: half an assignment is reported and left.
LeavesHalf(q) == Ends(q)

\* What a handler does about a failure: it reports it, and re-reads the task
\* only if half of it may have been done.
GivesUp(q) == IF requests[q].kind = "assignee" THEN ReReads(q) ELSE Ends(q)

\* The write is refused, or never reaches the server.
Refused(q) ==
    /\ requests[q].stage \in {"lookup", "sent", "sent2"}
    /\ GivesUp(q)
    /\ UNCHANGED <<route, view, screen, dialog, server, gone, slip, acts>>

\* The answer to a request that was served does not come back.
AnswerLost(q) ==
    /\ requests[q].stage \in {"served", "served2"}
    /\ GivesUp(q)
    /\ slip' = (slip \/ requests[q].kind \notin {"order", "assignee"})
    /\ UNCHANGED <<route, view, screen, dialog, server, gone, acts>>

\* The first half of an assignment: the second follows, unless nobody is chosen.
HalfAssigned(q) ==
    /\ At(q, "served") /\ requests[q].kind = "assignee"
    /\ Advances(q, [requests[q] EXCEPT !.stage = "sent2"])
    /\ UNCHANGED <<route, view, screen, dialog, server, gone, slip, acts>>

Written(q) ==
    /\ requests[q].stage \in {"served", "served2"}
    /\ requests[q].kind \in {"patch", "comment", "label", "assignee"}
    /\ view' = IF requests[q].kind = "comment" THEN [view EXCEPT !.draft = None] ELSE view
    /\ ReReads(q)
    /\ UNCHANGED <<route, screen, dialog, server, gone, slip, acts>>

\* The list that comes is set under whichever task the view names, and over
\* whichever list a re-read has brought meanwhile.
Ordered(q) ==
    /\ At(q, "served") /\ requests[q].kind = "order"
    /\ view' = [view EXCEPT !.comments = requests[q].task, !.listed = requests[q].listed]
    /\ slip' = (slip \/ (isTaskReady /\ (~ Takes(q) \/ requests[q].listed < view.rev)))
    /\ Renders
    /\ Ends(q)
    /\ UNCHANGED <<route, dialog, server, gone, acts>>

Deleted(q) ==
    /\ At(q, "served") /\ requests[q].kind = "delete"
    /\ dialog' = FALSE
    /\ view' = [view EXCEPT !.status = "deleted", !.of = None]
    /\ Renders
    /\ Ends(q)
    /\ UNCHANGED <<route, server, gone, slip, acts>>

-----------------------------------------------------------------------------
\* What the network and the server do for a handler.
Progress(q) ==
    \/ ReadTask(q) \/ ReadComments(q) \/ CommentsFail(q) \/ Lands(q) \/ ReadFails(q)
    \/ LooksUp(q) \/ Serves(q) \/ Refused(q) \/ AnswerLost(q)
    \/ HalfAssigned(q) \/ Written(q) \/ Ordered(q) \/ Deleted(q)

\* What the person does.
Acts ==
    \/ \E q \in Requests :
        \/ \E t \in Tasks : Navigate(t, q)
        \/ \E k \in Presses : Press(q, k)
        \/ ConfirmDelete(q)
    \/ Types \/ OpenDialog \/ CloseDialog

Next == Acts \/ Redraws \/ \E q \in Requests : Progress(q)

Spec == Init /\ [][Next]_vars

\* Every request is answered or fails; nobody has to press anything.
FairSpec == Spec /\ \A q \in Requests : WF_vars(Progress(q))

-----------------------------------------------------------------------------
(* Properties.                                                             *)

Handler == [kind: {"load", "reread", "delete"} \cup Presses,
            stage: {"lookup", "sent", "served", "sent2", "served2", "task", "comments", "back"},
            task: Tasks, rev: Nat, listed: Nat]

ViewType == [task: Tasks, status: {"loading", "ready", "failed", "deleted"},
             of: Tasks \cup {None}, rev: Nat,
             comments: Tasks \cup {None}, listed: Nat, draft: Tasks \cup {None}]

ScreenType == [page: Tasks \cup {None}, text: Tasks \cup {None}]

\* The types of what the view, the screen and the handlers hold.
TypeOK ==
    /\ route \in Tasks
    /\ view \in ViewType
    /\ screen \in ScreenType
    /\ dialog \in BOOLEAN /\ slip \in BOOLEAN
    /\ requests \in [Requests -> Handler \cup {Idle}]
    /\ server \in [Tasks -> Nat] /\ gone \subseteq Tasks
    /\ acts \in 0 .. MaxActs

\* The task the view holds is the one of the route, however late the answers
\* of other tasks come.  (ensureLoaded, reload)
TaskIsRouted == view.task = route /\ view.of \in {None, route}

\* A view that is loading has its load under way: no order of routes and
\* answers leaves the page loading with nothing to wait for.  (ensureLoaded)
LoadIsUnderWay ==
    view.status = "loading" =>
        \E q \in Requests : requests[q].kind = "load" /\ requests[q].task = view.task

\* A page at rest shows the task as the server has it, whatever was written and
\* however far a refused write got, unless an answer was lost, overtook a later
\* one, or came to another task's page.  Of the comments CommentsCatchUp speaks.
\* (refreshAfterWrite, changeAssignee)
CatchesUp ==
    Quiet /\ isTaskReady /\ ~ slip =>
        view.of \notin gone /\ view.rev = server[view.of]

\* And its comments are those of that task, as the server has them: no list read
\* before a comment was accepted, and none of another task, stays on the page.
\* The page may be without them: a list that could not be read is shown as an
\* empty one, without a word (view-task.js:561-574).
CommentsCatchUp ==
    Quiet /\ isTaskReady /\ ~ slip =>
        view.listed = 0 \/ (view.comments = view.of /\ view.listed = server[view.of])

\* A screen shows a task the route has left only while the view loads: that is
\* the only time its controls write to a task other than the one they show.
\* (render, ensureLoaded)
StaleScreenLoads == screen.page \notin {None, route} => view.status = "loading"

\* A screen that shows a task the route has left does not stay: the load under
\* way draws it anew.  (ensureLoaded's finally)
ScreenFollows == (screen.page \notin {None, route}) ~> (screen.page \in {None, route})

\* Half a comment is not lost to a render or a re-read it did not ask for: a
\* draft goes when a comment is accepted, or with its page.  (commentsSection)
DraftIsKept ==
    [][view.draft # None /\ view'.draft = None =>
         \/ view'.task # view.task
         \/ \E q \in Requests : requests[q].kind = "comment" /\ Written(q)]_vars
=============================================================================
