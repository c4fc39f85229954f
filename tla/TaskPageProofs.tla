--------------------------- MODULE TaskPageProofs ---------------------------
(***************************************************************************)
(* Proofs about TaskPage.  TLC checks two tasks and two handlers; here     *)
(* they are any sets, and the number of acts is any bound.                 *)
(*                                                                         *)
(* CatchesUp speaks of a page at rest and is not inductive.  What makes it *)
(* true while handlers are under way is that somebody still owes the page  *)
(* what it does not show: a read that will see it, or a write that will    *)
(* re-read (OwesRev, OwesEnd).  The comments are never older than the task *)
(* beside them (ListSound), so they are owed nothing of their own.         *)
(***************************************************************************)
EXTENDS TaskPage, TLAPS

Reads(q) == requests[q].kind \in {"load", "reread"} /\ requests[q].task = view.task

\* A handler that will show the page the task's present revision.
BringsRev(q) ==
    \/ Reads(q) /\ At(q, "task")
    \/ /\ Reads(q) /\ requests[q].stage \in {"comments", "back"}
       /\ requests[q].rev = server[view.task]
    \/ /\ requests[q].kind \in {"patch", "comment", "label", "assignee"}
       /\ requests[q].stage \in {"served", "sent2", "served2"}
       /\ requests[q].task = view.task

\* A handler that will find out that the task is gone.
BringsEnd(q) ==
    \/ Reads(q) /\ At(q, "task")
    \/ requests[q].kind = "delete" /\ At(q, "served") /\ requests[q].task = view.task

\* The page counts on its handlers.
Counts == ~ slip /\ view.status \in {"loading", "ready"}

OwesRev ==
    Counts => \/ view.status = "ready" /\ view.rev = server[view.task]
              \/ \E q \in Requests : BringsRev(q)

OwesEnd == Counts /\ view.task \in gone => \E q \in Requests : BringsEnd(q)

\* A list of comments read no earlier than the task's revision rev.
Since(t, rev, listed) == listed = 0 \/ (rev <= listed /\ listed <= server[t])

ListSound ==
    isTaskReady /\ ~ slip =>
        /\ Since(view.task, view.rev, view.listed)
        /\ view.comments = view.task

-----------------------------------------------------------------------------
(* Types.                                                                  *)

LEMMA LoadTyped ==
  \A t \in Tasks : /\ Loading(t) \in ViewType
                    /\ Reading("load", t) \in Handler /\ Reading("reread", t) \in Handler
  BY DEF Reading, Loading, Handler, ViewType

LEMMA BusyIsHandler ==
  ASSUME TypeOK, NEW q \in Requests, NEW stage, At(q, stage), stage # "idle"
  PROVE  requests[q] \in Handler
  BY DEF TypeOK, At, Idle

LEMMA DrawnTyped == \A v \in ViewType : Drawn(v) \in ScreenType
  BY DEF Drawn, ViewType, ScreenType

LEMMA AdvancesTyped ==
  ASSUME TypeOK, NEW q \in Requests, NEW r \in Handler \cup {Idle}, Advances(q, r)
  PROVE  requests' \in [Requests -> Handler \cup {Idle}]
  BY DEF TypeOK, Advances

LEMMA InitType == Init => TypeOK
  <1> SUFFICES ASSUME Init PROVE TypeOK
    OBVIOUS
  <1>1. requests \in [Requests -> Handler \cup {Idle}]
    <2>1. PICK q \in Requests :
            requests = [p \in Requests |-> IF p = q THEN Reading("load", route) ELSE Idle]
      BY DEF Init
    <2> QED
      BY <2>1, LoadTyped DEF Init
  <1>2. view \in ViewType /\ screen \in ScreenType
    BY LoadTyped, DrawnTyped DEF Init
  <1>3. acts \in 0 .. MaxActs
    BY TaskAssumption DEF Init
  <1>4. server \in [Tasks -> Nat] /\ gone \subseteq Tasks /\ dialog \in BOOLEAN /\ slip \in BOOLEAN
    BY DEF Init
  <1> QED
    BY <1>1, <1>2, <1>3, <1>4 DEF Init, TypeOK

LEMMA ActsType == ASSUME TypeOK, Acts PROVE TypeOK'
  <1>1. ASSUME NEW q \in Requests, NEW t \in Tasks, Navigate(t, q) PROVE TypeOK'
    <2>1. requests' \in [Requests -> Handler \cup {Idle}]
      BY <1>1, AdvancesTyped, LoadTyped DEF Navigate
    <2>2. view' \in ViewType /\ screen' \in ScreenType
      BY <1>1, LoadTyped, DrawnTyped DEF Navigate, TypeOK
    <2>3. acts' \in 0 .. MaxActs
      BY <1>1, TaskAssumption DEF TypeOK, Navigate, CountsAct
    <2> QED
      BY <1>1, <2>1, <2>2, <2>3 DEF TypeOK, Navigate
  <1>2. ASSUME NEW q \in Requests, NEW k \in Presses, Press(q, k) PROVE TypeOK'
    <2>1. requests' \in [Requests -> Handler \cup {Idle}]
      BY <1>2 DEF TypeOK, Press, Advances, Handler, ViewType
    <2>2. acts' \in 0 .. MaxActs
      BY <1>2, TaskAssumption DEF TypeOK, Press, CountsAct
    <2> QED
      BY <1>2, <2>1, <2>2 DEF TypeOK, Press
  <1>3. ASSUME NEW q \in Requests, ConfirmDelete(q) PROVE TypeOK'
    <2>1. requests' \in [Requests -> Handler \cup {Idle}]
      BY <1>3 DEF TypeOK, ConfirmDelete, Advances, Handler, ViewType
    <2>2. acts' \in 0 .. MaxActs
      BY <1>3, TaskAssumption DEF TypeOK, ConfirmDelete, CountsAct
    <2> QED
      BY <1>3, <2>1, <2>2 DEF TypeOK, ConfirmDelete
  <1>4. CASE Types
    BY <1>4 DEF TypeOK, Types, ViewType, ScreenType
  <1>5. CASE OpenDialog
    <2>1. acts' \in 0 .. MaxActs
      BY <1>5, TaskAssumption DEF TypeOK, OpenDialog, CountsAct
    <2> QED
      BY <1>5, <2>1 DEF TypeOK, OpenDialog
  <1>6. CASE CloseDialog
    BY <1>6 DEF TypeOK, CloseDialog
  <1> QED BY <1>1, <1>2, <1>3, <1>4, <1>5, <1>6 DEF Acts

LEMMA GivesUpTyped ==
  ASSUME TypeOK, NEW q \in Requests, GivesUp(q) \/ ReReads(q) \/ Ends(q)
  PROVE  requests' \in [Requests -> Handler \cup {Idle}]
  <1>1. view.task \in Tasks
    BY DEF TypeOK, ViewType
  <1> QED
    BY <1>1, LoadTyped, AdvancesTyped DEF GivesUp, ReReads, Ends

\* A list of comments has come, or has failed.
LEMMA CommentsCome ==
  ASSUME TypeOK, NEW q \in Requests, ReadComments(q) \/ CommentsFail(q)
  PROVE  /\ requests[q] \in Handler /\ requests[q].stage = "comments"
         /\ requests' \in [Requests -> Handler \cup {Idle}]
         /\ requests'[q].kind = requests[q].kind /\ requests'[q].task = requests[q].task
         /\ requests'[q].rev = requests[q].rev /\ requests'[q].stage = "back"
         /\ requests'[q].listed \in {requests[q].listed, server[requests[q].task]}
         /\ UNCHANGED <<route, view, screen, dialog, server, gone, slip, acts>>
  <1>1. requests[q] \in Handler /\ requests[q].stage = "comments"
    BY BusyIsHandler DEF ReadComments, CommentsFail, At
  <1>2. server[requests[q].task] \in Nat
    BY <1>1 DEF TypeOK, Handler
  <1>3. CASE ReadComments(q)
    <2> DEFINE h == [requests[q] EXCEPT !.stage = "back", !.listed = server[requests[q].task]]
    <2>1. h \in Handler
      BY <1>1, <1>2 DEF Handler
    <2>2. requests'[q] = h
      BY <1>3 DEF ReadComments, Advances, TypeOK
    <2>3. requests' \in [Requests -> Handler \cup {Idle}]
      BY <1>3, <2>1, AdvancesTyped DEF ReadComments
    <2> QED BY <1>1, <1>3, <2>2, <2>3 DEF ReadComments, Handler
  <1>4. CASE CommentsFail(q)
    <2> DEFINE h == [requests[q] EXCEPT !.stage = "back"]
    <2>1. h \in Handler
      BY <1>1 DEF Handler
    <2>2. requests'[q] = h
      BY <1>4 DEF CommentsFail, Advances, TypeOK
    <2>3. requests' \in [Requests -> Handler \cup {Idle}]
      BY <1>4, <2>1, AdvancesTyped DEF CommentsFail
    <2> QED BY <1>1, <1>4, <2>2, <2>3 DEF CommentsFail, Handler
  <1> QED BY <1>3, <1>4

LEMMA RendersTyped ==
  ASSUME TypeOK, view' \in ViewType, Renders \/ UNCHANGED screen PROVE screen' \in ScreenType
  BY DrawnTyped DEF Renders, TypeOK

LEMMA ProgressType ==
  ASSUME TypeOK, NEW q \in Requests, Progress(q) PROVE TypeOK'
  <1> DEFINE R == requests[q]
  <1>0. view \in ViewType /\ R \in Handler
    BY BusyIsHandler
    DEF TypeOK, Progress, ReadTask, ReadComments, CommentsFail, Lands, ReadFails, LooksUp, Serves,
        Refused, AnswerLost, HalfAssigned, Written, Ordered, Deleted, At
  <1>1. CASE ReadTask(q)
    <2>1. requests' \in [Requests -> Handler \cup {Idle}]
      BY <1>1, <1>0 DEF ReadTask, TypeOK, Advances, Handler
    <2> QED
      BY <1>1, <2>1 DEF ReadTask, TypeOK
  <1>2. CASE ReadComments(q) \/ CommentsFail(q)
    BY <1>2, CommentsCome DEF TypeOK
  <1>3. CASE Lands(q)
    <2>1. view' \in ViewType /\ slip' \in BOOLEAN
      BY <1>3, <1>0 DEF Lands, Shows, TypeOK, ViewType, Handler
    <2> QED
      BY <1>3, <2>1, GivesUpTyped, RendersTyped DEF Lands, Draws, TypeOK
  <1>4. CASE ReadFails(q)
    <2>1. view' \in ViewType
      BY <1>4, <1>0 DEF ReadFails, Fails, ViewType
    <2> QED
      BY <1>4, <2>1, GivesUpTyped, RendersTyped DEF ReadFails, TypeOK
  <1>5. CASE LooksUp(q)
    <2>1. requests' \in [Requests -> Handler \cup {Idle}]
      BY <1>5, <1>0 DEF LooksUp, TypeOK, Advances, Handler, ViewType
    <2> QED
      BY <1>5, <2>1 DEF LooksUp, TypeOK
  <1>6. CASE Serves(q)
    <2>1. requests' \in [Requests -> Handler \cup {Idle}]
      BY <1>6, <1>0 DEF Serves, TypeOK, Advances, Handler
    <2>2. server' \in [Tasks -> Nat]
      BY <1>6, <1>0 DEF Serves, TypeOK, Handler
    <2>3. gone' \subseteq Tasks
      BY <1>6, <1>0 DEF Serves, TypeOK, Handler
    <2> QED
      BY <1>6, <2>1, <2>2, <2>3 DEF Serves, TypeOK
  <1>7. CASE Refused(q)
    BY <1>7, GivesUpTyped DEF Refused, TypeOK
  <1>8. CASE AnswerLost(q)
    BY <1>8, GivesUpTyped DEF AnswerLost, TypeOK
  <1>9. CASE HalfAssigned(q)
    <2>1. requests' \in [Requests -> Handler \cup {Idle}]
      BY <1>9, <1>0 DEF HalfAssigned, TypeOK, Advances, Handler, ViewType
    <2> QED
      BY <1>9, <2>1 DEF HalfAssigned, TypeOK
  <1>10. CASE Written(q)
    <2>1. view' \in ViewType
      BY <1>10, <1>0 DEF Written, ViewType
    <2> QED
      BY <1>10, <2>1, GivesUpTyped DEF Written, TypeOK
  <1>11. CASE Ordered(q)
    <2>1. view' \in ViewType /\ slip' \in BOOLEAN
      BY <1>11, <1>0 DEF Ordered, ViewType, Handler, TypeOK
    <2> QED
      BY <1>11, <2>1, GivesUpTyped, RendersTyped DEF Ordered, TypeOK
  <1>12. CASE Deleted(q)
    <2>1. view' \in ViewType
      BY <1>12, <1>0 DEF Deleted, ViewType
    <2> QED
      BY <1>12, <2>1, GivesUpTyped, RendersTyped DEF Deleted, TypeOK
  <1> QED
    BY <1>1, <1>2, <1>3, <1>4, <1>5, <1>6, <1>7, <1>8, <1>9, <1>10, <1>11, <1>12
    DEF Progress

LEMMA RedrawsType == ASSUME TypeOK, Redraws PROVE TypeOK'
  BY DrawnTyped DEF TypeOK, Redraws

\* The types of what the view, the screen and the handlers hold.
THEOREM TaskTyped == Spec => []TypeOK
  <1>1. ASSUME TypeOK, [Next]_vars PROVE TypeOK'
    <2>1. CASE UNCHANGED vars
      BY <1>1, <2>1 DEF vars, TypeOK
    <2>2. CASE Next
      BY <1>1, <2>2, ActsType, RedrawsType, ProgressType DEF Next
    <2> QED BY <1>1, <2>1, <2>2
  <1> QED BY <1>1, InitType, PTL DEF Spec

-----------------------------------------------------------------------------
(* Which stages a handler of each kind goes through, and what it has read. *)

KindStage(h) ==
    /\ h.kind \in {"load", "reread"} <=> h.stage \in {"task", "comments", "back"}
    /\ h.stage \in {"sent2", "served2"} => h.kind = "assignee"
    /\ h.stage = "lookup" => h.kind = "label"

Sound(q) ==
    ~ At(q, "idle") =>
        /\ KindStage(requests[q])
        /\ requests[q].stage \in {"comments", "back"} => requests[q].rev <= server[requests[q].task]
        /\ requests[q].stage \in {"task", "comments"} => requests[q].listed = 0
        /\ At(q, "back") => Since(requests[q].task, requests[q].rev, requests[q].listed)
        /\ requests[q].kind = "order" => requests[q].listed <= server[requests[q].task]

HandlersSound == \A q \in Requests : Sound(q)

LEMMA OthersSound ==
  ASSUME TypeOK, TypeOK', HandlersSound, NEW q \in Requests, NEW h, Advances(q, h),
         \A t \in Tasks : server[t] <= server'[t], Sound(q)'
  PROVE  HandlersSound'
  <1> SUFFICES ASSUME NEW p \in Requests, p # q PROVE Sound(p)'
    BY DEF HandlersSound
  <1>1. requests'[p] = requests[p]
    BY DEF Advances, TypeOK
  <1>2. CASE At(p, "idle")
    BY <1>1, <1>2 DEF Sound, At
  <1>3. CASE ~ At(p, "idle")
    <2>1. requests[p] \in Handler
      BY <1>3 DEF TypeOK, At, Idle
    <2>2. server[requests[p].task] \in Nat /\ server'[requests[p].task] \in Nat
          /\ server[requests[p].task] <= server'[requests[p].task]
      BY <2>1 DEF Handler, TypeOK
    <2>3. Sound(p)
      BY DEF HandlersSound
    <2>4. requests[p].rev \in Nat /\ requests[p].listed \in Nat
      BY <2>1 DEF Handler
    <2> QED
      BY <1>1, <1>3, <2>2, <2>3, <2>4 DEF Sound, At, Since
  <1> QED BY <1>2, <1>3

LEMMA NewIsSound ==
  ASSUME TypeOK, NEW q \in Requests, GivesUp(q) \/ ReReads(q) \/ Ends(q)
  PROVE  Sound(q)'
  <1>1. requests'[q] = Idle \/ requests'[q] = Reading("reread", view.task)
    BY DEF TypeOK, GivesUp, ReReads, Ends, Advances
  <1> QED
    BY <1>1 DEF Idle, Reading, Sound, KindStage, At

LEMMA SoundStep ==
  ASSUME TypeOK, TypeOK', HandlersSound, [Next]_vars PROVE HandlersSound'
  <1>0. ASSUME UNCHANGED <<requests, server>> PROVE HandlersSound'
    BY <1>0 DEF HandlersSound, Sound, At, Since
  <1>s. UNCHANGED server => \A t \in Tasks : server[t] <= server'[t]
    BY DEF TypeOK
  <1>1. ASSUME NEW q \in Requests, NEW t \in Tasks, Navigate(t, q) PROVE HandlersSound'
    <2>1. Sound(q)'
      BY <1>1 DEF Navigate, TypeOK, Advances, Reading, Sound, KindStage, At
    <2> QED
      BY <1>1, <1>s, <2>1, OthersSound DEF Navigate
  <1>2. ASSUME NEW q \in Requests, NEW k \in Presses, Press(q, k) PROVE HandlersSound'
    <2>0. server[view.task] \in Nat
      BY DEF TypeOK, ViewType
    <2>1. Sound(q)'
      BY <1>2, <2>0 DEF Press, TypeOK, Advances, Sound, KindStage, At, Presses
    <2> QED
      BY <1>2, <1>s, <2>1, OthersSound DEF Press
  <1>3. ASSUME NEW q \in Requests, ConfirmDelete(q) PROVE HandlersSound'
    <2>1. Sound(q)'
      BY <1>3 DEF ConfirmDelete, TypeOK, Advances, Sound, KindStage, At
    <2> QED
      BY <1>3, <1>s, <2>1, OthersSound DEF ConfirmDelete
  <1>4. ASSUME NEW q \in Requests, Progress(q) PROVE HandlersSound'
    <2>0. requests[q] \in Handler /\ Sound(q) /\ ~ At(q, "idle")
      BY <1>4, BusyIsHandler
      DEF HandlersSound, TypeOK, Progress, ReadTask, ReadComments, CommentsFail, Lands, ReadFails,
          LooksUp, Serves, Refused, AnswerLost, HalfAssigned, Written, Ordered, Deleted, At
    <2>1. CASE ReadTask(q)
      <3>1. server[requests[q].task] \in Nat
        BY <2>0 DEF Handler, TypeOK
      <3>2. Sound(q)'
        BY <2>0, <2>1, <3>1 DEF ReadTask, TypeOK, Advances, Sound, KindStage, At, Handler
      <3> QED
        BY <2>1, <1>s, <3>2, OthersSound DEF ReadTask
    <2>2. CASE ReadComments(q) \/ CommentsFail(q)
      <3>1. server[requests[q].task] \in Nat
        BY <2>0 DEF Handler, TypeOK
      <3>2. Sound(q)'
        <4>1. requests[q].rev \in Nat
          BY <2>0 DEF Handler
        <4> QED
          BY <2>0, <2>2, <3>1, <4>1, CommentsCome DEF Sound, KindStage, At, Since
      <3> QED
        BY <2>2, <1>s, <3>2, OthersSound DEF ReadComments, CommentsFail
    <2>3. CASE LooksUp(q)
      <3>1. Sound(q)'
        BY <2>0, <2>3 DEF LooksUp, TypeOK, Advances, Sound, KindStage, At, Handler
      <3> QED
        BY <2>3, <1>s, <3>1, OthersSound DEF LooksUp
    <2>4. CASE HalfAssigned(q)
      <3>1. Sound(q)'
        BY <2>0, <2>4 DEF HalfAssigned, TypeOK, Advances, Sound, KindStage, At, Handler
      <3> QED
        BY <2>4, <1>s, <3>1, OthersSound DEF HalfAssigned
    <2>5. CASE Serves(q)
      <3>1. Sound(q)'
        BY <2>0, <2>5 DEF Serves, TypeOK, Advances, Sound, KindStage, At, Handler
      <3>2. \A t \in Tasks : server[t] <= server'[t]
        BY <2>5 DEF Serves, TypeOK
      <3> QED
        BY <2>5, <3>1, <3>2, OthersSound DEF Serves
    <2>6. CASE Lands(q) \/ ReadFails(q) \/ Refused(q) \/ AnswerLost(q) \/ Written(q)
               \/ Ordered(q) \/ Deleted(q)
      <3>1. Sound(q)'
        BY <2>6, NewIsSound DEF Lands, ReadFails, Refused, AnswerLost, Written, Ordered, Deleted
      <3> QED
        BY <2>6, <1>s, <3>1, OthersSound
        DEF Lands, ReadFails, Refused, AnswerLost, Written, Ordered, Deleted, GivesUp, ReReads, Ends
    <2> QED
      BY <1>4, <2>1, <2>2, <2>3, <2>4, <2>5, <2>6 DEF Progress
  <1>5. CASE UNCHANGED vars \/ Redraws \/ Types \/ OpenDialog \/ CloseDialog
    BY <1>0, <1>5 DEF vars, Redraws, Types, OpenDialog, CloseDialog
  <1> QED
    BY <1>1, <1>2, <1>3, <1>4, <1>5 DEF Next, Acts

-----------------------------------------------------------------------------
(* The route, the load and the screen.                                     *)

LEMMA RoutedStep == ASSUME TypeOK, TaskIsRouted, [Next]_vars PROVE TaskIsRouted'
  <1> USE DEF TaskIsRouted
  <1>1. ASSUME NEW q \in Requests, NEW t \in Tasks, Navigate(t, q) PROVE TaskIsRouted'
    BY <1>1 DEF Navigate, Loading
  <1>2. ASSUME NEW q \in Requests, Progress(q) PROVE TaskIsRouted'
    <2>1. CASE Lands(q)
      BY <2>1 DEF Lands, Takes, Shows, TypeOK, ViewType
    <2>2. CASE ReadFails(q)
      BY <2>2 DEF ReadFails, Fails, TypeOK, ViewType
    <2>3. CASE Written(q) \/ Ordered(q) \/ Deleted(q)
      BY <2>3 DEF Written, Ordered, Deleted, TypeOK, ViewType
    <2>4. CASE UNCHANGED <<route, view>>
      BY <2>4
    <2> QED
      BY <1>2, <2>1, <2>2, <2>3, <2>4
      DEF Progress, ReadTask, ReadComments, CommentsFail, LooksUp, Serves, Refused, AnswerLost,
          HalfAssigned
  <1>3. CASE Types
    BY <1>3 DEF Types, TypeOK, ViewType
  <1> QED
    BY <1>1, <1>2, <1>3 DEF Next, Acts, vars, Press, ConfirmDelete, OpenDialog, CloseDialog, Redraws

\* The task the view holds is the one of the route, however late the answers
\* of other tasks come.  (ensureLoaded, reload)
THEOREM HoldsTheRoutedTask == Spec => []TaskIsRouted
  <1>1. Init => TaskIsRouted
    BY DEF Init, TaskIsRouted, Loading
  <1> QED
    BY <1>1, RoutedStep, TaskTyped, PTL DEF Spec

LEMMA OthersLoad ==
  ASSUME TypeOK, LoadIsUnderWay, NEW q \in Requests, NEW h, Advances(q, h),
         view'.task = view.task, view'.status = view.status,
         requests[q].kind # "load" \/ requests[q].task # view.task
  PROVE  LoadIsUnderWay'
  <1> SUFFICES ASSUME view'.status = "loading"
               PROVE  \E p \in Requests : requests'[p].kind = "load" /\ requests'[p].task = view'.task
    BY DEF LoadIsUnderWay
  <1>1. PICK p \in Requests : requests[p].kind = "load" /\ requests[p].task = view.task
    BY DEF LoadIsUnderWay
  <1>2. p # q
    BY <1>1
  <1>3. requests'[p] = requests[p]
    BY <1>2 DEF Advances, TypeOK
  <1> QED BY <1>1, <1>3

\* A read that goes on is the same read.
LEMMA ReadLoads ==
  ASSUME TypeOK, LoadIsUnderWay, NEW q \in Requests,
         ReadTask(q) \/ ReadComments(q) \/ CommentsFail(q)
  PROVE  LoadIsUnderWay'
  <1>1. requests[q] \in Handler
    BY BusyIsHandler DEF ReadTask, ReadComments, CommentsFail
  <1>2. ASSUME NEW p \in Requests
        PROVE  requests'[p].kind = requests[p].kind /\ requests'[p].task = requests[p].task
    <2>1. CASE p # q
      BY <2>1 DEF ReadTask, ReadComments, CommentsFail, Advances, TypeOK
    <2>2. CASE ReadTask(q) /\ p = q
      BY <1>1, <2>2 DEF ReadTask, Advances, TypeOK, Handler
    <2>3. CASE (ReadComments(q) \/ CommentsFail(q)) /\ p = q
      BY <1>1, <2>3 DEF ReadComments, CommentsFail, Advances, TypeOK, Handler
    <2> QED BY <2>1, <2>2, <2>3
  <1>3. view' = view
    BY DEF ReadTask, ReadComments, CommentsFail
  <1> QED BY <1>2, <1>3 DEF LoadIsUnderWay

LEMMA LoadStep ==
  ASSUME TypeOK, HandlersSound, LoadIsUnderWay, [Next]_vars PROVE LoadIsUnderWay'
  <1>1. ASSUME NEW q \in Requests, NEW t \in Tasks, Navigate(t, q) PROVE LoadIsUnderWay'
    <2>1. requests'[q] = Reading("load", t) /\ view'.task = t
      BY <1>1 DEF Navigate, Advances, TypeOK, Loading
    <2> QED BY <2>1 DEF LoadIsUnderWay, Reading
  <1>2. ASSUME NEW q \in Requests, At(q, "idle"), NEW h, Advances(q, h), UNCHANGED view
        PROVE  LoadIsUnderWay'
    <2>1. requests[q].task = None \/ requests[q].kind # "load"
      BY <1>2 DEF TypeOK, Idle, Handler, At
    <2>2. view.task # None
      BY TaskAssumption DEF TypeOK, ViewType
    <2> QED BY <1>2, <2>1, <2>2, OthersLoad
  <1>3. ASSUME NEW q \in Requests, Progress(q) PROVE LoadIsUnderWay'
    <2>0. requests[q] \in Handler /\ KindStage(requests[q])
      BY <1>3, BusyIsHandler
      DEF HandlersSound, Sound, Progress, ReadTask, ReadComments, CommentsFail, Lands, ReadFails,
          LooksUp, Serves, Refused, AnswerLost, HalfAssigned, Written, Ordered, Deleted, At
    <2>1. CASE ReadTask(q) \/ ReadComments(q) \/ CommentsFail(q)
      BY <2>1, ReadLoads
    <2>2. CASE Lands(q)
      <3>1. CASE Takes(q)
        BY <2>2, <3>1 DEF Lands, Shows, LoadIsUnderWay, TypeOK, ViewType
      <3>2. CASE ~ Takes(q)
        BY <2>2, <3>2, OthersLoad DEF Lands, Takes, Ends
      <3> QED BY <3>1, <3>2
    <2>3. CASE ReadFails(q)
      <3>1. CASE requests[q].kind # "load" \/ Takes(q)
        BY <2>3, <3>1 DEF ReadFails, Fails, LoadIsUnderWay, TypeOK, ViewType
      <3>2. CASE ~ (requests[q].kind # "load" \/ Takes(q))
        BY <2>3, <3>2, OthersLoad DEF ReadFails, Fails, Takes, Ends
      <3> QED BY <3>1, <3>2
    <2>4. CASE Deleted(q)
      BY <2>4 DEF Deleted, LoadIsUnderWay, TypeOK, ViewType
    <2>5. CASE Written(q) \/ Ordered(q)
      <3>1. requests[q].kind # "load"
        BY <2>0, <2>5 DEF Written, Ordered, KindStage, At
      <3>2. view'.task = view.task /\ view'.status = view.status
        BY <2>5 DEF Written, Ordered, TypeOK, ViewType
      <3> QED
        BY <2>5, <3>1, <3>2, OthersLoad DEF Written, Ordered, ReReads, Ends
    <2>6. CASE LooksUp(q) \/ Serves(q) \/ Refused(q) \/ AnswerLost(q) \/ HalfAssigned(q)
      <3>1. requests[q].kind # "load"
        BY <2>0, <2>6 DEF LooksUp, Serves, Refused, AnswerLost, HalfAssigned, KindStage, At
      <3> QED
        BY <2>6, <3>1, OthersLoad
        DEF LooksUp, Serves, Refused, AnswerLost, HalfAssigned, GivesUp, ReReads, Ends
    <2> QED
      BY <1>3, <2>1, <2>2, <2>3, <2>4, <2>5, <2>6 DEF Progress
  <1>4. CASE UNCHANGED <<requests, view>>
    BY <1>4 DEF LoadIsUnderWay
  <1>5. CASE Types
    BY <1>5 DEF Types, LoadIsUnderWay, TypeOK, ViewType
  <1> QED
    BY <1>1, <1>2, <1>3, <1>4, <1>5
    DEF Next, Acts, vars, Press, ConfirmDelete, OpenDialog, CloseDialog, Redraws

LEMMA ScreenStep ==
  ASSUME TypeOK, TaskIsRouted, TaskIsRouted', StaleScreenLoads, [Next]_vars PROVE StaleScreenLoads'
  <1> USE DEF StaleScreenLoads
  <1>1. ASSUME Renders PROVE StaleScreenLoads'
    BY <1>1 DEF Renders, Drawn, TaskIsRouted
  <1>2. ASSUME UNCHANGED <<route, screen>>, view'.status = view.status PROVE StaleScreenLoads'
    BY <1>2
  <1>3. ASSUME NEW q \in Requests, NEW t \in Tasks, Navigate(t, q) PROVE StaleScreenLoads'
    BY <1>3 DEF Navigate, Loading
  <1>4. CASE Types
    BY <1>4 DEF Types, TypeOK, ViewType, ScreenType
  <1>5. CASE Redraws
    BY <1>1, <1>5 DEF Redraws, Renders
  <1>6. ASSUME NEW q \in Requests, Progress(q) PROVE StaleScreenLoads'
    <2>1. CASE Lands(q)
      BY <1>1, <1>2, <2>1 DEF Lands, Draws
    <2>2. CASE Written(q)
      <3>1. view'.status = view.status
        BY <2>2 DEF Written, TypeOK, ViewType
      <3> QED BY <1>2, <2>2, <3>1 DEF Written
    <2> QED
      BY <1>1, <1>2, <1>6, <2>1, <2>2
      DEF Progress, ReadTask, ReadComments, CommentsFail, ReadFails, LooksUp, Serves, Refused, AnswerLost,
          HalfAssigned, Ordered, Deleted
  <1> QED
    BY <1>2, <1>3, <1>4, <1>5, <1>6 DEF Next, Acts, vars, Press, ConfirmDelete, OpenDialog, CloseDialog

-----------------------------------------------------------------------------
(* What is owed to the page.                                               *)

LEMMA OthersOwe ==
  ASSUME TypeOK, NEW q \in Requests, NEW h, Advances(q, h), view'.task = view.task,
         NEW p \in Requests, p # q
  PROVE  /\ BringsEnd(p)' <=> BringsEnd(p)
         /\ server'[view.task] = server[view.task] => (BringsRev(p)' <=> BringsRev(p))
  <1>1. requests'[p] = requests[p]
    BY DEF Advances, TypeOK
  <1> QED
    BY <1>1 DEF BringsRev, BringsEnd, Reads, At

\* A handler that brings nothing may go, and one that brings all may come.
LEMMA OweStep ==
  ASSUME TypeOK, OwesRev, OwesEnd, NEW q \in Requests, NEW h, Advances(q, h),
         view'.task = view.task, view'.status = view.status, view'.rev = view.rev,
         UNCHANGED <<server, gone>>, ~ slip' => ~ slip,
         BringsRev(q) => BringsRev(q)', BringsEnd(q) /\ view.task \in gone => BringsEnd(q)'
  PROVE  OwesRev' /\ OwesEnd'
  <1>1. ASSUME Counts' PROVE Counts
    BY <1>1 DEF Counts
  <1>2. OwesRev'
    <2> SUFFICES ASSUME Counts', ~ (view'.status = "ready" /\ view'.rev = server'[view'.task])
                 PROVE  \E p \in Requests : BringsRev(p)'
      BY DEF OwesRev
    <2>1. PICK p \in Requests : BringsRev(p)
      BY <1>1 DEF OwesRev
    <2> QED BY <2>1, OthersOwe
  <1>3. OwesEnd'
    <2> SUFFICES ASSUME Counts', view.task \in gone PROVE \E p \in Requests : BringsEnd(p)'
      BY DEF OwesEnd
    <2>1. PICK p \in Requests : BringsEnd(p)
      BY <1>1 DEF OwesEnd
    <2> QED BY <2>1, OthersOwe
  <1> QED BY <1>2, <1>3

LEMMA AgainBrings ==
  ASSUME TypeOK, NEW q \in Requests, ReReads(q), view'.task = view.task
  PROVE  BringsRev(q)' /\ BringsEnd(q)'
  BY DEF TypeOK, ReReads, Advances, Reading, BringsRev, BringsEnd, Reads, At

LEMMA OwedWhenLanded ==
  ASSUME TypeOK, TypeOK', HandlersSound, OwesRev, OwesEnd, NEW q \in Requests, Lands(q)
  PROVE  OwesRev' /\ OwesEnd'
  <1>0. requests[q] \in Handler /\ Sound(q) /\ At(q, "back")
    BY BusyIsHandler DEF HandlersSound, Lands
  <1>1. CASE ~ Takes(q)
    <2>1. ~ BringsRev(q) /\ ~ BringsEnd(q)
      BY <1>0, <1>1 DEF Takes, BringsRev, BringsEnd, Reads, At
    <2> QED
      BY <1>1, <2>1, OweStep DEF Lands, Ends
  <1>2. CASE Takes(q)
    <2>1. /\ view'.status = "ready" /\ view'.rev = requests[q].rev /\ view'.task = view.task
          /\ UNCHANGED <<server, gone>> /\ Advances(q, Idle)
      BY <1>2 DEF Lands, Shows, TypeOK, ViewType, Ends
    <2>2. ~ slip' => Counts /\ ~ (requests[q].rev < view.rev)
      BY <1>2 DEF Lands, Counts
    <2>3. requests[q].rev \in Nat /\ view.rev \in Nat /\ server[view.task] \in Nat
          /\ requests[q].rev <= server[view.task]
      BY <1>0, <1>2 DEF Takes, Sound, At, Handler, TypeOK, ViewType
    <2>4. ~ BringsEnd(q)
      BY <1>0 DEF BringsEnd, At
    <2>5. OwesEnd'
      <3> SUFFICES ASSUME ~ slip', view.task \in gone PROVE \E p \in Requests : BringsEnd(p)'
        BY <2>1 DEF OwesEnd, Counts
      <3>1. PICK p \in Requests : BringsEnd(p)
        BY <2>2 DEF OwesEnd
      <3> QED BY <2>1, <2>4, <3>1, OthersOwe
    <2>6. OwesRev'
      <3> SUFFICES ASSUME ~ slip', requests[q].rev # server[view.task]
                   PROVE  \E p \in Requests : BringsRev(p)'
        BY <2>1 DEF OwesRev, Counts
      <3>1. ~ BringsRev(q)
        BY <1>0 DEF BringsRev, Sound, KindStage, At
      <3>2. view.rev # server[view.task]
        BY <2>2, <2>3
      <3>3. PICK p \in Requests : BringsRev(p)
        BY <2>2, <3>2 DEF OwesRev
      <3> QED BY <2>1, <3>1, <3>3, OthersOwe
    <2> QED BY <2>5, <2>6
  <1> QED BY <1>1, <1>2

LEMMA OwedWhenServed ==
  ASSUME TypeOK, HandlersSound, OwesRev, OwesEnd, NEW q \in Requests, Serves(q)
  PROVE  OwesRev' /\ OwesEnd'
  <1> DEFINE h == [requests[q] EXCEPT
                      !.stage = IF @ = "sent" THEN "served" ELSE "served2",
                      !.listed = IF requests[q].kind = "order" THEN server[requests[q].task] ELSE 0]
  <1>0. requests[q] \in Handler /\ KindStage(requests[q]) /\ requests[q].stage \in {"sent", "sent2"}
    BY BusyIsHandler DEF HandlersSound, Sound, Serves, At
  <1>1. /\ requests'[q].kind = requests[q].kind /\ requests'[q].task = requests[q].task
        /\ requests'[q].stage = IF requests[q].stage = "sent" THEN "served" ELSE "served2"
        /\ Advances(q, h) /\ UNCHANGED <<view, slip>>
    BY <1>0 DEF Serves, Advances, TypeOK, Handler
  <1>2. requests[q].kind \notin {"load", "reread"}
    BY <1>0 DEF KindStage
  <1>3. CASE requests[q].kind = "order"
    <2>1. ~ BringsRev(q) /\ ~ BringsEnd(q)
      BY <1>3 DEF BringsRev, BringsEnd, Reads
    <2> QED
      BY <1>1, <1>3, <2>1, OweStep DEF Serves
  <1>4. CASE requests[q].kind = "delete"
    <2>1. ~ BringsRev(q)
      BY <1>4 DEF BringsRev, Reads
    <2>2. UNCHANGED server /\ gone' = gone \cup {requests[q].task}
      BY <1>4 DEF Serves
    <2>3. OwesRev'
      <3> SUFFICES ASSUME Counts, ~ (view.status = "ready" /\ view.rev = server[view.task])
                   PROVE  \E p \in Requests : BringsRev(p)'
        BY <1>1, <2>2 DEF OwesRev, Counts
      <3>1. PICK p \in Requests : BringsRev(p)
        BY DEF OwesRev
      <3> QED BY <1>1, <2>1, <2>2, <3>1, OthersOwe
    <2>4. OwesEnd'
      <3> SUFFICES ASSUME Counts, view.task \in gone' PROVE \E p \in Requests : BringsEnd(p)'
        BY <1>1 DEF OwesEnd, Counts
      <3>1. CASE requests[q].task = view.task
        <4>1. requests[q].stage = "sent"
          BY <1>0, <1>4 DEF KindStage
        <4> QED BY <1>1, <1>4, <3>1, <4>1 DEF BringsEnd, At
      <3>2. CASE requests[q].task # view.task
        <4>1. PICK p \in Requests : BringsEnd(p)
          BY <2>2, <3>2 DEF OwesEnd
        <4>2. p # q
          BY <1>0, <4>1 DEF BringsEnd, At
        <4> QED BY <1>1, <4>1, <4>2, OthersOwe
      <3> QED BY <3>1, <3>2
    <2> QED BY <2>3, <2>4
  <1>5. CASE requests[q].kind \in {"patch", "comment", "label", "assignee"}
    <2>1. server' = [server EXCEPT ![requests[q].task] = @ + 1] /\ UNCHANGED gone
      BY <1>5 DEF Serves
    <2>2. ~ BringsEnd(q)
      BY <1>0 DEF BringsEnd, At
    <2>3. OwesEnd'
      <3> SUFFICES ASSUME Counts, view.task \in gone PROVE \E p \in Requests : BringsEnd(p)'
        BY <1>1, <2>1 DEF OwesEnd, Counts
      <3>1. PICK p \in Requests : BringsEnd(p)
        BY DEF OwesEnd
      <3> QED BY <1>1, <2>2, <3>1, OthersOwe
    <2>4. CASE requests[q].task = view.task
      <3>1. BringsRev(q)'
        BY <1>1, <1>5, <2>4 DEF BringsRev
      <3> QED BY <2>3, <3>1 DEF OwesRev
    <2>5. CASE requests[q].task # view.task
      <3>1. server'[view.task] = server[view.task]
        BY <2>1, <2>5 DEF TypeOK, ViewType
      <3>2. ~ BringsRev(q)
        BY <1>2, <2>5 DEF BringsRev, Reads
      <3>3. OwesRev'
        <4> SUFFICES ASSUME Counts, ~ (view.status = "ready" /\ view.rev = server[view.task])
                     PROVE  \E p \in Requests : BringsRev(p)'
          BY <1>1, <3>1 DEF OwesRev, Counts
        <4>1. PICK p \in Requests : BringsRev(p)
          BY DEF OwesRev
        <4> QED BY <1>1, <3>1, <3>2, <4>1, OthersOwe
      <3> QED BY <2>3, <3>3
    <2> QED BY <2>4, <2>5
  <1> QED
    BY <1>0, <1>2, <1>3, <1>4, <1>5 DEF Handler, Presses

\* A handler that is idle, or has not written yet, brings nothing.
LEMMA BringsNothing ==
  ASSUME NEW q \in Requests, requests[q].stage \in {"idle", "lookup", "sent"}
  PROVE  ~ BringsRev(q) /\ ~ BringsEnd(q)
  BY DEF BringsRev, BringsEnd, At

LEMMA OwedWhileRead ==
  ASSUME TypeOK, OwesRev, OwesEnd, NEW q \in Requests,
         ReadTask(q) \/ ReadComments(q) \/ CommentsFail(q)
  PROVE  OwesRev' /\ OwesEnd'
  <1>0. requests[q] \in Handler
    BY BusyIsHandler DEF ReadTask, ReadComments, CommentsFail
  <1>1. CASE ReadTask(q)
    <2>1. BringsRev(q) => BringsRev(q)'
      BY <1>0, <1>1 DEF ReadTask, Advances, BringsRev, Reads, At, TypeOK, Handler
    <2>2. ~ (BringsEnd(q) /\ view.task \in gone)
      BY <1>1 DEF ReadTask, BringsEnd, Reads, At
    <2> QED BY <1>1, <2>1, <2>2, OweStep DEF ReadTask
  <1>2. CASE ReadComments(q) \/ CommentsFail(q)
    <2>1. BringsRev(q) => BringsRev(q)'
      BY <1>2, CommentsCome DEF BringsRev, Reads, At
    <2>2. ~ BringsEnd(q)
      BY <1>2 DEF ReadComments, CommentsFail, BringsEnd, At
    <2> QED BY <1>2, <2>1, <2>2, OweStep DEF ReadComments, CommentsFail
  <1> QED BY <1>1, <1>2

LEMMA OwedWhenFailed ==
  ASSUME TypeOK, OwesRev, OwesEnd, NEW q \in Requests, ReadFails(q) PROVE OwesRev' /\ OwesEnd'
  <1>1. CASE requests[q].kind # "load" \/ Takes(q)
    <2>1. ~ Counts'
      BY <1>1 DEF ReadFails, Fails, Counts, TypeOK, ViewType
    <2> QED BY <2>1 DEF OwesRev, OwesEnd
  <1>2. CASE ~ (requests[q].kind # "load" \/ Takes(q))
    <2>1. ~ BringsRev(q) /\ ~ BringsEnd(q)
      BY <1>2 DEF Takes, BringsRev, BringsEnd, Reads
    <2> QED BY <1>2, <2>1, OweStep DEF ReadFails, Fails, Ends
  <1> QED BY <1>1, <1>2

LEMMA OwedWhenGivenUp ==
  ASSUME TypeOK, HandlersSound, OwesRev, OwesEnd, NEW q \in Requests, Refused(q) \/ AnswerLost(q)
  PROVE  OwesRev' /\ OwesEnd'
  <1>0. KindStage(requests[q]) /\ requests[q].kind \notin {"load", "reread"}
    BY DEF HandlersSound, Sound, KindStage, Refused, AnswerLost, At
  <1>1. CASE requests[q].kind = "assignee"
    <2>1. ReReads(q)
      BY <1>1 DEF Refused, AnswerLost, GivesUp
    <2>2. BringsRev(q)' /\ BringsEnd(q)'
      BY <2>1, AgainBrings DEF Refused, AnswerLost
    <2> QED
      BY <2>1, <2>2, OweStep DEF Refused, AnswerLost, ReReads, TypeOK
  <1>2. CASE requests[q].kind # "assignee" /\ Refused(q)
    <2>1. requests[q].stage \in {"lookup", "sent"}
      BY <1>0, <1>2 DEF Refused, KindStage
    <2> QED
      BY <1>2, <2>1, BringsNothing, OweStep DEF Refused, GivesUp, Ends
  <1>3. CASE requests[q].kind = "order" /\ AnswerLost(q)
    <2>1. ~ BringsRev(q) /\ ~ BringsEnd(q)
      BY <1>3 DEF BringsRev, BringsEnd, Reads
    <2>2. ~ slip' => ~ slip
      BY <1>3 DEF AnswerLost
    <2> QED
      BY <1>3, <2>1, <2>2, OweStep DEF AnswerLost, GivesUp, Ends
  <1>4. CASE requests[q].kind \notin {"order", "assignee"} /\ AnswerLost(q)
    BY <1>4 DEF AnswerLost, OwesRev, OwesEnd, Counts
  <1> QED BY <1>1, <1>2, <1>3, <1>4

LEMMA OwedWhenAnswered ==
  ASSUME TypeOK, HandlersSound, OwesRev, OwesEnd, NEW q \in Requests,
         HalfAssigned(q) \/ Written(q) \/ Ordered(q) \/ Deleted(q)
  PROVE  OwesRev' /\ OwesEnd'
  <1>1. CASE HalfAssigned(q)
    <2>0. requests[q] \in Handler
      BY <1>1, BusyIsHandler DEF HalfAssigned
    <2>1. BringsRev(q) => BringsRev(q)'
      BY <1>1, <2>0 DEF HalfAssigned, Advances, BringsRev, Reads, At, TypeOK, Handler
    <2>2. ~ BringsEnd(q)
      BY <1>1 DEF HalfAssigned, BringsEnd, Reads
    <2> QED BY <1>1, <2>1, <2>2, OweStep DEF HalfAssigned
  <1>2. CASE Written(q)
    <2>1. view'.task = view.task /\ view'.status = view.status /\ view'.rev = view.rev
      BY <1>2 DEF Written, TypeOK, ViewType
    <2>2. BringsRev(q)' /\ BringsEnd(q)'
      BY <1>2, <2>1, AgainBrings DEF Written
    <2> QED BY <1>2, <2>1, <2>2, OweStep DEF Written, ReReads
  <1>3. CASE Ordered(q)
    <2>1. view'.task = view.task /\ view'.status = view.status /\ view'.rev = view.rev
      BY <1>3 DEF Ordered, TypeOK, ViewType
    <2>2. ~ BringsRev(q) /\ ~ BringsEnd(q) /\ (~ slip' => ~ slip)
      BY <1>3 DEF Ordered, BringsRev, BringsEnd, Reads
    <2> QED BY <1>3, <2>1, <2>2, OweStep DEF Ordered, Ends
  <1>4. CASE Deleted(q)
    <2>1. ~ Counts'
      BY <1>4 DEF Deleted, Counts, TypeOK, ViewType
    <2> QED BY <2>1 DEF OwesRev, OwesEnd
  <1> QED BY <1>1, <1>2, <1>3, <1>4

LEMMA OwesNext ==
  ASSUME TypeOK, TypeOK', HandlersSound, OwesRev, OwesEnd, [Next]_vars PROVE OwesRev' /\ OwesEnd'
  <1>1. ASSUME NEW q \in Requests, NEW t \in Tasks, Navigate(t, q) PROVE OwesRev' /\ OwesEnd'
    <2>1. requests'[q] = Reading("load", t) /\ view'.task = t
      BY <1>1 DEF Navigate, Advances, TypeOK, Loading
    <2>2. BringsRev(q)' /\ BringsEnd(q)'
      BY <2>1 DEF BringsRev, BringsEnd, Reads, At, Reading
    <2> QED BY <2>2 DEF OwesRev, OwesEnd
  <1>2. ASSUME NEW q \in Requests, At(q, "idle"), NEW h, Advances(q, h),
               UNCHANGED <<view, server, gone, slip>>
        PROVE  OwesRev' /\ OwesEnd'
    BY <1>2, BringsNothing, OweStep DEF At
  <1>3. ASSUME NEW q \in Requests, Progress(q) PROVE OwesRev' /\ OwesEnd'
    <2>1. CASE LooksUp(q)
      BY <2>1, BringsNothing, OweStep DEF LooksUp, At
    <2> QED
      BY <1>3, <2>1, OwedWhenLanded, OwedWhenServed, OwedWhileRead, OwedWhenFailed, OwedWhenGivenUp,
         OwedWhenAnswered DEF Progress
  <1>4. ASSUME UNCHANGED <<requests, server, gone, slip>>, view'.task = view.task,
               view'.status = view.status, view'.rev = view.rev
        PROVE  OwesRev' /\ OwesEnd'
    BY <1>4 DEF OwesRev, OwesEnd, Counts, BringsRev, BringsEnd, Reads, At
  <1>5. CASE Types
    <2>1. view'.task = view.task /\ view'.status = view.status /\ view'.rev = view.rev
      BY <1>5 DEF Types, TypeOK, ViewType
    <2> QED BY <1>4, <1>5, <2>1 DEF Types
  <1> QED
    BY <1>1, <1>2, <1>3, <1>4, <1>5
    DEF Next, Acts, vars, Press, ConfirmDelete, OpenDialog, CloseDialog, Redraws

-----------------------------------------------------------------------------
(* The comments.                                                           *)

\* The server only moves on, so a list that was sound stays so.
LEMMA ListStays ==
  ASSUME TypeOK, ListSound, \A t \in Tasks : server[t] <= server'[t], ~ slip' => ~ slip,
         isTaskReady' => isTaskReady,
         view'.task = view.task, view'.rev = view.rev,
         view'.comments = view.comments, view'.listed = view.listed,
         server' \in [Tasks -> Nat]
  PROVE  ListSound'
  <1>1. /\ view.task \in Tasks /\ view.listed \in Nat
        /\ server[view.task] \in Nat /\ server'[view.task] \in Nat
        /\ server[view.task] <= server'[view.task]
    BY DEF TypeOK, ViewType
  <1> QED BY <1>1 DEF ListSound, Since

LEMMA ListLands ==
  ASSUME TypeOK, HandlersSound, ListSound, NEW q \in Requests, Lands(q)
  PROVE  ListSound'
  <1>0. requests[q] \in Handler /\ Sound(q) /\ At(q, "back") /\ UNCHANGED server
    BY BusyIsHandler DEF HandlersSound, Lands
  <1>1. CASE Takes(q)
    <2>1. /\ view'.task = requests[q].task /\ view'.rev = requests[q].rev
          /\ view'.comments = requests[q].task /\ view'.listed = requests[q].listed
      BY <1>1 DEF Lands, Shows, Takes, TypeOK, ViewType
    <2>2. Since(requests[q].task, requests[q].rev, requests[q].listed)
      BY <1>0 DEF Sound, At
    <2> QED BY <1>0, <2>1, <2>2 DEF ListSound, Since
  <1>2. CASE ~ Takes(q)
    BY <1>0, <1>2 DEF Lands, ListSound, Since, isTaskReady
  <1> QED BY <1>1, <1>2

LEMMA ListIsOrdered ==
  ASSUME TypeOK, HandlersSound, ListSound, NEW q \in Requests, Ordered(q)
  PROVE  ListSound'
  <1>0. requests[q] \in Handler /\ Sound(q)
    BY BusyIsHandler DEF HandlersSound, Ordered
  <1>1. requests[q].listed <= server[requests[q].task]
    BY <1>0 DEF Ordered, Sound, At
  <1>2. /\ view'.task = view.task /\ view'.rev = view.rev /\ view'.status = view.status
        /\ view'.of = view.of
        /\ view'.comments = requests[q].task /\ view'.listed = requests[q].listed
    BY DEF Ordered, TypeOK, ViewType
  <1> SUFFICES ASSUME isTaskReady, ~ slip'
               PROVE  view'.comments = view.task /\ Since(view.task, view.rev, requests[q].listed)
    BY <1>2 DEF ListSound, Since, isTaskReady, Ordered
  <1>3. Takes(q) /\ ~ (requests[q].listed < view.rev)
    BY DEF Ordered
  <1>4. requests[q].listed \in Nat /\ view.rev \in Nat
    BY <1>0 DEF Handler, TypeOK, ViewType
  <1> QED BY <1>1, <1>2, <1>3, <1>4 DEF Takes, Since

LEMMA ListStep ==
  ASSUME TypeOK, TypeOK', HandlersSound, ListSound, [Next]_vars PROVE ListSound'
  <1>1. server' \in [Tasks -> Nat] /\ (UNCHANGED server => \A t \in Tasks : server[t] <= server'[t])
    BY DEF TypeOK
  <1>2. ASSUME NEW q \in Requests, NEW t \in Tasks, Navigate(t, q) PROVE ListSound'
    BY <1>2 DEF Navigate, Loading, ListSound, isTaskReady
  <1>3. ASSUME UNCHANGED <<view, slip, server>> PROVE ListSound'
    BY <1>1, <1>3, ListStays DEF isTaskReady
  <1>4. ASSUME NEW q \in Requests, Progress(q) PROVE ListSound'
    <2>1. CASE ReadFails(q) \/ Written(q) \/ Deleted(q)
      <3>1. /\ view'.task = view.task /\ view'.rev = view.rev
            /\ view'.comments = view.comments /\ view'.listed = view.listed
            /\ isTaskReady' => isTaskReady
        BY <2>1 DEF ReadFails, Fails, Written, Deleted, TypeOK, ViewType, isTaskReady
      <3> QED
        BY <1>1, <2>1, <3>1, ListStays DEF ReadFails, Written, Deleted
    <2>2. CASE Serves(q)
      <3>1. \A t \in Tasks : server[t] <= server'[t]
        BY <2>2 DEF Serves, TypeOK
      <3> QED
        BY <1>1, <2>2, <3>1, ListStays DEF Serves, isTaskReady
    <2>3. CASE AnswerLost(q)
      BY <1>1, <2>3, ListStays DEF AnswerLost, isTaskReady
    <2> QED
      BY <1>3, <1>4, <2>1, <2>2, <2>3, ListLands, ListIsOrdered
      DEF Progress, ReadTask, ReadComments, CommentsFail, LooksUp, Refused, HalfAssigned
  <1>5. CASE Types
    <2>1. /\ view'.task = view.task /\ view'.rev = view.rev
          /\ view'.comments = view.comments /\ view'.listed = view.listed
          /\ isTaskReady' => isTaskReady
      BY <1>5 DEF Types, TypeOK, ViewType, isTaskReady
    <2> QED BY <1>1, <1>5, <2>1, ListStays DEF Types
  <1> QED
    BY <1>2, <1>3, <1>4, <1>5
    DEF Next, Acts, vars, Press, ConfirmDelete, OpenDialog, CloseDialog, Redraws

-----------------------------------------------------------------------------
(* The theorems.                                                           *)

Inv == TypeOK /\ TaskIsRouted /\ HandlersSound /\ LoadIsUnderWay /\ StaleScreenLoads
       /\ OwesRev /\ OwesEnd /\ ListSound

LEMMA InitInv == Init => Inv
  <1> SUFFICES ASSUME Init PROVE Inv
    OBVIOUS
  <1>1. PICK q \in Requests :
          requests = [p \in Requests |-> IF p = q THEN Reading("load", route) ELSE Idle]
    BY DEF Init
  <1>2. requests[q] = Reading("load", route) /\ view = Loading(route)
    BY <1>1 DEF Init
  <1>3. HandlersSound
    BY <1>1 DEF HandlersSound, Sound, KindStage, At, Reading, Idle
  <1>4. LoadIsUnderWay /\ TaskIsRouted
    BY <1>2 DEF LoadIsUnderWay, TaskIsRouted, Loading, Reading
  <1>5. StaleScreenLoads
    BY DEF Init, StaleScreenLoads, Loading
  <1>6. BringsRev(q) /\ BringsEnd(q)
    BY <1>2 DEF BringsRev, BringsEnd, Reads, At, Reading, Loading
  <1>7. ListSound
    BY <1>2 DEF ListSound, isTaskReady, Loading
  <1> QED BY <1>3, <1>4, <1>5, <1>6, <1>7, InitType DEF Inv, OwesRev, OwesEnd

LEMMA InvStep == Inv /\ [Next]_vars => Inv'
  <1> SUFFICES ASSUME Inv, [Next]_vars PROVE Inv'
    OBVIOUS
  <1>1. TypeOK'
    <2>1. CASE UNCHANGED vars
      BY <2>1 DEF Inv, vars, TypeOK
    <2> QED BY <2>1, ActsType, RedrawsType, ProgressType DEF Inv, Next
  <1>2. TaskIsRouted' /\ HandlersSound' /\ LoadIsUnderWay'
    BY <1>1, RoutedStep, SoundStep, LoadStep DEF Inv
  <1>3. StaleScreenLoads'
    BY <1>2, ScreenStep DEF Inv
  <1> QED BY <1>1, <1>2, <1>3, OwesNext, ListStep DEF Inv

LEMMA Invariant == Spec => []Inv
  BY InitInv, InvStep, PTL DEF Spec

\* A view that is loading has its load under way: no order of routes and
\* answers leaves the page loading with nothing to wait for.  (ensureLoaded)
THEOREM LoadsWhileLoading == Spec => []LoadIsUnderWay
  <1>1. Inv => LoadIsUnderWay
    BY DEF Inv
  <1> QED BY <1>1, Invariant, PTL

\* A screen shows a task the route has left only while the view loads.
\* (render, ensureLoaded)
THEOREM StaleOnlyWhileLoading == Spec => []StaleScreenLoads
  <1>1. Inv => StaleScreenLoads
    BY DEF Inv
  <1> QED BY <1>1, Invariant, PTL

LEMMA AtRest ==
  ASSUME Inv, Quiet, isTaskReady, ~ slip
  PROVE  view.of = view.task /\ view.of \notin gone /\ view.rev = server[view.of]
  <1>1. Counts /\ view.of = view.task
    BY DEF Inv, Counts, isTaskReady, TaskIsRouted
  <1>2. \A q \in Requests : ~ BringsRev(q) /\ ~ BringsEnd(q)
    BY BringsNothing DEF Quiet, At
  <1> QED BY <1>1, <1>2 DEF Inv, OwesRev, OwesEnd

\* A page at rest shows the task as the server has it, whatever was written and
\* however far a refused write got, unless an answer was lost, overtook a later
\* one, or came to another task's page.  (refreshAfterWrite, changeAssignee)
THEOREM ShowsWhatWasWritten == Spec => []CatchesUp
  <1>1. Inv => CatchesUp
    BY AtRest DEF CatchesUp
  <1> QED BY <1>1, Invariant, PTL

\* And its comments are those of that task, as the server has them, or there are
\* none because their list could not be read.  (loadTask, toggle-comment-order)
THEOREM ShowsItsComments == Spec => []CommentsCatchUp
  <1>1. Inv => CommentsCatchUp
    <2> SUFFICES ASSUME Inv, Quiet, isTaskReady, ~ slip, view.listed # 0
                 PROVE  view.comments = view.of /\ view.listed = server[view.of]
      BY DEF CommentsCatchUp
    <2>1. view.of = view.task /\ view.rev = server[view.of]
      BY AtRest
    <2>2. view.comments = view.task /\ view.rev <= view.listed /\ view.listed <= server[view.task]
      BY DEF Inv, ListSound, Since
    <2>3. view.listed \in Nat /\ server[view.task] \in Nat
      BY DEF Inv, TypeOK, ViewType
    <2> QED BY <2>1, <2>2, <2>3
  <1> QED BY <1>1, Invariant, PTL

\* Half a comment is not lost to a render or a re-read it did not ask for.
\* (commentsSection)
THEOREM KeepsTheDraft == Spec => DraftIsKept
  <1> DEFINE Spent == \/ view'.task # view.task
                      \/ \E q \in Requests : requests[q].kind = "comment" /\ Written(q)
             Lost == view.draft # None /\ view'.draft = None
  <1>1. ASSUME TypeOK, [Next]_vars, Lost PROVE Spent
    <2>1. ASSUME NEW q \in Requests, NEW t \in Tasks, Navigate(t, q) PROVE Spent
      BY <2>1 DEF Navigate, Loading
    <2>2. ASSUME NEW q \in Requests, Progress(q) PROVE Spent
      <3>1. CASE Lands(q) \/ ReadFails(q)
        BY <1>1, <3>1 DEF Lands, Shows, ReadFails, Fails, TypeOK, ViewType
      <3>2. CASE Written(q)
        BY <1>1, <3>2 DEF Written
      <3>3. CASE Ordered(q) \/ Deleted(q)
        BY <1>1, <3>3 DEF Ordered, Deleted, TypeOK, ViewType
      <3>4. CASE UNCHANGED view
        BY <1>1, <3>4
      <3> QED
        BY <2>2, <3>1, <3>2, <3>3, <3>4
        DEF Progress, ReadTask, ReadComments, CommentsFail, LooksUp, Serves, Refused, AnswerLost,
          HalfAssigned
    <2>3. CASE Types
      <3>1. view'.draft = screen'.text /\ screen'.text # None
        BY <2>3, TaskAssumption DEF Types, TypeOK, ViewType, ScreenType
      <3> QED BY <1>1, <3>1
    <2> QED
      BY <1>1, <2>1, <2>2, <2>3
      DEF Next, Acts, vars, Press, ConfirmDelete, OpenDialog, CloseDialog, Redraws
  <1> QED BY <1>1, TaskTyped, PTL DEF Spec, DraftIsKept
=============================================================================
