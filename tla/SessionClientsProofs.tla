------------------------ MODULE SessionClientsProofs ------------------------
(***************************************************************************)
(* What the clients of SessionRefresh may count on: an app keeps one       *)
(* token and stays signed in with it, however its renewals overlap, and a  *)
(* client whose renewals take turns is never signed out, whatever other    *)
(* clients do.                                                             *)
(***************************************************************************)
EXTENDS SessionRefreshProofs

\* An app's session has the token of its sign-in only.
AppRows == \A c \in Clients \ Browsers :
    session[c] # None => session[c].current = session[c].sid /\ session[c].previous = None

\* A step keeps the tokens of the row of c, or deletes the row.
Kept(c) ==
    \/ session'[c] = session[c]
    \/ session'[c] = None
    \/ SameTokens(c)

LEMMA IdleKeeps ==
    ASSUME TypeOK, NEW c \in Clients, session[c] # None, NEW i \in BOOLEAN,
           session'[c] = [session[c] EXCEPT !.idle = i]
    PROVE  Kept(c)
  <1>1. session[c] \in SessionRow
    BY DEF TypeOK
  <1>2. session'[c] \in SessionRow
    BY <1>1 DEF SessionRow
  <1>3. session'[c] # None
    BY <1>2, RowsArePresent
  <1> QED
    BY <1>1, <1>3 DEF Kept, SameTokens, SessionRow

LEMMA ServeKeeps ==
    ASSUME IInv, NEW r \in Requests, Serve(r), ~ (Commit(r) /\ Rotating(r)), NEW c \in Clients
    PROVE  Kept(c)
  <1>1. TypeOK
    BY DEF IInv
  <1>2. CASE LookUp(r) \/ LookUpFails(r) \/ Touch(r) \/ Rotate(r) \/ RotateFails(r) \/ Fail(r)
    <2>1. session' = session
      BY <1>2 DEF LookUp, LookUpFails, Touch, Rotates, Rotate, RotateFails, Fail
    <2> QED
      BY <2>1 DEF Kept
  <1>3. CASE Expire(r) \/ UserRefused(r)
    BY <1>1, <1>3, ExpireTyped, UserRefusedTyped DEF Kept
  <1>4. CASE Commit(r) /\ ~ Rotating(r)
    <2>1. request[r].client \notin Browsers /\ request[r].client \in Clients
      BY <1>1, <1>4, OfClient DEF Commit, Rotating
    <2>2. /\ session'[request[r].client] = IF Row(r)
                THEN [session[request[r].client] EXCEPT !.idle = FALSE]
                ELSE session[request[r].client]
          /\ \A d \in Clients \ {request[r].client} : session'[d] = session[d]
      BY <1>1, <1>4, <2>1, CommitTyped DEF Renewed, Rotates
    <2>3. CASE c = request[r].client /\ Row(r)
      <3>1. session[c] # None /\ session'[c] = [session[c] EXCEPT !.idle = FALSE]
        BY <2>2, <2>3 DEF Row
      <3> QED
        BY <1>1, <3>1, IdleKeeps
    <2>4. CASE ~ (c = request[r].client /\ Row(r))
      BY <2>2, <2>4 DEF Kept
    <2> QED
      BY <2>3, <2>4
  <1> QED
    BY <1>2, <1>3, <1>4 DEF Serve

\* What ends sessions from elsewhere, or lets them age.
Elsewhere ==
    \/ \E c \in Clients : Revoke(c) \/ FallIdle(c) \/ CleanUp(c)
    \/ RevokeAll
    \/ \E d \in BOOLEAN : SetDisabled(d)
    \/ UNCHANGED vars

LEMMA ElsewhereKeeps ==
    ASSUME TypeOK, Elsewhere \/ (\E d \in Clients : Logout(d)), NEW c \in Clients
    PROVE  Kept(c)
  <1>1. ASSUME NEW d \in Clients, Logout(d) \/ Revoke(d) \/ CleanUp(d) PROVE Kept(c)
    BY <1>1, LogoutTyped, RevokeTyped, CleanUpTyped DEF Kept
  <1>2. ASSUME NEW d \in Clients, FallIdle(d) PROVE Kept(c)
    <2>1. /\ session'[d] = [session[d] EXCEPT !.idle = TRUE]
          /\ \A e \in Clients \ {d} : session'[e] = session[e]
      BY <1>2, FallIdleTyped
    <2>2. Kept(d)
      BY <1>2, <2>1, IdleKeeps DEF FallIdle
    <2> QED
      BY <2>1, <2>2 DEF Kept
  <1>3. CASE RevokeAll
    BY <1>3 DEF RevokeAll, Kept
  <1>4. CASE (\E d \in BOOLEAN : SetDisabled(d)) \/ UNCHANGED vars
    <2>1. session' = session
      BY <1>4 DEF SetDisabled, vars
    <2> QED
      BY <2>1 DEF Kept
  <1> QED
    BY <1>1, <1>2, <1>3, <1>4 DEF Elsewhere

\* What a step does to the row of c.
LEMMA RowSteps ==
    ASSUME IInv, [Next]_vars, NEW c \in Clients
    PROVE  \/ Kept(c)
           \/ SignIn(c)
           \/ \E r \in Requests : Commit(r) /\ Rotating(r) /\ request[r].client = c
  <1>1. TypeOK
    BY DEF IInv
  <1>2. ASSUME NEW r \in Requests, Serve(r), ~ (Commit(r) /\ Rotating(r)) PROVE Kept(c)
    BY <1>2, ServeKeeps
  <1>3. ASSUME NEW r \in Requests, Commit(r), request[r].client # c PROVE Kept(c)
    BY <1>1, <1>3, CommitTyped DEF Kept
  <1>4. ASSUME NEW r \in Requests, Deliver(r) \/ Lose(r) \/ (\E d \in Clients : Send(d, r))
        PROVE  Kept(c)
    <2>1. session' = session
      BY <1>4 DEF Deliver, Lose, Send
    <2> QED
      BY <2>1 DEF Kept
  <1>5. ASSUME NEW d \in Clients, SignIn(d), d # c PROVE Kept(c)
    BY <1>1, <1>5, SignInTyped DEF Kept
  <1>6. ASSUME Elsewhere \/ (\E d \in Clients : Logout(d)) PROVE Kept(c)
    BY <1>1, <1>6, ElsewhereKeeps
  <1> QED
    BY <1>2, <1>3, <1>4, <1>5, <1>6 DEF Next, Elsewhere

LEMMA AppRowsStep ==
    ASSUME IInv, [Next]_vars, AppRows
    PROVE  AppRows'
  <1> SUFFICES ASSUME NEW c \in Clients \ Browsers, session'[c] # None
               PROVE  session'[c].current = session'[c].sid /\ session'[c].previous = None
    BY DEF AppRows
  <1>1. TypeOK /\ (Kept(c) \/ SignIn(c))
    BY RowSteps DEF IInv, Rotating
  <1>2. CASE session'[c] = session[c] \/ SameTokens(c)
    BY <1>2 DEF AppRows, SameTokens
  <1>3. CASE SignIn(c)
    BY <1>1, <1>3, SignInTyped
  <1> QED
    BY <1>1, <1>2, <1>3 DEF Kept

(***************************************************************************)
(* The token of an app's sign-in is the one its session accepts, however   *)
(* often and however concurrently it renews.                               *)
(***************************************************************************)
THEOREM AppsKeepTheirToken == Spec => []AppTokenIsFixed
  <1>1. Init => AppRows
    BY DEF Init, AppRows
  <1>2. IInv /\ AppRows => AppTokenIsFixed
    <2> SUFFICES ASSUME IInv, AppRows, NEW c \in Clients \ Browsers, session[c] # None
                 PROVE  Accepted(c) = {session[c].sid}
      BY DEF AppTokenIsFixed
    <2>1. session[c] \in SessionRow
      BY DEF IInv, TypeOK
    <2>2. session[c].sid \in Token /\ session[c].sid # None
      BY <2>1, IssuedIsNat, TokenFacts DEF IInv, SessionRow
    <2> QED
      BY <2>2 DEF AppRows, Accepted
  <1> QED
    BY <1>1, <1>2, AppRowsStep, Inductive, PTL DEF Spec

\* An app holds the token of the sign-in that made its session.
HoldsSid == \A c \in Ones :
    session[c] # None /\ held[c] # None => held[c] = session[c].sid

LEMMA HoldsSidStep ==
    ASSUME IInv, [Next]_vars, HoldsSid
    PROVE  HoldsSid'
  <1> SUFFICES ASSUME NEW c \in Ones, session'[c] # None, held'[c] # None
               PROVE  held'[c] = session'[c].sid
    BY DEF HoldsSid
  <1>1. TypeOK /\ c \in Clients /\ c \notin Browsers /\ c \notin Desktops
    BY KindsAssumption DEF IInv, Clients
  <1>2. CASE SignIn(c)
    <2>1. session'[c].sid = issued + 1
      BY <1>1, <1>2, SignInTyped
    <2>2. held'[c] = issued + 1
      BY <1>1, <1>2 DEF SignIn, TypeOK
    <2> QED
      BY <2>1, <2>2
  <1>3. CASE ~ SignIn(c)
    <2>1. session'[c] = session[c] \/ SameTokens(c)
      BY <1>1, <1>3, RowSteps DEF Rotating, Kept
    <2>2. held'[c] \in {held[c], None}
      <3>1. ASSUME NEW r \in Requests, Deliver(r) PROVE held'[c] = held[c]
        BY <1>1, <3>1 DEF Deliver, Keeps, TypeOK
      <3>2. ASSUME NEW d \in Clients, SignIn(d) \/ Logout(d), ~ SignIn(c)
            PROVE  held'[c] \in {held[c], None}
        BY <1>1, <3>2 DEF SignIn, Logout, TypeOK
      <3>3. CASE held' = held
        BY <3>3
      <3> QED
        BY <1>3, <3>1, <3>2, <3>3 DEF Next, Serve, LookUp, LookUpFails, Expire, Touch, Rotate,
           RotateFails, UserRefused, Commit, Fail, Lose, Send, Revoke, FallIdle, CleanUp,
           RevokeAll, SetDisabled, vars
    <2> QED
      BY <2>1, <2>2 DEF HoldsSid, SameTokens
  <1> QED
    BY <1>2, <1>3

(***************************************************************************)
(* An app that keeps the token of its sign-in is not signed out by its     *)
(* renewals, lost, failed or answered late, however many are under way and *)
(* whether or not it waits for them: while its session is there, it        *)
(* accepts the token the app holds.                                        *)
(***************************************************************************)
AppsStaySignedIn == \A c \in Ones :
    session[c] # None /\ held[c] # None => held[c] \in Accepted(c)

THEOREM AppsNeverSignedOut == Spec => []AppsStaySignedIn
  <1>1. Init => AppRows /\ HoldsSid
    BY DEF Init, AppRows, HoldsSid, Clients
  <1>2. IInv /\ AppRows /\ HoldsSid => AppsStaySignedIn
    <2> SUFFICES ASSUME AppRows, HoldsSid, NEW c \in Ones, session[c] # None, held[c] # None
                 PROVE  held[c] \in Accepted(c)
      BY DEF AppsStaySignedIn
    <2>1. held[c] = session[c].current
      BY KindsAssumption DEF AppRows, HoldsSid, Clients
    <2> QED
      BY <2>1 DEF Accepted
  <1> QED
    BY <1>1, <1>2, AppRowsStep, HoldsSidStep, Inductive, PTL DEF Spec

-----------------------------------------------------------------------------
(* Renewals that take turns.                                               *)

\* The clients of C send and sign in only when none of their renewals is out.
TakeTurns(C) == \A c \in C :
    (\E r \in Requests : Send(c, r)) \/ SignIn(c) => Quiet(c)

Alone(C) == \A q, r \in Requests :
    request[q].client \in C /\ request[q].client = request[r].client => q = r

HeldIsAccepted(C) == \A c \in C :
    session[c] # None /\ held[c] # None => held[c] \in Accepted(c)

\* Nothing has changed what a browser holds since it sent its renewal.
Presented(C) == \A r \in Requests :
    /\ request[r].client \in C \cap Browsers
    /\ session[request[r].client] # None
    /\ held[request[r].client] # None
    => request[r].presented = held[request[r].client]

\* The token a browser is answered is the current one of its session.
Answer(C) == \A r \in Requests :
    /\ request[r].client \in C \cap Browsers
    /\ request[r].answer = "renewed"
    /\ session[request[r].client] # None
    => request[r].token = session[request[r].client].current

TurnInv(C) ==
    /\ Alone(C)
    /\ HeldIsAccepted(C)
    /\ Presented(C)
    /\ Answer(C)

\* A renewal still presents what it did, and has no new answer for a browser.
Continues(q) ==
    /\ request'[q].client = request[q].client
    /\ request'[q].presented = request[q].presented
    /\ request'[q].client \in Browsers /\ request'[q].answer = "renewed"
          => request'[q] = request[q]

\* A step that leaves the clients of C their rows, tokens and renewals.
LEMMA KeepingStep ==
    ASSUME NEW C \in SUBSET Clients, TurnInv(C),
           \A c \in C : Kept(c),
           \A c \in C : held'[c] = held[c] \/ held'[c] = None,
           \A q \in Requests : request'[q].client \in C => Continues(q)
    PROVE  TurnInv(C)'
  <1>1. Alone(C)'
    BY DEF TurnInv, Alone, Continues
  <1>2. HeldIsAccepted(C)'
    BY DEF TurnInv, HeldIsAccepted, Kept, SameTokens, Accepted
  <1>3. Presented(C)'
    BY DEF TurnInv, Presented, Kept, SameTokens, Continues
  <1>4. Answer(C)'
    BY DEF TurnInv, Answer, Kept, SameTokens, Continues
  <1> QED
    BY <1>1, <1>2, <1>3, <1>4 DEF TurnInv

LEMMA ServeContinues ==
    ASSUME IInv, NEW r \in Requests, Serve(r), ~ (Commit(r) /\ Rotating(r)), NEW q \in Requests
    PROVE  Continues(q)
  <1>1. TypeOK /\ request[r] \in Renewal
    BY DEF IInv, TypeOK
  <1>2. \A p \in Requests \ {r} : request'[p] = request[p]
    BY <1>1, LookUpTyped, LookUpFailsTyped, ExpireTyped, TouchTyped, RotateTyped,
       RotateFailsTyped, UserRefusedTyped, CommitTyped, FailTyped DEF Serve
  <1>3. /\ request'[r].client = request[r].client
        /\ request'[r].presented = request[r].presented
        /\ request'[r].client \in Browsers => request'[r].answer # "renewed"
    <2>1. CASE LookUpFails(r) \/ Expire(r) \/ RotateFails(r) \/ UserRefused(r) \/ Fail(r)
      <3>1. PICK answer \in Answers \ {"renewed"} :
               request'[r] = [request[r] EXCEPT !.pc = "replied", !.answer = answer]
        BY <1>1, <2>1, LookUpFailsTyped, ExpireTyped, RotateFailsTyped, UserRefusedTyped, FailTyped
           DEF Answers
      <3> QED
        BY <1>1, <3>1 DEF Renewal
    <2>2. CASE Commit(r) /\ ~ Rotating(r)
      <3>1. request[r].client \notin Browsers
        BY <2>2 DEF Commit, Rotating
      <3>2. request'[r] = [request[r] EXCEPT !.pc = "replied", !.answer = "renewed"]
        BY <1>1, <2>2, CommitTyped
      <3> QED
        BY <1>1, <3>1, <3>2 DEF Renewal
    <2>3. CASE LookUp(r) \/ Touch(r) \/ Rotate(r)
      <3>1. request[r].pc # "replied"
        BY <2>3 DEF LookUp, Touch, Rotates, Rotate
      <3>2. request[r].answer # "renewed"
        BY <3>1, NoneIsApart DEF IInv, Answered, Answers
      <3>3. /\ request'[r].client = request[r].client
            /\ request'[r].presented = request[r].presented
            /\ request'[r].answer = request[r].answer
        <4>1. CASE LookUp(r)
          <5> DEFINE c == request[r].client
          <5> DEFINE pc == IF session[c].idle THEN "expired" ELSE "touch"
          <5>1. request'[r] = [request[r] EXCEPT !.pc = pc, !.sid = session[c].sid,
                                                 !.read = session[c].current]
            BY <1>1, <4>1, LookUpTyped
          <5> HIDE DEF pc
          <5> QED
            BY <1>1, <5>1 DEF Renewal
        <4>2. CASE Touch(r)
          <5> DEFINE pc == IF request[r].client \in Browsers THEN "rotate" ELSE "user"
          <5>1. request'[r] = [request[r] EXCEPT !.pc = pc]
            BY <1>1, <4>2, TouchTyped DEF Moved, Rotates
          <5> HIDE DEF pc
          <5> QED
            BY <1>1, <5>1 DEF Renewal
        <4>3. CASE Rotate(r)
          <5>1. request'[r] = [request[r] EXCEPT !.pc = "user", !.token = issued + 1]
            BY <1>1, <4>3, RotateTyped
          <5> QED
            BY <1>1, <5>1 DEF Renewal
        <4> QED
          BY <2>3, <4>1, <4>2, <4>3
      <3> QED
        BY <3>2, <3>3
    <2> QED
      BY <2>1, <2>2, <2>3 DEF Serve
  <1> QED
    BY <1>2, <1>3 DEF Continues

LEMMA RotationTurn ==
    ASSUME NEW C \in SUBSET Clients, IInv, TurnInv(C),
           NEW r \in Requests, Commit(r), Rotating(r), request[r].client \in C
    PROVE  TurnInv(C)'
  <1> DEFINE c == request[r].client
  <1>1. TypeOK /\ Row(r)
    BY DEF IInv, Holds
  <1>2. request[r] \in Renewal /\ c \in Clients /\ c \in Browsers
    BY <1>1 DEF TypeOK, Rotating, Clients
  <1>3. /\ request'[r].client = c /\ request'[r].presented = request[r].presented
        /\ request'[r].token = request[r].token
        /\ \A q \in Requests \ {r} : request'[q] = request[q]
        /\ held' = held
    <2>1. /\ request'[r] = [request[r] EXCEPT !.pc = "replied", !.answer = "renewed"]
          /\ \A q \in Requests \ {r} : request'[q] = request[q]
      BY <1>1, CommitTyped
    <2>2. held' = held
      BY DEF Commit
    <2> QED
      BY <1>2, <2>1, <2>2 DEF Renewal
  <1>4. /\ session'[c].current = request[r].token
        /\ session'[c].previous = request[r].presented
        /\ \A d \in Clients \ {c} : session'[d] = session[d]
        /\ session[c] # None
    <2>1. session'[c] = Rotated(r) /\ \A d \in Clients \ {c} : session'[d] = session[d]
      BY <1>1, <1>2, CommitTyped DEF Renewed, Rotates
    <2>2. session[c] \in SessionRow /\ session[c] # None
      BY <1>1, <1>2 DEF TypeOK, Row
    <2> QED
      BY <2>1, <2>2 DEF Rotated, SessionRow
  <1>5. \A q \in Requests \ {r} : request[q].client # c
    BY <1>2 DEF TurnInv, Alone
  <1>6. Alone(C)'
    BY <1>3 DEF TurnInv, Alone
  <1>7. HeldIsAccepted(C)'
    <2>1. session'[c] # None /\ held'[c] # None => held'[c] \in Accepted(c)'
      BY <1>2, <1>3, <1>4 DEF TurnInv, Presented, Accepted
    <2> QED
      BY <1>3, <1>4, <2>1 DEF TurnInv, HeldIsAccepted, Accepted
  <1>8. Presented(C)'
    BY <1>2, <1>3, <1>4, <1>5 DEF TurnInv, Presented
  <1>9. Answer(C)'
    BY <1>2, <1>3, <1>4, <1>5 DEF TurnInv, Answer
  <1> QED
    BY <1>6, <1>7, <1>8, <1>9 DEF TurnInv

LEMMA DeliverTurn ==
    ASSUME NEW C \in SUBSET (Browsers \cup Ones), IInv, TurnInv(C),
           NEW r \in Requests, Deliver(r), request[r].client \in C
    PROVE  TurnInv(C)'
  <1> DEFINE c == request[r].client
  <1>1. TypeOK /\ C \in SUBSET Clients
    BY DEF IInv, Clients
  <1>2. c \in Clients
    BY <1>1
  <1>3. /\ request'[r] = Free
        /\ \A q \in Requests \ {r} : request'[q] = request[q]
        /\ session' = session
        /\ held'[c] = Keeps(r)
        /\ \A d \in Clients \ {c} : held'[d] = held[d]
    BY <1>1, <1>2, DeliverTyped DEF Deliver, TypeOK
  <1>4. request'[r].client \notin Clients /\ request'[r].client \notin C
    BY <1>1, <1>3, NoneIsApart DEF Free
  <1>5. \A q \in Requests \ {r} : request[q].client # c
    BY <1>2 DEF TurnInv, Alone
  <1>6. \/ Keeps(r) = held[c]
        \/ Keeps(r) = None
        \/ c \in Browsers /\ request[r].answer = "renewed" /\ Keeps(r) = request[r].token
    BY KindsAssumption DEF Keeps
  <1>7. Alone(C)'
    BY <1>3, <1>4 DEF TurnInv, Alone
  <1>8. HeldIsAccepted(C)'
    <2> SUFFICES ASSUME NEW d \in C, session'[d] # None, held'[d] # None
                 PROVE  held'[d] \in Accepted(d)'
      BY DEF HeldIsAccepted
    <2>1. CASE held'[d] = held[d]
      BY <1>3, <2>1 DEF TurnInv, HeldIsAccepted, Accepted
    <2>2. CASE held'[d] # held[d]
      <3>1. /\ d = c /\ c \in Browsers /\ request[r].answer = "renewed"
            /\ held'[d] = request[r].token
        BY <1>1, <1>3, <1>6, <2>2
      <3>2. held'[d] = session'[d].current
        BY <1>1, <1>3, <3>1 DEF TurnInv, Answer
      <3> QED
        BY <3>2 DEF Accepted
    <2> QED
      BY <2>1, <2>2
  <1>9. Presented(C)'
    BY <1>1, <1>3, <1>4, <1>5 DEF TurnInv, Presented
  <1>10. Answer(C)'
    BY <1>3, <1>4 DEF TurnInv, Answer
  <1> QED
    BY <1>7, <1>8, <1>9, <1>10 DEF TurnInv

LEMMA SendTurn ==
    ASSUME NEW C \in SUBSET Clients, IInv, TurnInv(C),
           NEW c \in C, NEW r \in Requests, Send(c, r), Quiet(c)
    PROVE  TurnInv(C)'
  <1>1. TypeOK
    BY DEF IInv
  <1>2. Quiet(c) /\ session' = session /\ held' = held
    BY DEF Send
  <1>3. request'[r] = [Free EXCEPT !.pc = "look up", !.client = c, !.presented = held[c]]
    BY <1>1, SendTyped
  <1>4. /\ request'[r].client = c /\ request'[r].presented = held[c]
        /\ request'[r].answer # "renewed"
    BY <1>3, NoneIsApart DEF Free, Answers
  <1>5. \A q \in Requests \ {r} : request'[q] = request[q] /\ request[q].client # c
    BY <1>1, <1>2, SendTyped DEF Quiet
  <1>6. Alone(C)'
    BY <1>4, <1>5 DEF TurnInv, Alone
  <1>7. HeldIsAccepted(C)'
    BY <1>2 DEF TurnInv, HeldIsAccepted, Accepted
  <1>8. Presented(C)'
    BY <1>2, <1>4, <1>5 DEF TurnInv, Presented
  <1>9. Answer(C)'
    BY <1>2, <1>4, <1>5 DEF TurnInv, Answer
  <1> QED
    BY <1>6, <1>7, <1>8, <1>9 DEF TurnInv

LEMMA SignInTurn ==
    ASSUME NEW C \in SUBSET Clients, IInv, TurnInv(C), NEW c \in C, SignIn(c), Quiet(c)
    PROVE  TurnInv(C)'
  <1>1. TypeOK
    BY DEF IInv
  <1>2. Quiet(c) /\ request' = request /\ held' = [held EXCEPT ![c] = issued + 1]
    BY DEF SignIn
  <1>3. /\ session'[c].current = issued + 1
        /\ \A d \in Clients \ {c} : session'[d] = session[d]
    BY <1>1, SignInTyped
  <1>4. /\ held'[c] = issued + 1
        /\ \A d \in Clients \ {c} : held'[d] = held[d]
    BY <1>1, <1>2 DEF TypeOK
  <1>5. \A q \in Requests : request[q].client # c
    BY <1>2 DEF Quiet
  <1>6. Alone(C)'
    BY <1>2 DEF TurnInv, Alone
  <1>7. HeldIsAccepted(C)'
    BY <1>3, <1>4 DEF TurnInv, HeldIsAccepted, Accepted
  <1>8. Presented(C)'
    BY <1>2, <1>3, <1>4, <1>5 DEF TurnInv, Presented
  <1>9. Answer(C)'
    BY <1>2, <1>3, <1>5 DEF TurnInv, Answer
  <1> QED
    BY <1>6, <1>7, <1>8, <1>9 DEF TurnInv

LEMMA TurnStep ==
    ASSUME NEW C \in SUBSET (Browsers \cup Ones), IInv, TurnInv(C), [Next /\ TakeTurns(C)]_vars
    PROVE  TurnInv(C)'
  <1>1. TypeOK /\ C \in SUBSET Clients
    BY DEF IInv, Clients
  <1>2. ASSUME NEW r \in Requests, Serve(r), request[r].client \notin C \/ ~ (Commit(r) /\ Rotating(r))
        PROVE  TurnInv(C)'
    <2>1. held' = held
      BY <1>2 DEF Serve, LookUp, LookUpFails, Expire, Touch, Rotate, RotateFails, UserRefused, Commit, Fail
    <2>2. CASE ~ (Commit(r) /\ Rotating(r))
      <3>1. (\A c \in C : Kept(c)) /\ (\A q \in Requests : Continues(q))
        BY <1>1, <1>2, <2>2, ServeKeeps, ServeContinues
      <3> QED
        BY <1>1, <2>1, <3>1, KeepingStep
    <2>3. CASE Commit(r) /\ Rotating(r) /\ request[r].client \notin C
      <3>1. /\ \A q \in Requests \ {r} : request'[q] = request[q]
            /\ request'[r] = [request[r] EXCEPT !.pc = "replied", !.answer = "renewed"]
            /\ \A c \in Clients \ {request[r].client} : session'[c] = session[c]
        BY <1>1, <2>3, CommitTyped
      <3>2. request'[r].client \notin C
        <4>1. request[r] \in Renewal
          BY <1>1 DEF TypeOK
        <4>2. request'[r].client = request[r].client
          BY <3>1, <4>1 DEF Renewal
        <4> QED
          BY <2>3, <4>2
      <3>3. (\A c \in C : Kept(c)) /\ (\A q \in Requests : request'[q].client \in C => Continues(q))
        BY <1>1, <2>3, <3>1, <3>2 DEF Kept, Continues
      <3> QED
        BY <1>1, <2>1, <3>3, KeepingStep
    <2> QED
      BY <1>2, <2>2, <2>3
  <1>3. ASSUME NEW r \in Requests, Commit(r), Rotating(r), request[r].client \in C PROVE TurnInv(C)'
    BY <1>1, <1>3, RotationTurn
  <1>4. ASSUME NEW r \in Requests, Deliver(r) PROVE TurnInv(C)'
    <2>1. CASE request[r].client \in C
      BY <1>4, <2>1, DeliverTurn
    <2>2. CASE request[r].client \notin C
      <3>1. /\ request'[r] = Free /\ \A q \in Requests \ {r} : request'[q] = request[q]
            /\ session' = session
            /\ \A d \in Clients \ {request[r].client} : held'[d] = held[d]
        BY <1>1, <1>4, DeliverTyped DEF Deliver, TypeOK
      <3>2. (\A c \in C : Kept(c)) /\ (\A q \in Requests : request'[q].client \in C => Continues(q))
        BY <1>1, <3>1, NoneIsApart DEF Kept, Continues, Free
      <3> QED
        BY <1>1, <2>2, <3>1, <3>2, KeepingStep
    <2> QED
      BY <2>1, <2>2
  <1>5. ASSUME NEW r \in Requests, Lose(r) PROVE TurnInv(C)'
    <2>1. /\ request'[r] = Free
          /\ \A q \in Requests \ {r} : request'[q] = request[q]
          /\ session' = session /\ held' = held
      BY <1>1, <1>5, LoseTyped DEF Lose
    <2>2. (\A c \in C : Kept(c)) /\ (\A q \in Requests : request'[q].client \in C => Continues(q))
      BY <1>1, <2>1, NoneIsApart DEF Kept, Continues, Free
    <2> QED
      BY <1>1, <2>1, <2>2, KeepingStep
  <1>6. ASSUME NEW c \in Clients, NEW r \in Requests, Send(c, r), c \in C => Quiet(c) PROVE TurnInv(C)'
    <2>1. CASE c \in C
      BY <1>1, <1>6, <2>1, SendTurn
    <2>2. CASE c \notin C
      <3>1. /\ request'[r] = [Free EXCEPT !.pc = "look up", !.client = c, !.presented = held[c]]
            /\ \A q \in Requests \ {r} : request'[q] = request[q]
            /\ session' = session /\ held' = held
        BY <1>1, <1>6, SendTyped DEF Send
      <3>2. request'[r].client = c
        BY <3>1 DEF Free
      <3>3. (\A d \in C : Kept(d)) /\ (\A q \in Requests : request'[q].client \in C => Continues(q))
        BY <2>2, <3>1, <3>2 DEF Kept, Continues
      <3> QED
        BY <1>1, <3>1, <3>3, KeepingStep
    <2> QED
      BY <2>1, <2>2
  <1>7. ASSUME NEW c \in Clients, SignIn(c), c \in C => Quiet(c) PROVE TurnInv(C)'
    <2>1. CASE c \in C
      BY <1>1, <1>7, <2>1, SignInTurn
    <2>2. CASE c \notin C
      <3>1. /\ request' = request /\ \A d \in Clients \ {c} : session'[d] = session[d]
            /\ \A d \in Clients \ {c} : held'[d] = held[d]
        BY <1>1, <1>7, SignInTyped DEF SignIn, TypeOK
      <3>2. (\A d \in C : Kept(d)) /\ (\A q \in Requests : Continues(q))
        BY <1>1, <2>2, <3>1 DEF Kept, Continues
      <3> QED
        BY <1>1, <2>2, <3>1, <3>2, KeepingStep
    <2> QED
      BY <2>1, <2>2
  <1>8. ASSUME Elsewhere \/ (\E c \in Clients : Logout(c)) PROVE TurnInv(C)'
    <2>1. \A c \in C : Kept(c)
      BY <1>1, <1>8, ElsewhereKeeps
    <2>2. request' = request /\ (\A c \in C : held'[c] = held[c] \/ held'[c] = None)
      BY <1>1, <1>8 DEF Elsewhere, Logout, Revoke, FallIdle, CleanUp, RevokeAll, SetDisabled,
                        vars, TypeOK
    <2>3. \A q \in Requests : Continues(q)
      BY <2>2 DEF Continues
    <2> QED
      BY <1>1, <2>1, <2>2, <2>3, KeepingStep
  <1> QED
    BY <1>2, <1>3, <1>4, <1>5, <1>6, <1>7, <1>8 DEF Next, Elsewhere, TakeTurns

LEMMA TurnInit == ASSUME NEW C \in SUBSET Clients, Init PROVE TurnInv(C)
  <1>1. \A r \in Requests : request[r] = Free /\ request[r].client \notin C
    BY NoneIsApart DEF Init, Free
  <1>2. \A c \in C : session[c] = None
    BY DEF Init
  <1> QED
    BY <1>1, <1>2 DEF TurnInv, Alone, HeldIsAccepted, Presented, Answer

(***************************************************************************)
(* Browsers and apps that wait for each renewal to be answered or given up *)
(* and gone are not signed out by lost requests and replies, failures and  *)
(* crashes of the server, however they fall and whatever other clients do: *)
(* while the session is there, it accepts the token held.                  *)
(***************************************************************************)
THEOREM ClientsInTurn ==
    ASSUME NEW C \in SUBSET (Browsers \cup Ones)
    PROVE  Spec /\ [][TakeTurns(C)]_vars => []HeldIsAccepted(C)
  <1>1. Init => TurnInv(C)
    BY TurnInit DEF Clients
  <1>2. IInv /\ TurnInv(C) /\ [Next]_vars /\ [TakeTurns(C)]_vars => TurnInv(C)'
    BY TurnStep
  <1>3. TurnInv(C) => HeldIsAccepted(C)
    BY DEF TurnInv
  <1> QED
    BY <1>1, <1>2, <1>3, Inductive, PTL DEF Spec

(***************************************************************************)
(* Where nobody overtakes and no client is the desktop app, which stores   *)
(* what it was not given, nobody is signed out by a lost reply.            *)
(***************************************************************************)
THEOREM TurnsNeverSignOut ==
    ASSUME Overtaking = {}, Desktops = {}
    PROVE  Spec => []LostReplyNeverSignsOut
  <1>1. Clients \in SUBSET (Browsers \cup Ones)
    BY DEF Clients
  <1>2. Init => TurnInv(Clients)
    BY TurnInit
  <1>3. [Next]_vars => [Next /\ TakeTurns(Clients)]_vars
    BY DEF TakeTurns, Send, SignIn
  <1>4. IInv /\ TurnInv(Clients) /\ [Next]_vars => TurnInv(Clients)'
    BY <1>1, <1>3, TurnStep
  <1>5. TurnInv(Clients) => LostReplyNeverSignsOut
    BY DEF TurnInv, HeldIsAccepted, LostReplyNeverSignsOut
  <1> QED
    BY <1>2, <1>4, <1>5, Inductive, PTL DEF Spec
=============================================================================
