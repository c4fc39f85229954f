---------------------------- MODULE OneTabProofs ----------------------------
(***************************************************************************)
(* One renewal at a time, no caller forgotten, no live session lost, for   *)
(* any number of calls and renewals (PageSession); that it holds in a tab, *)
(* whose steps are steps of its documents' sessions or none; and what a    *)
(* tab shows and does when its session is lost (OneTab).                   *)
(***************************************************************************)
EXTENDS OneTab, TLAPS

\* The shared promise is that of the renewal under way; without one, a renewal
\* runs on in a session already lost only.
SharedPromise ==
    /\ renewing # None => renewals = {renewing}
    /\ renewing = None /\ renewals # {} => lost
    /\ OneRenewalAtATime

\* What NotRenewed's translation of markSessionLost rests on.
LostHasNoToken == lost /\ renewals # {} => token = 0

IInv ==
    /\ TypeOK
    /\ SharedPromise
    /\ LostHasNoToken
    /\ NoCallIsForgotten
    /\ ReplaysAreFresh

-----------------------------------------------------------------------------
LEMMA JoinsShares ==
    ASSUME IInv, NEW c \in Calls, NEW call \in Call, Joins(c, call), ~ lost, lost' = lost
    PROVE  /\ renewing' \in Renewals /\ renewals' = {renewing'}
           /\ renewals \subseteq renewals'
           /\ calls' = [calls EXCEPT ![c] = [call EXCEPT !.pc = "waiting", !.on = renewing']]
  <1>1. CASE renewing # None
    BY <1>1 DEF IInv, TypeOK, SharedPromise, Joins, Becomes
  <1>2. CASE renewing = None
    <2>1. renewals = {}
      BY <1>2 DEF IInv, SharedPromise
    <2> QED
      BY <1>2, <2>1 DEF Joins, Becomes
  <1> QED
    BY <1>1, <1>2

LEMMA JoinsKeeps ==
    ASSUME IInv, NEW c \in Calls, NEW call \in Call, Joins(c, call), ~ lost,
           UNCHANGED <<token, lost, Server>>
    PROVE  IInv'
  <1> USE SessionAssumption
  <1>1. /\ renewing' \in Renewals /\ renewals' = {renewing'}
        /\ renewals \subseteq renewals'
        /\ calls' = [calls EXCEPT ![c] = [call EXCEPT !.pc = "waiting", !.on = renewing']]
    BY JoinsShares
  <1>2. calls' \in [Calls -> Call]
    BY <1>1 DEF IInv, TypeOK, Call
  <1>3. TypeOK'
    BY <1>1, <1>2 DEF IInv, TypeOK, Server
  <1>4. SharedPromise' /\ LostHasNoToken'
    BY <1>1 DEF SharedPromise, OneRenewalAtATime, LostHasNoToken, Server
  <1>5. \A d \in Calls : calls'[d] = IF d = c THEN [call EXCEPT !.pc = "waiting", !.on = renewing']
                                     ELSE calls[d]
    BY <1>1 DEF IInv, TypeOK
  <1>6. NoCallIsForgotten'
    BY <1>1, <1>5 DEF IInv, NoCallIsForgotten, At, Call
  <1>7. ReplaysAreFresh'
    BY <1>5 DEF IInv, ReplaysAreFresh, At, Call, Server
  <1> QED
    BY <1>3, <1>4, <1>6, <1>7 DEF IInv

\* A call ends or is sent: the promise stays, or the session is lost without it.
LEMMA CallKeeps ==
    ASSUME IInv, NEW c \in Calls, NEW call \in Call,
           call.pc \in {"idle", "first"},
           Becomes(c, call),
           \/ UNCHANGED <<token, lost, renewing>>
           \/ token' = 0 /\ lost' = TRUE /\ renewing' \in {renewing, None},
           alive' \in {alive, FALSE},
           UNCHANGED <<renewals, minted, rejected>>
    PROVE  IInv'
  <1>1. \A d \in Calls : calls'[d] = IF d = c THEN call ELSE calls[d]
    BY DEF Becomes, IInv, TypeOK
  <1>2. TypeOK'
    <2>1. calls' \in [Calls -> Call]
      BY DEF IInv, TypeOK, Becomes
    <2>2. token' \in 0..minted /\ lost' \in BOOLEAN /\ renewing' \in Renewals \cup {None}
      <3>1. CASE UNCHANGED <<token, lost, renewing>>
        BY <3>1 DEF IInv, TypeOK
      <3>2. CASE token' = 0 /\ lost' = TRUE /\ renewing' \in {renewing, None}
        <4>1. 0 \in 0..minted
          BY DEF IInv, TypeOK
        <4> QED
          BY <3>2, <4>1 DEF IInv, TypeOK
      <3> QED
        BY <3>1, <3>2
    <2>3. alive' \in BOOLEAN
      BY DEF IInv, TypeOK
    <2> QED
      BY <2>1, <2>2, <2>3 DEF IInv, TypeOK
  <1>3. SharedPromise'
    BY DEF IInv, SharedPromise, OneRenewalAtATime, TypeOK
  <1>4. LostHasNoToken'
    BY DEF IInv, LostHasNoToken, TypeOK
  <1>5. NoCallIsForgotten'
    BY <1>1 DEF IInv, NoCallIsForgotten, At
  <1>6. ReplaysAreFresh'
    <2>1. ~ alive => ~ alive'
      BY DEF IInv, TypeOK
    <2> QED
      BY <1>1, <2>1 DEF IInv, ReplaysAreFresh, At
  <1> QED
    BY <1>2, <1>3, <1>4, <1>5, <1>6 DEF IInv

LEMMA IdleIsCall == Idle \in Call
  BY DEF Idle, Call

LEMMA CallsKeep ==
    ASSUME IInv, NEW c \in Calls, CallSteps(c)
    PROVE  IInv'
  <1>1. calls[c] \in Call /\ Idle \in Call /\ alive \in BOOLEAN
    BY IdleIsCall DEF IInv, TypeOK
  <1>2. ASSUME NEW k \in Kinds \ {"init"}, Send(c, k) PROVE IInv'
    <2>1. [pc |-> "first", kind |-> k, bearer |-> token, on |-> None] \in Call
      BY DEF IInv, TypeOK, Call
    <2> QED
      BY <1>2, <2>1, CallKeeps DEF Send, Server
  <1>3. CASE InitSession(c)
    <2>1. [Idle EXCEPT !.kind = "init"] \in Call
      BY DEF Idle, Call, Kinds
    <2> QED
      BY <1>3, <2>1, JoinsKeeps DEF InitSession
  <1>4. CASE Answered(c)
    BY <1>1, <1>4, CallKeeps DEF Answered, Drops, Idle
  <1>5. CASE Unreachable(c)
    BY <1>1, <1>5, CallKeeps DEF Unreachable, Drops, Idle
  <1>6. CASE Refused(c)
    BY <1>1, <1>6, JoinsKeeps DEF Refused
  <1>7. CASE RefusedWhenLost(c)
    BY <1>1, <1>7, CallKeeps DEF RefusedWhenLost, Drops, Server, Idle
  <1>8. CASE RefusedAgain(c)
    BY <1>1, <1>8, CallKeeps DEF RefusedAgain, EndsTheSession, Server, Idle
  <1> QED
    BY <1>2, <1>3, <1>4, <1>5, <1>6, <1>7, <1>8 DEF CallSteps

LEMMA RenewedKeeps ==
    ASSUME IInv, NEW r \in Renewals, Renewed(r)
    PROVE  IInv'
  <1>1. renewals = {r} /\ renewals' = {}
    BY DEF IInv, SharedPromise, OneRenewalAtATime, Renewed
  <1>2. token' = minted + 1 /\ minted' = minted + 1 /\ rejected' = rejected /\ lost' = lost
        /\ alive' = alive /\ renewing' = None
    BY DEF Renewed
  <1>3. \A c \in Calls : calls'[c] \in Call
                         /\ ~ (calls'[c].pc = "waiting")
                         /\ (calls'[c].pc = "retry" =>
                                calls'[c].bearer = token' \/ calls'[c] = calls[c])
    <2> TAKE c \in Calls
    <2>1. calls'[c] = IF c \notin Waiting(r) THEN calls[c]
                      ELSE IF calls[c].kind = "init" THEN Idle
                      ELSE [calls[c] EXCEPT !.pc = "retry", !.on = None, !.bearer = token']
      BY DEF Renewed, Replays
    <2>2. calls[c] \in Call /\ Idle \in Call /\ token' \in Nat
      BY <1>2, IdleIsCall DEF IInv, TypeOK
    <2>3. calls[c].pc = "waiting" => c \in Waiting(r)
      BY <1>1 DEF IInv, NoCallIsForgotten, Waiting, At
    <2>4. CASE c \notin Waiting(r)
      BY <2>1, <2>2, <2>3, <2>4
    <2>5. CASE c \in Waiting(r) /\ calls[c].kind = "init"
      BY <2>1, <2>2, <2>5 DEF Idle
    <2>6. CASE c \in Waiting(r) /\ calls[c].kind # "init"
      BY <2>1, <2>2, <2>6 DEF Call
    <2> QED
      BY <2>4, <2>5, <2>6
  <1>4. TypeOK'
    <2>1. calls' \in [Calls -> Call]
      BY <1>3 DEF Renewed, Replays
    <2>2. rejected' \in SUBSET (0..minted')
      BY <1>2 DEF IInv, TypeOK
    <2> QED
      BY <1>1, <1>2, <2>1, <2>2 DEF IInv, TypeOK
  <1>5. SharedPromise' /\ LostHasNoToken' /\ NoCallIsForgotten'
    BY <1>1, <1>2, <1>3 DEF SharedPromise, OneRenewalAtATime, LostHasNoToken, NoCallIsForgotten, At
  <1>6. ReplaysAreFresh'
    <2>1. token' \notin rejected'
      BY <1>2 DEF IInv, TypeOK
    <2> QED
      BY <1>2, <1>3, <2>1 DEF IInv, ReplaysAreFresh, At
  <1> QED
    BY <1>4, <1>5, <1>6 DEF IInv

LEMMA NotRenewedKeeps ==
    ASSUME IInv, NEW r \in Renewals, NotRenewed(r)
    PROVE  IInv'
  <1>1. renewals' = {} /\ renewing' = None /\ lost' = TRUE /\ token' = 0 /\ UNCHANGED Server
    BY DEF IInv, SharedPromise, OneRenewalAtATime, NotRenewed
  <1>2. \A c \in Calls : calls'[c] \in {calls[c], Idle} /\ calls'[c].pc # "waiting"
    <2> TAKE c \in Calls
    <2>1. calls'[c] = IF c \in Waiting(r) THEN Idle ELSE calls[c]
      BY DEF NotRenewed
    <2>2. calls[c].pc = "waiting" => c \in Waiting(r)
      <3>1. renewals = {r}
        BY DEF IInv, SharedPromise, OneRenewalAtATime, NotRenewed
      <3> QED
        BY <3>1 DEF IInv, NoCallIsForgotten, Waiting, At
    <2> QED
      BY <2>1, <2>2 DEF Idle
  <1>3. TypeOK'
    <2>1. calls' \in [Calls -> Call]
      BY <1>2, IdleIsCall DEF NotRenewed, IInv, TypeOK
    <2> QED
      BY <1>1, <2>1 DEF IInv, TypeOK, Server
  <1>4. SharedPromise' /\ LostHasNoToken' /\ NoCallIsForgotten'
    BY <1>1, <1>2 DEF SharedPromise, OneRenewalAtATime, LostHasNoToken, NoCallIsForgotten, At
  <1>5. ReplaysAreFresh'
    BY <1>1, <1>2 DEF IInv, ReplaysAreFresh, At, Idle, Server
  <1> QED
    BY <1>3, <1>4, <1>5 DEF IInv

LEMMA WorldKeeps ==
    ASSUME IInv, SignedIn \/ NewDocument \/ Age \/ Revoke
    PROVE  IInv'
  <1>1. CASE SignedIn
    <2>1. TypeOK'
      <3>1. token' \in 0..minted' /\ minted' \in Nat /\ rejected' \in SUBSET (0..minted')
        BY <1>1 DEF SignedIn, IInv, TypeOK
      <3>2. lost' \in BOOLEAN /\ alive' \in BOOLEAN
        BY <1>1 DEF SignedIn
      <3>3. UNCHANGED <<renewing, renewals, calls>>
        BY <1>1 DEF SignedIn
      <3> QED
        BY <3>1, <3>2, <3>3 DEF IInv, TypeOK
    <2>2. SharedPromise' /\ LostHasNoToken'
      BY <1>1 DEF SignedIn, IInv, SharedPromise, LostHasNoToken, OneRenewalAtATime
    <2>3. NoCallIsForgotten' /\ ReplaysAreFresh'
      BY <1>1 DEF SignedIn, NoCallIsForgotten, ReplaysAreFresh, At
    <2> QED
      BY <2>1, <2>2, <2>3 DEF IInv
  <1>2. CASE NewDocument
    <2>1. TypeOK'
      <3>1. token' \in 0..minted' /\ minted' \in Nat /\ rejected' \in SUBSET (0..minted')
        BY <1>2 DEF NewDocument
      <3>2. lost' \in BOOLEAN /\ alive' \in BOOLEAN
        BY <1>2 DEF NewDocument, IInv, TypeOK
      <3>3. calls' \in [Calls -> Call] /\ renewing' = None /\ renewals' = {}
        BY <1>2, IdleIsCall DEF NewDocument
      <3> QED
        BY <3>1, <3>2, <3>3 DEF TypeOK
    <2>2. SharedPromise' /\ LostHasNoToken'
      BY <1>2 DEF NewDocument, SharedPromise, LostHasNoToken, OneRenewalAtATime
    <2>3. NoCallIsForgotten' /\ ReplaysAreFresh'
      BY <1>2 DEF NewDocument, NoCallIsForgotten, ReplaysAreFresh, At, Idle
    <2> QED
      BY <2>1, <2>2, <2>3 DEF IInv
  <1>3. CASE Age
    <2>1. PICK t \in 1..minted : /\ \A c \in Calls : At(c, "retry") => calls[c].bearer > t
                                /\ rejected' = rejected \cup 1..t
      BY <1>3 DEF Age
    <2>2. UNCHANGED <<token, lost, renewing, renewals, calls, alive, minted>>
      BY <1>3 DEF Age
    <2>3. TypeOK'
      BY <2>1, <2>2 DEF IInv, TypeOK
    <2>4. SharedPromise' /\ LostHasNoToken' /\ NoCallIsForgotten'
      BY <2>2 DEF IInv, SharedPromise, LostHasNoToken, OneRenewalAtATime, NoCallIsForgotten, At
    <2>5. ASSUME NEW c \in Calls, At(c, "retry") PROVE calls[c].bearer \notin 1..t
      BY <2>1, <2>5 DEF IInv, TypeOK, Call
    <2>6. ReplaysAreFresh'
      BY <2>1, <2>2, <2>5 DEF IInv, ReplaysAreFresh, At
    <2> QED
      BY <2>3, <2>4, <2>6 DEF IInv
  <1>4. CASE Revoke
    <2>1. TypeOK'
      BY <1>4 DEF Revoke, IInv, TypeOK
    <2>2. SharedPromise' /\ LostHasNoToken' /\ NoCallIsForgotten' /\ ReplaysAreFresh'
      BY <1>4 DEF Revoke, IInv, SharedPromise, LostHasNoToken, OneRenewalAtATime,
                  NoCallIsForgotten, ReplaysAreFresh, At
    <2> QED
      BY <2>1, <2>2 DEF IInv
  <1> QED
    BY <1>1, <1>2, <1>3, <1>4

LEMMA StutterKeeps == ASSUME IInv, UNCHANGED sessionVars PROVE IInv'
  BY DEF IInv, TypeOK, SharedPromise, LostHasNoToken, OneRenewalAtATime,
         NoCallIsForgotten, ReplaysAreFresh, At, sessionVars

LEMMA InitIInv == Init => IInv
  <1> SUFFICES ASSUME Init PROVE IInv
    OBVIOUS
  <1>1. TypeOK
    <2>1. token \in 0..minted /\ minted \in Nat /\ rejected \in SUBSET (0..minted)
      BY DEF Init
    <2>2. calls \in [Calls -> Call]
      BY IdleIsCall DEF Init
    <2> QED
      BY <2>1, <2>2 DEF Init, TypeOK
  <1>2. SharedPromise /\ LostHasNoToken
    BY DEF Init, SharedPromise, OneRenewalAtATime, LostHasNoToken
  <1>3. NoCallIsForgotten /\ ReplaysAreFresh
    BY DEF Init, NoCallIsForgotten, ReplaysAreFresh, At, Idle
  <1> QED
    BY <1>1, <1>2, <1>3 DEF IInv

LEMMA StepIInv == ASSUME IInv, [SessionNext]_sessionVars PROVE IInv'
  <1>1. ASSUME NEW r \in Renewals, RenewalSteps(r) PROVE IInv'
    BY <1>1, RenewedKeeps, NotRenewedKeeps DEF RenewalSteps, RenewalRefused, RenewalUnreachable
  <1> QED
    BY <1>1, CallsKeep, WorldKeeps, StutterKeeps DEF SessionNext

LEMMA Inductive == SessionSpec => []IInv
  <1>1. IInv /\ [SessionNext]_sessionVars => IInv'
    BY StepIInv
  <1> QED
    BY <1>1, InitIInv, PTL DEF SessionSpec

-----------------------------------------------------------------------------
\* The state of a document's session is well formed, from any number of calls.
THEOREM SessionTyped == SessionSpec => []TypeOK
  <1>1. IInv => TypeOK
    BY DEF IInv
  <1> QED
    BY <1>1, Inductive, PTL

\* However many calls are refused at once, one renewal is under way.
THEOREM RenewsOnce == SessionSpec => []OneRenewalAtATime
  <1>1. IInv => OneRenewalAtATime
    BY DEF IInv, SharedPromise
  <1> QED
    BY <1>1, Inductive, PTL

\* No caller of a shared renewal is left with a promise nobody settles.
THEOREM RemembersEveryCall == SessionSpec => []NoCallIsForgotten
  <1>1. IInv => NoCallIsForgotten
    BY DEF IInv
  <1> QED
    BY <1>1, Inductive, PTL

\* A replay's token is one the server takes while it holds the session.
THEOREM ReplaysFresh == SessionSpec => []ReplaysAreFresh
  <1>1. IInv => ReplaysAreFresh
    BY DEF IInv
  <1> QED
    BY <1>1, Inductive, PTL

\* A step that loses a session the server holds.
LostForCause ==
    (alive /\ alive' /\ ~ lost /\ lost') =>
        \/ \E r \in Renewals : RenewalUnreachable(r)
        \/ \E c \in Calls : calls[c].kind = "sign out" /\ calls'[c] = Idle

LEMMA CallLosesForCause ==
    ASSUME IInv, NEW c \in Calls, CallSteps(c)
    PROVE  LostForCause
  <1> SUFFICES ASSUME alive, alive', ~ lost, lost'
               PROVE  calls[c].kind = "sign out" /\ calls'[c] = Idle
    BY DEF LostForCause
  <1>1. \A k : ~ Send(c, k)
    BY DEF Send
  <1>2. ~ InitSession(c) /\ ~ Refused(c) /\ ~ RefusedWhenLost(c)
    BY DEF InitSession, Refused, RefusedWhenLost
  <1>3. c \in DOMAIN calls
    BY DEF IInv, TypeOK
  <1>4. CASE Answered(c) \/ Unreachable(c)
    BY <1>3, <1>4 DEF Answered, Unreachable, Drops, Becomes
  <1>5. CASE RefusedAgain(c)
    <2>1. EndsTheSession(calls[c].kind)
      BY <1>5 DEF RefusedAgain
    <2>2. calls[c].bearer \in rejected
      BY <1>5, <2>1 DEF RefusedAgain, MayBeRefused, EndsTheSession
    <2>3. FALSE
      BY <1>5, <2>2 DEF RefusedAgain, IInv, ReplaysAreFresh
    <2> QED
      BY <2>3
  <1> QED
    BY <1>1, <1>2, <1>4, <1>5 DEF CallSteps

LEMMA StepLosesForCause ==
    ASSUME IInv, [SessionNext]_sessionVars
    PROVE  LostForCause
  <1>1. CASE \E c \in Calls : CallSteps(c)
    BY <1>1, CallLosesForCause
  <1>2. ASSUME NEW r \in Renewals, RenewalSteps(r) PROVE LostForCause
    BY <1>2 DEF RenewalSteps, Renewed, RenewalRefused, LostForCause
  <1>3. CASE SignedIn \/ NewDocument \/ Age \/ Revoke \/ UNCHANGED sessionVars
    BY <1>3 DEF SignedIn, NewDocument, Age, Revoke, sessionVars, LostForCause
  <1> QED
    BY <1>1, <1>2, <1>3 DEF SessionNext

\* A session the server holds is lost by a renewal that does not get through, or
\* by the page's own sign-out.
THEOREM LosesForCause == SessionSpec => KeepsALiveSession
  <1>1. IInv /\ [SessionNext]_sessionVars => [LostForCause]_sessionVars
    BY StepLosesForCause
  <1>2. KeepsALiveSession <=> [][LostForCause]_sessionVars
    BY DEF KeepsALiveSession, LostForCause
  <1> QED
    BY <1>1, <1>2, Inductive, PTL DEF SessionSpec

-----------------------------------------------------------------------------
(* The tab.                                                                *)

LEMMA StepOfSession ==
    ASSUME [TabNext]_vars
    PROVE  [SessionNext]_sessionVars
  <1>1. CASE UNCHANGED vars
    BY <1>1 DEF vars
  <1>2. ASSUME NEW c \in Calls,
               \/ Boot(c) \/ ReadAccount(c) \/ \E k \in Kinds \ {"init"} : Calling(c, k)
               \/ TabAnswered(c) \/ TabUnreachable(c)
               \/ TabRefused(c) \/ TabRefusedWhenLost(c) \/ TabRefusedAgain(c)
        PROVE  CallSteps(c)
    <2>1. "authed" \in Kinds \ {"init"}
      BY DEF Kinds
    <2> QED
      BY <1>2, <2>1 DEF Boot, ReadAccount, Calling, TabAnswered, TabUnreachable, TabRefused,
                        TabRefusedWhenLost, TabRefusedAgain, CallSteps
  <1>3. ASSUME NEW r \in Renewals, TabRenewed(r) \/ TabNotRenewed(r)
        PROVE  RenewalSteps(r)
    BY <1>3 DEF TabRenewed, TabNotRenewed, RenewalSteps
  <1>4. CASE SubmitSignIn
    BY <1>4 DEF SubmitSignIn, SessionNext
  <1>5. CASE PressSignIn
    BY <1>5 DEF PressSignIn
  <1>6. CASE Arrive \/ \E d \in {"app", "signin"} : Open(d)
    BY <1>6 DEF Arrive, Open, Loads, SessionNext
  <1>7. CASE Elsewhere
    BY <1>7 DEF Elsewhere, SessionNext
  <1> QED
    BY <1>1, <1>2, <1>3, <1>4, <1>5, <1>6, <1>7 DEF TabNext, SessionNext

\* What is proved of a session carries over to a tab.
LEMMA TabIsSessions == TabSpec => SessionSpec
  <1>1. TabInit => Init
    BY DEF TabInit
  <1>2. [TabNext]_vars => [SessionNext]_sessionVars
    BY StepOfSession
  <1> QED
    BY <1>1, <1>2, PTL DEF TabSpec, SessionSpec

\* So a tab renews one token at a time.
THEOREM TabRenewsOnce == TabSpec => []OneRenewalAtATime
  BY TabIsSessions, RenewsOnce, PTL

\* The marker, where it can be kept, is there since the only automatic hand-off.
MarkerCounts ==
    /\ handOffs \in 0..Often /\ marker \in {"clear", "set", "unusable"}
    /\ marker = "clear" => handOffs = 0
    /\ marker = "set" => handOffs <= 1

TabInv == MarkerCounts /\ LostIsShown

LEMMA HandsOffKeeps ==
    ASSUME TabInv, HandsOff
    PROVE  TabInv'
  <1>1. LostIsShown'
    BY DEF HandsOff, Leaves, Shows, LostIsShown
  <1>2. CASE UNCHANGED <<marker, handOffs>>
    BY <1>1, <1>2 DEF TabInv, MarkerCounts
  <1>3. CASE /\ marker # "set" /\ writeHandoffMarker("set")
             /\ handOffs' = IF handOffs < Often THEN handOffs + 1 ELSE Often
    BY <1>1, <1>3 DEF TabInv, MarkerCounts, writeHandoffMarker, Often
  <1> QED
    BY <1>2, <1>3 DEF HandsOff, shouldHandOffToLogin, TabInv, MarkerCounts

LEMMA LosesKeeps ==
    ASSUME TabInv, NEW ended, Loses(ended)
    PROVE  TabInv'
  <1>1. CASE HandsOff
    BY <1>1, HandsOffKeeps
  <1>2. CASE SignedOut \/ OnLost
    BY <1>2 DEF SignedOut, OnLost, Leaves, Shows, TabInv, MarkerCounts, LostIsShown
  <1>3. CASE document = "signin" /\ UNCHANGED <<document, marker, handOffs>>
    BY <1>3 DEF TabInv, MarkerCounts, LostIsShown
  <1> QED
    BY <1>1, <1>2, <1>3 DEF Loses

LEMMA TabStep ==
    ASSUME TabInv, [TabNext]_vars
    PROVE  TabInv'
  <1>1. CASE UNCHANGED vars
    BY <1>1 DEF TabInv, MarkerCounts, LostIsShown, vars, sessionVars, tabVars
  <1>2. ASSUME NEW c \in Calls, Boot(c) PROVE TabInv'
    BY <1>2 DEF Boot, InitSession, Shows, TabInv, MarkerCounts, LostIsShown
  <1>3. ASSUME NEW c \in Calls, ReadAccount(c) PROVE TabInv'
    BY <1>3 DEF ReadAccount, Send, Shows, TabInv, MarkerCounts, LostIsShown
  <1>4. ASSUME NEW c \in Calls, NEW k, Calling(c, k) PROVE TabInv'
    BY <1>4 DEF Calling, Send, TabInv, MarkerCounts, LostIsShown
  <1>5. ASSUME NEW c \in Calls, NEW b \in BOOLEAN, Settles(c, b), Drops(c) PROVE TabInv'
    <2>1. CASE calls[c].kind = "sign out"
      BY <1>5, <2>1 DEF Settles, SignedOut, Leaves, Shows, TabInv, MarkerCounts, LostIsShown
    <2>2. CASE calls[c].kind # "sign out" /\ page = "reading"
      BY <1>5, <2>2 DEF Settles, Drops, Shows, TabInv, MarkerCounts, LostIsShown
    <2>3. CASE calls[c].kind # "sign out" /\ page # "reading"
      BY <1>5, <2>3 DEF Settles, Drops, Still, tabVars, TabInv, MarkerCounts, LostIsShown
    <2> QED
      BY <2>1, <2>2, <2>3
  <1>6. ASSUME NEW c \in Calls, TabAnswered(c) \/ TabUnreachable(c) PROVE TabInv'
    BY <1>5, <1>6 DEF TabAnswered, TabUnreachable, Answered, Unreachable
  <1>7. ASSUME NEW c \in Calls, TabRefused(c) PROVE TabInv'
    BY <1>7 DEF TabRefused, Refused, Still, tabVars, TabInv, MarkerCounts, LostIsShown
  <1>8. ASSUME NEW c \in Calls, TabRefusedWhenLost(c) PROVE TabInv'
    BY <1>8 DEF TabRefusedWhenLost, RefusedWhenLost, Drops, SignedOut, Leaves, Shows, Still, tabVars,
                TabInv, MarkerCounts, LostIsShown
  <1>9. ASSUME NEW c \in Calls, TabRefusedAgain(c) PROVE TabInv'
    <2>1. CASE EndsTheSession(calls[c].kind)
      BY <1>9, <2>1, LosesKeeps DEF TabRefusedAgain
    <2>2. CASE ~ EndsTheSession(calls[c].kind)
      <3>1. Settles(c, TRUE) /\ Drops(c)
        BY <1>9, <2>2 DEF TabRefusedAgain, RefusedAgain, Drops, EndsTheSession
      <3> QED
        BY <1>5, <3>1
    <2> QED
      BY <2>1, <2>2
  <1>10. ASSUME NEW r \in Renewals, TabRenewed(r) PROVE TabInv'
    <2>1. CASE page # "session"
      BY <1>10, <2>1 DEF TabRenewed, Renewed, Still, tabVars, TabInv, MarkerCounts, LostIsShown
    <2>2. CASE page = "session" /\ document = "app"
      <3>1. lost' = lost /\ HasSession
        BY <1>10, <2>2 DEF TabRenewed, Renewed
      <3>2. ~ lost
        BY <2>2 DEF TabInv, LostIsShown
      <3> QED
        <4>1. handOffs' = 0 /\ marker' \in {"clear", "unusable"}
          BY <3>1 DEF HasSession, writeHandoffMarker
        <4> QED
          BY <3>1, <3>2, <4>1 DEF TabInv, MarkerCounts, LostIsShown, Often
    <2>3. CASE page = "session" /\ document # "app"
      BY <1>10, <2>3 DEF TabRenewed, Leaves, Shows, TabInv, MarkerCounts, LostIsShown
    <2> QED
      BY <2>1, <2>2, <2>3
  <1>11. ASSUME NEW r \in Renewals, TabNotRenewed(r) PROVE TabInv'
    BY <1>11, LosesKeeps DEF TabNotRenewed
  <1>12. CASE SubmitSignIn
    BY <1>12 DEF SubmitSignIn, TabInv, MarkerCounts, LostIsShown, Leaves, Shows
  <1>13. CASE PressSignIn
    <2>1. handOffs' = 0 /\ marker' \in {"set", "unusable"}
      BY <1>13 DEF PressSignIn, writeHandoffMarker, TabInv, MarkerCounts
    <2>2. LostIsShown'
      BY <1>13 DEF PressSignIn, LostIsShown, Leaves, Shows
    <2> QED
      BY <2>1, <2>2 DEF TabInv, MarkerCounts, Often
  <1>14. CASE Arrive \/ \E d \in {"app", "signin"} : Open(d)
    BY <1>14 DEF Arrive, Open, Loads, NewDocument, TabInv, MarkerCounts, LostIsShown
  <1>15. CASE Elsewhere
    BY <1>15 DEF Elsewhere, Age, Revoke, Still, tabVars, TabInv, MarkerCounts, LostIsShown
  <1> QED
    BY <1>1, <1>2, <1>3, <1>4, <1>6, <1>7, <1>8, <1>9, <1>10, <1>11, <1>12, <1>13, <1>14, <1>15
    DEF TabNext

LEMMA TabInvariance == TabSpec => []TabInv
  <1>1. ASSUME TabInit PROVE TabInv
    <2>1. handOffs = 0 /\ marker \in {"clear", "unusable"}
      BY <1>1 DEF TabInit
    <2>2. ~ lost
      BY <1>1 DEF TabInit, Init
    <2> QED
      BY <2>1, <2>2 DEF TabInv, MarkerCounts, LostIsShown, Often
  <1>2. TabInv /\ [TabNext]_vars => TabInv'
    BY TabStep
  <1> QED
    BY <1>1, <1>2, PTL DEF TabSpec

\* The automatic hand-off is taken once between two sessions or presses, where
\* the marker can be kept.
THEOREM TabHandsOffOnce == TabSpec => []HandsOffOnce
  <1>1. TabInv => HandsOffOnce
    BY DEF TabInv, MarkerCounts, HandsOffOnce
  <1> QED
    BY <1>1, TabInvariance, PTL

\* A page without its session shows the sign-in surface or is being left.
THEOREM TabShowsTheLoss == TabSpec => []LostIsShown
  <1>1. TabInv => LostIsShown
    BY DEF TabInv
  <1> QED
    BY <1>1, TabInvariance, PTL

\* What a document shows, and what the person has done so far.
Shown ==
    /\ document \in {"app", "signin"}
    /\ page \in {"boot", "session", "account", "reading", "ready", "form", "failed", "ended", "leaving"}
    /\ redirected \in BOOLEAN /\ signedOut \in BOOLEAN
    /\ visits \in 0..MaxVisits

\* One more press or address.
LEMMA ActsCounts == ASSUME visits \in 0..MaxVisits, Acts PROVE visits' \in 0..MaxVisits
  BY VisitsAssumption DEF Acts

LEMMA LosesShows == ASSUME Shown, NEW ended, Loses(ended) PROVE Shown'
  BY DEF Loses, SignedOut, HandsOff, OnLost, Leaves, Shows, Shown

LEMMA SettlesShows == ASSUME Shown, NEW c, NEW b, Settles(c, b) PROVE Shown'
  BY DEF Settles, SignedOut, Leaves, Shows, Still, tabVars, Shown

LEMMA ShownStep == ASSUME Shown, [TabNext]_vars PROVE Shown'
  <1>1. CASE UNCHANGED vars
    BY <1>1 DEF vars, tabVars, Shown
  <1>2. ASSUME NEW c \in Calls, Boot(c) \/ ReadAccount(c) PROVE Shown'
    BY <1>2 DEF Boot, ReadAccount, Shows, Shown
  <1>3. ASSUME NEW c \in Calls, NEW k, Calling(c, k) PROVE Shown'
    <2>1. visits' = visits \/ Acts
      BY <1>3 DEF Calling, Acts
    <2>2. visits' \in 0..MaxVisits
      BY <2>1, ActsCounts DEF Shown
    <2> QED
      BY <1>3, <2>2 DEF Calling, Shown
  <1>4. ASSUME NEW c \in Calls, TabAnswered(c) \/ TabUnreachable(c) PROVE Shown'
    BY <1>4, SettlesShows DEF TabAnswered, TabUnreachable
  <1>5. ASSUME NEW c \in Calls, TabRefused(c) \/ TabRefusedWhenLost(c) PROVE Shown'
    BY <1>5 DEF TabRefused, TabRefusedWhenLost, SignedOut, Leaves, Shows, Still, tabVars, Shown
  <1>6. ASSUME NEW c \in Calls, TabRefusedAgain(c) PROVE Shown'
    BY <1>6, LosesShows, SettlesShows DEF TabRefusedAgain
  <1>7. ASSUME NEW r \in Renewals, TabRenewed(r) PROVE Shown'
    BY <1>7 DEF TabRenewed, HasSession, Leaves, Shows, Still, tabVars, Shown
  <1>8. ASSUME NEW r \in Renewals, TabNotRenewed(r) PROVE Shown'
    BY <1>8, LosesShows DEF TabNotRenewed
  <1>9. CASE SubmitSignIn \/ PressSignIn
    BY <1>9, ActsCounts DEF SubmitSignIn, PressSignIn, Leaves, Shows, Shown
  <1>10. CASE Arrive
    BY <1>10 DEF Arrive, Loads, Shows, Shown
  <1>11. ASSUME NEW d \in {"app", "signin"}, Open(d) PROVE Shown'
    BY <1>11, ActsCounts DEF Open, Loads, Shows, Shown
  <1>12. CASE Elsewhere
    BY <1>12 DEF Elsewhere, Still, tabVars, Shown
  <1> QED
    BY <1>1, <1>2, <1>3, <1>4, <1>5, <1>6, <1>7, <1>8, <1>9, <1>10, <1>11, <1>12 DEF TabNext

\* Every variable of the tab keeps its type: nothing leaves a document on a page
\* the code does not know, and the session's part is typed in every document.
THEOREM TabTyped == TabSpec => []TabTypeOK
  <1>1. ASSUME TabInit PROVE Shown
    <2>1. 0 \in 0..MaxVisits
      BY VisitsAssumption
    <2> QED
      BY <1>1, <2>1 DEF TabInit, Shown
  <1>2. Shown /\ [TabNext]_vars => Shown'
    BY ShownStep
  <1>3. TabSpec => []Shown
    BY <1>1, <1>2, PTL DEF TabSpec
  <1>4. TabSpec => []TypeOK
    BY TabIsSessions, SessionTyped, PTL
  <1>5. Shown /\ TypeOK /\ TabInv => TabTypeOK
    BY DEF Shown, TabInv, MarkerCounts, TabTypeOK
  <1> QED
    BY <1>3, <1>4, <1>5, TabInvariance, PTL
=============================================================================
