---------------------------- MODULE PageSession ----------------------------
(***************************************************************************)
(* The session of one Brazn One document: the module state of              *)
(* frontend/public/one/api.js (accessToken, sessionLost, refreshInFlight)  *)
(* and the calls that share it.                                            *)
(*                                                                         *)
(* Every fetch is a request under way: its answer comes later, in any      *)
(* order, or the transport fails.  What runs between two awaits is one     *)
(* step, so the callers that wait for one renewal resume together.         *)
(*                                                                         *)
(* Tokens are numbered in the order a document mints them; 0 is no token.  *)
(* A document knows no token of another, so the next one counts anew.  A   *)
(* token lives longer than one request takes: Age spares the tokens that   *)
(* a replayed request carries.                                             *)
(***************************************************************************)
EXTENDS Naturals

CONSTANTS
    Calls,      \* places for calls under way at once
    Renewals,   \* places for renewals under way at once
    MaxTokens,  \* bounds the tokens one document mints
    None

\* init is initSession, which renews and sends nothing else.
Kinds == {"init", "authed", "commercial", "avatar", "sign out"}

ASSUME SessionAssumption ==
    /\ MaxTokens \in Nat
    /\ None \notin Renewals

VARIABLES
    token,     \* accessToken
    lost,      \* sessionLost
    renewing,  \* refreshInFlight
    renewals,  \* the runs of performRefresh that have not ended
    calls,     \* what each call is doing
    alive,     \* the refresh cookie names a session the server holds
    minted,    \* tokens minted for the document so far
    rejected   \* tokens the server takes no longer

sessionVars == <<token, lost, renewing, renewals, calls, alive, minted, rejected>>

Idle == [pc |-> "idle", kind |-> None, bearer |-> 0, on |-> None]

Init ==
    /\ token = 0 /\ lost = FALSE
    /\ renewing = None /\ renewals = {}
    /\ calls = [c \in Calls |-> Idle]
    /\ alive \in BOOLEAN
    /\ minted = 0 /\ rejected = {0}

At(c, pc) == calls[c].pc = pc

Waiting(r) == {c \in Calls : At(c, "waiting") /\ calls[c].on = r}

Becomes(c, call) == calls' = [calls EXCEPT ![c] = call]

Server == <<alive, minted, rejected>>

-----------------------------------------------------------------------------
(* Calls.                                                                  *)

\* A call is sent with the token of the moment; only a picture is asked for
\* when the session is lost.
Send(c, k) ==
    /\ At(c, "idle")
    /\ ~ lost \/ k = "avatar"
    /\ Becomes(c, [pc |-> "first", kind |-> k, bearer |-> token, on |-> None])
    /\ UNCHANGED <<token, lost, renewing, renewals, Server>>

\* A fault: every caller renews for itself.
RenewsAlone(c, call) ==
    \E r \in Renewals \ renewals :
        /\ renewing' = r
        /\ renewals' = renewals \cup {r}
        /\ Becomes(c, [call EXCEPT !.pc = "waiting", !.on = r])

\* refreshSession: the renewal under way, or a new one.
Joins(c, call) ==
    /\ IF renewing # None THEN UNCHANGED <<renewing, renewals>>
       ELSE \E r \in Renewals \ renewals : renewing' = r /\ renewals' = renewals \cup {r}
    /\ Becomes(c, [call EXCEPT !.pc = "waiting", !.on = renewing'])

InitSession(c) ==
    /\ At(c, "idle") /\ ~ lost
    /\ Joins(c, [Idle EXCEPT !.kind = "init"])
    /\ UNCHANGED <<token, lost, Server>>

\* The commercial service answers 401 on its own authority.
MayBeRefused(c) == calls[c].bearer \in rejected \/ calls[c].kind = "commercial"

\* What signOut does when its call has ended, however it ended.
Drops(c) ==
    IF calls[c].kind = "sign out"
    THEN token' = 0 /\ lost' = TRUE /\ renewing' = None
    ELSE UNCHANGED <<token, lost, renewing>>

\* An answer that is no 401; the server may have ended the session of a sign-out.
Answered(c) ==
    /\ calls[c].pc \in {"first", "retry"}
    /\ calls[c].bearer \notin rejected
    /\ Drops(c)
    /\ alive' \in IF calls[c].kind = "sign out" THEN {alive, FALSE} ELSE {alive}
    /\ Becomes(c, Idle)
    /\ UNCHANGED <<renewals, minted, rejected>>

\* The transport fails; the request may have been served all the same.
Unreachable(c) ==
    /\ calls[c].pc \in {"first", "retry"}
    /\ Drops(c)
    /\ alive' \in IF calls[c].kind = "sign out" /\ calls[c].bearer \notin rejected
                  THEN {alive, FALSE} ELSE {alive}
    /\ Becomes(c, Idle)
    /\ UNCHANGED <<renewals, minted, rejected>>

\* The first 401 of a call waits for a renewal.
Refused(c) ==
    /\ At(c, "first") /\ MayBeRefused(c) /\ ~ lost
    /\ Joins(c, calls[c])
    /\ UNCHANGED <<token, lost, Server>>

\* The first 401 of a call when the session was lost meanwhile.
RefusedWhenLost(c) ==
    /\ At(c, "first") /\ MayBeRefused(c) /\ lost
    /\ Drops(c)
    /\ Becomes(c, Idle)
    /\ UNCHANGED <<renewals, Server>>

\* A fault: the commercial service ends the session as well.
EndsAny(k) == TRUE

\* Whose second 401 ends the session: authedFetch's only.
EndsTheSession(k) == k \in {"authed", "sign out"}

\* The 401 of the replay.
RefusedAgain(c) ==
    /\ At(c, "retry") /\ MayBeRefused(c)
    /\ IF EndsTheSession(calls[c].kind)
       THEN /\ lost' = TRUE
            /\ token' = IF calls[c].kind # "sign out" /\ lost THEN token ELSE 0
            /\ renewing' = IF calls[c].kind = "sign out" THEN None ELSE renewing
       ELSE UNCHANGED <<token, lost, renewing>>
    /\ Becomes(c, Idle)
    /\ UNCHANGED <<renewals, Server>>

-----------------------------------------------------------------------------
(* Renewals.                                                               *)

\* A fault: the callers replay what they sent.
ReplaysAsSent(r) ==
    calls' = [c \in Calls |->
                 IF c \notin Waiting(r) THEN calls[c]
                 ELSE IF calls[c].kind = "init" THEN Idle
                 ELSE [calls[c] EXCEPT !.pc = "retry", !.on = None]]

\* The callers of a renewal resume with its token.
Replays(r) ==
    calls' = [c \in Calls |->
                 IF c \notin Waiting(r) THEN calls[c]
                 ELSE IF calls[c].kind = "init" THEN Idle
                 ELSE [calls[c] EXCEPT !.pc = "retry", !.on = None, !.bearer = token']]

\* A fault: the shared promise is not cleared.
RenewedForGood(r) ==
    /\ r \in renewals
    /\ alive
    /\ minted < MaxTokens
    /\ minted' = minted + 1
    /\ token' = minted + 1
    /\ renewals' = renewals \ {r}
    /\ Replays(r)
    /\ UNCHANGED <<renewing, lost, alive, rejected>>

\* performRefresh, answered with a token; the session may be lost by then.
Renewed(r) ==
    /\ r \in renewals
    /\ alive
    /\ minted < MaxTokens
    /\ minted' = minted + 1
    /\ token' = minted + 1
    /\ renewing' = None
    /\ renewals' = renewals \ {r}
    /\ Replays(r)
    /\ UNCHANGED <<lost, alive, rejected>>

\* A fault: an exception leaves the callers waiting.
TellsNobody(r) ==
    /\ r \in renewals
    /\ lost' = TRUE /\ token' = 0
    /\ renewing' = None
    /\ renewals' = renewals \ {r}
    /\ UNCHANGED <<calls, Server>>

\* performRefresh without a token, and every caller told that there is none.
\* (A session lost before a renewal ends has no token already.)
NotRenewed(r) ==
    /\ r \in renewals
    /\ lost' = TRUE
    /\ token' = 0
    /\ renewing' = None
    /\ renewals' = renewals \ {r}
    /\ calls' = [c \in Calls |-> IF c \in Waiting(r) THEN Idle ELSE calls[c]]
    /\ UNCHANGED Server

RenewalRefused(r) == NotRenewed(r) /\ ~ alive

RenewalUnreachable(r) == NotRenewed(r) /\ alive

-----------------------------------------------------------------------------
(* The sign-in call, the next document, and the world.                     *)

\* signIn and completeOpenIdSignIn, answered with a token.  The pages that sign
\* in have awaited their initSession and send nothing else before.
SignedIn ==
    /\ minted < MaxTokens
    /\ renewals = {} /\ \A c \in Calls : At(c, "idle")
    /\ minted' = minted + 1
    /\ token' = minted + 1
    /\ lost' = FALSE
    /\ alive' = TRUE
    /\ UNCHANGED <<renewing, renewals, calls, rejected>>

\* A document starts with nothing but the cookie.
NewDocument ==
    /\ token' = 0 /\ lost' = FALSE
    /\ renewing' = None /\ renewals' = {}
    /\ calls' = [c \in Calls |-> Idle]
    /\ minted' = 0 /\ rejected' = {0}
    /\ UNCHANGED alive

\* A token reaches the end of its 600 seconds.
Age ==
    /\ \E t \in (1..minted) \ rejected :
           /\ \A c \in Calls : At(c, "retry") => calls[c].bearer > t
           /\ rejected' = rejected \cup 1..t
    /\ UNCHANGED <<token, lost, renewing, renewals, calls, alive, minted>>

\* The session is ended elsewhere, or its account with all its tokens.
Revoke ==
    /\ alive
    /\ alive' = FALSE
    /\ rejected' \in {rejected, 0..minted}
    /\ UNCHANGED <<token, lost, renewing, renewals, calls, minted>>

CallSteps(c) ==
    \/ \E k \in Kinds \ {"init"} : Send(c, k)
    \/ InitSession(c)
    \/ Answered(c) \/ Unreachable(c)
    \/ Refused(c) \/ RefusedWhenLost(c) \/ RefusedAgain(c)

RenewalSteps(r) == Renewed(r) \/ RenewalRefused(r) \/ RenewalUnreachable(r)

SessionNext ==
    \/ \E c \in Calls : CallSteps(c)
    \/ \E r \in Renewals : RenewalSteps(r)
    \/ SignedIn \/ NewDocument \/ Age \/ Revoke

SessionSpec == Init /\ [][SessionNext]_sessionVars

-----------------------------------------------------------------------------
(* Properties.                                                             *)

Call == [pc : {"idle", "first", "waiting", "retry"}, kind : Kinds \cup {None},
         bearer : Nat, on : Renewals \cup {None}]

TypeOK ==
    /\ token \in 0..minted /\ minted \in Nat
    /\ lost \in BOOLEAN /\ alive \in BOOLEAN
    /\ renewing \in Renewals \cup {None} /\ renewals \in SUBSET Renewals
    /\ calls \in [Calls -> Call]
    /\ rejected \in SUBSET (0..minted)

\* One renewal at a time, however many calls are refused at once
\* (api.js:328-334): a second one would present the cookie the first replaces.
OneRenewalAtATime == \A r, s \in renewals : r = s

\* A call that waits, waits for a renewal that is under way: none is forgotten
\* by the promise that refreshSession shares and clears.
NoCallIsForgotten == \A c \in Calls : At(c, "waiting") => calls[c].on \in renewals

\* A replay carries a token the server still takes, or its session has been
\* ended since (authedFetch's second authInit, after performRefresh).
ReplaysAreFresh ==
    \A c \in Calls : At(c, "retry") => (calls[c].bearer \notin rejected \/ ~ alive)

\* A session the server holds is lost by the page in two ways only: a renewal
\* that does not get through, and its own sign-out.  No 401 of the commercial
\* service or of a picture ends it (api.js:1800-1829, 2125-2134).
KeepsALiveSession ==
    [][ (alive /\ alive' /\ ~ lost /\ lost') =>
            \/ \E r \in Renewals : RenewalUnreachable(r)
            \/ \E c \in Calls : calls[c].kind = "sign out" /\ calls'[c] = Idle ]_sessionVars
=============================================================================
