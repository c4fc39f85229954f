------------------------------- MODULE OneTab -------------------------------
(***************************************************************************)
(* One browser tab of Brazn One: the documents that follow each other in   *)
(* it (app.js's pages and signin.html), each with its own PageSession, and *)
(* what outlives them: the refresh cookie and the hand-off marker of the   *)
(* tab's sessionStorage.                                                   *)
(*                                                                         *)
(* boot (app.js) opens the session, reads the account and renders; without *)
(* a session it hands the tab to the sign-in page, once where the marker   *)
(* can be kept.  The sign-in page skips its form when the cookie still     *)
(* opens a session (signin.js).                                            *)
(*                                                                         *)
(* Two readings end boot: the account stands for all the reads after the   *)
(* session.  Logging out at an identity provider is left out.              *)
(***************************************************************************)
EXTENDS PageSession

CONSTANT MaxVisits   \* bounds what the person does: presses and addresses opened

ASSUME VisitsAssumption == MaxVisits \in Nat

VARIABLES
    document,   \* "app" or "signin"
    page,       \* how far the document has come
    redirected, \* redirectCount > 0: the server sent the tab on to the document
    marker,     \* LOGIN_HANDOFF_MARKER, or that sessionStorage is unusable
    handOffs,   \* automatic hand-offs since a session or a press, up to Often
    signedOut,  \* the person signed out and has not signed in since
    visits      \* what the person did so far

tabVars == <<document, page, redirected, marker, handOffs, signedOut, visits>>
vars == <<sessionVars, tabVars>>

TabInit ==
    /\ Init
    /\ document \in {"app", "signin"} /\ page = "boot"
    /\ redirected \in BOOLEAN /\ marker \in {"clear", "unusable"}
    /\ handOffs = 0 /\ signedOut = FALSE /\ visits = 0

\* The page stays as it is.
Still == UNCHANGED tabVars

Shows(p) == page' = p

\* A fault: a destination that is no document.
LeavesForNowhere == Shows("nowhere")

\* The tab is on its way to the other document.
Leaves == Shows("leaving")

-----------------------------------------------------------------------------
(* The hand-off (handOffToLogin, showSignInSurface).                       *)

\* More hand-offs than this are not counted.
Often == 2

\* A fault: the marker is not consulted.
AlwaysHandsOff(force) == force \/ TRUE

\* Whether the server redirected is asked only where storage cannot answer.
shouldHandOffToLogin(force) ==
    force \/ marker = "clear" \/ (marker = "unusable" /\ ~ redirected)

writeHandoffMarker(m) == marker' = IF marker = "unusable" THEN marker ELSE m

\* Boot found no session: hand off, or show the sign-in surface.
HandsOff ==
    /\ IF shouldHandOffToLogin(FALSE)
       THEN /\ Leaves /\ writeHandoffMarker("set")
            /\ handOffs' = IF handOffs < Often THEN handOffs + 1 ELSE Often
       ELSE Shows("ended") /\ UNCHANGED <<marker, handOffs>>
    /\ UNCHANGED <<document, redirected, signedOut, visits>>

\* Boot found a session: the marker is cleared.
HasSession ==
    /\ Shows("account")
    /\ writeHandoffMarker("clear") /\ handOffs' = 0
    /\ UNCHANGED <<document, redirected, signedOut, visits>>

\* A fault: nothing listens.
OnLostUnheard == Still

\* The session is lost after boot: onSessionLost's listener.
OnLost ==
    /\ Shows(IF page = "leaving" THEN page ELSE "ended")
    /\ UNCHANGED <<document, redirected, marker, handOffs, signedOut, visits>>

-----------------------------------------------------------------------------
(* What a step of the session means for the page.                          *)

\* boot calls initSession.
Boot(c) ==
    /\ page = "boot"
    /\ InitSession(c)
    /\ Shows("session")
    /\ UNCHANGED <<document, redirected, marker, handOffs, signedOut, visits>>

ReadAccount(c) ==
    /\ document = "app" /\ page = "account"
    /\ Send(c, "authed")
    /\ Shows("reading")
    /\ UNCHANGED <<document, redirected, marker, handOffs, signedOut, visits>>

\* A call of a page that is shown; sign-out is a press.
Calling(c, k) ==
    /\ document = "app" /\ page = "ready"
    /\ k = "sign out" => visits < MaxVisits
    /\ Send(c, k)
    /\ visits' = IF k = "sign out" THEN visits + 1 ELSE visits
    /\ UNCHANGED <<document, page, redirected, marker, handOffs, signedOut>>

\* The handler of sign-out goes to the sign-in page, whatever the answer was.
SignedOut ==
    /\ Leaves
    /\ signedOut' = TRUE
    /\ UNCHANGED <<document, redirected, marker, handOffs, visits>>

\* The handlers of a call that ended without the session being lost.
Settles(c, answered) ==
    IF calls[c].kind = "sign out" THEN SignedOut
    ELSE IF page = "reading"
         THEN /\ Shows(IF answered THEN "ready" ELSE "failed")
              /\ UNCHANGED <<document, redirected, marker, handOffs, signedOut, visits>>
         ELSE Still

\* The handlers of calls that ended in a SessionLostError: boot hands off, but
\* goes on where it was a team's read that met it (Promise.allSettled).
Loses(ended) ==
    IF \E c \in ended : calls[c].kind = "sign out" THEN SignedOut
    ELSE IF document = "signin" /\ page = "session"
         THEN Shows("form") /\ UNCHANGED <<document, redirected, marker, handOffs, signedOut, visits>>
    ELSE IF page = "session" THEN HandsOff
    ELSE IF page = "reading" THEN HandsOff \/ OnLost
    ELSE OnLost

TabAnswered(c) == Answered(c) /\ Settles(c, TRUE)

TabUnreachable(c) == Unreachable(c) /\ Settles(c, FALSE)

TabRefused(c) == Refused(c) /\ Still

TabRefusedWhenLost(c) ==
    /\ RefusedWhenLost(c)
    /\ IF calls[c].kind = "sign out" THEN SignedOut ELSE Still

TabRefusedAgain(c) ==
    /\ RefusedAgain(c)
    /\ IF EndsTheSession(calls[c].kind) THEN Loses({c}) ELSE Settles(c, TRUE)

\* A session is there: boot goes on, the sign-in page leaves for the product.
TabRenewed(r) ==
    /\ Renewed(r)
    /\ IF page # "session" THEN Still
       ELSE IF document = "app" THEN HasSession
       ELSE Leaves /\ UNCHANGED <<document, redirected, marker, handOffs, signedOut, visits>>

TabNotRenewed(r) == (RenewalRefused(r) \/ RenewalUnreachable(r)) /\ Loses(Waiting(r))

-----------------------------------------------------------------------------
(* The person, and the next document.                                      *)

Acts == visits < MaxVisits /\ visits' = visits + 1

\* submitSignIn with credentials the server takes, and landAfterSignIn.
SubmitSignIn ==
    /\ document = "signin" /\ page = "form"
    /\ Acts
    /\ SignedIn
    /\ Leaves
    /\ signedOut' = FALSE
    /\ UNCHANGED <<document, redirected, marker, handOffs>>

\* The button of the sign-in surface.
PressSignIn ==
    /\ page = "ended"
    /\ Acts
    /\ Leaves
    /\ writeHandoffMarker("set") /\ handOffs' = 0
    /\ UNCHANGED <<sessionVars, document, redirected, signedOut>>

\* A document asked for by its own address, or by one the server redirects.
Loads(d) ==
    /\ NewDocument
    /\ document' = d /\ redirected' \in BOOLEAN
    /\ Shows("boot")
    /\ UNCHANGED <<marker, handOffs, signedOut>>

\* The document that location.assign asked for.
Arrive ==
    /\ page = "leaving"
    /\ Loads(IF document = "app" THEN "signin" ELSE "app")
    /\ visits' = visits

\* The person opens an address, reloads, or presses retry.
Open(d) == Acts /\ Loads(d)

Elsewhere == (Age \/ Revoke) /\ Still

TabNext ==
    \/ \E c \in Calls :
           \/ Boot(c) \/ ReadAccount(c)
           \/ \E k \in Kinds \ {"init"} : Calling(c, k)
           \/ TabAnswered(c) \/ TabUnreachable(c)
           \/ TabRefused(c) \/ TabRefusedWhenLost(c) \/ TabRefusedAgain(c)
    \/ \E r \in Renewals : TabRenewed(r) \/ TabNotRenewed(r)
    \/ SubmitSignIn \/ PressSignIn \/ Arrive
    \/ \E d \in {"app", "signin"} : Open(d)
    \/ Elsewhere

\* Scripts run on and requests are answered or fail; nobody has to press anything.
Fairness ==
    /\ WF_vars(Arrive)
    /\ WF_vars(\E c \in Calls : Boot(c) \/ ReadAccount(c))
    /\ \A c \in Calls :
           WF_vars(TabAnswered(c) \/ TabUnreachable(c) \/ TabRefused(c)
                   \/ TabRefusedWhenLost(c) \/ TabRefusedAgain(c))
    /\ \A r \in Renewals : WF_vars(TabRenewed(r) \/ TabNotRenewed(r))

TabSpec == TabInit /\ [][TabNext]_vars

FairTabSpec == TabSpec /\ Fairness

-----------------------------------------------------------------------------
(* Properties.                                                             *)

TabTypeOK ==
    /\ TypeOK
    /\ document \in {"app", "signin"}
    /\ page \in {"boot", "session", "account", "reading", "ready", "form", "failed", "ended", "leaving"}
    /\ redirected \in BOOLEAN /\ signedOut \in BOOLEAN
    /\ marker \in {"clear", "set", "unusable"}
    /\ handOffs \in 0..Often /\ visits \in 0..MaxVisits

\* The automatic hand-off is bounded: without a session and without a press,
\* the tab is sent to the sign-in page once, whatever addresses are opened
\* (app.js:2616-2622).  Where sessionStorage is unusable nothing remembers the
\* hand-off, and every document that was not redirected takes another.
HandsOffOnce == marker # "unusable" => handOffs <= 1

\* A document that shows its content has a session that is not lost, or the
\* sign-in surface covers it (onSessionLost registered by boot before any read).
LostIsShown == document = "app" /\ lost => page \in {"ended", "leaving"}

\* From some time on, no token ages; every renewal the server grants gets through.
NoTokenAges == <>[][~ Age]_vars
RenewalsGetThrough == <>[][\A r \in Renewals : ~ RenewalUnreachable(r)]_vars

\* The tab comes to rest: no answer, however late, leaves boot waiting, and no
\* chain of documents goes on by itself.  The two pages may send the tab to
\* each other for as long as renewals that the server grants keep failing and,
\* where the marker can be kept, tokens age during boot: a session clears the
\* marker (app.js:2804-2806), and its loss in the same boot hands off again.
Busy == page \in {"boot", "session", "account", "reading", "leaving"}
ComesToRest ==
    RenewalsGetThrough \/ (marker # "unusable" /\ NoTokenAges) => <>[] ~ Busy

\* Every call of a document that stays ends: the promise of a shared renewal is
\* settled for all its callers.
CallsEnd == \A c \in Calls : ~ At(c, "idle") ~> At(c, "idle")

\* view-settings.js:1832-1834, api.js:495-497: a logout that failed on the server
\* must not leave this tab signed in: whoever signed out sees the product again
\* after signing in only.
SignedOutStaysOut == signedOut => page \notin {"account", "reading", "ready"}
=============================================================================
