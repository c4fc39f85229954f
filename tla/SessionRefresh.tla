--------------------------- MODULE SessionRefresh ---------------------------
(***************************************************************************)
(* Staying signed in: refreshSession (pkg/modules/auth/auth.go) over the   *)
(* sessions table (pkg/models/sessions.go), and what the clients of this   *)
(* repository do with its answers.                                         *)
(*                                                                         *)
(* A session accepts its current refresh token and the one that was        *)
(* presented to obtain it.  A browser's renewal replaces the token; the    *)
(* OAuth grant keeps it.  Renewals of one session run concurrently, one    *)
(* statement at a time; requests and replies are delayed, lost and         *)
(* reordered; sessions are revoked, fall idle and are cleaned up.          *)
(*                                                                         *)
(* A transaction locks the session's row at its first UPDATE, so what the  *)
(* second UPDATE's WHERE clause sees is what the first one saw.            *)
(***************************************************************************)
EXTENDS Naturals

CONSTANTS
    Browsers,     \* hold the refresh token in a cookie all their tabs share
    Ones,         \* OAuth apps that keep the token from sign-in
    Desktops,     \* the Electron app: OAuth, tokens kept by the Vue frontend
    Requests,     \* renewals under way at once
    Overtaking,   \* what a client may do while a renewal is under way that it
                  \* gave up on or that another tab sent: "renew", "sign in"
    MaxTokens,    \* bounds the tokens ever issued
    None

Clients == Browsers \cup Ones \cup Desktops

\* What a renewal is answered, whatever made it fail.
Answers == {"renewed", "refused", "disabled", "failed"}

ASSUME KindsAssumption ==
    /\ Browsers \cap (Ones \cup Desktops) = {} /\ Ones \cap Desktops = {}
    /\ MaxTokens \in Nat
    /\ Overtaking \subseteq {"renew", "sign in"}
ASSUME NoneAssumption ==
    /\ None \notin Nat \cup Requests \cup Clients \cup Answers
    /\ None \notin [sid : Nat, current : Nat, previous : Nat \cup {None}, idle : BOOLEAN]

VARIABLES
    session,   \* per client its row of sessions, None while there is none
    held,      \* per client the refresh token it holds
    request,   \* what each renewal is doing
    lock,      \* per client the renewal that has locked its session's row
    disabled,  \* the user is disabled or locked
    issued     \* tokens issued so far: they are 1..issued

vars == <<session, held, request, lock, disabled, issued>>

\* localStorage keeps the string "undefined" for a token that is not there.
Undefined == 0

Free == [pc |-> "free", client |-> None, presented |-> None, sid |-> 0, read |-> 0,
         token |-> None, answer |-> None]

Accepted(c) == IF session[c] = None THEN {}
               ELSE {session[c].current, session[c].previous} \ {None}

Init ==
    /\ session = [c \in Clients |-> None]
    /\ held = [c \in Clients |-> None]
    /\ request = [r \in Requests |-> Free]
    /\ lock = [c \in Clients |-> None]
    /\ disabled = FALSE
    /\ issued = 0

Quiet(c) == \A r \in Requests : request[r].client # c

\* The row this renewal found is still there.
Row(r) ==
    /\ session[request[r].client] # None
    /\ session[request[r].client].sid = request[r].sid

Becomes(r, next) == request' = [request EXCEPT ![r] = next]

Stores(c, row) == session' = [session EXCEPT ![c] = row]

Moved(r, pc) == [request[r] EXCEPT !.pc = pc]

\* A fault: a path out of the handler leaves its transaction open.
StaysOpen(r, answer) ==
    /\ lock' = lock
    /\ Becomes(r, [request[r] EXCEPT !.pc = "replied", !.answer = answer])

\* The transaction of r ends, with an answer on its way to the client.
Ends(r, answer) ==
    /\ lock' = [c \in Clients |-> IF lock[c] = r THEN None ELSE lock[c]]
    /\ Becomes(r, [request[r] EXCEPT !.pc = "replied", !.answer = answer])

-----------------------------------------------------------------------------
(* A renewal at the server.                                                *)

\* GetSessionByRefreshToken, and the age of what it found.
LookUp(r) ==
    LET c == request[r].client
        t == request[r].presented IN
    /\ request[r].pc = "look up"
    /\ t \in Accepted(c)
    /\ Becomes(r, [request[r] EXCEPT !.pc = IF session[c].idle THEN "expired" ELSE "touch",
                                     !.sid = session[c].sid, !.read = session[c].current])
    /\ UNCHANGED <<session, held, lock, disabled, issued>>

LookUpFails(r) ==
    /\ request[r].pc = "look up"
    /\ request[r].presented \notin Accepted(request[r].client)
    /\ Ends(r, "refused")
    /\ UNCHANGED <<session, held, disabled, issued>>

\* A session idle past its limit is deleted, by id.
Expire(r) ==
    LET c == request[r].client IN
    /\ request[r].pc = "expired"
    /\ Row(r) => lock[c] = None
    /\ Stores(c, IF Row(r) THEN None ELSE session[c])
    /\ Ends(r, "refused")
    /\ UNCHANGED <<held, disabled, issued>>

\* A fault: the OAuth grant rotates too.
RotatesAll(c) == TRUE

\* refreshSession is told to rotate by the cookie's route only.
Rotates(c) == c \in Browsers

\* UpdateSessionLastActive locks the row; no row is no error.
Touch(r) ==
    LET c == request[r].client IN
    /\ request[r].pc = "touch"
    /\ Row(r) => lock[c] = None
    /\ lock' = [lock EXCEPT ![c] = IF Row(r) THEN r ELSE @]
    /\ Becomes(r, Moved(r, IF Rotates(c) THEN "rotate" ELSE "user"))
    /\ UNCHANGED <<session, held, disabled, issued>>

\* A fault: the WHERE clause names the session only.
CurrentOrNot(r) == Row(r)

\* The WHERE clause of RotateRefreshToken: the token read is still the current one.
StillCurrent(r) == Row(r) /\ session[request[r].client].current = request[r].read

Rotate(r) ==
    /\ request[r].pc = "rotate"
    /\ StillCurrent(r)
    /\ issued < MaxTokens
    /\ issued' = issued + 1
    /\ Becomes(r, [request[r] EXCEPT !.pc = "user", !.token = issued + 1])
    /\ UNCHANGED <<session, held, lock, disabled>>

RotateFails(r) ==
    /\ request[r].pc = "rotate"
    /\ ~ StillCurrent(r)
    /\ Ends(r, "refused")
    /\ UNCHANGED <<session, held, disabled, issued>>

\* The user is disabled or locked: the session is deleted and that committed.
UserRefused(r) ==
    LET c == request[r].client IN
    /\ request[r].pc = "user"
    /\ disabled
    /\ Stores(c, IF Row(r) THEN None ELSE session[c])
    /\ Ends(r, "disabled")
    /\ UNCHANGED <<held, disabled, issued>>

\* A fault: the token replaced becomes the previous one, whichever was presented.
RotatedFromRead(r) == [session[request[r].client] EXCEPT
    !.idle = FALSE, !.current = request[r].token, !.previous = request[r].read]

\* The row after both UPDATEs of a renewal that rotates.
Rotated(r) == [session[request[r].client] EXCEPT
    !.idle = FALSE, !.current = request[r].token, !.previous = request[r].presented]

Renewed(r) == IF Rotates(request[r].client) THEN Rotated(r)
              ELSE [session[request[r].client] EXCEPT !.idle = FALSE]

Commit(r) ==
    LET c == request[r].client IN
    /\ request[r].pc = "user"
    /\ ~ disabled
    /\ Stores(c, IF Row(r) THEN Renewed(r) ELSE session[c])
    /\ Ends(r, "renewed")
    /\ UNCHANGED <<held, disabled, issued>>

\* A statement or the commit fails, the process dies.
Fail(r) ==
    /\ request[r].pc \in {"look up", "expired", "touch", "rotate", "user"}
    /\ Ends(r, "failed")
    /\ UNCHANGED <<session, held, disabled, issued>>

Serve(r) ==
    \/ LookUp(r) \/ LookUpFails(r) \/ Expire(r)
    \/ Touch(r) \/ Rotate(r) \/ RotateFails(r)
    \/ UserRefused(r) \/ Commit(r) \/ Fail(r)

-----------------------------------------------------------------------------
(* The clients.                                                            *)

\* IssueUserToken, or the exchange of an OAuth code.
SignIn(c) ==
    /\ session[c] = None
    /\ "sign in" \in Overtaking \/ Quiet(c)
    /\ ~ disabled
    /\ issued < MaxTokens
    /\ issued' = issued + 1
    /\ Stores(c, [sid |-> issued + 1, current |-> issued + 1, previous |-> None,
                  idle |-> FALSE])
    /\ held' = [held EXCEPT ![c] = issued + 1]
    /\ UNCHANGED <<request, lock, disabled>>

Send(c, r) ==
    /\ held[c] # None
    /\ request[r] = Free
    /\ "renew" \in Overtaking \/ Quiet(c)
    /\ Becomes(r, [Free EXCEPT !.pc = "look up", !.client = c, !.presented = held[c]])
    /\ UNCHANGED <<session, held, lock, disabled, issued>>

\* What a client holds once the answer of r is there.
Keeps(r) ==
    LET c == request[r].client
        a == request[r].answer IN
    CASE c \in Browsers /\ a = "renewed" -> request[r].token
      [] c \in Browsers /\ a = "disabled" -> None
      [] c \in Desktops /\ a = "renewed" /\ held[c] = request[r].presented -> Undefined
      [] OTHER -> held[c]

Deliver(r) ==
    /\ request[r].pc = "replied"
    /\ held' = [held EXCEPT ![request[r].client] = Keeps(r)]
    /\ Becomes(r, Free)
    /\ UNCHANGED <<session, lock, disabled, issued>>

\* The request or the reply is lost.
Lose(r) ==
    /\ request[r].pc \in {"look up", "replied"}
    /\ Becomes(r, Free)
    /\ UNCHANGED <<session, held, lock, disabled, issued>>

Logout(c) ==
    /\ held[c] # None
    /\ session[c] # None => lock[c] = None
    /\ Stores(c, None)
    /\ held' = [held EXCEPT ![c] = None]
    /\ UNCHANGED <<request, lock, disabled, issued>>

-----------------------------------------------------------------------------
(* What ends sessions from elsewhere.                                      *)

\* DeleteSessionForUser, from another device or the provisioning channel.
Revoke(c) ==
    /\ session[c] # None
    /\ lock[c] = None
    /\ Stores(c, None)
    /\ UNCHANGED <<held, request, lock, disabled, issued>>

\* DeleteAllUserSessions, when the password changes.
RevokeAll ==
    /\ \A c \in Clients : session[c] # None => lock[c] = None
    /\ session' = [c \in Clients |-> None]
    /\ UNCHANGED <<held, request, lock, disabled, issued>>

\* Time passes the limit of the session.
FallIdle(c) ==
    /\ session[c] # None
    /\ Stores(c, [session[c] EXCEPT !.idle = TRUE])
    /\ UNCHANGED <<held, request, lock, disabled, issued>>

CleanUp(c) ==
    /\ session[c] # None
    /\ session[c].idle
    /\ lock[c] = None
    /\ Stores(c, None)
    /\ UNCHANGED <<held, request, lock, disabled, issued>>

SetDisabled(d) ==
    /\ disabled' = d
    /\ UNCHANGED <<session, held, request, lock, issued>>

-----------------------------------------------------------------------------

Next ==
    \/ \E r \in Requests : Serve(r) \/ Deliver(r) \/ Lose(r)
    \/ \E c \in Clients, r \in Requests : Send(c, r)
    \/ \E c \in Clients : SignIn(c) \/ Logout(c) \/ Revoke(c) \/ FallIdle(c) \/ CleanUp(c)
    \/ RevokeAll
    \/ \E d \in BOOLEAN : SetDisabled(d)

Spec == Init /\ [][Next]_vars

-----------------------------------------------------------------------------
(* Properties.                                                             *)

Token == 1..issued

SessionRow == [sid : Token, current : Token, previous : Token \cup {None}, idle : BOOLEAN]

Renewal ==
    [pc : {"free", "look up", "expired", "touch", "rotate", "user", "replied"},
     client : Clients \cup {None}, presented : Token \cup {Undefined, None},
     sid : Token \cup {0}, read : Token \cup {0}, token : Token \cup {None},
     answer : Answers \cup {None}]

\* The lock on a row is held by a renewal that is still to end.
LocksAreHeld ==
    /\ \A r \in Requests : request[r].pc # "free" => request[r].client \in Clients
    /\ \A c \in Clients : lock[c] # None =>
          request[lock[c]].client = c /\ request[lock[c]].pc \in {"rotate", "user"}

\* A browser holds and presents real tokens; one that renews has a new one.
BrowserTokens ==
    /\ \A c \in Browsers : held[c] \in Token \cup {None}
    /\ \A r \in Requests : request[r].client \in Browsers =>
          /\ request[r].presented \in Token
          /\ request[r].pc = "user" => request[r].token \in Token

TypeOK ==
    /\ issued \in 0..MaxTokens
    /\ session \in [Clients -> SessionRow \cup {None}]
    /\ held \in [Clients -> Token \cup {Undefined, None}]
    /\ request \in [Requests -> Renewal]
    /\ lock \in [Clients -> Requests \cup {None}]
    /\ disabled \in BOOLEAN
    /\ LocksAreHeld
    /\ BrowserTokens

(***************************************************************************)
(* "A client whose refresh reply was lost is not signed out": whenever     *)
(* nothing is under way for a client whose session is there, the session   *)
(* accepts the token the client holds.                                     *)
(***************************************************************************)
LostReplyNeverSignsOut ==
    \A c \in Clients : session[c] # None /\ held[c] # None /\ Quiet(c)
                        => held[c] \in Accepted(c)

OnlyNewTokens ==
    \A c \in Clients : \A t \in Accepted(c)' \ Accepted(c) :
        \/ t = issued + 1
        \/ \E r \in Requests : /\ request[r].pc = "user"
                              /\ request[r].token = t
                              /\ request'[r].answer = "renewed"

(***************************************************************************)
(* A token that is refused stays refused: the only tokens that come to be  *)
(* accepted are the one a sign-in issues and the new one of the renewal    *)
(* that commits.  A renewal delayed while others rotate the session, or    *)
(* while it ends, never brings the token it presented back.                *)
(***************************************************************************)
DeadTokensStayDead == [][OnlyNewTokens]_vars

(***************************************************************************)
(* "Concurrent refreshes with the same token cannot both succeed": of the  *)
(* browser renewals that found the session in the same state, one answers  *)
(* with a new token.                                                       *)
(***************************************************************************)
OneWinner ==
    \A q, r \in Requests :
        /\ request[q].answer = "renewed" /\ request[r].answer = "renewed"
        /\ request[q].client = request[r].client /\ request[q].client \in Browsers
        /\ request[q].sid = request[r].sid /\ request[q].read = request[r].read
        => q = r

(***************************************************************************)
(* An OAuth app's token is issued once, at sign-in: no renewal of its      *)
(* session ever replaces it.                                               *)
(***************************************************************************)
AppTokenIsFixed ==
    \A c \in Clients \ Browsers :
        session[c] # None => Accepted(c) = {session[c].sid}
=============================================================================
